---------------------------- MODULE SequenceFacts ----------------------------
(***************************************************************************)
(* Facts about sequences: without repetition, such as the jobs in a queue  *)
(* or the names a loader has left to treat; and made of sequences and of   *)
(* sets, such as the lists of a translation (Listing).                     *)
(***************************************************************************)
EXTENDS Listing, SequenceTheorems, FiniteSetTheorems, TLAPS

\* No element comes twice.
Simple(s) == \A i, j \in DOMAIN s : s[i] = s[j] => i = j

\* A new element at the end.
LEMMA AppendNew ==
  ASSUME NEW S, NEW s \in Seq(S), Simple(s), NEW x \in S, x \notin ToSet(s)
  PROVE  /\ Append(s, x) \in Seq(S) /\ Simple(Append(s, x))
         /\ ToSet(Append(s, x)) = ToSet(s) \cup {x}
<1> DEFINE a == Append(s, x)
<1>1. /\ a \in Seq(S) /\ Len(s) \in Nat /\ Len(a) = Len(s) + 1
      /\ a[Len(s) + 1] = x /\ \A i \in 1 .. Len(s) : a[i] = s[i]
  BY AppendProperties, LenProperties
<1>2. DOMAIN a = 1 .. Len(s) + 1 /\ DOMAIN s = 1 .. Len(s)
  BY <1>1, LenProperties
<1> HIDE DEF a
<1>3. \A i \in DOMAIN s : s[i] # x
  BY DEF ToSet
<1>4. Simple(a)
  BY <1>1, <1>2, <1>3 DEF Simple
<1>5. (\A i \in DOMAIN a : a[i] \in ToSet(s) \cup {x}) /\ x \in ToSet(a)
      /\ \A i \in DOMAIN s : s[i] \in ToSet(a)
  BY <1>1, <1>2 DEF ToSet
<1>6. ToSet(a) = ToSet(s) \cup {x}
  BY <1>5 DEF ToSet
<1>7. QED
  BY <1>1, <1>4, <1>6 DEF a

\* Without its head.
LEMMA TailOfSimple ==
  ASSUME NEW S, NEW s \in Seq(S), Simple(s), s # <<>>
  PROVE  /\ Head(s) \in S /\ Head(s) \in ToSet(s)
         /\ Tail(s) \in Seq(S) /\ Simple(Tail(s)) /\ ToSet(Tail(s)) = ToSet(s) \ {Head(s)}
<1> DEFINE t == Tail(s)
<1>1. /\ Head(s) \in S /\ t \in Seq(S) /\ Len(t) = Len(s) - 1 /\ Len(s) \in Nat \ {0}
      /\ \A i \in 1 .. Len(t) : t[i] = s[i + 1]
  BY HeadTailProperties, EmptySeq
<1>2. DOMAIN t = 1 .. Len(s) - 1 /\ DOMAIN s = 1 .. Len(s) /\ Head(s) = s[1]
  BY <1>1, LenProperties
<1> HIDE DEF t
<1>3. Simple(t)
  BY <1>1, <1>2 DEF Simple
<1>4. \A i \in DOMAIN t : t[i] \in ToSet(s) \ {Head(s)}
  BY <1>1, <1>2 DEF Simple, ToSet
<1>5. \A i \in DOMAIN s : s[i] # Head(s) => s[i] \in ToSet(t)
  <2> SUFFICES ASSUME NEW i \in DOMAIN s, s[i] # Head(s) PROVE s[i] \in ToSet(t)
    OBVIOUS
  <2>1. i - 1 \in DOMAIN t /\ t[i - 1] = s[i]
    BY <1>1, <1>2
  <2>2. QED
    BY <2>1 DEF ToSet
<1>6. ToSet(t) = ToSet(s) \ {Head(s)}
  BY <1>4, <1>5 DEF ToSet
<1>7. Head(s) \in ToSet(s)
  BY <1>1, <1>2 DEF ToSet
<1>8. QED
  BY <1>1, <1>3, <1>6, <1>7 DEF t

\* Without the one occurrence of an element.
LEMMA RemoveOne ==
  ASSUME NEW S, NEW s \in Seq(S), Simple(s), NEW x
  PROVE  /\ RemoveFirst(s, x) \in Seq(S) /\ Simple(RemoveFirst(s, x))
         /\ ToSet(RemoveFirst(s, x)) = ToSet(s) \ {x}
<1>1. DOMAIN s = 1 .. Len(s) /\ Len(s) \in Nat
  BY LenProperties
<1>2. CASE ~\E i \in 1 .. Len(s) : s[i] = x
  BY <1>1, <1>2 DEF RemoveFirst, ToSet
<1>3. ASSUME NEW k \in 1 .. Len(s), s[k] = x
      PROVE  /\ RemoveFirst(s, x) \in Seq(S) /\ Simple(RemoveFirst(s, x))
             /\ ToSet(RemoveFirst(s, x)) = ToSet(s) \ {x}
  <2> DEFINE front == SubSeq(s, 1, k - 1)
             back == SubSeq(s, k + 1, Len(s))
             w == front \o back
  <2>1. k \in Nat /\ 1 <= k /\ k <= Len(s)
    BY <1>1
  <2>2. \A i \in 1 .. Len(s) : s[i] = x <=> i = k
    BY <1>1, <1>3 DEF Simple
  <2>3. RemoveFirst(s, x) = w
    <3>1. {i \in 1 .. Len(s) : s[i] = x} = {k}
      BY <2>2
    <3>2. Min({k}) = k
      BY <2>1 DEF Min
    <3>3. SelectInSeq(s, LAMBDA v : v = x) = k
      BY <3>1, <3>2 DEF SelectInSeq
    <3>4. QED
      BY <1>3, <3>3 DEF RemoveFirst, RemoveAt
  <2>4. \A i \in 1 .. Len(s) : s[i] \in S
    BY <1>1, ElementOfSeq
  <2>5. /\ front \in Seq(S) /\ Len(front) = k - 1 /\ \A i \in 1 .. k - 1 : front[i] = s[i]
    BY <1>1, <2>1, <2>4, SubSeqProperties
  <2>6. /\ back \in Seq(S) /\ Len(back) = Len(s) - k
        /\ \A i \in 1 .. Len(s) - k : back[i] = s[k + i]
    <3>1. /\ back \in Seq(S) /\ Len(back) = IF k + 1 <= Len(s) THEN Len(s) - (k + 1) + 1 ELSE 0
          /\ \A i \in 1 .. Len(s) - (k + 1) + 1 : back[i] = s[(k + 1) + i - 1]
      <4>1. k + 1 \in Int /\ Len(s) \in Int /\ \A i \in (k + 1) .. Len(s) : s[i] \in S
        BY <1>1, <2>1, <2>4
      <4>2. QED
        BY <4>1, SubSeqProperties
    <3> HIDE DEF back
    <3>2. Len(back) = Len(s) - k /\ Len(s) - (k + 1) + 1 = Len(s) - k
      <4>1. Len(back) = IF k + 1 <= Len(s) THEN Len(s) - (k + 1) + 1 ELSE 0
        BY <3>1
      <4>2. Len(s) \in Nat
        BY <1>1
      <4>3. Len(s) - (k + 1) + 1 = Len(s) - k
        BY <2>1, <4>2
      <4>4. CASE k + 1 <= Len(s)
        BY <4>1, <4>3, <4>4
      <4>5. CASE ~(k + 1 <= Len(s))
        BY <2>1, <4>1, <4>2, <4>5
      <4>6. QED
        BY <4>3, <4>4, <4>5
    <3>3. ASSUME NEW i \in 1 .. Len(s) - k PROVE back[i] = s[k + i]
      <4>1. (k + 1) + i - 1 = k + i
        BY <2>1
      <4>2. QED
        BY <3>1, <3>2, <4>1
    <3>4. QED
      BY <3>1, <3>2, <3>3
  <2> HIDE DEF front, back
  <2>7. /\ w \in Seq(S) /\ Len(w) = Len(front) + Len(back)
        /\ \A i \in 1 .. Len(front) + Len(back) :
             w[i] = IF i <= Len(front) THEN front[i] ELSE back[i - Len(front)]
    BY <2>5, <2>6, ConcatProperties
  <2> HIDE DEF w
  <2>8. Len(w) = Len(s) - 1 /\ DOMAIN w = 1 .. Len(s) - 1
    BY <1>1, <2>1, <2>5, <2>6, <2>7, LenProperties
  <2>9. \A i \in 1 .. Len(s) - 1 : i < k => w[i] = s[i]
    <3> SUFFICES ASSUME NEW i \in 1 .. Len(s) - 1, i < k PROVE w[i] = s[i]
      OBVIOUS
    <3>1. i \in 1 .. Len(front) + Len(back) /\ i <= Len(front) /\ i \in 1 .. k - 1
      BY <1>1, <2>1, <2>5, <2>6
    <3>2. QED
      BY <2>5, <2>7, <3>1
  <2>10. \A i \in 1 .. Len(s) - 1 : i >= k => w[i] = s[i + 1]
    <3> SUFFICES ASSUME NEW i \in 1 .. Len(s) - 1, i >= k PROVE w[i] = s[i + 1]
      OBVIOUS
    <3>1. i \in 1 .. Len(front) + Len(back) /\ ~(i <= Len(front)) /\ Len(front) = k - 1
          /\ i - (k - 1) \in 1 .. Len(s) - k
      BY <1>1, <2>1, <2>5, <2>6
    <3>2. w[i] = back[i - (k - 1)] /\ i - (k - 1) \in 1 .. Len(s) - k
      BY <2>7, <3>1
    <3>3. back[i - (k - 1)] = s[k + (i - (k - 1))] /\ k + (i - (k - 1)) = i + 1
      BY <1>1, <2>1, <2>6, <3>2
    <3>4. QED
      BY <3>2, <3>3
  <2>11. ASSUME NEW i \in 1 .. Len(s) - 1
         PROVE  \E j \in 1 .. Len(s) : j # k /\ w[i] = s[j] /\ j = IF i < k THEN i ELSE i + 1
    <3>1. CASE i < k
      BY <1>1, <2>1, <2>9, <3>1
    <3>2. CASE i >= k
      BY <1>1, <2>1, <2>10, <3>2
    <3>3. QED
      BY <2>1, <3>1, <3>2
  <2>12. Simple(w)
    <3> SUFFICES ASSUME NEW i \in 1 .. Len(s) - 1, NEW j \in 1 .. Len(s) - 1, w[i] = w[j]
                 PROVE  i = j
      BY <2>8 DEF Simple
    <3>1. PICK m \in 1 .. Len(s) : w[i] = s[m] /\ m = IF i < k THEN i ELSE i + 1
      BY <2>11
    <3>2. PICK n \in 1 .. Len(s) : w[j] = s[n] /\ n = IF j < k THEN j ELSE j + 1
      BY <2>11
    <3>3. m = n
      BY <1>1, <3>1, <3>2 DEF Simple
    <3>4. QED
      BY <2>1, <3>1, <3>2, <3>3
  <2>13. \A i \in DOMAIN w : w[i] \in ToSet(s) \ {x}
    BY <1>1, <2>2, <2>8, <2>11 DEF ToSet
  <2>14. ASSUME NEW i \in 1 .. Len(s), s[i] # x PROVE s[i] \in ToSet(w)
    <3>1. CASE i < k
      <4>1. i \in DOMAIN w /\ w[i] = s[i]
        BY <1>1, <2>1, <2>8, <2>9, <3>1
      <4>2. QED
        BY <4>1 DEF ToSet
    <3>2. CASE i > k
      <4>1. i - 1 \in DOMAIN w /\ w[i - 1] = s[i]
        BY <1>1, <2>1, <2>8, <2>10, <3>2
      <4>2. QED
        BY <4>1 DEF ToSet
    <3>3. QED
      BY <1>3, <2>1, <2>14, <3>1, <3>2
  <2>15. ToSet(w) = ToSet(s) \ {x}
    BY <1>1, <2>13, <2>14 DEF ToSet
  <2>16. QED
    BY <2>3, <2>7, <2>12, <2>15
<1>4. QED
  BY <1>2, <1>3

-----------------------------------------------------------------------------
\* A set of numbers has a least one.
LEMMA LeastNumber ==
  ASSUME NEW S \in SUBSET Nat, S # {}
  PROVE  \E n \in S : \A m \in S : n <= m
<1> DEFINE R == OpToRel(<, Nat)
<1>1. IsWellFoundedOn(R, Nat)
  BY NatLessThanWellFounded
<1>2. \A x, y \in Nat : <<x, y>> \in R <=> x < y
  BY DEF OpToRel
<1> HIDE DEF R
<1>3. PICK n \in S : \A m \in S : ~(<<m, n>> \in R)
  BY <1>1, WFMin
<1>4. ASSUME NEW m \in S PROVE n <= m
  <2>1. m \in Nat /\ n \in Nat
    OBVIOUS
  <2>2. ~(m < n)
    BY <1>2, <1>3, <2>1, Zenon
  <2> QED
    BY <2>1, <2>2
<1>5. QED
  BY <1>4

\* Induction, about the set of the numbers that have a property: the theorems of the
\* library take the property as an operator.
LEMMA Induction ==
  ASSUME NEW S, 0 \in S, \A n \in Nat : n \in S => n + 1 \in S
  PROVE  Nat \subseteq S
<1> SUFFICES ASSUME Nat \ S # {} PROVE FALSE
  OBVIOUS
<1>1. PICK n \in Nat \ S : \A m \in Nat \ S : n <= m
  BY LeastNumber
<1>2. n # 0 /\ n - 1 \in Nat /\ n - 1 \in S
  BY <1>1
<1> QED
  BY <1>1, <1>2

\* A function on 1..n with values in S is a sequence.
LEMMA Comprehension ==
  ASSUME NEW S, NEW n \in Nat, NEW f \in [1..n -> S]
  PROVE  f \in Seq(S) /\ Len(f) = n /\ DOMAIN f = 1..n
<1>1. f \in Seq(S)
  BY SeqDef
<1>2. DOMAIN f = 1..n /\ DOMAIN f = 1..Len(f) /\ Len(f) \in Nat
  BY <1>1, LenProperties
<1> QED
  BY <1>1, <1>2

\* What a sequence is made of.
LEMMA Elements ==
  ASSUME NEW S, NEW s \in Seq(S)
  PROVE  /\ \A x : x \in ToSet(s) <=> \E k \in 1..Len(s) : s[k] = x
         /\ ToSet(s) \subseteq S /\ s \in Seq(ToSet(s))
         /\ IsFiniteSet(ToSet(s))
         /\ s = <<>> <=> ToSet(s) = {}
<1>1. Len(s) \in Nat /\ DOMAIN s = 1..Len(s) /\ s \in [1..Len(s) -> S]
  BY LenProperties
<1>2. /\ \A x : x \in ToSet(s) <=> \E k \in 1..Len(s) : s[k] = x
      /\ ToSet(s) \subseteq S /\ s \in [1..Len(s) -> ToSet(s)]
  BY <1>1 DEF ToSet
<1>3. s \in Seq(ToSet(s))
  BY <1>1, <1>2, SeqDef
<1>4. IsFiniteSet(ToSet(s))
  <2>1. s \in Surjection(1..Len(s), ToSet(s))
    BY <1>1, <1>2 DEF Surjection
  <2> QED
    BY <1>1, <2>1, FS_Interval, FS_Surjection
<1>5. s = <<>> <=> ToSet(s) = {}
  <2>1. CASE s = <<>>
    BY <2>1 DEF ToSet
  <2>2. CASE s # <<>>
    <3>1. 1 \in 1..Len(s)
      BY <2>2, EmptySeq
    <3> QED
      BY <1>2, <3>1, <2>2
  <2> QED
    BY <2>1, <2>2
<1> QED
  BY <1>2, <1>3, <1>4, <1>5

\* Two sequences, one after the other.
LEMMA Joined ==
  ASSUME NEW S, NEW s \in Seq(S), NEW t \in Seq(S)
  PROVE  /\ s \o t \in Seq(S) /\ ToSet(s \o t) = ToSet(s) \cup ToSet(t)
         /\ Simple(s) /\ Simple(t) /\ ToSet(s) \cap ToSet(t) = {} => Simple(s \o t)
<1> DEFINE w == s \o t
<1>1. /\ w \in Seq(S) /\ Len(w) = Len(s) + Len(t)
      /\ \A i \in 1..(Len(s) + Len(t)) : w[i] = IF i <= Len(s) THEN s[i] ELSE t[i - Len(s)]
  BY ConcatProperties
<1>2. /\ Len(s) \in Nat /\ DOMAIN s = 1..Len(s) /\ Len(t) \in Nat /\ DOMAIN t = 1..Len(t)
      /\ DOMAIN w = 1..(Len(s) + Len(t))
  BY <1>1, LenProperties
<1> HIDE DEF w
<1>3. \A i \in DOMAIN w : \/ i \in DOMAIN s /\ w[i] = s[i]
                          \/ i - Len(s) \in DOMAIN t /\ i > Len(s) /\ w[i] = t[i - Len(s)]
  BY <1>1, <1>2
<1>4. \A i \in DOMAIN s : i \in DOMAIN w /\ w[i] = s[i]
  BY <1>1, <1>2
<1>5. \A i \in DOMAIN t : i + Len(s) \in DOMAIN w /\ w[i + Len(s)] = t[i]
  <2> SUFFICES ASSUME NEW i \in DOMAIN t PROVE i + Len(s) \in DOMAIN w /\ w[i + Len(s)] = t[i]
    OBVIOUS
  <2>1. i + Len(s) \in DOMAIN w /\ ~(i + Len(s) <= Len(s)) /\ i + Len(s) - Len(s) = i
    BY <1>2
  <2> QED
    BY <1>1, <1>2, <2>1
<1>6. ToSet(w) = ToSet(s) \cup ToSet(t)
  <2>1. ToSet(w) \subseteq ToSet(s) \cup ToSet(t)
    BY <1>3 DEF ToSet
  <2>2. ToSet(s) \subseteq ToSet(w)
    BY <1>4 DEF ToSet
  <2>3. ToSet(t) \subseteq ToSet(w)
    BY <1>5 DEF ToSet
  <2> QED
    BY <2>1, <2>2, <2>3
<1>7. ASSUME Simple(s), Simple(t), ToSet(s) \cap ToSet(t) = {} PROVE Simple(w)
  <2> SUFFICES ASSUME NEW i \in DOMAIN w, NEW j \in DOMAIN w, w[i] = w[j] PROVE i = j
    BY DEF Simple
  <2>1. (\A k \in DOMAIN s : s[k] \in ToSet(s)) /\ (\A k \in DOMAIN t : t[k] \in ToSet(t))
    BY DEF ToSet
  <2>2. CASE i \in DOMAIN s /\ w[i] = s[i]
    BY <1>3, <1>7, <2>1, <2>2 DEF Simple
  <2>3. CASE i - Len(s) \in DOMAIN t /\ i > Len(s) /\ w[i] = t[i - Len(s)]
    <3>1. j - Len(s) \in DOMAIN t /\ w[j] = t[j - Len(s)]
      BY <1>3, <1>7, <2>1, <2>3
    <3>2. i - Len(s) = j - Len(s)
      BY <1>7, <2>3, <3>1 DEF Simple
    <3> QED
      BY <1>2, <3>2
  <2> QED
    BY <1>3, <2>2, <2>3
<1> QED
  BY <1>1, <1>6, <1>7 DEF w

\* Flattening has a result: the function that FlattenSeq chooses exists.
LEMMA FlattenExists ==
  ASSUME NEW ss, NEW n \in Nat
  PROVE  \E g : g = [i \in 1..n |-> IF i = 1 THEN ss[i] ELSE g[i-1] \o ss[i]]
<1> DEFINE Done == {k \in Nat : \E g : \A i \in 1..k : g[i] = IF i = 1 THEN ss[i] ELSE g[i-1] \o ss[i]}
<1>1. 0 \in Done
  OBVIOUS
<1>2. ASSUME NEW k \in Nat, k \in Done PROVE k + 1 \in Done
  <2>1. PICK g : \A i \in 1..k : g[i] = IF i = 1 THEN ss[i] ELSE g[i-1] \o ss[i]
    BY <1>2
  <2> DEFINE next == [i \in 1..(k+1) |-> IF i \in 1..k THEN g[i]
                                         ELSE IF i = 1 THEN ss[i] ELSE g[i-1] \o ss[i]]
  <2>2. \A i \in 1..(k+1) : next[i] = IF i = 1 THEN ss[i] ELSE next[i-1] \o ss[i]
    <3> SUFFICES ASSUME NEW i \in 1..(k+1) PROVE next[i] = IF i = 1 THEN ss[i] ELSE next[i-1] \o ss[i]
      OBVIOUS
    <3>1. i = 1 \/ i - 1 \in 1..k
      OBVIOUS
    <3> QED
      BY <2>1, <3>1
  <2> HIDE DEF next
  <2> QED
    BY <2>2
<1> HIDE DEF Done
<1>3. Nat \subseteq Done
  BY <1>1, <1>2, Induction
<1>4. PICK g : \A i \in 1..n : g[i] = IF i = 1 THEN ss[i] ELSE g[i-1] \o ss[i]
  BY <1>3 DEF Done
<1> DEFINE h == [i \in 1..n |-> g[i]]
<1>5. \A i \in 1..n : h[i] = IF i = 1 THEN ss[i] ELSE h[i-1] \o ss[i]
  BY <1>4
<1>6. h = [i \in 1..n |-> IF i = 1 THEN ss[i] ELSE h[i-1] \o ss[i]]
  BY <1>5
<1> HIDE DEF h
<1> QED
  BY <1>6

\* The partial results of a flattening.
LEMMA FlattenSteps ==
  ASSUME NEW ss, Len(ss) \in Nat, Len(ss) # 0
  PROVE  \E g : /\ FlattenSeq(ss) = g[Len(ss)] /\ g[1] = ss[1]
                /\ \A i \in 2..Len(ss) : g[i] = g[i-1] \o ss[i]
<1> DEFINE n == Len(ss)
           flatten == CHOOSE g : g = [i \in 1..n |-> IF i = 1 THEN ss[i] ELSE g[i-1] \o ss[i]]
<1>1. flatten = [i \in 1..n |-> IF i = 1 THEN ss[i] ELSE flatten[i-1] \o ss[i]]
  BY FlattenExists
<1>2. FlattenSeq(ss) = flatten[n]
  BY DEF FlattenSeq
<1> HIDE DEF flatten
<1>3. \A i \in 1..n : flatten[i] = IF i = 1 THEN ss[i] ELSE flatten[i-1] \o ss[i]
  BY <1>1, Zenon
<1>4. ASSUME NEW i \in 2..n PROVE flatten[i] = flatten[i-1] \o ss[i]
  <2>1. i \in 1..n /\ i # 1
    OBVIOUS
  <2> QED
    BY <1>3, <2>1, Zenon
<1>5. flatten[1] = ss[1]
  <2>1. 1 \in 1..n
    OBVIOUS
  <2> QED
    BY <1>3, <2>1, Zenon
<1> QED
  BY <1>2, <1>4, <1>5

\* A flattened sequence has the elements of its parts, and repeats none when
\* the parts are without repetition and share none.
LEMMA Flattened ==
  ASSUME NEW S, NEW ss \in Seq(Seq(S))
  PROVE  /\ FlattenSeq(ss) \in Seq(S)
         /\ \A x : x \in ToSet(FlattenSeq(ss)) <=> \E k \in 1..Len(ss) : x \in ToSet(ss[k])
         /\ (/\ \A k \in 1..Len(ss) : Simple(ss[k])
             /\ \A j, k \in 1..Len(ss) : ToSet(ss[j]) \cap ToSet(ss[k]) # {} => j = k)
            => Simple(FlattenSeq(ss))
<1>1. Len(ss) \in Nat /\ DOMAIN ss = 1..Len(ss) /\ \A k \in 1..Len(ss) : ss[k] \in Seq(S)
  BY LenProperties, ElementOfSeq
<1>2. CASE Len(ss) = 0
  <2>1. ss = <<>>
    BY <1>2, EmptySeq
  <2>2. FlattenSeq(ss) = <<>>
    BY <1>2, <2>1 DEF FlattenSeq
  <2> QED
    BY <1>2, <2>2, EmptySeq DEF ToSet, Simple
<1>3. CASE Len(ss) # 0
  <2>1. PICK g : /\ FlattenSeq(ss) = g[Len(ss)] /\ g[1] = ss[1]
                 /\ \A i \in 2..Len(ss) : g[i] = g[i-1] \o ss[i]
    BY <1>1, <1>3, FlattenSteps
  <2> DEFINE Apart(n) == /\ \A k \in 1..n : Simple(ss[k])
                         /\ \A j, k \in 1..n : ToSet(ss[j]) \cap ToSet(ss[k]) # {} => j = k
             Good(n) == /\ g[n] \in Seq(S)
                        /\ \A x : x \in ToSet(g[n]) <=> \E k \in 1..n : x \in ToSet(ss[k])
                        /\ Apart(n) => Simple(g[n])
             Done == {n \in Nat : n \in 1..Len(ss) => Good(n)}
  <2>2. 0 \in Done
    OBVIOUS
  <2>3. Good(1)
    BY <1>1, <1>3, <2>1
  <2>4. ASSUME NEW n \in Nat, n \in 1..Len(ss), n + 1 \in 1..Len(ss), Good(n) PROVE Good(n + 1)
    <3>1. g[n+1] = g[n] \o ss[n+1] /\ ss[n+1] \in Seq(S) /\ g[n] \in Seq(S)
      <4>1. n + 1 \in 2..Len(ss) /\ (n + 1) - 1 = n
        BY <1>1, <2>4
      <4>2. g[n+1] = g[n] \o ss[n+1]
        BY <2>1, <4>1
      <4> QED
        BY <1>1, <2>4, <4>2
    <3>2. g[n+1] \in Seq(S) /\ ToSet(g[n+1]) = ToSet(g[n]) \cup ToSet(ss[n+1])
          /\ (Simple(g[n]) /\ Simple(ss[n+1]) /\ ToSet(g[n]) \cap ToSet(ss[n+1]) = {} => Simple(g[n+1]))
      BY <3>1, Joined
    <3>3. \A x : x \in ToSet(g[n+1]) <=> \E k \in 1..(n+1) : x \in ToSet(ss[k])
      <4>1. 1..(n+1) = 1..(n) \cup {n+1}
        OBVIOUS
      <4> QED
        BY <2>4, <3>2, <4>1
    <3>4. Apart(n+1) => Simple(g[n+1])
      <4> SUFFICES ASSUME Apart(n+1) PROVE Simple(g[n+1])
        OBVIOUS
      <4>1. Apart(n) /\ Simple(ss[n+1])
        <5>1. n + 1 \in 1..(n+1) /\ \A k \in 1..n : k \in 1..(n+1)
          OBVIOUS
        <5> QED
          BY <5>1
      <4>2. ToSet(g[n]) \cap ToSet(ss[n+1]) = {}
        <5> SUFFICES ASSUME NEW x, x \in ToSet(g[n]), x \in ToSet(ss[n+1]) PROVE FALSE
          OBVIOUS
        <5>1. PICK k \in 1..(n) : x \in ToSet(ss[k])
          BY <2>4
        <5>2. k \in 1..(n+1) /\ n+1 \in 1..(n+1) /\ k # n+1
          OBVIOUS
        <5> QED
          BY <5>1, <5>2
      <4> QED
        BY <2>4, <3>2, <4>1, <4>2
    <3> QED
      BY <3>2, <3>3, <3>4
  <2>5. ASSUME NEW n \in Nat, n \in Done PROVE n + 1 \in Done
    <3> HIDE DEF Good
    <3> SUFFICES ASSUME n + 1 \in 1..Len(ss) PROVE Good(n + 1)
      OBVIOUS
    <3>1. CASE n = 0
      BY <2>3, <3>1
    <3>2. CASE n # 0
      <4>1. n \in 1..Len(ss)
        BY <1>1, <3>2
      <4>2. Good(n)
        BY <2>5, <4>1
      <4> QED
        BY <2>4, <4>1, <4>2
    <3> QED
      BY <3>1, <3>2
  <2> HIDE DEF Done
  <2>6. Nat \subseteq Done
    BY <2>2, <2>5, Induction
  <2>7. Good(Len(ss))
    <3>1. Len(ss) \in Done /\ Len(ss) \in 1..Len(ss)
      BY <1>1, <1>3, <2>6
    <3> HIDE DEF Good
    <3> QED
      BY <3>1 DEF Done
  <2> QED
    BY <2>1, <2>7
<1> QED
  BY <1>2, <1>3

\* [x for x in s if x in T].
LEMMA Selected ==
  ASSUME NEW S, NEW s \in Seq(S), NEW T
  PROVE  /\ Only(s, T) \in Seq(S) /\ ToSet(Only(s, T)) = ToSet(s) \cap T
         /\ Simple(s) => Simple(Only(s, T))
<1> DEFINE ss == [k \in DOMAIN s |-> IF s[k] \in T THEN <<s[k]>> ELSE <<>>]
<1>1. Len(s) \in Nat /\ DOMAIN s = 1..Len(s) /\ \A k \in 1..Len(s) : s[k] \in S
  BY LenProperties, ElementOfSeq
<1>2. ss \in [1..Len(s) -> Seq(S)]
  <2> SUFFICES ASSUME NEW k \in 1..Len(s) PROVE (IF s[k] \in T THEN <<s[k]>> ELSE <<>>) \in Seq(S)
    BY <1>1
  <2> QED
    BY <1>1
<1>3. ss \in Seq(Seq(S)) /\ Len(ss) = Len(s) /\ DOMAIN ss = 1..Len(s)
  BY <1>1, <1>2, Comprehension
<1>4. \A k \in 1..Len(s) : /\ ToSet(ss[k]) = {s[k]} \cap T
                           /\ Simple(ss[k])
  BY <1>1 DEF ToSet, Simple
<1>5. Only(s, T) = FlattenSeq(ss)
  BY DEF Only
<1> HIDE DEF ss
<1>6. FlattenSeq(ss) \in Seq(S) /\ \A x : x \in ToSet(FlattenSeq(ss)) <=> \E k \in 1..Len(s) : x \in ToSet(ss[k])
  BY <1>3, Flattened
<1>7. ToSet(FlattenSeq(ss)) = ToSet(s) \cap T
  <2>1. \A x : x \in ToSet(s) <=> \E k \in 1..Len(s) : s[k] = x
    BY Elements
  <2>2. ASSUME NEW x PROVE x \in ToSet(FlattenSeq(ss)) <=> x \in ToSet(s) /\ x \in T
    <3>1. x \in ToSet(FlattenSeq(ss)) <=> \E k \in 1..Len(s) : x \in {s[k]} \cap T
      BY <1>4, <1>6
    <3> QED
      BY <2>1, <3>1
  <2> QED
    BY <2>2
<1>8. ASSUME Simple(s) PROVE Simple(FlattenSeq(ss))
  <2>1. ASSUME NEW j \in 1..Len(s), NEW k \in 1..Len(s), ToSet(ss[j]) \cap ToSet(ss[k]) # {} PROVE j = k
    <3>1. s[j] = s[k]
      BY <1>4, <2>1
    <3> QED
      BY <1>1, <1>8, <3>1 DEF Simple
  <2> QED
    BY <1>3, <1>4, <2>1, Flattened
<1> QED
  BY <1>5, <1>6, <1>7, <1>8

\* list(dict.fromkeys(s)).
LEMMA Deduplicated ==
  ASSUME NEW S, NEW s \in Seq(S)
  PROVE  Distinct(s) \in Seq(S) /\ ToSet(Distinct(s)) = ToSet(s) /\ Simple(Distinct(s))
<1> DEFINE ss == [k \in DOMAIN s |-> IF \E j \in 1..(k-1) : s[j] = s[k] THEN <<>> ELSE <<s[k]>>]
<1>1. Len(s) \in Nat /\ DOMAIN s = 1..Len(s) /\ \A k \in 1..Len(s) : s[k] \in S
  BY LenProperties, ElementOfSeq
<1>2. ss \in [1..Len(s) -> Seq(S)]
  <2> SUFFICES ASSUME NEW k \in 1..Len(s)
               PROVE  (IF \E j \in 1..(k-1) : s[j] = s[k] THEN <<>> ELSE <<s[k]>>) \in Seq(S)
    BY <1>1
  <2> QED
    BY <1>1
<1>3. ss \in Seq(Seq(S)) /\ Len(ss) = Len(s) /\ DOMAIN ss = 1..Len(s)
  BY <1>1, <1>2, Comprehension
<1>4. \A k \in 1..Len(s) : /\ ss[k] = IF \E j \in 1..(k-1) : s[j] = s[k] THEN <<>> ELSE <<s[k]>>
                           /\ Simple(ss[k])
  BY <1>1 DEF Simple
<1>5. Distinct(s) = FlattenSeq(ss)
  BY DEF Distinct
<1> HIDE DEF ss
<1>6. ASSUME NEW k \in 1..Len(s), NEW x
      PROVE  x \in ToSet(ss[k]) <=> x = s[k] /\ ~\E j \in 1..(k-1) : s[j] = s[k]
  <2>1. CASE \E j \in 1..(k-1) : s[j] = s[k]
    <3>1. ss[k] = <<>>
      BY <1>4, <2>1
    <3> QED
      BY <2>1, <3>1 DEF ToSet
  <2>2. CASE ~\E j \in 1..(k-1) : s[j] = s[k]
    <3>1. ss[k] = <<s[k]>>
      BY <1>4, <2>2
    <3> QED
      BY <2>2, <3>1 DEF ToSet
  <2> QED
    BY <2>1, <2>2
<1>7. FlattenSeq(ss) \in Seq(S) /\ \A x : x \in ToSet(FlattenSeq(ss)) <=> \E k \in 1..Len(s) : x \in ToSet(ss[k])
  BY <1>3, Flattened
<1>8. \A x : x \in ToSet(s) <=> \E k \in 1..Len(s) : s[k] = x
  BY Elements
<1>9. ASSUME NEW x \in ToSet(s) PROVE x \in ToSet(FlattenSeq(ss))
  <2> DEFINE at == {k \in 1..Len(s) : s[k] = x}
  <2>1. at \in SUBSET Nat /\ at # {}
    BY <1>1, <1>8, <1>9
  <2>2. PICK k \in at : \A m \in at : k <= m
    BY <2>1, LeastNumber
  <2>3. k \in 1..Len(s) /\ s[k] = x /\ ~\E j \in 1..(k-1) : s[j] = s[k]
    <3>1. ASSUME NEW j \in 1..(k-1), s[j] = s[k] PROVE FALSE
      <4>1. j \in at /\ j < k
        BY <1>1, <2>2, <3>1
      <4> QED
        BY <1>1, <2>2, <4>1
    <3> QED
      BY <2>2, <3>1
  <2> QED
    BY <1>6, <1>7, <2>3
<1>10. ToSet(FlattenSeq(ss)) = ToSet(s)
  <2>1. ASSUME NEW x \in ToSet(FlattenSeq(ss)) PROVE x \in ToSet(s)
    BY <1>6, <1>7, <1>8
  <2> QED
    BY <1>9, <2>1
<1>11. ASSUME NEW j \in 1..Len(s), NEW k \in 1..Len(s), ToSet(ss[j]) \cap ToSet(ss[k]) # {} PROVE j = k
  <2>1. PICK x : x \in ToSet(ss[j]) /\ x \in ToSet(ss[k])
    BY <1>11
  <2>2. /\ s[j] = x /\ s[k] = x
        /\ ~\E i \in 1..(k-1) : s[i] = s[k]
        /\ ~\E i \in 1..(j-1) : s[i] = s[j]
    BY <1>6, <2>1
  <2>3. ~(j \in 1..(k-1)) /\ ~(k \in 1..(j-1))
    BY <2>2
  <2> QED
    BY <1>1, <2>3
<1> QED
  BY <1>3, <1>4, <1>5, <1>7, <1>10, <1>11, Flattened

\* sorted(S): every element of S once, in the order R.
LEMMA Sorted ==
  ASSUME NEW S, IsFiniteSet(S), NEW R,
         \A x \in S : <<x, x>> \notin R,
         \A x, y \in S : x # y => <<x, y>> \in R \/ <<y, x>> \in R,
         \A x, y, z \in S : <<x, y>> \in R /\ <<y, z>> \in R => <<x, z>> \in R
  PROVE  /\ SortedBy(S, R) \in Seq(S) /\ ToSet(SortedBy(S, R)) = S /\ Simple(SortedBy(S, R))
         /\ Len(SortedBy(S, R)) = Cardinality(S)
<1> DEFINE n == Cardinality(S)
           rank == [x \in S |-> Cardinality(Preceding(S, R, x))]
           sorted == [k \in 1..n |-> CHOOSE x \in S : rank[x] = k - 1]
<1>1. n \in Nat
  BY FS_CardinalityType
<1>2. ASSUME NEW x \in S PROVE rank[x] \in 0..(n-1) /\ IsFiniteSet(Preceding(S, R, x))
  <2>1. Preceding(S, R, x) \in SUBSET S /\ x \notin Preceding(S, R, x)
    BY DEF Preceding
  <2>2. IsFiniteSet(Preceding(S, R, x)) /\ Cardinality(Preceding(S, R, x)) <= n
        /\ Cardinality(Preceding(S, R, x)) # n /\ Cardinality(Preceding(S, R, x)) \in Nat
    <3>1. IsFiniteSet(Preceding(S, R, x)) /\ Cardinality(Preceding(S, R, x)) <= n
          /\ (n = Cardinality(Preceding(S, R, x)) => S = Preceding(S, R, x))
      BY <2>1, FS_Subset
    <3> QED
      BY <2>1, <3>1, FS_CardinalityType
  <2> QED
    BY <1>1, <2>2
<1>3. ASSUME NEW x \in S, NEW y \in S, <<x, y>> \in R PROVE rank[x] # rank[y]
  <2>1. Preceding(S, R, x) \subseteq Preceding(S, R, y)
    BY <1>3 DEF Preceding
  <2>2. x \in Preceding(S, R, y) /\ x \notin Preceding(S, R, x)
    BY <1>3 DEF Preceding
  <2>3. IsFiniteSet(Preceding(S, R, y))
    BY <1>2
  <2>4. Cardinality(Preceding(S, R, y)) = Cardinality(Preceding(S, R, x)) => Preceding(S, R, y) = Preceding(S, R, x)
    BY <2>1, <2>3, FS_Subset
  <2> QED
    BY <2>2, <2>4
<1>4. rank \in Injection(S, 0..(n-1))
  <2>1. rank \in [S -> 0..(n-1)]
    BY <1>2
  <2>2. ASSUME NEW x \in S, NEW y \in S, rank[x] = rank[y] PROVE x = y
    <3> HIDE DEF rank
    <3> QED
      BY <1>3, <2>2
  <2> HIDE DEF rank
  <2> QED
    BY <2>1, <2>2 DEF Injection, IsInjective
<1>5. Cardinality(0..(n-1)) = n /\ IsFiniteSet(0..(n-1))
  BY <1>1, FS_Interval
<1>6. SortedBy(S, R) = sorted
  BY DEF SortedBy
<1> HIDE DEF rank
<1>7. rank \in Surjection(S, 0..(n-1))
  BY <1>4, <1>5, FS_Injection
<1>8. ASSUME NEW k \in 1..n PROVE \E x \in S : rank[x] = k - 1
  <2>1. k - 1 \in 0..(n-1)
    BY <1>1
  <2> QED
    BY <1>7, <2>1 DEF Surjection
<1>9. \A k \in 1..n : sorted[k] \in S /\ rank[sorted[k]] = k - 1
  BY <1>8
<1>10. sorted \in Seq(S) /\ Len(sorted) = n /\ DOMAIN sorted = 1..n
  <2>1. sorted \in [1..n -> S]
    BY <1>9
  <2> HIDE DEF sorted
  <2> QED
    BY <1>1, <2>1, Comprehension
<1> HIDE DEF sorted
<1>11. ASSUME NEW x \in S PROVE \E k \in 1..n : sorted[k] = x
  <2>1. rank[x] \in 0..(n-1)
    BY <1>4 DEF Injection
  <2>2. rank[x] + 1 \in 1..n /\ (rank[x] + 1) - 1 = rank[x]
    BY <1>1, <2>1
  <2>3. rank[sorted[rank[x] + 1]] = rank[x] /\ sorted[rank[x] + 1] \in S
    BY <1>9, <2>2
  <2>4. sorted[rank[x] + 1] = x
    BY <1>4, <2>3 DEF Injection, IsInjective
  <2> QED
    BY <2>2, <2>4
<1>12. Simple(sorted)
  <2> SUFFICES ASSUME NEW i \in 1..n, NEW j \in 1..n, sorted[i] = sorted[j] PROVE i = j
    BY <1>10 DEF Simple
  <2>1. i - 1 = j - 1
    BY <1>9
  <2> QED
    BY <2>1
<1>13. ToSet(sorted) = S
  <2>1. \A x : x \in ToSet(sorted) <=> \E k \in 1..n : sorted[k] = x
    BY <1>10, Elements
  <2>2. ASSUME NEW x \in ToSet(sorted) PROVE x \in S
    BY <1>9, <2>1
  <2> QED
    BY <1>11, <2>1, <2>2
<1> QED
  BY <1>6, <1>10, <1>12, <1>13

-----------------------------------------------------------------------------
\* A sequence of elements of S is one of elements of any larger set.
LEMMA Widened ==
  ASSUME NEW S, NEW T, S \subseteq T, NEW s \in Seq(S)
  PROVE  s \in Seq(T)
<1>1. Len(s) \in Nat /\ DOMAIN s = 1..Len(s) /\ s \in [1..Len(s) -> S]
  BY LenProperties
<1>2. s \in [1..Len(s) -> T]
  BY <1>1
<1> QED
  BY <1>1, <1>2, SeqDef

\* A list made from a condition and an expression, index by index.
IsSieve(n, f, ss) ==
  /\ n \in Nat /\ ss = [k \in 1..n |-> ss[k]]
  /\ \A k \in 1..n : ss[k] = <<>> \/ ss[k] = <<f[k]>>

\* Such a list holds what is under a true condition, once when the expressions differ.
LEMMA Sieved ==
  ASSUME NEW n, NEW f, NEW ss, IsSieve(n, f, ss)
  PROVE  /\ IsList(FlattenSeq(ss))
         /\ \A x : x \in ToSet(FlattenSeq(ss)) <=> \E k \in 1..n : ss[k] # <<>> /\ x = f[k]
         /\ (\A j, k \in 1..n : f[j] = f[k] => j = k) => Simple(FlattenSeq(ss))
<1> DEFINE S == {f[k] : k \in 1..n}
<1> USE DEF IsSieve
<1>1. ASSUME NEW k \in 1..n PROVE ss[k] \in Seq(S)
  <2>1. f[k] \in S
    OBVIOUS
  <2> HIDE DEF S
  <2>2. <<>> \in Seq(S) /\ <<f[k]>> \in Seq(S)
    BY <2>1
  <2> QED
    BY <2>2
<1>2. \A k \in 1..n : /\ ToSet(ss[k]) = IF ss[k] = <<>> THEN {} ELSE {f[k]}
                      /\ Simple(ss[k])
  <2> SUFFICES ASSUME NEW k \in 1..n
               PROVE  ToSet(ss[k]) = (IF ss[k] = <<>> THEN {} ELSE {f[k]}) /\ Simple(ss[k])
    OBVIOUS
  <2>1. CASE ss[k] = <<>>
    BY <2>1 DEF ToSet, Simple
  <2>2. CASE ss[k] # <<>>
    <3>1. ss[k] = <<f[k]>>
      BY <2>2
    <3>2. ToSet(<<f[k]>>) = {f[k]} /\ Simple(<<f[k]>>)
      BY DEF ToSet, Simple
    <3> QED
      BY <2>2, <3>1, <3>2
  <2> QED
    BY <2>1, <2>2
<1> HIDE DEF S
<1>3. ss \in [1..n -> Seq(S)]
  BY <1>1
<1>4. ss \in Seq(Seq(S)) /\ Len(ss) = n
  BY <1>3, Comprehension
<1>5. FlattenSeq(ss) \in Seq(S)
  BY <1>4, Flattened
<1>6. \A x : x \in ToSet(FlattenSeq(ss)) <=> \E k \in 1..n : ss[k] # <<>> /\ x = f[k]
  <2> SUFFICES ASSUME NEW x
               PROVE  x \in ToSet(FlattenSeq(ss)) <=> \E k \in 1..n : ss[k] # <<>> /\ x = f[k]
    OBVIOUS
  <2>1. x \in ToSet(FlattenSeq(ss)) <=> \E k \in 1..n : x \in ToSet(ss[k])
    BY <1>4, Flattened
  <2> QED
    BY <1>2, <2>1
<1>7. ASSUME \A j, k \in 1..n : f[j] = f[k] => j = k PROVE Simple(FlattenSeq(ss))
  <2>1. ASSUME NEW j \in 1..n, NEW k \in 1..n, ToSet(ss[j]) \cap ToSet(ss[k]) # {} PROVE j = k
    <3>1. ToSet(ss[j]) \subseteq {f[j]} /\ ToSet(ss[k]) \subseteq {f[k]}
      BY <1>2
    <3> QED
      BY <1>7, <2>1, <3>1
  <2> QED
    BY <1>2, <1>4, <2>1, Flattened
<1> QED
  BY <1>5, <1>6, <1>7, Elements DEF IsList

\* What a selection, a list of functions' values and a concatenation are, for lists.
LEMMA ListOf ==
  ASSUME NEW n \in Nat, NEW s, s = [k \in 1..n |-> s[k]]
  PROVE  IsList(s) /\ Len(s) = n /\ DOMAIN s = 1..n /\ \A x : x \in ToSet(s) <=> \E k \in 1..n : x = s[k]
<1>1. DOMAIN s = 1..n /\ \A x : x \in ToSet(s) <=> \E k \in 1..n : x = s[k]
  BY DEF ToSet
<1>2. s \in [1..n -> ToSet(s)]
  BY <1>1
<1> QED
  BY <1>1, <1>2, Comprehension DEF IsList

\* What a list is made of.
LEMMA ListIs ==
  ASSUME NEW s, IsList(s)
  PROVE  /\ Len(s) \in Nat /\ DOMAIN s = 1..Len(s)
         /\ \A x : x \in ToSet(s) <=> \E k \in 1..Len(s) : s[k] = x
         /\ s = <<>> <=> ToSet(s) = {}
  BY LenProperties, Elements DEF IsList

\* [x for x in s if x in T], of a list.
LEMMA SelectedList ==
  ASSUME NEW s, IsList(s), NEW T
  PROVE  /\ IsList(Only(s, T)) /\ ToSet(Only(s, T)) = ToSet(s) \cap T
         /\ Simple(s) => Simple(Only(s, T))
<1>1. /\ Only(s, T) \in Seq(ToSet(s)) /\ ToSet(Only(s, T)) = ToSet(s) \cap T
      /\ Simple(s) => Simple(Only(s, T))
  BY Selected DEF IsList
<1> QED
  BY <1>1, Elements DEF IsList

\* Two lists, one after the other.
LEMMA JoinedList ==
  ASSUME NEW s, IsList(s), NEW t, IsList(t)
  PROVE  /\ IsList(s \o t) /\ ToSet(s \o t) = ToSet(s) \cup ToSet(t) /\ Len(s \o t) = Len(s) + Len(t)
         /\ Simple(s) /\ Simple(t) /\ ToSet(s) \cap ToSet(t) = {} => Simple(s \o t)
<1> DEFINE S == ToSet(s) \cup ToSet(t)
<1>1. s \in Seq(S) /\ t \in Seq(S)
  <2>1. ToSet(s) \subseteq S /\ ToSet(t) \subseteq S /\ s \in Seq(ToSet(s)) /\ t \in Seq(ToSet(t))
    BY DEF IsList
  <2> HIDE DEF S
  <2> QED
    BY <2>1, Widened
<1>2. s \o t \in Seq(S) /\ ToSet(s \o t) = S /\ Len(s \o t) = Len(s) + Len(t)
  BY <1>1, Joined, ConcatProperties
<1> QED
  BY <1>1, <1>2, Joined DEF IsList

\* A list of lists, flattened.
LEMMA FlattenedList ==
  ASSUME NEW n \in Nat, NEW ss, ss = [k \in 1..n |-> ss[k]], \A k \in 1..n : IsList(ss[k])
  PROVE  /\ IsList(FlattenSeq(ss))
         /\ \A x : x \in ToSet(FlattenSeq(ss)) <=> \E k \in 1..n : x \in ToSet(ss[k])
         /\ (/\ \A k \in 1..n : Simple(ss[k])
             /\ \A j, k \in 1..n : ToSet(ss[j]) \cap ToSet(ss[k]) # {} => j = k)
            => Simple(FlattenSeq(ss))
<1> DEFINE S == UNION {ToSet(ss[k]) : k \in 1..n}
<1>1. ASSUME NEW k \in 1..n PROVE ss[k] \in Seq(S)
  <2>1. ToSet(ss[k]) \subseteq S /\ ss[k] \in Seq(ToSet(ss[k]))
    BY DEF IsList
  <2> HIDE DEF S
  <2> QED
    BY <2>1, Widened
<1> HIDE DEF S
<1>2. ss \in [1..n -> Seq(S)]
  BY <1>1
<1>3. ss \in Seq(Seq(S)) /\ Len(ss) = n
  BY <1>2, Comprehension
<1>4. /\ FlattenSeq(ss) \in Seq(S)
      /\ \A x : x \in ToSet(FlattenSeq(ss)) <=> \E k \in 1..n : x \in ToSet(ss[k])
      /\ (/\ \A k \in 1..n : Simple(ss[k])
          /\ \A j, k \in 1..n : ToSet(ss[j]) \cap ToSet(ss[k]) # {} => j = k)
         => Simple(FlattenSeq(ss))
  BY <1>3, Flattened
<1> QED
  BY <1>4, Elements DEF IsList

\* A selection keeps the order: x is in q with every selected element of s up to j ahead of it.
IsSpot(q, s, T, j) ==
  \E k \in 1..Len(q) : q[k] = s[j] /\ \A i \in 1..(j-1) : s[i] \in T => \E m \in 1..(k-1) : q[m] = s[i]

\* q, a sequence in S, keeps the order of the first n elements of s.
HasSpots(q, S, s, T, n) == q \in Seq(S) /\ \A j \in 1..n : s[j] \in T => IsSpot(q, s, T, j)

\* One element more.
LEMMA SpotsGrow ==
  ASSUME NEW S, NEW s, NEW T, NEW n \in Nat, s[n+1] \in S, NEW q, HasSpots(q, S, s, T, n),
         NEW one, one = IF s[n+1] \in T THEN <<s[n+1]>> ELSE <<>>
  PROVE  HasSpots(q \o one, S, s, T, n + 1)
<1> DEFINE x == s[n+1]
           w == q \o one
<1> USE DEF HasSpots
<1>1. CASE x \notin T
  <2>1. w = q
    BY <1>1
  <2>2. \A j \in 1..(n+1) : s[j] \in T => j \in 1..n
    BY <1>1
  <2> QED
    BY <2>1, <2>2
<1>2. CASE x \in T
  <2>1. w = Append(q, x)
    BY <1>2, AppendIsConcat
  <2>2. w \in Seq(S) /\ Len(w) = Len(q) + 1 /\ w[Len(q)+1] = x /\ Len(q) \in Nat
    BY <2>1, AppendProperties, LenProperties
  <2>3. \A k \in 1..Len(q) : w[k] = q[k]
    BY <2>1, AppendProperties
  <2> HIDE DEF w
  <2>4. ASSUME NEW j \in 1..n, s[j] \in T PROVE IsSpot(w, s, T, j)
    <3>1. PICK k \in 1..Len(q) : q[k] = s[j] /\ \A i \in 1..(j-1) : s[i] \in T => \E m \in 1..(k-1) : q[m] = s[i]
      BY <2>4 DEF IsSpot
    <3>2. k \in 1..Len(w) /\ w[k] = s[j]
      BY <2>2, <2>3, <3>1
    <3>3. \A m \in 1..(k-1) : w[m] = q[m]
      <4>1. \A m \in 1..(k-1) : m \in 1..Len(q)
        BY <2>2
      <4> QED
        BY <2>3, <4>1
    <3> QED
      BY <3>1, <3>2, <3>3 DEF IsSpot
  <2>5. IsSpot(w, s, T, n + 1)
    <3>1. ASSUME NEW i \in 1..n, s[i] \in T PROVE \E m \in 1..Len(q) : w[m] = s[i]
      <4>1. PICK m \in 1..Len(q) : q[m] = s[i]
        BY <3>1 DEF IsSpot
      <4> QED
        BY <2>3, <4>1
    <3>2. Len(q) + 1 \in 1..Len(w) /\ (Len(q) + 1) - 1 = Len(q) /\ (n + 1) - 1 = n
      BY <2>2
    <3> QED
      BY <2>2, <3>1, <3>2 DEF IsSpot
  <2>6. \A j \in 1..(n+1) : j \in 1..n \/ j = n + 1
    OBVIOUS
  <2>7. \A j \in 1..(n+1) : s[j] \in T => IsSpot(w, s, T, j)
    BY <2>4, <2>5, <2>6
  <2> QED
    BY <2>2, <2>7 DEF w
<1> QED
  BY <1>1, <1>2

\* Each element that is selected has its spot.
LEMMA SelectedInOrder ==
  ASSUME NEW s, IsList(s), NEW T, NEW j \in 1..Len(s), s[j] \in T
  PROVE  IsSpot(Only(s, T), s, T, j)
<1> DEFINE n == Len(s)
           S == ToSet(s)
           ss == [k \in DOMAIN s |-> IF s[k] \in T THEN <<s[k]>> ELSE <<>>]
<1>1. n \in Nat /\ DOMAIN s = 1..n /\ n # 0 /\ \A k \in 1..n : s[k] \in S
  BY ListIs
<1>2. \A k \in 1..n : ss[k] = IF s[k] \in T THEN <<s[k]>> ELSE <<>>
  BY <1>1
<1>3. Len(ss) = n
  <2>1. ss = [k \in 1..n |-> ss[k]]
    BY <1>1
  <2> HIDE DEF ss
  <2> QED
    BY <1>1, <2>1, ListOf
<1>4. Only(s, T) = FlattenSeq(ss)
  BY DEF Only
<1> HIDE DEF ss, S, n
<1>5. PICK g : /\ FlattenSeq(ss) = g[n] /\ g[1] = ss[1]
               /\ \A i \in 2..n : g[i] = g[i-1] \o ss[i]
  BY <1>1, <1>3, FlattenSteps
<1> DEFINE Done == {k \in Nat : k + 1 <= n => HasSpots(g[k+1], S, s, T, k + 1)}
<1>6. 0 \in Done
  <2>1. 1 \in 1..n /\ s[0+1] \in S
    BY <1>1
  <2>2. HasSpots(<<>>, S, s, T, 0)
    BY DEF HasSpots
  <2>3. HasSpots(<<>> \o ss[1], S, s, T, 0 + 1)
    <3>1. ss[1] = IF s[0+1] \in T THEN <<s[0+1]>> ELSE <<>>
      BY <1>2, <2>1
    <3> QED
      BY <2>1, <2>2, <3>1, SpotsGrow
  <2>4. ss[1] = <<s[1]>> \/ ss[1] = <<>>
    BY <1>2, <2>1
  <2>5. <<>> \o ss[1] = ss[1]
    BY <2>1, <2>4
  <2> QED
    BY <1>5, <2>3, <2>5
<1>7. ASSUME NEW k \in Nat, k \in Done PROVE k + 1 \in Done
  <2> SUFFICES ASSUME (k + 1) + 1 <= n PROVE HasSpots(g[(k+1)+1], S, s, T, (k + 1) + 1)
    OBVIOUS
  <2>1. HasSpots(g[k+1], S, s, T, k + 1)
    BY <1>1, <1>7
  <2>2. (k + 1) + 1 \in 2..n /\ (k + 1) + 1 \in 1..n /\ ((k + 1) + 1) - 1 = k + 1 /\ k + 1 \in Nat
    BY <1>1
  <2>3. g[(k+1)+1] = g[k+1] \o ss[(k+1)+1] /\ s[(k+1)+1] \in S
    BY <1>1, <1>5, <2>2
  <2>4. ss[(k+1)+1] = IF s[(k+1)+1] \in T THEN <<s[(k+1)+1]>> ELSE <<>>
    BY <1>2, <2>2
  <2>5. HasSpots(g[k+1] \o ss[(k+1)+1], S, s, T, (k + 1) + 1)
    BY <2>1, <2>2, <2>3, <2>4, SpotsGrow
  <2> QED
    BY <2>3, <2>5
<1> HIDE DEF Done
<1>8. n - 1 \in Nat /\ (n - 1) + 1 = n
  BY <1>1
<1>9. n - 1 \in Done
  BY <1>6, <1>7, <1>8, Induction
<1> QED
  BY <1>4, <1>5, <1>8, <1>9 DEF Done, n, HasSpots

\* A finite set as a list.
LEMMA SetListed ==
  ASSUME NEW S, IsFiniteSet(S)
  PROVE  IsList(SetToSeq(S)) /\ ToSet(SetToSeq(S)) = S
<1> DEFINE n == Cardinality(S)
           s == SetToSeq(S)
<1>1. n \in Nat /\ ExistsBijection(1..n, S)
  BY FS_CardinalityType
<1>2. \E f \in [1..n -> S] : IsInjective(f)
  BY <1>1 DEF ExistsBijection, Bijection, Injection
<1>3. s \in [1..n -> S] /\ IsInjective(s)
  BY <1>2 DEF SetToSeq
<1> HIDE DEF s, n
<1>4. s \in Injection(1..n, S) /\ IsFiniteSet(1..n) /\ Cardinality(1..n) = n
  BY <1>1, <1>3, FS_Interval DEF Injection
<1>5. s \in Surjection(1..n, S)
  BY <1>4, FS_Injection DEF n
<1>6. ToSet(s) = S
  BY <1>3, <1>5 DEF ToSet, Surjection
<1>7. s = [k \in 1..n |-> s[k]]
  BY <1>3
<1> QED
  BY <1>1, <1>6, <1>7, ListOf DEF s

\* Nothing, one element, or two.
LEMMA ShortLists ==
  ASSUME NEW x, NEW y
  PROVE  /\ IsList(<<>>) /\ IsList(<<x>>) /\ IsList(<<x, y>>)
         /\ x \in ToSet(<<x, y>>) /\ y \in ToSet(<<x, y>>)
  BY DEF IsList, ToSet

\* One element more, at the end.
LEMMA AppendIs ==
  ASSUME NEW S, NEW s \in Seq(S), NEW x \in S
  PROVE  /\ Append(s, x) \in Seq(S) /\ Len(Append(s, x)) = Len(s) + 1
         /\ Append(s, x)[Len(s) + 1] = x /\ \A i \in 1..Len(s) : Append(s, x)[i] = s[i]
  BY AppendProperties, LenProperties

\* The path of a copied file.
LEMMA LongerPath ==
  ASSUME NEW a, NEW b, NEW c, NEW d
  PROVE  Append(<<a, b, c>>, d) = <<a, b, c, d>>
<1> DEFINE S == {a, b, c, d}
           s == <<a, b, c>>
           t == <<a, b, c, d>>
           w == Append(s, d)
<1>1. s \in Seq(S) /\ Len(s) = 3 /\ s[1] = a /\ s[2] = b /\ s[3] = c /\ d \in S
  OBVIOUS
<1>2. t \in Seq(S) /\ Len(t) = 4 /\ t[1] = a /\ t[2] = b /\ t[3] = c /\ t[4] = d
  OBVIOUS
<1> HIDE DEF s, t, S
<1>3. w \in Seq(S) /\ Len(w) = 4 /\ w[4] = d /\ \A i \in 1..3 : w[i] = s[i]
  <2>1. /\ w \in Seq(S) /\ Len(w) = Len(s) + 1 /\ w[Len(s) + 1] = d
        /\ \A i \in 1..Len(s) : w[i] = s[i]
    BY <1>1, AppendIs
  <2> HIDE DEF w
  <2>2. Len(s) + 1 = 4
    BY <1>1
  <2> QED
    BY <1>1, <2>1, <2>2
<1> HIDE DEF w
<1>4. \A i \in 1..4 : w[i] = t[i]
  BY <1>1, <1>2, <1>3
<1>5. w \in [1..4 -> S] /\ t \in [1..4 -> S]
  BY <1>2, <1>3, LenProperties
<1>6. w = t
  BY <1>4, <1>5
<1> QED
  BY <1>6 DEF w, s, t

\* The image of a finite set.
LEMMA FiniteImage ==
  ASSUME NEW S, IsFiniteSet(S), NEW f
  PROVE  IsFiniteSet({f[x] : x \in S})
<1> DEFINE T == {f[x] : x \in S}
           g == [x \in S |-> f[x]]
<1>1. g \in Surjection(S, T)
  BY DEF Surjection
<1> HIDE DEF T, g
<1> QED
  BY <1>1, FS_Surjection DEF T

\* Sequences in a set of at most one element.
LEMMA ShortSequences ==
  ASSUME NEW S, NEW x \in S
  PROVE  <<x>> \in Seq(S) /\ <<>> \in Seq(S)
  OBVIOUS

\* Without duplicates it is a list too.
LEMMA DistinctList ==
  ASSUME NEW s, IsList(s)
  PROVE  IsList(Distinct(s)) /\ ToSet(Distinct(s)) = ToSet(s)
<1>1. Distinct(s) \in Seq(ToSet(s)) /\ ToSet(Distinct(s)) = ToSet(s)
  BY Deduplicated DEF IsList
<1> QED
  BY <1>1 DEF IsList
==============================================================================
