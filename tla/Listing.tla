------------------------------- MODULE Listing -------------------------------
(***************************************************************************)
(* Sequences made of sequences and of sets, in the shapes the translation  *)
(* makes its lists: a comprehension with a condition, dict.fromkeys and    *)
(* sorted().  They are written with FlattenSeq and CHOOSE, which have      *)
(* definitions to reason from; SelectSeq and SortSeq are built in.         *)
(***************************************************************************)
EXTENDS Integers, Sequences, FiniteSets, SequencesExt

\* A list is a sequence of its own elements.
IsList(s) == s \in Seq(ToSet(s))

\* [x for x in s if x in S]
Only(s, S) == FlattenSeq([k \in DOMAIN s |-> IF s[k] \in S THEN <<s[k]>> ELSE <<>>])

\* list(dict.fromkeys(s)): each element once, where it is first.
Distinct(s) ==
  FlattenSeq([k \in DOMAIN s |-> IF \E j \in 1..(k-1) : s[j] = s[k] THEN <<>> ELSE <<s[k]>>])

\* The elements of R before x; sorted() puts x where that many precede it.
Preceding(S, R, x) == {y \in S : <<y, x>> \in R}

\* sorted(S) by the strict order R, a set of pairs.
SortedBy(S, R) ==
  [k \in 1..Cardinality(S) |-> CHOOSE x \in S : Cardinality(Preceding(S, R, x)) = k - 1]
===============================================================================
