----------------------------- MODULE MCArchitecture -----------------------------
(* Instances of Architecture: a document with gaps the analyzer calls errors,   *)
(* and one a validator refuses; pasted JSON claims nothing, or says that it is  *)
(* validated and carries an error and a gap.                                    *)
EXTENDS Architecture, TLC

CONSTANTS e1, e2, A, B

MCFindings ==
  [c \in Contents |-> [v \in Validators |->
     IF c = "invalid" /\ v = "addressing" THEN {"error", "warning"}
     ELSE {"info"}]]
MCGaps ==
  [c \in Contents |-> CASE c = "contradictory" -> {"ERROR", "REQUIRED"}
                            [] OTHER -> {"OPTIONAL"}]
MCClaims ==
  {NoClaim,
   [report |-> FromIssues({"error"}), missing |-> {"REQUIRED"}, status |-> "validated"]}

EditorAndIdSymmetry == Permutations(Editors) \cup Permutations(Ids)
===============================================================================
