------------------------------ MODULE MCDeployment ------------------------------
(* Instances of Deployment: two codes, the second of which drops an address.   *)
EXTENDS Deployment, TLC

CONSTANTS a1, r1, r2

TwoCodes == {"abc", "def"}
MCWants == [c \in TwoCodes |-> IF c = "abc" THEN {a1} ELSE {}]
ReviewerSymmetry == Permutations(Reviewers)
===============================================================================
