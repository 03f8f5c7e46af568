------------------------------- MODULE MCRagLoader -------------------------------
(* RagLoader for TLC: threads t1 and t2 are interchangeable; the checkout r1  *)
(* is complete, r2 has no config.py.                                          *)
EXTENDS RagLoader, TLC

CONSTANTS t1, t2

CheckoutFiles ==
  [r \in Roots |-> IF r = "r1" THEN Names ELSE Names \ {"config"}]

ThreadSymmetry == Permutations({t1, t2})
===============================================================================
