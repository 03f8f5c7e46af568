------------------------------ MODULE MCRagProvider ------------------------------
(* Instances of RagProvider.                                                  *)
EXTENDS RagProvider

CONSTANTS t1, t2, h1
===============================================================================
