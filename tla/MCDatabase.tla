----------------------------- MODULE MCDatabase -----------------------------
(***************************************************************************)
(* Three processes and owners, two migrators and two files for Database:   *)
(* every way to share an owner, and every release a database was left by,  *)
(* is chosen at Init.  Processes and owners are interchangeable.           *)
(***************************************************************************)
EXTENDS Database, TLC

Symmetry == Permutations(Proc) \cup Permutations(Owner)
=============================================================================
