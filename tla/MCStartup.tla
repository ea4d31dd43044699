---------------------------- MODULE MCStartup ----------------------------
(***************************************************************************)
(* Instances of Startup for TLC: three migrations in the shapes the        *)
(* repository has - one that may be repeated, one ALTER TABLE, and two     *)
(* ALTER TABLEs in one file (0001, 0002 and 0004).                         *)
(***************************************************************************)
EXTENDS Startup

MCStatements == [m \in 1..3 |-> IF m = 2 THEN 1 ELSE 2]
=============================================================================
