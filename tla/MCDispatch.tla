------------------------------ MODULE MCDispatch ------------------------------
(***************************************************************************)
(* Dispatch with two AppendEntries of two leaders, an InstallSnapshot and  *)
(* a client.                                                               *)
(***************************************************************************)
EXTENDS Dispatch

CONSTANTS r1, r2, r3, c1

MCKindOf == [r \in Rpc |-> IF r = r3 THEN "is" ELSE "ae"]

=============================================================================
