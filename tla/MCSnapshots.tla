----------------------------- MODULE MCSnapshots -----------------------------
(***************************************************************************)
(* Snapshots with logs of a few commands.                                  *)
(***************************************************************************)
EXTENDS Snapshots

CONSTANTS v1, v2, v3, v4, v5

Do(i, t, v) == [index |-> i, term |-> t, kind |-> "command", val |-> v]

MCOld == <<Do(0, 1, v1), Do(1, 1, v2), Do(2, 1, v3), Do(3, 1, v4)>>
MCNew == <<Do(0, 1, v1), Do(1, 1, v2), Noop(2, 2), Do(3, 2, v5)>>

=============================================================================
