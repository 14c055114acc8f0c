--------------------------- MODULE MC_MacTransport ---------------------------
(***************************************************************************)
(* Instances of MacTransport for TLC: a command with an output of two      *)
(* chunks and one of one.                                                  *)
(***************************************************************************)
EXTENDS MacTransport

CONSTANTS j1, j2

TwoJobs == {j1, j2}
TwoJobChunks == [j \in TwoJobs |-> IF j = j1 THEN 2 ELSE 1]
=============================================================================
