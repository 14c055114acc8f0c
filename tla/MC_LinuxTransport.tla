-------------------------- MODULE MC_LinuxTransport --------------------------
(***************************************************************************)
(* Instances of LinuxTransport for TLC: an interactive command with an     *)
(* output of two chunks and a forced SSH command.                          *)
(***************************************************************************)
EXTENDS LinuxTransport

CONSTANTS j1, ssh

TwoJobs == {j1, ssh}
TwoJobChunks == [j \in TwoJobs |-> IF j = j1 THEN 2 ELSE 1]
SshJobs == {ssh}
Late == {j1}
Nothing == {}
=============================================================================
