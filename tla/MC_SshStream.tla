---------------------------- MODULE MC_SshStream ----------------------------
(***************************************************************************)
(* Two bytes of input, so that a buffer of two is written in parts to a  *)
(* pipe of one; the output a filter makes of it; an exit and a signal.     *)
(***************************************************************************)
EXTENDS SshStream

MCMaxOutput == [stdout |-> 2, stderr |-> 1]
MCExitCodes == {3, -9}
=============================================================================
