-------------------------- MODULE MC_SessionViewer --------------------------
(***************************************************************************)
(* Two commands.  The first prints a line and a part of one, a coloured    *)
(* line, or an escape sequence that is not complete; the second what can   *)
(* tell whether anything of that reached it.                               *)
(***************************************************************************)
EXTENDS SessionViewer

Printed(bytes, lines, closed) == [bytes |-> bytes, lines |-> lines, closed |-> closed]

Text == Printed(<<"char", "newline", "char">>, {1}, TRUE)
Coloured ==
    Printed(<<"escape", "bracket", "char", "char", "return", "newline">>, {1}, TRUE)
Cut == Printed(<<"escape", "brace">>, {}, FALSE)

MCOutput == <<{Text, Coloured, Cut}, {Text}>>
MCHistory == {0, 1}

\* Rotations are checked with the two lines of an ssh command.
MCMaxRotations == [k \in {"terminal", "ssh-command"} |-> IF k = "terminal" THEN 0 ELSE 1]
=============================================================================
