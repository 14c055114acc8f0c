------------------------------ MODULE SshStream ------------------------------
(***************************************************************************)
(* redteam_ssh_stream.py: the selector loop that records a forced SSH      *)
(* command.  It copies the command's stdout and stderr to output.log and   *)
(* to the client, and, when stdin is captured, the client's bytes to       *)
(* input.log and through a buffer to the command.                          *)
(*                                                                         *)
(* Around it run the command with its descendants, which write, read,      *)
(* close their ends and exit in any order, and the client, which sends,    *)
(* ends its input or goes away.  Output is counted, input bytes are        *)
(* numbered in the order sent.                                             *)
(***************************************************************************)
EXTENDS Integers, Sequences, SequencesExt

CONSTANTS MaxOutput, \* bound on the bytes written to each of stdout and stderr
          MaxInput,  \* bound on the bytes the client sends
          PipeSize,  \* capacity of a pipe to or from the command
          ExitCodes  \* values of Popen.returncode; a signal is negative

Stream == {"stdout", "stderr"}
Key == Stream \cup {"ssh-stdin", "child-stdin"}
NoStatus == 256

ASSUME StreamAssumption ==
    /\ MaxOutput \in [Stream -> Nat]
    /\ MaxInput \in Nat
    /\ PipeSize \in Nat \ {0}
    /\ ExitCodes \subseteq -64 .. 255

VARIABLES capture,   \* REDTEAM_SSH_CAPTURE_STDIN
          \* the command and its descendants
          holders,   \* streams whose write end some process holds
          reading,   \* some process holds the read end of stdin
          ended,     \* poll() would find a returncode
          wrote,     \* bytes written to each stream
          taken,     \* bytes read from stdin
          \* the client
          sent,      \* bytes sent
          eof,       \* it has closed its stdin
          gone,      \* the connection is lost: it reads no more
          received,  \* bytes it got of each stream
          \* the recorder
          pc, batch, \* where the loop is; ready keys it has still to handle
          keys,      \* streams.get_map()
          recorded,  \* bytes of each stream read, and written to output.log
          mirror,    \* write_all to the client: [to, left]
          logged,    \* bytes of stdin read, and written to input.log
          pending,   \* pending_stdin
          forwarded, \* history: bytes written to child_stdin
          stdinOpen, childStdinOpen,
          reported   \* the exit status, once main returns

command == <<holders, reading, ended, wrote, taken>>
client == <<sent, eof, gone>>
input == <<logged, pending, forwarded, stdinOpen, childStdinOpen>>
output == <<recorded, received, mirror>>
vars == <<capture, command, client, pc, batch, keys, input, output, reported>>

Init ==
    /\ capture \in BOOLEAN
    /\ holders = Stream
    /\ reading = capture
    /\ ended = FALSE
    /\ wrote = [s \in Stream |-> 0]
    /\ taken = 0
    /\ sent = 0
    /\ eof = FALSE
    /\ gone = FALSE
    /\ received = [s \in Stream |-> 0]
    /\ pc = "select"
    /\ batch = {}
    /\ keys = IF capture THEN Stream \cup {"ssh-stdin"} ELSE Stream
    /\ recorded = [s \in Stream |-> 0]
    /\ mirror = [to |-> "stdout", left |-> 0]
    /\ logged = 0
    /\ pending = <<>>
    /\ forwarded = <<>>
    /\ stdinOpen = capture
    /\ childStdinOpen = capture
    /\ reported = NoStatus

-----------------------------------------------------------------------------
(***************************************************************************)
(* The command.  Its descendants may keep a pipe after it has ended, it    *)
(* may close one long before, and an exit closes its files some time       *)
(* before poll() sees it.  The model ends with the recorder.               *)
(***************************************************************************)
Stopped == pc \in {"returned", "failed"}

recorder == <<capture, pc, batch, keys, input, output, reported>>

Write(s) ==
    /\ ~Stopped /\ s \in holders
    /\ wrote[s] < MaxOutput[s]
    /\ wrote[s] - recorded[s] < PipeSize
    /\ wrote' = [wrote EXCEPT ![s] = @ + 1]
    /\ UNCHANGED <<recorder, client, holders, reading, ended, taken>>

Take ==
    /\ ~Stopped /\ reading /\ taken < Len(forwarded)
    /\ taken' = taken + 1
    /\ UNCHANGED <<recorder, client, holders, reading, ended, wrote>>

\* It closes a pipe, its last holder closes it, or it exits.
Closes ==
    /\ ~Stopped
    /\ \/ \E s \in holders : holders' = holders \ {s} /\ UNCHANGED <<reading, ended>>
       \/ reading /\ reading' = FALSE /\ UNCHANGED <<holders, ended>>
       \/ ~ended /\ ended' = TRUE /\ UNCHANGED <<holders, reading>>
    /\ UNCHANGED <<recorder, client, wrote, taken>>

\* The client sends a byte, ends its input, or is lost.
Client ==
    /\ ~Stopped
    /\ \/ capture /\ ~eof /\ sent < MaxInput /\ sent' = sent + 1 /\ UNCHANGED <<eof, gone>>
       \/ capture /\ ~eof /\ eof' = TRUE /\ UNCHANGED <<sent, gone>>
       \/ ~gone /\ gone' = TRUE /\ UNCHANGED <<sent, eof>>
    /\ UNCHANGED <<recorder, command>>

-----------------------------------------------------------------------------
outside == <<capture, command, client>>
Room == PipeSize - (Len(forwarded) - taken)

Unregistered(key) == keys \ {key}

(***************************************************************************)
(* streams.select(): a reader is ready with data or at the end of file,    *)
(* child-stdin with room in its pipe or when nobody reads it.              *)
(***************************************************************************)
Ready(key) ==
    CASE key \in Stream      -> recorded[key] < wrote[key] \/ key \notin holders
      [] key = "ssh-stdin"   -> logged < sent \/ eof
      [] key = "child-stdin" -> Room > 0 \/ ~reading

Select ==
    /\ pc = "select"
    /\ \E key \in keys : Ready(key)
    /\ batch' = {key \in keys : Ready(key)}
    /\ pc' = "handle"
    /\ UNCHANGED <<outside, keys, input, output, reported>>

Handles(key) == pc = "handle" /\ key \in batch /\ batch' = batch \ {key}

(***************************************************************************)
(* Output: read what the pipe holds (a read is as large as a pipe), append *)
(* it to output.log, then write_all it to the client: of the bytes during  *)
(* which the connection is lost some may still arrive.                     *)
(***************************************************************************)
ReadOutput(s) ==
    /\ Handles(s)
    /\ recorded[s] < wrote[s]
    /\ recorded' = [recorded EXCEPT ![s] = wrote[s]]
    /\ mirror' = [to |-> s, left |-> wrote[s] - recorded[s]]
    /\ pc' = "mirror"
    /\ UNCHANGED <<outside, keys, input, received, reported>>

Mirror ==
    /\ pc = "mirror"
    /\ \E n \in 0 .. mirror.left :
          /\ ~gone => n = mirror.left
          /\ received' = [received EXCEPT ![mirror.to] = @ + n]
    /\ mirror' = [mirror EXCEPT !.left = 0]
    /\ pc' = "handle"
    /\ UNCHANGED <<outside, batch, keys, input, recorded, reported>>

\* Mutant of EndOutput: closes the pipe but leaves it in the selector.
CloseOutput(s) ==
    /\ Handles(s)
    /\ recorded[s] = wrote[s]
    /\ UNCHANGED <<outside, keys, pc, input, output, reported>>

EndOutput(s) ==
    /\ Handles(s)
    /\ recorded[s] = wrote[s]
    /\ keys' = Unregistered(s)
    /\ UNCHANGED <<outside, pc, input, output, reported>>

\* Mutant of Arrived: starts one byte early.
ArrivedEarly == [i \in 1 .. sent - logged |-> logged + i - 1]

Arrived == [i \in 1 .. sent - logged |-> logged + i]

(***************************************************************************)
(* Input.  For bytes that arrive after child_stdin was closed its fileno() *)
(* raises a ValueError, which ends the recorder.                           *)
(***************************************************************************)
ReadInput ==
    /\ Handles("ssh-stdin")
    /\ logged < sent
    /\ logged' = sent
    /\ pending' = pending \o Arrived
    /\ IF childStdinOpen
       THEN keys' = keys \cup {"child-stdin"} /\ UNCHANGED pc
       ELSE pc' = "failed" /\ UNCHANGED keys
    /\ UNCHANGED <<outside, forwarded, stdinOpen, childStdinOpen, output, reported>>

\* Mutant of StaysOpen: the end of the input closes the command's at once.
ClosesAtOnce == FALSE

StaysOpen == childStdinOpen /\ pending # <<>>

EndInput ==
    /\ Handles("ssh-stdin")
    /\ logged = sent /\ eof
    /\ stdinOpen' = FALSE
    /\ childStdinOpen' = StaysOpen
    /\ keys' = Unregistered("ssh-stdin")
    /\ UNCHANGED <<outside, pc, logged, pending, forwarded, output, reported>>

\* Mutant of KeysAfterWrite: unregisters child-stdin with bytes still pending.
KeysAfterPart(rest) == Unregistered("child-stdin")

KeysAfterWrite(rest) == IF rest = <<>> THEN Unregistered("child-stdin") ELSE keys

\* os.write to the non-blocking pipe takes what there is room for.
WriteInput ==
    LET n == IF Len(pending) <= Room THEN Len(pending) ELSE Room
        rest == SubSeq(pending, n + 1, Len(pending)) IN
    /\ Handles("child-stdin")
    /\ reading
    /\ forwarded' = forwarded \o SubSeq(pending, 1, n)
    /\ pending' = rest
    /\ keys' = KeysAfterWrite(rest)
    /\ childStdinOpen' = (rest # <<>> \/ stdinOpen)
    /\ UNCHANGED <<outside, pc, logged, stdinOpen, output, reported>>

InputRefused ==
    /\ Handles("child-stdin")
    /\ ~reading
    /\ pending' = <<>>
    /\ childStdinOpen' = FALSE
    /\ keys' = Unregistered("child-stdin")
    /\ UNCHANGED <<outside, pc, logged, forwarded, stdinOpen, output, reported>>

\* Mutant of StillRead: the end of the command ends the reading.
NothingRead == {}

\* Once the command has ended, only its output matters.
StillRead == keys \cap Stream

\* After a batch.
Poll ==
    /\ pc = "handle" /\ batch = {}
    /\ pc' = "select"
    /\ keys' = IF ended THEN StillRead ELSE keys
    /\ pending' = IF ended THEN <<>> ELSE pending
    /\ childStdinOpen' = (childStdinOpen /\ ~ended)
    /\ UNCHANGED <<outside, batch, logged, forwarded, stdinOpen, output, reported>>

\* Nothing left to select: wait(), and report the status as a shell does.
Return ==
    /\ pc = "select" /\ keys = {}
    /\ ended
    /\ \E code \in ExitCodes :
          reported' = IF code >= 0 THEN code ELSE 128 - code
    /\ pc' = "returned"
    /\ UNCHANGED <<outside, batch, keys, input, output>>

Turn ==
    \/ Select \/ Mirror \/ Poll \/ Return
    \/ \E s \in Stream : ReadOutput(s) \/ EndOutput(s)
    \/ ReadInput \/ EndInput \/ WriteInput \/ InputRefused

Next ==
    \/ Turn
    \/ \E s \in Stream : Write(s)
    \/ Take \/ Closes \/ Client

Spec == Init /\ [][Next]_vars

(***************************************************************************)
(* The recorder runs while it can; sshd reads what it is given, until the  *)
(* connection is lost.  Of the command only this: it prints what it has to *)
(* print, and then reads what there is to read (cat file -); a command     *)
(* that never reads or never ends is not excluded by closing its pipes.    *)
(***************************************************************************)
TakeNext == wrote["stdout"] = MaxOutput["stdout"] /\ Take

FairSpec == Spec /\ WF_vars(Turn) /\ WF_vars(Write("stdout")) /\ WF_vars(TakeNext)

-----------------------------------------------------------------------------
TypeOK ==
    /\ capture \in BOOLEAN
    /\ holders \subseteq Stream
    /\ reading \in BOOLEAN
    /\ ended \in BOOLEAN
    /\ wrote \in [Stream -> Nat]
    /\ taken \in 0 .. Len(forwarded)
    /\ sent \in 0 .. MaxInput
    /\ eof \in BOOLEAN
    /\ gone \in BOOLEAN
    /\ received \in [Stream -> Nat]
    /\ pc \in {"select", "handle", "mirror", "returned", "failed"}
    /\ batch \subseteq Key
    /\ keys \subseteq Key
    /\ recorded \in [Stream -> Nat]
    /\ mirror \in [to : Stream, left : Nat]
    /\ logged \in 0 .. sent
    /\ pending \in Seq(1 .. MaxInput)
    /\ forwarded \in Seq(1 .. MaxInput)
    /\ stdinOpen \in BOOLEAN
    /\ childStdinOpen \in BOOLEAN
    /\ reported \in 0 .. NoStatus

(***************************************************************************)
(* The record leads: the client never has a byte that output.log has not,  *)
(* and misses none while it stays.  When the recorder returns, output.log  *)
(* has everything the command and its descendants wrote to both streams,   *)
(* wherever they closed them, exited, or the client left.                  *)
(***************************************************************************)
RecordIsComplete ==
    /\ \A s \in Stream :
          LET left == IF mirror.to = s THEN mirror.left ELSE 0 IN
          /\ received[s] + left <= recorded[s]
          /\ ~gone => received[s] + left = recorded[s]
    /\ pc = "returned" => holders = {} /\ recorded = wrote

(***************************************************************************)
(* The command reads the client's bytes in order and without a gap, all of *)
(* them in input.log before; while its stdin is open nothing is dropped;   *)
(* and it sees the end of its input only after the last byte, unless it    *)
(* has ended or refuses to read.  No closed file stays in the selector.    *)
(***************************************************************************)
InputInOrder ==
    LET all == [i \in 1 .. logged |-> i] IN
    /\ pc # "failed" => IsPrefix(forwarded \o pending, all)
    /\ childStdinOpen => forwarded \o pending = all
    /\ capture /\ ~childStdinOpen /\ reading /\ ~ended =>
          eof /\ logged = sent /\ forwarded = all
    /\ "child-stdin" \in keys => childStdinOpen /\ pending # <<>>

(***************************************************************************)
(* The recorder outlives its use in one way only: both outputs have ended  *)
(* before poll() saw the command end, and the client neither sends nor     *)
(* ends its input.                                                         *)
(***************************************************************************)
Idle == pc = "select" /\ keys = {"ssh-stdin"} /\ logged = sent /\ ~eof

(***************************************************************************)
(* Once the command has ended and no process holds a pipe of it any more,  *)
(* the recorder stops, or is Idle; input the command left unread and pipes *)
(* half closed never keep it.                                              *)
(***************************************************************************)
Terminates == ended /\ holders = {} /\ ~reading ~> Stopped \/ Idle

(***************************************************************************)
(* A command that reads gets all its input, and the end of it, however     *)
(* full the pipes both ways: the recorder never waits for a command that   *)
(* waits for it.                                                           *)
(***************************************************************************)
Unread == ended \/ ~reading \/ "stdout" \notin holders \/ pc = "failed"

InputIsDelivered ==
    capture ~> Unread \/ (Len(forwarded) = sent /\ (eof => ~childStdinOpen))
=============================================================================
