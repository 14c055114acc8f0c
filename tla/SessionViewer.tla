---------------------------- MODULE SessionViewer ----------------------------
(***************************************************************************)
(* redteam_logcat.py following one recorded session: what the recorder of  *)
(* install.sh leaves, the two files the viewer polls (commands.log through *)
(* rsyslog, output.log through script), and what it prints.                *)
(*                                                                         *)
(* Bytes are classes, and each carries a label: the command and the line   *)
(* of its output it belongs to.  A label of command 0 is the terminal's    *)
(* own text (echo, prompt).  The two bytes "escape" and "start" or "end"   *)
(* stand for the prefix and payload of a marker; "bell" ends it.           *)
(* Outputs contain no marker of their own, the shell numbers its commands  *)
(* in order, and records of commands.log are delivered whole.              *)
(***************************************************************************)
EXTENDS Naturals, Sequences, SequencesExt, FiniteSetsExt

CONSTANTS Output,       \* what each command may print, see OutputAssumption
          History,      \* values of --history
          MaxCommand,   \* bound on the commands of the session
          MaxPending,   \* MAX_PENDING_OUTPUT, in bytes
          MaxSkips,     \* loops within IDLE_SESSION_POLL_INTERVAL
          MaxLag,       \* bound on the bytes the shell is ahead of output.log
          MaxRotations  \* bound on the rotations of commands.log, per kind

Byte == {"char", "bracket", "brace", "backslash",
         "escape", "bell", "return", "newline"}

\* An output: its bytes, which of its lines show text and are complete, and
\* whether its last escape sequence is.
ASSUME OutputAssumption ==
    /\ \A k \in 1 .. MaxCommand :
           Output[k] \subseteq [bytes : Seq(Byte), lines : SUBSET Nat, closed : BOOLEAN]
    /\ History \subseteq Nat
    /\ MaxCommand \in Nat \ {0} /\ MaxPending \in Nat
    /\ MaxSkips \in Nat /\ MaxLag \in Nat
    /\ MaxRotations \in [{"terminal", "ssh-command"} -> Nat]

VARIABLES kind,      \* "terminal", or "ssh-command"
          history,   \* --history
          made,      \* what exists of the session's directory
          stage,     \* where the recorded shell is
          entered,   \* the last command entered
          printed,   \* history: what each command printed
          output,    \* all bytes of the terminal, or of the ssh command
          written,   \* how many of them are in output.log
          ended,     \* metadata has ended_utc
          sent,      \* lines the hooks gave to logger
          delivered, \* lines rsyslog wrote, to any commands.log
          rotated,   \* the last line before the current commands.log
          rotations, \* how often logrotate replaced it
          pc,        \* where the viewer's loop is
          scanned,   \* initial_session_discovery_complete
          stale,     \* the user directory changed since the last scan
          follower,  \* of commands.log: [opened, first, offset]
          due,       \* history: the last line the follower need not return
          followed,  \* the session is in Logcat.sessions
          skipped,   \* loops since last_polled_at
          view       \* the SessionView

shell == <<kind, history, made, stage, entered, printed, output, ended>>
syslog == <<sent, delivered, rotated, rotations>>
loop == <<scanned, stale, follower, due, followed, skipped>>
vars == <<shell, written, syslog, pc, loop, view>>

Command == 1 .. MaxCommand
Steps == {"discover", "read", "poll", "metadata"}
Stream == MaxCommand + 1          \* the sequence "ssh-stream"
Label == [cmd : 0 .. MaxCommand, line : Nat]
Newline == [cmd |-> 0, line |-> 0]  \* a line end, once rendered
Terminal == [cmd |-> 0, line |-> 1]
Nothing == [bytes |-> <<>>, lines |-> {}, closed |-> TRUE]

At(byte, label) == [byte |-> byte, label |-> label]
Marker(event, k) ==
    <<At("escape", Terminal), At(event, [cmd |-> k, line |-> 0]), At("bell", Terminal)>>

\* Byte i of an output is on line 1 + the line feeds before it.
LabelledOutput(k, bytes) ==
    [i \in DOMAIN bytes |->
        At(bytes[i],
           [cmd  |-> k,
            line |-> 1 + Cardinality({j \in 1 .. i - 1 : bytes[j] = "newline"})])]

NewView(atEnd) ==
    [atEnd |-> atEnd, opened |-> FALSE, offset |-> 0,
     buffer |-> <<>>,                            \* MarkerSplitter
     mode |-> "normal", return |-> FALSE, text |-> <<>>,  \* PlainTextRenderer
     waiting |-> {}, completed |-> {},
     active |-> IF kind = "ssh-command" THEN Stream ELSE 0,
     event |-> 0, pending |-> <<>>, line |-> <<>>,
     finished |-> FALSE,                         \* stream_completion_seen
     requested |-> TRUE,
     shown |-> {},                               \* what was printed
     \* Histories: start markers read; a start marker was read before the
     \* line of an earlier one; output was dropped at MaxPending; an ssh
     \* command was closed before its output was read.
     marked |-> IF kind = "ssh-command" /\ ~atEnd THEN {1} ELSE {},
     late |-> FALSE, overflow |-> FALSE, raced |-> FALSE]

Init ==
    /\ kind \in {"terminal", "ssh-command"}
    /\ history \in History
    /\ made = "nothing"
    /\ stage = "prompt"
    /\ entered = 0
    /\ printed = [k \in Command |-> Nothing]
    /\ output = <<>>
    /\ written = 0
    /\ ended = FALSE
    /\ sent = 0
    /\ delivered = 0
    /\ rotated = 0
    /\ rotations = 0
    /\ pc = "off"
    /\ scanned = FALSE
    /\ stale = TRUE
    /\ follower = [opened |-> FALSE, first |-> 0, offset |-> 0]
    /\ due = 0
    /\ followed = FALSE
    /\ skipped = 0
    /\ view = NewView(FALSE)

-----------------------------------------------------------------------------
(***************************************************************************)
(* The recorders and the hooks of the shell.  A command is logged, then    *)
(* its start marker is printed; its end marker is printed, then its end is *)
(* logged.  An ssh command has no markers, and is logged before there is   *)
(* an output.log.                                                          *)
(***************************************************************************)
MakeDirectory ==
    /\ made = "nothing"
    /\ made' = "directory"
    /\ stale' = TRUE
    /\ UNCHANGED <<kind, history, stage, entered, printed, output, ended, written,
                   syslog, pc, scanned, follower, due, followed, skipped, view>>

MakeFiles ==
    /\ made = "directory"
    /\ kind = "ssh-command" => stage = "logged"
    /\ made' = "files"
    /\ UNCHANGED <<kind, history, stage, entered, printed, output, ended, written,
                   syslog, pc, loop, view>>

\* Another session of the same user; what a scan finds does not matter once
\* this session is followed.
MakeOtherSession ==
    /\ ~stale /\ ~followed
    /\ stale' = TRUE
    /\ UNCHANGED <<shell, written, syslog, pc, scanned, follower, due, followed, skipped, view>>

CanWrite == Len(output) - written <= MaxLag

Enter ==
    /\ CanWrite
    /\ stage = "prompt"
    /\ entered < IF kind = "terminal" THEN MaxCommand ELSE 1
    /\ made = IF kind = "terminal" THEN "files" ELSE "directory"
    /\ entered' = entered + 1
    /\ sent' = sent + 1
    /\ output' = IF kind = "terminal" THEN Append(output, At("newline", Terminal)) ELSE <<>>
    /\ stage' = "logged"
    /\ UNCHANGED <<kind, history, made, printed, ended, written, delivered, rotated, rotations,
                   pc, loop, view>>

MarkStart ==
    /\ CanWrite
    /\ stage = "logged"
    /\ kind = "terminal"
    /\ output' = output \o Marker("start", entered)
    /\ stage' = "running"
    /\ UNCHANGED <<kind, history, made, entered, printed, ended, written, syslog,
                   pc, loop, view>>

PrintOutput(o) ==
    /\ CanWrite
    /\ IF kind = "terminal" THEN stage = "running" ELSE stage = "logged" /\ made = "files"
    /\ o \in Output[entered]
    /\ printed' = [printed EXCEPT ![entered] = o]
    /\ output' = output \o LabelledOutput(entered, o.bytes)
    /\ stage' = "printed"
    /\ UNCHANGED <<kind, history, made, entered, ended, written, syslog, pc, loop, view>>

MarkEnd ==
    /\ CanWrite
    /\ stage = "printed"
    /\ kind = "terminal"
    /\ output' = output \o Marker("end", entered)
    /\ stage' = "ended"
    /\ UNCHANGED <<kind, history, made, entered, printed, ended, written, syslog,
                   pc, loop, view>>

\* redteam_ssh_stream.py returns when all of the output is in output.log.
EndStream ==
    /\ stage = "printed"
    /\ kind = "ssh-command"
    /\ written = Len(output)
    /\ ended' = TRUE
    /\ stage' = "ended"
    /\ UNCHANGED <<kind, history, made, entered, printed, output, written, syslog,
                   pc, loop, view>>

LogEnd ==
    /\ CanWrite
    /\ stage = "ended"
    /\ sent' = sent + 1
    /\ output' = IF kind = "terminal" THEN Append(output, At("char", Terminal)) ELSE output
    /\ stage' = "prompt"
    /\ UNCHANGED <<kind, history, made, entered, printed, ended, written, delivered,
                   rotated, rotations, pc, loop, view>>

\* The writes of script, or of the ssh stream, end between any two bytes.
Flush(n) ==
    /\ written + n <= Len(output)
    /\ written' = written + n
    /\ UNCHANGED <<shell, syslog, pc, loop, view>>

Deliver ==
    /\ delivered < sent
    /\ delivered' = delivered + 1
    /\ UNCHANGED <<shell, written, sent, rotated, rotations, pc, loop, view>>

\* logrotate; an empty log is left alone (notifempty).
Rotate ==
    /\ rotated < delivered
    /\ rotations < MaxRotations[kind]
    /\ rotated' = delivered
    /\ rotations' = rotations + 1
    /\ due' = delivered
    /\ UNCHANGED <<shell, written, sent, delivered, pc, scanned, stale, follower,
                   followed, skipped, view>>

-----------------------------------------------------------------------------
(***************************************************************************)
(* IndentedOutput and the callbacks of SessionView, on a view v.           *)
(***************************************************************************)
EndLine(v) ==
    [v EXCEPT !.shown = @ \cup {[under |-> v.event, text |-> t] : t \in ToSet(v.line)},
              !.line = <<>>]

Write(v, text) ==
    FoldLeft(LAMBDA w, t : IF t = Newline THEN EndLine(w) ELSE [w EXCEPT !.line = Append(@, t)],
             v, text)

\* Mutant of Fits: no limit.
FitsAlways(v, text) == TRUE

Fits(v, text) == Len(FlattenSeq(v.pending)) + Len(text) <= MaxPending

OnText(v, text) ==
    CASE text = <<>> \/ v.active = 0 -> v
      [] v.active # 0 /\ v.event # 0 -> Write(v, text)
      [] OTHER -> IF Fits(v, text) THEN [v EXCEPT !.pending = Append(@, text)]
                  ELSE [v EXCEPT !.overflow = TRUE]

BeginEvent(v, k) ==
    FoldLeft(Write, [v EXCEPT !.event = k, !.line = <<>>, !.pending = <<>>], v.pending)

\* Mutant of FinishEvent: the sequence stays active.
FinishEventStaysActive(v) ==
    [EndLine(v) EXCEPT !.event = 0, !.pending = <<>>]

FinishEvent(v) ==
    [EndLine(v) EXCEPT !.active = 0, !.event = 0, !.pending = <<>>]

\* An ssh command is closed as soon as its metadata is; rest is what its
\* output.log had more.
FinishStream(v, rest) ==
    [FinishEvent(v) EXCEPT !.raced = v.raced \/ rest]

\* Mutant of Register: forgets that the command may have ended already.
RegisterRunning(v, k, rest) ==
    LET w == [v EXCEPT !.waiting = @ \cup {k}, !.requested = TRUE]
        begun == IF w.event = 0 THEN BeginEvent([w EXCEPT !.active = k], k) ELSE w
    IN  CASE kind = "ssh-command" ->
                 IF w.finished THEN FinishStream(begun, rest) ELSE begun
          [] OTHER -> IF w.active = k /\ w.event = 0 THEN BeginEvent(w, k) ELSE w

Register(v, k, rest) ==
    LET w == [v EXCEPT !.waiting = @ \cup {k}, !.requested = TRUE]
        begun == IF w.event = 0 THEN BeginEvent([w EXCEPT !.active = k], k) ELSE w
    IN  CASE kind = "ssh-command" ->
                 IF w.finished THEN FinishStream(begun, rest) ELSE begun
          [] kind = "terminal" /\ k \in w.completed ->
                 FinishEvent(BeginEvent([w EXCEPT !.completed = @ \ {k}], k))
          [] OTHER -> IF w.active = k /\ w.event = 0 THEN BeginEvent(w, k) ELSE w

OnMarker(v, event, k) ==
    CASE event = "start" ->
             LET w == [v EXCEPT !.active = k, !.marked = @ \cup {k},
                                !.late = @ \/ ~(v.marked \subseteq v.waiting)]
             IN  IF k \in v.waiting THEN BeginEvent(w, k) ELSE w
      [] event = "end" /\ k = v.active ->
             IF v.event = 0 THEN [v EXCEPT !.completed = @ \cup {k}, !.active = 0]
             ELSE FinishEvent(v)
      [] OTHER -> v

(***************************************************************************)
(* PlainTextRenderer.feed and MarkerSplitter.feed, a byte at a time.       *)
(***************************************************************************)
FlushText(v) == OnText([v EXCEPT !.text = <<>>], v.text)
EmitNewline(v) == OnText(FlushText(v), <<Newline>>)

RenderNormal(v, b) ==
    LET w == [v EXCEPT !.return = (b.byte = "return")]
    IN  CASE b.byte = "escape" -> [FlushText(w) EXCEPT !.mode = "escape"]
          [] b.byte = "return" \/ (b.byte = "newline" /\ ~v.return) -> EmitNewline(w)
          [] b.byte = "newline" /\ v.return -> w
          [] b.byte = "bell" -> OnText(FlushText(w), <<b.label>>)
          [] OTHER -> [w EXCEPT !.text = Append(@, b.label)]

\* The state after a byte of an escape sequence.
ModeAfter(mode, byte) ==
    CASE mode = "escape" -> CASE byte = "bracket" -> "csi"
                              [] byte = "brace" -> "osc"
                              [] OTHER -> "normal"
      [] mode = "csi" -> IF byte \in {"char", "bracket", "brace", "backslash"}
                         THEN "normal" ELSE "csi"
      [] mode = "osc" -> CASE byte = "bell" -> "normal"
                           [] byte = "escape" -> "string"
                           [] OTHER -> "osc"
      [] mode = "string" -> IF byte = "backslash" THEN "normal" ELSE "string"

Render(v, b) ==
    IF v.mode = "normal" THEN RenderNormal(v, b)
    ELSE [v EXCEPT !.mode = ModeAfter(v.mode, b.byte)]

Feed(v, b) ==
    LET kept == [v EXCEPT !.buffer = Append(@, b)]
    IN  CASE Len(v.buffer) > 1 ->        \* within the payload
                 IF b.byte = "bell"
                 THEN OnMarker([v EXCEPT !.buffer = <<>>],
                               v.buffer[2].byte, v.buffer[2].label.cmd)
                 ELSE kept
          [] Len(v.buffer) = 1 /\ b.byte \in {"start", "end"} -> kept
          [] OTHER ->
                 LET w == FoldLeft(Render, [v EXCEPT !.buffer = <<>>], v.buffer)
                 IN  IF b.byte = "escape" THEN [w EXCEPT !.buffer = <<b>>] ELSE Render(w, b)

-----------------------------------------------------------------------------
(***************************************************************************)
(* Logcat.run: discover_sessions, _read_command_events, then the poll of   *)
(* each session; read_new of the two files.                                *)
(***************************************************************************)
Start ==
    /\ pc = "off"
    /\ pc' = "discover"
    /\ UNCHANGED <<shell, written, syslog, loop, view>>

\* A scan looks only into user directories that changed; a session whose
\* files are not all there is passed over.  Once the session is followed a
\* scan does nothing to it and is left out of the loop.
Discover ==
    /\ pc = "discover"
    /\ IF stale /\ made = "files"
       THEN followed' = TRUE /\ view' = NewView(history = 0 /\ ~scanned)
       ELSE UNCHANGED <<followed, view>>
    /\ scanned' = TRUE
    /\ stale' = FALSE
    /\ pc' = "read"
    /\ UNCHANGED <<shell, written, syslog, follower, due, skipped>>

\* Mutant of ReadFrom: a replaced file is noticed by its length only.
ReadFromOffset ==
    CASE ~follower.opened -> IF history = 0 THEN delivered ELSE rotated
      [] follower.opened ->
             IF delivered - rotated < follower.offset
             THEN rotated ELSE rotated + follower.offset

\* The last line before those read_new returns: a replaced or shorter file
\* is read from its start.
ReadFrom ==
    CASE ~follower.opened -> IF history = 0 THEN delivered ELSE rotated
      [] follower.opened ->
             IF follower.first # rotated \/ delivered - rotated < follower.offset
             THEN rotated ELSE rotated + follower.offset

\* How many start lines are among the first n.  Line 2k - 1 is the start of
\* command k, line 2k its end.
Starts(n) == (n + 1) \div 2

\* The commands whose start lines are among lines from + 1 .. delivered.
StartLines(from) ==
    [i \in 1 .. Starts(delivered) - Starts(from) |-> Starts(from) + i]

\* The last lines of a read, whatever they are: a history counts them.
Kept(from) ==
    IF history > 0 /\ delivered - from > history THEN delivered - history ELSE from

Unread == view.offset < Len(output)

ReadLog ==
    /\ pc = "read"
    /\ view' = IF followed
               THEN FoldLeft(LAMBDA v, k : Register(v, k, Unread), view,
                             StartLines(Kept(ReadFrom)))
               ELSE view
    /\ follower' = [opened |-> TRUE, first |-> rotated, offset |-> delivered - rotated]
    /\ due' = delivered
    /\ pc' = IF followed THEN "poll" ELSE "discover"
    /\ UNCHANGED <<shell, written, syslog, scanned, stale, followed, skipped>>

AfterPoll == IF kind = "ssh-command" /\ ~view.finished THEN "metadata" ELSE "read"

Poll ==
    /\ pc = "poll"
    /\ LET data == IF view.atEnd /\ ~view.opened THEN <<>>
                   ELSE SubSeq(output, view.offset + 1, written)
       IN  view' = [FoldLeft(Feed, view, data)
                    EXCEPT !.opened = TRUE, !.offset = written, !.requested = FALSE]
    /\ skipped' = 0
    /\ pc' = AfterPoll
    /\ UNCHANGED <<shell, written, syslog, scanned, stale, follower, due, followed>>

NeedsPoll ==
    \/ view.requested
    \/ view.active # 0
    \/ kind = "ssh-command" /\ ~view.finished

\* An idle session, less than IDLE_SESSION_POLL_INTERVAL after its last poll.
SkipPoll ==
    /\ pc = "poll"
    /\ ~NeedsPoll
    /\ skipped < MaxSkips
    /\ skipped' = skipped + 1
    /\ pc' = "read"
    /\ UNCHANGED <<shell, written, syslog, scanned, stale, follower, due, followed, view>>

PollMetadata ==
    /\ pc = "metadata"
    /\ view' = IF ~ended THEN view
               ELSE LET v == [view EXCEPT !.finished = TRUE]
                    IN  IF v.event # 0 THEN FinishStream(v, Unread) ELSE v
    /\ pc' = "read"
    /\ UNCHANGED <<shell, written, syslog, loop>>

-----------------------------------------------------------------------------
Shell ==
    \/ MakeDirectory \/ MakeFiles \/ MakeOtherSession
    \/ Enter \/ MarkStart \/ \E o \in UNION {Output[k] : k \in Command} : PrintOutput(o)
    \/ MarkEnd \/ EndStream \/ LogEnd
    \/ \E n \in 1 .. Len(output) : Flush(n)

Syslog == Deliver \/ Rotate

Viewer == Discover \/ ReadLog \/ Poll \/ SkipPoll \/ PollMetadata

Next == Shell \/ Syslog \/ Start \/ Viewer

Spec == Init /\ [][Next]_vars

\* Every step of the viewer moves pc; its loop never ends.  script and the ssh
\* stream write what they have read.
Turn == pc # "off" /\ \E step \in Steps : pc' = step

FairSpec ==
    /\ Spec
    /\ WF_pc(Turn)
    /\ WF_written(\E n \in 1 .. Len(output) : Flush(n))

-----------------------------------------------------------------------------
Labels(texts) == \A i \in DOMAIN texts : texts[i] \in Label

\* The types; and the memory of output that waits for its command is bounded.
TypeOK ==
    /\ made \in {"nothing", "directory", "files"}
    /\ stage \in {"prompt", "logged", "running", "printed", "ended"}
    /\ entered \in 0 .. MaxCommand
    /\ written \in 0 .. Len(output)
    /\ rotated \in 0 .. delivered /\ delivered \in 0 .. sent
    /\ pc \in Steps \cup {"off"}
    /\ skipped \in 0 .. MaxSkips
    /\ view.offset \in 0 .. written
    /\ view.waiting \cup view.completed \subseteq Command
    /\ view.active \in 0 .. Stream /\ view.event \in 0 .. MaxCommand
    /\ Labels(view.text) /\ Labels(view.line)
    /\ Len(FlattenSeq(view.pending)) <= MaxPending

\* Every start line reaches the view no more than once and none is left out,
\* whatever logrotate does between two reads: read_new of commands.log returns
\* the lines written since the last read to the file that is there.
LinesAreReadOnce == follower.opened => ReadFrom = due

\* As long as no log line comes after the start marker of a later command,
\* what is printed under a command is its own output: no partial line, cut
\* marker or escape sequence carries text across a boundary.
GroupedUntilLate ==
    ~view.late => \A s \in view.shown : s.text.cmd \in {0, s.under}

\* Neither a prompt nor an echoed command line is ever printed as output,
\* late lines or not.
PromptIsHidden == \A s \in view.shown : s.text.cmd # 0

ShellIsClosed(k) == \A j \in 1 .. k - 1 : printed[j].closed

\* A complete line of a command whose start line and start marker the viewer
\* read is printed in the end: lines registered before, in or after the
\* output, a fast command that ended before its line came, and an idle
\* session included.  What excepts it is in the antecedent.
LinesAreShown ==
    \A k \in Command : \A l \in UNION {o.lines : o \in Output[k]} :
        [](~view.late /\ ~view.overflow /\ ~view.raced) =>
            ( /\ k \in view.marked \cap view.waiting
              /\ l \in printed[k].lines
              /\ ShellIsClosed(k)
              ~> [under |-> k, text |-> [cmd |-> k, line |-> l]] \in view.shown )

\* "Sessions created afterwards must be consumed from byte zero": a scan finds
\* every session whose files are there.
NewSessionsAreFollowed == [][Discover /\ made = "files" => followed']_vars

=============================================================================
