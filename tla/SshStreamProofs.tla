--------------------------- MODULE SshStreamProofs ---------------------------
(***************************************************************************)
(* Proofs about SshStream, for any amount of output and input, any size of *)
(* pipe and any exit codes.                                                *)
(***************************************************************************)
EXTENDS SshStream, SequenceTheorems, TLAPS

(***************************************************************************)
(* Types, and that a pipe never holds more than it can.                    *)
(***************************************************************************)
Typed == TypeOK /\ Room >= 0

(***************************************************************************)
(* The recorder starts well typed.                                         *)
(***************************************************************************)
LEMMA InitTyped == Init => Typed
<1> SUFFICES ASSUME Init PROVE Typed
  OBVIOUS
<1>1. /\ mirror \in [to : Stream, left : Nat] /\ keys \subseteq Key
      /\ wrote \in [Stream -> Nat] /\ received \in [Stream -> Nat]
      /\ recorded \in [Stream -> Nat] /\ batch \subseteq Key
  BY DEF Init, Stream, Key
<1>2. /\ pending \in Seq(1 .. MaxInput) /\ forwarded \in Seq(1 .. MaxInput)
      /\ Len(forwarded) = 0
  <2>1. <<>> \in Seq(1 .. MaxInput) /\ Len(<<>>) = 0
    OBVIOUS
  <2> QED
    BY <2>1 DEF Init
<1>3. /\ taken \in 0 .. Len(forwarded) /\ sent \in 0 .. MaxInput /\ logged \in 0 .. sent
      /\ reported \in 0 .. NoStatus /\ holders \subseteq Stream
      /\ pc \in {"select", "handle", "mirror", "returned", "failed"}
  BY <1>2, StreamAssumption DEF Init, NoStatus
<1>4. /\ capture \in BOOLEAN /\ reading \in BOOLEAN /\ ended \in BOOLEAN
      /\ eof \in BOOLEAN /\ gone \in BOOLEAN
      /\ stdinOpen \in BOOLEAN /\ childStdinOpen \in BOOLEAN
  BY Zenon DEF Init
<1>5. TypeOK
  BY <1>1, <1>2, <1>3, <1>4 DEF TypeOK
<1>6. Room >= 0
  BY <1>2, StreamAssumption DEF Init, Room
<1> QED
  BY <1>5, <1>6 DEF Typed

(***************************************************************************)
(* Writing a part of the buffer keeps its bytes, in their order.           *)
(***************************************************************************)
LEMMA PartWritten ==
    ASSUME NEW S, NEW p \in Seq(S), NEW f \in Seq(S), NEW n \in 0 .. Len(p)
    PROVE  /\ SubSeq(p, 1, n) \in Seq(S) /\ Len(SubSeq(p, 1, n)) = n
           /\ SubSeq(p, n + 1, Len(p)) \in Seq(S)
           /\ Len(SubSeq(p, n + 1, Len(p))) = Len(p) - n
           /\ \A i \in 1 .. Len(p) - n : SubSeq(p, n + 1, Len(p))[i] = p[n + i]
           /\ f \o SubSeq(p, 1, n) \in Seq(S)
           /\ Len(f \o SubSeq(p, 1, n)) = Len(f) + n
           /\ \A i \in 1 .. Len(f) : (f \o SubSeq(p, 1, n))[i] = f[i]
           /\ \A i \in 1 .. n : (f \o SubSeq(p, 1, n))[Len(f) + i] = p[i]
<1>1. SubSeq(p, 1, n) \in Seq(S) /\ Len(SubSeq(p, 1, n)) = n
      /\ \A i \in 1 .. n : SubSeq(p, 1, n)[i] = p[i]
  OBVIOUS
<1>2. /\ SubSeq(p, n + 1, Len(p)) \in Seq(S)
      /\ Len(SubSeq(p, n + 1, Len(p))) = Len(p) - n
      /\ \A i \in 1 .. Len(p) - n : SubSeq(p, n + 1, Len(p))[i] = p[n + i]
  OBVIOUS
<1>3. ASSUME NEW q \in Seq(S), Len(q) = n
      PROVE  /\ f \o q \in Seq(S) /\ Len(f \o q) = Len(f) + n
             /\ \A i \in 1 .. Len(f) : (f \o q)[i] = f[i]
             /\ \A i \in 1 .. n : (f \o q)[Len(f) + i] = q[i]
  BY <1>3
<1> QED
  BY <1>1, <1>2, <1>3

(***************************************************************************)
(* The bytes of a read.                                                    *)
(***************************************************************************)
LEMMA BytesArrived ==
    ASSUME TypeOK, logged < sent
    PROVE  /\ Arrived \in Seq(1 .. MaxInput) /\ Len(Arrived) = sent - logged
           /\ \A i \in 1 .. sent - logged : Arrived[i] = logged + i
           /\ pending \o Arrived \in Seq(1 .. MaxInput)
           /\ Len(pending \o Arrived) = Len(pending) + (sent - logged)
           /\ \A i \in 1 .. Len(pending) : (pending \o Arrived)[i] = pending[i]
           /\ \A i \in 1 .. sent - logged : (pending \o Arrived)[Len(pending) + i] = logged + i
<1>1. logged \in Nat /\ sent \in Nat /\ sent <= MaxInput /\ MaxInput \in Nat
  BY StreamAssumption DEF TypeOK
<1>2. /\ Arrived \in Seq(1 .. MaxInput) /\ Len(Arrived) = sent - logged
      /\ \A i \in 1 .. sent - logged : Arrived[i] = logged + i
  BY <1>1 DEF Arrived
<1>3. ASSUME NEW q \in Seq(1 .. MaxInput), Len(q) = sent - logged
      PROVE  /\ pending \o q \in Seq(1 .. MaxInput)
             /\ Len(pending \o q) = Len(pending) + (sent - logged)
             /\ \A i \in 1 .. Len(pending) : (pending \o q)[i] = pending[i]
             /\ \A i \in 1 .. sent - logged : (pending \o q)[Len(pending) + i] = q[i]
  <2>1. pending \in Seq(1 .. MaxInput)
    BY DEF TypeOK
  <2> QED
    BY <1>1, <1>3, <2>1, SMTT(30)
<1> QED
  BY <1>2, <1>3

(***************************************************************************)
(* What a write to the command does to the counts and buffers.             *)
(***************************************************************************)
LEMMA InputWritten ==
    ASSUME Typed, WriteInput
    PROVE  /\ forwarded' \in Seq(1 .. MaxInput) /\ pending' \in Seq(1 .. MaxInput)
           /\ Len(forwarded') >= Len(forwarded)
           /\ Len(forwarded') - taken <= PipeSize
           /\ Len(forwarded') + Len(pending') = Len(forwarded) + Len(pending)
           /\ \A i \in 1 .. Len(forwarded) : forwarded'[i] = forwarded[i]
           /\ \A i \in 1 .. Len(forwarded') - Len(forwarded) :
                 i \in 1 .. Len(pending) /\ forwarded'[Len(forwarded) + i] = pending[i]
           /\ \A i \in 1 .. Len(pending') :
                 pending'[i] = pending[Len(forwarded') - Len(forwarded) + i]
<1> DEFINE Byte == 1 .. MaxInput
<1>1. PICK S : S = Byte
  OBVIOUS
<1>2. /\ pending \in Seq(S) /\ forwarded \in Seq(S)
      /\ taken \in Nat /\ PipeSize \in Nat /\ Room >= 0 /\ Room \in Int
      /\ Room = PipeSize - (Len(forwarded) - taken)
  BY <1>1, StreamAssumption DEF Typed, TypeOK, Room
<1> HIDE DEF Byte
<1>3. PICK n \in 0 .. Len(pending) :
         /\ n <= Room
         /\ forwarded' = forwarded \o SubSeq(pending, 1, n)
         /\ pending' = SubSeq(pending, n + 1, Len(pending))
  <2> DEFINE m == IF Len(pending) <= Room THEN Len(pending) ELSE Room
  <2>1. m \in 0 .. Len(pending) /\ m <= Room
    BY <1>2
  <2>2. /\ forwarded' = forwarded \o SubSeq(pending, 1, m)
        /\ pending' = SubSeq(pending, m + 1, Len(pending))
    BY DEF WriteInput
  <2> HIDE DEF m
  <2> QED
    BY <2>1, <2>2
<1>4. /\ Len(forwarded') = Len(forwarded) + n /\ Len(pending') = Len(pending) - n
      /\ forwarded' \in Seq(S) /\ pending' \in Seq(S)
      /\ \A i \in 1 .. Len(forwarded) : forwarded'[i] = forwarded[i]
      /\ \A i \in 1 .. n : forwarded'[Len(forwarded) + i] = pending[i]
      /\ \A i \in 1 .. Len(pending) - n : pending'[i] = pending[n + i]
  <2>1. ASSUME NEW f, NEW p, f = forwarded \o SubSeq(pending, 1, n),
               p = SubSeq(pending, n + 1, Len(pending))
        PROVE  /\ Len(f) = Len(forwarded) + n /\ Len(p) = Len(pending) - n
               /\ f \in Seq(S) /\ p \in Seq(S)
               /\ \A i \in 1 .. Len(forwarded) : f[i] = forwarded[i]
               /\ \A i \in 1 .. n : f[Len(forwarded) + i] = pending[i]
               /\ \A i \in 1 .. Len(pending) - n : p[i] = pending[n + i]
    <3>1. pending \in Seq(S) /\ forwarded \in Seq(S)
      BY <1>2
    <3> QED
      BY <2>1, <3>1, PartWritten
  <2> QED
    BY <1>3, <2>1
<1>5. Len(forwarded) \in Nat /\ Len(pending) \in Nat /\ n \in 0 .. Len(pending)
  BY <1>2
<1>6. /\ Len(forwarded') - Len(forwarded) = n /\ Len(forwarded') - taken <= PipeSize
      /\ Len(forwarded') >= Len(forwarded)
      /\ Len(forwarded') + Len(pending') = Len(forwarded) + Len(pending)
  <2>1. /\ Len(forwarded') = Len(forwarded) + n /\ Len(pending') = Len(pending) - n
        /\ Room = PipeSize - (Len(forwarded) - taken) /\ n <= Room
        /\ taken \in Nat /\ PipeSize \in Nat
    BY <1>2, <1>3, <1>4
  <2> QED
    BY <1>5, <2>1
<1>7. /\ \A i \in 1 .. Len(forwarded') - Len(forwarded) :
            i \in 1 .. Len(pending) /\ forwarded'[Len(forwarded) + i] = pending[i]
      /\ \A i \in 1 .. Len(pending') :
            pending'[i] = pending[Len(forwarded') - Len(forwarded) + i]
  BY <1>4, <1>5, <1>6
<1> QED
  BY <1>1, <1>4, <1>6, <1>7 DEF Byte

(***************************************************************************)
(* Every step keeps types.                                                 *)
(***************************************************************************)
LEMMA NextTyped == Typed /\ [Next]_vars => Typed'
<1> SUFFICES ASSUME Typed, [Next]_vars PROVE Typed'
  OBVIOUS
<1>e. <<>> \in Seq(1 .. MaxInput)
  OBVIOUS
<1> USE DEF Typed, TypeOK, Room
<1>1. ASSUME NEW s \in Stream, Write(s) PROVE Typed'
  <2>1. wrote' \in [Stream -> Nat]
    BY <1>1 DEF Write
  <2> QED
    BY <1>1, <2>1 DEF Write, recorder, input, output, client
<1>2. CASE Take
  BY <1>2, StreamAssumption DEF Take, recorder, input, output, client
<1>3. CASE Closes
  <2>1. holders' \subseteq Stream
    BY <1>3 DEF Closes
  <2>2. reading' \in BOOLEAN /\ ended' \in BOOLEAN
    <3>1. CASE reading' = FALSE /\ ended' = ended
      BY <3>1
    <3>2. CASE ended' = TRUE /\ reading' = reading
      BY <3>2
    <3>3. CASE ended' = ended /\ reading' = reading
      BY <3>3
    <3> QED
      BY <1>3, <3>1, <3>2, <3>3, Zenon DEF Closes
  <2>3. UNCHANGED <<wrote, taken, client, recorder>>
    BY <1>3 DEF Closes
  <2> QED
    BY <2>1, <2>2, <2>3 DEF recorder, input, output, client
<1>4. CASE Client
  <2>1. sent' \in 0 .. MaxInput /\ logged \in 0 .. sent'
    BY <1>4, StreamAssumption, SMTT(30) DEF Client
  <2>2. eof' \in BOOLEAN /\ gone' \in BOOLEAN
    BY <1>4, Zenon DEF Client
  <2> QED
    BY <1>4, <2>1, <2>2 DEF Client, recorder, input, output, command
<1> USE DEF outside, command, client, input, output
<1>5. CASE Select
  BY <1>5 DEF Select
<1>6. CASE Mirror
  <2>1. mirror' \in [to : Stream, left : Nat]
    BY <1>6 DEF Mirror
  <2>2. received' \in [Stream -> Nat]
    <3>1. PICK n \in 0 .. mirror.left : received' = [received EXCEPT ![mirror.to] = @ + n]
      BY <1>6 DEF Mirror
    <3> QED
      BY <3>1
  <2> QED
    BY <1>6, <2>1, <2>2 DEF Mirror
<1>7. CASE Poll
  <2>1. pending' \in Seq(1 .. MaxInput)
    BY <1>7, <1>e DEF Poll
  <2>2. childStdinOpen' \in BOOLEAN
    BY <1>7 DEF Poll
  <2> QED
    BY <1>7, <2>1, <2>2 DEF Poll, StillRead
<1>8. CASE Return
  BY <1>8, StreamAssumption DEF Return, NoStatus
<1>9. ASSUME NEW s \in Stream, ReadOutput(s) PROVE Typed'
  <2>1. recorded' \in [Stream -> Nat]
    BY <1>9 DEF ReadOutput
  <2>2. mirror' \in [to : Stream, left : Nat]
    BY <1>9 DEF ReadOutput
  <2> QED
    BY <1>9, <2>1, <2>2 DEF ReadOutput, Handles
<1>10. ASSUME NEW s \in Stream, EndOutput(s) PROVE Typed'
  BY <1>10 DEF EndOutput, Handles, Unregistered
<1>11. CASE ReadInput
  <2>1. pending' \in Seq(1 .. MaxInput)
    BY <1>11, BytesArrived DEF ReadInput
  <2>2. keys' \subseteq Key /\ batch' \subseteq Key /\ logged' \in 0 .. sent'
    BY <1>11 DEF ReadInput, Handles, Key
  <2> QED
    BY <1>11, <2>1, <2>2 DEF ReadInput
<1>12. CASE EndInput
  BY <1>12 DEF EndInput, Handles, Unregistered, StaysOpen
<1>13. CASE WriteInput
  <2>1. /\ forwarded' \in Seq(1 .. MaxInput) /\ pending' \in Seq(1 .. MaxInput)
        /\ Len(forwarded') >= Len(forwarded)
        /\ Len(forwarded') - taken <= PipeSize
    BY <1>13, InputWritten
  <2>2. keys' \subseteq Key /\ batch' \subseteq Key
    BY <1>13 DEF WriteInput, Handles, KeysAfterWrite, Unregistered
  <2>3. childStdinOpen' \in BOOLEAN
    BY <1>13 DEF WriteInput
  <2>4. taken' \in 0 .. Len(forwarded') /\ Room' >= 0
    BY <1>13, <2>1, StreamAssumption DEF WriteInput
  <2> QED
    BY <1>13, <2>1, <2>2, <2>3, <2>4 DEF WriteInput
<1>14. CASE InputRefused
  BY <1>14, <1>e DEF InputRefused, Handles, Unregistered
<1>15. CASE UNCHANGED vars
  BY <1>15 DEF vars
<1> QED
  BY <1>1, <1>2, <1>3, <1>4, <1>5, <1>6, <1>7, <1>8, <1>9, <1>10, <1>11, <1>12, <1>13,
     <1>14, <1>15 DEF Next, Turn

(***************************************************************************)
(* Type correctness.                                                       *)
(***************************************************************************)
THEOREM TypeCorrect == Spec => []TypeOK
<1>1. Typed => TypeOK
  BY DEF Typed
<1> QED
  BY <1>1, InitTyped, NextTyped, PTL DEF Spec

-----------------------------------------------------------------------------
(***************************************************************************)
(* The inductive invariant of the output.  That nothing is left in a pipe  *)
(* when the recorder returns rests on the selector: a stream that left it  *)
(* has ended, and one that is about to be handled has data or has ended.   *)
(***************************************************************************)
Left(s) == IF mirror.to = s THEN mirror.left ELSE 0

Mirrored ==
    \A s \in Stream :
        /\ received[s] + Left(s) <= recorded[s]
        /\ ~gone => received[s] + Left(s) = recorded[s]

OutputInv ==
    /\ \A s \in Stream : recorded[s] <= wrote[s]
    /\ pc # "mirror" => mirror.left = 0
    /\ Mirrored
    /\ \A s \in Stream \ keys : s \notin holders /\ recorded[s] = wrote[s]
    /\ \A s \in Stream \cap batch : recorded[s] < wrote[s] \/ s \notin holders
    /\ pc = "returned" => keys = {}

(***************************************************************************)
(* The recorder starts with everything registered and nothing written.     *)
(***************************************************************************)
LEMMA InitOutputInv == Init => OutputInv
  BY DEF Init, OutputInv, Mirrored, Left, Stream

(***************************************************************************)
(* The command and the client keep it, as a stream that has ended stays    *)
(* ended and a lost connection lost.                                       *)
(***************************************************************************)
LEMMA OutsideOutputInv ==
    ASSUME Typed, OutputInv,
           (\E s \in Stream : Write(s)) \/ Take \/ Closes \/ Client \/ UNCHANGED vars
    PROVE  OutputInv'
<1> USE DEF Typed, TypeOK, OutputInv, Mirrored, Left
<1> USE DEF recorder, input, output, client, command
<1>1. ASSUME NEW s \in Stream, Write(s) PROVE OutputInv'
  BY <1>1 DEF Write
<1>2. CASE Take
  BY <1>2 DEF Take
<1>3. CASE Closes
  BY <1>3 DEF Closes
<1>4. CASE Client
  BY <1>4 DEF Client
<1>5. CASE UNCHANGED vars
  BY <1>5 DEF vars
<1> QED
  BY <1>1, <1>2, <1>3, <1>4, <1>5

(***************************************************************************)
(* So does every step of the recorder.                                     *)
(***************************************************************************)
LEMMA TurnOutputInv ==
    ASSUME Typed, OutputInv, Turn
    PROVE  OutputInv'
<1> USE DEF Typed, TypeOK, OutputInv
<1> USE DEF outside, command, client, input, output
<1>1. CASE Select
  <2>1. \A s \in Stream \cap batch' : recorded[s] < wrote[s] \/ s \notin holders
    <3>1. ASSUME NEW s \in Stream, Ready(s)
          PROVE  recorded[s] < wrote[s] \/ s \notin holders
      BY <3>1 DEF Ready, Stream
    <3>2. batch' = {key \in keys : Ready(key)}
      BY <1>1 DEF Select
    <3> QED
      BY <3>1, <3>2
  <2>2. Mirrored'
    BY <1>1 DEF Select, Mirrored, Left
  <2> QED
    BY <1>1, <2>1, <2>2 DEF Select
<1>2. CASE Mirror
  <2>1. PICK n \in 0 .. mirror.left :
           /\ ~gone => n = mirror.left
           /\ received' = [received EXCEPT ![mirror.to] = @ + n]
    BY <1>2 DEF Mirror
  <2>2. mirror' = [mirror EXCEPT !.left = 0] /\ UNCHANGED <<recorded, gone>>
    BY <1>2 DEF Mirror
  <2>3. mirror'.to = mirror.to /\ mirror'.left = 0
    BY <2>2
  <2>4. Mirrored'
    <3> SUFFICES ASSUME NEW s \in Stream
                 PROVE  /\ received'[s] + Left(s)' <= recorded'[s]
                        /\ ~gone' => received'[s] + Left(s)' = recorded'[s]
      BY DEF Mirrored
    <3>1. Left(s)' = 0
      BY <2>3 DEF Left
    <3>2. /\ received[s] \in Nat /\ recorded[s] \in Nat /\ Left(s) \in Nat
          /\ received[s] + Left(s) <= recorded[s]
          /\ ~gone => received[s] + Left(s) = recorded[s]
      BY DEF Mirrored, Left
    <3>3. CASE s = mirror.to
      <4>1. received'[s] = received[s] + n /\ Left(s) = mirror.left
        BY <2>1, <3>3 DEF Left
      <4>2. n \in 0 .. Left(s) /\ (~gone => n = Left(s))
        BY <2>1, <4>1
      <4>3. recorded'[s] = recorded[s] /\ gone' = gone
        BY <2>2
      <4> QED
        BY <3>1, <3>2, <4>1, <4>2, <4>3
    <3>4. CASE s # mirror.to
      <4>1. received'[s] = received[s] /\ Left(s) = 0
        BY <2>1, <3>4 DEF Left
      <4> QED
        BY <2>2, <3>1, <3>2, <4>1
    <3> QED
      BY <3>3, <3>4
  <2> QED
    BY <1>2, <2>3, <2>4 DEF Mirror
<1>3. CASE Poll
  BY <1>3 DEF Poll, StillRead, Mirrored, Left
<1>4. CASE Return
  BY <1>4 DEF Return, Mirrored, Left
<1>5. ASSUME NEW s \in Stream, ReadOutput(s) PROVE OutputInv'
  <2>1. /\ recorded' = [recorded EXCEPT ![s] = wrote[s]]
        /\ mirror' = [to |-> s, left |-> wrote[s] - recorded[s]]
        /\ pc = "handle" /\ s \in batch /\ batch' = batch \ {s} /\ pc' = "mirror"
        /\ UNCHANGED <<received, gone, wrote, holders, keys>>
    BY <1>5 DEF ReadOutput, Handles
  <2>2. mirror.left = 0 /\ \A x \in Stream : Left(x) = 0
    BY <2>1 DEF Left
  <2>3. Mirrored'
    <3> SUFFICES ASSUME NEW x \in Stream
                 PROVE  /\ received'[x] + Left(x)' <= recorded'[x]
                        /\ ~gone' => received'[x] + Left(x)' = recorded'[x]
      BY DEF Mirrored
    <3>1. /\ received[x] \in Nat /\ recorded[x] \in Nat /\ wrote[x] \in Nat
          /\ received[x] <= recorded[x] /\ recorded[x] <= wrote[x]
          /\ ~gone => received[x] = recorded[x]
      BY <2>2 DEF Mirrored
    <3>2. CASE x = s
      BY <2>1, <3>1, <3>2 DEF Left
    <3>3. CASE x # s
      <4>1. recorded'[x] = recorded[x] /\ Left(x)' = 0
        BY <2>1, <3>3 DEF Left
      <4> QED
        BY <2>1, <3>1, <4>1, SMTT(30)
    <3> QED
      BY <3>2, <3>3
  <2> QED
    BY <2>1, <2>3
<1>6. ASSUME NEW s \in Stream, EndOutput(s) PROVE OutputInv'
  BY <1>6 DEF EndOutput, Handles, Unregistered, Mirrored, Left
<1>7. CASE ReadInput
  BY <1>7 DEF ReadInput, Handles, Mirrored, Left
<1>8. CASE EndInput
  BY <1>8 DEF EndInput, Handles, Unregistered, Stream, Mirrored, Left
<1>9. CASE WriteInput
  BY <1>9 DEF WriteInput, Handles, KeysAfterWrite, Unregistered, Stream, Mirrored, Left
<1>10. CASE InputRefused
  BY <1>10 DEF InputRefused, Handles, Unregistered, Stream, Mirrored, Left
<1> QED
  BY <1>1, <1>2, <1>3, <1>4, <1>5, <1>6, <1>7, <1>8, <1>9, <1>10 DEF Turn

(***************************************************************************)
(* The record leads the client and is complete when the recorder returns,  *)
(* whoever closes, exits or leaves first.                                  *)
(***************************************************************************)
THEOREM RecordComplete == Spec => []RecordIsComplete
<1>1. Typed /\ OutputInv => RecordIsComplete
  <2> SUFFICES ASSUME Typed, OutputInv PROVE RecordIsComplete
    OBVIOUS
  <2>1. pc = "returned" => holders = {} /\ recorded = wrote
    BY DEF Typed, TypeOK, OutputInv
  <2> QED
    BY <2>1 DEF OutputInv, Mirrored, Left, RecordIsComplete
<1>2. Typed /\ OutputInv /\ [Next]_vars => OutputInv'
  BY OutsideOutputInv, TurnOutputInv DEF Next
<1> QED
  BY <1>1, <1>2, InitTyped, NextTyped, InitOutputInv, PTL DEF Spec

-----------------------------------------------------------------------------
(***************************************************************************)
(* The inductive invariant of the input.  Bytes are in input.log, in the   *)
(* command's pipe or in the buffer; what is neither was dropped, which     *)
(* only happens when the command's stdin is closed, and closed it is only  *)
(* at the end of the input, unless the command has refused it or ended.    *)
(***************************************************************************)
Forwarded ==
    /\ Len(forwarded) <= logged
    /\ \A i \in 1 .. Len(forwarded) : forwarded[i] = i

Buffered ==
    /\ childStdinOpen =>
          /\ Len(forwarded) + Len(pending) = logged
          /\ \A i \in 1 .. Len(pending) : pending[i] = Len(forwarded) + i
    /\ ~childStdinOpen /\ pc # "failed" => pending = <<>>

Closed ==
    /\ capture /\ ~stdinOpen => eof /\ logged = sent
    /\ capture /\ ~childStdinOpen /\ reading /\ ~ended =>
          eof /\ logged = sent /\ Len(forwarded) = logged

Registered ==
    /\ batch \subseteq keys
    /\ "child-stdin" \in keys => childStdinOpen /\ pending # <<>>

InputInv == Forwarded /\ Buffered /\ Closed /\ Registered

(***************************************************************************)
(* The recorder starts without input.                                      *)
(***************************************************************************)
LEMMA InitInputInv == Init => InputInv
<1> SUFFICES ASSUME Init PROVE InputInv
  OBVIOUS
<1>1. Len(forwarded) = 0 /\ Len(pending) = 0 /\ pending = <<>> /\ logged = 0
  BY DEF Init
<1>2. Forwarded /\ Buffered
  BY <1>1 DEF Forwarded, Buffered
<1>3. Closed
  BY <1>1 DEF Init, Closed
<1>4. Registered
  BY DEF Init, Registered, Stream
<1> QED
  BY <1>2, <1>3, <1>4 DEF InputInv

(***************************************************************************)
(* It does not depend on the output, and the client sends no more once it  *)
(* has ended its input.                                                    *)
(***************************************************************************)
LEMMA OutsideInputInv ==
    ASSUME Typed, InputInv,
           (\E s \in Stream : Write(s)) \/ Take \/ Closes \/ Client \/ UNCHANGED vars
    PROVE  InputInv'
<1> USE DEF InputInv, Forwarded, Buffered, Closed, Registered
<1> USE DEF recorder, input, output, client, command
<1>1. ASSUME NEW s \in Stream, Write(s) PROVE InputInv'
  BY <1>1 DEF Write
<1>2. CASE Take
  BY <1>2 DEF Take
<1>3. CASE Closes
  BY <1>3 DEF Closes
<1>4. CASE Client
  BY <1>4 DEF Client
<1>5. CASE UNCHANGED vars
  BY <1>5 DEF vars
<1> QED
  BY <1>1, <1>2, <1>3, <1>4, <1>5

(***************************************************************************)
(* So does every step of the recorder keep it.                             *)
(***************************************************************************)
LEMMA TurnInputInv ==
    ASSUME Typed, InputInv, Turn
    PROVE  InputInv'
<1> USE DEF outside, command, client, input, output
<1>0. /\ logged \in Nat /\ sent \in Nat
      /\ Len(forwarded) \in Nat /\ Len(pending) \in Nat
      /\ forwarded \in Seq(1 .. MaxInput) /\ pending \in Seq(1 .. MaxInput)
  BY DEF Typed, TypeOK
<1>1. CASE Select
  BY <1>1 DEF Select, InputInv, Forwarded, Buffered, Closed, Registered
<1>2. CASE Mirror
  BY <1>2 DEF Mirror, InputInv, Forwarded, Buffered, Closed, Registered
<1>3. CASE Poll
  <2>1. CASE ended
    <3>1. /\ pending' = <<>> /\ ~childStdinOpen' /\ keys' = StillRead /\ batch' = {}
          /\ UNCHANGED <<forwarded, logged, capture, stdinOpen, eof, sent, ended>>
      BY <1>3, <2>1 DEF Poll
    <3>2. Len(pending') = 0 /\ "child-stdin" \notin keys'
      BY <3>1 DEF StillRead, Stream
    <3> QED
      BY <2>1, <3>1, <3>2 DEF InputInv, Forwarded, Buffered, Closed, Registered
  <2>2. CASE ~ended
    BY <1>3, <2>2 DEF Poll, InputInv, Forwarded, Buffered, Closed, Registered
  <2> QED
    BY <2>1, <2>2
<1>4. CASE Return
  BY <1>4 DEF Return, InputInv, Forwarded, Buffered, Closed, Registered
<1>5. ASSUME NEW s \in Stream, ReadOutput(s) PROVE InputInv'
  BY <1>5 DEF ReadOutput, Handles, InputInv, Forwarded, Buffered, Closed, Registered
<1>6. ASSUME NEW s \in Stream, EndOutput(s) PROVE InputInv'
  BY <1>6 DEF EndOutput, Handles, Unregistered, InputInv, Forwarded, Buffered, Closed,
     Registered
<1>7. CASE ReadInput
  <2>1. /\ logged < sent /\ logged' = sent /\ pending' = pending \o Arrived
        /\ batch' \subseteq batch
        /\ UNCHANGED <<forwarded, stdinOpen, childStdinOpen, capture, eof, sent, reading, ended>>
    BY <1>7 DEF ReadInput, Handles
  <2>2. /\ Len(pending') = Len(pending) + (sent - logged)
        /\ \A i \in 1 .. Len(pending) : pending'[i] = pending[i]
        /\ \A i \in 1 .. sent - logged : pending'[Len(pending) + i] = logged + i
    BY <2>1, BytesArrived DEF Typed
  <2>3. Forwarded'
    BY <1>0, <2>1 DEF InputInv, Forwarded
  <2>4. Buffered'
    <3>1. CASE childStdinOpen
      <4>1. Len(forwarded) + Len(pending) = logged
        BY <3>1 DEF InputInv, Buffered
      <4>2. Len(forwarded') + Len(pending') = logged'
        <5>1. /\ Len(pending') = Len(pending) + (sent - logged)
              /\ Len(forwarded') = Len(forwarded) /\ logged' = sent
          BY <2>1, <2>2
        <5>2. /\ logged \in Nat /\ sent \in Nat
              /\ Len(forwarded) \in Nat /\ Len(pending) \in Nat
          BY <1>0
        <5> QED
          BY <4>1, <5>1, <5>2
      <4>3. ASSUME NEW i \in 1 .. Len(pending')
            PROVE  pending'[i] = Len(forwarded) + i
        <5>1. CASE i <= Len(pending)
          <6>1. i \in 1 .. Len(pending)
            BY <1>0, <2>2, <5>1
          <6> QED
            BY <2>2, <3>1, <6>1 DEF InputInv, Buffered
        <5>2. CASE i > Len(pending)
          <6>1. i - Len(pending) \in 1 .. sent - logged /\ Len(pending) + (i - Len(pending)) = i
            BY <1>0, <2>1, <2>2, <5>2
          <6>2. pending'[Len(pending) + (i - Len(pending))] = logged + (i - Len(pending))
            BY <2>2, <6>1
          <6>3. logged + (i - Len(pending)) = Len(forwarded) + i
            BY <1>0, <2>2, <4>1
          <6> QED
            BY <6>1, <6>2, <6>3
        <5> QED
          BY <1>0, <2>2, <5>1, <5>2
      <4> QED
        BY <2>1, <3>1, <4>2, <4>3 DEF Buffered
    <3>2. CASE ~childStdinOpen
      BY <1>7, <2>1, <3>2 DEF ReadInput, Buffered
    <3> QED
      BY <3>1, <3>2
  <2>5. Closed'
    BY <1>0, <2>1 DEF InputInv, Closed
  <2>6. Registered'
    <3>1. CASE childStdinOpen
      <4>1. Len(pending') > 0 /\ keys' = keys \cup {"child-stdin"}
        BY <1>0, <1>7, <2>1, <2>2, <3>1 DEF ReadInput
      <4>2. pending' # <<>>
        BY <4>1
      <4> QED
        BY <2>1, <3>1, <4>1, <4>2 DEF InputInv, Registered
    <3>2. CASE ~childStdinOpen
      BY <1>7, <2>1, <3>2 DEF ReadInput, InputInv, Registered
    <3> QED
      BY <3>1, <3>2
  <2> QED
    BY <2>3, <2>4, <2>5, <2>6 DEF InputInv
<1>8. CASE EndInput
  <2>1. /\ logged = sent /\ eof /\ childStdinOpen' = StaysOpen /\ keys' = Unregistered("ssh-stdin")
        /\ batch' = batch \ {"ssh-stdin"}
        /\ UNCHANGED <<pending, forwarded, logged, pc, capture, eof, sent, reading, ended>>
    BY <1>8 DEF EndInput, Handles
  <2>2. Forwarded' /\ Buffered'
    BY <2>1 DEF StaysOpen, InputInv, Forwarded, Buffered
  <2>3. Closed'
    <3>1. CASE childStdinOpen /\ pending = <<>>
      <4>1. Len(forwarded) = logged
        BY <1>0, <3>1 DEF InputInv, Buffered
      <4> QED
        BY <2>1, <4>1 DEF Closed
    <3>2. CASE ~(childStdinOpen /\ pending = <<>>)
      BY <2>1, <3>2 DEF StaysOpen, InputInv, Closed
    <3> QED
      BY <3>1, <3>2
  <2>4. Registered'
    BY <2>1 DEF StaysOpen, Unregistered, InputInv, Registered
  <2> QED
    BY <2>2, <2>3, <2>4 DEF InputInv
<1>9. CASE WriteInput
  <2>1. /\ "child-stdin" \in batch /\ batch' = batch \ {"child-stdin"}
        /\ keys' = KeysAfterWrite(pending')
        /\ childStdinOpen' = (pending' # <<>> \/ stdinOpen)
        /\ UNCHANGED <<logged, stdinOpen, pc, capture, eof, sent, reading, ended>>
    BY <1>9 DEF WriteInput, Handles
  <2>2. childStdinOpen
    BY <2>1 DEF InputInv, Registered
  <2>3. /\ Len(forwarded) + Len(pending) = logged
        /\ \A i \in 1 .. Len(pending) : pending[i] = Len(forwarded) + i
    BY <2>2 DEF InputInv, Buffered
  <2>4. /\ forwarded' \in Seq(1 .. MaxInput) /\ pending' \in Seq(1 .. MaxInput)
        /\ Len(forwarded') >= Len(forwarded)
        /\ Len(forwarded') + Len(pending') = Len(forwarded) + Len(pending)
        /\ \A i \in 1 .. Len(forwarded) : forwarded'[i] = forwarded[i]
        /\ \A i \in 1 .. Len(forwarded') - Len(forwarded) :
              i \in 1 .. Len(pending) /\ forwarded'[Len(forwarded) + i] = pending[i]
        /\ \A i \in 1 .. Len(pending') :
              pending'[i] = pending[Len(forwarded') - Len(forwarded) + i]
    BY <1>9, InputWritten
  <2>5. Len(forwarded') \in Nat /\ Len(pending') \in Nat
    BY <2>4
  <2>6. Len(forwarded') + Len(pending') = logged /\ Len(forwarded') <= logged
    BY <1>0, <2>3, <2>4, <2>5
  <2>7. Forwarded'
    <3>1. ASSUME NEW i \in 1 .. Len(forwarded') PROVE forwarded'[i] = i
      <4>1. CASE i <= Len(forwarded)
        <5>1. i \in 1 .. Len(forwarded)
          BY <1>0, <2>5, <4>1
        <5> QED
          BY <2>4, <5>1 DEF InputInv, Forwarded
      <4>2. CASE i > Len(forwarded)
        <5>1. PICK j \in 1 .. Len(forwarded') - Len(forwarded) : i = Len(forwarded) + j
          BY <1>0, <2>5, <4>2
        <5> QED
          BY <2>3, <2>4, <5>1
      <4> QED
        BY <1>0, <2>5, <4>1, <4>2
    <3> QED
      BY <2>1, <2>6, <3>1 DEF Forwarded
  <2>8. Buffered'
    <3>1. ASSUME NEW i \in 1 .. Len(pending') PROVE pending'[i] = Len(forwarded') + i
      <4>1. Len(forwarded') - Len(forwarded) + i \in 1 .. Len(pending)
        BY <1>0, <2>4, <2>5
      <4>2. pending'[i] = Len(forwarded) + (Len(forwarded') - Len(forwarded) + i)
        BY <2>3, <2>4, <4>1
      <4> QED
        BY <1>0, <2>5, <4>2
    <3> QED
      BY <2>1, <2>6, <3>1 DEF Buffered
  <2>9. Closed'
    <3>1. ASSUME capture, ~childStdinOpen' PROVE eof /\ logged = sent /\ Len(forwarded') = logged
      <4>1. ~stdinOpen /\ Len(pending') = 0
        BY <2>1, <3>1
      <4> QED
        BY <2>5, <2>6, <3>1, <4>1 DEF InputInv, Closed
    <3> QED
      BY <2>1, <3>1 DEF InputInv, Closed
  <2>10. Registered'
    BY <2>1 DEF KeysAfterWrite, Unregistered, InputInv, Registered
  <2> QED
    BY <2>7, <2>8, <2>9, <2>10 DEF InputInv
<1>10. CASE InputRefused
  <2>1. /\ ~reading /\ pending' = <<>> /\ ~childStdinOpen' /\ keys' = keys \ {"child-stdin"}
        /\ batch' = batch \ {"child-stdin"}
        /\ UNCHANGED <<forwarded, logged, capture, stdinOpen, eof, sent, reading, ended, pc>>
    BY <1>10 DEF InputRefused, Handles, Unregistered
  <2> QED
    BY <2>1 DEF InputInv, Forwarded, Buffered, Closed, Registered
<1> QED
  BY <1>1, <1>2, <1>3, <1>4, <1>5, <1>6, <1>7, <1>8, <1>9, <1>10 DEF Turn

(***************************************************************************)
(* Sequences that count from one.                                          *)
(***************************************************************************)
LEMMA Counting ==
    ASSUME NEW f \in Seq(Nat), NEW p \in Seq(Nat), NEW n \in Nat,
           Len(f) <= n, \A i \in 1 .. Len(f) : f[i] = i
    PROVE  LET all == [i \in 1 .. n |-> i] IN
           /\ IsPrefix(f, all) /\ IsPrefix(all, all)
           /\ Len(f) = n => f = all
           /\ Len(f) + Len(p) = n /\ (\A i \in 1 .. Len(p) : p[i] = Len(f) + i) =>
                 f \o p = all
<1> DEFINE all == [i \in 1 .. n |-> i]
<1>1. all \in Seq(Nat) /\ Len(all) = n /\ \A i \in 1 .. n : all[i] = i
  OBVIOUS
<1> HIDE DEF all
<1>2. Len(f) \in Nat /\ Len(p) \in Nat
  OBVIOUS
<1>3. ASSUME NEW m \in Nat, m <= n
      PROVE  /\ SubSeq(all, 1, m) \in Seq(Nat) /\ Len(SubSeq(all, 1, m)) = m
             /\ \A i \in 1 .. m : SubSeq(all, 1, m)[i] = i
  BY <1>1, <1>3
<1>4. IsPrefix(f, all)
  <2>1. /\ SubSeq(f, 1, Len(f)) \in Seq(Nat) /\ Len(SubSeq(f, 1, Len(f))) = Len(f)
        /\ \A i \in 1 .. Len(f) : SubSeq(f, 1, Len(f))[i] = f[i]
    OBVIOUS
  <2>2. /\ SubSeq(all, 1, Len(f)) \in Seq(Nat) /\ Len(SubSeq(all, 1, Len(f))) = Len(f)
        /\ \A i \in 1 .. Len(f) : SubSeq(all, 1, Len(f))[i] = i
    BY <1>2, <1>3
  <2>3. SubSeq(f, 1, Len(f)) = SubSeq(all, 1, Len(f))
    BY <2>1, <2>2, SeqEqual
  <2> QED
    BY <1>1, <2>3 DEF IsPrefix
<1>5. IsPrefix(all, all)
  BY <1>1 DEF IsPrefix
<1>6. ASSUME Len(f) = n PROVE f = all
  BY <1>1, <1>6, SeqEqual
<1>7. ASSUME Len(f) + Len(p) = n, \A i \in 1 .. Len(p) : p[i] = Len(f) + i
      PROVE  f \o p = all
  <2>1. /\ f \o p \in Seq(Nat) /\ Len(f \o p) = Len(f) + Len(p)
        /\ \A i \in 1 .. Len(f) + Len(p) :
              (f \o p)[i] = IF i <= Len(f) THEN f[i] ELSE p[i - Len(f)]
    BY ConcatProperties
  <2>2. ASSUME NEW i \in 1 .. Len(f) + Len(p) PROVE (f \o p)[i] = all[i]
    <3>1. CASE i <= Len(f)
      <4>1. i \in 1 .. Len(f) /\ i \in 1 .. n
        BY <1>2, <1>7, <3>1
      <4> QED
        BY <1>1, <2>1, <3>1, <4>1
    <3>2. CASE ~(i <= Len(f))
      <4>1. i - Len(f) \in 1 .. Len(p) /\ Len(f) + (i - Len(f)) = i /\ i \in 1 .. n
        BY <1>2, <1>7, <3>2
      <4> QED
        BY <1>1, <1>7, <2>1, <3>2, <4>1
    <3> QED
      BY <3>1, <3>2
  <2> QED
    BY <1>1, <1>7, <2>1, <2>2, SeqEqual
<1> QED
  BY <1>4, <1>5, <1>6, <1>7 DEF all

(***************************************************************************)
(* The command reads what the client sent, in order and without a gap, and *)
(* sees the end of its input only at the end.                              *)
(***************************************************************************)
THEOREM InputOrdered == Spec => []InputInOrder
<1>1. Typed /\ InputInv => InputInOrder
  <2> SUFFICES ASSUME Typed, InputInv PROVE InputInOrder
    OBVIOUS
  <2> DEFINE all == [i \in 1 .. logged |-> i]
  <2>1. forwarded \in Seq(Nat) /\ pending \in Seq(Nat) /\ logged \in Nat
    <3>1. 1 .. MaxInput \subseteq Nat
      BY StreamAssumption
    <3>2. forwarded \in Seq(1 .. MaxInput) /\ pending \in Seq(1 .. MaxInput)
      BY DEF Typed, TypeOK
    <3>3. forwarded \in Seq(Nat) /\ pending \in Seq(Nat)
      BY <3>1, <3>2, SeqMonotonic, Zenon
    <3>4. logged \in Nat
      BY DEF Typed, TypeOK
    <3> QED
      BY <3>3, <3>4
  <2>2. /\ IsPrefix(forwarded, all) /\ IsPrefix(all, all)
        /\ Len(forwarded) = logged => forwarded = all
        /\ Len(forwarded) + Len(pending) = logged
              /\ (\A i \in 1 .. Len(pending) : pending[i] = Len(forwarded) + i) =>
              forwarded \o pending = all
    BY <2>1, Counting DEF InputInv, Forwarded
  <2> HIDE DEF all
  <2>3. childStdinOpen => forwarded \o pending = all
    BY <2>2 DEF InputInv, Buffered
  <2>4. pc # "failed" => IsPrefix(forwarded \o pending, all)
    <3>1. CASE childStdinOpen
      BY <2>2, <2>3, <3>1
    <3>2. ASSUME ~childStdinOpen, pc # "failed" PROVE forwarded \o pending = forwarded
      <4>1. pending = <<>>
        BY <3>2 DEF InputInv, Buffered
      <4> QED
        BY <2>1, <4>1, ConcatEmptySeq
    <3> QED
      BY <2>2, <3>1, <3>2
  <2>5. capture /\ ~childStdinOpen /\ reading /\ ~ended =>
           eof /\ logged = sent /\ forwarded = all
    BY <2>2 DEF InputInv, Closed
  <2> QED
    BY <2>3, <2>4, <2>5 DEF InputInOrder, InputInv, Registered, all
<1>2. Typed /\ InputInv /\ [Next]_vars => InputInv'
  BY OutsideInputInv, TurnInputInv DEF Next
<1> QED
  BY <1>1, <1>2, InitTyped, NextTyped, InitInputInv, PTL DEF Spec
=============================================================================
