------------------------- MODULE TuraSession_proofs -------------------------
(***************************************************************************)
(* Proofs about a Tura device: its types, that a stopped device is quiet,  *)
(* that its statistics count every byte and every session, that with a     *)
(* patient master it acts on whole frames only, that Start and Stop do as  *)
(* promised, and that the numbers it answers and saves are those shown.    *)
(***************************************************************************)
EXTENDS TuraSession, TuraAnswer, SequenceTheorems, TLAPS

\* The buffer is empty unless a read is in progress, or the code of a command
\* waits to be answered.
BufferInv == tpc \notin Reading \cup {"answer"} => buf = <<>>

Inv == TypeOK /\ StoppedIsQuiet /\ StatisticsAgree /\ BufferInv

\* Where the thread may go after a serialRead.
LEMMA AfterRead ==
    ASSUME NEW b, tpc \in Reading
    PROVE  /\ After(b) \in {"addr", "scan", "name", "greet", "code", "cmd",
                            "answer", "ended", "ack"}
           /\ After(b) \notin {"off", "setup"}
           /\ (After(b) \in {"cmd", "cmark", "code", "answer", "ack", "ended"}
                 <=> InSession)
BY DEF After, Reading, InSession

\* A serialRead that returns is counted, and leaves nothing to count.
LEMMA ReturnStep ==
    ASSUME Inv, NEW b \in Seq(Byte), tpc \in Reading, Return(b),
           past'.rx = stat.rx + Len(b), past'.names = past.names,
           past' \in [rx : Nat, names : Nat], line' \in Seq(Byte),
           UNCHANGED <<gui, abort, handle, master, listening>>
    PROVE  Inv'
<1>1. /\ tpc' = After(b)
      /\ buf' = IF tpc' = "answer" THEN b ELSE <<>>
      /\ stat' = [stat EXCEPT !.rx = @ + Len(b)]
  BY DEF Return
<1>2. stat \in [rx : Nat, sessions : Nat] /\ Len(b) \in Nat
  BY DEF Inv, TypeOK
<1>3. /\ stat'.rx = stat.rx + Len(b) /\ stat'.sessions = stat.sessions
      /\ stat' \in [rx : Nat, sessions : Nat]
  BY <1>1, <1>2
<1>4. buf' \in Seq(Byte)
  BY <1>1
<1>5. TypeOK'
  BY <1>1, <1>3, <1>4, AfterRead DEF Inv, TypeOK, gui, handle, master, Reading
<1>6. StoppedIsQuiet'
  BY <1>1, AfterRead DEF Inv, StoppedIsQuiet, gui, handle, Reading
<1>7. BufferInv'
  BY <1>1 DEF BufferInv
<1>8. past'.names = stat'.sessions + (IF InSession' THEN 1 ELSE 0)
  <2>1. InSession' <=> InSession
    BY <1>1, AfterRead DEF InSession
  <2>. QED  BY <1>3, <2>1 DEF Inv, StatisticsAgree
<1>9. past'.rx = stat'.rx + (IF tpc' \in Reading THEN Len(buf') ELSE 0)
  <2>1. tpc' \in Reading => Len(buf') = 0
    BY <1>1 DEF Reading
  <2>. QED  BY <1>2, <1>3, <2>1
<1>. QED  BY <1>5, <1>6, <1>7, <1>8, <1>9 DEF Inv, StatisticsAgree

\* One byte more.
LEMMA ByteStep == ASSUME Inv, ReadByte PROVE Inv'
<1>. DEFINE b == Append(buf, Head(line))
<1>1. tpc \in Reading /\ line # <<>> /\ line \in Seq(Byte) /\ buf \in Seq(Byte)
  BY DEF ReadByte, Inv, TypeOK
<1>2. Head(line) \in Byte /\ Tail(line) \in Seq(Byte)
  BY <1>1, HeadTailProperties
<1>3. b \in Seq(Byte) /\ Len(b) = Len(buf) + 1 /\ Len(buf) \in Nat
  BY <1>1, <1>2, AppendProperties
<1>. HIDE DEF b
<1>4. /\ past' \in [rx : Nat, names : Nat]
      /\ past'.rx = past.rx + 1 /\ past'.names = past.names
  <2>1. past \in [rx : Nat, names : Nat]
    BY DEF Inv, TypeOK
  <2>2. past' = [past EXCEPT !.rx = @ + 1]
    BY DEF ReadByte
  <2>. QED  BY ONLY <2>1, <2>2
<1>5. past'.rx = stat.rx + Len(b)
  <2>1. past.rx = stat.rx + Len(buf) /\ stat.rx \in Nat
    BY <1>1 DEF Inv, StatisticsAgree, TypeOK
  <2>. QED  BY <1>3, <1>4, <2>1
<1>6. line' \in Seq(Byte) /\ UNCHANGED <<gui, abort, handle, master, listening>>
  BY <1>2 DEF ReadByte
<1>7. CASE Return(b)
  BY <1>1, <1>3, <1>4, <1>5, <1>6, <1>7, ReturnStep
<1>8. CASE buf' = b /\ UNCHANGED <<tpc, stat>>
  <2>1. TypeOK'
    BY <1>3, <1>4, <1>6, <1>8 DEF Inv, TypeOK, gui, handle, master
  <2>2. StoppedIsQuiet' /\ BufferInv'
    BY <1>1, <1>6, <1>8 DEF Inv, StoppedIsQuiet, BufferInv, gui, handle
  <2>3. StatisticsAgree'
    BY <1>1, <1>4, <1>5, <1>8 DEF Inv, StatisticsAgree, InSession
  <2>. QED  BY <2>1, <2>2, <2>3 DEF Inv
<1>. QED  BY <1>7, <1>8 DEF ReadByte, b

\* A read that came to its time-out.
LEMMA TimeOutStep == ASSUME Inv, ReadTimeOut PROVE Inv'
<1>1. tpc \in Reading /\ Return(buf) /\ UNCHANGED <<gui, abort, handle, line, master, listening, past>>
  BY DEF ReadTimeOut
<1>2. buf \in Seq(Byte) /\ line' \in Seq(Byte) /\ past' \in [rx : Nat, names : Nat]
  BY <1>1 DEF Inv, TypeOK
<1>3. past'.rx = stat.rx + Len(buf) /\ past'.names = past.names
  BY <1>1 DEF Inv, StatisticsAgree
<1>. QED  BY <1>1, <1>2, <1>3, ReturnStep

\* The steps of the thread that count nothing.
LEMMA PlainStep ==
    ASSUME Inv, OpenPort \/ OpenFails \/ Scan \/ NextCommand \/ Answer
    PROVE  Inv'
<1>. USE DEF Inv, gui, handle, master
<1>1. CASE OpenPort
  BY <1>1 DEF OpenPort, Internal, TypeOK, StoppedIsQuiet, StatisticsAgree,
              BufferInv, Reading, InSession
<1>2. CASE OpenFails
  <2>1. /\ tpc = "setup" /\ tpc' = "off"
        /\ UNCHANGED <<upc, inWork, abort, buf, stat, line, past, listening>>
        /\ UNCHANGED <<patient, out, frame, intact, sent>>
    BY <1>2 DEF OpenFails, Internal
  <2>2. port \in BOOLEAN /\ lost \in BOOLEAN /\ (port <=> lost)
    BY <2>1 DEF TypeOK, StoppedIsQuiet
  <2>3. port' \in BOOLEAN /\ lost' \in BOOLEAN /\ (port' <=> lost')
    <3>1. CASE UNCHANGED handle
      BY <2>2, <3>1 DEF handle
    <3>2. CASE port' = TRUE /\ lost' = TRUE
      BY <3>2
    <3>. QED  BY <1>2, <3>1, <3>2 DEF OpenFails
  <2>4. TypeOK'
    BY <2>1, <2>3 DEF TypeOK
  <2>5. StoppedIsQuiet'
    BY <2>1, <2>3 DEF StoppedIsQuiet
  <2>6. StatisticsAgree' /\ BufferInv'
    BY <2>1 DEF StatisticsAgree, BufferInv, Reading, InSession
  <2>. QED  BY <2>4, <2>5, <2>6
<1>3. CASE Scan
  BY <1>3 DEF Scan, Internal, TypeOK, StoppedIsQuiet, StatisticsAgree,
              BufferInv, Reading, InSession
<1>4. CASE NextCommand
  BY <1>4 DEF NextCommand, Internal, TypeOK, StoppedIsQuiet, StatisticsAgree,
              BufferInv, Reading, InSession
<1>5. CASE Answer
  <2>1. buf' \in Seq(Byte) /\ Len(buf') = 0
    BY <1>5 DEF Answer
  <2>. QED  BY <1>5, <2>1 DEF Answer, TypeOK, StoppedIsQuiet, StatisticsAgree,
                              BufferInv, Reading, InSession
<1>. QED  BY <1>1, <1>2, <1>3, <1>4, <1>5

\* A session is counted as it begins among the names and as it ends among the
\* sessions.
LEMMA CountStep == ASSUME Inv, Greet \/ SessionEnds PROVE Inv'
<1>. USE DEF Inv, gui, handle, master
<1>1. CASE Greet
  <2>1. /\ past' \in [rx : Nat, names : Nat]
        /\ past'.rx = past.rx /\ past'.names = past.names + 1
    BY <1>1 DEF Greet, TypeOK
  <2>2. TypeOK' /\ StoppedIsQuiet' /\ BufferInv'
    BY <1>1, <2>1 DEF Greet, Internal, TypeOK, StoppedIsQuiet, BufferInv, Reading
  <2>3. StatisticsAgree'
    BY <1>1, <2>1 DEF Greet, Internal, TypeOK, StatisticsAgree, BufferInv,
                      Reading, InSession
  <2>. QED  BY <2>2, <2>3
<1>2. CASE SessionEnds
  <2>1. /\ stat' \in [rx : Nat, sessions : Nat]
        /\ stat'.rx = stat.rx /\ stat'.sessions = stat.sessions + 1
    <3>1. stat \in [rx : Nat, sessions : Nat]
      BY DEF TypeOK
    <3>2. stat' = [stat EXCEPT !.sessions = @ + 1]
      BY <1>2 DEF SessionEnds
    <3>. QED  BY ONLY <3>1, <3>2
  <2>2. TypeOK' /\ StoppedIsQuiet' /\ BufferInv'
    BY <1>2, <2>1 DEF SessionEnds, Internal, TypeOK, StoppedIsQuiet, BufferInv, Reading
  <2>3. StatisticsAgree'
    BY <1>2, <2>1 DEF SessionEnds, Internal, TypeOK, StatisticsAgree, BufferInv,
                      Reading, InSession
  <2>. QED  BY <2>2, <2>3
<1>. QED  BY <1>1, <1>2

\* The end of the thread closes the port.
LEMMA FinishStep == ASSUME Inv, Finish PROVE Inv'
<1>1. line' \in Seq(Byte)
  BY DEF Finish
<1>. QED  BY <1>1 DEF Inv, gui, handle, master, Finish, Internal, TypeOK, StoppedIsQuiet,
                      StatisticsAgree, BufferInv, Reading, InSession

\* A click on Start or Stop, and the return of the wait that a Stop begins.
LEMMA GuiStep == ASSUME Inv, Gui PROVE Inv'
<1>. USE DEF Inv, gui, handle, master
<1>1. CASE ClickStart
  <2>1. TypeOK' /\ StoppedIsQuiet'
    BY <1>1 DEF ClickStart, TypeOK, StoppedIsQuiet
  <2>2. StatisticsAgree' /\ BufferInv'
    BY <1>1 DEF ClickStart, StatisticsAgree, BufferInv, Reading, InSession
  <2>. QED  BY <2>1, <2>2
<1>2. CASE ClickStop
  BY <1>2 DEF ClickStop, TypeOK, StoppedIsQuiet, StatisticsAgree, BufferInv,
              Reading, InSession
<1>3. CASE Stopped
  BY <1>3 DEF Stopped, TypeOK, StoppedIsQuiet, StatisticsAgree, BufferInv,
              Reading, InSession
<1>. QED  BY <1>1, <1>2, <1>3 DEF Gui

\* What a master does leaves the device alone.
LEMMA MasterStep ==
    ASSUME Inv, FrameAssumption, Transmit \/ Lose \/ \E f \in Frames : Send(f)
    PROVE  Inv'
<1>1. UNCHANGED Device
  BY DEF Transmit, Lose, Send
<1>2. StoppedIsQuiet' /\ StatisticsAgree' /\ BufferInv'
  BY <1>1 DEF Inv, Device, gui, handle, StoppedIsQuiet, StatisticsAgree, BufferInv, InSession
<1>3. out \in Seq(Byte) /\ line \in Seq(Byte)
  BY DEF Inv, TypeOK
<1>4. CASE Transmit
  <2>1. Head(out) \in Byte /\ Tail(out) \in Seq(Byte)
    BY <1>3, <1>4, HeadTailProperties DEF Transmit
  <2>2. line' \in Seq(Byte)
    BY <1>3, <1>4, <2>1, AppendProperties DEF Transmit
  <2>3. intact' \in BOOLEAN
    BY <1>4 DEF Transmit
  <2>4. TypeOK'
    BY <1>1, <1>4, <2>1, <2>2, <2>3 DEF Transmit, Inv, TypeOK, Device, gui, handle
  <2>. QED  BY <1>2, <2>4 DEF Inv
<1>5. CASE Lose
  <2>1. Tail(out) \in Seq(Byte)
    BY <1>3, <1>5, HeadTailProperties DEF Lose
  <2>2. TypeOK'
    BY <1>1, <1>5, <2>1 DEF Lose, Inv, TypeOK, Device, gui, handle
  <2>. QED  BY <1>2, <2>2 DEF Inv
<1>6. ASSUME NEW f \in Frames, Send(f) PROVE Inv'
  <2>1. f \in Seq(Byte)
    BY DEF FrameAssumption
  <2>2. listening' \in BOOLEAN
    BY <1>6 DEF Send
  <2>3. TypeOK'
    BY <1>1, <1>6, <2>1, <2>2 DEF Send, Inv, TypeOK, Device, gui, handle
  <2>. QED  BY <1>2, <2>3 DEF Inv
<1>. QED  BY <1>4, <1>5, <1>6

\* The inductive invariant: the types, what Stop promises, the counts, and an
\* empty buffer between reads, without which a new read would be counted with
\* the bytes of an old one.
THEOREM Invariant == Spec => []Inv
<1>1. Init => Inv
  <2>. SUFFICES ASSUME Init PROVE Inv
    OBVIOUS
  <2>1. TypeOK
    <3>1. stat \in [rx : Nat, sessions : Nat] /\ past \in [rx : Nat, names : Nat]
      BY DEF Init
    <3>2. buf \in Seq(Byte) /\ line \in Seq(Byte) /\ out \in Seq(Byte)
      BY DEF Init
    <3>3. intact \in BOOLEAN /\ listening \in BOOLEAN /\ patient \in BOOLEAN
      BY Zenon DEF Init
    <3>. QED  BY <3>1, <3>2, <3>3 DEF Init, TypeOK, Reading
  <2>2. StoppedIsQuiet /\ BufferInv
    BY DEF Init, StoppedIsQuiet, BufferInv
  <2>3. StatisticsAgree
    BY DEF Init, StatisticsAgree, Reading, InSession
  <2>. QED  BY <2>1, <2>2, <2>3 DEF Inv
<1>2. Inv /\ [Next]_vars => Inv'
  <2>. SUFFICES ASSUME Inv, [Next]_vars PROVE Inv'
    OBVIOUS
  <2>1. CASE Gui
    BY <2>1, GuiStep
  <2>2. CASE Thread
    BY <2>2, PlainStep, CountStep, FinishStep, ByteStep, TimeOutStep DEF Thread, Work
  <2>3. CASE Transmit \/ Lose \/ \E f \in Frames : Send(f)
    BY <2>3, MasterStep, FrameAssumption
  <2>4. CASE UNCHANGED vars
    BY <2>4 DEF vars, gui, handle, master, Inv, TypeOK, StoppedIsQuiet, StatisticsAgree,
                BufferInv, InSession
  <2>. QED  BY <2>1, <2>2, <2>3, <2>4 DEF Next
<1>. QED  BY <1>1, <1>2, PTL DEF Spec

\* Every variable keeps its type; in particular no count goes below zero.
THEOREM TypeCorrect == Spec => []TypeOK
BY Invariant, PTL DEF Inv

\* When the window says "stopped" the thread of switchOn has ended and its port
\* is closed, unless an Open has once failed with the port open, after which no
\* start gets past its Open; and no thread that runs carries the flag of an
\* earlier Stop.
THEOREM StoppedDeviceIsQuiet == Spec => []StoppedIsQuiet
BY Invariant, PTL DEF Inv

\* The sessions and the bytes shown are those there were, whatever the masters
\* send and whenever the user stops.
THEOREM StatisticsAreRight == Spec => []StatisticsAgree
BY Invariant, PTL DEF Inv

-----------------------------------------------------------------------------
(* With a patient master only whole frames are acted on. *)

\* How many bytes of the frame the thread has taken, since it last began at
\* its first byte.
Taken == IF tpc \in {"addr", "code"} THEN 1
         ELSE IF tpc = "name" THEN 2 + Len(buf) ELSE 0

\* What is left of the frame.
Left == Len(line) + Len(out)

\* Nothing of the frame has been lost or passed over.
Complete ==
    /\ intact
    /\ \A n \in 1 .. Len(line) : line[n] = frame[Taken + n]
    /\ Taken > 0 => frame[1] = Mark
    /\ tpc = "name" => \A n \in 1 .. Len(buf) : buf[n] = frame[2 + n]

\* There is never more of a frame than its length, and if there is as much,
\* then it is complete.
FrameInv ==
    /\ tpc \in Reading \ {"name"} => buf = <<>>
    /\ tpc = "name" => Len(buf) < Len(Name)
    /\ \A n \in 1 .. Len(out) : out[n] = frame[Len(frame) - Len(out) + n]
    /\ patient =>
          /\ Taken + Left <= Len(frame)
          /\ \A n \in 1 .. Len(line) : \E k \in 1 .. Len(frame) : line[n] = frame[k]
          /\ Taken + Left = Len(frame) => Complete

\* The lengths are numbers, and no frame is longer than one with the name.
LEMMA FrameFacts ==
    ASSUME TypeOK
    PROVE  /\ line \in Seq(Byte) /\ out \in Seq(Byte) /\ buf \in Seq(Byte)
           /\ frame \in Seq(Byte)
           /\ Len(line) \in Nat /\ Len(out) \in Nat /\ Len(buf) \in Nat
           /\ Len(frame) \in Nat /\ Taken \in Nat
           /\ Len(frame) <= 2 + Len(Name) /\ Len(Name) \in Nat /\ Len(Name) > 0
<1>1. line \in Seq(Byte) /\ out \in Seq(Byte) /\ buf \in Seq(Byte)
  BY DEF TypeOK
<1>2. Len(Name) \in Nat /\ Len(Name) > 0
  BY FrameAssumption, ProtocolAssumption
<1>3. frame \in Seq(Byte) /\ Len(frame) <= 2 + Len(Name)
  <2>1. CASE frame \in Frames
    BY <2>1, FrameAssumption, ProtocolAssumption
  <2>2. CASE frame = <<>>
    <3>1. frame \in Seq(Byte) /\ Len(frame) = 0
      BY <2>2
    <3>. QED  BY <1>2, <3>1
  <2>. QED  BY <2>1, <2>2 DEF TypeOK
<1>. QED  BY <1>1, <1>2, <1>3 DEF Taken

\* A step that leaves the line alone and takes no byte.
LEMMA LineRests ==
    ASSUME TypeOK, FrameInv, UNCHANGED <<master, line>>,
           tpc' \in Reading \ {"name"} => buf' = <<>>,
           tpc' = "name" => tpc = "name" /\ buf' = buf,
           Taken' = Taken \/ Taken' = 0
    PROVE  FrameInv'
<1>1. UNCHANGED <<patient, out, frame, intact, line>>
  BY DEF master
<1>2. /\ Len(line) \in Nat /\ Len(out) \in Nat /\ Len(frame) \in Nat /\ Taken \in Nat
  BY FrameFacts
<1>. SUFFICES ASSUME patient
              PROVE  /\ Taken' + Left' <= Len(frame')
                     /\ Taken' + Left' = Len(frame') => Complete'
  BY <1>1 DEF FrameInv, Reading
<1>3. Taken' <= Taken /\ Taken' \in Nat /\ Left' = Left /\ Left \in Nat
  BY <1>1, <1>2 DEF Left
<1>4. Taken + Left <= Len(frame) /\ (Taken + Left = Len(frame) => Complete)
  BY DEF FrameInv
<1>5. ASSUME Taken' + Left' = Len(frame') PROVE Complete'
  <2>0. Taken' = Taken /\ Taken + Left = Len(frame)
    BY <1>1, <1>2, <1>3, <1>4, <1>5
  <2>1. Taken' = Taken /\ Complete
    BY <1>4, <2>0
  <2>2. tpc' = "name" => \A n \in 1 .. Len(buf') : buf'[n] = frame'[2 + n]
    BY <1>1, <2>1 DEF Complete
  <2>3. \A n \in 1 .. Len(line') : line'[n] = frame'[Taken' + n]
    BY <1>1, <2>1 DEF Complete
  <2>4. intact' /\ (Taken' > 0 => frame'[1] = Mark)
    BY <1>1, <2>1 DEF Complete
  <2>. QED  BY <2>2, <2>3, <2>4 DEF Complete
<1>6. Taken' + Left' <= Len(frame')
  BY <1>1, <1>2, <1>3, <1>4
<1>. QED  BY <1>5, <1>6

\* The steps of the user, and those of the thread that read nothing.
LEMMA PlainFrame ==
    ASSUME Inv, FrameInv,
           Gui \/ OpenPort \/ OpenFails \/ Scan \/ NextCommand \/ Greet \/ Answer
               \/ SessionEnds
    PROVE  FrameInv'
<1>1. UNCHANGED <<master, line>>
  BY DEF Gui, ClickStart, ClickStop, Stopped, OpenPort, OpenFails, Scan,
         NextCommand, Greet, Answer, SessionEnds, Internal
<1>2. CASE Gui
  <2>1. buf' = buf /\ (tpc' = tpc \/ (tpc = "off" /\ tpc' = "setup"))
    BY <1>2 DEF Gui, ClickStart, ClickStop, Stopped
  <2>2. Taken' = Taken
    BY <2>1 DEF Taken
  <2>. QED  BY <1>1, <2>1, <2>2, LineRests DEF Inv, FrameInv, Reading
<1>3. CASE OpenPort \/ OpenFails \/ Scan \/ NextCommand \/ Greet \/ Answer
               \/ SessionEnds
  <2>1. /\ tpc \notin Reading
        /\ tpc' \notin {"name", "addr", "code"}
        /\ tpc' \in Reading => (buf' = buf /\ tpc # "answer") \/ buf' = <<>>
    BY <1>3 DEF OpenPort, OpenFails, Scan, NextCommand, Greet, Answer, SessionEnds,
                Internal, Reading
  <2>2. Taken' = 0
    BY <2>1 DEF Taken
  <2>3. tpc' \in Reading \ {"name"} => buf' = <<>>
    BY <2>1 DEF Inv, BufferInv
  <2>. QED  BY <1>1, <2>1, <2>2, <2>3, LineRests DEF Inv
<1>. QED  BY <1>2, <1>3

\* A read that comes to its time-out begins again.
LEMMA TimeOutFrame ==
    ASSUME Inv, FrameInv, ReadTimeOut
    PROVE  FrameInv' /\ WholeFrameStep
<1>1. /\ tpc \in Reading /\ tpc' = After(buf)
      /\ buf' = IF tpc' = "answer" THEN buf ELSE <<>>
      /\ UNCHANGED <<master, line>>
  BY DEF ReadTimeOut, Return
<1>2. CASE tpc = "name"
  <2>1. buf # Name
    BY <1>2 DEF FrameInv
  <2>2. tpc' = "scan"
    BY <1>1, <1>2, <2>1 DEF After
  <2>3. Taken' = 0
    BY <2>2 DEF Taken
  <2>. QED  BY <1>1, <1>2, <2>2, <2>3, LineRests DEF Inv, WholeFrameStep
<1>3. CASE tpc # "name"
  <2>1. buf = <<>>
    BY <1>1, <1>3 DEF FrameInv
  <2>2. buf # <<Mark>> /\ buf # <<Ok>>
    BY <2>1
  <2>3. tpc' \in {"scan", "cmd", "ended"} /\ (tpc = "ack" => tpc' = "ended")
    BY <1>1, <1>3, <2>1, <2>2 DEF After, Reading
  <2>4. Taken' = 0
    BY <2>3 DEF Taken
  <2>. QED  BY <1>1, <1>3, <2>3, <2>4, LineRests DEF Inv, WholeFrameStep, Reading
<1>. QED  BY <1>2, <1>3

\* A byte leaves the line, and at most one more of the frame is taken.
LEMMA OneByte ==
    ASSUME TypeOK, FrameInv, UNCHANGED master, line # <<>>, line' = Tail(line),
           tpc' \in Reading \ {"name"} => buf' = <<>>,
           tpc' = "name" => Len(buf') < Len(Name),
           Taken' \in Nat, Taken' <= Taken + 1,
           patient /\ Taken' = Taken + 1 /\ Complete /\ Head(line) = frame[Taken'] =>
               /\ frame[1] = Mark
               /\ tpc' = "name" => \A n \in 1 .. Len(buf') : buf'[n] = frame[2 + n]
    PROVE  FrameInv'
<1>1. UNCHANGED <<patient, out, frame, intact>>
  BY DEF master
<1>2. /\ Len(line) \in Nat /\ Len(out) \in Nat /\ Len(frame) \in Nat /\ Taken \in Nat
      /\ line \in Seq(Byte)
  BY FrameFacts
<1>3. /\ Len(line) > 0 /\ Len(line') = Len(line) - 1
      /\ \A n \in 1 .. Len(line') : line'[n] = line[n + 1]
      /\ Head(line) = line[1]
  BY <1>2, HeadTailProperties
<1>. SUFFICES ASSUME patient
              PROVE  /\ Taken' + Left' <= Len(frame')
                     /\ \A n \in 1 .. Len(line') : \E k \in 1 .. Len(frame) :
                           line'[n] = frame[k]
                     /\ Taken' + Left' = Len(frame') => Complete'
  BY <1>1 DEF FrameInv, Reading
<1>4. Left' = Left - 1 /\ Left \in Nat
  BY <1>1, <1>2, <1>3 DEF Left
<1>5. Taken + Left <= Len(frame) /\ (Taken + Left = Len(frame) => Complete)
  BY DEF FrameInv
<1>6. \A n \in 1 .. Len(line') : \E k \in 1 .. Len(frame) : line'[n] = frame[k]
  <2>. TAKE n \in 1 .. Len(line')
  <2>1. n + 1 \in 1 .. Len(line)
    BY <1>2, <1>3
  <2>2. \E k \in 1 .. Len(frame) : line[n + 1] = frame[k]
    BY <2>1 DEF FrameInv
  <2>. QED  BY <1>3, <2>2
<1>7. ASSUME Taken' + Left' = Len(frame') PROVE Complete'
  <2>0. Taken' = Taken + 1 /\ Taken + Left = Len(frame)
    <3>. DEFINE t == Taken'
                l == Left'
    <3>1. t + l = Len(frame) /\ Taken + Left <= Len(frame)
      BY <1>1, <1>5, <1>7
    <3>2. t \in Nat /\ t <= Taken + 1 /\ Taken \in Nat /\ Len(frame) \in Nat
      BY <1>2
    <3>3. l = Left - 1 /\ Left \in Nat
      BY <1>4
    <3>. HIDE DEF t, l
    <3>4. t = Taken + 1 /\ Taken + Left = Len(frame)
      BY ONLY <3>1, <3>2, <3>3
    <3>. QED  BY <3>4 DEF t
  <2>1. Taken' = Taken + 1 /\ Complete
    BY <2>0 DEF FrameInv
  <2>2. \A n \in 1 .. Len(line) : line[n] = frame[Taken + n]
    BY <2>1 DEF Complete
  <2>3. Head(line) = frame[Taken']
    <3>1. 1 \in 1 .. Len(line)
      BY <1>2, <1>3
    <3>. QED  BY <1>3, <2>1, <2>2, <3>1
  <2>4. \A n \in 1 .. Len(line') : line'[n] = frame'[Taken' + n]
    <3>. TAKE n \in 1 .. Len(line')
    <3>1. n + 1 \in 1 .. Len(line) /\ Taken + (n + 1) = Taken' + n
      BY <1>2, <1>3, <2>1
    <3>2. line[n + 1] = frame[Taken + (n + 1)]
      BY <2>2, <3>1
    <3>. QED  BY <1>1, <1>3, <3>1, <3>2
  <2>5. /\ frame'[1] = Mark
        /\ tpc' = "name" => \A n \in 1 .. Len(buf') : buf'[n] = frame'[2 + n]
    BY <1>1, <2>1, <2>3
  <2>6. intact'
    BY <1>1, <2>1 DEF Complete
  <2>. QED  BY <2>4, <2>5, <2>6 DEF Complete
<1>8. Taken' + Left' <= Len(frame')
  BY <1>1, <1>2, <1>4, <1>5
<1>. QED  BY <1>6, <1>7, <1>8

\* A byte of a frame that a read of one byte returns: what the thread makes of
\* it.
LEMMA SingleFrame ==
    ASSUME Inv, FrameInv, ReadByte, tpc # "name"
    PROVE  FrameInv'
<1>. DEFINE c == Head(line)
<1>1. /\ tpc \in Reading /\ buf = <<>> /\ line # <<>> /\ line' = Tail(line)
      /\ UNCHANGED master
  BY DEF ReadByte, FrameInv
<1>2. Append(buf, c) = <<c>> /\ Len(<<c>>) = Want
  BY <1>1 DEF Want
<1>3. tpc' = After(<<c>>) /\ buf' = IF tpc' = "answer" THEN <<c>> ELSE <<>>
  BY <1>2 DEF ReadByte, Return
<1>. HIDE DEF c
<1>4. /\ tpc = "mark"  => tpc' = IF c = Mark THEN "addr" ELSE "scan"
      /\ tpc = "addr"  => tpc' = "name"
      /\ tpc = "cmark" => tpc' = IF c = Mark THEN "code" ELSE "cmd"
      /\ tpc = "code"  => tpc' \in {"answer", "ended"}
      /\ tpc = "ack"   => tpc' \in {"cmd", "ended"}
  <2>1. <<c>> # <<>> /\ (<<c>> = <<Mark>> <=> c = Mark)
    OBVIOUS
  <2>. QED  BY <1>3, <2>1 DEF After
<1>5. buf' = <<>> \/ tpc' = "answer"
  BY <1>3
<1>6. Len(buf) = 0 /\ Len(Name) > 0
  BY <1>1, FrameFacts DEF Inv
<1>7. CASE tpc = "addr"
  <2>1. tpc' = "name" /\ buf' = <<>> /\ Len(buf') = 0
    BY <1>4, <1>5, <1>7
  <2>2. Taken = 1 /\ Taken' = 2
    BY <1>7, <2>1 DEF Taken
  <2>3. Complete => frame[1] = Mark
    BY <2>2 DEF Complete
  <2>. QED  BY <1>1, <1>6, <2>1, <2>2, <2>3, OneByte DEF Inv
<1>8. CASE tpc # "addr"
  <2>1. tpc' # "name" /\ (tpc' \in Reading => buf' = <<>>)
    BY <1>1, <1>4, <1>5, <1>8 DEF Reading
  <2>2. CASE tpc' \in {"addr", "code"}
    <3>1. c = Mark /\ tpc \in {"mark", "cmark"}
      BY <1>1, <1>4, <1>8, <2>2 DEF Reading
    <3>2. Taken = 0 /\ Taken' = 1
      BY <2>2, <3>1 DEF Taken
    <3>. QED  BY <1>1, <2>1, <3>1, <3>2, OneByte DEF Inv, c
  <2>3. CASE tpc' \notin {"addr", "code"}
    <3>1. Taken' = 0 /\ Taken \in Nat
      BY <2>1, <2>3, FrameFacts DEF Inv, Taken
    <3>. QED  BY <1>1, <2>1, <3>1, OneByte DEF Inv
  <2>. QED  BY <2>2, <2>3
<1>. QED  BY <1>7, <1>8

\* A byte of the name.
LEMMA NameFrame ==
    ASSUME Inv, FrameInv, ReadByte, tpc = "name"
    PROVE  FrameInv'
<1>. DEFINE b == Append(buf, Head(line))
<1>1. /\ line # <<>> /\ line' = Tail(line) /\ UNCHANGED master
      /\ IF Len(b) = Want THEN Return(b) ELSE buf' = b /\ UNCHANGED tpc
  BY DEF ReadByte
<1>2. /\ buf \in Seq(Byte) /\ line \in Seq(Byte) /\ Len(buf) \in Nat
      /\ Len(Name) \in Nat /\ Len(buf) < Len(Name) /\ Want = Len(Name)
  BY FrameFacts DEF Inv, FrameInv, Want
<1>3. /\ Len(b) = Len(buf) + 1
      /\ \A n \in 1 .. Len(b) : b[n] = IF n = Len(buf) + 1 THEN Head(line) ELSE buf[n]
  BY <1>1, <1>2, HeadTailProperties, AppendProperties
<1>. HIDE DEF b
<1>4. Taken = 2 + Len(buf)
  BY DEF Taken
<1>5. CASE Len(b) = Want
  <2>1. tpc' \in {"greet", "scan"}
    BY <1>1, <1>5 DEF Return, After
  <2>2. Taken' = 0 /\ tpc' \notin Reading
    BY <2>1 DEF Taken, Reading
  <2>. QED  BY <1>1, <1>2, <1>4, <2>2, OneByte DEF Inv, Reading
<1>6. CASE Len(b) # Want
  <2>1. tpc' = "name" /\ buf' = b
    BY <1>1, <1>6
  <2>2. Len(b) < Len(Name)
    BY <1>2, <1>3, <1>6
  <2>3. Taken' = Taken + 1 /\ Taken' \in Nat
    BY <1>2, <1>3, <1>4, <2>1 DEF Taken
  <2>4. ASSUME Complete, Head(line) = frame[Taken']
        PROVE  frame[1] = Mark /\ \A n \in 1 .. Len(b) : b[n] = frame[2 + n]
    <3>1. frame[1] = Mark /\ \A n \in 1 .. Len(buf) : buf[n] = frame[2 + n]
      BY <1>2, <1>4, <2>4 DEF Complete
    <3>2. ASSUME NEW n \in 1 .. Len(b) PROVE b[n] = frame[2 + n]
      <4>1. CASE n = Len(buf) + 1
        <5>1. b[n] = Head(line) /\ 2 + n = Taken'
          BY <1>2, <1>3, <1>4, <2>3, <4>1
        <5>. QED  BY <2>4, <5>1
      <4>2. CASE n # Len(buf) + 1
        <5>1. n \in 1 .. Len(buf)
          BY <1>2, <1>3, <4>2
        <5>. QED  BY <1>3, <3>1, <4>2, <5>1
      <4>. QED  BY <4>1, <4>2
    <3>. QED  BY <3>1, <3>2
  <2>. QED  BY <1>1, <2>1, <2>2, <2>3, <2>4, OneByte DEF Inv, Reading
<1>. QED  BY <1>5, <1>6

\* The thread ends: what is on the line is dropped.
LEMMA FinishFrame ==
    ASSUME Inv, FrameInv, Finish
    PROVE  FrameInv'
<1>1. /\ UNCHANGED <<patient, out, frame, intact, buf>>
      /\ tpc = "finish" /\ tpc' = "off" /\ line' = <<>>
  BY DEF Finish, Internal, master
<1>2. /\ Len(line) \in Nat /\ Len(out) \in Nat /\ Len(frame) \in Nat
      /\ line \in Seq(Byte) /\ Len(line') = 0
  BY <1>1, FrameFacts DEF Inv
<1>3. Taken = 0 /\ Taken' = 0
  BY <1>1 DEF Taken
<1>4. /\ Left \in Nat /\ Left' \in Nat /\ Left' <= Left
      /\ Taken + Left = Left /\ Taken' + Left' = Left'
  <2>. DEFINE l == Left'
  <2>1. Left \in Nat /\ l \in Nat /\ l <= Left
    BY <1>1, <1>2 DEF Left
  <2>. HIDE DEF l
  <2>2. Taken + Left = Left /\ Taken' + l = l
    BY <1>3, <2>1
  <2>. QED  BY <2>1, <2>2 DEF l
<1>5. patient => Left <= Len(frame) /\ (Left = Len(frame) => intact)
  BY <1>4 DEF FrameInv, Complete
<1>6. patient => Left' <= Len(frame') /\ (Left' = Len(frame') => intact')
  <2>1. patient => Left <= Len(frame)
    BY <1>5
  <2>2. patient => Left' <= Len(frame) /\ (Left' = Len(frame) => Left = Len(frame))
    BY ONLY <1>2, <1>4, <2>1
  <2>. QED  BY <1>1, <1>5, <2>2
<1>7. intact' => Complete'
  BY <1>1, <1>2, <1>3 DEF Complete
<1>8. \A n \in 1 .. Len(out') : out'[n] = frame'[Len(frame') - Len(out') + n]
  BY <1>1 DEF FrameInv
<1>9. \A n \in 1 .. Len(line') : \E k \in 1 .. Len(frame') : line'[n] = frame'[k]
  BY <1>2
<1>. QED  BY <1>1, <1>4, <1>6, <1>7, <1>8, <1>9 DEF FrameInv, Reading

\* A patient master begins a frame when nothing is left of the last one.
LEMMA SendFrame ==
    ASSUME Inv, FrameInv, NEW f \in Frames, Send(f)
    PROVE  FrameInv'
<1>1. /\ out = <<>> /\ out' = f /\ frame' = f /\ intact' = TRUE
      /\ UNCHANGED <<patient, line, tpc, buf>>
      /\ patient => line = <<>> /\ tpc \notin {"addr", "code", "name"}
  BY DEF Send, Device, Waiting
<1>2. f \in Seq(Byte) /\ Len(f) \in Nat
  BY FrameAssumption
<1>3. \A n \in 1 .. Len(out') : out'[n] = frame'[Len(frame') - Len(out') + n]
  BY <1>1, <1>2
<1>. SUFFICES ASSUME patient
              PROVE  /\ Taken' + Left' <= Len(frame')
                     /\ \A n \in 1 .. Len(line') : \E k \in 1 .. Len(frame') :
                           line'[n] = frame'[k]
                     /\ Complete'
  BY <1>1, <1>3 DEF FrameInv
<1>4. Len(line') = 0 /\ Taken' = 0 /\ tpc' # "name"
  BY <1>1 DEF Taken
<1>5. Left' = Len(frame')
  BY <1>1, <1>2, <1>4 DEF Left
<1>. QED  BY <1>1, <1>2, <1>4, <1>5 DEF Complete

\* The bytes a master has still to send are the last of its frame.
LEMMA OutTail ==
    ASSUME TypeOK, FrameInv, out # <<>>, out' = Tail(out), frame' = frame
    PROVE  /\ \A n \in 1 .. Len(out') : out'[n] = frame'[Len(frame') - Len(out') + n]
           /\ Len(out') = Len(out) - 1 /\ Len(out) > 0
           /\ Head(out) = frame[Len(frame) - Len(out) + 1]
<1>1. /\ out \in Seq(Byte) /\ Len(out) \in Nat /\ Len(frame) \in Nat
  BY FrameFacts
<1>2. /\ Len(out') = Len(out) - 1 /\ Len(out) > 0 /\ Head(out) = out[1]
      /\ \A n \in 1 .. Len(out') : out'[n] = out[n + 1]
  BY <1>1, HeadTailProperties
<1>3. \A n \in 1 .. Len(out) : out[n] = frame[Len(frame) - Len(out) + n]
  BY DEF FrameInv
<1>4. ASSUME NEW n \in 1 .. Len(out')
      PROVE  out'[n] = frame'[Len(frame') - Len(out') + n]
  <2>1. n + 1 \in 1 .. Len(out)
    BY <1>1, <1>2
  <2>2. Len(frame) - Len(out) + (n + 1) = Len(frame') - Len(out') + n
    BY <1>1, <1>2
  <2>. QED  BY <1>2, <1>3, <2>1, <2>2
<1>5. 1 \in 1 .. Len(out)
  BY <1>1, <1>2
<1>. QED  BY <1>2, <1>3, <1>4, <1>5

\* A byte that does not reach the port: less is left than would complete the
\* frame.
LEMMA LostFrame ==
    ASSUME Inv, FrameInv, Lose \/ (Transmit /\ ~port)
    PROVE  FrameInv'
<1>1. /\ out # <<>> /\ out' = Tail(out)
      /\ UNCHANGED <<patient, line, tpc, buf, frame>>
  BY DEF Lose, Transmit, Device
<1>2. /\ Len(line) \in Nat /\ Len(out) \in Nat /\ Len(frame) \in Nat /\ Taken \in Nat
  BY FrameFacts DEF Inv
<1>3. /\ \A n \in 1 .. Len(out') : out'[n] = frame'[Len(frame') - Len(out') + n]
      /\ Len(out') = Len(out) - 1
  BY <1>1, OutTail DEF Inv
<1>4. Taken' = Taken /\ Left' = Left - 1 /\ Left \in Nat
  BY <1>1, <1>2, <1>3 DEF Taken, Left
<1>5. patient => Taken + Left <= Len(frame)
  BY DEF FrameInv
<1>6. patient => Taken' + Left' < Len(frame')
  BY <1>1, <1>2, <1>4, <1>5
<1>7. patient => Taken' + Left' <= Len(frame') /\ Taken' + Left' # Len(frame')
  BY <1>1, <1>2, <1>4, <1>6
<1>8. patient => \A n \in 1 .. Len(line') : \E k \in 1 .. Len(frame') :
                     line'[n] = frame'[k]
  BY <1>1 DEF FrameInv
<1>. QED  BY <1>1, <1>3, <1>7, <1>8 DEF FrameInv

\* A byte that reaches the port.
LEMMA ArrivedFrame ==
    ASSUME Inv, FrameInv, Transmit, port
    PROVE  FrameInv'
<1>1. /\ out # <<>> /\ out' = Tail(out) /\ line' = Append(line, Head(out))
      /\ UNCHANGED <<patient, tpc, buf, frame>>
      /\ intact' = (intact /\ port)
  BY DEF Transmit, Device
<1>2. /\ Len(line) \in Nat /\ Len(out) \in Nat /\ Len(frame) \in Nat /\ Taken \in Nat
      /\ line \in Seq(Byte) /\ out \in Seq(Byte)
  BY FrameFacts DEF Inv
<1>3. /\ \A n \in 1 .. Len(out') : out'[n] = frame'[Len(frame') - Len(out') + n]
      /\ Len(out') = Len(out) - 1 /\ Len(out) > 0
      /\ Head(out) = frame[Len(frame) - Len(out) + 1]
  BY <1>1, OutTail DEF Inv
<1>4. /\ Len(line') = Len(line) + 1
      /\ \A n \in 1 .. Len(line') :
            line'[n] = IF n = Len(line) + 1 THEN Head(out) ELSE line[n]
  BY <1>1, <1>2, HeadTailProperties, AppendProperties
<1>. SUFFICES ASSUME patient
              PROVE  /\ Taken' + Left' <= Len(frame')
                     /\ \A n \in 1 .. Len(line') : \E k \in 1 .. Len(frame) :
                           line'[n] = frame[k]
                     /\ Taken' + Left' = Len(frame') => Complete'
  BY <1>1, <1>3 DEF FrameInv
<1>5. Taken' = Taken /\ Left' = Left /\ Left = Len(line) + Len(out)
  BY <1>1, <1>2, <1>3, <1>4 DEF Taken, Left
<1>6. /\ Taken + Left <= Len(frame)
      /\ \A n \in 1 .. Len(line) : \E k \in 1 .. Len(frame) : line[n] = frame[k]
  BY DEF FrameInv
<1>7. ASSUME NEW n \in 1 .. Len(line')
      PROVE  \E k \in 1 .. Len(frame) : line'[n] = frame[k]
  <2>1. CASE n = Len(line) + 1
    <3>1. Len(frame) - Len(out) + 1 \in 1 .. Len(frame)
      BY <1>2, <1>3, <1>5, <1>6
    <3>. QED  BY <1>3, <1>4, <2>1, <3>1
  <2>2. CASE n # Len(line) + 1
    <3>1. n \in 1 .. Len(line)
      BY <1>2, <1>4, <2>2
    <3>. QED  BY <1>4, <1>6, <2>2, <3>1
  <2>. QED  BY <2>1, <2>2
<1>8. ASSUME Taken + Left = Len(frame) PROVE Complete'
  <2>1. Complete
    BY <1>8 DEF FrameInv
  <2>2. ASSUME NEW n \in 1 .. Len(line') PROVE line'[n] = frame[Taken + n]
    <3>1. CASE n = Len(line) + 1
      <4>1. Len(frame) - Len(out) + 1 = Taken + n
        BY <1>2, <1>5, <1>8, <3>1
      <4>. QED  BY <1>3, <1>4, <3>1, <4>1
    <3>2. CASE n # Len(line) + 1
      <4>1. n \in 1 .. Len(line)
        BY <1>2, <1>4, <3>2
      <4>. QED  BY <1>4, <2>1, <3>2, <4>1 DEF Complete
    <3>. QED  BY <3>1, <3>2
  <2>3. intact' /\ (Taken' > 0 => frame'[1] = Mark)
    BY <1>1, <1>5, <2>1 DEF Complete
  <2>4. tpc' = "name" => \A n \in 1 .. Len(buf') : buf'[n] = frame'[2 + n]
    BY <1>1, <2>1 DEF Complete
  <2>. QED  BY <1>1, <1>5, <2>2, <2>3, <2>4 DEF Complete
<1>9. Taken' + Left' <= Len(frame') /\ (Taken' + Left' = Len(frame') => Complete')
  BY <1>1, <1>5, <1>6, <1>8
<1>. QED  BY <1>7, <1>9

\* Every step of the device, of the user and of the line.
LEMMA FrameStep ==
    ASSUME Inv, FrameInv, [Next]_vars
    PROVE  FrameInv'
<1>1. CASE Gui
  BY <1>1, PlainFrame
<1>2. CASE Thread
  BY <1>2, PlainFrame, TimeOutFrame, SingleFrame, NameFrame, FinishFrame
     DEF Thread, Work
<1>3. CASE Transmit \/ Lose
  BY <1>3, LostFrame, ArrivedFrame
<1>4. CASE \E f \in Frames : Send(f)
  BY <1>4, SendFrame
<1>5. CASE UNCHANGED vars
  BY <1>5 DEF vars, gui, handle, master, FrameInv, Taken, Left, Complete
<1>. QED  BY <1>1, <1>2, <1>3, <1>4, <1>5 DEF Next

\* What a read of the thread makes of its bytes it makes of a whole frame.
LEMMA ReadsWhole ==
    ASSUME Inv, FrameInv, ReadByte, patient
    PROVE  WholeFrameStep
<1>. DEFINE c == Head(line)
<1>1. /\ line # <<>>
      /\ line \in Seq(Byte) /\ Len(line) \in Nat /\ Len(out) \in Nat
      /\ buf \in Seq(Byte) /\ Len(buf) \in Nat
      /\ frame \in Seq(Byte) /\ Len(frame) \in Nat
      /\ Len(frame) <= 2 + Len(Name) /\ Len(Name) \in Nat
      /\ Name \in Seq(Byte)
  BY FrameFacts, FrameAssumption DEF ReadByte, Inv
<1>2. Len(line) > 0 /\ c = line[1] /\ 1 \in 1 .. Len(line)
  BY <1>1, HeadTailProperties
<1>3. /\ Taken + Left <= Len(frame)
      /\ \E k \in 1 .. Len(frame) : c = frame[k]
      /\ Left >= 1 /\ Left \in Nat
  <2>1. Left >= 1 /\ Left \in Nat
    BY <1>1, <1>2 DEF Left
  <2>. QED  BY <1>2, <2>1 DEF FrameInv
<1>4. Taken + Left = Len(frame) => Complete
  BY DEF FrameInv
<1>5. frame \in Frames
  <2>1. Len(frame) # 0
    BY <1>1, <1>3
  <2>2. frame # <<>>
    BY <2>1
  <2>. QED  BY <2>2 DEF Inv, TypeOK
<1>6. /\ c \in {Current, Accumulate} => Len(frame) = 2
      /\ c = Ok => frame = <<Ok>>
  <2>1. DOMAIN frame = 1 .. Len(frame)
    BY <1>1
  <2>. QED  BY <1>3, <1>5, <2>1, ProtocolAssumption
<1>7. ASSUME tpc = "name", tpc' = "greet" PROVE intact /\ Names(frame)
  <2>. DEFINE b == Append(buf, c)
  <2>1. b = Name
    <3>1. Len(b) = Want /\ Return(b)
      BY <1>7 DEF ReadByte
    <3>. QED  BY <1>7, <3>1 DEF Return, After
  <2>2. /\ Len(b) = Len(buf) + 1
        /\ \A n \in 1 .. Len(b) : b[n] = IF n = Len(buf) + 1 THEN c ELSE buf[n]
    <3>1. c \in Byte
      BY <1>1, <1>2
    <3>. QED  BY <1>1, <3>1, AppendProperties
  <2>3. Taken = 2 + Len(buf)
    BY <1>7 DEF Taken
  <2>4. /\ Left = 1 /\ Len(frame) = 2 + Len(Name) /\ Taken + Left = Len(frame)
        /\ Taken + 1 = 2 + (Len(buf) + 1)
    BY <1>1, <1>3, <2>1, <2>2, <2>3
  <2>5. Complete
    BY <1>4, <2>4
  <2>6. /\ intact /\ frame[1] = Mark /\ c = frame[Taken + 1]
        /\ \A n \in 1 .. Len(buf) : buf[n] = frame[2 + n]
    <3>1. Taken > 0
      BY <1>1, <2>3
    <3>. QED  BY <1>2, <1>7, <2>5, <3>1 DEF Complete
  <2>7. \A n \in 1 .. Len(Name) : Name[n] = frame[2 + n]
    <3>. TAKE n \in 1 .. Len(Name)
    <3>1. CASE n = Len(buf) + 1
      BY <2>1, <2>2, <2>4, <2>6, <3>1
    <3>2. CASE n # Len(buf) + 1
      <4>1. n \in 1 .. Len(buf)
        BY <1>1, <2>1, <2>2, <3>2
      <4>. QED  BY <2>1, <2>2, <2>6, <3>2, <4>1
    <3>. QED  BY <3>1, <3>2
  <2>. DEFINE p == SubSeq(frame, 3, Len(frame))
  <2>8. p \in Seq(Byte) /\ Len(p) = Len(Name) /\ \A n \in 1 .. Len(p) : p[n] = frame[2 + n]
    BY <1>1, <2>4, SubSeqProperties
  <2>. HIDE DEF p
  <2>9. p = Name
    BY <1>1, <2>7, <2>8, SeqEqual
  <2>. QED  BY <2>4, <2>6, <2>9 DEF Names, p
<1>8. ASSUME tpc # "name"
      PROVE  /\ tpc' = After(<<c>>)
             /\ buf' = IF tpc' = "answer" THEN <<c>> ELSE <<>>
  <2>1. buf = <<>> /\ tpc \in Reading
    BY <1>8 DEF ReadByte, FrameInv
  <2>2. Append(buf, c) = <<c>> /\ Len(<<c>>) = Want
    BY <1>8, <2>1 DEF Want
  <2>. QED  BY <2>2 DEF ReadByte, Return
<1>9. ASSUME tpc = "code", tpc' = "answer" PROVE intact /\ frame = <<Mark, buf'[1]>>
  <2>1. c \in {Current, Accumulate}
    BY <1>8, <1>9 DEF After
  <2>2. Taken = 1
    BY <1>9 DEF Taken
  <2>3. Len(frame) = 2 /\ Taken + Left = Len(frame)
    <3>1. Len(frame) = 2
      BY <1>6, <2>1
    <3>. QED  BY <1>3, <2>2, <3>1
  <2>4. Complete
    BY <1>4, <2>3
  <2>5. intact /\ frame[1] = Mark /\ frame[2] = c
    BY <1>2, <2>2, <2>4 DEF Complete
  <2>6. frame = <<frame[1], frame[2]>>
    BY <1>1, <2>3
  <2>7. buf' = <<c>>
    BY <1>8, <1>9
  <2>. QED  BY <2>5, <2>6, <2>7
<1>10. ASSUME tpc = "ack", tpc' = "cmd" PROVE intact /\ frame = <<Ok>>
  <2>1. c = Ok
    <3>1. <<c>> = <<Ok>>
      BY <1>8, <1>10 DEF After
    <3>. QED  BY <3>1
  <2>2. Taken = 0
    BY <1>10 DEF Taken
  <2>3. frame = <<Ok>> /\ Len(frame) = 1
    BY <1>6, <2>1
  <2>4. Taken + Left = Len(frame)
    BY <1>3, <2>2, <2>3
  <2>. QED  BY <1>4, <2>3, <2>4 DEF Complete
<1>. QED  BY <1>7, <1>9, <1>10 DEF WholeFrameStep

\* With a patient master the device acts on a frame only if it has all of it,
\* however many bytes were lost and whenever it was stopped and started: the
\* bytes of one frame are never taken for those of another.
THEOREM OnlyWholeFrames == Spec => PatientWholeFrames
<1>1. Init => FrameInv
  <2>. SUFFICES ASSUME Init PROVE FrameInv
    OBVIOUS
  <2>1. Len(line) = 0 /\ Len(out) = 0 /\ Len(frame) = 0 /\ Taken = 0 /\ Left = 0
    BY DEF Init, Taken, Left
  <2>. QED  BY <2>1 DEF Init, FrameInv, Complete, Reading
<1>2. Inv /\ FrameInv /\ [Next]_vars => FrameInv'
  BY FrameStep
<1>3. Inv /\ FrameInv /\ [Next]_vars => [patient => WholeFrameStep]_vars
  <2>. SUFFICES ASSUME Inv, FrameInv, patient, Next PROVE WholeFrameStep
    OBVIOUS
  <2>1. CASE ReadByte
    BY <2>1, ReadsWhole
  <2>2. CASE ReadTimeOut
    BY <2>2, TimeOutFrame
  <2>3. CASE ~ReadByte /\ ~ReadTimeOut
    <3>1. tpc' = tpc \/ tpc \notin Reading
      BY <2>3 DEF Next, Gui, ClickStart, ClickStop, Stopped, Thread, Work, OpenPort,
                  OpenFails, Scan, NextCommand, Greet, Answer, SessionEnds, Finish,
                  Internal, Transmit, Lose, Send, Device, Reading
    <3>. QED  BY <3>1 DEF WholeFrameStep, Reading
  <2>. QED  BY <2>1, <2>2, <2>3
<1>. QED  BY <1>1, <1>2, <1>3, Invariant, PTL DEF Spec, PatientWholeFrames

------------------------------------------------------------------------------
(* The device implements DeviceSwitch. *)

\* A step that turns the switch, in or out of a session, or neither.
LEMMA TurnsSwitch ==
    ASSUME NEW from, SwitchState \in from, InSession' = InSession
    PROVE  Switch!Turn(Name, from, SwitchState')
  BY DEF Switch!Turn

LEMMA KeepsSwitch ==
    ASSUME UNCHANGED gui, InSession' = InSession
    PROVE  UNCHANGED Switch!svars
<1>1. SwitchState' = SwitchState
  BY DEF gui, handle, SwitchState
<1>. QED  BY <1>1 DEF Switch!svars

\* A session begins while a thread runs, which it does only when the device is
\* on or its stop waits; a stop that returns has waited for the thread.
LEMMA SwitchStep ==
    ASSUME TypeOK, StoppedIsQuiet, [Next]_vars
    PROVE  [Switch!SNext]_(Switch!svars)
<1>1. ASSUME NEW from, SwitchState \in from, InSession' = InSession
      PROVE  Switch!Turn(Name, from, SwitchState')
  BY <1>1, TurnsSwitch
<1>2. ASSUME UNCHANGED gui, InSession' = InSession
      PROVE  UNCHANGED Switch!svars
  BY <1>2, KeepsSwitch
<1>3. CASE ClickStart
  <2>1. /\ SwitchState = "off" /\ SwitchState' = "on"
        /\ InSession' = InSession
    BY <1>3 DEF ClickStart, StoppedIsQuiet, SwitchState, InSession
  <2>2. Switch!Turn(Name, {"off", "starting"}, "on")
    BY <1>1, <2>1
  <2>. QED  BY <2>2 DEF Switch!SNext, Switch!Started
<1>4. CASE ClickStop
  <2>1. SwitchState = "on" /\ InSession' = InSession
    BY <1>4 DEF ClickStop, SwitchState, InSession
  <2>2. CASE tpc = "off"
    <3>1. SwitchState' = "off" /\ Name \notin {d \in {Name} : InSession}
      BY <1>4, <2>2 DEF ClickStop, SwitchState, InSession
    <3>2. Switch!Turn(Name, {"on", "stopping"}, "off")
      BY <1>1, <2>1, <3>1
    <3>. QED  BY <3>1, <3>2 DEF Switch!SNext, Switch!Stopped
  <2>3. CASE tpc # "off"
    <3>1. SwitchState' = "stopping"
      BY <1>4, <2>3 DEF ClickStop, SwitchState
    <3>2. Switch!Turn(Name, {"on"}, "stopping")
      BY <1>1, <2>1, <3>1
    <3>. QED  BY <3>2 DEF Switch!SNext, Switch!Stop
  <2>. QED  BY <2>2, <2>3
<1>5. CASE Stopped
  <2>1. /\ SwitchState = "stopping" /\ SwitchState' = "off"
        /\ InSession' = InSession /\ Name \notin {d \in {Name} : InSession}
    BY <1>5 DEF Stopped, SwitchState, InSession
  <2>2. Switch!Turn(Name, {"on", "stopping"}, "off")
    BY <1>1, <2>1
  <2>. QED  BY <2>1, <2>2 DEF Switch!SNext, Switch!Stopped
<1>6. CASE Greet
  <2>1. SwitchState \in {"on", "stopping"} /\ UNCHANGED SwitchState
    BY <1>6 DEF Greet, Internal, gui, handle, TypeOK, StoppedIsQuiet, SwitchState
  <2>2. ~InSession /\ InSession'
    BY <1>6 DEF Greet, Internal, InSession
  <2>3. Switch!Serve(Name)
    BY <2>1, <2>2 DEF Switch!Serve
  <2>. QED  BY <2>3 DEF Switch!SNext
<1>7. CASE SessionEnds
  <2>1. UNCHANGED SwitchState
    BY <1>7 DEF SessionEnds, Internal, gui, handle, SwitchState
  <2>2. InSession /\ ~InSession'
    BY <1>7 DEF SessionEnds, Internal, InSession
  <2>3. Switch!Served(Name)
    BY <2>1, <2>2 DEF Switch!Served
  <2>. QED  BY <2>3 DEF Switch!SNext
<1>8. CASE OpenPort \/ OpenFails \/ Scan \/ NextCommand \/ Answer \/ Finish
  <2>1. UNCHANGED gui /\ InSession' = InSession
    BY <1>8 DEF OpenPort, OpenFails, Scan, NextCommand, Answer, Finish, Internal, InSession
  <2>. QED  BY <1>2, <2>1
\* A read neither begins a session nor ends one.
<1>9. CASE ReadByte \/ ReadTimeOut
  <2>1. UNCHANGED gui /\ tpc \in Reading
    BY <1>9 DEF ReadByte, ReadTimeOut
  <2>2. tpc' = tpc \/ \E b : tpc' = After(b)
    BY <1>9 DEF ReadByte, ReadTimeOut, Return
  <2>3. InSession' = InSession
    BY <2>1, <2>2, AfterRead DEF InSession
  <2>. QED  BY <1>2, <2>1, <2>3
<1>10. CASE Transmit \/ Lose \/ (\E f \in Frames : Send(f)) \/ UNCHANGED vars
  <2>1. UNCHANGED gui /\ InSession' = InSession
    BY <1>10 DEF Transmit, Lose, Send, Device, vars, InSession
  <2>. QED  BY <1>2, <2>1
<1>. QED
  BY <1>3, <1>4, <1>5, <1>6, <1>7, <1>8, <1>9, <1>10 DEF Next, Gui, Thread, Work

\* Whatever masters send and whenever Start and Stop are pressed, the thread and
\* the window together implement what Start and Stop promise.
THEOREM StartsAndStops == Spec => SwitchesAsPromised
<1>1. Init => Switch!SInit
  BY DEF Init, SwitchState, InSession, Switch!SInit
<1>2. TypeOK /\ StoppedIsQuiet /\ [Next]_vars => [Switch!SNext]_(Switch!svars)
  BY SwitchStep
<1>. QED
  BY <1>1, <1>2, TypeCorrect, StoppedDeviceIsQuiet, PTL
     DEF Spec, SwitchesAsPromised, Switch!SSpec

-----------------------------------------------------------------------------
(* The numbers in the answers, and those saved (TuraAnswer). *)

AnswerType ==
    /\ form \in [Registers -> Numbers] /\ value \in [Registers -> Numbers]
    /\ settings \in [Registers -> Numbers]
    /\ gpc \in {"events", "reading", "saving", "closed"}
    /\ saved \in 0..6 /\ (gpc \in {"reading", "saving"} => saved \in 0..5)
    /\ apc \in {"idle", "read", "store", "encode", "sent"}
    /\ code \in {"current_flowrate", "accum_volume"} /\ idx \in 0..2
    /\ text \in Numbers /\ sendbuf \in [Positions -> Char]
    /\ shown \in [Registers -> SUBSET Numbers]
    /\ caught \in [Registers -> SUBSET Numbers]

\* The registers of the command that have been read and stored.
Stored(i) == apc = "encode" \/ (apc \in {"read", "store"} /\ i < idx)

\* What has been read for the command was shown since it came, and so was what
\* saveState stores over it.
ReadInv ==
    /\ \A r \in Registers : form[r] \in shown[r]
    /\ apc = "store" => text \in shown[Register]
    /\ \A i \in 0..2 : Stored(i) => value[<<code, i>>] \in shown[<<code, i>>]

\* The registers of the answer that have been encoded.
Sending(i) == apc = "sent" \/ (apc = "encode" /\ i < idx)

EncodeInv == \A i \in 0..2 :
    Sending(i) => \E n \in shown[<<code, i>>] : Says(sendbuf, code, i, n)

\* What may be saved for a register.
Kept(r) == {form[r]} \cup caught[r]

\* Once saveState has read a widget its value is one that may be saved, though the
\* thread store into it; and so it is when it is saved.
SaveInv ==
    /\ gpc # "events" /\ apc = "store" => text \in Kept(Register)
    /\ \A n \in 1..6 :
         /\ gpc \in {"saving", "closed"} \/ (gpc = "reading" /\ n <= saved) =>
               value[Order[n]] \in Kept(Order[n])
         /\ gpc = "closed" \/ (gpc = "saving" /\ n <= saved) =>
               settings[Order[n]] \in Kept(Order[n])

AnswerInv == AnswerType /\ ReadInv /\ EncodeInv /\ SaveInv

\* The bytes of a float in the device's order.
LEMMA FloatBytes ==
    ASSUME NEW v \in Word
    PROVE  /\ ieee_to_flo32(v) \in Word
           /\ ieee_to_flo32(v)[1] = v[4] /\ ieee_to_flo32(v)[2] = v[3]
           /\ ieee_to_flo32(v)[3] \div 128 = v[1] \div 128
           /\ ieee_to_flo32(v)[3] % 128 = v[2] % 128
           /\ ieee_to_flo32(v)[4] = (v[1] % 128) * 2 + (v[2] \div 128)
<1> DEFINE s == v[1] \div 128
           m == v[2] % 128
           e == (v[1] % 128) * 2 + (v[2] \div 128)
<1>1. \A n \in 1..4 : v[n] \in 0..255
  BY DEF Word, Char
<1>2. s \in 0..1 /\ m \in 0..127 /\ e \in 0..255
  BY <1>1
<1>3. ieee_to_flo32(v) = <<v[4], v[3], m + 128 * s, e>>
  BY DEF ieee_to_flo32
<1>4. /\ m + 128 * s \in 0..255
      /\ (m + 128 * s) \div 128 = s /\ (m + 128 * s) % 128 = m
  <2> HIDE DEF s, m
  <2>1. CASE s = 0
    BY <1>2, <2>1
  <2>2. CASE s = 1
    BY <1>2, <2>2
  <2>. QED  BY <1>2, <2>1, <2>2
<1> HIDE DEF s, m, e
<1>5. ieee_to_flo32(v) \in Word
  BY <1>1, <1>2, <1>3, <1>4 DEF Word, Char
<1>6. /\ ieee_to_flo32(v)[1] = v[4] /\ ieee_to_flo32(v)[2] = v[3]
      /\ ieee_to_flo32(v)[3] = m + 128 * s /\ ieee_to_flo32(v)[4] = e
  BY <1>3
<1>. QED  BY <1>4, <1>5, <1>6 DEF s, m, e

\* Four bytes of the buffer get a word, the others stay.
LEMMA PutsWord ==
    ASSUME NEW b \in [Positions -> Char], NEW at \in 0..62, NEW w \in Word
    PROVE  /\ PutWord(b, at, w) \in [Positions -> Char]
           /\ \A k \in 0..3 : PutWord(b, at, w)[at + k] = w[4 - k]
           /\ \A n \in Positions : n < at \/ at + 3 < n => PutWord(b, at, w)[n] = b[n]
<1>1. \A n \in Positions : n \in at..at + 3 => 4 - (n - at) \in 1..4
  BY DEF Positions
<1>2. \A n \in 1..4 : w[n] \in Char
  BY DEF Word
<1>3. PutWord(b, at, w) \in [Positions -> Char]
  BY <1>1, <1>2 DEF PutWord
<1>4. ASSUME NEW k \in 0..3
      PROVE  PutWord(b, at, w)[at + k] = w[4 - k]
  <2>1. at + k \in Positions /\ at + k \in at..at + 3 /\ 4 - (at + k - at) = 4 - k
    BY DEF Positions
  <2>. QED  BY <2>1 DEF PutWord
<1>5. \A n \in Positions : n < at \/ at + 3 < n => n \notin at..at + 3
  BY DEF Positions
<1>. QED  BY <1>3, <1>4, <1>5 DEF PutWord

\* A master that reads a float where the device put one reads that float.
LEMMA FloatIsRead ==
    ASSUME NEW b \in [Positions -> Char], NEW at \in 0..62, NEW v \in Word
    PROVE  FloatAt(PutWord(b, at, ieee_to_flo32(v)), at) = Float(v)
<1> DEFINE c == PutWord(b, at, ieee_to_flo32(v))
<1>1. \A k \in 0..3 : c[at + k] = ieee_to_flo32(v)[4 - k]
  BY FloatBytes, PutsWord
<1>2. /\ c[at] = ieee_to_flo32(v)[4] /\ c[at + 1] = ieee_to_flo32(v)[3]
      /\ c[at + 2] = ieee_to_flo32(v)[2] /\ c[at + 3] = ieee_to_flo32(v)[1]
  <2> HIDE DEF c
  <2>. QED  BY <1>1
<1> HIDE DEF c
<1>3. /\ c[at + 1] \div 128 = v[1] \div 128 /\ c[at + 1] % 128 = v[2] % 128
      /\ c[at] = (v[1] % 128) * 2 + (v[2] \div 128)
      /\ c[at + 2] = v[3] /\ c[at + 3] = v[4]
  BY <1>2, FloatBytes
<1>4. FloatAt(c, at) = Float(v)
  BY <1>3, Zenon DEF FloatAt, Float
<1>. QED  BY <1>4 DEF c

\* Three bytes of the buffer get the low bytes of an integer, the others stay.
LEMMA PutsWhole ==
    ASSUME NEW b \in [Positions -> Char], NEW at \in 0..63, NEW val \in Nat
    PROVE  /\ PutWhole(b, at, val) \in [Positions -> Char]
           /\ PutWhole(b, at, val)[at] = Char2(val)
           /\ PutWhole(b, at, val)[at + 1] = Char1(val)
           /\ PutWhole(b, at, val)[at + 2] = Char0(val)
           /\ \A n \in Positions : n < at \/ at + 2 < n => PutWhole(b, at, val)[n] = b[n]
<1>1. Char2(val) \in Char /\ Char1(val) \in Char /\ Char0(val) \in Char
  BY DEF Char, Char2, Char1, Char0
<1>2. /\ at \in Positions /\ at + 1 \in Positions /\ at + 2 \in Positions
      /\ at # at + 1 /\ at # at + 2 /\ at + 1 # at + 2
  BY DEF Positions
<1>3. PutWhole(b, at, val) \in [Positions -> Char]
  BY <1>1, <1>2 DEF PutWhole
<1>4. \A n \in Positions : PutWhole(b, at, val)[n] =
        IF n = at + 2 THEN Char0(val) ELSE IF n = at + 1 THEN Char1(val)
                                      ELSE IF n = at THEN Char2(val) ELSE b[n]
  BY <1>2 DEF PutWhole
<1>5. \A n \in Positions : n < at \/ at + 2 < n => n # at /\ n # at + 1 /\ n # at + 2
  BY DEF Positions
<1>. QED  BY <1>2, <1>3, <1>4, <1>5

\* The three low bytes of an integer make it up again modulo 2^24.
LEMMA ThreeBytes ==
    ASSUME NEW v \in Nat, NEW b, NEW at,
           b[at] = Char2(v), b[at + 1] = Char1(v), b[at + 2] = Char0(v)
    PROVE  WholeAt(b, at) = Low24(v)
<1>1. PICK p \in Nat : p = v \div 256
  BY SMT
<1>2. PICK q \in Nat : q = v \div 65536
  BY SMT
<1>3. PICK k \in Nat : k = v \div 16777216
  BY SMT
<1>4. q = p \div 256 /\ k = q \div 256
  BY <1>1, <1>2, <1>3, SMT
<1>5. v % 256 = v - 256 * p
  BY <1>1, SMT
<1>6. p % 256 = p - 256 * q /\ q % 256 = q - 256 * k
  BY <1>4, SMT
<1>7. v % 16777216 = v - 16777216 * k
  BY <1>3, SMT
<1>8. ((q - 256 * k) * 256 + (p - 256 * q)) * 256 + (v - 256 * p) = v - 16777216 * k
  BY SMT
<1>9. WholeAt(b, at) = ((q - 256 * k) * 256 + (p - 256 * q)) * 256 + (v - 256 * p)
  <2>1. b[at] = q - 256 * k /\ b[at + 1] = p - 256 * q /\ b[at + 2] = v - 256 * p
    BY <1>1, <1>2, <1>5, <1>6 DEF Char2, Char1, Char0
  <2>. QED  BY <2>1 DEF WholeAt
<1>. QED  BY <1>7, <1>8, <1>9, SMT DEF Low24

\* A master that reads an integer where the device put one reads it modulo 2^24.
LEMMA WholeIsRead ==
    ASSUME NEW b \in [Positions -> Char], NEW at \in 0..63, NEW val \in Nat
    PROVE  WholeAt(PutWhole(b, at, val), at) = Low24(val)
BY PutsWhole, ThreeBytes

LEMMA RegisterFacts ==
    /\ \A c \in {"current_flowrate", "accum_volume"}, i \in 0..2 : <<c, i>> \in Registers
    /\ \A n \in 1..6 : Order[n] \in Registers
<1>1. \A c \in {"current_flowrate", "accum_volume"}, i \in 0..2 : <<c, i>> \in Registers
  BY DEF Registers
<1>2. ASSUME NEW n \in 1..6 PROVE Order[n] \in Registers
  <2>1. CASE n <= 3
    <3>1. Order[n] = <<"current_flowrate", n - 1>> /\ n - 1 \in 0..2
      BY <2>1 DEF Order
    <3>. QED  BY <3>1, <1>1
  <2>2. CASE ~(n <= 3)
    <3>1. Order[n] = <<"accum_volume", n - 4>> /\ n - 4 \in 0..2
      BY <2>2 DEF Order
    <3>. QED  BY <3>1, <1>1
  <2>. QED  BY <2>1, <2>2
<1>. QED  BY <1>1, <1>2

LEMMA NumberFacts ==
    ASSUME NEW n \in Numbers
    PROVE  /\ n.word \in Word /\ n.fraction \in Word /\ n.whole \in Int
           /\ Unsigned(n.whole) \subseteq Nat
           /\ n.whole \in 0..UIntMax => Unsigned(n.whole) = {n.whole}
<1>1. n \in [word : Word, whole : Int, fraction : Word]
  BY NumbersAssumption
<1>2. 0..UIntMax \subseteq Nat /\ Overflown \subseteq Nat
  BY NumbersAssumption
<1>. QED  BY <1>1, <1>2 DEF Unsigned

\* A float of the answer is encoded, and the other bytes stay.
LEMMA FloatIsEncoded ==
    ASSUME NEW b \in [Positions -> Char], NEW at \in {2, 10}, NEW i \in 0..2,
           NEW v \in Word, NEW b2, b2 = PutWord(b, at + 4 * i, ieee_to_flo32(v))
    PROVE  /\ b2 \in [Positions -> Char]
           /\ FloatAt(b2, at + 4 * i) = Float(v)
           /\ \A j \in 0..2 : j # i => FloatAt(b2, at + 4 * j) = FloatAt(b, at + 4 * j)
           /\ \A n \in 26..34 : b2[n] = b[n]
<1>1. at + 4 * i \in 0..62 /\ ieee_to_flo32(v) \in Word
  BY FloatBytes
<1>2. b2 \in [Positions -> Char] /\ FloatAt(b2, at + 4 * i) = Float(v)
  BY <1>1, PutsWord, FloatIsRead
<1>3. \A n \in Positions : n < at + 4 * i \/ at + 4 * i + 3 < n => b2[n] = b[n]
  BY <1>1, PutsWord
<1>4. ASSUME NEW j \in 0..2, j # i
      PROVE  FloatAt(b2, at + 4 * j) = FloatAt(b, at + 4 * j)
  <2>1. \A k \in 0..3 : /\ at + 4 * j + k \in Positions
                        /\ at + 4 * j + k < at + 4 * i \/ at + 4 * i + 3 < at + 4 * j + k
    BY <1>4 DEF Positions
  <2>2. \A k \in 0..3 : b2[at + 4 * j + k] = b[at + 4 * j + k]
    BY <2>1, <1>3
  <2>. QED  BY <2>2 DEF FloatAt
<1>5. \A n \in 26..34 : n \in Positions /\ at + 4 * i + 3 < n
  BY DEF Positions
<1>. QED  BY <1>2, <1>3, <1>4, <1>5

\* The integer of a volume is encoded, and the other bytes stay.
LEMMA WholeIsEncoded ==
    ASSUME NEW b \in [Positions -> Char], NEW i \in 0..2, NEW val \in Nat,
           NEW b2, b2 = PutWhole(b, 26 + 3 * i, val)
    PROVE  /\ b2 \in [Positions -> Char]
           /\ WholeAt(b2, 26 + 3 * i) = Low24(val)
           /\ \A j \in 0..2 : j # i => WholeAt(b2, 26 + 3 * j) = WholeAt(b, 26 + 3 * j)
           /\ \A j \in 0..2 : FloatAt(b2, 10 + 4 * j) = FloatAt(b, 10 + 4 * j)
<1>1. 26 + 3 * i \in 0..63
  OBVIOUS
<1>2. b2 \in [Positions -> Char] /\ WholeAt(b2, 26 + 3 * i) = Low24(val)
  BY <1>1, PutsWhole, WholeIsRead
<1>3. \A n \in Positions : n < 26 + 3 * i \/ 26 + 3 * i + 2 < n => b2[n] = b[n]
  BY <1>1, PutsWhole
<1>4. ASSUME NEW j \in 0..2 PROVE FloatAt(b2, 10 + 4 * j) = FloatAt(b, 10 + 4 * j)
  <2>1. \A k \in 0..3 : /\ 10 + 4 * j + k \in Positions
                        /\ 10 + 4 * j + k < 26 + 3 * i \/ 26 + 3 * i + 2 < 10 + 4 * j + k
    BY DEF Positions
  <2>2. \A k \in 0..3 : b2[10 + 4 * j + k] = b[10 + 4 * j + k]
    BY <2>1, <1>3
  <2>. QED  BY <2>2 DEF FloatAt
<1>5. ASSUME NEW j \in 0..2, j # i
      PROVE  WholeAt(b2, 26 + 3 * j) = WholeAt(b, 26 + 3 * j)
  <2>1. \A k \in 0..2 : /\ 26 + 3 * j + k \in Positions
                        /\ 26 + 3 * j + k < 26 + 3 * i \/ 26 + 3 * i + 2 < 26 + 3 * j + k
    BY <1>5 DEF Positions
  <2>2. \A k \in 0..2 : b2[26 + 3 * j + k] = b[26 + 3 * j + k]
    BY <2>1, <1>3
  <2>. QED  BY <2>2 DEF WholeAt
<1>. QED  BY <1>2, <1>4, <1>5

LEMMA AnswerTypes == ASSUME AnswerType, [AnswerNext]_answerVars PROVE AnswerType'
<1> USE RegisterFacts DEF AnswerType
<1>1. Register \in Registers /\ value[Register] \in Numbers
  BY DEF Register
<1>2. CASE UNCHANGED answerVars
  BY <1>2 DEF answerVars, window, thread
<1>3. ASSUME NEW r \in Registers, NEW n \in Numbers, Edit(r, n) PROVE AnswerType'
  BY <1>3 DEF Edit, window, thread
<1>4. CASE CloseWindow
  <2>1. caught' \in [Registers -> SUBSET Numbers]
    BY <1>4 DEF CloseWindow
  <2>. QED  BY <1>4, <2>1 DEF CloseWindow, thread
<1>5. CASE SaveReads
  <2>1. Order[saved + 1] \in Registers
    BY <1>5 DEF SaveReads
  <2>2. value' \in [Registers -> Numbers]
    BY <1>5, <2>1 DEF SaveReads
  <2>. QED  BY <1>5, <2>2 DEF SaveReads, thread
<1>6. CASE Saves
  <2>1. Order[saved + 1] \in Registers
    BY <1>6 DEF Saves
  <2>2. settings' \in [Registers -> Numbers]
    BY <1>6, <2>1 DEF Saves
  <2>. QED  BY <1>6, <2>2 DEF Saves, thread
<1>7. ASSUME NEW c \in {"current_flowrate", "accum_volume"}, Command(c) PROVE AnswerType'
  <2>1. shown' \in [Registers -> SUBSET Numbers]
    BY <1>7 DEF Command
  <2>. QED  BY <1>7, <2>1 DEF Command, window
<1>8. CASE ReadWidget
  BY <1>1, <1>8 DEF ReadWidget, window
<1>9. CASE StoreValue
  <2>1. value' \in [Registers -> Numbers]
    BY <1>1, <1>9 DEF StoreValue
  <2>2. Head66 \in [Positions -> Char]
    BY DEF Head66, Char
  <2>3. [sendbuf EXCEPT ![0] = 1, ![1] = 16] \in [Positions -> Char]
    BY SMTT(30) DEF Positions, Char
  <2>4. sendbuf' \in [Positions -> Char]
    BY <1>9, <2>2, <2>3 DEF StoreValue
  <2>5. apc' \in {"read", "encode"} /\ idx' \in 0..2
    BY <1>9 DEF StoreValue
  <2>. QED  BY <1>9, <2>1, <2>4, <2>5 DEF StoreValue, window
<1>10. ASSUME Encoded, sendbuf' \in [Positions -> Char] PROVE AnswerType'
  <2>1. apc' \in {"encode", "sent"} /\ idx' \in 0..2
    BY <1>10 DEF Encoded
  <2>. QED  BY <1>10, <2>1 DEF Encoded, window
<1>11. CASE EncodeCurrent
  <2>1. value[Register].word \in Word
    BY <1>1, NumberFacts
  <2>2. sendbuf' \in [Positions -> Char]
    BY <1>11, <2>1, FloatIsEncoded DEF EncodeCurrent
  <2>. QED  BY <1>10, <1>11, <2>2 DEF EncodeCurrent
<1>12. CASE EncodeVolume
  <2>1. /\ value[Register].fraction \in Word
        /\ Unsigned(value[Register].whole) \subseteq Nat
    BY <1>1, NumberFacts
  <2>2. PICK b : b = PutWord(sendbuf, 10 + 4 * idx, ieee_to_flo32(value[Register].fraction))
    OBVIOUS
  <2>3. b \in [Positions -> Char]
    BY <2>1, <2>2, FloatIsEncoded
  <2>4. PICK val \in Nat : sendbuf' = PutWhole(b, 26 + 3 * idx, val)
    BY <1>12, <2>1, <2>2 DEF EncodeVolume
  <2>5. sendbuf' \in [Positions -> Char]
    BY <2>3, <2>4, WholeIsEncoded
  <2>. QED  BY <1>10, <1>12, <2>5 DEF EncodeVolume
<1>13. CASE Acknowledged
  BY <1>13 DEF Acknowledged, window
<1>. QED
  BY <1>2, <1>3, <1>4, <1>5, <1>6, <1>7, <1>8, <1>9, <1>11, <1>12, <1>13 DEF AnswerNext

\* What the widgets have shown is kept but when a command comes.
LEMMA ReadStep ==
    ASSUME AnswerType, ReadInv, [AnswerNext]_answerVars
    PROVE  ReadInv'
<1> USE RegisterFacts DEF AnswerType, ReadInv
<1>1. Register \in Registers
  BY DEF Register
<1>2. CASE UNCHANGED answerVars
  BY <1>2 DEF answerVars, window, thread, Register, Stored
<1>3. ASSUME NEW r \in Registers, NEW n \in Numbers, Edit(r, n) PROVE ReadInv'
  <2>1. \A q \in Registers : form'[q] \in shown'[q] /\ shown[q] \subseteq shown'[q]
    BY <1>3 DEF Edit
  <2>2. UNCHANGED <<value, apc, code, idx, text>>
    BY <1>3 DEF Edit, thread
  <2>. QED  BY <1>1, <2>1, <2>2 DEF Register, Stored
<1>4. CASE CloseWindow \/ Saves
  BY <1>4 DEF CloseWindow, Saves, thread, Register, Stored
<1>5. CASE SaveReads
  <2>1. Order[saved + 1] \in Registers /\ UNCHANGED <<form, shown, apc, code, idx, text>>
    BY <1>5 DEF SaveReads, thread
  <2>2. \A q \in Registers : value'[q] = value[q] \/ value'[q] = form[q]
    BY <1>5, <2>1 DEF SaveReads
  <2>. QED  BY <2>1, <2>2 DEF Register, Stored
<1>6. ASSUME NEW c \in {"current_flowrate", "accum_volume"}, Command(c) PROVE ReadInv'
  <2>1. \A q \in Registers : form'[q] \in shown'[q]
    BY <1>6 DEF Command
  <2>. QED  BY <1>6, <2>1 DEF Command, Stored
<1>7. CASE ReadWidget
  BY <1>1, <1>7 DEF ReadWidget, Register, Stored
<1>8. CASE StoreValue
  <2>1. \A q \in Registers : value'[q] = IF q = Register THEN text ELSE value[q]
    BY <1>8 DEF StoreValue
  <2>2. UNCHANGED <<form, shown, code>> /\ apc = "store" /\ apc' # "store"
    BY <1>8 DEF StoreValue
  <2>3. ASSUME NEW i \in 0..2, Stored(i)' PROVE i <= idx
    BY <1>8, <2>3 DEF StoreValue, Stored
  <2>4. ASSUME NEW i \in 0..2, i <= idx PROVE value'[<<code, i>>] \in shown[<<code, i>>]
    <3>1. CASE i = idx
      BY <1>1, <2>1, <2>2, <3>1 DEF Register
    <3>2. CASE i # idx
      <4>1. Stored(i) /\ <<code, i>> # Register /\ <<code, i>> \in Registers
        BY <2>2, <2>4, <3>2 DEF Stored, Register
      <4>. QED  BY <2>1, <4>1
    <3>. QED  BY <3>1, <3>2
  <2>. QED  BY <2>2, <2>3, <2>4
<1>9. CASE EncodeCurrent \/ EncodeVolume
  <2>1. UNCHANGED <<form, value, shown, code>> /\ apc = "encode" /\ apc' # "store"
    BY <1>9 DEF EncodeCurrent, EncodeVolume, Encoded
  <2>. QED  BY <2>1 DEF Stored
<1>10. CASE Acknowledged
  BY <1>10 DEF Acknowledged, Stored
<1>. QED
  BY <1>2, <1>3, <1>4, <1>5, <1>6, <1>7, <1>8, <1>9, <1>10 DEF AnswerNext

\* What has been encoded stands for a number shown since the command came; the next
\* register is, too, from the value ReadInv is about.
LEMMA EncodeStep ==
    ASSUME AnswerType, ReadInv, EncodeInv, [AnswerNext]_answerVars
    PROVE  EncodeInv'
<1> USE RegisterFacts DEF AnswerType
<1>1. ASSUME ~(apc' \in {"encode", "sent"}) \/ (apc' = "encode" /\ idx' = 0)
      PROVE  EncodeInv'
  BY <1>1 DEF EncodeInv, Sending
<1>2. ASSUME UNCHANGED <<apc, code, idx, sendbuf>>,
             \A r \in Registers : shown[r] \subseteq shown'[r]
      PROVE  EncodeInv'
  BY <1>2 DEF EncodeInv, Sending
<1>3. ASSUME NEW r \in Registers, NEW n \in Numbers, Edit(r, n) PROVE EncodeInv'
  <2>1. \A q \in Registers : shown[q] \subseteq shown'[q]
    BY <1>3 DEF Edit
  <2>2. UNCHANGED <<apc, code, idx, sendbuf>>
    BY <1>3 DEF Edit, thread
  <2>. QED  BY <1>2, <2>1, <2>2
<1>4. CASE CloseWindow \/ SaveReads \/ Saves \/ UNCHANGED answerVars
  <2>1. UNCHANGED <<apc, code, idx, sendbuf, shown>>
    BY <1>4 DEF CloseWindow, SaveReads, Saves, answerVars, thread
  <2>. QED  BY <1>2, <2>1
<1>5. CASE ReadWidget \/ StoreValue \/ Acknowledged
           \/ \E c \in {"current_flowrate", "accum_volume"} : Command(c)
  <2>1. ~(apc' \in {"encode", "sent"}) \/ (apc' = "encode" /\ idx' = 0)
    BY <1>5 DEF ReadWidget, StoreValue, Acknowledged, Command
  <2>. QED  BY <1>1, <2>1
<1>6. ASSUME apc = "encode", Encoded,
             Says(sendbuf', code, idx, value[Register]),
             \A i \in 0..2, n \in Numbers :
                i # idx /\ Says(sendbuf, code, i, n) => Says(sendbuf', code, i, n)
      PROVE  EncodeInv'
  <2>1. UNCHANGED <<code, shown>>
    BY <1>6 DEF Encoded
  <2>2. value[Register] \in shown[Register]
    BY <1>6 DEF ReadInv, Stored, Register
  <2>3. ASSUME NEW i \in 0..2, Sending(i)'
        PROVE  \E n \in shown[<<code, i>>] : Says(sendbuf', code, i, n)
    <3>1. i = idx \/ i < idx
      BY <1>6, <2>3 DEF Sending, Encoded
    <3>2. CASE i = idx
      BY <1>6, <2>2, <3>2 DEF Register
    <3>3. CASE i < idx
      <4>1. PICK n \in shown[<<code, i>>] : Says(sendbuf, code, i, n)
        BY <1>6, <3>3 DEF EncodeInv, Sending
      <4>2. n \in Numbers /\ i # idx
        BY <3>3
      <4>. QED  BY <1>6, <4>1, <4>2
    <3>. QED  BY <3>1, <3>2, <3>3
  <2>. QED  BY <2>1, <2>3 DEF EncodeInv
<1>7. Register \in Registers /\ value[Register] \in Numbers
  BY DEF Register
<1>8. CASE EncodeCurrent
  <2>1. /\ code = "current_flowrate" /\ value[Register].word \in Word
        /\ sendbuf' = PutWord(sendbuf, 2 + 4 * idx, ieee_to_flo32(value[Register].word))
        /\ Encoded /\ apc = "encode"
    BY <1>7, <1>8, NumberFacts DEF EncodeCurrent, Encoded
  <2>2. /\ FloatAt(sendbuf', 2 + 4 * idx) = Float(value[Register].word)
        /\ \A j \in 0..2 : j # idx =>
              FloatAt(sendbuf', 2 + 4 * j) = FloatAt(sendbuf, 2 + 4 * j)
    BY <2>1, FloatIsEncoded
  <2>3. \A b, i, n : Says(b, code, i, n) <=> FloatAt(b, 2 + 4 * i) = Float(n.word)
    BY <2>1 DEF Says
  <2>. QED  BY <1>6, <2>1, <2>2, <2>3
<1>9. CASE EncodeVolume
  <2>1. PICK w \in Numbers : w = value[Register]
    BY <1>7
  <2>2. PICK val \in Unsigned(w.whole) :
           sendbuf' = PutWhole(PutWord(sendbuf, 10 + 4 * idx, ieee_to_flo32(w.fraction)),
                               26 + 3 * idx, val)
    BY <1>9, <2>1 DEF EncodeVolume
  <2>3. /\ code = "accum_volume" /\ Encoded /\ apc = "encode"
        /\ w.fraction \in Word /\ val \in Nat
        /\ w.whole \in 0..UIntMax => val = w.whole
    BY <1>9, <2>2, NumberFacts DEF EncodeVolume, Encoded
  <2>4. PICK b : b = PutWord(sendbuf, 10 + 4 * idx, ieee_to_flo32(w.fraction))
    OBVIOUS
  <2>5. /\ b \in [Positions -> Char]
        /\ FloatAt(b, 10 + 4 * idx) = Float(w.fraction)
        /\ \A j \in 0..2 : j # idx =>
              FloatAt(b, 10 + 4 * j) = FloatAt(sendbuf, 10 + 4 * j)
        /\ \A n \in 26..34 : b[n] = sendbuf[n]
    BY <2>3, <2>4, FloatIsEncoded
  <2>6. /\ WholeAt(sendbuf', 26 + 3 * idx) = Low24(val)
        /\ \A j \in 0..2 : j # idx => WholeAt(sendbuf', 26 + 3 * j) = WholeAt(b, 26 + 3 * j)
        /\ \A j \in 0..2 : FloatAt(sendbuf', 10 + 4 * j) = FloatAt(b, 10 + 4 * j)
    BY <2>2, <2>3, <2>4, <2>5, WholeIsEncoded
  <2>7. \A j \in 0..2 : WholeAt(b, 26 + 3 * j) = WholeAt(sendbuf, 26 + 3 * j)
    <3>1. \A j \in 0..2 : /\ 26 + 3 * j \in 26..34 /\ 26 + 3 * j + 1 \in 26..34
                          /\ 26 + 3 * j + 2 \in 26..34
      OBVIOUS
    <3>. QED  BY <2>5, <3>1 DEF WholeAt
  <2>8. \A c, i, n : Says(c, code, i, n) <=>
          /\ FloatAt(c, 10 + 4 * i) = Float(n.fraction)
          /\ n.whole \in 0..UIntMax => WholeAt(c, 26 + 3 * i) = Low24(n.whole)
    BY <2>3 DEF Says
  <2>9. Says(sendbuf', code, idx, w)
    BY <2>3, <2>5, <2>6, <2>8
  <2>10. ASSUME NEW i \in 0..2, NEW n \in Numbers, i # idx, Says(sendbuf, code, i, n)
         PROVE  Says(sendbuf', code, i, n)
    BY <2>5, <2>6, <2>7, <2>8, <2>10
  <2>. QED  BY <1>6, <2>1, <2>3, <2>9, <2>10
<1>. QED
  BY <1>3, <1>4, <1>5, <1>8, <1>9 DEF AnswerNext

\* The thread may store over what saveState has read, but only what may be saved.
LEMMA SaveStep ==
    ASSUME AnswerType, SaveInv, [AnswerNext]_answerVars
    PROVE  SaveInv'
<1> USE RegisterFacts DEF AnswerType
<1>1. Register \in Registers
  BY DEF Register
<1>2. ASSUME gpc' = "events" PROVE SaveInv'
  BY <1>2 DEF SaveInv
<1>3. ASSUME UNCHANGED <<form, value, gpc, saved, settings, caught>>,
             gpc # "events" /\ apc' = "store" => text' \in Kept(Register)'
      PROVE  SaveInv'
  BY <1>3 DEF SaveInv, Kept
<1>4. ASSUME NEW r \in Registers, NEW n \in Numbers, Edit(r, n) PROVE SaveInv'
  BY <1>2, <1>4 DEF Edit, window
<1>5. CASE CloseWindow
  <2>1. gpc' = "reading" /\ saved' = 0 /\ UNCHANGED <<apc, code, idx, text, form>>
    BY <1>5 DEF CloseWindow, thread
  <2>2. apc = "store" => text \in caught'[Register]
    BY <1>1, <1>5 DEF CloseWindow
  <2>3. Register' = Register
    BY <2>1 DEF Register
  <2>. QED  BY <2>1, <2>2, <2>3 DEF SaveInv, Kept
<1>6. CASE SaveReads
  <2>1. /\ gpc = "reading" /\ UNCHANGED <<form, caught, apc, code, idx, text>>
        /\ IF saved = 5 THEN gpc' = "saving" /\ saved' = 0
                        ELSE saved' = saved + 1 /\ gpc' = "reading"
    BY <1>6 DEF SaveReads, thread
  <2>2. \A n \in 1..6 : value'[Order[n]] =
          IF Order[n] = Order[saved + 1] THEN form[Order[n]] ELSE value[Order[n]]
    BY <1>6 DEF SaveReads
  <2>3. ASSUME NEW n \in 1..6, n <= saved + 1 PROVE value'[Order[n]] \in Kept(Order[n])
    <3>1. CASE n = saved + 1
      BY <2>2, <3>1 DEF Kept
    <3>2. CASE n # saved + 1
      BY <2>1, <2>2, <2>3, <3>2 DEF SaveInv, Kept
    <3>. QED  BY <3>1, <3>2
  <2>4. \A r : Kept(r)' = Kept(r)
    BY <2>1 DEF Kept
  <2>5. Register' = Register
    BY <2>1 DEF Register
  <2>6. apc' = "store" => text' \in Kept(Register)
    BY <2>1 DEF SaveInv
  <2>7. ASSUME NEW n \in 1..6, gpc' = "saving" \/ n <= saved'
        PROVE  value'[Order[n]] \in Kept(Order[n])
    BY <2>1, <2>3, <2>7
  <2>8. gpc' # "closed" /\ (gpc' = "saving" => saved' = 0)
    BY <2>1
  <2>. QED  BY <2>4, <2>5, <2>6, <2>7, <2>8 DEF SaveInv
<1>7. CASE Saves
  <2>1. /\ gpc = "saving" /\ UNCHANGED <<form, value, caught, apc, code, idx, text>>
        /\ saved' = saved + 1 /\ gpc' = IF saved = 5 THEN "closed" ELSE gpc
    BY <1>7 DEF Saves, thread
  <2>2. \A n \in 1..6 : settings'[Order[n]] =
          IF Order[n] = Order[saved + 1] THEN value[Order[n]] ELSE settings[Order[n]]
    BY <1>7 DEF Saves
  <2>3. \A n \in 1..6 : value[Order[n]] \in Kept(Order[n])
    BY <2>1 DEF SaveInv
  <2>4. ASSUME NEW n \in 1..6, n <= saved + 1 PROVE settings'[Order[n]] \in Kept(Order[n])
    <3>1. CASE n = saved + 1
      BY <2>2, <2>3, <3>1
    <3>2. CASE n # saved + 1
      BY <2>1, <2>2, <2>3, <2>4, <3>2 DEF SaveInv
    <3>. QED  BY <3>1, <3>2
  <2>5. \A r : Kept(r)' = Kept(r)
    BY <2>1 DEF Kept
  <2>6. Register' = Register
    BY <2>1 DEF Register
  <2>7. apc' = "store" => text' \in Kept(Register)
    BY <2>1 DEF SaveInv
  <2>8. ASSUME NEW n \in 1..6, gpc' = "closed" \/ n <= saved'
        PROVE  settings'[Order[n]] \in Kept(Order[n])
    BY <2>1, <2>4, <2>8
  <2>. QED  BY <2>1, <2>3, <2>5, <2>6, <2>7, <2>8 DEF SaveInv
<1>8. CASE \E c \in {"current_flowrate", "accum_volume"} : Command(c)
  BY <1>3, <1>8 DEF Command, window
<1>9. CASE ReadWidget
  <2>1. text' = form[Register] /\ Register' = Register /\ UNCHANGED <<form, caught>>
    BY <1>9 DEF ReadWidget, Register, window
  <2>. QED  BY <1>3, <1>9, <2>1 DEF ReadWidget, Kept, window
<1>10. CASE StoreValue
  <2>1. /\ UNCHANGED <<form, gpc, saved, settings, caught>>
        /\ apc = "store" /\ apc' # "store"
    BY <1>10 DEF StoreValue, window
  <2>2. \A r \in Registers : value'[r] = IF r = Register THEN text ELSE value[r]
    BY <1>10 DEF StoreValue
  <2>3. gpc # "events" => text \in Kept(Register)
    BY <2>1 DEF SaveInv
  <2>4. \A n \in 1..6 : Order[n] = Register => Kept(Order[n]) = Kept(Register)
    OBVIOUS
  <2>5. ASSUME NEW n \in 1..6, gpc # "events", value[Order[n]] \in Kept(Order[n])
        PROVE  value'[Order[n]] \in Kept(Order[n])
    BY <2>2, <2>3, <2>4, <2>5
  <2>6. \A r : Kept(r)' = Kept(r)
    BY <2>1 DEF Kept
  <2>. QED  BY <2>1, <2>5, <2>6 DEF SaveInv
<1>11. CASE EncodeCurrent \/ EncodeVolume \/ Acknowledged
  <2>1. apc' # "store" /\ UNCHANGED <<form, value, window>>
    BY <1>11 DEF EncodeCurrent, EncodeVolume, Encoded, Acknowledged
  <2>. QED  BY <1>3, <2>1 DEF window
<1>12. CASE UNCHANGED answerVars
  BY <1>12 DEF SaveInv, answerVars, window, thread, Kept, Register
<1>. QED
  BY <1>4, <1>5, <1>6, <1>7, <1>8, <1>9, <1>10, <1>11, <1>12 DEF AnswerNext

LEMMA AnswerStarts == AnswerInit => AnswerInv
<1> SUFFICES ASSUME AnswerInit PROVE AnswerInv
  OBVIOUS
<1> USE DEF AnswerInit
<1>1. AnswerType
  <2>1. form \in [Registers -> Numbers] /\ value \in [Registers -> Numbers]
        /\ sendbuf \in [Positions -> Char]
    BY NumbersAssumption
  <2>2. Register \in Registers
    BY RegisterFacts DEF Register
  <2>3. /\ shown \in [Registers -> SUBSET Numbers]
        /\ caught \in [Registers -> SUBSET Numbers]
    BY <2>1
  <2>. QED  BY <2>1, <2>2, <2>3 DEF AnswerType
<1>2. ReadInv
  BY DEF ReadInv, Stored
<1>3. EncodeInv
  BY DEF EncodeInv, Sending
<1>4. SaveInv
  BY DEF SaveInv
<1>. QED  BY <1>1, <1>2, <1>3, <1>4 DEF AnswerInv

LEMMA AnswerInvariant == AnswerSpec => []AnswerInv
<1>1. AnswerInv /\ [AnswerNext]_answerVars => AnswerInv'
  BY AnswerTypes, ReadStep, EncodeStep, SaveStep DEF AnswerInv
<1>. QED  BY <1>1, AnswerStarts, PTL DEF AnswerSpec

\* Whatever six numbers a form shows, however often and whenever the user edits them
\* and whether or not the window closes meanwhile, each number of an answer is one its
\* widget has shown since the command came, and a master reads that number.
THEOREM NumbersAreRecent == AnswerSpec => []AnswersAreRecent
<1>1. AnswerInv => AnswersAreRecent
  BY DEF AnswerInv, EncodeInv, Sending, AnswersAreRecent
<1>. QED  BY <1>1, AnswerInvariant, PTL

\* Whatever the thread stores while saveState runs, each number saved is the one the
\* form shows, or the one the thread had just read there.
THEOREM SavedNumbersAreShown == AnswerSpec => []SavedIsShown
<1>1. AnswerInv => SavedIsShown
  BY DEF AnswerInv, SaveInv, Kept, SavedIsShown
<1>. QED  BY <1>1, AnswerInvariant, PTL

=============================================================================
