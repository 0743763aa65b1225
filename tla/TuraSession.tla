---------------------------- MODULE TuraSession ----------------------------
(***************************************************************************)
(* An emulated Tura flow meter (DeviceTura/DeviceTura.cpp): its thread     *)
(* opens the serial port, waits for a master to name it, and answers the   *)
(* master's commands until the session ends, while the user starts and     *)
(* stops the device (DeviceWidget.cpp).  Masters are of two kinds: those   *)
(* that send and pause as they like, and patient ones, which do not pause  *)
(* inside a frame, and send the next when the reads of the last have       *)
(* returned.                                                               *)
(***************************************************************************)
EXTENDS Naturals, Sequences

CONSTANTS
    Byte,      \* bytes that appear on the line
    Mark,      \* 0x12, the first byte of a request
    Ok,        \* 0x01, an acknowledgement
    Current, Accumulate,  \* the codes processSession knows
    Name,      \* _dev_name, eight bytes
    Frames,    \* what masters send
    MaxLine,   \* bound: bytes waiting in the input queue
    MaxSent,   \* bound: frames sent by patient masters
    AnySent    \* bound: frames sent by the others

ASSUME FrameAssumption ==
    /\ {Mark, Ok, Current, Accumulate} \subseteq Byte
    /\ Name \in Seq(Byte) /\ Frames \subseteq Seq(Byte)
    /\ {MaxLine, MaxSent, AnySent} \subseteq Nat

\* The protocol of the masters: no frame is longer than the one that carries
\* the name, only a command carries the code of one that is answered, and
\* only an acknowledgement carries Ok.
ASSUME ProtocolAssumption ==
    /\ Len(Name) > 0
    /\ \A f \in Frames :
          /\ Len(f) <= 2 + Len(Name)
          /\ \A n \in DOMAIN f :
                /\ f[n] \in {Current, Accumulate} => Len(f) = 2 /\ f[1] = Mark
                /\ f[n] = Ok => f = <<Ok>>

VARIABLES
    patient,   \* the kind of the masters, chosen once
    upc,       \* GUI thread: "events", or "wait" in QThread::wait
    inWork,    \* DeviceWidget::in_work
    abort,     \* DeviceTura::_abort
    tpc,       \* the thread of the device; "off" when it does not run
    port,      \* the program holds an open handle on the port
    lost,      \* history: an Open reported an error and left its port open
    buf,       \* what the serialRead in progress has read
    stat,      \* _io_stat: bytes received, sessions
    line,      \* bytes received by the port and not yet read
    out,       \* bytes of the current frame the master has still to send
    frame,     \* the frame that is being sent
    intact,    \* no byte of it has been lost
    sent,      \* frames begun so far
    listening, \* history: the thread waited for a name when frame was begun,
               \* and has neither answered nor stopped since
    past       \* history: bytes taken from the line, names acknowledged

gui    == <<upc, inWork>>
handle == <<port, lost>>
master == <<patient, out, frame, intact, sent>>
vars   == <<gui, abort, tpc, handle, buf, stat, line, master, listening, past>>

-----------------------------------------------------------------------------
\* The serialRead calls, with the number of bytes each asks for.
Reading == {"mark", "addr", "name", "cmark", "code", "ack"}
Want    == IF tpc = "name" THEN Len(Name) ELSE 1
\* Between a name and the end of its session.
InSession == tpc \in {"cmd", "cmark", "code", "answer", "ack", "ended"}

Init ==
    /\ patient \in BOOLEAN
    /\ upc = "events" /\ inWork = FALSE
    /\ abort = FALSE /\ tpc = "off" /\ port = FALSE /\ lost = FALSE
    /\ buf = <<>> /\ stat = [rx |-> 0, sessions |-> 0]
    /\ line = <<>>
    /\ out = <<>> /\ frame = <<>> /\ intact = TRUE /\ sent = 0
    /\ listening = FALSE
    /\ past = [rx |-> 0, names |-> 0]

-----------------------------------------------------------------------------
(* The GUI thread. *)

\* startPoll: switchOn starts the thread and the window says "working",
\* whatever comes of it.
ClickStart ==
    /\ upc = "events" /\ ~inWork
    /\ IF tpc # "off" THEN UNCHANGED <<abort, tpc>>
       ELSE abort' = FALSE /\ tpc' = "setup"
    /\ inWork' = TRUE
    /\ UNCHANGED <<upc, handle, buf, stat, line, master, listening, past>>

\* Fault: switchOff does not wait.
Fault_ClickStop ==
    /\ upc = "events" /\ inWork
    /\ inWork' = FALSE
    /\ IF tpc = "off" THEN UNCHANGED abort ELSE abort' = TRUE
    /\ UNCHANGED <<upc, tpc, handle, buf, stat, line, master, listening, past>>

\* stopPoll, also when the tab is closed or the device destroyed: switchOff
\* waits for the thread, unless it has ended (or never opened its port).
ClickStop ==
    /\ upc = "events" /\ inWork
    /\ IF tpc = "off"
       THEN inWork' = FALSE /\ UNCHANGED <<upc, abort>>
       ELSE abort' = TRUE /\ upc' = "wait" /\ UNCHANGED inWork
    /\ UNCHANGED <<tpc, handle, buf, stat, line, master, listening, past>>

\* QThread::wait returns.
Stopped ==
    /\ upc = "wait" /\ tpc = "off"
    /\ upc' = "events" /\ inWork' = FALSE
    /\ UNCHANGED <<abort, tpc, handle, buf, stat, line, master, listening, past>>

-----------------------------------------------------------------------------
(* The thread of the device. *)

\* Steps that do not read.
Internal(pc) ==
    /\ tpc' = pc
    /\ UNCHANGED <<gui, abort, buf, master>>

\* CreateFile shares the port with nobody, an earlier handle of this program
\* included.
OpenPort ==
    /\ tpc = "setup" /\ ~port
    /\ port' = TRUE
    /\ Internal("scan")
    /\ UNCHANGED <<lost, stat, line, listening, past>>

\* The thread ends, without Close or delete; the window is not told.  Open
\* closes the port of most of its failures, but the error of its last step,
\* SetupReadTimeouts, is returned with the port open.
OpenFails ==
    /\ tpc = "setup"
    /\ Internal("off")
    /\ \/ UNCHANGED handle
       \/ ~port /\ port' = TRUE /\ lost' = TRUE
    /\ UNCHANGED <<stat, line, listening, past>>

\* Fault: the input queue is purged before each wait for a request.
Fault_Scan ==
    /\ tpc = "scan"
    /\ Internal(IF abort THEN "finish" ELSE "mark")
    /\ line' = <<>>
    /\ UNCHANGED <<handle, stat, listening, past>>

\* The heads of the loops of run and of processSession.
Scan ==
    /\ tpc = "scan"
    /\ Internal(IF abort THEN "finish" ELSE "mark")
    /\ UNCHANGED <<handle, stat, line, listening, past>>

\* Fault: a session does not look at the flag.
Fault_NextCommand ==
    /\ tpc = "cmd"
    /\ Internal("cmark")
    /\ UNCHANGED <<handle, stat, line, listening, past>>

NextCommand ==
    /\ tpc = "cmd"
    /\ Internal(IF abort THEN "ended" ELSE "cmark")
    /\ UNCHANGED <<handle, stat, line, listening, past>>

\* Fault: the buffer is looked at, not how many bytes were read: the name and
\* the acknowledgement of an earlier session are still in it.
Fault_After(b) ==
    CASE tpc = "mark"  -> IF b = <<Mark>> THEN "addr" ELSE "scan"
      [] tpc = "addr"  -> IF b # <<>> THEN "name" ELSE "scan"
      [] tpc = "name"  -> IF b = SubSeq(Name, 1, Len(b)) THEN "greet" ELSE "scan"
      [] tpc = "cmark" -> IF b = <<Mark>> THEN "code" ELSE "cmd"
      [] tpc = "code"  -> IF b = <<>> THEN "cmd"
                          ELSE IF b[1] \in {Current, Accumulate} THEN "answer"
                          ELSE "ended"
      [] tpc = "ack"   -> IF b \in {<<Ok>>, <<>>} THEN "cmd" ELSE "ended"

\* What the thread does with the bytes b that a serialRead returned.
After(b) ==
    CASE tpc = "mark"  -> IF b = <<Mark>> THEN "addr" ELSE "scan"
      [] tpc = "addr"  -> IF b # <<>> THEN "name" ELSE "scan"
      [] tpc = "name"  -> IF b = Name THEN "greet" ELSE "scan"
      [] tpc = "cmark" -> IF b = <<Mark>> THEN "code" ELSE "cmd"
      [] tpc = "code"  -> IF b = <<>> THEN "cmd"
                          ELSE IF b[1] \in {Current, Accumulate} THEN "answer"
                          ELSE "ended"
      [] tpc = "ack"   -> IF b = <<Ok>> THEN "cmd" ELSE "ended"

\* serialRead returns b.  The code byte stays in buf for the answer.
Return(b) ==
    /\ tpc' = After(b)
    /\ buf' = IF tpc' = "answer" THEN b ELSE <<>>
    /\ stat' = [stat EXCEPT !.rx = @ + Len(b)]

ReadByte ==
    /\ tpc \in Reading /\ line # <<>>
    /\ line' = Tail(line)
    /\ past' = [past EXCEPT !.rx = @ + 1]
    /\ LET b == Append(buf, Head(line))
       IN  IF Len(b) = Want THEN Return(b)
           ELSE buf' = b /\ UNCHANGED <<tpc, stat>>
    /\ UNCHANGED <<gui, abort, handle, master, listening>>

\* Too few bytes came in time; those that did are gone.
ReadTimeOut ==
    /\ tpc \in Reading /\ line = <<>> /\ (patient => out = <<>>)
    /\ Return(buf)
    /\ UNCHANGED <<gui, abort, handle, line, master, listening, past>>

\* The name is acknowledged and the session begins.
Greet ==
    /\ tpc = "greet"
    /\ Internal("cmd")
    /\ listening' = FALSE
    /\ past' = [past EXCEPT !.names = @ + 1]
    /\ UNCHANGED <<handle, stat, line>>

\* The three numbers of the command are read from their widgets and sent.
Answer ==
    /\ tpc = "answer"
    /\ tpc' = "ack" /\ buf' = <<>>
    /\ UNCHANGED <<gui, abort, handle, stat, line, master, listening, past>>

\* processSession has returned, for whatever reason.
SessionEnds ==
    /\ tpc = "ended"
    /\ Internal("scan")
    /\ stat' = [stat EXCEPT !.sessions = @ + 1]
    /\ UNCHANGED <<handle, line, listening, past>>

\* Closing the port drops what it has received.
Finish ==
    /\ tpc = "finish"
    /\ Internal("off")
    /\ port' = FALSE /\ line' = <<>>
    /\ listening' = FALSE
    /\ UNCHANGED <<lost, stat, past>>

Work == \/ OpenPort \/ OpenFails \/ Scan \/ NextCommand \/ ReadByte
        \/ Greet \/ Answer \/ SessionEnds \/ Finish
Thread == Work \/ ReadTimeOut

-----------------------------------------------------------------------------
(* The line and the master. *)

Device == <<gui, abort, tpc, handle, buf, stat, past>>

\* The thread is between two reads of a frame, or waits for its first byte.
Waiting == tpc \in {"off", "scan", "mark", "cmd", "cmark", "ack"}

Send(f) ==
    /\ out = <<>> /\ sent < (IF patient THEN MaxSent ELSE AnySent)
    /\ patient => line = <<>> /\ buf = <<>> /\ Waiting
    /\ out' = f /\ frame' = f /\ intact' = TRUE
    /\ sent' = sent + 1
    /\ listening' = (tpc \in {"scan", "mark"} /\ ~abort)
    /\ UNCHANGED <<Device, patient, line>>

\* A port that is not open receives nothing.
Transmit ==
    /\ out # <<>> /\ Len(line) < MaxLine
    /\ out' = Tail(out)
    /\ line' = IF port THEN Append(line, Head(out)) ELSE line
    /\ intact' = (intact /\ port)
    /\ UNCHANGED <<Device, patient, frame, sent, listening>>

Lose ==
    /\ out # <<>>
    /\ out' = Tail(out) /\ intact' = FALSE
    /\ UNCHANGED <<Device, patient, line, frame, sent, listening>>

Gui  == ClickStart \/ ClickStop \/ Stopped
Next == Gui \/ Thread \/ Transmit \/ Lose \/ \E f \in Frames : Send(f)

Spec == Init /\ [][Next]_vars

\* Both threads run and bytes that were sent arrive.  Nothing promises a click
\* or a frame.
Fairness == WF_vars(Thread) /\ WF_vars(Stopped) /\ WF_vars(Transmit)

FairSpec == Spec /\ Fairness

-----------------------------------------------------------------------------
(* Properties. *)

\* The device, the line and the master have their types; no counter is negative
\* (_io_stat).
TypeOK ==
    /\ patient \in BOOLEAN
    /\ upc \in {"events", "wait"} /\ inWork \in BOOLEAN /\ abort \in BOOLEAN
    /\ tpc \in Reading \cup {"off", "setup", "scan", "greet", "cmd", "answer",
                            "ended", "finish"}
    /\ port \in BOOLEAN /\ lost \in BOOLEAN
    /\ buf \in Seq(Byte) /\ line \in Seq(Byte) /\ out \in Seq(Byte)
    /\ stat \in [rx : Nat, sessions : Nat] /\ past \in [rx : Nat, names : Nat]
    /\ frame \in Frames \cup {<<>>} /\ intact \in BOOLEAN
    /\ sent \in Nat /\ listening \in BOOLEAN

\* When the window says that the device is stopped its thread has ended, and
\* its port is closed, so that another device may open it, unless an Open once
\* failed with the port open: then the device never works again.  The thread
\* of a device that is being used is never told to stop by an earlier Stop.
StoppedIsQuiet ==
    /\ upc = "events" /\ ~inWork => tpc = "off" /\ (port <=> lost)
    /\ tpc # "off" /\ abort => upc = "wait"
    /\ port <=> lost \/ tpc \notin {"off", "setup"}
    /\ lost => tpc \in {"off", "setup"}

\* The statistics of the window: every session a name has opened is counted
\* once, however it ended, and every byte taken from the line is counted.
StatisticsAgree ==
    /\ past.names = stat.sessions + (IF InSession THEN 1 ELSE 0)
    /\ past.rx = stat.rx + (IF tpc \in Reading THEN Len(buf) ELSE 0)

\* The frame names this device; the second byte may be any.
Names(f) == Len(f) = 2 + Len(Name) /\ f[1] = Mark /\ SubSeq(f, 3, Len(f)) = Name

WholeFrameStep ==
    /\ tpc = "name" /\ tpc' = "greet" => intact /\ Names(frame)
    /\ tpc = "code" /\ tpc' = "answer" => intact /\ frame = <<Mark, buf'[1]>>
    /\ tpc = "ack" /\ tpc' = "cmd" => intact /\ frame = <<Ok>>

\* With a patient master nothing is made of a frame that lost a byte, nor of
\* what an earlier read left in the buffer (processSession): a session begins
\* with a whole name, an answer follows the whole command, and the session
\* goes on only after an acknowledgement.
PatientWholeFrames == [][patient => WholeFrameStep]_vars

\* The switch of the device as its window has it; a master is served in a session.
SwitchState ==
    CASE upc = "wait"               -> "stopping"
      [] upc = "events" /\ inWork   -> "on"
      [] upc = "events" /\ ~inWork  -> "off"

Switch == INSTANCE DeviceSwitch WITH
    Devices <- {Name},
    switch  <- [d \in {Name} |-> SwitchState],
    serving <- {d \in {Name} : InSession}

\* Start and Stop do what they promise (DeviceSwitch): a session begins only
\* after a start, and has ended when the stop returns, also if it began after
\* Stop was pressed (switchOn, switchOff, run).
SwitchesAsPromised == Switch!SSpec

\* A press of Stop returns, whatever the thread is doing with the frames the
\* masters send, which are finitely many (switchOff).
StopReturns == upc = "wait" ~> upc = "events"

\* With a patient master a name that was sent whole while the device waited for
\* one is acknowledged, unless the user stops the device first.
PatientAnswered ==
    (patient /\ Names(frame) /\ out = <<>> /\ intact /\ listening)
        ~> ~listening

=============================================================================
