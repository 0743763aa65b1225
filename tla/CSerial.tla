------------------------------ MODULE CSerial ------------------------------
(***************************************************************************)
(* CSerial (Serial/Serial.cpp): one object on one serial port, its client  *)
(* calling any method in any order.  Every call of the operating system    *)
(* may fail.  A method is one action, except Read, Write and WaitEvent,    *)
(* which start an operation of the driver and block while the line goes    *)
(* on.  Another program may open the same port whenever it is closed.  A   *)
(* caller's own OVERLAPPED is left out (CSerialEx has it for WaitEvent).   *)
(***************************************************************************)
EXTENDS Integers, Sequences

CONSTANTS Formats,         \* the [baud, bits, parity, stop] clients ask for
          DefaultFormat,   \* what GetDefaultCommConfig has for the port
          EventChars,      \* characters given to SetEventChar
          DefaultChar,     \* the event character of the default settings
          Masks,           \* event masks given to SetMask
          ReadSizes,       \* numbers of bytes asked of Read
          QueueSize,       \* bytes the driver keeps
          MaxBytes         \* bound: bytes that arrive while the port is open

ASSUME SizesAssumption == /\ QueueSize \in Nat \ {0} /\ MaxBytes \in Nat
                          /\ ReadSizes \subseteq Nat \ {0}

ASSUME FormatsAssumption ==
  \A f \in Formats \cup {DefaultFormat} :
    f = [baud |-> f.baud, bits |-> f.bits, parity |-> f.parity, stop |-> f.stop]

VARIABLES m_hFile,           \* the port is open (the handle is not 0)
          m_hevtOverlapped,  \* so is the event of internal operations
          m_lLastError,      \* the last error, which most methods return
          m_eEvent,          \* the events of the last WaitCommEvent
          m_dwEventMask,     \* the mask of the last successful SetMask
          handles,           \* kernel handles the process has open, by kind
          dcb,               \* the driver's DCB; it outlives an open port
          timeouts,          \* the driver's COMMTIMEOUTS, which do too
          mask, history,     \* its event mask, and events not yet waited for
          queue,             \* its input queue: the numbers of the bytes
          swallow,           \* bytes an abandoned read will still take
          other,             \* another program has the port open
          call,              \* the blocking call in progress
          asked,             \* history: what the client has been told is set
          arrived, taken,    \* history: bytes on the line, bytes returned
          excused            \* history: a loss the interface allows for

object == <<m_hFile, m_hevtOverlapped, m_lLastError, m_eEvent, m_dwEventMask>>
settings == <<dcb, timeouts>>
input == <<mask, history, queue, swallow>>
ghosts == <<asked, arrived, taken, excused>>
vars == <<object, handles, settings, input, other, call, ghosts>>

----------------------------------------------------------------------------
Success == "ERROR_SUCCESS"
Failed == "error of the system call"

Recv == "EEventRecv"
RcvEv == "EEventRcvEv"
Err == "EEventError"
DefaultMask == {Err, Recv}

Handshakes == {"off", "hardware", "software"}

\* SetupHandshaking's flags for a mode: the lines that hold output back,
\* DTR and RTS, and XON/XOFF in both directions.
HandshakeFlags(mode) ==
  [outFlow |-> mode = "hardware",
   dtr |-> IF mode = "hardware" THEN "handshake" ELSE "disable",
   rts |-> IF mode = "hardware" THEN "handshake" ELSE "disable",
   outX |-> mode = "software", inX |-> mode = "software"]

DefaultFlags == [outFlow |-> FALSE, dtr |-> "enable", rts |-> "enable",
                 outX |-> FALSE, inX |-> FALSE]

\* The line settings of a DCB for a format, with the flag for parity.
WithFormat(d, f) == [d EXCEPT !.format = f, !.fParity = f.parity # "none"]

\* A plausible slip: software handshaking leaves DTR and RTS as they were.
Fault_WithHandshake(d, mode) ==
  [d EXCEPT !.flags = IF mode = "software" THEN [@ EXCEPT !.outX = TRUE, !.inX = TRUE]
                      ELSE HandshakeFlags(mode)]

WithHandshake(d, mode) == [d EXCEPT !.flags = HandshakeFlags(mode)]

DefaultDcb ==
  WithFormat([format |-> DefaultFormat, fParity |-> FALSE,
              flags |-> DefaultFlags, evtChar |-> DefaultChar], DefaultFormat)

Blocking == "blocking"
Nonblocking == "non-blocking"
OtherTimeouts == "other"   \* those of another program, or of the driver

NoCall == [op |-> "none"]
Idle == call = NoCall

\* What GetBaudrate, GetDataBits, GetParity and GetStopBits return when
\* GetCommState succeeds, in one record.
GetFormat ==
  [dcb.format EXCEPT !.parity = IF dcb.fParity THEN @ ELSE "none"]

GetHandshaking ==
  CASE dcb.flags.dtr = "handshake" /\ dcb.flags.rts = "handshake" -> "hardware"
    [] dcb.flags.outX /\ dcb.flags.inX -> "software"
    [] OTHER -> "off"

GetEventChar == dcb.evtChar

----------------------------------------------------------------------------
\* A part of asked holds the value the client was told it was set to, and
\* beside it those that calls which failed since may have set; or it is empty,
\* and the client knows nothing.
NothingAsked == [format |-> {}, handshake |-> {}, char |-> {},
                 reads |-> {}, mask |-> {}]

Init ==
  /\ m_hFile = FALSE /\ m_hevtOverlapped = FALSE
  /\ m_lLastError = Success /\ m_eEvent = {} /\ m_dwEventMask = {}
  /\ handles = [file |-> 0, event |-> 0]
  /\ dcb = DefaultDcb /\ timeouts = OtherTimeouts
  /\ mask = {} /\ history = {} /\ queue = << >> /\ swallow = 0
  /\ other = FALSE /\ call = NoCall
  /\ asked = NothingAsked /\ arrived = 0 /\ taken = << >> /\ excused = FALSE

\* A method of a port that is not open.
NotOpen ==
  /\ Idle /\ ~m_hFile
  /\ m_lLastError' = "ERROR_INVALID_HANDLE"
  /\ UNCHANGED <<m_hFile, m_hevtOverlapped, m_eEvent, m_dwEventMask, handles,
                 settings, input, other, call, ghosts>>

\* A method whose only effect is its error: a system call of it failed.
Fails(error) ==
  /\ m_lLastError' = error
  /\ UNCHANGED <<m_hFile, m_hevtOverlapped, m_eEvent, m_dwEventMask, handles,
                 settings, input, other, call, ghosts>>

----------------------------------------------------------------------------
\* CloseHandle of the event, if there is one, and of the file; the driver
\* gives up its operations and empties its queue.
CloseBoth ==
  /\ m_hFile' = FALSE /\ m_hevtOverlapped' = FALSE
  /\ handles' = [file |-> handles.file - 1,
                 event |-> handles.event - IF m_hevtOverlapped THEN 1 ELSE 0]
  /\ queue' = << >> /\ swallow' = 0 /\ history' = {} /\ mask' = {}
  /\ asked' = NothingAsked /\ arrived' = 0 /\ taken' = << >> /\ excused' = FALSE

Close ==
  /\ Idle
  /\ m_lLastError' = Success
  /\ IF m_hFile THEN CloseBoth
     ELSE UNCHANGED <<m_hFile, m_hevtOverlapped, handles, input, ghosts>>
  /\ UNCHANGED <<m_eEvent, m_dwEventMask, settings, other, call>>

\* The destructor of the object, and a new object in its place.
Destroy ==
  /\ Idle
  /\ m_lLastError' = Success /\ m_eEvent' = {} /\ m_dwEventMask' = {}
  /\ IF m_hFile THEN CloseBoth
     ELSE UNCHANGED <<m_hFile, m_hevtOverlapped, handles, input, ghosts>>
  /\ UNCHANGED <<settings, other, call>>

OpenAgain == Idle /\ m_hFile /\ Fails("ERROR_ALREADY_INITIALIZED")

FileOpened(h) == [h EXCEPT !.file = @ + 1]
FileClosed(h) == [h EXCEPT !.file = @ - 1]
EventOpened(h) == [h EXCEPT !.event = @ + 1]
EventClosed(h) == [h EXCEPT !.event = @ - 1]

\* A plausible slip: CloseHandle of the file alone when SetupComm fails.
Fault_HandlesAfter(step, fOverlapped) ==
  CASE step = "CreateFile" -> handles
    [] step = "CreateEvent" -> FileClosed(FileOpened(handles))
    [] step = "SetupComm" /\ fOverlapped ->
         FileClosed(EventOpened(FileOpened(handles)))
    [] OTHER -> FileClosed(FileOpened(handles))

\* The handles left by an Open that failed at a step: CreateFile; CreateEvent,
\* after which the file is closed; or SetupComm, called when queue sizes are
\* given, after which Close closes what there is.
HandlesAfter(step, fOverlapped) ==
  CASE step = "CreateFile" -> handles
    [] step = "CreateEvent" -> FileClosed(FileOpened(handles))
    [] step = "SetupComm" /\ fOverlapped ->
         FileClosed(EventClosed(EventOpened(FileOpened(handles))))
    [] OTHER -> FileClosed(FileOpened(handles))

OpenFails ==
  /\ Idle /\ ~m_hFile
  /\ \E step \in {"CreateFile", "CreateEvent", "SetupComm"}, fOverlapped \in BOOLEAN :
       /\ other => step = "CreateFile"
       /\ step = "CreateEvent" => fOverlapped
       /\ handles' = HandlesAfter(step, fOverlapped)
  /\ m_lLastError' = Failed
  /\ UNCHANGED <<m_hFile, m_hevtOverlapped, m_eEvent, m_dwEventMask,
                 settings, input, other, call, ghosts>>

\* Open gets as far as the settings.  Whether SetMask works, tells GetEventMask
\* only; whether SetupReadTimeouts works, is what Open returns, the port being
\* open all the same; and the default settings are applied if both calls work,
\* which the client is not told.
Open(fOverlapped, masked, timed, defaults) ==
  /\ Idle /\ ~m_hFile /\ ~other
  /\ m_hFile' = TRUE /\ m_hevtOverlapped' = fOverlapped
  /\ handles' = [file |-> handles.file + 1,
                 event |-> handles.event + IF fOverlapped THEN 1 ELSE 0]
  /\ m_dwEventMask' = IF masked THEN DefaultMask ELSE m_dwEventMask
  /\ mask' = IF masked THEN DefaultMask ELSE {}
  /\ timeouts' = IF timed THEN Nonblocking ELSE timeouts
  /\ m_lLastError' = IF timed THEN Success ELSE Failed
  /\ dcb' = IF defaults THEN DefaultDcb ELSE dcb
  /\ asked' = [NothingAsked EXCEPT
                 !.reads = IF m_lLastError' = Success THEN {Nonblocking} ELSE {}]
  /\ UNCHANGED <<m_eEvent, history, queue, swallow, other, call,
                 arrived, taken, excused>>

\* Another program opens the port, and leaves it as it likes.
OtherOpens ==
  /\ ~m_hFile /\ ~other
  /\ other' = TRUE
  /\ UNCHANGED <<object, handles, settings, input, call, ghosts>>

OtherCloses ==
  /\ other
  /\ other' = FALSE
  /\ \E f \in Formats, mode \in Handshakes :
       dcb' = WithHandshake(WithFormat(dcb, f), mode)
  /\ timeouts' \in {Blocking, Nonblocking, OtherTimeouts}
  /\ UNCHANGED <<object, handles, input, call, ghosts>>

----------------------------------------------------------------------------
\* Setup and SetupHandshaking read the DCB, change their part of it and write
\* it back; either call may fail.
SetState(d, part, value) ==
  /\ dcb' = d
  /\ asked' = [asked EXCEPT ![part] = {value}]
  /\ m_lLastError' = Success
  /\ UNCHANGED <<m_hFile, m_hevtOverlapped, m_eEvent, m_dwEventMask, handles,
                 timeouts, input, other, call, arrived, taken, excused>>

Setup ==
  /\ Idle /\ m_hFile
  /\ \/ Fails(Failed)
     \/ \E f \in Formats : SetState(WithFormat(dcb, f), "format", f)

SetupHandshaking ==
  /\ Idle /\ m_hFile
  /\ \/ \E error \in {Failed, "E_INVALIDARG"} : Fails(error)
     \/ \E mode \in Handshakes :
          SetState(WithHandshake(dcb, mode), "handshake", mode)

\* SetMask: the driver takes the mask and forgets the events outside it, and
\* the object remembers it.
TakesMask(m) ==
  /\ mask' = m /\ history' = history \cap m
  /\ m_dwEventMask' = m

SetMask ==
  /\ Idle /\ m_hFile
  /\ \/ Fails(Failed)
     \/ \E m \in Masks :
          /\ TakesMask(m)
          /\ asked' = [asked EXCEPT !.mask = {m}]
          /\ m_lLastError' = Success
          /\ UNCHANGED <<m_hFile, m_hevtOverlapped, m_eEvent, handles, settings,
                         queue, swallow, other, call, arrived, taken, excused>>

\* What the client knows after SetEventChar: what it asked for, if the call
\* returned success; after an error, each part has its value from before, or
\* the one the call was to give it.
AfterEventChar(c, adjust, m, error) ==
  IF error = Success
  THEN [asked EXCEPT !.char = {c}, !.mask = IF adjust THEN {m} ELSE @]
  ELSE [asked EXCEPT
          !.char = IF @ = {} THEN @ ELSE @ \cup {c},
          !.mask = IF adjust THEN @ \cup {a \cup {RcvEv} : a \in @} ELSE @]

\* SetEventChar: GetCommState; SetMask, if the mask is to be adjusted; and
\* SetCommState.  The mask stays adjusted when SetCommState fails, and the
\* error of SetMask is returned when SetCommState works.
SetEventChar ==
  /\ Idle /\ m_hFile
  /\ \E c \in EventChars, adjust, got, masked, stated \in BOOLEAN :
       LET m == m_dwEventMask \cup {RcvEv}
       IN /\ IF got /\ adjust /\ masked
             THEN TakesMask(m)
             ELSE UNCHANGED <<mask, history, m_dwEventMask>>
          /\ dcb' = IF got /\ stated THEN [dcb EXCEPT !.evtChar = c] ELSE dcb
          /\ m_lLastError' = IF got /\ stated /\ (adjust => masked)
                             THEN Success ELSE Failed
          /\ asked' = AfterEventChar(c, adjust, m, m_lLastError')
          /\ UNCHANGED <<m_hFile, m_hevtOverlapped, m_eEvent, handles, timeouts,
                         queue, swallow, other, call, arrived, taken, excused>>

\* A plausible slip: the interval time-out is 0 for either kind of read.
Fault_SetupReadTimeouts ==
  /\ Idle /\ m_hFile
  /\ \E reads \in {Blocking, Nonblocking} :
       /\ timeouts' = Blocking
       /\ asked' = [asked EXCEPT !.reads = {reads}]
       /\ m_lLastError' = Success
       /\ UNCHANGED <<m_hFile, m_hevtOverlapped, m_eEvent, m_dwEventMask, handles,
                      dcb, input, other, call, arrived, taken, excused>>

SetupReadTimeouts ==
  /\ Idle /\ m_hFile
  /\ \/ \E error \in {Failed, "E_INVALIDARG"} : Fails(error)
     \/ \E reads \in {Blocking, Nonblocking} :
          /\ timeouts' = reads
          /\ asked' = [asked EXCEPT !.reads = {reads}]
          /\ m_lLastError' = Success
          /\ UNCHANGED <<m_hFile, m_hevtOverlapped, m_eEvent, m_dwEventMask, handles,
                         dcb, input, other, call, arrived, taken, excused>>

\* The getters, Break, GetError and the modem status change the error alone;
\* what the getters return is GetFormat and its like.
Get ==
  /\ Idle /\ m_hFile
  /\ \E error \in {Success, Failed} : Fails(error)

\* GetCTS, GetDSR, GetRing and GetRLSD do not look whether the port is open:
\* GetCommModemStatus of no handle fails.
GetModemStatus ==
  /\ Idle /\ ~m_hFile
  /\ Fails(Failed)

GetEventType ==
  /\ Idle
  /\ m_eEvent' = {}
  /\ UNCHANGED <<m_hFile, m_hevtOverlapped, m_lLastError, m_dwEventMask, handles,
                 settings, input, other, call, ghosts>>

Purge ==
  /\ Idle /\ m_hFile
  /\ \/ Fails(Failed)
     \/ /\ m_lLastError' = Success
        /\ queue' = << >>
        /\ excused' = (excused \/ queue # << >>)
        /\ UNCHANGED <<m_hFile, m_hevtOverlapped, m_eEvent, m_dwEventMask, handles,
                       settings, mask, history, swallow, other, call, asked,
                       arrived, taken>>

----------------------------------------------------------------------------
\* Read, Write and WaitEvent with a time-out or without one.  Without the
\* event a time-out is refused.
Begin(c) ==
  /\ Idle /\ m_hFile
  /\ \/ Fails(Failed)
     \/ c.finite /\ ~m_hevtOverlapped /\ Fails("ERROR_INVALID_FUNCTION")
     \/ /\ c.finite => m_hevtOverlapped
        /\ c.op = "wait" => mask # {}
        /\ call' = c
        /\ m_lLastError' = Success
        /\ UNCHANGED <<m_hFile, m_hevtOverlapped, m_eEvent, m_dwEventMask, handles,
                       settings, input, other, ghosts>>

Read ==
  \E n \in ReadSizes, finite \in BOOLEAN :
    Begin([op |-> "read", finite |-> finite, n |-> n, buf |-> << >>])
Write == \E finite \in BOOLEAN : Begin([op |-> "write", finite |-> finite])
WaitEvent == \E finite \in BOOLEAN : Begin([op |-> "wait", finite |-> finite])

Reading == call.op = "read"
Buffer == IF Reading THEN call.buf ELSE << >>

\* The call returns an error; what its operation has read is lost.
Returns(error) ==
  /\ call' = NoCall
  /\ m_lLastError' = error
  /\ excused' = (excused \/ Buffer # << >>)
  /\ UNCHANGED <<m_hFile, m_hevtOverlapped, m_dwEventMask, handles, settings,
                 mask, history, queue, other, asked, arrived, taken>>

\* A plausible slip: the operation is not cancelled.
Fault_TimeOut ==
  /\ ~Idle /\ call.finite
  /\ Returns("ERROR_TIMEOUT")
  /\ swallow' = IF Reading THEN swallow + call.n - Len(call.buf) ELSE swallow
  /\ UNCHANGED m_eEvent

\* The wait times out: CancelIo, and the number of bytes stays 0, also if the
\* operation had read some.  A cancelled WaitCommEvent may clear the event.
TimeOut ==
  /\ ~Idle /\ call.finite
  /\ Returns("ERROR_TIMEOUT")
  /\ m_eEvent' \in IF call.op = "wait" THEN {m_eEvent, {}} ELSE {m_eEvent}
  /\ UNCHANGED swallow

\* The call returns an error and leaves its operation to itself: a read takes
\* the bytes it still wants.
Abandon(error) ==
  /\ ~Idle /\ m_hevtOverlapped /\ swallow = 0
  /\ call' = NoCall
  /\ m_lLastError' = error
  /\ swallow' = IF Reading THEN call.n - Len(call.buf) ELSE 0
  /\ excused' = (excused \/ Reading)
  /\ UNCHANGED <<m_hFile, m_hevtOverlapped, m_eEvent, m_dwEventMask, handles,
                 settings, mask, history, queue, other, asked, arrived, taken>>

\* WaitForSingleObject fails; or the wait times out and CancelIo fails, at
\* whose result nobody looks.
WaitFails == Abandon(Failed)
CancelFails == Abandon("ERROR_TIMEOUT") /\ call.finite

\* The operation completes and GetOverlappedResult fails.
NoResult ==
  /\ call.op \in {"read", "write"} /\ m_hevtOverlapped
  /\ Returns(Failed)
  /\ UNCHANGED <<m_eEvent, swallow>>

\* The driver completes a read: all bytes are there; or the time-outs say not
\* to wait for more.
ReadComplete ==
  \/ Len(call.buf) = call.n
  \/ timeouts = Nonblocking /\ queue = << >>
  \/ timeouts = OtherTimeouts

CompleteRead ==
  /\ Reading /\ ReadComplete
  /\ call' = NoCall
  /\ taken' = taken \o call.buf
  /\ UNCHANGED <<object, handles, settings, input, other, asked, arrived, excused>>

CompleteWrite ==
  /\ call.op = "write"
  /\ call' = NoCall
  /\ UNCHANGED <<object, handles, settings, input, other, ghosts>>

CompleteWait ==
  /\ call.op = "wait" /\ history # {}
  /\ call' = NoCall
  /\ m_eEvent' = history /\ history' = {}
  /\ UNCHANGED <<m_hFile, m_hevtOverlapped, m_lLastError, m_dwEventMask, handles,
                 settings, mask, queue, swallow, other, ghosts>>

----------------------------------------------------------------------------
\* The driver hands the oldest byte to the oldest read.
Fill ==
  /\ queue # << >>
  /\ queue' = Tail(queue)
  /\ \/ /\ swallow > 0
        /\ swallow' = swallow - 1
        /\ UNCHANGED call
     \/ /\ swallow = 0 /\ Reading
        /\ Len(call.buf) < call.n
        /\ call' = [call EXCEPT !.buf = Append(@, Head(queue))]
        /\ UNCHANGED swallow
  /\ UNCHANGED <<object, handles, settings, mask, history, other, ghosts>>

\* A byte arrives; a full queue loses it, and reports the error.
Arrive ==
  /\ m_hFile /\ arrived < MaxBytes
  /\ arrived' = arrived + 1
  /\ IF Len(queue) < QueueSize
     THEN /\ queue' = Append(queue, arrived + 1)
          /\ history' = history \cup (mask \cap {Recv})
          /\ UNCHANGED excused
     ELSE /\ history' = history \cup (mask \cap {Err})
          /\ excused' = TRUE
          /\ UNCHANGED queue
  /\ UNCHANGED <<object, handles, settings, mask, swallow, other, call, asked, taken>>

Client ==
  \/ NotOpen \/ Close \/ Destroy \/ OpenAgain \/ OpenFails
  \/ \E fOverlapped, masked, timed, defaults \in BOOLEAN :
       Open(fOverlapped, masked, timed, defaults)
  \/ Setup \/ SetupHandshaking \/ SetMask \/ SetEventChar \/ SetupReadTimeouts
  \/ Get \/ GetModemStatus \/ GetEventType \/ Purge \/ Read \/ Write \/ WaitEvent

Driver ==
  \/ TimeOut \/ WaitFails \/ CancelFails \/ NoResult
  \/ CompleteRead \/ CompleteWrite \/ CompleteWait \/ Fill

Next == Client \/ Driver \/ Arrive \/ OtherOpens \/ OtherCloses

Spec == Init /\ [][Next]_vars

\* A driver goes on with an operation, and a time-out expires.
FairSpec == Spec /\ WF_vars(Fill) /\ WF_vars(CompleteRead) /\ WF_vars(TimeOut)

----------------------------------------------------------------------------
\* The handles the process has open are the ones the object holds, whichever
\* step of an Open failed, and an event only beside a file.
HandlesOwned ==
  /\ handles.file = IF m_hFile THEN 1 ELSE 0
  /\ handles.event = IF m_hevtOverlapped THEN 1 ELSE 0
  /\ m_hevtOverlapped => m_hFile

\* What the client has been told is set, is set, and the getters say so: after
\* any sequence of set-ups, some of them failing, and whatever another program
\* has left in the port.  Only a SetEventChar that returned an error leaves the
\* client in doubt, between the character and mask it had and those asked for.
\* An Open that returns success leaves reads non-blocking, as Serial.h says.
SettingsHold ==
  m_hFile =>
    /\ asked.format \subseteq {GetFormat}
    /\ asked.handshake \subseteq {GetHandshaking}
    /\ asked.char # {} => GetEventChar \in asked.char
    /\ asked.reads \subseteq {timeouts}
    /\ asked.mask # {} => mask \in asked.mask /\ m_dwEventMask = mask

\* The bytes of the line are returned in their order, each once; and none is
\* missing unless a read was given up after it had taken some, or its wait or
\* its cancelling failed, or the queue was purged or ran over.
NothingLost ==
  /\ \A i, k \in DOMAIN taken : i < k => taken[i] < taken[k]
  /\ m_hFile /\ ~excused => taken \o Buffer \o queue = [i \in 1..arrived |-> i]

\* When reads have been set to be non-blocking, by Open or by the client, a
\* read returns, on a silent line too; and so does any call with a time-out.
ReadsReturn ==
  /\ Reading /\ asked.reads = {Nonblocking} ~> Idle
  /\ ~Idle /\ call.op # "none" /\ call.finite ~> Idle
=============================================================================
