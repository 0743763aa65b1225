----------------------------- MODULE CSerialEx -----------------------------
(***************************************************************************)
(* The serial port with a listener thread (Serial/SerialEx.cpp over        *)
(* Serial/Serial.cpp): a client opens and closes the port, starts and      *)
(* stops the listener and reads, while the listener waits for events of    *)
(* the driver and reports them.  Both use the same m_lLastError.           *)
(***************************************************************************)
EXTENDS Naturals

CONSTANTS
    Threads,   \* thread handles
    None       \* the null handle

ASSUME NoneAssumption == None \notin Threads

VARIABLES
    m_hFile, m_hevtOverlappedWorkerThread,   \* the handle is not null
    m_hThread, m_fStopping, m_lLastError, m_eEvent,
    cpc,        \* client: the call it is in, and how far
    closing,    \* the StopListener in progress was called by Close
    timed,      \* and this one has a time-out
    session,    \* the last Open returned success, and Close was not called
    lpc,        \* each listener thread: where it is in ThreadProc
    signalled,  \* state of the event m_hevtOverlappedWorkerThread
    waiting,    \* driver: the thread whose WaitCommEvent is pending
    recorded,   \* driver: an event came when none was pending
    left,       \* history: threads that StopListener gave up and that still run
    due,        \* history: bytes came that no event has reported since,
                \* and no listener that was told to stop has taken
    broken      \* history: the listener last started had a WaitCommEvent that
                \* failed, or was given up, or runs beside one that was

handles == <<m_hFile, m_hevtOverlappedWorkerThread>>
client  == <<cpc, closing, timed, session>>
driver  == <<signalled, waiting, recorded>>
history == <<left, due, broken>>
vars    == <<handles, m_hThread, m_fStopping, m_lLastError, m_eEvent, client,
             lpc, driver, history>>

Running(t) == lpc[t] # "ended"

Init ==
    /\ m_hFile = FALSE /\ m_hevtOverlappedWorkerThread = FALSE
    /\ m_hThread = None /\ m_fStopping = FALSE
    /\ m_lLastError = "ok" /\ m_eEvent = "none"
    /\ cpc = "idle" /\ closing = FALSE /\ timed = FALSE /\ session = FALSE
    /\ lpc = [t \in Threads |-> "ended"]
    /\ signalled = FALSE /\ waiting = None /\ recorded = FALSE
    /\ left = {} /\ due = FALSE /\ broken = FALSE

-----------------------------------------------------------------------------
(* The client.  It opens a port it does not have open. *)

\* CSerial::Open succeeds; the mask is set and nothing is recorded yet.
Open ==
    /\ cpc = "idle" /\ ~session /\ ~m_hFile
    /\ m_hFile' = TRUE /\ m_lLastError' = "ok"
    /\ recorded' = FALSE /\ due' = FALSE
    /\ cpc' = "opened"
    /\ UNCHANGED <<m_hevtOverlappedWorkerThread, m_hThread, m_fStopping, m_eEvent,
                   closing, timed, session, lpc, signalled, waiting, left, broken>>

\* CSerial::Open fails: the port cannot be opened, or it is open already, or
\* its time-outs cannot be set, an error that is returned with the port open.
OpenFails ==
    /\ cpc = "idle" /\ ~session
    /\ m_lLastError' = "failed"
    /\ m_hFile' \in {m_hFile, TRUE}
    /\ recorded' = (m_hFile /\ recorded)
    /\ UNCHANGED <<m_hevtOverlappedWorkerThread, m_hThread, m_fStopping, m_eEvent,
                   client, lpc, signalled, waiting, history>>

\* The worker event is created; the listener is started if that was asked for.
EventCreated ==
    /\ cpc = "opened"
    /\ m_hevtOverlappedWorkerThread' = TRUE /\ signalled' = FALSE
    /\ cpc' \in {"openstart", "openret"}
    /\ UNCHANGED <<m_hFile, m_hThread, m_fStopping, m_lLastError, m_eEvent,
                   closing, timed, session, lpc, waiting, recorded, history>>

\* It cannot be created: the port is closed again, which resets the error that
\* Open then returns.
EventFails ==
    /\ cpc = "opened"
    /\ m_hFile' = FALSE /\ waiting' = None
    /\ m_lLastError' = "ok"
    /\ cpc' = "openret"
    /\ UNCHANGED <<m_hevtOverlappedWorkerThread, m_hThread, m_fStopping, m_eEvent,
                   closing, timed, session, lpc, signalled, recorded, history>>

\* Open returns m_lLastError.
OpenReturns ==
    /\ cpc = "openret"
    /\ session' = (m_lLastError = "ok")
    /\ cpc' = "idle"
    /\ UNCHANGED <<handles, m_hThread, m_fStopping, m_lLastError, m_eEvent,
                   closing, timed, lpc, driver, history>>

\* A call of StartListener, of StopListener with a time-out or without, or of
\* Close, which stops the listener without.
Call ==
    /\ cpc = "idle"
    /\ \/ session /\ cpc' = "start" /\ UNCHANGED <<closing, timed>>
       \/ session /\ cpc' = "stop" /\ closing' = FALSE /\ timed' \in BOOLEAN
       \/ cpc' = "stop" /\ closing' = TRUE /\ timed' = FALSE
    /\ UNCHANGED <<handles, m_hThread, m_fStopping, m_lLastError, m_eEvent,
                   session, lpc, driver, history>>

StartReturns == cpc' = IF cpc = "openstart" THEN "openret" ELSE "idle"

\* Fault: StartListener does not look at m_hThread.
Fault_StartListener ==
    /\ cpc \in {"start", "openstart"}
    /\ m_lLastError' = "ok"
    /\ broken' = (left # {}) /\ due' = recorded
    /\ \E t \in Threads :
          /\ ~Running(t)
          /\ m_hThread' = t
          /\ lpc' = [lpc EXCEPT ![t] = "reset"]
    /\ StartReturns
    /\ UNCHANGED <<handles, m_fStopping, m_eEvent, closing, timed, session,
                   driver, left>>

\* StartListener creates a thread unless m_hThread names one, also when threads
\* that were given up still run.
StartListener ==
    /\ cpc \in {"start", "openstart"}
    /\ \/ /\ m_hThread # None
          /\ m_lLastError' = "ok"
          /\ UNCHANGED <<m_hThread, lpc, history>>
       \/ /\ m_hThread = None
          /\ m_lLastError' = "failed"
          /\ UNCHANGED <<m_hThread, lpc, history>>
       \/ /\ m_hThread = None
          /\ m_lLastError' = "ok"
          /\ broken' = (left # {}) /\ due' = recorded /\ UNCHANGED left
          /\ \E t \in Threads :
                /\ ~Running(t)
                /\ m_hThread' = t
                /\ lpc' = [lpc EXCEPT ![t] = "reset"]
    /\ StartReturns
    /\ UNCHANGED <<handles, m_fStopping, m_eEvent, closing, timed, session, driver>>

\* Back in StopListener's caller; Close goes on.
StopReturns == timed' = FALSE /\ cpc' = IF closing THEN "close" ELSE "idle"

\* Fault: the flag is not set: the mask alone is to wake the thread.
Fault_StopListener ==
    /\ cpc = "stop"
    /\ IF m_hThread = None
       THEN m_lLastError' = "ok" /\ StopReturns
       ELSE cpc' = "mask" /\ UNCHANGED <<timed, m_lLastError>>
    /\ UNCHANGED <<handles, m_hThread, m_fStopping, m_eEvent, closing, session,
                   lpc, driver, history>>

StopListener ==
    /\ cpc = "stop"
    /\ IF m_hThread = None
       THEN m_lLastError' = "ok" /\ StopReturns /\ UNCHANGED m_fStopping
       ELSE m_fStopping' = TRUE /\ cpc' = "mask" /\ UNCHANGED <<timed, m_lLastError>>
    /\ UNCHANGED <<handles, m_hThread, m_eEvent, closing, session, lpc, driver,
                   history>>

\* The pending wait completes with event e.  That of a thread that was given up
\* may have been begun with a worker event that has since been closed.
Complete(e) ==
    /\ waiting' = None /\ m_eEvent' = e
    /\ \/ signalled' = TRUE
       \/ waiting \in left /\ UNCHANGED signalled

\* SetMask, when the port is open: a pending wait completes without an event.
SetMask ==
    /\ m_lLastError' = IF m_hFile THEN "ok" ELSE "failed"
    /\ IF m_hFile /\ waiting # None THEN Complete("none")
       ELSE UNCHANGED <<waiting, signalled, m_eEvent>>
    /\ UNCHANGED recorded

Wake ==
    /\ cpc = "mask"
    /\ SetMask
    /\ cpc' = "wait"
    /\ UNCHANGED <<handles, m_hThread, m_fStopping, closing, timed, session, lpc, history>>

\* WaitForSingleObject returns: the thread is taken to have stopped, and its
\* handle is closed.
WaitOver ==
    /\ cpc = "wait"
    /\ m_fStopping' = FALSE /\ m_hThread' = None
    /\ m_lLastError' = "ok"
    /\ StopReturns
    /\ UNCHANGED <<handles, m_eEvent, closing, session, lpc, driver, due>>

\* It has stopped.
Stopped ==
    /\ WaitOver /\ ~Running(m_hThread)
    /\ UNCHANGED <<left, broken>>

\* It has not: the wait came to its time-out, or failed.  The thread may not
\* have seen m_fStopping, and then goes on as a listener.
GiveUp ==
    /\ WaitOver /\ Running(m_hThread)
    /\ left' = left \cup {m_hThread} /\ broken' = TRUE

\* Fault: Close does not wait for the listener.
Fault_Close ==
    /\ cpc \in {"mask", "wait", "close"} /\ closing
    /\ m_hFile' = FALSE /\ m_hevtOverlappedWorkerThread' = FALSE
    /\ m_fStopping' = FALSE /\ m_hThread' = None
    /\ waiting' = None /\ m_lLastError' = "ok"
    /\ session' = FALSE /\ cpc' = "idle"
    /\ UNCHANGED <<m_eEvent, closing, timed, lpc, signalled, recorded, history>>

\* The rest of CSerialEx::Close: the worker event and the port are closed.  A
\* thread that was given up and is about to wait for the event, or does, may
\* then still be about to, be woken, or never be.
Close ==
    /\ cpc = "close"
    /\ m_hFile' = FALSE /\ m_hevtOverlappedWorkerThread' = FALSE
    /\ waiting' = None /\ m_lLastError' = "ok"
    /\ \E after \in [Threads -> {"asleep", "event", "blocked"}] :
          lpc' = [t \in Threads |-> IF lpc[t] = "asleep" THEN after[t] ELSE lpc[t]]
    /\ session' = FALSE /\ cpc' = "idle"
    /\ UNCHANGED <<m_hThread, m_fStopping, m_eEvent, closing, timed, signalled,
                   recorded, history>>

\* Read or Write, with its own event: it resets m_lLastError and may fail or
\* time out a while later.
Transfer ==
    /\ \/ cpc = "idle" /\ session /\ m_lLastError' = "ok" /\ cpc' = "transfer"
       \/ cpc = "transfer" /\ m_lLastError' = "failed" /\ cpc' = "idle"
       \/ cpc = "transfer" /\ m_hFile /\ UNCHANGED m_lLastError /\ cpc' = "idle"
    /\ UNCHANGED <<handles, m_hThread, m_fStopping, m_eEvent, closing, timed,
                   session, lpc, driver, history>>

\* The client sets the mask anew, as SetEventChar does.
ChangeMask ==
    /\ cpc = "idle" /\ session
    /\ SetMask
    /\ UNCHANGED <<handles, m_hThread, m_fStopping, client, lpc, history>>

\* What the client does in a call it has begun, and will do.
InCall == \/ EventCreated \/ EventFails \/ OpenReturns \/ StartListener
          \/ StopListener \/ Wake \/ Stopped \/ Close
          \/ timed /\ GiveUp
          \/ cpc = "transfer" /\ Transfer
Client == InCall \/ GiveUp \/ Open \/ OpenFails \/ Call \/ Transfer \/ ChangeMask

-----------------------------------------------------------------------------
(* The listener thread t. *)

Step(t, from, to) == lpc[t] = from /\ lpc' = [lpc EXCEPT ![t] = to]

Reset(t) ==
    /\ Step(t, "reset", "enter")
    /\ signalled' = FALSE
    /\ UNCHANGED <<handles, m_hThread, m_fStopping, m_lLastError, m_eEvent,
                   client, waiting, recorded, history>>

\* WaitEvent resets m_lLastError and looks whether the port is open.
Enter(t) ==
    /\ Step(t, "enter", IF m_hFile THEN "issue" ELSE "return")
    /\ m_lLastError' = IF m_hFile THEN "ok" ELSE "failed"
    /\ UNCHANGED <<handles, m_hThread, m_fStopping, m_eEvent, client, driver, history>>

\* Fault: the event is reset when the wait has begun.
Fault_Issue(t) ==
    /\ m_hFile /\ waiting = None
    /\ Step(t, "issue", "return")
    /\ signalled' = FALSE
    /\ IF recorded
       THEN m_eEvent' = "recv" /\ recorded' = FALSE /\ UNCHANGED waiting
       ELSE waiting' = t /\ UNCHANGED <<m_eEvent, recorded>>
    /\ UNCHANGED <<handles, m_hThread, m_fStopping, m_lLastError, client, history>>

\* WaitCommEvent completes at once with what is recorded, or is pending.
Issue(t) ==
    /\ m_hFile /\ waiting = None
    /\ Step(t, "issue", "return")
    /\ IF recorded
       THEN m_eEvent' = "recv" /\ recorded' = FALSE /\ signalled' = TRUE
            /\ UNCHANGED waiting
       ELSE waiting' = t /\ UNCHANGED <<m_eEvent, recorded, signalled>>
    /\ UNCHANGED <<handles, m_hThread, m_fStopping, m_lLastError, client, history>>

\* WaitCommEvent fails, as it does when the port is closed, or the wait of
\* another thread is pending.
IssueFails(t) ==
    /\ Step(t, "issue", "return")
    /\ m_lLastError' = "failed" /\ broken' = TRUE
    /\ UNCHANGED <<handles, m_hThread, m_fStopping, m_eEvent, client, driver, left, due>>

\* A thread that ends takes its pending wait with it.
Ends(t) ==
    /\ lpc' = [lpc EXCEPT ![t] = "ended"]
    /\ waiting' = IF waiting = t THEN None ELSE waiting
    /\ left' = left \ {t}

\* WaitEvent returns m_lLastError, whoever set it last; on an error the
\* listener ends.
Returned(t) ==
    /\ lpc[t] = "return"
    /\ IF m_lLastError = "ok"
       THEN Step(t, "return", "asleep") /\ UNCHANGED <<waiting, left>>
       ELSE Ends(t)
    /\ UNCHANGED <<handles, m_hThread, m_fStopping, m_lLastError, m_eEvent,
                   client, signalled, recorded, due, broken>>

\* The event is signalled; what it was is looked at unless the thread is told
\* to stop.
Awake(t) ==
    /\ signalled /\ m_hevtOverlappedWorkerThread
    /\ Step(t, "asleep", IF m_fStopping THEN "test" ELSE "event")
    /\ UNCHANGED <<handles, m_hThread, m_fStopping, m_lLastError, m_eEvent,
                   client, driver, history>>

\* The wait for an event that does not exist fails: Open returned success though
\* the event could not be created, and Enter's error was reset by the client.
SleepFails(t) ==
    /\ lpc[t] = "asleep" /\ ~m_hevtOverlappedWorkerThread
    /\ Ends(t)
    /\ m_lLastError' = "failed"
    /\ UNCHANGED <<handles, m_hThread, m_fStopping, m_eEvent, client, signalled,
                   recorded, due, broken>>

\* GetEventType, ClearCommError and OnEvent, if there is an event.
Report(t) ==
    /\ Step(t, "event", "test")
    /\ m_eEvent' = "none"
    /\ m_lLastError' \in {m_lLastError, "failed"}
    /\ due' = (due /\ m_eEvent = "none")
    /\ UNCHANGED <<handles, m_hThread, m_fStopping, client, driver, left,
                   broken>>

\* while (!m_fStopping)
Test(t) ==
    /\ lpc[t] = "test"
    /\ IF m_fStopping THEN Ends(t)
       ELSE Step(t, "test", "reset") /\ UNCHANGED <<waiting, left>>
    /\ UNCHANGED <<handles, m_hThread, m_fStopping, m_lLastError, m_eEvent,
                   client, signalled, recorded, due, broken>>

Listen(t) == \/ Reset(t) \/ Enter(t) \/ Issue(t) \/ IssueFails(t)
             \/ Returned(t) \/ Awake(t) \/ SleepFails(t) \/ Report(t)
             \/ Test(t)

-----------------------------------------------------------------------------
\* The driver receives bytes.
Arrive ==
    /\ m_hFile
    /\ IF waiting # None THEN Complete("recv") /\ UNCHANGED recorded
       ELSE recorded' = TRUE /\ UNCHANGED <<waiting, signalled, m_eEvent>>
    /\ due' = TRUE
    /\ UNCHANGED <<handles, m_hThread, m_fStopping, m_lLastError, client, lpc,
                   left, broken>>

Next == Client \/ Arrive \/ \E t \in Threads : Listen(t)

Spec == Init /\ [][Next]_vars

\* The threads run, and a wait with a time-out comes to it; no other wait need
\* fail, nor WaitCommEvent.  No byte is promised.
FairSpec ==
    /\ Spec
    /\ WF_vars(InCall)
    /\ \A t \in Threads : WF_vars(Listen(t))

-----------------------------------------------------------------------------
(* Properties. *)

\* The members of the port, the listeners and the driver have their types;
\* m_hThread names a thread or none.
TypeOK ==
    /\ m_hFile \in BOOLEAN /\ m_hevtOverlappedWorkerThread \in BOOLEAN
    /\ m_hThread \in Threads \cup {None}
    /\ m_fStopping \in BOOLEAN
    /\ m_lLastError \in {"ok", "failed"} /\ m_eEvent \in {"none", "recv"}
    /\ cpc \in {"idle", "opened", "openstart", "openret", "start", "stop",
                "mask", "wait", "close", "transfer"}
    /\ closing \in BOOLEAN /\ timed \in BOOLEAN /\ session \in BOOLEAN
    /\ lpc \in [Threads -> {"ended", "reset", "enter", "issue", "return",
                            "asleep", "event", "test", "blocked"}]
    /\ signalled \in BOOLEAN /\ recorded \in BOOLEAN
    /\ waiting \in Threads \cup {None}
    /\ left \subseteq Threads /\ due \in BOOLEAN /\ broken \in BOOLEAN

\* However often the listener is started, stopped and dies of an error, no
\* thread runs that m_hThread does not name, but those that a StopListener whose
\* wait came to its time-out or failed has left behind: without one of these,
\* none is left to call OnEvent after StopListener and Close, and two never
\* share the worker event.
OneListener == \A t \in Threads : Running(t) => m_hThread = t \/ t \in left

\* The port and the worker event are open whenever a listener that was not left
\* behind hands them to the driver and as long as the driver may still signal
\* them, also when Open failed half-way, when the port was opened again after
\* Close, and when threads that were left behind run beside it.
HandlesHeld ==
    \A t \in Threads \ left :
        waiting = t \/ lpc[t] = "issue" => m_hFile /\ m_hevtOverlappedWorkerThread

\* Bytes that arrive are reported by an event, unless the listener ends first,
\* is told to stop or was not there: none is lost between two waits, though the
\* event is reset before each.  A failed WaitCommEvent is excepted, as the client
\* may reset the error before the thread reads it (SerialEx.cpp:225), and so is
\* a listener that was given up or runs beside one, as it shares the event.
Reported ==
    due ~> (~due \/ m_fStopping \/ broken \/ \A t \in Threads : ~Running(t))

\* StopListener and Close return as long as bytes keep arriving.
StopReturnsInTraffic ==
    []<><<Arrive>>_vars => (cpc = "wait" ~> cpc # "wait" \/ broken)

\* StopListener returns: "by setting the event mask again, the call will also be
\* completed before the thread exits" (SerialEx.cpp:180-182).
StopAlwaysReturns == cpc = "wait" ~> cpc # "wait" \/ broken

=============================================================================
