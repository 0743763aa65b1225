-------------------------- MODULE CSerialEx_proofs --------------------------
(***************************************************************************)
(* The listener of CSerialEx is alone, but for those that were given up,   *)
(* and uses open handles only, for any number of thread handles.           *)
(***************************************************************************)
EXTENDS CSerialEx, TLAPS

\* Where the client is tells what it has opened: a port is opened, and closed,
\* only while m_hThread names no listener, and a listener is named only with
\* both handles or none.
ClientInv ==
    /\ cpc \in {"opened", "close"} => m_hThread = None
    /\ cpc \in {"opened", "openstart", "openret"} => ~session
    /\ cpc \in {"opened", "openstart"} => m_hFile
    /\ cpc = "openstart" => m_hevtOverlappedWorkerThread
    /\ cpc = "start" => session
    /\ cpc \in {"mask", "wait"} => m_hThread # None
    /\ session \/ cpc = "openret" \/ m_hThread # None =>
          (m_hFile => m_hevtOverlappedWorkerThread)
    /\ ~session /\ m_hThread # None => m_hFile

\* A pending wait is that of a thread that runs, on an open port; threads left
\* behind run, and m_hThread names none of them.
ThreadInv ==
    /\ waiting # None => Running(waiting) /\ m_hFile
    /\ \A t \in left : Running(t) /\ t # m_hThread

IInv == TypeOK /\ OneListener /\ ClientInv /\ ThreadInv /\ HandlesHeld

\* TypeOK in two parts, the truth values and the rest.
Flags == /\ m_hFile \in BOOLEAN /\ m_hevtOverlappedWorkerThread \in BOOLEAN
         /\ m_fStopping \in BOOLEAN /\ closing \in BOOLEAN /\ timed \in BOOLEAN
         /\ session \in BOOLEAN /\ signalled \in BOOLEAN /\ recorded \in BOOLEAN
         /\ due \in BOOLEAN /\ broken \in BOOLEAN

Others == /\ m_hThread \in Threads \cup {None}
          /\ m_lLastError \in {"ok", "failed"} /\ m_eEvent \in {"none", "recv"}
          /\ cpc \in {"idle", "opened", "openstart", "openret", "start", "stop",
                      "mask", "wait", "close", "transfer"}
          /\ lpc \in [Threads -> {"ended", "reset", "enter", "issue", "return",
                                  "asleep", "event", "test", "blocked"}]
          /\ waiting \in Threads \cup {None} /\ left \subseteq Threads

\* In the beginning nothing is open and nothing runs.
LEMMA InitInv == Init => IInv
BY NoneAssumption
   DEF Init, IInv, TypeOK, OneListener, ClientInv, ThreadInv, HandlesHeld, Running

\* A step of the client keeps the invariant.
LEMMA ClientStep == ASSUME IInv, Client PROVE IInv'
<1>. USE DEF IInv
<1>1. CASE EventCreated
  <2>. USE <1>1 DEF EventCreated, handles, client, driver, history
  <2>1. TypeOK'
    <3>1. Flags'
      BY DEF Flags, TypeOK
    <3>2. Others'
      BY DEF Others, TypeOK
    <3>. QED  BY <3>1, <3>2 DEF Flags, Others, TypeOK
  <2>2. OneListener'
    BY NoneAssumption DEF OneListener, TypeOK, Running
  <2>3. ClientInv'
    BY NoneAssumption DEF ClientInv, TypeOK
  <2>4. ThreadInv'
    BY NoneAssumption DEF ThreadInv, ClientInv, TypeOK, Running
  <2>5. HandlesHeld'
    BY NoneAssumption DEF HandlesHeld, ClientInv, ThreadInv, OneListener, TypeOK, Running
  <2>. QED  BY <2>1, <2>2, <2>3, <2>4, <2>5
<1>2. CASE EventFails
  <2>. USE <1>2 DEF EventFails, handles, client, driver, history
  <2>1. TypeOK'
    <3>1. Flags'
      BY DEF Flags, TypeOK
    <3>2. Others'
      BY DEF Others, TypeOK
    <3>. QED  BY <3>1, <3>2 DEF Flags, Others, TypeOK
  <2>2. OneListener'
    BY NoneAssumption DEF OneListener, TypeOK, Running
  <2>3. ClientInv'
    BY NoneAssumption DEF ClientInv, TypeOK
  <2>4. ThreadInv'
    BY NoneAssumption DEF ThreadInv, ClientInv, TypeOK, Running
  <2>5. HandlesHeld'
    BY NoneAssumption DEF HandlesHeld, ClientInv, ThreadInv, OneListener, TypeOK, Running
  <2>. QED  BY <2>1, <2>2, <2>3, <2>4, <2>5
<1>3. CASE OpenReturns
  <2>. USE <1>3 DEF OpenReturns, handles, client, driver, history
  <2>1. TypeOK'
    <3>1. Flags'
      BY DEF Flags, TypeOK
    <3>2. Others'
      BY DEF Others, TypeOK
    <3>. QED  BY <3>1, <3>2 DEF Flags, Others, TypeOK
  <2>2. OneListener'
    BY NoneAssumption DEF OneListener, TypeOK, Running
  <2>3. ClientInv'
    BY NoneAssumption DEF ClientInv, TypeOK
  <2>4. ThreadInv'
    BY NoneAssumption DEF ThreadInv, ClientInv, TypeOK, Running
  <2>5. HandlesHeld'
    BY NoneAssumption DEF HandlesHeld, ClientInv, ThreadInv, OneListener, TypeOK, Running
  <2>. QED  BY <2>1, <2>2, <2>3, <2>4, <2>5
<1>4. CASE StartListener
  <2>. USE <1>4 DEF StartReturns
  <2>1. /\ UNCHANGED <<m_hFile, m_hevtOverlappedWorkerThread, session, waiting, left>>
        /\ cpc \in {"start", "openstart"} /\ cpc' \in {"idle", "openret"}
        /\ cpc = "openstart" <=> cpc' = "openret"
    BY DEF StartListener, handles, driver, history
  <2>2. TypeOK'
    <3>1. Flags'
      BY DEF StartListener, handles, driver, history, Flags, TypeOK
    <3>2. Others'
      BY DEF StartListener, handles, driver, history, Others, TypeOK
    <3>. QED  BY <3>1, <3>2 DEF Flags, Others, TypeOK
  <2>3. CASE UNCHANGED <<m_hThread, lpc>>
    <3>1. OneListener'
      BY <2>1, <2>3 DEF OneListener, Running
    <3>2. ClientInv'
      BY <2>1, <2>3 DEF ClientInv
    <3>3. ThreadInv' /\ HandlesHeld'
      BY <2>1, <2>3 DEF ThreadInv, HandlesHeld, Running
    <3>. QED  BY <2>2, <3>1, <3>2, <3>3
  <2>4. ASSUME NEW t \in Threads, m_hThread = None, ~Running(t), m_hThread' = t,
               lpc' = [lpc EXCEPT ![t] = "reset"]
        PROVE  IInv'
    <3>1. \A u \in Threads : u # t => lpc'[u] = lpc[u]
      BY <2>4 DEF TypeOK
    <3>2. lpc'[t] = "reset" /\ t \notin left /\ waiting # t
      BY <2>4, NoneAssumption DEF TypeOK, ThreadInv
    <3>3. OneListener'
      BY <2>1, <2>4, <3>1, NoneAssumption DEF OneListener, Running
    <3>4. ClientInv'
      BY <2>1 DEF ClientInv
    <3>5. ThreadInv'
      BY <2>1, <2>4, <3>1, <3>2 DEF ThreadInv, Running, TypeOK
    <3>6. HandlesHeld'
      BY <2>1, <3>1, <3>2 DEF HandlesHeld
    <3>. QED  BY <2>2, <3>3, <3>4, <3>5, <3>6
  <2>5. UNCHANGED <<m_hThread, lpc>> \/
        \E t \in Threads : /\ m_hThread = None /\ ~Running(t) /\ m_hThread' = t
                           /\ lpc' = [lpc EXCEPT ![t] = "reset"]
    BY DEF StartListener
  <2>. QED  BY <2>3, <2>4, <2>5
<1>5. CASE StopListener
  <2>. USE <1>5 DEF StopListener, StopReturns, handles, client, driver, history
  <2>1. TypeOK'
    <3>1. Flags'
      BY DEF Flags, TypeOK
    <3>2. Others'
      BY DEF Others, TypeOK
    <3>. QED  BY <3>1, <3>2 DEF Flags, Others, TypeOK
  <2>2. OneListener'
    BY NoneAssumption DEF OneListener, TypeOK, Running
  <2>3. ClientInv'
    BY NoneAssumption DEF ClientInv, TypeOK
  <2>4. ThreadInv'
    BY NoneAssumption DEF ThreadInv, ClientInv, TypeOK, Running
  <2>5. HandlesHeld'
    BY NoneAssumption DEF HandlesHeld, ClientInv, ThreadInv, OneListener, TypeOK, Running
  <2>. QED  BY <2>1, <2>2, <2>3, <2>4, <2>5
<1>6. CASE Wake
  <2>. USE <1>6 DEF Wake, SetMask, Complete, handles, client, driver, history
  <2>1. TypeOK'
    <3>1. Flags'
      BY DEF Flags, TypeOK
    <3>2. Others'
      BY DEF Others, TypeOK
    <3>. QED  BY <3>1, <3>2 DEF Flags, Others, TypeOK
  <2>2. OneListener'
    BY NoneAssumption DEF OneListener, TypeOK, Running
  <2>3. ClientInv'
    BY NoneAssumption DEF ClientInv, TypeOK
  <2>4. ThreadInv'
    BY NoneAssumption DEF ThreadInv, ClientInv, TypeOK, Running
  <2>5. HandlesHeld'
    BY NoneAssumption DEF HandlesHeld, ClientInv, ThreadInv, OneListener, TypeOK, Running
  <2>. QED  BY <2>1, <2>2, <2>3, <2>4, <2>5
<1>7. CASE Stopped
  <2>. USE <1>7 DEF Stopped, WaitOver, StopReturns, handles, client, driver, history
  <2>1. TypeOK'
    <3>1. Flags'
      BY DEF Flags, TypeOK
    <3>2. Others'
      BY DEF Others, TypeOK
    <3>. QED  BY <3>1, <3>2 DEF Flags, Others, TypeOK
  <2>2. OneListener'
    BY NoneAssumption DEF OneListener, TypeOK, Running
  <2>3. ClientInv'
    BY NoneAssumption DEF ClientInv, TypeOK
  <2>4. ThreadInv'
    BY NoneAssumption DEF ThreadInv, ClientInv, TypeOK, Running
  <2>5. HandlesHeld'
    BY NoneAssumption DEF HandlesHeld, ClientInv, ThreadInv, OneListener, TypeOK, Running
  <2>. QED  BY <2>1, <2>2, <2>3, <2>4, <2>5
<1>8. CASE GiveUp
  <2>. USE <1>8 DEF GiveUp, WaitOver, StopReturns, handles, client, driver, history
  <2>1. TypeOK'
    <3>1. Flags'
      BY DEF Flags, TypeOK
    <3>2. Others'
      BY DEF Others, TypeOK, ClientInv
    <3>. QED  BY <3>1, <3>2 DEF Flags, Others, TypeOK
  <2>2. /\ m_hThread \in Threads /\ m_hThread' = None /\ Running(m_hThread)
        /\ left' = left \cup {m_hThread} /\ UNCHANGED lpc /\ cpc' # "wait"
    BY DEF ClientInv, TypeOK
  <2>3. OneListener'
    BY <2>2 DEF OneListener, Running
  <2>4. ClientInv'
    BY <2>2 DEF ClientInv
  <2>5. ThreadInv'
    BY <2>2, NoneAssumption DEF ThreadInv, TypeOK, Running
  <2>6. HandlesHeld'
    BY <2>2 DEF HandlesHeld
  <2>. QED  BY <2>1, <2>3, <2>4, <2>5, <2>6
<1>9. CASE Close
  <2>1. PICK after \in [Threads -> {"asleep", "event", "blocked"}] :
            lpc' = [t \in Threads |-> IF lpc[t] = "asleep" THEN after[t] ELSE lpc[t]]
    BY <1>9 DEF Close
  <2>2. \A t \in Threads : /\ Running(t)' <=> Running(t)
                           /\ lpc'[t] = "issue" => lpc[t] = "issue"
    BY <2>1 DEF Running
  <2>3. /\ m_hThread = None /\ waiting' = None /\ session' = FALSE /\ cpc' = "idle"
        /\ UNCHANGED <<m_hThread, left>>
    BY <1>9 DEF Close, ClientInv, history
  <2>4. TypeOK'
    <3>1. Flags'
      BY <1>9 DEF Close, history, Flags, TypeOK
    <3>2. Others'
      BY <1>9, <2>1, <2>3 DEF Close, Others, TypeOK
    <3>. QED  BY <3>1, <3>2 DEF Flags, Others, TypeOK
  <2>5. OneListener' /\ ClientInv'
    BY <2>2, <2>3 DEF OneListener, ClientInv
  <2>6. ThreadInv'
    BY <2>2, <2>3 DEF ThreadInv, TypeOK
  <2>7. HandlesHeld'
    BY <2>2, <2>3, NoneAssumption DEF HandlesHeld, OneListener, Running
  <2>. QED  BY <2>4, <2>5, <2>6, <2>7
<1>10. CASE Open
  <2>. USE <1>10 DEF Open, handles, client, driver, history
  <2>1. TypeOK'
    <3>1. Flags'
      BY DEF Flags, TypeOK
    <3>2. Others'
      BY DEF Others, TypeOK
    <3>. QED  BY <3>1, <3>2 DEF Flags, Others, TypeOK
  <2>2. OneListener'
    BY NoneAssumption DEF OneListener, TypeOK, Running
  <2>3. ClientInv'
    BY NoneAssumption DEF ClientInv, TypeOK
  <2>4. ThreadInv'
    BY NoneAssumption DEF ThreadInv, ClientInv, TypeOK, Running
  <2>5. HandlesHeld'
    BY NoneAssumption DEF HandlesHeld, ClientInv, ThreadInv, OneListener, TypeOK, Running
  <2>. QED  BY <2>1, <2>2, <2>3, <2>4, <2>5
<1>11. CASE OpenFails
  <2>. USE <1>11 DEF OpenFails, handles, client, driver, history
  <2>1. TypeOK'
    <3>1. Flags'
      BY DEF Flags, TypeOK
    <3>2. Others'
      BY DEF Others, TypeOK
    <3>. QED  BY <3>1, <3>2 DEF Flags, Others, TypeOK
  <2>2. /\ cpc = "idle" /\ ~session /\ m_hFile' \in {m_hFile, TRUE}
        /\ UNCHANGED <<m_hevtOverlappedWorkerThread, m_hThread, cpc, session, lpc,
                        waiting, left>>
    OBVIOUS
  <2>3. m_hFile => m_hFile'
    BY <2>2
  <2>4. OneListener' /\ ThreadInv'
    BY <2>2, <2>3 DEF OneListener, ThreadInv, Running
  <2>5. ClientInv'
    BY <2>2, <2>3 DEF ClientInv, TypeOK
  <2>6. HandlesHeld'
    BY <2>2, <2>3 DEF HandlesHeld
  <2>. QED  BY <2>1, <2>4, <2>5, <2>6
<1>12. CASE Call
  <2>. USE <1>12 DEF Call, handles, client, driver, history
  <2>1. TypeOK'
    <3>1. Flags'
      BY DEF Flags, TypeOK
    <3>2. Others'
      BY DEF Others, TypeOK
    <3>. QED  BY <3>1, <3>2 DEF Flags, Others, TypeOK
  <2>2. OneListener'
    BY NoneAssumption DEF OneListener, TypeOK, Running
  <2>3. ClientInv'
    BY NoneAssumption DEF ClientInv, TypeOK
  <2>4. ThreadInv'
    BY NoneAssumption DEF ThreadInv, ClientInv, TypeOK, Running
  <2>5. HandlesHeld'
    BY NoneAssumption DEF HandlesHeld, ClientInv, ThreadInv, OneListener, TypeOK, Running
  <2>. QED  BY <2>1, <2>2, <2>3, <2>4, <2>5
<1>13. CASE Transfer
  <2>. USE <1>13 DEF Transfer, handles, client, driver, history
  <2>1. TypeOK'
    <3>1. Flags'
      BY DEF Flags, TypeOK
    <3>2. Others'
      BY DEF Others, TypeOK
    <3>. QED  BY <3>1, <3>2 DEF Flags, Others, TypeOK
  <2>2. OneListener'
    BY NoneAssumption DEF OneListener, TypeOK, Running
  <2>3. ClientInv'
    BY NoneAssumption DEF ClientInv, TypeOK
  <2>4. ThreadInv'
    BY NoneAssumption DEF ThreadInv, ClientInv, TypeOK, Running
  <2>5. HandlesHeld'
    BY NoneAssumption DEF HandlesHeld, ClientInv, ThreadInv, OneListener, TypeOK, Running
  <2>. QED  BY <2>1, <2>2, <2>3, <2>4, <2>5
<1>14. CASE ChangeMask
  <2>. USE <1>14 DEF ChangeMask, SetMask, Complete, handles, client, driver, history
  <2>1. TypeOK'
    <3>1. Flags'
      BY DEF Flags, TypeOK
    <3>2. Others'
      BY DEF Others, TypeOK
    <3>. QED  BY <3>1, <3>2 DEF Flags, Others, TypeOK
  <2>2. OneListener'
    BY NoneAssumption DEF OneListener, TypeOK, Running
  <2>3. ClientInv'
    BY NoneAssumption DEF ClientInv, TypeOK
  <2>4. ThreadInv'
    BY NoneAssumption DEF ThreadInv, ClientInv, TypeOK, Running
  <2>5. HandlesHeld'
    BY NoneAssumption DEF HandlesHeld, ClientInv, ThreadInv, OneListener, TypeOK, Running
  <2>. QED  BY <2>1, <2>2, <2>3, <2>4, <2>5
<1>. QED  BY <1>1, <1>2, <1>3, <1>4, <1>5, <1>6, <1>7, <1>8, <1>9, <1>10, <1>11, <1>12, <1>13, <1>14 DEF Client, InCall

\* A step of a listener keeps the invariant: no listener starts another one, and
\* none closes a handle.
LEMMA ListenerStep == ASSUME IInv, NEW t \in Threads, Listen(t) PROVE IInv'
<1>. USE DEF IInv
<1>1. CASE Reset(t)
  <2>. USE <1>1 DEF Reset, Step, handles, client, driver, history
  <2>1. TypeOK'
    <3>1. Flags'
      BY DEF Flags, TypeOK
    <3>2. Others'
      BY DEF Others, TypeOK
    <3>. QED  BY <3>1, <3>2 DEF Flags, Others, TypeOK
  <2>2. /\ Running(t) /\ \A u \in Threads : Running(u)' => Running(u)
        /\ \A u \in Threads : u # t => lpc'[u] = lpc[u]
    BY DEF TypeOK, Running
  <2>3. OneListener'
    BY <2>2 DEF OneListener, TypeOK, Running
  <2>4. ClientInv'
    BY DEF ClientInv
  <2>5. ThreadInv'
    BY <2>2, NoneAssumption DEF ThreadInv, TypeOK, Running
  <2>6. HandlesHeld'
    <3>. SUFFICES ASSUME NEW u \in Threads \ left', waiting' = u \/ lpc'[u] = "issue"
                  PROVE  m_hFile' /\ m_hevtOverlappedWorkerThread'
      BY DEF HandlesHeld
    <3>1. CASE u # t
      BY <2>2, <3>1, NoneAssumption DEF HandlesHeld
    <3>2. CASE u = t
      BY <2>2, <3>2, NoneAssumption DEF HandlesHeld, ClientInv, OneListener, TypeOK, Running
    <3>. QED  BY <3>1, <3>2
  <2>. QED  BY <2>1, <2>3, <2>4, <2>5, <2>6
<1>2. CASE Enter(t)
  <2>. USE <1>2 DEF Enter, Step, handles, client, driver, history
  <2>1. TypeOK'
    <3>1. Flags'
      BY DEF Flags, TypeOK
    <3>2. Others'
      BY DEF Others, TypeOK
    <3>. QED  BY <3>1, <3>2 DEF Flags, Others, TypeOK
  <2>2. /\ Running(t) /\ \A u \in Threads : Running(u)' => Running(u)
        /\ \A u \in Threads : u # t => lpc'[u] = lpc[u]
    BY DEF TypeOK, Running
  <2>3. OneListener'
    BY <2>2 DEF OneListener, TypeOK, Running
  <2>4. ClientInv'
    BY DEF ClientInv
  <2>5. ThreadInv'
    BY <2>2, NoneAssumption DEF ThreadInv, TypeOK, Running
  <2>6. HandlesHeld'
    <3>. SUFFICES ASSUME NEW u \in Threads \ left', waiting' = u \/ lpc'[u] = "issue"
                  PROVE  m_hFile' /\ m_hevtOverlappedWorkerThread'
      BY DEF HandlesHeld
    <3>1. CASE u # t
      BY <2>2, <3>1, NoneAssumption DEF HandlesHeld
    <3>2. CASE u = t
      BY <2>2, <3>2, NoneAssumption DEF HandlesHeld, ClientInv, OneListener, TypeOK, Running
    <3>. QED  BY <3>1, <3>2
  <2>. QED  BY <2>1, <2>3, <2>4, <2>5, <2>6
<1>3. CASE Issue(t)
  <2>. USE <1>3 DEF Issue, Step, handles, client, driver, history
  <2>1. TypeOK'
    <3>1. Flags'
      BY DEF Flags, TypeOK
    <3>2. Others'
      BY DEF Others, TypeOK
    <3>. QED  BY <3>1, <3>2 DEF Flags, Others, TypeOK
  <2>2. /\ Running(t) /\ \A u \in Threads : Running(u)' => Running(u)
        /\ \A u \in Threads : u # t => lpc'[u] = lpc[u]
    BY DEF TypeOK, Running
  <2>3. OneListener'
    BY <2>2 DEF OneListener, TypeOK, Running
  <2>4. ClientInv'
    BY DEF ClientInv
  <2>5. ThreadInv'
    BY <2>2, NoneAssumption DEF ThreadInv, TypeOK, Running
  <2>6. HandlesHeld'
    <3>. SUFFICES ASSUME NEW u \in Threads \ left', waiting' = u \/ lpc'[u] = "issue"
                  PROVE  m_hFile' /\ m_hevtOverlappedWorkerThread'
      BY DEF HandlesHeld
    <3>1. CASE u # t
      BY <2>2, <3>1, NoneAssumption DEF HandlesHeld
    <3>2. CASE u = t
      BY <2>2, <3>2, NoneAssumption DEF HandlesHeld, ClientInv, OneListener, TypeOK, Running
    <3>. QED  BY <3>1, <3>2
  <2>. QED  BY <2>1, <2>3, <2>4, <2>5, <2>6
<1>4. CASE IssueFails(t)
  <2>. USE <1>4 DEF IssueFails, Step, handles, client, driver, history
  <2>1. TypeOK'
    <3>1. Flags'
      BY DEF Flags, TypeOK
    <3>2. Others'
      BY DEF Others, TypeOK
    <3>. QED  BY <3>1, <3>2 DEF Flags, Others, TypeOK
  <2>2. /\ Running(t) /\ \A u \in Threads : Running(u)' => Running(u)
        /\ \A u \in Threads : u # t => lpc'[u] = lpc[u]
    BY DEF TypeOK, Running
  <2>3. OneListener'
    BY <2>2 DEF OneListener, TypeOK, Running
  <2>4. ClientInv'
    BY DEF ClientInv
  <2>5. ThreadInv'
    BY <2>2, NoneAssumption DEF ThreadInv, TypeOK, Running
  <2>6. HandlesHeld'
    <3>. SUFFICES ASSUME NEW u \in Threads \ left', waiting' = u \/ lpc'[u] = "issue"
                  PROVE  m_hFile' /\ m_hevtOverlappedWorkerThread'
      BY DEF HandlesHeld
    <3>1. CASE u # t
      BY <2>2, <3>1, NoneAssumption DEF HandlesHeld
    <3>2. CASE u = t
      BY <2>2, <3>2, NoneAssumption DEF HandlesHeld, ClientInv, OneListener, TypeOK, Running
    <3>. QED  BY <3>1, <3>2
  <2>. QED  BY <2>1, <2>3, <2>4, <2>5, <2>6
<1>5. CASE Returned(t)
  <2>. USE <1>5 DEF Returned, Step, Ends, handles, client, driver, history
  <2>1. TypeOK'
    <3>1. Flags'
      BY DEF Flags, TypeOK
    <3>2. Others'
      BY DEF Others, TypeOK
    <3>. QED  BY <3>1, <3>2 DEF Flags, Others, TypeOK
  <2>2. /\ Running(t) /\ \A u \in Threads : Running(u)' => Running(u)
        /\ \A u \in Threads : u # t => lpc'[u] = lpc[u]
    BY DEF TypeOK, Running
  <2>3. OneListener'
    BY <2>2 DEF OneListener, TypeOK, Running
  <2>4. ClientInv'
    BY DEF ClientInv
  <2>5. ThreadInv'
    BY <2>2, NoneAssumption DEF ThreadInv, TypeOK, Running
  <2>6. HandlesHeld'
    <3>. SUFFICES ASSUME NEW u \in Threads \ left', waiting' = u \/ lpc'[u] = "issue"
                  PROVE  m_hFile' /\ m_hevtOverlappedWorkerThread'
      BY DEF HandlesHeld
    <3>1. CASE u # t
      BY <2>2, <3>1, NoneAssumption DEF HandlesHeld
    <3>2. CASE u = t
      BY <2>2, <3>2, NoneAssumption DEF HandlesHeld, ClientInv, OneListener, TypeOK, Running
    <3>. QED  BY <3>1, <3>2
  <2>. QED  BY <2>1, <2>3, <2>4, <2>5, <2>6
<1>6. CASE Awake(t)
  <2>. USE <1>6 DEF Awake, Step, handles, client, driver, history
  <2>1. TypeOK'
    <3>1. Flags'
      BY DEF Flags, TypeOK
    <3>2. Others'
      BY DEF Others, TypeOK
    <3>. QED  BY <3>1, <3>2 DEF Flags, Others, TypeOK
  <2>2. /\ Running(t) /\ \A u \in Threads : Running(u)' => Running(u)
        /\ \A u \in Threads : u # t => lpc'[u] = lpc[u]
    BY DEF TypeOK, Running
  <2>3. OneListener'
    BY <2>2 DEF OneListener, TypeOK, Running
  <2>4. ClientInv'
    BY DEF ClientInv
  <2>5. ThreadInv'
    BY <2>2, NoneAssumption DEF ThreadInv, TypeOK, Running
  <2>6. HandlesHeld'
    <3>. SUFFICES ASSUME NEW u \in Threads \ left', waiting' = u \/ lpc'[u] = "issue"
                  PROVE  m_hFile' /\ m_hevtOverlappedWorkerThread'
      BY DEF HandlesHeld
    <3>1. CASE u # t
      BY <2>2, <3>1, NoneAssumption DEF HandlesHeld
    <3>2. CASE u = t
      BY <2>2, <3>2, NoneAssumption DEF HandlesHeld, ClientInv, OneListener, TypeOK, Running
    <3>. QED  BY <3>1, <3>2
  <2>. QED  BY <2>1, <2>3, <2>4, <2>5, <2>6
<1>7. CASE SleepFails(t)
  <2>. USE <1>7 DEF SleepFails, Ends, handles, client, driver, history
  <2>1. TypeOK'
    <3>1. Flags'
      BY DEF Flags, TypeOK
    <3>2. Others'
      BY DEF Others, TypeOK
    <3>. QED  BY <3>1, <3>2 DEF Flags, Others, TypeOK
  <2>2. /\ Running(t) /\ \A u \in Threads : Running(u)' => Running(u)
        /\ \A u \in Threads : u # t => lpc'[u] = lpc[u]
    BY DEF TypeOK, Running
  <2>3. OneListener'
    BY <2>2 DEF OneListener, TypeOK, Running
  <2>4. ClientInv'
    BY DEF ClientInv
  <2>5. ThreadInv'
    BY <2>2, NoneAssumption DEF ThreadInv, TypeOK, Running
  <2>6. HandlesHeld'
    <3>. SUFFICES ASSUME NEW u \in Threads \ left', waiting' = u \/ lpc'[u] = "issue"
                  PROVE  m_hFile' /\ m_hevtOverlappedWorkerThread'
      BY DEF HandlesHeld
    <3>1. CASE u # t
      BY <2>2, <3>1, NoneAssumption DEF HandlesHeld
    <3>2. CASE u = t
      BY <2>2, <3>2, NoneAssumption DEF HandlesHeld, ClientInv, OneListener, TypeOK, Running
    <3>. QED  BY <3>1, <3>2
  <2>. QED  BY <2>1, <2>3, <2>4, <2>5, <2>6
<1>8. CASE Report(t)
  <2>. USE <1>8 DEF Report, Step, handles, client, driver, history
  <2>1. TypeOK'
    <3>1. Flags'
      BY DEF Flags, TypeOK
    <3>2. Others'
      BY DEF Others, TypeOK
    <3>. QED  BY <3>1, <3>2 DEF Flags, Others, TypeOK
  <2>2. /\ Running(t) /\ \A u \in Threads : Running(u)' => Running(u)
        /\ \A u \in Threads : u # t => lpc'[u] = lpc[u]
    BY DEF TypeOK, Running
  <2>3. OneListener'
    BY <2>2 DEF OneListener, TypeOK, Running
  <2>4. ClientInv'
    BY DEF ClientInv
  <2>5. ThreadInv'
    BY <2>2, NoneAssumption DEF ThreadInv, TypeOK, Running
  <2>6. HandlesHeld'
    <3>. SUFFICES ASSUME NEW u \in Threads \ left', waiting' = u \/ lpc'[u] = "issue"
                  PROVE  m_hFile' /\ m_hevtOverlappedWorkerThread'
      BY DEF HandlesHeld
    <3>1. CASE u # t
      BY <2>2, <3>1, NoneAssumption DEF HandlesHeld
    <3>2. CASE u = t
      BY <2>2, <3>2, NoneAssumption DEF HandlesHeld, ClientInv, OneListener, TypeOK, Running
    <3>. QED  BY <3>1, <3>2
  <2>. QED  BY <2>1, <2>3, <2>4, <2>5, <2>6
<1>9. CASE Test(t)
  <2>. USE <1>9 DEF Test, Step, Ends, handles, client, driver, history
  <2>1. TypeOK'
    <3>1. Flags'
      BY DEF Flags, TypeOK
    <3>2. Others'
      BY DEF Others, TypeOK
    <3>. QED  BY <3>1, <3>2 DEF Flags, Others, TypeOK
  <2>2. /\ Running(t) /\ \A u \in Threads : Running(u)' => Running(u)
        /\ \A u \in Threads : u # t => lpc'[u] = lpc[u]
    BY DEF TypeOK, Running
  <2>3. OneListener'
    BY <2>2 DEF OneListener, TypeOK, Running
  <2>4. ClientInv'
    BY DEF ClientInv
  <2>5. ThreadInv'
    BY <2>2, NoneAssumption DEF ThreadInv, TypeOK, Running
  <2>6. HandlesHeld'
    <3>. SUFFICES ASSUME NEW u \in Threads \ left', waiting' = u \/ lpc'[u] = "issue"
                  PROVE  m_hFile' /\ m_hevtOverlappedWorkerThread'
      BY DEF HandlesHeld
    <3>1. CASE u # t
      BY <2>2, <3>1, NoneAssumption DEF HandlesHeld
    <3>2. CASE u = t
      BY <2>2, <3>2, NoneAssumption DEF HandlesHeld, ClientInv, OneListener, TypeOK, Running
    <3>. QED  BY <3>1, <3>2
  <2>. QED  BY <2>1, <2>3, <2>4, <2>5, <2>6
<1>. QED  BY <1>1, <1>2, <1>3, <1>4, <1>5, <1>6, <1>7, <1>8, <1>9 DEF Listen

\* The invariant holds in every reachable state.
THEOREM Invariant == Spec => []IInv
<1>1. IInv /\ [Next]_vars => IInv'
  <2>. SUFFICES ASSUME IInv, [Next]_vars PROVE IInv'
    OBVIOUS
  <2>1. CASE Client
    BY <2>1, ClientStep
  <2>2. CASE Arrive
    <3>1. Flags'
      BY <2>2 DEF Arrive, Complete, IInv, TypeOK, Flags, handles, client
    <3>2. Others'
      BY <2>2 DEF Arrive, Complete, IInv, TypeOK, Others, client
    <3>3. OneListener' /\ ClientInv' /\ ThreadInv'
      BY <2>2 DEF Arrive, Complete, IInv, OneListener, ClientInv, ThreadInv, Running,
                  handles, client
    <3>4. HandlesHeld'
      BY <2>2, NoneAssumption DEF Arrive, Complete, IInv, HandlesHeld, handles
    <3>. QED  BY <3>1, <3>2, <3>3, <3>4 DEF IInv, TypeOK, Flags, Others
  <2>3. CASE \E t \in Threads : Listen(t)
    BY <2>3, ListenerStep
  <2>4. CASE UNCHANGED vars
    BY <2>4 DEF vars, handles, client, driver, history, IInv, TypeOK, OneListener,
                ClientInv, ThreadInv, HandlesHeld, Running
  <2>. QED  BY <2>1, <2>2, <2>3, <2>4 DEF Next
<1>. QED  BY InitInv, <1>1, PTL DEF Spec

\* The variables have their types (Serial.h:237-262, SerialEx.h:84-110).
THEOREM TypeCorrect == Spec => []TypeOK
BY Invariant, PTL DEF IInv

\* No thread runs that m_hThread does not name, but those a StopListener has
\* given up (SerialEx.cpp:143-199): however many threads have been started,
\* StopListener waits for the only one it has not left behind.
THEOREM ListenerIsAlone == Spec => []OneListener
BY Invariant, PTL DEF IInv

\* A wait of a listener that was not left behind is handed to the driver, and
\* pends there, on open handles only (SerialEx.cpp:85-141, 216-229).
THEOREM WaitsUseOpenHandles == Spec => []HandlesHeld
BY Invariant, PTL DEF IInv

=============================================================================
