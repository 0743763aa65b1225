------------------------- MODULE ModbusPoll_proofs -------------------------
(***************************************************************************)
(* The registry of ModbusPoll is correct for any number of ports, devices, *)
(* baud rates and requests; with a single port a device that was stopped   *)
(* is silent and no pointer to a device that is gone is ever followed.     *)
(* The second part is about what a window reads before its device is       *)
(* registered, the style sheets: the reader of JsonText.                   *)
(***************************************************************************)
EXTENDS ModbusPoll, JsonText, FiniteSetTheorems, SequenceTheorems, WellFoundedInduction,
        TLAPS

\* The inductive invariant for any number of ports.
Inv == /\ TypeOK /\ LockInv /\ HandlerInv /\ ScanInv
       /\ PortsInUse /\ WorkingIsServed

-----------------------------------------------------------------------------
(* Lists. *)

\* A set of natural numbers that is not empty has a minimum: the intervals
\* 1..x ordered by inclusion are well founded.
LEMMA NatMin ==
    ASSUME NEW T \in SUBSET Nat, T # {}
    PROVE  \E x \in T : \A y \in T : x <= y
<1> DEFINE F == {1..x : x \in T}
           R == StrictSubsetOrdering(Nat)
<1>1. IsWellFoundedOn(R, FiniteSubsetsOf(Nat))
  BY FS_StrictSubsetOrderingWellFounded
<1>2. F \subseteq FiniteSubsetsOf(Nat)
  BY FS_Interval DEF FiniteSubsetsOf
<1>3. PICK I \in F : \A J \in F : <<J, I>> \notin R
  <2>1. F # {}
    OBVIOUS
  <2> HIDE DEF F, R
  <2> QED BY <1>1, <1>2, <2>1, WFMin
<1>4. PICK x \in T : I = 1..x
  OBVIOUS
<1>5. ASSUME NEW y \in T, y < x
      PROVE  FALSE
  <2>1. /\ 1..y \in F
        /\ x \notin 1..y /\ x \in 1..x /\ 1..y \subseteq 1..x
    BY <1>5
  <2>2. 1..y \in SUBSET Nat /\ 1..x \in SUBSET Nat /\ 1..y # 1..x
    BY <2>1
  <2>3. <<1..y, 1..x>> \in R
    BY <2>1, <2>2 DEF StrictSubsetOrdering
  <2> QED BY <1>3, <1>4, <2>1, <2>3
<1> QED BY <1>5

\* A list that is not empty has a first node.
LEMMA FirstNode ==
    ASSUME NEW S, S # {}, \A n \in S : n.pos \in Nat
    PROVE  First(S) \in S
<1> DEFINE T == {n.pos : n \in S}
<1>1. T \in SUBSET Nat /\ T # {}
  OBVIOUS
<1>2. PICK x \in T : \A y \in T : x <= y
  <2> HIDE DEF T
  <2> QED BY <1>1, NatMin
<1>3. \E n \in S : \A m \in S : n.pos <= m.pos
  BY <1>2
<1> QED BY <1>3 DEF First

\* Iteration goes to a node of the list, or to the end.
LEMMA NextNode ==
    ASSUME NEW S, \A n \in S : n.pos \in 1..MaxPos, NEW p
    PROVE  \/ NextPos(S, p) = 0
           \/ \E n \in S : n.pos = NextPos(S, p)
<1> DEFINE later == {n \in S : n.pos > p}
<1>1. CASE later = {}
  BY <1>1 DEF NextPos
<1>2. CASE later # {}
  <2>1. \A n \in later : n.pos \in Nat
    BY MaxPosAssumption
  <2>2. First(later) \in later
    <3> HIDE DEF later
    <3> QED BY <1>2, <2>1, FirstNode
  <2> QED BY <1>2, <2>2 DEF NextPos
<1> QED BY <1>1, <1>2

\* What findDevice returns is registered with the port.
LEMMA FoundIsRegistered ==
    ASSUME TypeOK, NEW n \in modbus_list, NEW s
    PROVE  \/ findDevice(n, s) = None
           \/ findDevice(n, s) \in Devices /\ Registered(findDevice(n, s))
<1>1. CASE Matches(n, s) = {}
  BY <1>1 DEF findDevice
<1>2. CASE Matches(n, s) # {}
  <2>1. \A x \in Matches(n, s) : x \in n.devices /\ x \in DevNode /\ x.pos \in Nat
    BY MaxPosAssumption DEF TypeOK, PortNode, DevNode, Matches
  <2>2. First(Matches(n, s)) \in Matches(n, s)
    BY <1>2, <2>1, FirstNode
  <2>3. First(Matches(n, s)).dev \in Devices
    BY <2>1, <2>2 DEF DevNode
  <2> QED BY <1>2, <2>1, <2>2, <2>3 DEF findDevice, Registered, Registers
<1> QED BY <1>1, <1>2

\* The iterator of a round is at a node of the list.
LEMMA CurrentNode ==
    ASSUME ScanInv, ppc # "sleep", cursor # 0
    PROVE  Current \in modbus_list
BY DEF ScanInv, Current

-----------------------------------------------------------------------------
(* The invariant holds initially, and each part is preserved by every step. *)

\* An application that has just started, with no tab and no port, satisfies the
\* invariant.
LEMMA InvInit == Init => Inv
<1> SUFFICES ASSUME Init PROVE Inv
  OBVIOUS
<1>1. TypeOK
  <2>1. 0 \in 0..MaxPos /\ line \in [Ports -> Seq(Request)]
    BY MaxPosAssumption DEF Init
  <2> QED BY <2>1 DEF Init, TypeOK
<1>2. LockInv /\ HandlerInv /\ ScanInv
  BY DEF Init, LockInv, HandlerInv, ScanInv
<1>3. PortsInUse /\ WorkingIsServed
  BY DEF Init, PortsInUse, WorkingIsServed
<1> QED BY <1>1, <1>2, <1>3 DEF Inv

\* The first port of the list, where removeDevice acts.
LEMMA FirstPort ==
    ASSUME TypeOK, modbus_list # {}
    PROVE  First(modbus_list) \in modbus_list
BY FirstNode, MaxPosAssumption DEF TypeOK, PortNode

\* No click, no step of the poll thread and no byte of a master takes a variable
\* out of its type.
LEMMA TypeStep == Inv /\ [Next]_vars => TypeOK'
<1> SUFFICES ASSUME Inv, [Next]_vars PROVE TypeOK'
  OBVIOUS
<1> USE DEF Inv
<1>1. ASSUME NEW d \in Devices, \/ OpenTab(d) \/ LoadFails(d) \/ ClickStop(d)
                              \/ CloseTab(d) \/ DestroyDevice(d)
      PROVE  TypeOK'
  <2>1. CASE OpenTab(d)
    BY <2>1 DEF TypeOK, OpenTab, pollVars
  <2>2. CASE LoadFails(d)
    BY <2>2 DEF TypeOK, LoadFails, Handler, Jobs, pollVars
  <2>3. CASE ClickStop(d) \/ CloseTab(d) \/ DestroyDevice(d)
    BY <2>3 DEF TypeOK, ClickStop, CloseTab, DestroyDevice, Removing, Handler,
                Jobs, pollVars
  <2> QED BY <1>1, <2>1, <2>2, <2>3
<1>2. ASSUME NEW d \in Devices, NEW p \in Ports, NEW b \in Bauds,
             ClickStart(d, p, b)
      PROVE  TypeOK'
  BY <1>2 DEF TypeOK, ClickStart, Handler, Jobs, Choice, pollVars
<1>3. CASE CloseWindow \/ ClearTables \/ UiLock
  BY <1>3 DEF TypeOK, CloseWindow, ClearTables, UiLock, Handler, pollVars
<1>4. CASE AddToPort
  <2>1. job \in Jobs /\ Chosen \in Choice /\ Room
    BY <1>4, NoneAssumption DEF TypeOK, HandlerInv, AddToPort, Chosen, Jobs
  <2>2. PICK n \in modbus_list :
          modbus_list' = (modbus_list \ {n}) \cup
            {WithDevices(n, n.devices \cup
               {[pos |-> EndPos(n.devices), dev |-> job.dev]})}
    BY <1>4 DEF AddToPort, NodesOf
  <2>3. [pos |-> EndPos(n.devices), dev |-> job.dev] \in DevNode
    BY <2>1 DEF Room, DevNode, Jobs
  <2>4. modbus_list' \subseteq PortNode
    BY <2>2, <2>3 DEF TypeOK, PortNode, WithDevices
  <2> QED BY <1>4, <2>1, <2>4 DEF TypeOK, AddToPort, Added, Handler, Jobs, pollVars
<1>5. CASE AddPort
  <2>1. job \in Jobs /\ Chosen \in Choice /\ Room
    BY <1>5, NoneAssumption DEF TypeOK, HandlerInv, AddPort, Chosen, Jobs
  <2>2. EndPos(modbus_list) \in 1..MaxPos /\ 1 \in 1..MaxPos
    BY <2>1, MaxPosAssumption DEF Room
  <2>3. [pos |-> 1, dev |-> job.dev] \in DevNode
    BY <2>1, <2>2 DEF DevNode, Jobs
  <2>4. modbus_list' \subseteq PortNode
    BY <1>5, <2>1, <2>2, <2>3 DEF TypeOK, AddPort, PortNode, Choice
  <2>5. opened' \subseteq Ports
    BY <1>5, <2>1 DEF TypeOK, AddPort, Choice
  <2> QED BY <1>5, <2>1, <2>4, <2>5 DEF TypeOK, AddPort, Added, Handler, Jobs, pollVars
<1>6. CASE BaudDiffers \/ OpenFails
  BY <1>6, NoneAssumption
     DEF TypeOK, HandlerInv, BaudDiffers, OpenFails, Added, Handler, Jobs, pollVars
<1>7. CASE RemoveDevice
  <2>1. job \in Jobs
    BY <1>7 DEF TypeOK, HandlerInv, RemoveDevice
  <2>2. /\ modbus_list' \subseteq PortNode
        /\ opened' \subseteq Ports
        /\ line' \in [Ports -> Seq(Request)]
    <3>1. CASE modbus_list = {}
      BY <1>7, <3>1 DEF TypeOK, RemoveDevice, removeDevice
    <3>2. CASE modbus_list # {}
      <4> DEFINE n == First(modbus_list)
                 rest == {x \in n.devices : x.dev # job.dev}
      <4>1. n \in modbus_list /\ n \in PortNode
        BY <3>2, FirstPort DEF TypeOK
      <4>2. rest \subseteq DevNode
        BY <4>1 DEF PortNode
      <4>3. \/ modbus_list' = modbus_list \ {n}
            \/ modbus_list' = (modbus_list \ {n}) \cup {WithDevices(n, rest)}
        BY <1>7, <3>2 DEF RemoveDevice, removeDevice
      <4>4. modbus_list' \subseteq PortNode
        <5> HIDE DEF n, rest
        <5> QED BY <4>1, <4>2, <4>3 DEF TypeOK, PortNode, WithDevices
      <4>5. \/ opened' = opened \ {n.port} /\ line' = [line EXCEPT ![n.port] = <<>>]
            \/ UNCHANGED <<opened, line>>
        BY <1>7, <3>2 DEF RemoveDevice, removeDevice
      <4>6. opened' \subseteq Ports /\ line' \in [Ports -> Seq(Request)]
        <5>1. <<>> \in Seq(Request)
          OBVIOUS
        <5> HIDE DEF n
        <5> QED BY <4>1, <4>5, <5>1 DEF TypeOK
      <4> QED BY <4>4, <4>6
    <3> QED BY <3>1, <3>2
  <2>3. /\ upc' \in {"events", "free"} /\ job' \in Jobs \cup {None}
        /\ inWork' \in [Devices -> BOOLEAN]
        /\ tab' \in [Devices -> {"none", "loading", "open", "closed", "gone"}]
    BY <1>7, <2>1 DEF TypeOK, RemoveDevice, Handler, Jobs
  <2> QED BY <1>7, <2>2, <2>3 DEF TypeOK, RemoveDevice, pollVars
<1>8. CASE FreeDevice
  BY <1>8 DEF TypeOK, FreeDevice, Handler, pollVars
<1>9. CASE PollLock \/ PollTimeout \/ PollReject
  <2>1. \A c : NextPos(modbus_list, c) \in 0..MaxPos
    BY NextNode, MaxPosAssumption DEF TypeOK, PortNode
  <2> QED BY <1>9, <2>1 DEF TypeOK, PollLock, PollTimeout, PollReject, NextPort,
                            uiVars
<1>10. CASE PollIgnore \/ PollReceive
  <2>1. Current \in modbus_list /\ Current.port \in Ports
    BY <1>10, CurrentNode DEF TypeOK, PortNode, PollIgnore, PollReceive
  <2>2. line' \in [Ports -> Seq(Request)]
    <3>1. /\ line' = [line EXCEPT ![Current.port] = Tail(@)]
          /\ line[Current.port] # <<>>
      BY <1>10 DEF PollIgnore, PollReceive
    <3>2. Tail(line[Current.port]) \in Seq(Request)
      BY <2>1, <3>1 DEF TypeOK
    <3> QED BY <2>1, <3>1, <3>2 DEF TypeOK
  <2>3. cursor' \in 0..MaxPos
    BY <1>10, NextNode, MaxPosAssumption
       DEF TypeOK, PortNode, PollIgnore, PollReceive, NextPort
  <2>4. pdev' \in Devices \cup {None}
    BY <1>10, <2>1, FoundIsRegistered DEF PollIgnore, PollReceive, NextPort
  <2>5. ppc' \in {"scan", "serve", "reject"}
    BY <1>10 DEF PollIgnore, PollReceive, NextPort
  <2> QED BY <1>10, <2>2, <2>3, <2>4, <2>5
          DEF TypeOK, PollIgnore, PollReceive, NextPort, uiVars
<1>11. CASE PollServe \/ PollUnlock
  BY <1>11 DEF TypeOK, PollServe, PollUnlock, uiVars
<1>12. ASSUME NEW p \in Ports, Arrive(p)
       PROVE  TypeOK'
  BY <1>12 DEF TypeOK, Arrive, uiVars, pollVars
<1>13. CASE UNCHANGED vars
  BY <1>13 DEF TypeOK, vars, uiVars, pollVars
<1> QED
  BY <1>1, <1>2, <1>3, <1>4, <1>5, <1>6, <1>7, <1>8, <1>9, <1>10, <1>11, <1>12,
     <1>13 DEF Next, Ui, Poll

\* The mutex of ModbusControl is held by the thread that is inside addToPort,
\* removeDevice or poll, and by no other, after every step.
LEMMA LockStep == Inv /\ [Next]_vars => LockInv'
<1> SUFFICES ASSUME Inv, [Next]_vars PROVE LockInv'
  OBVIOUS
<1> USE DEF Inv, LockInv, TypeOK
<1>1. ASSUME NEW d \in Devices, \/ OpenTab(d) \/ LoadFails(d) \/ ClickStop(d)
                              \/ CloseTab(d) \/ DestroyDevice(d)
      PROVE  LockInv'
  BY <1>1 DEF OpenTab, LoadFails, ClickStop, CloseTab, DestroyDevice, Removing,
              Idle, Handler, pollVars
<1>2. ASSUME NEW d \in Devices, NEW p \in Ports, NEW b \in Bauds,
             ClickStart(d, p, b)
      PROVE  LockInv'
  BY <1>2 DEF ClickStart, Idle, Handler, pollVars
<1>3. CASE CloseWindow \/ ClearTables \/ UiLock
  BY <1>3 DEF CloseWindow, ClearTables, UiLock, Handler, pollVars
<1>4. CASE AddToPort \/ AddPort \/ BaudDiffers \/ OpenFails
  BY <1>4 DEF AddToPort, AddPort, BaudDiffers, OpenFails, Added, Handler, pollVars
<1>5. CASE RemoveDevice \/ FreeDevice
  BY <1>5 DEF RemoveDevice, FreeDevice, Handler, pollVars
<1>6. CASE Poll
  BY <1>6 DEF Poll, PollLock, PollTimeout, PollIgnore, PollReceive, PollServe,
              PollReject, PollUnlock, NextPort, uiVars
<1>7. ASSUME NEW p \in Ports, Arrive(p)
      PROVE  LockInv'
  BY <1>7 DEF Arrive, uiVars, pollVars
<1>8. CASE UNCHANGED vars
  BY <1>8 DEF vars, uiVars, pollVars
<1> QED BY <1>1, <1>2, <1>3, <1>4, <1>5, <1>6, <1>7, <1>8 DEF Next, Ui

\* Steps that change nothing a GUI handler relies on.
LEMMA HandlerFrame ==
    ASSUME HandlerInv, UNCHANGED <<upc, job, tab, inWork, conf, modbus_list>>
    PROVE  HandlerInv'
BY DEF HandlerInv, Room

\* The device a handler of the GUI works on stays on its tab while the handler
\* runs.
LEMMA HandlerStep == Inv /\ [Next]_vars => HandlerInv'
<1> SUFFICES ASSUME Inv, [Next]_vars PROVE HandlerInv'
  OBVIOUS
<1> USE DEF Inv, HandlerInv, TypeOK
<1>1. ASSUME NEW d \in Devices, \/ OpenTab(d) \/ LoadFails(d) \/ ClickStop(d)
                              \/ CloseTab(d) \/ DestroyDevice(d)
      PROVE  HandlerInv'
  <2>1. CASE OpenTab(d)
    BY <2>1 DEF OpenTab, Idle
  <2>2. CASE LoadFails(d)
    BY <2>2, NoneAssumption DEF LoadFails, Idle, Handler, Jobs
  <2>3. CASE ClickStop(d) \/ CloseTab(d) \/ DestroyDevice(d)
    BY <2>3, NoneAssumption
       DEF ClickStop, CloseTab, DestroyDevice, Removing, Idle, Handler, Jobs
  <2> QED BY <1>1, <2>1, <2>2, <2>3
<1>2. ASSUME NEW d \in Devices, NEW p \in Ports, NEW b \in Bauds,
             ClickStart(d, p, b)
      PROVE  HandlerInv'
  BY <1>2, NoneAssumption DEF ClickStart, Idle, Handler, Jobs, Choice, Room
<1>3. CASE CloseWindow
  BY <1>3, HandlerFrame DEF CloseWindow
<1>4. CASE ClearTables \/ UiLock
  BY <1>4 DEF ClearTables, UiLock, Handler, Room
<1>5. CASE AddToPort \/ AddPort \/ BaudDiffers \/ OpenFails
  BY <1>5 DEF AddToPort, AddPort, BaudDiffers, OpenFails, Added, Handler
<1>6. CASE RemoveDevice
  <2>1. job \in Jobs
    BY <1>6 DEF RemoveDevice
  <2> QED BY <1>6, <2>1, NoneAssumption DEF RemoveDevice, Handler, Jobs
<1>7. CASE FreeDevice
  <2>1. job \in Jobs
    BY <1>7 DEF FreeDevice
  <2> QED BY <1>7, <2>1 DEF FreeDevice, Handler, Jobs
<1>8. CASE Poll
  BY <1>8, HandlerFrame
     DEF Poll, PollLock, PollTimeout, PollIgnore, PollReceive, PollServe,
         PollReject, PollUnlock, NextPort, uiVars
<1>9. ASSUME NEW p \in Ports, Arrive(p)
      PROVE  HandlerInv'
  BY <1>9, HandlerFrame DEF Arrive, uiVars
<1>10. CASE UNCHANGED vars
  BY <1>10, HandlerFrame DEF vars, uiVars
<1> QED BY <1>1, <1>2, <1>3, <1>4, <1>5, <1>6, <1>7, <1>8, <1>9, <1>10
        DEF Next, Ui

\* The list of ports changes only while the polling thread sleeps.
LEMMA ListStable ==
    ASSUME LockInv, [Next]_vars, ppc # "sleep"
    PROVE  UNCHANGED modbus_list
<1>1. mutex # "ui" /\ upc \notin {"adding", "removing"}
  BY DEF LockInv
<1>2. CASE Ui
  BY <1>1, <1>2
     DEF Ui, OpenTab, LoadFails, ClickStart, ClickStop, CloseTab, DestroyDevice,
         Removing, CloseWindow, ClearTables, UiLock, AddToPort, AddPort,
         BaudDiffers, OpenFails, RemoveDevice, FreeDevice
<1>3. CASE Poll
  BY <1>3 DEF Poll, PollLock, PollTimeout, PollIgnore, PollReceive, PollServe,
              PollReject, PollUnlock, NextPort
<1> QED BY <1>2, <1>3 DEF Next, Arrive, vars

\* The poll thread stays on a node of the list: no step of the GUI removes it.
LEMMA ScanStep == Inv /\ [Next]_vars => ScanInv'
<1> SUFFICES ASSUME Inv, [Next]_vars PROVE ScanInv'
  OBVIOUS
<1>1. CASE UNCHANGED pollVars
  <2>1. ppc # "sleep" => UNCHANGED modbus_list
    BY ListStable DEF Inv
  <2> QED BY <1>1, <2>1 DEF Inv, ScanInv, pollVars, Registered
<1>2. CASE Poll
  <2>1. \A c : \/ NextPos(modbus_list, c) = 0
              \/ \E n \in modbus_list : n.pos = NextPos(modbus_list, c)
    BY NextNode DEF Inv, TypeOK, PortNode
  <2>2. CASE PollLock \/ PollTimeout \/ PollIgnore \/ PollReject
    BY <2>1, <2>2 DEF Inv, ScanInv, PollLock, PollTimeout, PollIgnore, PollReject,
                      NextPort
  <2>3. CASE PollReceive
    <3>1. Current \in modbus_list
      BY <2>3, CurrentNode DEF Inv, PollReceive
    <3>2. pdev' \in Devices /\ Registered(pdev')
      BY <2>3, <3>1, FoundIsRegistered DEF Inv, PollReceive
    <3>3. UNCHANGED <<modbus_list, cursor>> /\ cursor # 0 /\ ppc = "scan"
      BY <2>3 DEF PollReceive
    <3>4. ppc' \in {"serve", "reject"}
      BY <2>3 DEF PollReceive
    <3> QED BY <3>2, <3>3, <3>4 DEF Inv, ScanInv, Registered
  <2>4. CASE PollServe \/ PollUnlock
    BY <2>4 DEF Inv, ScanInv, PollServe, PollUnlock
  <2> QED BY <1>2, <2>2, <2>3, <2>4 DEF Poll
<1>3. CASE Ui \/ (\E p \in Ports : Arrive(p)) \/ UNCHANGED vars
  BY <1>1, <1>3
     DEF Ui, OpenTab, LoadFails, ClickStart, ClickStop, CloseTab, DestroyDevice,
         Removing, CloseWindow, ClearTables, UiLock, AddToPort, AddPort,
         BaudDiffers, OpenFails, Added, RemoveDevice, FreeDevice, Arrive, vars
<1> QED BY <1>2, <1>3 DEF Next

\* Every port that is open is kept in use after every step (PortsInUse).
LEMMA PortsStep == Inv /\ [Next]_vars => PortsInUse'
<1> SUFFICES ASSUME Inv, [Next]_vars PROVE PortsInUse'
  OBVIOUS
<1> USE DEF Inv
<1>1. CASE UNCHANGED <<modbus_list, opened>>
  BY <1>1 DEF PortsInUse, NodesOf
<1>2. CASE AddToPort
  <2>1. PICK n \in modbus_list : 
          /\ modbus_list' = (modbus_list \ {n}) \cup {WithDevices(n, n.devices \cup
               {[pos |-> EndPos(n.devices), dev |-> job.dev]})}
          /\ UNCHANGED opened
    BY <1>2 DEF AddToPort, NodesOf
  <2> DEFINE n2 == WithDevices(n, n.devices \cup
               {[pos |-> EndPos(n.devices), dev |-> job.dev]})
  <2>2. n2.port = n.port /\ n2.devices # {}
    BY DEF WithDevices
  <2>3. modbus_list' = (modbus_list \ {n}) \cup {n2} /\ UNCHANGED opened
    BY <2>1
  <2> HIDE DEF n2
  <2> QED BY <2>2, <2>3 DEF PortsInUse, NodesOf
<1>3. CASE AddPort
  <2> DEFINE n == [pos |-> EndPos(modbus_list), port |-> Chosen.port,
                   baud |-> Chosen.baud, devices |-> {[pos |-> 1, dev |-> job.dev]}]
  <2>1. n.port = Chosen.port /\ n.devices # {}
    OBVIOUS
  <2>2. /\ modbus_list' = modbus_list \cup {n}
        /\ opened' = opened \cup {Chosen.port}
        /\ \A m \in modbus_list : m.port # Chosen.port
    BY <1>3 DEF AddPort, NodesOf
  <2> HIDE DEF n
  <2> QED BY <2>1, <2>2 DEF PortsInUse, NodesOf
<1>4. CASE RemoveDevice
  <2>1. CASE modbus_list = {}
    BY <1>1, <1>4, <2>1 DEF RemoveDevice, removeDevice
  <2>2. CASE modbus_list # {}
    <3> DEFINE n == First(modbus_list)
               rest == {x \in n.devices : x.dev # job.dev}
    <3>1. n \in modbus_list
      BY <2>2, FirstPort
    <3>2. CASE rest = {}
      <4>1. modbus_list' = modbus_list \ {n} /\ opened' = opened \ {n.port}
        BY <1>4, <2>2, <3>2 DEF RemoveDevice, removeDevice
      <4> HIDE DEF n, rest
      <4> QED BY <3>1, <4>1 DEF PortsInUse, NodesOf
    <3>3. CASE rest # {}
      <4> DEFINE n2 == WithDevices(n, rest)
      <4>1. modbus_list' = (modbus_list \ {n}) \cup {n2} /\ UNCHANGED opened
        BY <1>4, <2>2, <3>3 DEF RemoveDevice, removeDevice
      <4>2. n2.port = n.port /\ n2.devices # {}
        BY <3>3 DEF WithDevices
      <4> HIDE DEF n, rest, n2
      <4> QED BY <3>1, <4>1, <4>2 DEF PortsInUse, NodesOf
    <3> QED BY <3>2, <3>3
  <2> QED BY <2>1, <2>2
<1>5. CASE Ui
  BY <1>1, <1>2, <1>3, <1>4, <1>5
     DEF Ui, OpenTab, LoadFails, ClickStart, ClickStop, CloseTab, DestroyDevice,
         Removing, CloseWindow, ClearTables, UiLock, BaudDiffers, OpenFails,
         FreeDevice
<1>6. CASE Poll
  BY <1>1, <1>6
     DEF Poll, PollLock, PollTimeout, PollIgnore, PollReceive, PollServe,
         PollReject, PollUnlock, NextPort
<1> QED BY <1>1, <1>5, <1>6 DEF Next, Arrive, vars

\* Steps that neither register nor start nor configure a device.
LEMMA WorkingFrame ==
    ASSUME WorkingIsServed, UNCHANGED <<modbus_list, inWork, conf>>
    PROVE  WorkingIsServed'
BY DEF WorkingIsServed, NodesOf, Registers

\* A device whose window says "working" stays registered (WorkingIsServed).
LEMMA WorkingStep == Inv /\ [Next]_vars => WorkingIsServed'
<1> SUFFICES ASSUME Inv, [Next]_vars PROVE WorkingIsServed'
  OBVIOUS
<1> USE DEF Inv
<1>1. ASSUME NEW d \in Devices, NEW p \in Ports, NEW b \in Bauds,
             ClickStart(d, p, b)
      PROVE  WorkingIsServed'
  <2>1. \A e \in Devices : inWork'[e] => inWork[e] /\ conf'[e] = conf[e]
    BY <1>1 DEF ClickStart, TypeOK
  <2> QED BY <1>1, <2>1 DEF ClickStart, WorkingIsServed, NodesOf, Registers
<1>2. CASE AddToPort
  <2>1. job.dev \in Devices
    BY <1>2 DEF TypeOK, HandlerInv, AddToPort, Jobs
  <2>2. PICK n \in modbus_list :
          /\ n.port = Chosen.port /\ n.baud = Chosen.baud
          /\ modbus_list' = (modbus_list \ {n}) \cup {WithDevices(n, n.devices \cup
               {[pos |-> EndPos(n.devices), dev |-> job.dev]})}
    BY <1>2 DEF AddToPort, NodesOf
  <2> DEFINE x  == [pos |-> EndPos(n.devices), dev |-> job.dev]
             n2 == WithDevices(n, n.devices \cup {x})
  <2>3. /\ n2.port = n.port /\ n2.baud = n.baud
        /\ n2.devices = n.devices \cup {x} /\ x.dev = job.dev
    BY DEF WithDevices
  <2>4. modbus_list' = (modbus_list \ {n}) \cup {n2}
    BY <2>2
  <2>5. UNCHANGED conf /\ inWork' = [inWork EXCEPT ![job.dev] = TRUE]
    BY <1>2 DEF AddToPort, Added
  <2> HIDE DEF x, n2
  <2>6. ASSUME NEW d \in Devices, inWork'[d]
        PROVE  \E m \in modbus_list' :
                  /\ m.port = conf[d].port /\ m.baud = conf[d].baud
                  /\ \E y \in m.devices : y.dev = d
    <3>1. CASE d = job.dev
      BY <2>2, <2>3, <2>4, <3>1 DEF Chosen
    <3>2. CASE d # job.dev
      <4>1. inWork[d]
        BY <2>5, <2>6, <3>2 DEF TypeOK
      <4>2. PICK m \in modbus_list :
                  /\ m.port = conf[d].port /\ m.baud = conf[d].baud
                  /\ \E y \in m.devices : y.dev = d
        BY <4>1 DEF WorkingIsServed, NodesOf, Registers
      <4> QED BY <2>3, <2>4, <4>2
    <3> QED BY <3>1, <3>2
  <2> QED BY <2>5, <2>6 DEF WorkingIsServed, NodesOf, Registers
<1>3. CASE AddPort
  <2>1. job.dev \in Devices
    BY <1>3 DEF TypeOK, HandlerInv, AddPort, Jobs
  <2> DEFINE x == [pos |-> 1, dev |-> job.dev]
             n == [pos |-> EndPos(modbus_list), port |-> Chosen.port,
                   baud |-> Chosen.baud, devices |-> {x}]
  <2>2. n.port = Chosen.port /\ n.baud = Chosen.baud /\ x \in n.devices
        /\ x.dev = job.dev
    OBVIOUS
  <2>3. /\ modbus_list' = modbus_list \cup {n}
        /\ UNCHANGED conf /\ inWork' = [inWork EXCEPT ![job.dev] = TRUE]
    BY <1>3 DEF AddPort, Added
  <2> HIDE DEF x, n
  <2>4. ASSUME NEW d \in Devices, inWork'[d]
        PROVE  \E m \in modbus_list' :
                  /\ m.port = conf[d].port /\ m.baud = conf[d].baud
                  /\ \E y \in m.devices : y.dev = d
    <3>1. CASE d = job.dev
      BY <2>2, <2>3, <3>1 DEF Chosen
    <3>2. CASE d # job.dev
      <4>1. inWork[d]
        BY <2>3, <2>4, <3>2 DEF TypeOK
      <4> QED BY <2>3, <4>1 DEF WorkingIsServed, NodesOf, Registers
    <3> QED BY <3>1, <3>2
  <2> QED BY <2>3, <2>4 DEF WorkingIsServed, NodesOf, Registers
<1>4. CASE BaudDiffers \/ OpenFails
  <2>1. /\ UNCHANGED <<modbus_list, conf>>
        /\ inWork' = [inWork EXCEPT ![job.dev] = FALSE]
    BY <1>4 DEF BaudDiffers, OpenFails, Added
  <2> QED BY <2>1 DEF WorkingIsServed, NodesOf, Registers, TypeOK
<1>5. CASE RemoveDevice
  <2>1. UNCHANGED conf /\ inWork' = [inWork EXCEPT ![job.dev] = FALSE]
    BY <1>5 DEF RemoveDevice
  <2>2. ASSUME NEW d \in Devices, inWork'[d]
        PROVE  \E m \in modbus_list' :
                  /\ m.port = conf[d].port /\ m.baud = conf[d].baud
                  /\ \E y \in m.devices : y.dev = d
    <3>1. inWork[d] /\ d # job.dev
      BY <2>1, <2>2 DEF TypeOK
    <3>2. PICK m \in modbus_list : /\ m.port = conf[d].port /\ m.baud = conf[d].baud
                                   /\ \E y \in m.devices : y.dev = d
      BY <3>1 DEF WorkingIsServed, NodesOf, Registers
    <3> DEFINE n == First(modbus_list)
               rest == {y \in n.devices : y.dev # job.dev}
               n2 == WithDevices(n, rest)
    <3>3. \/ rest = {} /\ modbus_list' = modbus_list \ {n}
          \/ modbus_list' = (modbus_list \ {n}) \cup {n2}
      BY <1>5, <3>2 DEF RemoveDevice, removeDevice
    <3>4. n2.port = n.port /\ n2.baud = n.baud /\ n2.devices = rest
      BY DEF WithDevices
    <3>5. m = n => \E y \in rest : y.dev = d
      BY <3>1, <3>2
    <3> HIDE DEF n, rest, n2
    <3> QED BY <3>2, <3>3, <3>4, <3>5
  <2> QED BY <2>1, <2>2 DEF WorkingIsServed, NodesOf, Registers
<1>6. ASSUME NEW d \in Devices, \/ OpenTab(d) \/ LoadFails(d) \/ ClickStop(d)
                              \/ CloseTab(d) \/ DestroyDevice(d)
      PROVE  WorkingIsServed'
  BY <1>6, WorkingFrame
     DEF OpenTab, LoadFails, ClickStop, CloseTab, DestroyDevice, Removing
<1>7. CASE CloseWindow \/ ClearTables \/ UiLock \/ FreeDevice
  BY <1>7, WorkingFrame DEF CloseWindow, ClearTables, UiLock, FreeDevice
<1>8. CASE Poll
  BY <1>8, WorkingFrame
     DEF Poll, PollLock, PollTimeout, PollIgnore, PollReceive, PollServe,
         PollReject, PollUnlock, NextPort, uiVars
<1>9. CASE (\E p \in Ports : Arrive(p)) \/ UNCHANGED vars
  BY <1>9, WorkingFrame DEF Arrive, vars, uiVars
<1> QED BY <1>1, <1>2, <1>3, <1>4, <1>5, <1>6, <1>7, <1>8, <1>9 DEF Next, Ui

-----------------------------------------------------------------------------
(* What holds of the registry for any number of ports. *)

\* The inductive invariant: types, the mutex, what the two threads rely on,
\* the ports in use and the devices that work.
THEOREM Invariant == Spec => []Inv
<1>1. Inv /\ [Next]_vars => Inv'
  BY TypeStep, LockStep, HandlerStep, ScanStep, PortsStep, WorkingStep DEF Inv
<1> QED BY InvInit, <1>1, PTL DEF Spec

\* Every variable of the registry and of its two threads keeps its type.
THEOREM TypeCorrect == Spec => []TypeOK
<1>1. Inv => TypeOK
  BY DEF Inv
<1> QED BY Invariant, <1>1, PTL

\* The polling thread never sees the lists change while it walks them.
THEOREM ListsAreStable == Spec => RegistryStable
<1>1. LockInv /\ [Next]_vars => [ppc # "sleep" => UNCHANGED modbus_list]_vars
  BY ListStable
<1>2. Inv => LockInv
  BY DEF Inv
<1> QED BY Invariant, <1>1, <1>2, PTL DEF Spec, RegistryStable

\* No port is opened twice, leaked, or kept open without a device.
THEOREM PortsAreInUse == Spec => []PortsInUse
<1>1. Inv => PortsInUse
  BY DEF Inv
<1> QED BY Invariant, <1>1, PTL

\* A device that works is registered where its window says, whatever happens
\* to the other devices.
THEOREM WorkingDeviceIsServed == Spec => []WorkingIsServed
<1>1. Inv => WorkingIsServed
  BY DEF Inv
<1> QED BY Invariant, <1>1, PTL

-----------------------------------------------------------------------------
(* One port.  The list has at most one node, the one removeDevice looks at. *)

SingleInv == Inv /\ StoppedIsSilent /\ RegisteredOnce

\* With one port the list has at most one node.
LEMMA OneNode ==
    ASSUME OnePort, TypeOK, PortsInUse
    PROVE  \A n, m \in modbus_list : n = m
BY DEF OnePort, TypeOK, PortNode, PortsInUse, NodesOf

\* Steps that neither register nor stop a device.
LEMMA SilentFrame ==
    ASSUME StoppedIsSilent, RegisteredOnce, UNCHANGED <<modbus_list, inWork>>
    PROVE  StoppedIsSilent' /\ RegisteredOnce'
BY DEF StoppedIsSilent, RegisteredOnce, Registered, Registers

\* With one port, removeDevice's break after the first node leaves nothing
\* behind, and a device is registered once.
LEMMA SilentStep ==
    ASSUME OnePort, SingleInv, [Next]_vars
    PROVE  StoppedIsSilent' /\ RegisteredOnce'
<1> USE DEF SingleInv, Inv
<1>1. CASE AddToPort
  <2>1. job.dev \in Devices /\ ~inWork[job.dev]
    BY <1>1 DEF TypeOK, HandlerInv, AddToPort, Jobs
  <2>2. PICK n \in modbus_list :
          modbus_list' = (modbus_list \ {n}) \cup {WithDevices(n, n.devices \cup
               {[pos |-> EndPos(n.devices), dev |-> job.dev]})}
    BY <1>1 DEF AddToPort, NodesOf
  <2> DEFINE x  == [pos |-> EndPos(n.devices), dev |-> job.dev]
             n2 == WithDevices(n, n.devices \cup {x})
  <2>3. n2.devices = n.devices \cup {x} /\ x.dev = job.dev
    BY DEF WithDevices
  <2>4. modbus_list' = (modbus_list \ {n}) \cup {n2}
    BY <2>2
  <2>5. inWork' = [inWork EXCEPT ![job.dev] = TRUE]
    BY <1>1 DEF AddToPort, Added
  <2> HIDE DEF x, n2
  <2>6. \A y \in n.devices : y.dev # job.dev
    BY <2>1 DEF StoppedIsSilent, Registered, Registers
  <2>7. RegisteredOnce'
    BY <2>3, <2>4, <2>6 DEF RegisteredOnce
  <2>8. StoppedIsSilent'
    BY <2>3, <2>4, <2>5 DEF StoppedIsSilent, Registered, Registers, TypeOK
  <2> QED BY <2>7, <2>8
<1>2. CASE AddPort
  <2> DEFINE x == [pos |-> 1, dev |-> job.dev]
             n == [pos |-> EndPos(modbus_list), port |-> Chosen.port,
                   baud |-> Chosen.baud, devices |-> {x}]
  <2>1. n.devices = {x} /\ x.dev = job.dev
    OBVIOUS
  <2>2. /\ modbus_list' = modbus_list \cup {n}
        /\ inWork' = [inWork EXCEPT ![job.dev] = TRUE]
    BY <1>2 DEF AddPort, Added
  <2> HIDE DEF x, n
  <2> QED BY <2>1, <2>2
          DEF StoppedIsSilent, RegisteredOnce, Registered, Registers, TypeOK
<1>3. CASE BaudDiffers \/ OpenFails
  <2>1. /\ UNCHANGED modbus_list
        /\ inWork' = [inWork EXCEPT ![job.dev] = FALSE]
    BY <1>3 DEF BaudDiffers, OpenFails, Added
  <2>2. ~inWork[job.dev] /\ job.dev \in Devices
    BY <1>3 DEF TypeOK, HandlerInv, BaudDiffers, OpenFails, Jobs
  <2> QED BY <2>1, <2>2
          DEF StoppedIsSilent, RegisteredOnce, Registered, Registers, TypeOK
<1>4. CASE RemoveDevice
  <2>1. inWork' = [inWork EXCEPT ![job.dev] = FALSE]
    BY <1>4 DEF RemoveDevice
  <2>2. CASE modbus_list = {}
    BY <1>4, <2>2 DEF RemoveDevice, removeDevice, StoppedIsSilent, RegisteredOnce,
                      Registered
  <2>3. CASE modbus_list # {}
    <3> DEFINE n == First(modbus_list)
               rest == {y \in n.devices : y.dev # job.dev}
               n2 == WithDevices(n, rest)
    <3>1. n \in modbus_list
      BY <2>3, FirstPort
    <3>2. modbus_list = {n}
      BY <3>1, OneNode
    <3>3. modbus_list' = modbus_list \ {n} \/ modbus_list' = (modbus_list \ {n}) \cup {n2}
      BY <1>4, <2>3 DEF RemoveDevice, removeDevice
    <3>4. n2.devices = rest
      BY DEF WithDevices
    <3>5. \A y \in rest : y \in n.devices /\ y.dev # job.dev
      OBVIOUS
    <3> HIDE DEF n, rest, n2
    <3>6. RegisteredOnce'
      BY <3>1, <3>2, <3>3, <3>4, <3>5 DEF RegisteredOnce
    <3>7. ASSUME NEW d \in Devices, Registered(d)'
          PROVE  inWork'[d]
      <4>1. d # job.dev /\ Registered(d)
        BY <3>1, <3>2, <3>3, <3>4, <3>5, <3>7 DEF Registered, Registers
      <4> QED BY <2>1, <4>1 DEF StoppedIsSilent, TypeOK
    <3> QED BY <3>6, <3>7 DEF StoppedIsSilent
  <2> QED BY <2>2, <2>3
<1>5. ASSUME NEW d \in Devices, \/ OpenTab(d) \/ LoadFails(d) \/ ClickStop(d)
                              \/ CloseTab(d) \/ DestroyDevice(d)
      PROVE  StoppedIsSilent' /\ RegisteredOnce'
  BY <1>5, SilentFrame
     DEF OpenTab, LoadFails, ClickStop, CloseTab, DestroyDevice, Removing
<1>6. ASSUME NEW d \in Devices, NEW p \in Ports, NEW b \in Bauds,
             ClickStart(d, p, b)
      PROVE  StoppedIsSilent' /\ RegisteredOnce'
  BY <1>6, SilentFrame DEF ClickStart
<1>7. CASE CloseWindow \/ ClearTables \/ UiLock \/ FreeDevice
  BY <1>7, SilentFrame DEF CloseWindow, ClearTables, UiLock, FreeDevice
<1>8. CASE Poll
  BY <1>8, SilentFrame
     DEF Poll, PollLock, PollTimeout, PollIgnore, PollReceive, PollServe,
         PollReject, PollUnlock, NextPort, uiVars
<1>9. CASE (\E p \in Ports : Arrive(p)) \/ UNCHANGED vars
  BY <1>9, SilentFrame DEF Arrive, vars, uiVars
<1> QED BY <1>1, <1>2, <1>3, <1>4, <1>5, <1>6, <1>7, <1>8, <1>9 DEF Next, Ui

\* With one port the stronger invariant holds in every state: what holds of any
\* number of ports, and that a stopped device is silent and registered once.
THEOREM SinglePortInvariant == ASSUME OnePort PROVE Spec => []SingleInv
<1>1. Init => SingleInv
  BY InvInit DEF Init, SingleInv, StoppedIsSilent, RegisteredOnce, Registered
<1>2. SingleInv /\ [Next]_vars => SingleInv'
  BY SilentStep, TypeStep, LockStep, HandlerStep, ScanStep, PortsStep,
     WorkingStep DEF SingleInv, Inv
<1> QED BY <1>1, <1>2, PTL DEF Spec

\* On one port, a device that was stopped or whose tab was closed is not
\* registered any more.
THEOREM StoppedDeviceIsSilent == ASSUME OnePort PROVE Spec => []StoppedIsSilent
<1>1. SingleInv => StoppedIsSilent
  BY DEF SingleInv
<1> QED BY SinglePortInvariant, <1>1, PTL

\* On one port, the polling thread never follows the pointer of a device
\* that has been freed, not even while the window is being destroyed.
THEOREM NoDanglingPointer == ASSUME OnePort PROVE Spec => []NoDanglingDevice
<1>1. SingleInv => NoDanglingDevice
  BY DEF SingleInv, Inv, HandlerInv, StoppedIsSilent, NoDanglingDevice, Alive
<1> QED BY SinglePortInvariant, <1>1, PTL

\* On one port, switchOn clears the tables of a device that the polling
\* thread is not serving, although it does not hold the mutex.
THEOREM ClearIsUndisturbed == ASSUME OnePort PROVE Spec => []ClearUndisturbed
<1>1. SingleInv => ClearUndisturbed
  BY NoneAssumption
     DEF SingleInv, Inv, TypeOK, HandlerInv, ScanInv, StoppedIsSilent,
         ClearUndisturbed, Jobs
<1> QED BY SinglePortInvariant, <1>1, PTL

-----------------------------------------------------------------------------
(* On one port, ModbusPoll implements DeviceSwitch. *)

\* The cases of the mapped switch, which exclude each other.
LEMMA SwitchValues ==
    ASSUME NEW d \in Devices
    PROVE  /\ Starting /\ job.dev = d => SwitchOf(d) = "starting"
           /\ Stopping /\ job.dev = d /\ inWork[d] => SwitchOf(d) = "stopping"
           /\ inWork[d] /\ (upc = "events" \/ job.dev # d) => SwitchOf(d) = "on"
           /\ ~inWork[d] /\ ~(Starting /\ job.dev = d) => SwitchOf(d) = "off"
<1>1. CASE Starting /\ job.dev = d
  BY <1>1 DEF SwitchOf, Starting, Stopping
<1>2. CASE Stopping /\ job.dev = d /\ inWork[d]
  BY <1>2 DEF SwitchOf, Starting, Stopping
<1>3. CASE inWork[d] /\ (upc = "events" \/ job.dev # d)
  BY <1>3 DEF SwitchOf, Starting, Stopping
<1>4. CASE ~inWork[d] /\ ~(Starting /\ job.dev = d)
  BY <1>4 DEF SwitchOf
<1> QED  BY <1>1, <1>2, <1>3, <1>4

\* A handler changes the switch of no device but its own.
LEMMA OtherSwitches ==
    ASSUME NEW d \in Devices, NEW e \in Devices, e # d,
           upc = "events" \/ job.dev = d,
           upc' = "events" \/ job'.dev = d,
           inWork'[e] = inWork[e], inWork[e] \in BOOLEAN
    PROVE  SwitchOf(e)' = SwitchOf(e)
<1>1. CASE inWork[e]
  BY <1>1 DEF SwitchOf, Starting, Stopping
<1>2. CASE ~inWork[e]
  BY <1>2 DEF SwitchOf, Starting, Stopping
<1> QED  BY <1>1, <1>2

\* Steps of DeviceSwitch, device by device.
LEMMA TurnsSwitch ==
    ASSUME NEW d \in Devices, NEW from, SwitchOf(d) \in from, pdev' = pdev,
           \A e \in Devices : e # d => SwitchOf(e)' = SwitchOf(e)
    PROVE  Switch!Turn(d, from, SwitchOf(d)')
  BY DEF Switch!Turn

LEMMA KeepsSwitches ==
    ASSUME pdev' = pdev, \A e \in Devices : SwitchOf(e)' = SwitchOf(e)
    PROVE  UNCHANGED Switch!svars
  BY DEF Switch!svars

\* Every step is one of DeviceSwitch or a stutter: the handlers of the GUI turn
\* the switch, the polling thread serves only who is registered, and that is
\* a device that is on or whose stop waits for the mutex.
LEMMA SwitchStep ==
    ASSUME OnePort, SingleInv, [Next]_vars
    PROVE  [Switch!SNext]_(Switch!svars)
<1> USE DEF SingleInv, Inv
<1>1. \A d \in Devices : inWork[d] \in BOOLEAN
  BY DEF TypeOK
<1>2. upc = "events" <=> job = None
  BY DEF HandlerInv
<1>3. ASSUME UNCHANGED <<upc, job, inWork, pdev>>
      PROVE  UNCHANGED Switch!svars
  <2>1. \A e \in Devices : SwitchOf(e)' = SwitchOf(e)
    BY <1>3 DEF SwitchOf, Starting, Stopping
  <2> QED  BY <1>3, <2>1, KeepsSwitches
\* A handler of d takes a step.
<1>4. ASSUME NEW d \in Devices, upc = "events" \/ job.dev = d,
             upc' = "events" \/ job'.dev = d,
             pdev' = pdev, \A e \in Devices : e # d => inWork'[e] = inWork[e]
      PROVE  /\ \A e \in Devices : e # d => SwitchOf(e)' = SwitchOf(e)
             /\ SwitchOf(d)' = SwitchOf(d) => UNCHANGED Switch!svars
             /\ \A from : SwitchOf(d) \in from => Switch!Turn(d, from, SwitchOf(d)')
  <2>1. \A e \in Devices : e # d => SwitchOf(e)' = SwitchOf(e)
    BY <1>1, <1>4, OtherSwitches
  <2>2. SwitchOf(d)' = SwitchOf(d) => UNCHANGED Switch!svars
    BY <1>4, <2>1, KeepsSwitches
  <2>3. \A from : SwitchOf(d) \in from => Switch!Turn(d, from, SwitchOf(d)')
    BY <1>4, <2>1, TurnsSwitch
  <2> QED  BY <2>1, <2>2, <2>3
<1>5. ASSUME NEW d \in Devices, NEW p \in Ports, NEW b \in Bauds, ClickStart(d, p, b)
      PROVE  Switch!Start(d)
  <2>1. /\ upc = "events" /\ upc' = "clear" /\ job'.dev = d
        /\ ~inWork[d] /\ inWork' = inWork /\ pdev' = pdev
    BY <1>5 DEF ClickStart, Idle, Handler, pollVars
  <2>2. SwitchOf(d) = "off" /\ SwitchOf(d)' = "starting"
    BY <2>1 DEF SwitchOf, Starting, Stopping
  <2>3. Switch!Turn(d, {"off"}, SwitchOf(d)')
    BY <1>4, <2>1, <2>2
  <2> QED  BY <2>2, <2>3 DEF Switch!Start
<1>6. ASSUME NEW d \in Devices, NEW why, Idle, Removing(d, why)
      PROVE  Switch!Stop(d) \/ UNCHANGED Switch!svars
  <2>1. /\ upc = "events" /\ upc' = "remove" /\ job'.dev = d
        /\ inWork' = inWork /\ pdev' = pdev
    BY <1>6 DEF Removing, Idle, Handler, pollVars
  <2>2. CASE inWork[d]
    <3>1. SwitchOf(d) = "on" /\ SwitchOf(d)' = "stopping"
      BY <2>1, <2>2 DEF SwitchOf, Starting, Stopping
    <3>2. Switch!Turn(d, {"on"}, SwitchOf(d)')
      BY <1>4, <2>1, <3>1
    <3> QED  BY <3>1, <3>2 DEF Switch!Stop
  <2>3. CASE ~inWork[d]
    <3>1. SwitchOf(d)' = SwitchOf(d)
      BY <2>1, <2>3 DEF SwitchOf, Starting, Stopping
    <3> QED  BY <1>4, <2>1, <3>1
  <2> QED  BY <2>2, <2>3
<1>7. ASSUME NEW d \in Devices,
             \/ OpenTab(d) \/ LoadFails(d) \/ ClickStop(d) \/ CloseTab(d) \/ DestroyDevice(d)
      PROVE  [Switch!SNext]_(Switch!svars)
  <2>1. CASE OpenTab(d)
    BY <2>1, <1>3 DEF OpenTab, pollVars
  <2>2. CASE LoadFails(d)
    <3>1. /\ upc = "events" /\ upc' = "remove" /\ job'.dev = d
          /\ ~inWork[d] /\ inWork' = inWork /\ pdev' = pdev
      BY <2>2, <1>1 DEF LoadFails, Idle, Handler, pollVars, HandlerInv
    <3>2. SwitchOf(d)' = SwitchOf(d)
      BY <3>1 DEF SwitchOf, Starting, Stopping
    <3> QED  BY <1>4, <3>1, <3>2
  <2>3. CASE ClickStop(d) \/ CloseTab(d) \/ DestroyDevice(d)
    <3>1. PICK why : Idle /\ Removing(d, why)
      BY <2>3 DEF ClickStop, CloseTab, DestroyDevice
    <3> QED  BY <3>1, <1>6 DEF Switch!SNext
  <2> QED  BY <1>7, <2>1, <2>2, <2>3
<1>8. CASE CloseWindow
  BY <1>8, <1>3 DEF CloseWindow, pollVars
\* A handler in progress has its device, and goes on or ends.
<1>9. upc # "events" => job \in Jobs /\ job.dev \in Devices
  BY <1>2 DEF TypeOK, Jobs
<1>10. CASE ClearTables \/ UiLock
  <2>1. /\ upc # "events" /\ job' = job /\ inWork' = inWork /\ pdev' = pdev
        /\ \/ upc = "clear" /\ upc' = "add"
           \/ upc = "add" /\ upc' = "adding"
           \/ upc = "remove" /\ upc' = "removing"
    BY <1>10 DEF ClearTables, UiLock, Handler, pollVars
  <2>2. PICK d \in Devices : d = job.dev
    BY <1>9, <2>1
  <2>3. SwitchOf(d)' = SwitchOf(d)
    BY <2>1, <2>2 DEF SwitchOf, Starting, Stopping
  <2> QED  BY <1>4, <2>1, <2>2, <2>3
<1>11. ASSUME upc = "adding", NEW ok \in BOOLEAN, Added(ok)
       PROVE  \E d \in Devices : Switch!Started(d) \/ Switch!Refused(d)
  <2>1. /\ upc' = "events" /\ pdev' = pdev
        /\ inWork' = [inWork EXCEPT ![job.dev] = ok]
    BY <1>11 DEF Added, Handler, pollVars
  <2>2. PICK d \in Devices : d = job.dev
    BY <1>9, <1>11
  <2>3. inWork'[d] = ok /\ \A e \in Devices : e # d => inWork'[e] = inWork[e]
    BY <2>1, <2>2 DEF TypeOK
  <2>4. SwitchOf(d) = "starting"
    BY <1>11, <2>2 DEF SwitchOf, Starting, Stopping
  <2>5. \A from : SwitchOf(d) \in from => Switch!Turn(d, from, SwitchOf(d)')
    BY <1>4, <1>11, <2>1, <2>2, <2>3
  <2>6. CASE ok
    <3>1. SwitchOf(d)' = "on"
      BY <2>1, <2>3, <2>6 DEF SwitchOf, Starting, Stopping
    <3> QED  BY <2>4, <2>5, <3>1 DEF Switch!Started
  <2>7. CASE ~ok
    <3>1. SwitchOf(d)' = "off"
      BY <2>1, <2>3, <2>7 DEF SwitchOf, Starting, Stopping
    <3> QED  BY <2>4, <2>5, <3>1 DEF Switch!Refused
  <2> QED  BY <2>6, <2>7
<1>12. CASE AddToPort \/ AddPort \/ BaudDiffers \/ OpenFails
  <2>1. upc = "adding" /\ \E ok \in BOOLEAN : Added(ok)
    BY <1>12 DEF AddToPort, AddPort, BaudDiffers, OpenFails
  <2> QED  BY <1>11, <2>1 DEF Switch!SNext
\* The mutex is held, so that nobody is served when a stop ends.
<1>13. CASE RemoveDevice
  <2>1. /\ upc = "removing" /\ pdev' = pdev
        /\ upc' = "events" \/ (upc' = "free" /\ job' = job)
        /\ inWork' = [inWork EXCEPT ![job.dev] = FALSE]
    <3>1. CASE job.why \in {"stop", "close"}
      BY <1>13, <3>1 DEF RemoveDevice, Handler, pollVars
    <3>2. CASE job.why \notin {"stop", "close"}
      BY <1>13, <3>2 DEF RemoveDevice, Handler, pollVars
    <3> QED  BY <3>1, <3>2
  <2>2. PICK d \in Devices : d = job.dev
    BY <1>9, <2>1
  <2>3. ~inWork'[d] /\ \A e \in Devices : e # d => inWork'[e] = inWork[e]
    BY <2>1, <2>2 DEF TypeOK
  <2>4. d \notin {e \in Devices : pdev = e}
    BY <2>1, NoneAssumption DEF LockInv, ScanInv
  <2>5. SwitchOf(d) \in {"off", "stopping"} /\ SwitchOf(d)' = "off"
    BY <2>1, <2>2, <2>3 DEF SwitchOf, Starting, Stopping
  <2>6. /\ SwitchOf(d)' = SwitchOf(d) => UNCHANGED Switch!svars
        /\ \A from : SwitchOf(d) \in from => Switch!Turn(d, from, SwitchOf(d)')
    BY <1>4, <2>1, <2>2, <2>3
  <2>7. CASE SwitchOf(d) = "stopping"
    <3>1. Switch!Turn(d, {"on", "stopping"}, "off")
      BY <2>5, <2>6, <2>7
    <3> QED  BY <2>4, <3>1 DEF Switch!SNext, Switch!Stopped
  <2>8. CASE SwitchOf(d) = "off"
    BY <2>5, <2>6, <2>8
  <2> QED  BY <2>5, <2>7, <2>8
<1>14. CASE FreeDevice
  <2>1. /\ upc = "free" /\ upc' = "events" /\ inWork' = inWork /\ pdev' = pdev
        /\ ~inWork[job.dev]
    BY <1>14 DEF FreeDevice, Handler, pollVars, HandlerInv
  <2>2. PICK d \in Devices : d = job.dev
    BY <1>9, <2>1
  <2>3. SwitchOf(d)' = SwitchOf(d)
    BY <2>1, <2>2 DEF SwitchOf, Starting, Stopping
  <2> QED  BY <1>4, <2>1, <2>2, <2>3
\* The polling thread.
<1>15. ASSUME UNCHANGED <<upc, job, inWork>>
       PROVE  UNCHANGED [d \in Devices |-> SwitchOf(d)]
  BY <1>15 DEF SwitchOf, Starting, Stopping
<1>16. CASE PollReceive
  <2>1. /\ UNCHANGED <<upc, job, inWork>>
        /\ ppc = "scan" /\ cursor # 0 /\ pdev' # None /\ mutex = "poll"
    BY <1>16 DEF PollReceive, uiVars, LockInv
  <2>2. PICK s : pdev' = findDevice(Current, s)
    BY <1>16 DEF PollReceive
  <2>3. Current \in modbus_list
    BY <2>1, CurrentNode DEF ScanInv
  <2>4. PICK d \in Devices : d = pdev' /\ Registered(d)
    BY <2>1, <2>2, <2>3, FoundIsRegistered
  <2>5. inWork[d] /\ upc \notin {"adding", "removing"}
    BY <2>1, <2>4 DEF StoppedIsSilent, LockInv
  <2>6. SwitchOf(d) \in {"on", "stopping"}
    BY <2>4, <2>5 DEF SwitchOf, Starting, Stopping, HandlerInv, TypeOK
  <2>7. pdev = None /\ d \notin {e \in Devices : pdev = e}
    BY <2>1, <2>4, NoneAssumption DEF ScanInv
  <2>8. {e \in Devices : pdev' = e} = {e \in Devices : pdev = e} \cup {d}
    BY <2>4, <2>7, NoneAssumption
  <2>9. Switch!Serve(d)
    BY <1>15, <2>1, <2>4, <2>6, <2>7, <2>8 DEF Switch!Serve
  <2> QED  BY <2>9 DEF Switch!SNext
<1>17. CASE PollServe \/ PollReject
  <2>1. /\ UNCHANGED <<upc, job, inWork>>
        /\ pdev \in Devices /\ pdev' = None
    BY <1>17 DEF PollServe, PollReject, NextPort, uiVars, ScanInv
  <2>2. PICK d \in Devices : d = pdev
    BY <2>1
  <2>3. {e \in Devices : pdev' = e} = {e \in Devices : pdev = e} \ {d}
    BY <2>1, <2>2, NoneAssumption
  <2>4. Switch!Served(d)
    BY <1>15, <2>1, <2>2, <2>3 DEF Switch!Served
  <2> QED  BY <2>4 DEF Switch!SNext
<1>18. CASE PollLock \/ PollTimeout \/ PollIgnore \/ PollUnlock
  <2>1. UNCHANGED <<upc, job, inWork, pdev>>
    BY <1>18 DEF PollLock, PollTimeout, PollIgnore, PollUnlock, NextPort, uiVars, ScanInv
  <2> QED  BY <1>3, <2>1
<1>19. ASSUME NEW p \in Ports, Arrive(p)
       PROVE  UNCHANGED Switch!svars
  BY <1>3, <1>19 DEF Arrive, uiVars, pollVars
<1>20. CASE UNCHANGED vars
  BY <1>3, <1>20 DEF vars, uiVars, pollVars
<1>21. ASSUME NEW d \in Devices, Switch!Start(d)
       PROVE  Switch!SNext
  BY <1>21 DEF Switch!SNext
<1> QED
  BY <1>5, <1>7, <1>8, <1>10, <1>12, <1>13, <1>14, <1>16, <1>17, <1>18, <1>19, <1>20,
     <1>21 DEF Next, Ui, Poll

\* On one port the registry, the polling thread and the handlers of the GUI
\* together implement what Start and Stop promise.
THEOREM StartsAndStops == ASSUME OnePort PROVE Spec => SwitchesAsPromised
<1>1. Init => Switch!SInit
  <2> SUFFICES ASSUME Init PROVE Switch!SInit
    OBVIOUS
  <2>1. \A d \in Devices : SwitchOf(d) = "off" /\ pdev # d
    BY NoneAssumption DEF Init, SwitchOf, Starting, Stopping
  <2> QED  BY <2>1 DEF Switch!SInit
<1>2. SingleInv /\ [Next]_vars => [Switch!SNext]_(Switch!svars)
  BY SwitchStep
<1> QED  BY <1>1, <1>2, SinglePortInvariant, PTL DEF Spec, SwitchesAsPromised, Switch!SSpec

-----------------------------------------------------------------------------
(***************************************************************************)
(* The reader of JsonText, on any documents.                               *)
(***************************************************************************)

\* Paths, and the stack, are sequences of whatever they are made of.
IsSeq(p) == \E S : p \in Seq(S)

IsBelow(q, p) == Len(q) > Len(p) /\ SubSeq(q, 1, Len(p)) = p

Containers == {"readObject", "readArray"}

\* A frame has the fields of its function.
IsFrame(f) ==
  \/ f = ValueOf(f.at)
  \/ f = [fn |-> "readObject", at |-> f.at, pc |-> f.pc, named |-> f.named]
  \/ f = [fn |-> "readArray", at |-> f.at, pc |-> f.pc, index |-> f.index]
  \/ f = RecoverAt(f.at, f.until)

\* The calls in progress: each is one step further down than its caller, which
\* reads an object or an array, and none has lost its value.
CallsInv(calls, outcome, tree) ==
  /\ IsSeq(calls)
  /\ outcome \in {"none", "ok", "error"}
  /\ \A n \in 1..Len(calls) :
       /\ IsFrame(calls[n]) /\ IsSeq(calls[n].at)
       /\ Len(calls[n].at) = n - 1
       /\ calls[n].at \in DOMAIN tree
       /\ (n < Len(calls) \/ outcome # "none") => calls[n].fn \in Containers

\* The last value is never below a value about to be read, and below one whose
\* object or array is read only as its child.
LastInv(last, calls, outcome, tree) ==
  /\ last \subseteq DOMAIN tree
  /\ \A q \in last : IsSeq(q)
  /\ outcome = "ok" => \A q \in last : Len(q) = Len(calls)
  /\ (outcome = "none" /\ calls # << >>) =>
       \A q \in last : IsBelow(q, Last(calls).at) =>
          /\ Last(calls).fn # "readValue"
          /\ Last(calls).fn \in Containers => Len(q) = Len(Last(calls).at) + 1

ReaderInv ==
  /\ strict => lastValue_ = {}
  /\ status = "reading" =>
       /\ CallsInv(stack, result, root)
       /\ LastInv(lastValue_, stack, result, root)

LEMMA AppendIsSeq ==
  ASSUME NEW p, IsSeq(p), NEW x
  PROVE  /\ IsSeq(Append(p, x))
         /\ Len(p) \in Nat
         /\ Len(Append(p, x)) = Len(p) + 1
         /\ \A n \in 1..Len(p) : Append(p, x)[n] = p[n]
         /\ Append(p, x)[Len(p) + 1] = x
         /\ Append(p, x) # << >>
<1>1. PICK S : p \in Seq(S)
  BY DEF IsSeq
<1> DEFINE T == S \cup {x}
<1>2. p \in Seq(T)
  <2>1. S \subseteq T
    OBVIOUS
  <2> QED  BY <1>1, <2>1, SeqMonotonic
<1>3. x \in T
  OBVIOUS
<1> HIDE DEF T
<1> QED  BY <1>2, <1>3, AppendProperties, LenProperties DEF IsSeq

\* A frame in place of the innermost, or one less.
LEMMA FrontIsSeq ==
  ASSUME NEW p, IsSeq(p), p # << >>
  PROVE  /\ IsSeq(Front(p))
         /\ Len(p) \in Nat /\ Len(p) > 0
         /\ Len(Front(p)) = Len(p) - 1
         /\ \A n \in 1..(Len(p) - 1) : Front(p)[n] = p[n]
         /\ Last(p) = p[Len(p)]
<1>1. PICK S : p \in Seq(S)
  BY DEF IsSeq
<1>2. Len(p) \in Nat /\ Len(p) > 0 /\ \A n \in 1..Len(p) : p[n] \in S
  BY <1>1, LenProperties, EmptySeq, ElementOfSeq
<1>3. /\ SubSeq(p, 1, Len(p) - 1) \in Seq(S)
      /\ Len(SubSeq(p, 1, Len(p) - 1)) = Len(p) - 1
      /\ \A n \in 1..(Len(p) - 1) : SubSeq(p, 1, Len(p) - 1)[n] = p[n]
  <2> DEFINE m == Len(p) - 1
  <2>1. m \in Int /\ m >= 0 /\ m = Len(p) - 1
    BY <1>2
  <2>2. \A n \in 1..m : p[n] \in S
    BY <1>2, <2>1
  <2> HIDE DEF m
  <2>3. /\ SubSeq(p, 1, m) \in Seq(S)
        /\ Len(SubSeq(p, 1, m)) = IF 1 <= m THEN m - 1 + 1 ELSE 0
        /\ \A n \in 1..(m - 1 + 1) : SubSeq(p, 1, m)[n] = p[1 + n - 1]
    BY <2>1, <2>2, SubSeqProperties
  <2> QED  BY <2>1, <2>3
<1> QED  BY <1>2, <1>3 DEF IsSeq, Front, Last

LEMMA InsteadIsSeq ==
  ASSUME IsSeq(stack), stack # << >>, NEW f
  PROVE  /\ IsSeq(Instead(f))
         /\ Len(Instead(f)) = Len(stack)
         /\ \A n \in 1..(Len(stack) - 1) : Instead(f)[n] = stack[n]
         /\ Instead(f)[Len(stack)] = f
         /\ Last(Instead(f)) = f
         /\ Instead(f) # << >>
<1>1. /\ IsSeq(Front(stack))
      /\ Len(stack) \in Nat /\ Len(stack) > 0
      /\ Len(Front(stack)) = Len(stack) - 1
      /\ \A n \in 1..(Len(stack) - 1) : Front(stack)[n] = stack[n]
  BY FrontIsSeq
<1>2. Append(Front(stack), f)[Len(Append(Front(stack), f))] = f
  BY <1>1, AppendIsSeq
<1> QED  BY <1>1, <1>2, AppendIsSeq DEF Instead, Last

\* What setComment, operator= and operator[] do to the paths of a value.
LEMMA CommentsKeepPaths ==
  ASSUME NEW v, NEW p
  PROVE  /\ \A placement, text : DOMAIN setComment(v, p, placement, text) = DOMAIN v
         /\ DOMAIN WithComments(v, p) = DOMAIN v
BY DEF setComment, WithComments

LEMMA AssignPaths ==
  ASSUME NEW v, NEW p, NEW type, NEW data, NEW num
  PROVE  \A q : q \in DOMAIN Assign(v, p, type, data, num) <=> q \in DOMAIN v /\ ~IsBelow(q, p)
BY DEF Assign, Below, IsBelow

LEMMA ResolvePaths ==
  ASSUME NEW v, NEW p, NEW step
  PROVE  /\ DOMAIN v \subseteq DOMAIN Resolve(v, p, step)
         /\ Append(p, step) \in DOMAIN Resolve(v, p, step)
BY DEF Resolve

\* The innermost call.
LEMMA Innermost ==
  ASSUME NEW calls, NEW outcome, NEW tree,
         CallsInv(calls, outcome, tree), calls # << >>
  PROVE  /\ Len(calls) \in Nat /\ Len(calls) > 0
         /\ Last(calls) = calls[Len(calls)]
         /\ IsFrame(Last(calls)) /\ IsSeq(Last(calls).at)
         /\ Len(Last(calls).at) = Len(calls) - 1
         /\ Last(calls).at \in DOMAIN tree
         /\ outcome # "none" => Last(calls).fn \in Containers
<1>1. /\ Len(calls) \in Nat /\ Len(calls) > 0
      /\ Last(calls) = calls[Len(calls)]
  BY FrontIsSeq DEF CallsInv
<1>2. Len(calls) \in 1..Len(calls)
  BY <1>1
<1> QED  BY <1>1, <1>2 DEF CallsInv

\* A frame in place of the innermost, for the same value.
LEMMA InsteadKeeps ==
  ASSUME NEW outcome, NEW tree, CallsInv(stack, outcome, tree), stack # << >>,
         NEW f, IsFrame(f), f.at = Top.at
  PROVE  CallsInv(Instead(f), "none", tree)
<1>1. /\ Len(stack) \in Nat /\ Len(stack) > 0
      /\ IsSeq(Top.at) /\ Len(Top.at) = Len(stack) - 1 /\ Top.at \in DOMAIN tree
  BY Innermost DEF Top
<1>2. /\ IsSeq(Instead(f))
      /\ Len(Instead(f)) = Len(stack)
      /\ \A n \in 1..(Len(stack) - 1) : Instead(f)[n] = stack[n]
      /\ Instead(f)[Len(stack)] = f
  BY InsteadIsSeq DEF CallsInv
<1> DEFINE calls == Instead(f)
<1> HIDE DEF calls
<1>3. ASSUME NEW n \in 1..Len(calls)
      PROVE  /\ IsFrame(calls[n]) /\ IsSeq(calls[n].at)
             /\ Len(calls[n].at) = n - 1
             /\ calls[n].at \in DOMAIN tree
             /\ n < Len(calls) => calls[n].fn \in Containers
  <2>1. CASE n = Len(stack)
    BY <1>1, <1>2, <2>1 DEF calls
  <2>2. CASE n # Len(stack)
    <3>1. n \in 1..(Len(stack) - 1) /\ n \in 1..Len(stack) /\ n < Len(stack)
      BY <1>1, <1>2, <2>2 DEF calls
    <3>2. calls[n] = stack[n]
      BY <1>2, <3>1 DEF calls
    <3> QED  BY <3>1, <3>2 DEF CallsInv
  <2> QED  BY <2>1, <2>2
<1>4. IsSeq(calls)
  BY <1>2 DEF calls
<1> QED  BY <1>3, <1>4 DEF CallsInv, calls

\* A call for a child of the value whose object or array is read.
LEMMA DescendKeeps ==
  ASSUME NEW calls, NEW tree, CallsInv(calls, "none", tree), calls # << >>,
         Last(calls).fn \in Containers,
         NEW step, Append(Last(calls).at, step) \in DOMAIN tree
  PROVE  CallsInv(Append(calls, ValueOf(Append(Last(calls).at, step))), "none", tree)
<1> DEFINE p == Append(Last(calls).at, step)
           deeper == Append(calls, ValueOf(p))
<1>1. /\ Len(calls) \in Nat /\ Len(calls) > 0
      /\ Last(calls) = calls[Len(calls)]
      /\ IsSeq(Last(calls).at)
      /\ Len(Last(calls).at) = Len(calls) - 1
  BY Innermost
<1>2. IsSeq(p) /\ Len(p) = Len(calls) /\ p \in DOMAIN tree
  <2>1. IsSeq(p) /\ Len(p) = Len(Last(calls).at) + 1
    BY <1>1, AppendIsSeq
  <2> QED  BY <1>1, <2>1
<1> HIDE DEF p
<1>3. ValueOf(p).at = p /\ IsFrame(ValueOf(p))
  BY DEF ValueOf, IsFrame
<1>4. /\ IsSeq(deeper) /\ Len(deeper) = Len(calls) + 1
      /\ \A n \in 1..Len(calls) : deeper[n] = calls[n]
      /\ deeper[Len(calls) + 1] = ValueOf(p)
  BY AppendIsSeq DEF CallsInv
<1> HIDE DEF deeper
<1>5. ASSUME NEW n \in 1..Len(deeper)
      PROVE  /\ IsFrame(deeper[n]) /\ IsSeq(deeper[n].at)
             /\ Len(deeper[n].at) = n - 1
             /\ deeper[n].at \in DOMAIN tree
             /\ n < Len(deeper) => deeper[n].fn \in Containers
  <2>1. CASE n = Len(calls) + 1
    BY <1>1, <1>2, <1>3, <1>4, <2>1
  <2>2. CASE n # Len(calls) + 1
    <3>1. n \in 1..Len(calls)
      BY <1>1, <1>4, <2>2
    <3>2. n < Len(calls) \/ n = Len(calls)
      BY <1>1, <3>1
    <3>3. deeper[n] = calls[n]
      BY <1>4, <3>1
    <3>4. deeper[n].fn \in Containers
      BY <1>1, <3>1, <3>2, <3>3 DEF CallsInv
    <3> QED  BY <3>1, <3>3, <3>4 DEF CallsInv
  <2> QED  BY <2>1, <2>2, <1>1, <1>4
<1> QED  BY <1>4, <1>5 DEF CallsInv, deeper, p

\* What is not deeper than a child of p is not below one.
LEMMA NotBelowChild ==
  ASSUME NEW p, IsSeq(p), NEW q, IsSeq(q), NEW step,
         IsBelow(q, p) => Len(q) = Len(p) + 1
  PROVE  ~IsBelow(q, Append(p, step))
<1> SUFFICES ASSUME IsBelow(q, Append(p, step)) PROVE FALSE
  OBVIOUS
<1> DEFINE c == Append(p, step)
<1>1. /\ Len(p) \in Nat /\ Len(c) = Len(p) + 1
      /\ \A n \in 1..Len(p) : c[n] = p[n]
  BY AppendIsSeq
<1>2. Len(q) > Len(c) /\ SubSeq(q, 1, Len(c)) = c
  BY DEF IsBelow
<1> HIDE DEF c
<1>3. PICK S : q \in Seq(S)
  BY DEF IsSeq
<1>4. Len(q) \in Nat /\ \A n \in 1..Len(q) : q[n] \in S
  BY <1>3, LenProperties, ElementOfSeq
<1>5. ASSUME NEW m \in Nat, m <= Len(q)
      PROVE  /\ SubSeq(q, 1, m) \in Seq(S)
             /\ Len(SubSeq(q, 1, m)) = m
             /\ \A n \in 1..m : SubSeq(q, 1, m)[n] = q[n]
  <2>1. \A n \in 1..m : q[n] \in S
    BY <1>4, <1>5
  <2>2. /\ SubSeq(q, 1, m) \in Seq(S)
        /\ Len(SubSeq(q, 1, m)) = IF 1 <= m THEN m - 1 + 1 ELSE 0
        /\ \A n \in 1..(m - 1 + 1) : SubSeq(q, 1, m)[n] = q[1 + n - 1]
    BY <2>1, SubSeqProperties
  <2> QED  BY <2>2
<1>6. \A n \in 1..Len(p) : q[n] = p[n]
  <2> TAKE n \in 1..Len(p)
  <2>1. n \in 1..Len(c) /\ Len(c) \in Nat /\ Len(c) <= Len(q)
    BY <1>1, <1>2, <1>4
  <2>2. SubSeq(q, 1, Len(c))[n] = q[n]
    BY <1>5, <2>1
  <2> QED  BY <1>1, <1>2, <2>2
<1>7. SubSeq(q, 1, Len(p)) = p
  <2> DEFINE start == SubSeq(q, 1, Len(p))
  <2>1. /\ start \in Seq(S) /\ Len(start) = Len(p)
        /\ \A n \in 1..Len(p) : start[n] = q[n]
    BY <1>1, <1>2, <1>4, <1>5
  <2>2. PICK T : p \in Seq(T)
    BY DEF IsSeq
  <2>3. start \in Seq(S \cup T) /\ p \in Seq(S \cup T)
    <3>1. S \subseteq S \cup T /\ T \subseteq S \cup T
      OBVIOUS
    <3> QED  BY <2>1, <2>2, <3>1, SeqMonotonic
  <2>4. \A n \in 1..Len(start) : start[n] = p[n]
    BY <1>6, <2>1
  <2> HIDE DEF start
  <2>5. start = p
    BY <2>1, <2>3, <2>4, SeqEqual
  <2> QED  BY <2>5 DEF start
<1>8. Len(q) = Len(p) + 1
  BY <1>1, <1>2, <1>4, <1>7 DEF IsBelow
<1> QED  BY <1>1, <1>2, <1>8

\* readValue assigns to its value: nothing that is in use is below it.
LEMMA AssignKeeps ==
  ASSUME CallsInv(stack, "none", root), stack # << >>,
         LastInv(lastValue_, stack, "none", root), Top.fn = "readValue",
         NEW v, DOMAIN v = DOMAIN root, NEW type, NEW data, NEW num
  PROVE  /\ CallsInv(stack, "none", Assign(v, Top.at, type, data, num))
         /\ LastInv(lastValue_, stack, "none", Assign(v, Top.at, type, data, num))
<1> DEFINE w == Assign(v, Top.at, type, data, num)
<1>1. \A q : q \in DOMAIN w <=> q \in DOMAIN root /\ ~IsBelow(q, Top.at)
  BY AssignPaths
<1> HIDE DEF w
<1>2. /\ Len(stack) \in Nat /\ Len(stack) > 0
      /\ Len(Top.at) = Len(stack) - 1
  BY Innermost DEF Top
<1>3. \A n \in 1..Len(stack) : stack[n].at \in DOMAIN w
  <2> TAKE n \in 1..Len(stack)
  <2>1. stack[n].at \in DOMAIN root /\ Len(stack[n].at) = n - 1
    BY DEF CallsInv
  <2>2. ~(Len(stack[n].at) > Len(Top.at))
    BY <1>2, <2>1
  <2> QED  BY <1>1, <2>1, <2>2 DEF IsBelow
<1>4. lastValue_ \subseteq DOMAIN w
  BY <1>1 DEF LastInv, Top
<1> QED  BY <1>3, <1>4 DEF CallsInv, LastInv, w

\* readValue, or the end of an object or array, returns.
LEMMA ReturnKeeps ==
  ASSUME NEW tree, CallsInv(stack, "none", tree), stack # << >>,
         strict => lastValue_ = {},
         NEW end, NEW how \in {"ok", "error"}, Return(Top.at, end, how)
  PROVE  /\ CallsInv(stack', result', tree)
         /\ (lastValue_ \subseteq DOMAIN tree /\ \A q \in lastValue_ : IsSeq(q))
               => LastInv(lastValue_', stack', result', tree)
         /\ strict => lastValue_' = {}
<1>1. /\ Len(stack) \in Nat /\ Len(stack) > 0
      /\ IsSeq(Top.at) /\ Len(Top.at) = Len(stack) - 1 /\ Top.at \in DOMAIN tree
  BY Innermost DEF Top
<1>2. stack' = Front(stack) /\ result' = how
  BY DEF Return
<1>3. /\ IsSeq(stack') /\ Len(stack') = Len(stack) - 1
      /\ \A n \in 1..(Len(stack) - 1) : stack'[n] = stack[n]
  BY <1>2, FrontIsSeq DEF CallsInv
<1>4. CallsInv(stack', result', tree)
  <2>1. ASSUME NEW n \in 1..Len(stack')
        PROVE  stack'[n] = stack[n] /\ n \in 1..Len(stack) /\ n < Len(stack)
    BY <1>1, <1>3
  <2> QED  BY <1>2, <1>3, <2>1 DEF CallsInv
<1>5. (strict /\ lastValue_' = {}) \/ (~strict /\ lastValue_' = {Top.at})
  BY DEF Return, collectComments_
<1>6. result' # "none" /\ Len(Top.at) = Len(stack')
  BY <1>1, <1>2, <1>3
<1>7. ASSUME lastValue_ \subseteq DOMAIN tree, \A q \in lastValue_ : IsSeq(q)
      PROVE  LastInv(lastValue_', stack', result', tree)
  BY <1>1, <1>5, <1>6, <1>7 DEF LastInv
<1> QED  BY <1>4, <1>5, <1>7

LEMMA Begun ==
  /\ CallsInv(<<ValueOf(<< >>)>>, "none", Null)
  /\ LastInv({}, <<ValueOf(<< >>)>>, "none", Null)
<1> DEFINE calls == <<ValueOf(<< >>)>>
<1>1. IsSeq(calls) /\ Len(calls) = 1 /\ calls[1] = ValueOf(<< >>)
  <2>1. calls \in Seq({ValueOf(<< >>)})
    OBVIOUS
  <2> QED  BY <2>1 DEF IsSeq
<1>2. IsSeq(<< >>) /\ Len(<< >>) = 0
  BY EmptySeq DEF IsSeq
<1>3. ValueOf(<< >>).at = << >> /\ IsFrame(ValueOf(<< >>))
  BY DEF ValueOf, IsFrame
<1>4. << >> \in DOMAIN Null
  BY DEF Null
<1> HIDE DEF calls
<1>5. \A n \in 1..Len(calls) : n = 1
  BY <1>1
<1>6. CallsInv(calls, "none", Null)
  BY <1>1, <1>2, <1>3, <1>4, <1>5 DEF CallsInv
<1>7. LastInv({}, calls, "none", Null)
  BY DEF LastInv
<1> QED  BY <1>6, <1>7 DEF calls

\* The frames that readObject and readArray and their errors leave.
LEMMA NewFrames ==
  ASSUME NEW p
  PROVE  /\ \A type : /\ IsFrame(RecoverAt(p, type))
                      /\ RecoverAt(p, type).at = p
                      /\ RecoverAt(p, type).fn = "recoverFromError"
         /\ IsFrame(ObjectAt(p)) /\ ObjectAt(p).at = p /\ ObjectAt(p).fn = "readObject"
         /\ \A n : /\ IsFrame(ArrayAt(p, n)) /\ ArrayAt(p, n).at = p
                   /\ ArrayAt(p, n).fn = "readArray"
BY DEF RecoverAt, ObjectAt, ArrayAt, IsFrame

LEMMA NamedFrame ==
  ASSUME NEW f, IsFrame(f), f.fn = "readObject", NEW b
  PROVE  /\ IsFrame([f EXCEPT !.named = b])
         /\ [f EXCEPT !.named = b].at = f.at
         /\ [f EXCEPT !.named = b].fn = f.fn
<1>1. f = [fn |-> "readObject", at |-> f.at, pc |-> f.pc, named |-> f.named]
  BY DEF IsFrame, ValueOf, RecoverAt
<1>2. [f EXCEPT !.named = b] = [fn |-> "readObject", at |-> f.at, pc |-> f.pc, named |-> b]
  BY <1>1
<1> QED  BY <1>2 DEF IsFrame

LEMMA FurtherFrame ==
  ASSUME NEW f, IsFrame(f), f.fn \in Containers, NEW c
  PROVE  /\ IsFrame([f EXCEPT !.pc = c])
         /\ [f EXCEPT !.pc = c].at = f.at
         /\ [f EXCEPT !.pc = c].fn = f.fn
<1>1. CASE f.fn = "readObject"
  <2>1. f = [fn |-> "readObject", at |-> f.at, pc |-> f.pc, named |-> f.named]
    BY <1>1 DEF IsFrame, ValueOf, RecoverAt
  <2>2. [f EXCEPT !.pc = c] = [fn |-> "readObject", at |-> f.at, pc |-> c, named |-> f.named]
    BY <2>1
  <2> QED  BY <1>1, <2>2 DEF IsFrame
<1>2. CASE f.fn = "readArray"
  <2>1. f = [fn |-> "readArray", at |-> f.at, pc |-> f.pc, index |-> f.index]
    BY <1>2 DEF IsFrame, ValueOf, RecoverAt
  <2>2. [f EXCEPT !.pc = c] = [fn |-> "readArray", at |-> f.at, pc |-> c, index |-> f.index]
    BY <2>1
  <2> QED  BY <1>2, <2>2 DEF IsFrame
<1> QED  BY <1>1, <1>2 DEF Containers

-----------------------------------------------------------------------------
(* The steps of the reader. *)

\* The tree may get paths; what is in it stays.
LEMMA MorePaths ==
  ASSUME NEW calls, NEW outcome, NEW tree, NEW last, NEW more,
         CallsInv(calls, outcome, tree), LastInv(last, calls, outcome, tree),
         DOMAIN tree \subseteq DOMAIN more
  PROVE  CallsInv(calls, outcome, more) /\ LastInv(last, calls, outcome, more)
BY DEF CallsInv, LastInv

\* The innermost call goes on, or its caller does.
LEMMA GoesOn ==
  ASSUME NEW outcome, CallsInv(stack, outcome, root), stack # << >>,
         LastInv(lastValue_, stack, outcome, root),
         NEW tree, DOMAIN root \subseteq DOMAIN tree,
         NEW f, IsFrame(f), f.at = Top.at, f.fn # "readValue",
         f.fn \in Containers => \/ outcome = "ok"
                                \/ outcome = "none" /\ Top.fn # "recoverFromError"
  PROVE  /\ CallsInv(Instead(f), "none", tree)
         /\ LastInv(lastValue_, Instead(f), "none", tree)
<1>1. CallsInv(stack, outcome, tree) /\ LastInv(lastValue_, stack, outcome, tree)
  BY MorePaths
<1>2. CallsInv(Instead(f), "none", tree)
  BY <1>1, InsteadKeeps
<1>3. Last(Instead(f)) = f
  BY InsteadIsSeq DEF CallsInv
<1>4. /\ Len(stack) \in Nat /\ Len(stack) > 0 /\ Len(Top.at) = Len(stack) - 1
      /\ Top.fn \in Containers \cup {"readValue", "recoverFromError"}
  <2>1. IsFrame(Top)
    BY Innermost DEF Top
  <2>2. Top.fn \in Containers \cup {"readValue", "recoverFromError"}
    BY <2>1 DEF IsFrame, ValueOf, RecoverAt, Containers
  <2> QED  BY <2>2, Innermost DEF Top
<1>5. ASSUME NEW q \in lastValue_, IsBelow(q, Top.at), f.fn \in Containers
      PROVE  Len(q) = Len(Top.at) + 1
  <2>1. CASE outcome = "ok"
    <3>1. Len(q) = Len(stack)
      BY <1>1, <2>1 DEF LastInv
    <3> QED  BY <1>4, <3>1
  <2>2. CASE outcome = "none" /\ Top.fn # "recoverFromError"
    BY <1>4, <1>5, <2>2 DEF LastInv, Top
  <2> QED  BY <1>5, <2>1, <2>2
<1> QED  BY <1>1, <1>2, <1>3, <1>5 DEF LastInv

\* readValue hands its value to readObject or readArray.
LEMMA HandsOver ==
  ASSUME NEW tree, CallsInv(stack, "none", tree), stack # << >>,
         LastInv(lastValue_, stack, "none", tree), Top.fn = "readValue",
         NEW f, IsFrame(f), f.at = Top.at, f.fn # "readValue"
  PROVE  /\ CallsInv(Instead(f), "none", tree)
         /\ LastInv(lastValue_, Instead(f), "none", tree)
<1>1. CallsInv(Instead(f), "none", tree)
  BY InsteadKeeps
<1>2. Last(Instead(f)) = f
  BY InsteadIsSeq DEF CallsInv
<1> QED  BY <1>1, <1>2 DEF LastInv, Top

\* A call for a child, which operator[] has found or made.
LEMMA GoesDown ==
  ASSUME NEW calls, NEW tree, NEW last,
         CallsInv(calls, "none", tree), LastInv(last, calls, "none", tree),
         calls # << >>, Last(calls).fn \in Containers,
         NEW p, Last(calls).at = p, NEW step
  PROVE  LET deeper == Append(calls, ValueOf(Append(p, step)))
             more == Resolve(tree, p, step)
         IN  CallsInv(deeper, "none", more) /\ LastInv(last, deeper, "none", more)
<1> DEFINE deeper == Append(calls, ValueOf(Append(p, step)))
           more == Resolve(tree, p, step)
<1>1. CallsInv(calls, "none", more) /\ LastInv(last, calls, "none", more)
  <2>1. DOMAIN tree \subseteq DOMAIN more
    BY ResolvePaths
  <2> HIDE DEF more
  <2> QED  BY <2>1, MorePaths
<1>2. Append(p, step) \in DOMAIN more
  BY ResolvePaths
<1> HIDE DEF more
<1>3. CallsInv(deeper, "none", more)
  BY <1>1, <1>2, DescendKeeps
<1>4. Last(deeper).at = Append(p, step)
  <2>1. deeper[Len(deeper)] = ValueOf(Append(p, step))
    <3>1. IsSeq(calls)
      BY DEF CallsInv
    <3> QED  BY <3>1, AppendIsSeq
  <2> QED  BY <2>1 DEF Last, ValueOf
<1> HIDE DEF deeper
<1>5. ASSUME NEW q \in last
      PROVE  ~IsBelow(q, Append(p, step))
  <2>1. IsSeq(p)
    BY Innermost
  <2>2. IsSeq(q) /\ (IsBelow(q, p) => Len(q) = Len(p) + 1)
    BY DEF LastInv
  <2> QED  BY <2>1, <2>2, NotBelowChild
<1>6. LastInv(last, deeper, "none", more)
  BY <1>1, <1>4, <1>5 DEF LastInv
<1> QED  BY <1>3, <1>6 DEF deeper, more

\* A name is refused, or the value of its member is read.
LEMMA NameRead ==
  ASSUME ReadName
  PROVE  LET text == decodeString(Token.text)
             step == Name(CString(text.chars))
             f == [Top EXCEPT !.pc = "value", !.named = text.chars # << >>]
         IN  \/ /\ Recovering("bad escape sequence", "}") \/ Recovering("Missing ':'", "}")
                /\ root' = root
             \/ /\ root' = Resolve(root, Top.at, step)
                /\ stack' = Append(Instead(f), ValueOf(Append(Top.at, step)))
                /\ errors_' = errors_
<1> DEFINE text == decodeString(Token.text)
           colon == IF Next_ > Len(doc) THEN EndOfStream ELSE doc[Next_]
<1>1. CASE ~text.ok
  BY <1>1 DEF ReadName
<1>2. CASE text.ok /\ colon.type # ":"
  BY <1>2 DEF ReadName
<1>3. CASE text.ok /\ colon.type = ":"
  BY <1>3 DEF ReadName
<1> QED  BY <1>1, <1>2, <1>3

LEMMA ReaderStep ==
  ASSUME ReaderInv, ReaderNext
  PROVE  ReaderInv'
<1>1. status = "reading" /\ strict' = strict /\ (strict => lastValue_ = {})
  BY DEF ReaderInv, ReaderNext, SkipComment, ReadScalar, ReadNoValue, BeginObject,
         EndEmptyObject, NoName, ReadName, AfterMember, AfterMemberComment, BeginArray,
         AfterElement, Resume, Recover, ParseEnds, In, Running
<1>2. CallsInv(stack, result, root) /\ LastInv(lastValue_, stack, result, root)
  BY <1>1 DEF ReaderInv
\* The value that is worked on, and its frame.
<1>3. ASSUME stack # << >>
      PROVE  IsFrame(Top) /\ Top.at \in DOMAIN root
  BY <1>2, <1>3, Innermost DEF Top
<1>4. /\ lastValue_ \subseteq DOMAIN root
      /\ \A q \in lastValue_ : IsSeq(q)
  BY <1>2 DEF LastInv
\* A return that leaves the tree as it is.
<1>5. ASSUME result = "none", stack # << >>, NEW how \in {"ok", "error"},
             Return(Top.at, Next_, how), DOMAIN root' = DOMAIN root, status' = status
      PROVE  ReaderInv'
  <2>1. CallsInv(stack', result', root)
    BY <1>1, <1>2, <1>5, ReturnKeeps
  <2>2. LastInv(lastValue_', stack', result', root) /\ (strict => lastValue_' = {})
    BY <1>1, <1>2, <1>4, <1>5, ReturnKeeps
  <2>3. CallsInv(stack', result', root') /\ LastInv(lastValue_', stack', result', root')
    BY <1>5, <2>1, <2>2, MorePaths
  <2> QED  BY <1>1, <2>2, <2>3 DEF ReaderInv
\* The innermost call goes on, with the same tree.
<1>6. ASSUME stack # << >>, NEW f, stack' = Instead(f), IsFrame(f), f.at = Top.at,
             f.fn # "readValue",
             f.fn \in Containers => \/ result = "ok"
                                    \/ result = "none" /\ Top.fn # "recoverFromError",
             result' = "none", UNCHANGED <<root, lastValue_>>
      PROVE  ReaderInv'
  <2>1. CallsInv(stack', "none", root') /\ LastInv(lastValue_', stack', "none", root')
    BY <1>2, <1>6, GoesOn
  <2> QED  BY <1>1, <1>6, <2>1 DEF ReaderInv
\* An error in an object: tokens are skipped.
<1>7. ASSUME stack # << >>, NEW message, NEW type, Recovering(message, type),
             result' = "none", UNCHANGED <<root, lastValue_>>
      PROVE  ReaderInv'
  BY <1>6, <1>7, NewFrames DEF Recovering, Containers
<1>8. CASE SkipComment
  <2>1. DOMAIN root' = DOMAIN root
    <3> DEFINE p == CHOOSE q \in lastValue_ : TRUE
    <3>1. TakeComment
      BY <1>8 DEF SkipComment
    <3>2. root' = root \/ root' = setComment(root, p, "same", <<Token>>)
      BY <3>1 DEF TakeComment
    <3> HIDE DEF p
    <3>3. DOMAIN setComment(root, p, "same", <<Token>>) = DOMAIN root
      BY DEF setComment
    <3> QED  BY <3>2, <3>3
  <2>2. result' = result /\ lastValue_' = lastValue_
    BY <1>8 DEF SkipComment
  <2>3. CASE stack' = stack
    <3>1. CallsInv(stack', result', root') /\ LastInv(lastValue_', stack', result', root')
      BY <1>2, <2>1, <2>2, <2>3, MorePaths
    <3> QED  BY <1>1, <2>2, <3>1 DEF ReaderInv
  <2>4. CASE In("readObject") /\ stack' = Instead([Top EXCEPT !.pc = "after comment"])
    <3> DEFINE f == [Top EXCEPT !.pc = "after comment"]
    <3>1. Top.fn = "readObject" /\ stack # << >> /\ result = "none"
      BY <2>4 DEF In, Running
    <3>2. IsFrame(f) /\ f.at = Top.at /\ f.fn = "readObject"
      BY <1>3, <3>1, FurtherFrame DEF Containers
    <3> HIDE DEF f
    <3>3. CallsInv(Instead(f), "none", root') /\ LastInv(lastValue_, Instead(f), "none", root')
      BY <1>2, <2>1, <3>1, <3>2, GoesOn
    <3> QED  BY <1>1, <2>2, <2>4, <3>1, <3>3 DEF ReaderInv, f
  <2> QED  BY <1>8, <2>3, <2>4 DEF SkipComment
<1>9. CASE ReadScalar
  <2> DEFINE s == Scalar(Token)
             v == WithComments(root, Top.at)
             w == Assign(v, Top.at, s.type, s.data, s.num)
             how == IF s.ok THEN "ok" ELSE "error"
  <2>1. stack # << >> /\ result = "none" /\ Top.fn = "readValue"
    BY <1>9 DEF ReadScalar, In, Running
  <2>2. root' = IF s.ok THEN w ELSE v
    BY <1>9 DEF ReadScalar
  <2>3. Return(Top.at, Next_, how) /\ status' = status
    BY <1>9 DEF ReadScalar
  <2>4. DOMAIN v = DOMAIN root
    BY CommentsKeepPaths
  <2>5. CallsInv(stack, "none", w) /\ LastInv(lastValue_, stack, "none", w)
    <3> HIDE DEF s, v
    <3> QED  BY <1>2, <2>1, <2>4, AssignKeeps
  <2>6. CallsInv(stack, "none", v) /\ LastInv(lastValue_, stack, "none", v)
    <3> HIDE DEF v
    <3> QED  BY <1>2, <2>1, <2>4, MorePaths
  <2>7. how \in {"ok", "error"}
    OBVIOUS
  <2> HIDE DEF s, v, w, how
  <2>8. CallsInv(stack, "none", root') /\ LastInv(lastValue_, stack, "none", root')
    BY <2>2, <2>5, <2>6
  <2>9. /\ CallsInv(stack', result', root')
        /\ (lastValue_ \subseteq DOMAIN root' /\ \A q \in lastValue_ : IsSeq(q))
              => LastInv(lastValue_', stack', result', root')
        /\ strict => lastValue_' = {}
    BY <1>1, <2>1, <2>3, <2>7, <2>8, ReturnKeeps
  <2> QED  BY <1>1, <2>8, <2>9 DEF ReaderInv, LastInv
<1>10. CASE ReadNoValue
  <2> DEFINE v == WithComments(root, Top.at)
  <2>1. stack # << >> /\ result = "none" /\ root' = v /\ DOMAIN v = DOMAIN root
    BY <1>10, CommentsKeepPaths DEF ReadNoValue, In, Running
  <2>2. stack' = Front(stack) /\ result' = "error" /\ lastValue_' = lastValue_
    BY <1>10 DEF ReadNoValue
  <2> HIDE DEF v
  <2>3. CallsInv(stack, "none", root') /\ LastInv(lastValue_, stack, "none", root')
    BY <1>2, <2>1, MorePaths
  <2>4. /\ Len(stack) \in Nat /\ Len(stack) > 0 /\ IsSeq(Front(stack))
        /\ Len(Front(stack)) = Len(stack) - 1
        /\ \A n \in 1..(Len(stack) - 1) : Front(stack)[n] = stack[n]
    BY <2>1, <2>3, FrontIsSeq DEF CallsInv
  <2>5. \A n \in 1..Len(Front(stack)) :
          n \in 1..(Len(stack) - 1) /\ n \in 1..Len(stack) /\ n < Len(stack)
    BY <2>4
  <2>6. CallsInv(stack', result', root')
    BY <2>2, <2>3, <2>4, <2>5 DEF CallsInv
  <2>7. LastInv(lastValue_', stack', result', root')
    BY <2>2, <2>3 DEF LastInv
  <2> QED  BY <1>1, <2>2, <2>6, <2>7 DEF ReaderInv
<1>11. CASE BeginObject
  <2> DEFINE v == WithComments(root, Top.at)
             w == Assign(v, Top.at, "object", << >>, 0)
             f == ObjectAt(Top.at)
  <2>1. stack # << >> /\ result = "none" /\ Top.fn = "readValue"
    BY <1>11 DEF BeginObject, In, Running
  <2>2. /\ root' = w /\ stack' = Instead(f) /\ result' = result
        /\ lastValue_' = lastValue_
    BY <1>11 DEF BeginObject
  <2>3. DOMAIN v = DOMAIN root
    BY CommentsKeepPaths
  <2>4. IsFrame(f) /\ f.at = Top.at /\ f.fn = "readObject"
    BY NewFrames
  <2> HIDE DEF v, f
  <2>5. CallsInv(stack, "none", w) /\ LastInv(lastValue_, stack, "none", w)
    BY <1>2, <2>1, <2>3, AssignKeeps
  <2> HIDE DEF w
  <2>6. CallsInv(Instead(f), "none", w) /\ LastInv(lastValue_, Instead(f), "none", w)
    BY <2>1, <2>4, <2>5, HandsOver
  <2> QED  BY <1>1, <2>1, <2>2, <2>6 DEF ReaderInv
<1>12. CASE EndEmptyObject
  BY <1>5, <1>12 DEF EndEmptyObject, In, Running
<1>13. CASE NoName
  BY <1>7, <1>13 DEF NoName, In, Running
<1>14. CASE ReadName
  <2> DEFINE text == decodeString(Token.text)
             step == Name(CString(text.chars))
             named == text.chars # << >>
             f == [Top EXCEPT !.pc = "value", !.named = named]
  <2>1. stack # << >> /\ result = "none" /\ Top.fn = "readObject"
    BY <1>14 DEF ReadName, In, Running
  <2>2. result' = result /\ lastValue_' = lastValue_
    BY <1>14 DEF ReadName
  <2>3. \/ /\ Recovering("bad escape sequence", "}") \/ Recovering("Missing ':'", "}")
           /\ root' = root
        \/ /\ root' = Resolve(root, Top.at, step)
           /\ stack' = Append(Instead(f), ValueOf(Append(Top.at, step)))
    <3> HIDE DEF step, f
    <3> QED  BY <1>14, NameRead DEF step, f, named, text
  <2>4. CASE /\ Recovering("bad escape sequence", "}") \/ Recovering("Missing ':'", "}")
             /\ root' = root
    BY <1>7, <2>1, <2>2, <2>4
  <2>5. CASE /\ root' = Resolve(root, Top.at, step)
             /\ stack' = Append(Instead(f), ValueOf(Append(Top.at, step)))
    <3>1. IsFrame(f) /\ f.at = Top.at /\ f.fn = "readObject"
      <4> DEFINE g == [Top EXCEPT !.pc = "value"]
      <4>1. IsFrame(g) /\ g.at = Top.at /\ g.fn = "readObject"
        BY <1>3, <2>1, FurtherFrame DEF Containers
      <4>2. f = [g EXCEPT !.named = named]
        OBVIOUS
      <4> HIDE DEF f, g, named
      <4> QED  BY <4>1, <4>2, NamedFrame
    <3> HIDE DEF f, step
    <3>2. CallsInv(Instead(f), "none", root) /\ LastInv(lastValue_, Instead(f), "none", root)
      BY <1>2, <2>1, <3>1, GoesOn
    <3>3. Last(Instead(f)) = f /\ Instead(f) # << >>
      BY <1>2, <2>1, InsteadIsSeq DEF CallsInv
    <3>4. CallsInv(stack', "none", root') /\ LastInv(lastValue_, stack', "none", root')
      BY <2>5, <3>1, <3>2, <3>3, GoesDown DEF Containers
    <3> QED  BY <1>1, <2>1, <2>2, <3>4 DEF ReaderInv
  <2> QED  BY <2>3, <2>4, <2>5
<1>15. CASE AfterMember
  <2>1. stack # << >> /\ result = "none" /\ Top.fn = "readObject" /\ root' = root /\ status' = status
    BY <1>15 DEF AfterMember, In, Running
  <2>2. \/ Return(Top.at, Next_, "ok")
        \/ /\ stack' = Instead([Top EXCEPT !.pc = "name"])
           /\ result' = result /\ lastValue_' = lastValue_
        \/ /\ Recovering("Missing ',' or '}' in object declaration", "}")
           /\ result' = result /\ lastValue_' = lastValue_
    BY <1>15 DEF AfterMember
  <2>3. CASE stack' = Instead([Top EXCEPT !.pc = "name"]) /\ result' = result /\ lastValue_' = lastValue_
    BY <1>3, <1>6, <2>1, <2>3, FurtherFrame DEF Containers
  <2> QED  BY <1>5, <1>7, <2>1, <2>2, <2>3
<1>16. CASE AfterMemberComment
  <2>1. stack # << >> /\ result = "none" /\ Top.fn = "readObject" /\ root' = root /\ status' = status
    BY <1>16 DEF AfterMemberComment, In, Running
  <2>2. \/ Return(Top.at, Next_, "ok")
        \/ /\ stack' = Instead([Top EXCEPT !.pc = "name"])
           /\ result' = result /\ lastValue_' = lastValue_
    BY <1>16 DEF AfterMemberComment
  <2>3. CASE stack' = Instead([Top EXCEPT !.pc = "name"]) /\ result' = result /\ lastValue_' = lastValue_
    BY <1>3, <1>6, <2>1, <2>3, FurtherFrame DEF Containers
  <2> QED  BY <1>5, <2>1, <2>2, <2>3
<1>17. CASE BeginArray
  <2> DEFINE v == WithComments(root, Top.at)
             w == Assign(v, Top.at, "array", << >>, 0)
             f == ArrayAt(Top.at, 0)
             more == Resolve(w, Top.at, Index(0))
             deeper == Append(Instead(f), ValueOf(Append(Top.at, Index(0))))
  <2>1. stack # << >> /\ result = "none" /\ Top.fn = "readValue" /\ status' = status
    BY <1>17 DEF BeginArray, In, Running
  <2>2. \/ root' = w /\ Return(Top.at, Next_ + 1, "ok")
        \/ /\ root' = more /\ stack' = deeper
           /\ result' = result /\ lastValue_' = lastValue_
    BY <1>17 DEF BeginArray
  <2>3. DOMAIN v = DOMAIN root
    BY CommentsKeepPaths
  <2>4. IsFrame(f) /\ f.at = Top.at /\ f.fn = "readArray"
    BY NewFrames
  <2> HIDE DEF v, f
  <2>5. CallsInv(stack, "none", w) /\ LastInv(lastValue_, stack, "none", w)
    BY <1>2, <2>1, <2>3, AssignKeeps
  <2> HIDE DEF w
  <2>6. CASE root' = w /\ Return(Top.at, Next_ + 1, "ok")
    <3>1. /\ CallsInv(stack', result', w)
          /\ (lastValue_ \subseteq DOMAIN w /\ \A q \in lastValue_ : IsSeq(q))
                => LastInv(lastValue_', stack', result', w)
          /\ strict => lastValue_' = {}
      BY <1>1, <2>1, <2>5, <2>6, ReturnKeeps
    <3> QED  BY <1>1, <2>5, <2>6, <3>1 DEF ReaderInv, LastInv
  <2>7. CASE root' = more /\ stack' = deeper /\ result' = result /\ lastValue_' = lastValue_
    <3>1. CallsInv(Instead(f), "none", w) /\ LastInv(lastValue_, Instead(f), "none", w)
      BY <2>1, <2>4, <2>5, HandsOver
    <3>2. Last(Instead(f)) = f /\ Instead(f) # << >>
      BY <1>2, <2>1, InsteadIsSeq DEF CallsInv
    <3>3. CallsInv(deeper, "none", more) /\ LastInv(lastValue_, deeper, "none", more)
      BY <2>4, <3>1, <3>2, GoesDown DEF Containers
    <3> HIDE DEF deeper, more
    <3> QED  BY <1>1, <2>1, <2>7, <3>3 DEF ReaderInv
  <2> QED  BY <2>2, <2>6, <2>7
<1>18. CASE AfterElement
  <2> DEFINE n == Top.index + 1
             f == ArrayAt(Top.at, n)
             more == Resolve(root, Top.at, Index(n))
             deeper == Append(Instead(f), ValueOf(Append(Top.at, Index(n))))
  <2>1. stack # << >> /\ result = "none" /\ Top.fn = "readArray" /\ status' = status
    BY <1>18 DEF AfterElement, In, Running
  <2>2. \/ root' = root /\ Return(Top.at, Next_, "ok")
        \/ /\ root' = more /\ stack' = deeper
           /\ result' = result /\ lastValue_' = lastValue_
    BY <1>18 DEF AfterElement
  <2>3. IsFrame(f) /\ f.at = Top.at /\ f.fn = "readArray"
    BY NewFrames
  <2> HIDE DEF f
  <2>4. CASE root' = root /\ Return(Top.at, Next_, "ok")
    BY <1>5, <2>1, <2>4
  <2>5. CASE root' = more /\ stack' = deeper /\ result' = result /\ lastValue_' = lastValue_
    <3>1. CallsInv(Instead(f), "none", root) /\ LastInv(lastValue_, Instead(f), "none", root)
      BY <1>2, <2>1, <2>3, GoesOn
    <3>2. Last(Instead(f)) = f /\ Instead(f) # << >>
      BY <1>2, <2>1, InsteadIsSeq DEF CallsInv
    <3>3. CallsInv(deeper, "none", more) /\ LastInv(lastValue_, deeper, "none", more)
      BY <2>3, <3>1, <3>2, GoesDown DEF Containers
    <3> HIDE DEF deeper, more
    <3> QED  BY <1>1, <2>1, <2>5, <3>3 DEF ReaderInv
  <2> QED  BY <2>2, <2>4, <2>5
<1>19. CASE Resume
  <2> DEFINE f == [Top EXCEPT !.pc = "after"]
             type == IF Top.fn = "readObject" THEN "}" ELSE "]"
             g == RecoverAt(Top.at, type)
  <2>1. /\ stack # << >> /\ result # "none" /\ result' = "none"
        /\ UNCHANGED <<root, lastValue_>>
        /\ stack' = IF result = "ok" THEN Instead(f) ELSE Instead(g)
    BY <1>19 DEF Resume
  <2> HIDE DEF type
  <2>2. Top.fn \in Containers
    <3> HIDE DEF f, g
    <3>1. stack # << >> /\ result # "none"
      BY <2>1
    <3> QED  BY <1>2, <3>1, Innermost DEF Top
  <2>3. IsFrame(f) /\ f.at = Top.at /\ f.fn = Top.fn
    BY <1>3, <2>1, <2>2, FurtherFrame
  <2>4. IsFrame(g) /\ g.at = Top.at /\ g.fn = "recoverFromError"
    BY NewFrames
  <2> HIDE DEF f, g
  <2>5. CASE result = "ok"
    BY <1>6, <2>1, <2>2, <2>3, <2>5 DEF Containers
  <2>6. CASE result # "ok"
    BY <1>6, <2>1, <2>4, <2>6 DEF Containers
  <2> QED  BY <2>5, <2>6
<1>20. CASE Recover
  <2>1. stack # << >> /\ result = "none" /\ root' = root /\ status' = status
    BY <1>20 DEF Recover, In, Running
  <2>2. \/ Return(Top.at, Next_, "error")
        \/ UNCHANGED <<stack, result, lastValue_>>
    BY <1>20 DEF Recover
  <2>3. CASE UNCHANGED <<stack, result, lastValue_>>
    BY <1>1, <1>2, <2>1, <2>3 DEF ReaderInv
  <2> QED  BY <1>5, <2>1, <2>2, <2>3
<1>21. CASE ParseEnds
  <2>1. status' # "reading" /\ lastValue_' = lastValue_
    BY <1>2, <1>21 DEF ParseEnds, CallsInv
  <2> QED  BY <1>1, <2>1 DEF ReaderInv
<1> QED
  BY <1>8, <1>9, <1>10, <1>11, <1>12, <1>13, <1>14, <1>15, <1>16, <1>17, <1>18, <1>19,
     <1>20, <1>21 DEF ReaderNext

\* What ends the call in progress, whatever follows.
Failing(outcome, calls) ==
  \/ outcome = "error"
  \/ outcome = "none" /\ calls # << >> /\ Last(calls).fn = "recoverFromError"

\* There is an error to report while the innermost call is failing, and only then.
ErrorsInv ==
  /\ IsSeq(errors_)
  /\ status = "reading" => (errors_ # << >> <=> Failing(result, stack))
  /\ ErrorsFail

LEMMA ErrorsStep ==
  ASSUME ReaderInv, ErrorsInv, ReaderNext
  PROVE  ErrorsInv'
<1>1. /\ status = "reading" /\ IsSeq(errors_)
      /\ errors_ # << >> <=> Failing(result, stack)
  BY DEF ErrorsInv, ReaderNext, SkipComment, ReadScalar, ReadNoValue, BeginObject,
         EndEmptyObject, NoName, ReadName, AfterMember, AfterMemberComment, BeginArray,
         AfterElement, Resume, Recover, ParseEnds, In, Running
<1>2. CallsInv(stack, result, root)
  BY <1>1 DEF ReaderInv
\* Nothing is reported, and nothing fails more or less than before.
<1>3. ASSUME errors_' = errors_, status' = status,
             Failing(result', stack') <=> Failing(result, stack)
      PROVE  ErrorsInv'
  BY <1>1, <1>3 DEF ErrorsInv, ErrorsFail
\* An error is reported, and the innermost call fails.
<1>4. ASSUME NEW message, addError(message), status' = status, Failing(result', stack')
      PROVE  ErrorsInv'
  <2>1. IsSeq(errors_') /\ errors_' # << >>
    BY <1>1, <1>4, AppendIsSeq DEF addError
  <2> QED  BY <1>1, <1>4, <2>1 DEF ErrorsInv, ErrorsFail
<1>5. ASSUME NEW message, NEW type, Recovering(message, type), stack # << >>,
             result' = "none", status' = status
      PROVE  ErrorsInv'
  <2>1. stack' # << >> /\ Last(stack').fn = "recoverFromError"
    BY <1>2, <1>5, InsteadIsSeq DEF Recovering, RecoverAt, CallsInv
  <2> QED  BY <1>4, <1>5, <2>1 DEF Recovering, Failing
\* A call goes on with another frame.
<1>6. ASSUME stack # << >>, NEW f, f.fn # "recoverFromError"
      PROVE  /\ ~Failing("none", Instead(f))
             /\ \A p : ~Failing("none", Append(Instead(f), ValueOf(p)))
  <2>1. /\ IsSeq(Instead(f)) /\ Instead(f) # << >> /\ Last(Instead(f)) = f
    BY <1>2, <1>6, InsteadIsSeq DEF CallsInv
  <2>2. ASSUME NEW p
        PROVE  Last(Append(Instead(f), ValueOf(p))).fn = "readValue"
    <3>1. Last(Append(Instead(f), ValueOf(p))) = ValueOf(p)
      <4> HIDE DEF Instead
      <4> QED  BY <2>1, AppendIsSeq DEF Last
    <3> QED  BY <3>1 DEF ValueOf
  <2> QED  BY <1>6, <2>1, <2>2 DEF Failing
<1>7. ASSUME stack # << >>, result = "none", Top.fn # "recoverFromError"
      PROVE  ~Failing(result, stack)
  BY <1>7 DEF Failing, Top
<1>8. /\ ~Failing("ok", stack') /\ Failing("error", stack')
      /\ ~Failing("ok", stack)
  BY DEF Failing
<1>9. ASSUME In("readObject") \/ In("readArray")
      PROVE  /\ IsFrame(Top) /\ Top.fn \in Containers /\ stack # << >>
             /\ result = "none" /\ ~Failing(result, stack)
  <2>1. stack # << >> /\ result = "none" /\ Top.fn \in Containers
    BY <1>9 DEF In, Running, Containers
  <2> QED  BY <1>2, <1>7, <2>1, Innermost DEF Containers, Top
<1>10. ASSUME In("readValue")
       PROVE  stack # << >> /\ result = "none" /\ ~Failing(result, stack)
  BY <1>7, <1>10 DEF In, Running
<1>11. CASE SkipComment
  <2>1. errors_' = errors_ /\ status' = status /\ result' = result
    BY <1>11 DEF SkipComment
  <2>2. CASE stack' = stack
    BY <1>3, <2>1, <2>2
  <2>3. CASE In("readObject") /\ stack' = Instead([Top EXCEPT !.pc = "after comment"])
    <3> DEFINE f == [Top EXCEPT !.pc = "after comment"]
    <3>1. f.fn # "recoverFromError"
      BY <1>9, <2>3, FurtherFrame DEF Containers
    <3> HIDE DEF f
    <3>2. ~Failing(result', stack')
      BY <1>6, <1>9, <2>1, <2>3, <3>1 DEF f
    <3> QED  BY <1>3, <1>9, <2>1, <2>3, <3>2
  <2> QED  BY <1>11, <2>2, <2>3 DEF SkipComment
<1>12. CASE ReadScalar
  <2> DEFINE ok == Scalar(Token).ok
  <2>1. /\ In("readValue") /\ status' = status
        /\ result' = IF ok THEN "ok" ELSE "error"
        /\ IF ok THEN errors_' = errors_ ELSE addError("not a number, or not a string")
    BY <1>12 DEF ReadScalar, Return
  <2> HIDE DEF ok
  <2>2. CASE ok
    BY <1>3, <1>8, <1>10, <2>1, <2>2
  <2>3. CASE ~ok
    BY <1>4, <1>8, <2>1, <2>3
  <2> QED  BY <2>2, <2>3
<1>13. CASE ReadNoValue
  BY <1>4, <1>8, <1>13 DEF ReadNoValue
<1>14. CASE BeginObject
  <2>1. /\ In("readValue") /\ status' = status /\ errors_' = errors_
        /\ result' = result /\ stack' = Instead(ObjectAt(Top.at))
    BY <1>14 DEF BeginObject
  <2>2. ~Failing(result', stack')
    BY <1>6, <1>10, <2>1, NewFrames
  <2> QED  BY <1>3, <1>10, <2>1, <2>2
<1>15. CASE EndEmptyObject
  BY <1>3, <1>8, <1>9, <1>15 DEF EndEmptyObject, Return
<1>16. CASE NoName
  BY <1>5, <1>9, <1>16 DEF NoName
<1>17. CASE ReadName
  <2> DEFINE text == decodeString(Token.text)
             named == text.chars # << >>
             step == Name(CString(text.chars))
             f == [Top EXCEPT !.pc = "value", !.named = named]
  <2>1. In("readObject") /\ result' = result /\ status' = status
    BY <1>17 DEF ReadName
  <2>2. \/ Recovering("bad escape sequence", "}") \/ Recovering("Missing ':'", "}")
        \/ /\ stack' = Append(Instead(f), ValueOf(Append(Top.at, step)))
           /\ errors_' = errors_
    BY <1>17, NameRead
  <2>3. CASE Recovering("bad escape sequence", "}") \/ Recovering("Missing ':'", "}")
    BY <1>5, <1>9, <2>1, <2>3
  <2>4. CASE /\ stack' = Append(Instead(f), ValueOf(Append(Top.at, step)))
             /\ errors_' = errors_
    <3>1. f.fn # "recoverFromError"
      BY <2>1 DEF In, Top
    <3> HIDE DEF f, step
    <3>2. ~Failing("none", Append(Instead(f), ValueOf(Append(Top.at, step))))
      BY <1>6, <1>9, <2>1, <3>1
    <3> QED  BY <1>3, <1>9, <2>1, <2>4, <3>2
  <2> QED  BY <2>2, <2>3, <2>4
<1>18. CASE AfterMember
  <2> DEFINE f == [Top EXCEPT !.pc = "name"]
  <2>1. In("readObject") /\ status' = status
    BY <1>18 DEF AfterMember
  <2>2. \/ result' = "ok" /\ errors_' = errors_
        \/ stack' = Instead(f) /\ result' = result /\ errors_' = errors_
        \/ /\ Recovering("Missing ',' or '}' in object declaration", "}")
           /\ result' = result
    BY <1>18 DEF AfterMember, Return
  <2>3. f.fn # "recoverFromError"
    BY <1>9, <2>1, FurtherFrame DEF Containers
  <2> HIDE DEF f
  <2>4. ~Failing("none", Instead(f))
    BY <1>6, <1>9, <2>1, <2>3
  <2> QED  BY <1>3, <1>5, <1>8, <1>9, <2>1, <2>2, <2>4
<1>19. CASE AfterMemberComment
  <2> DEFINE f == [Top EXCEPT !.pc = "name"]
  <2>1. In("readObject") /\ status' = status
    BY <1>19 DEF AfterMemberComment
  <2>2. \/ result' = "ok" /\ errors_' = errors_
        \/ stack' = Instead(f) /\ result' = result /\ errors_' = errors_
    BY <1>19 DEF AfterMemberComment, Return
  <2>3. f.fn # "recoverFromError"
    BY <1>9, <2>1, FurtherFrame DEF Containers
  <2> HIDE DEF f
  <2>4. ~Failing("none", Instead(f))
    BY <1>6, <1>9, <2>1, <2>3
  <2> QED  BY <1>3, <1>8, <1>9, <2>1, <2>2, <2>4
<1>20. CASE BeginArray
  <2> DEFINE f == ArrayAt(Top.at, 0)
  <2>1. In("readValue") /\ status' = status /\ errors_' = errors_
    BY <1>20 DEF BeginArray
  <2>2. \/ result' = "ok"
        \/ /\ stack' = Append(Instead(f), ValueOf(Append(Top.at, Index(0))))
           /\ result' = result
    BY <1>20 DEF BeginArray, Return
  <2>3. f.fn # "recoverFromError"
    BY NewFrames
  <2> HIDE DEF f
  <2>4. ~Failing("none", Append(Instead(f), ValueOf(Append(Top.at, Index(0)))))
    BY <1>6, <1>10, <2>1, <2>3
  <2> QED  BY <1>3, <1>8, <1>10, <2>1, <2>2, <2>4
<1>21. CASE AfterElement
  <2> DEFINE n == Top.index + 1
             f == ArrayAt(Top.at, n)
  <2>1. In("readArray") /\ status' = status /\ errors_' = errors_
    BY <1>21 DEF AfterElement
  <2>2. \/ result' = "ok"
        \/ /\ stack' = Append(Instead(f), ValueOf(Append(Top.at, Index(n))))
           /\ result' = result
    BY <1>21 DEF AfterElement, Return
  <2>3. f.fn # "recoverFromError"
    BY NewFrames
  <2> HIDE DEF f, n
  <2>4. ~Failing("none", Append(Instead(f), ValueOf(Append(Top.at, Index(n)))))
    BY <1>6, <1>9, <2>1, <2>3
  <2> QED  BY <1>3, <1>8, <1>9, <2>1, <2>2, <2>4
<1>22. CASE Resume
  <2> DEFINE f == [Top EXCEPT !.pc = "after"]
             type == IF Top.fn = "readObject" THEN "}" ELSE "]"
             g == RecoverAt(Top.at, type)
  <2>1. /\ stack # << >> /\ result \in {"ok", "error"} /\ result' = "none"
        /\ errors_' = errors_ /\ status' = status
        /\ stack' = IF result = "ok" THEN Instead(f) ELSE Instead(g)
    BY <1>2, <1>22 DEF Resume, CallsInv
  <2> HIDE DEF type
  <2>2. f.fn # "recoverFromError"
    <3>1. IsFrame(Top) /\ Top.fn \in Containers
      <4> HIDE DEF f, g
      <4>1. stack # << >> /\ result # "none"
        BY <2>1
      <4> QED  BY <1>2, <4>1, Innermost DEF Top
    <3> QED  BY <3>1, FurtherFrame DEF Containers
  <2>3. g.fn = "recoverFromError"
    BY NewFrames
  <2> HIDE DEF f, g
  <2>4. CASE result = "ok"
    <3>1. ~Failing("none", Instead(f))
      BY <1>6, <2>1, <2>2
    <3> QED  BY <1>3, <1>8, <2>1, <2>4, <3>1
  <2>5. CASE result = "error"
    <3>1. Instead(g) # << >> /\ Last(Instead(g)) = g
      BY <1>2, <2>1, InsteadIsSeq DEF CallsInv
    <3>2. Failing("none", Instead(g)) /\ Failing(result, stack)
      BY <2>3, <2>5, <3>1 DEF Failing
    <3> QED  BY <1>3, <2>1, <2>5, <3>2
  <2> QED  BY <2>1, <2>4, <2>5
<1>23. CASE Recover
  <2>1. /\ errors_' = errors_ /\ status' = status
        /\ result' = "error" \/ UNCHANGED <<stack, result>>
        /\ Failing(result, stack)
    BY <1>23 DEF Recover, Return, In, Running, Failing, Top
  <2> QED  BY <1>3, <1>8, <2>1
<1>24. CASE ParseEnds
  <2>1. stack = << >> /\ result \in {"ok", "error"}
    BY <1>2, <1>24 DEF ParseEnds, CallsInv
  <2>2. errors_ # << >> <=> result = "error"
    BY <1>1, <2>1 DEF Failing
  <2>3. \/ addError("must be either an array or an object value") /\ status' = "error"
        \/ status' = result /\ errors_' = errors_
    BY <1>24 DEF ParseEnds
  <2>4. CASE addError("must be either an array or an object value") /\ status' = "error"
    BY <1>1, <2>4, AppendIsSeq DEF addError, ErrorsInv, ErrorsFail
  <2>5. CASE status' = result /\ errors_' = errors_
    BY <1>1, <2>1, <2>2, <2>5 DEF ErrorsInv, ErrorsFail
  <2> QED  BY <2>3, <2>4, <2>5
<1> QED
  BY <1>11, <1>12, <1>13, <1>14, <1>15, <1>16, <1>17, <1>18, <1>19, <1>20, <1>21, <1>22,
     <1>23, <1>24 DEF ReaderNext

-----------------------------------------------------------------------------
(* Both readings of a document. *)

LEMMA TextInvInit == TextInit => ReaderInv /\ ErrorsInv
<1> SUFFICES ASSUME TextInit PROVE ReaderInv /\ ErrorsInv
  OBVIOUS
<1>1. /\ stack = <<ValueOf(<< >>)>> /\ result = "none" /\ root = Null
      /\ errors_ = << >> /\ lastValue_ = {} /\ status = "reading"
  BY DEF TextInit, Begins
<1>2. ReaderInv
  BY <1>1, Begun DEF ReaderInv
<1>3. IsSeq(<< >>)
  BY EmptySeq DEF IsSeq
<1>4. ~Failing("none", <<ValueOf(<< >>)>>)
  BY DEF Failing, Last, ValueOf
<1> QED  BY <1>1, <1>2, <1>3, <1>4 DEF ErrorsInv, ErrorsFail

LEMMA TextInvNext ==
  ASSUME ReaderInv, ErrorsInv, [TextNext]_textVars
  PROVE  ReaderInv' /\ ErrorsInv'
<1>1. CASE ReaderNext
  BY <1>1, ReaderStep, ErrorsStep
<1>2. ASSUME NEW writer \in {"fast", "styled", "stream"}, Rewrite(writer)
      PROVE  ReaderInv' /\ ErrorsInv'
  <2>1. /\ stack' = <<ValueOf(<< >>)>> /\ result' = "none" /\ root' = Null
        /\ errors_' = << >> /\ lastValue_' = {} /\ status' = "reading"
    BY <1>2 DEF Rewrite, Parse
  <2>2. ReaderInv'
    BY <2>1, Begun DEF ReaderInv
  <2>3. IsSeq(<< >>)
    BY EmptySeq DEF IsSeq
  <2>4. ~Failing("none", <<ValueOf(<< >>)>>)
    BY DEF Failing, Last, ValueOf
  <2> QED  BY <2>1, <2>2, <2>3, <2>4 DEF ErrorsInv, ErrorsFail
<1>3. CASE UNCHANGED textVars
  <2>1. UNCHANGED <<strict, lastValue_, status, stack, result, root, errors_>>
    BY <1>3 DEF textVars, reader
  <2> QED  BY <2>1 DEF ReaderInv, ErrorsInv, ErrorsFail
<1> QED  BY <1>1, <1>2, <1>3 DEF TextNext, Read

LEMMA TextInv == TextSpec => [](ReaderInv /\ ErrorsInv)
BY TextInvInit, TextInvNext, PTL DEF TextSpec

\* Whatever is read, with whatever errors, and read again with the same Reader:
\* the pointers of the calls in progress and the one to the last value are to
\* values of the tree.  (readValue, readComment and addComment of
\* json_reader.cpp.)
THEOREM NoValueIsLost == TextSpec => []PointersAlive
<1>1. ReaderInv => PointersAlive
  <2> SUFFICES ASSUME ReaderInv, status = "reading"
               PROVE  /\ \A n \in DOMAIN stack : stack[n].at \in DOMAIN root
                      /\ lastValue_ \subseteq DOMAIN root
    BY DEF PointersAlive
  <2>1. CallsInv(stack, result, root) /\ LastInv(lastValue_, stack, result, root)
    BY DEF ReaderInv
  <2>2. DOMAIN stack = 1..Len(stack)
    BY <2>1, LenProperties DEF CallsInv, IsSeq
  <2> QED  BY <2>1, <2>2 DEF CallsInv, LastInv
<1> QED  BY <1>1, TextInv, PTL

\* An error anywhere in a document makes parse fail, and a parse that fails has
\* an error to report.  (addErrorAndRecover and recoverFromError of
\* json_reader.cpp.)
THEOREM ErrorsAreTold == TextSpec => []ErrorsFail
<1>1. ErrorsInv => ErrorsFail
  BY DEF ErrorsInv
<1> QED  BY <1>1, TextInv, PTL
============================================================================
