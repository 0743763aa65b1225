----------------------------- MODULE ModbusPoll -----------------------------
(***************************************************************************)
(* The registry of serial ports and emulated devices that the GUI thread   *)
(* and the polling thread share (DeviceModbus/ModbusControl.cpp), with the *)
(* operations of the GUI that change it: opening and closing a tab, Start  *)
(* and Stop, and the destruction of every device when the window closes    *)
(* (ModbusDevices.cpp, DeviceWidget.cpp, DeviceModbus.cpp).                *)
(*                                                                         *)
(* A std::list is the set of its nodes.  Every node has a position; a      *)
(* push_back takes a position above the others, a removal leaves the other *)
(* positions alone, and iteration goes from position to position.          *)
(***************************************************************************)
EXTENDS Naturals, Sequences

CONSTANTS
    Devices,    \* DeviceModbus objects
    SlaveId,    \* the slave address of each device (DeviceModbus::slave_id)
    Ports,      \* serial ports, by name
    Bauds,      \* baud rates of the combo box
    Slaves,     \* slave addresses that appear on a line
    MaxPos,     \* bound: positions in a list (the code has none)
    MaxLine,    \* bound: requests waiting in the input queue of a port
    None

ASSUME SlaveIdAssumption == SlaveId \in [Devices -> Slaves]
ASSUME MaxPosAssumption == MaxPos \in Nat

VARIABLES
    modbus_list,  \* ModbusPoll::modbus_list, a list of Modbus objects
    opened,       \* serial ports the process holds an open handle on
    mutex,        \* ModbusPoll::_mutex: "free", or the thread that holds it
    ppc, cursor, pdev,   \* polling thread: where it is, its iterator, its device
    upc, job,     \* GUI thread: where it is, and the operation it is in
    tab,          \* life of each device object and of its tab
    inWork,       \* DeviceWidget::in_work
    conf,         \* the port and baud rate last chosen for a device
    quitting,     \* the main window is being destroyed
    line          \* requests received and not yet read, for each port

pollVars == <<ppc, cursor, pdev>>
uiVars   == <<upc, job, tab, inWork, conf, quitting>>
vars     == <<modbus_list, opened, mutex, pollVars, uiVars, line>>

-----------------------------------------------------------------------------
(* Data. *)

DevNode  == [pos : 1..MaxPos, dev : Devices]
PortNode == [pos : 1..MaxPos, port : Ports, baud : Bauds,
             devices : SUBSET DevNode]

\* A whole frame with a known function code, one whose function code poll()
\* does not know, or bytes that modbus_receive refuses.
Request == [slave : Slaves, kind : {"known", "unknown", "garbled"}]

\* What a handler of the GUI is doing, and to which device.
Jobs == [dev : Devices, why : {"start", "stop", "close", "destroy", "discard"}]
Choice == [port : Ports, baud : Bauds]

ASSUME NoneAssumption == None \notin Devices \cup Jobs \cup Choice

\* A device object exists from the constructor to the end of the destructor.
Alive(d) == tab[d] \in {"loading", "open", "closed"}

First(list) == CHOOSE n \in list : \A m \in list : n.pos <= m.pos

\* The position of a new last node.
EndPos(list) ==
    IF list = {} THEN 1
    ELSE 1 + (CHOOSE n \in list : \A m \in list : m.pos <= n.pos).pos

\* The position after p in the list, 0 at the end.
NextPos(list, p) ==
    LET later == {n \in list : n.pos > p}
    IN  IF later = {} THEN 0 ELSE First(later).pos

\* A port with another list of devices.
WithDevices(n, S) ==
    [pos |-> n.pos, port |-> n.port, baud |-> n.baud, devices |-> S]

\* The nodes of the list with a given port name, or that register a device.
NodesOf(p) == {n \in modbus_list : n.port = p}
Registers(n, d) == \E x \in n.devices : x.dev = d
Registered(d) == \E n \in modbus_list : Registers(n, d)

Current == CHOOSE n \in modbus_list : n.pos = cursor

\* Modbus::findDevice: the first device of the port with that slave address.
Matches(n, s) == {x \in n.devices : SlaveId[x.dev] = s}
findDevice(n, s) ==
    IF Matches(n, s) = {} THEN None ELSE First(Matches(n, s)).dev

-----------------------------------------------------------------------------
Init ==
    /\ modbus_list = {}
    /\ opened = {}
    /\ mutex = "free"
    /\ ppc = "sleep" /\ cursor = 0 /\ pdev = None
    /\ upc = "events" /\ job = None
    /\ tab = [d \in Devices |-> "none"]
    /\ inWork = [d \in Devices |-> FALSE]
    /\ conf = [d \in Devices |-> None]
    /\ quitting = FALSE
    /\ line = [p \in Ports |-> <<>>]

-----------------------------------------------------------------------------
(* The GUI thread.  One event handler at a time; a handler that needs the  *)
(* registry waits for the mutex.                                           *)

Idle == upc = "events" /\ job = None

Handler(pc, j) == upc' = pc /\ job' = j

\* ModbusDevices::addDevice succeeds: the widget has loaded its device.
OpenTab(d) ==
    /\ Idle /\ ~quitting
    /\ tab[d] = "none"
    /\ tab' = [tab EXCEPT ![d] = "open"]
    /\ UNCHANGED <<modbus_list, opened, mutex, pollVars, upc, job, inWork,
                   conf, quitting, line>>

\* DeviceWidget::load throws after it made the device; addDevice deletes the
\* widget, whose device is then destroyed.
LoadFails(d) ==
    /\ Idle /\ ~quitting
    /\ tab[d] = "none"
    /\ tab' = [tab EXCEPT ![d] = "loading"]
    /\ Handler("remove", [dev |-> d, why |-> "discard"])
    /\ UNCHANGED <<modbus_list, opened, mutex, pollVars, inWork, conf,
                   quitting, line>>

\* Bound: there is a position left in every list.
Room == /\ EndPos(modbus_list) \in 1..MaxPos
        /\ \A n \in modbus_list : EndPos(n.devices) \in 1..MaxPos

\* pushOpen_clicked on a stopped device; the combo boxes are enabled.
ClickStart(d, p, b) ==
    /\ Idle /\ ~quitting /\ Room
    /\ tab[d] = "open" /\ ~inWork[d]
    /\ conf' = [conf EXCEPT ![d] = [port |-> p, baud |-> b]]
    /\ Handler("clear", [dev |-> d, why |-> "start"])
    /\ UNCHANGED <<modbus_list, opened, mutex, pollVars, tab, inWork,
                   quitting, line>>

\* DeviceModbus::switchOn clears the register tables, without the mutex.
ClearTables ==
    /\ upc = "clear"
    /\ Handler("add", job)
    /\ UNCHANGED <<modbus_list, opened, mutex, pollVars, tab, inWork, conf,
                   quitting, line>>

\* The handlers that end in removeDevice: Stop, the close button of a tab
\* (the question put for a working device answered with Ok) and, when the
\* window closes, the destructor of each device.
Removing(d, why) ==
    /\ Handler("remove", [dev |-> d, why |-> why])
    /\ UNCHANGED <<modbus_list, opened, mutex, pollVars, tab, inWork, conf,
                   quitting, line>>

\* Fault: the window says that the device is stopped before switchOff is called.
Fault_ClickStop(d) ==
    /\ Idle /\ ~quitting
    /\ tab[d] = "open" /\ inWork[d]
    /\ inWork' = [inWork EXCEPT ![d] = FALSE]
    /\ Handler("remove", [dev |-> d, why |-> "stop"])
    /\ UNCHANGED <<modbus_list, opened, mutex, pollVars, tab, conf, quitting,
                   line>>

ClickStop(d) ==
    /\ Idle /\ ~quitting
    /\ tab[d] = "open" /\ inWork[d]
    /\ Removing(d, "stop")

\* Fault: the tab is closed and the device goes on.
Fault_CloseTab(d) ==
    /\ Idle /\ ~quitting
    /\ tab[d] = "open"
    /\ tab' = [tab EXCEPT ![d] = "closed"]
    /\ inWork' = [inWork EXCEPT ![d] = FALSE]
    /\ UNCHANGED <<modbus_list, opened, mutex, pollVars, upc, job, conf,
                   quitting, line>>

CloseTab(d) ==
    /\ Idle /\ ~quitting
    /\ tab[d] = "open"
    /\ Removing(d, "close")

\* Fault: the destructor frees the tables without switchOff.
Fault_DestroyDevice(d) ==
    /\ Idle /\ quitting
    /\ tab[d] \in {"open", "closed"}
    /\ Handler("free", [dev |-> d, why |-> "destroy"])
    /\ UNCHANGED <<modbus_list, opened, mutex, pollVars, tab, inWork, conf,
                   quitting, line>>

DestroyDevice(d) ==
    /\ Idle /\ quitting
    /\ tab[d] \in {"open", "closed"}
    /\ Removing(d, "destroy")

CloseWindow ==
    /\ Idle /\ ~quitting
    /\ quitting' = TRUE
    /\ UNCHANGED <<modbus_list, opened, mutex, pollVars, upc, job, tab,
                   inWork, conf, line>>

\* Fault: addDevice and removeDevice do not take the mutex.
Fault_UiLock ==
    /\ upc \in {"add", "remove"}
    /\ Handler(IF upc = "add" THEN "adding" ELSE "removing", job)
    /\ UNCHANGED <<modbus_list, opened, mutex, pollVars, tab, inWork, conf,
                   quitting, line>>

\* QMutexLocker at the head of addDevice and removeDevice.
UiLock ==
    /\ upc \in {"add", "remove"}
    /\ mutex = "free"
    /\ mutex' = "ui"
    /\ Handler(IF upc = "add" THEN "adding" ELSE "removing", job)
    /\ UNCHANGED <<modbus_list, opened, pollVars, tab, inWork, conf, quitting,
                   line>>

\* addDevice returns; switchOn throws when it failed, and in_work stays false.
Added(ok) ==
    /\ mutex' = "free"
    /\ Handler("events", None)
    /\ inWork' = [inWork EXCEPT ![job.dev] = ok]
    /\ UNCHANGED <<pollVars, tab, conf, quitting, line>>

Chosen == conf[job.dev]

\* The port is in the list, with the same baud rate.
AddToPort ==
    /\ upc = "adding"
    /\ \E n \in NodesOf(Chosen.port) :
          /\ n = First(NodesOf(Chosen.port))
          /\ n.baud = Chosen.baud
          /\ modbus_list' = (modbus_list \ {n}) \cup
                {WithDevices(n, n.devices \cup
                    {[pos |-> EndPos(n.devices), dev |-> job.dev]})}
    /\ Added(TRUE)
    /\ UNCHANGED opened

\* The port is in the list, with another baud rate.
BaudDiffers ==
    /\ upc = "adding"
    /\ NodesOf(Chosen.port) # {}
    /\ First(NodesOf(Chosen.port)).baud # Chosen.baud
    /\ Added(FALSE)
    /\ UNCHANGED <<modbus_list, opened>>

\* A new port: open it, exclusively, and register the device.
AddPort ==
    /\ upc = "adding"
    /\ NodesOf(Chosen.port) = {}
    /\ Chosen.port \notin opened
    /\ opened' = opened \cup {Chosen.port}
    /\ modbus_list' = modbus_list \cup
          {[pos |-> EndPos(modbus_list), port |-> Chosen.port,
            baud |-> Chosen.baud, devices |-> {[pos |-> 1, dev |-> job.dev]}]}
    /\ Added(TRUE)

\* Modbus::open throws: there is no such port, or it is in use.
OpenFails ==
    /\ upc = "adding"
    /\ NodesOf(Chosen.port) = {}
    /\ Added(FALSE)
    /\ UNCHANGED <<modbus_list, opened>>

\* Fault: the port of the last device stays listed and open.
FaultKeep_removeDevice(d) ==
    IF modbus_list = {}
    THEN UNCHANGED <<modbus_list, opened, line>>
    ELSE LET n == First(modbus_list)
         IN  /\ modbus_list' = (modbus_list \ {n}) \cup
                    {WithDevices(n, {x \in n.devices : x.dev # d})}
             /\ UNCHANGED <<opened, line>>

\* Fault: the first port is closed with all its devices.
FaultClose_removeDevice(d) ==
    IF modbus_list = {}
    THEN UNCHANGED <<modbus_list, opened, line>>
    ELSE LET n == First(modbus_list)
         IN  /\ opened' = opened \ {n.port}
             /\ modbus_list' = modbus_list \ {n}
             /\ line' = [line EXCEPT ![n.port] = <<>>]

\* ModbusPoll::removeDevice: the loop leaves after the first port.  Closing a
\* port drops what it has received.
removeDevice(d) ==
    IF modbus_list = {}
    THEN UNCHANGED <<modbus_list, opened, line>>
    ELSE LET n    == First(modbus_list)
             rest == {x \in n.devices : x.dev # d}
         IN  IF rest = {}
             THEN /\ opened' = opened \ {n.port}
                  /\ modbus_list' = modbus_list \ {n}
                  /\ line' = [line EXCEPT ![n.port] = <<>>]
             ELSE /\ modbus_list' = (modbus_list \ {n})
                                    \cup {WithDevices(n, rest)}
                  /\ UNCHANGED <<opened, line>>

\* removeDevice and what stopPoll and removeDeviceTab do after it; a
\* destructor has the tables still to free.
RemoveDevice ==
    /\ upc = "removing"
    /\ removeDevice(job.dev)
    /\ mutex' = "free"
    /\ inWork' = [inWork EXCEPT ![job.dev] = FALSE]
    /\ IF job.why \in {"stop", "close"}
       THEN Handler("events", None) ELSE Handler("free", job)
    /\ tab' = IF job.why = "close"
              THEN [tab EXCEPT ![job.dev] = "closed"] ELSE tab
    /\ UNCHANGED <<pollVars, conf, quitting>>

\* The end of ~DeviceModbus.  A device whose load failed may be tried again.
FreeDevice ==
    /\ upc = "free"
    /\ Handler("events", None)
    /\ tab' = [tab EXCEPT ![job.dev] =
                  IF job.why = "discard" THEN "none" ELSE "gone"]
    /\ UNCHANGED <<modbus_list, opened, mutex, pollVars, inWork, conf,
                   quitting, line>>

Ui ==
    \/ \E d \in Devices : \/ OpenTab(d)   \/ LoadFails(d)
                          \/ ClickStop(d) \/ CloseTab(d) \/ DestroyDevice(d)
    \/ \E d \in Devices, p \in Ports, b \in Bauds : ClickStart(d, p, b)
    \/ CloseWindow \/ ClearTables \/ UiLock
    \/ AddToPort \/ BaudDiffers \/ AddPort \/ OpenFails
    \/ RemoveDevice \/ FreeDevice

-----------------------------------------------------------------------------
(* The polling thread (ModbusPoll::run and Modbus::poll).  It holds the    *)
(* mutex from the first port to the last, and stays on a port as long as   *)
(* poll() returns true.                                                    *)

PollLock ==
    /\ ppc = "sleep" /\ mutex = "free"
    /\ mutex' = "poll"
    /\ ppc' = "scan" /\ cursor' = NextPos(modbus_list, 0)
    /\ UNCHANGED <<modbus_list, opened, pdev, uiVars, line>>

\* poll() returned false: on to the next port.
NextPort ==
    /\ ppc' = "scan" /\ pdev' = None
    /\ cursor' = NextPos(modbus_list, cursor)
    /\ UNCHANGED <<modbus_list, opened, mutex, uiVars>>

\* modbus_receive times out.
PollTimeout ==
    /\ ppc = "scan" /\ cursor # 0
    /\ line[Current.port] = <<>>
    /\ NextPort
    /\ UNCHANGED line

\* modbus_receive returns -1, or a frame for a slave nobody emulates.
PollIgnore ==
    /\ ppc = "scan" /\ cursor # 0
    /\ line[Current.port] # <<>>
    /\ LET r == Head(line[Current.port])
       IN  r.kind = "garbled" \/ findDevice(Current, r.slave) = None
    /\ line' = [line EXCEPT ![Current.port] = Tail(@)]
    /\ NextPort

\* A frame for a device of the port.
PollReceive ==
    /\ ppc = "scan" /\ cursor # 0
    /\ line[Current.port] # <<>>
    /\ LET r == Head(line[Current.port])
           d == findDevice(Current, r.slave)
       IN  /\ r.kind # "garbled" /\ d # None
           /\ pdev' = d
           /\ ppc' = IF r.kind = "known" THEN "serve" ELSE "reject"
    /\ line' = [line EXCEPT ![Current.port] = Tail(@)]
    /\ UNCHANGED <<modbus_list, opened, mutex, cursor, uiVars>>

\* HandleRequest, updateValues, modbus_reply, updateWidgets: poll() returns
\* true and is called again.
PollServe ==
    /\ ppc = "serve"
    /\ ppc' = "scan" /\ pdev' = None
    /\ UNCHANGED <<modbus_list, opened, mutex, cursor, uiVars, line>>

\* A function code that poll() does not know.
PollReject ==
    /\ ppc = "reject"
    /\ NextPort
    /\ UNCHANGED line

\* Fault: the mutex is not released before the thread sleeps.
Fault_PollUnlock ==
    /\ ppc = "scan" /\ cursor = 0
    /\ ppc' = "sleep"
    /\ UNCHANGED <<modbus_list, opened, mutex, cursor, pdev, uiVars, line>>

PollUnlock ==
    /\ ppc = "scan" /\ cursor = 0
    /\ mutex' = "free"
    /\ ppc' = "sleep"
    /\ UNCHANGED <<modbus_list, opened, cursor, pdev, uiVars, line>>

Poll == \/ PollLock \/ PollTimeout \/ PollIgnore \/ PollReceive
        \/ PollServe \/ PollReject \/ PollUnlock

-----------------------------------------------------------------------------
(* The masters on the lines.  A port nobody has open receives nothing.     *)

Arrive(p) ==
    /\ p \in opened
    /\ Len(line[p]) < MaxLine
    /\ \E r \in Request : line' = [line EXCEPT ![p] = Append(@, r)]
    /\ UNCHANGED <<modbus_list, opened, mutex, pollVars, uiVars>>

Next == Ui \/ Poll \/ \E p \in Ports : Arrive(p)

Spec == Init /\ [][Next]_vars

\* The operating system runs both threads.  A GUI handler runs to its end
\* once it is entered.  The mutex is free between two rounds of the polling
\* thread, which sleeps at least a millisecond there, and between two events
\* of the user, who is slower than that: neither thread waits for it forever
\* (strong fairness).  No event of the user is promised.
Fairness ==
    /\ WF_vars(Poll) /\ SF_vars(PollLock)
    /\ SF_vars(UiLock)
    /\ WF_vars(ClearTables \/ AddToPort \/ BaudDiffers \/ AddPort \/ OpenFails
               \/ RemoveDevice \/ FreeDevice)

FairSpec == Spec /\ Fairness

-----------------------------------------------------------------------------
(* Properties. *)

\* The types of the variables.
TypeOK ==
    /\ modbus_list \subseteq PortNode
    /\ opened \subseteq Ports
    /\ mutex \in {"free", "ui", "poll"}
    /\ ppc \in {"sleep", "scan", "serve", "reject"}
    /\ cursor \in 0..MaxPos
    /\ pdev \in Devices \cup {None}
    /\ upc \in {"events", "clear", "add", "adding", "remove", "removing", "free"}
    /\ job \in Jobs \cup {None}
    /\ tab \in [Devices -> {"none", "loading", "open", "closed", "gone"}]
    /\ inWork \in [Devices -> BOOLEAN]
    /\ conf \in [Devices -> Choice \cup {None}]
    /\ quitting \in BOOLEAN
    /\ line \in [Ports -> Seq(Request)]

\* The threads exclude each other: each holds the mutex where the code does.
LockInv ==
    /\ mutex = "ui" <=> upc \in {"adding", "removing"}
    /\ mutex = "poll" <=> ppc # "sleep"

\* What a handler of the GUI relies on from its first statement to its last.
HandlerInv ==
    /\ upc = "events" <=> job = None
    /\ upc \in {"clear", "add", "adding"} =>
          /\ job.why = "start" /\ Room
          /\ tab[job.dev] = "open" /\ ~inWork[job.dev]
          /\ conf[job.dev] # None
    /\ upc = "free" => ~inWork[job.dev]
    /\ \A d \in Devices : inWork[d] => tab[d] = "open" /\ conf[d] # None

\* What the polling thread relies on during a round.
ScanInv ==
    /\ ppc # "sleep" /\ cursor # 0 => \E n \in modbus_list : n.pos = cursor
    /\ ppc \in {"serve", "reject"} =>
          pdev \in Devices /\ cursor # 0 /\ Registered(pdev)
    /\ ppc \in {"sleep", "scan"} => pdev = None

\* The list of ports and the lists of devices never change while the polling
\* thread walks them (run() and poll() iterate over std::list).
RegistryStable == [][ppc # "sleep" => UNCHANGED modbus_list]_vars

\* A port is listed once, is open exactly as long as it is listed, and is
\* listed only as long as it has a device: no handle is leaked, and no port
\* stays occupied for nothing (addDevice, removeDevice, Modbus::open, close).
PortsInUse ==
    /\ opened = {n.port : n \in modbus_list}
    /\ \A n \in modbus_list : n.devices # {} /\ NodesOf(n.port) = {n}

\* A device whose window says that it works is registered with the port and
\* the baud rate chosen in that window, whatever was started and stopped on
\* this port and on the others since.
WorkingIsServed ==
    \A d \in Devices : inWork[d] =>
        \E n \in NodesOf(conf[d].port) :
            n.baud = conf[d].baud /\ Registers(n, d)

\* What follows holds when all devices share a port: removeDevice looks at
\* the first port only.
OnePort == \A p, q \in Ports : p = q

\* A device that was stopped, or whose tab was closed, is not polled any more.
StoppedIsSilent == \A d \in Devices : Registered(d) => inWork[d]

\* A list never has a device twice (addDevice does not look for it).
RegisteredOnce ==
    \A n \in modbus_list : \A x, y \in n.devices : x.dev = y.dev => x = y

\* findDevice and poll never follow the pointer of a device that is gone:
\* the destructor unregisters before it frees.
NoDanglingDevice == \A d \in Devices : Registered(d) => Alive(d)

\* switchOn clears the register tables without the mutex: the polling thread
\* is not serving that device.
ClearUndisturbed == upc = "clear" => pdev # job.dev

\* The switch of a device as its window has it, and the device being served.
Starting == upc \in {"clear", "add", "adding"}
Stopping == upc \in {"remove", "removing"}

SwitchOf(d) ==
    CASE Starting /\ job.dev = d                         -> "starting"
      [] Stopping /\ job.dev = d /\ inWork[d]            -> "stopping"
      [] inWork[d] /\ (upc = "events" \/ job.dev # d)    -> "on"
      [] OTHER                                           -> "off"

Switch == INSTANCE DeviceSwitch WITH
    switch  <- [d \in Devices |-> SwitchOf(d)],
    serving <- {d \in Devices : pdev = d}

\* Start and Stop do what they promise (DeviceSwitch), though the polling
\* thread goes on while a handler waits for the mutex: a device is served only
\* after its start and before the end of its stop, which waits for the request
\* that is being answered (addDevice, removeDevice, poll).
SwitchesAsPromised == Switch!SSpec

MastersPause == <>[][\A p \in Ports : ~Arrive(p)]_vars

\* Once the masters pause, a handler of the GUI that waits for the mutex
\* returns, and what has been received is read to the end (run, poll).
SettlesDown ==
    MastersPause =>
        /\ upc # "events" ~> upc = "events"
        /\ \A p \in Ports : line[p] # <<>> ~> line[p] = <<>>

=============================================================================
