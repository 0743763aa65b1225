---------------------------- MODULE ModbusServer ----------------------------
(***************************************************************************)
(* One emulated Modbus device: the polling thread serves a request         *)
(* (Modbus::poll, IOBoard::HandleRequest, DeviceModbus::updateValues and   *)
(* updateWidgets) while the user edits the widgets that show and feed the  *)
(* registers of the device.                                                *)
(***************************************************************************)
EXTENDS ModbusMap

CONSTANTS
    Widgets,     \* widgets of the device's form
    Registers,   \* DeviceModbus::_registers: the vector loadRegister fills
    Requests,    \* requests a master sends
    Edits,       \* numbers the user can enter in each widget
    WordBits,    \* bits of a register; 16
    Summary,     \* first of the two registers HandleRequest fills; 5
    SummaryBits, \* coils it gathers there; 28
    HalfWord,    \* values of a byte, two of which are a register; 2^8
    None

Value32 == 0 .. W * W - 1     \* Value::v_u32, a low and a high register

\* A register of the form; hi is -1 when its number has one register.
RegisterModbus == [func : 1..6, addr : Cell, hi : Cell \cup {-1}, w : Widgets]

ASSUME RegisterAssumption ==
    /\ Registers \in Seq(RegisterModbus)
    /\ Requests \subseteq Request
    /\ None \notin Requests
    /\ Edits \in [Widgets -> SUBSET Value32]
ASSUME SummaryAssumption ==
    /\ {WordBits, SummaryBits, HalfWord} \subseteq Nat \ {0}
    /\ W = 2 ^ WordBits /\ W = HalfWord * HalfWord
    /\ SummaryBits \in 0 .. 2 * WordBits /\ SummaryBits <= NB
    /\ Summary \in Cell /\ Summary + 1 \in Cell

VARIABLES
    tab,     \* the tables
    widget,  \* what each widget shows, as the number it stands for
    value,   \* RegisterModbus::value of each register
    pc,      \* what poll() does: "idle", "values", "reply", "widgets"
    i,       \* the register its loop is at
    req,     \* the request in _query, while it is served
    rsp,     \* the answer sent for req
    acked,   \* history: the cells as the master was told it wrote them
    seen,    \* history: what each widget has shown since req arrived
    edited   \* history: widgets edited since the program last set them

vars == <<tab, widget, value, pc, i, req, rsp, acked, seen, edited>>

-----------------------------------------------------------------------------

Index == DOMAIN Registers
Past  == i \notin Index
reg   == Registers[i]

Low(v)  == v % W
High(v) == v \div W

\* The coils the board gathers; it gathers no more than SummaryBits.
SummaryCoil(bits, c) == IF c < SummaryBits THEN bits[c] ELSE 0

\* The word at Summary + n: its bit k is coil n * WordBits + k.  Upper[j] is
\* what its upper j bits are.
SummaryWord(bits, n) ==
    LET Upper[j \in 0 .. WordBits] ==
          IF j = 0 THEN 0
          ELSE 2 * Upper[j - 1] + SummaryCoil(bits, n * WordBits + WordBits - j)
    IN  Upper[WordBits]

\* Fault: the second register gets the coils of the first.
Fault_HandleRequest(t, q) ==
    IF q.fn = 4 /\ q.addr = Summary /\ q.nb = 2
    THEN [t EXCEPT !.input_registers[Summary] = SummaryWord(t.bits, 0),
                   !.input_registers[Summary + 1] = SummaryWord(t.bits, 0)]
    ELSE t

\* IOBoard::HandleRequest: a read of exactly the two summary registers finds
\* the coils in them.
HandleRequest(t, q) ==
    IF q.fn = 4 /\ q.addr = Summary /\ q.nb = 2
    THEN [t EXCEPT !.input_registers[Summary] = SummaryWord(t.bits, 0),
                   !.input_registers[Summary + 1] = SummaryWord(t.bits, 1)]
    ELSE t

Init ==
    /\ tab = ClearedTables
    /\ widget = [w \in Widgets |-> 0]
    /\ value = [k \in Index |-> 0]
    /\ pc = "idle" /\ i = 1
    /\ req = None /\ rsp = None
    /\ acked = [bits |-> ClearedTables.bits, registers |-> ClearedTables.registers]
    /\ seen = [w \in Widgets |-> {}]
    /\ edited = {}

\* Fault: the high register is the one of the number read before.
Fault_Put(table, v) ==
    [c \in Cell |-> IF reg.hi # -1 /\ c = reg.hi THEN High(value[i])
                    ELSE IF c = reg.addr THEN Low(v) ELSE table[c]]

\* A table of registers after updateValues has put v in it.
Put(table, v) ==
    [c \in Cell |-> IF reg.hi # -1 /\ c = reg.hi THEN High(v)
                    ELSE IF c = reg.addr THEN Low(v) ELSE table[c]]

\* What the master knows after an answer that confirms a write.
Noted(a, r) ==
    IF r.fn = 5 THEN [a EXCEPT !.bits[r.addr] = IF r.data = "on" THEN 1 ELSE 0]
    ELSE IF r.fn = 6 THEN [a EXCEPT !.registers[r.addr] = r.data]
    ELSE a

-----------------------------------------------------------------------------
(* The polling thread. *)

\* The function codes poll() has a branch for.
Served == 1..6 \cup {15, 16}

\* modbus_receive and findDevice gave a request for this device; the board
\* sees it first, then poll() branches on the function code.
Receive(q) ==
    /\ pc = "idle"
    /\ tab' = HandleRequest(tab, q)
    /\ IF q.fn \notin Served THEN UNCHANGED <<pc, req, seen>>
       ELSE /\ req' = q
            /\ seen' = [w \in Widgets |-> {widget[w]}]
            /\ pc' = CASE q.fn \in 1..4    -> "values"
                       [] q.fn \in {5, 6}   -> "reply"
                       [] q.fn \in {15, 16} -> "widgets"
    /\ UNCHANGED <<widget, value, i, rsp, acked, edited>>

\* Fault: a coil takes the number of its widget too.
Fault_UpdateValue ==
    /\ pc = "values" /\ ~Past
    /\ LET v == widget[reg.w]
       IN  /\ value' = [value EXCEPT ![i] = v]
           /\ tab' = [tab EXCEPT !.bits[reg.addr] = IF v # 0 THEN 1 ELSE 0]
    /\ i' = i + 1
    /\ UNCHANGED <<widget, pc, req, rsp, acked, seen, edited>>

\* updateValues, one register: registers of the write functions are skipped,
\* the others take the number of their widget.
UpdateValue ==
    /\ pc = "values" /\ ~Past
    /\ IF reg.func > 4
       THEN UNCHANGED <<tab, value>>
       ELSE LET v == widget[reg.w]
            IN  /\ value' = [value EXCEPT ![i] = v]
                /\ tab' = CASE reg.func = 1 -> tab
                            [] reg.func = 2 -> [tab EXCEPT
                                 !.input_bits[reg.addr] = IF v # 0 THEN 1 ELSE 0]
                            [] reg.func = 3 -> [tab EXCEPT !.registers = Put(@, v)]
                            [] reg.func = 4 -> [tab EXCEPT
                                 !.input_registers = Put(@, v)]
    /\ i' = i + 1
    /\ UNCHANGED <<widget, pc, req, rsp, acked, seen, edited>>

ValuesDone ==
    /\ pc = "values" /\ Past
    /\ pc' = "reply"
    /\ UNCHANGED <<tab, widget, value, i, req, rsp, acked, seen, edited>>

\* modbus_reply; the master takes note of what an answer confirms.
Reply ==
    /\ pc = "reply"
    /\ LET r == modbus_reply(tab, req)
       IN  /\ tab' = r.tab /\ rsp' = r.rsp
           /\ acked' = Noted(acked, r.rsp)
    /\ pc' = "widgets" /\ i' = 1
    /\ UNCHANGED <<widget, value, req, seen, edited>>

\* Fault: the widget is set before the value is taken from the coil.
Fault_UpdateWidget ==
    /\ pc = "widgets" /\ ~Past
    /\ IF reg.func = 5
       THEN /\ value' = [value EXCEPT ![i] = tab.bits[reg.addr]]
            /\ widget' = [widget EXCEPT ![reg.w] = value[i]]
            /\ seen' = [seen EXCEPT ![reg.w] = @ \cup {value[i]}]
            /\ edited' = edited \ {reg.w}
       ELSE UNCHANGED <<value, widget, seen, edited>>
    /\ i' = i + 1
    /\ UNCHANGED <<tab, pc, req, rsp, acked>>

\* updateWidgets, one register: a coil is shown; a register of function 6
\* sets an input bit.
UpdateWidget ==
    /\ pc = "widgets" /\ ~Past
    /\ IF reg.func = 5
       THEN /\ value' = [value EXCEPT ![i] = tab.bits[reg.addr]]
            /\ widget' = [widget EXCEPT ![reg.w] = tab.bits[reg.addr]]
            /\ seen' = [seen EXCEPT ![reg.w] = @ \cup {tab.bits[reg.addr]}]
            /\ edited' = edited \ {reg.w}
       ELSE UNCHANGED <<value, widget, seen, edited>>
    /\ tab' = IF reg.func = 6
              THEN [tab EXCEPT !.input_bits[reg.addr] =
                                   IF value[i] # 0 THEN 1 ELSE 0]
              ELSE tab
    /\ i' = i + 1
    /\ UNCHANGED <<pc, req, rsp, acked>>

WidgetsDone ==
    /\ pc = "widgets" /\ Past
    /\ pc' = "idle" /\ i' = 1
    /\ req' = None /\ rsp' = None
    /\ seen' = [w \in Widgets |-> {}]
    /\ UNCHANGED <<tab, widget, value, acked, edited>>

-----------------------------------------------------------------------------
(* The GUI thread. *)

\* The user types a number or ticks a box.
UserEdits(w, v) ==
    /\ widget' = [widget EXCEPT ![w] = v]
    /\ seen' = IF pc = "idle" THEN seen ELSE [seen EXCEPT ![w] = @ \cup {v}]
    /\ edited' = edited \cup {w}
    /\ UNCHANGED <<tab, value, pc, i, req, rsp, acked>>

\* The memset of switchOn clears as many bytes as there are registers: half
\* of the table, and the low byte of the register in the middle.
Cleared(table) ==
    [c \in Cell |-> IF c < NB \div 2 THEN 0
                    ELSE IF c = NB \div 2 /\ NB % 2 = 1
                    THEN (table[c] \div HalfWord) * HalfWord ELSE table[c]]

\* Stop, and Start again: the device is not registered in between.
Restart ==
    /\ pc = "idle"
    /\ tab' = [tab EXCEPT !.registers = Cleared(@), !.input_registers = Cleared(@)]
    /\ acked' = [acked EXCEPT !.registers = Cleared(@)]
    /\ UNCHANGED <<widget, value, pc, i, req, rsp, seen, edited>>

Poll == \/ \E q \in Requests : Receive(q)
        \/ UpdateValue \/ ValuesDone \/ Reply \/ UpdateWidget \/ WidgetsDone

Next == \/ Poll \/ Restart
        \/ \E w \in Widgets : \E v \in Edits[w] : UserEdits(w, v)

Spec == Init /\ [][Next]_vars

-----------------------------------------------------------------------------
(* Properties. *)

\* The tables hold bits and words of their width, the loop and the history the
\* values they may (modbus_mapping_t, Value::v_u32).
TypeOK ==
    /\ tab \in Tables
    /\ widget \in [Widgets -> Value32]
    /\ value \in [Index -> Value32]
    /\ pc \in {"idle", "values", "reply", "widgets"}
    /\ i \in Nat
    /\ req \in Requests \cup {None}
    /\ acked \in [bits : [Cell -> Bit], registers : [Cell -> Word]]
    /\ seen \in [Widgets -> SUBSET Value32]
    /\ edited \subseteq Widgets

\* A cell that a widget of the form feeds, and the register that does so: the
\* last one of the vector.  A bit has no high part, whatever address is given.
Feeds(k, func, c) ==
    /\ Registers[k].func = func
    /\ c = Registers[k].addr \/ (func \in {3, 4} /\ c = Registers[k].hi)
Fed(func, c) == \E k \in Index : Feeds(k, func, c)
Feeder(func, c) ==
    CHOOSE k \in Index : /\ Feeds(k, func, c)
                         /\ \A k2 \in Index : Feeds(k2, func, c) => k2 <= k

\* The coils, and the registers no widget feeds, hold what the last answers
\* told the master, and nothing else: a refused or an unanswered write has
\* changed nothing, and neither have the widgets.
MasterKnows ==
    /\ tab.bits = acked.bits
    /\ \A c \in Cell : ~Fed(3, c) => tab.registers[c] = acked.registers[c]

Reads(fn) == req # None /\ rsp # None /\ req.fn = fn /\ rsp.fn = fn
ValueAt(c) == rsp.values[c - req.addr + 1]
InAnswer(c) == c \in req.addr .. req.addr + req.nb - 1

\* An answer never shows a number older than its request: each register that
\* a widget feeds has a value the widget showed after the request arrived,
\* and the two halves of a number come from one reading of the widget, though
\* the user edits it meanwhile.
ReadsAreRecent ==
    /\ \A fn \in {3, 4} : Reads(fn) =>
         \A c \in Cell : InAnswer(c) /\ Fed(fn, c) =>
           LET r == Registers[Feeder(fn, c)]
           IN  \E v \in seen[r.w] :
                 /\ ValueAt(c) = IF c = r.hi THEN High(v) ELSE Low(v)
                 /\ /\ c = r.addr /\ r.hi # -1 /\ InAnswer(r.hi)
                    /\ Feeder(fn, r.hi) = Feeder(fn, c)
                    => ValueAt(r.hi) = High(v)
    /\ Reads(2) =>
         \A c \in Cell : InAnswer(c) /\ Fed(2, c) =>
           \E v \in seen[Registers[Feeder(2, c)].w] :
              ValueAt(c) = IF v # 0 THEN 1 ELSE 0

\* Bit k of the number v, which has been halved k times before it is looked at.
BitOf(v, k) ==
    LET Half[j \in 0 .. k] == IF j = 0 THEN v ELSE Half[j - 1] \div 2
    IN  Half[k] % 2

\* A read of the two summary registers gets the coils as the master last wrote
\* them, bit by bit, when no widget feeds those registers.
SummaryIsFresh ==
    /\ Reads(4) /\ req.addr = Summary /\ req.nb = 2
    /\ ~Fed(4, Summary) /\ ~Fed(4, Summary + 1)
    => \A n \in {0, 1} : \A k \in 0 .. WordBits - 1 :
          LET c == n * WordBits + k
          IN  BitOf(rsp.values[n + 1], k) = IF c < SummaryBits THEN acked.bits[c] ELSE 0

\* Between two requests every box for a coil that the user has not touched
\* shows that coil.
CoilsAreShown ==
    pc = "idle" => \A k \in Index :
        /\ Registers[k].func = 5 /\ Registers[k].w \notin edited
        /\ \A k2 \in Index : Registers[k2].func = 5
               /\ Registers[k2].w = Registers[k].w => k2 <= k
        => widget[Registers[k].w] = tab.bits[Registers[k].addr]

=============================================================================
