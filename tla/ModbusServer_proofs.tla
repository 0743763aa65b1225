------------------------ MODULE ModbusServer_proofs ------------------------
(***************************************************************************)
(* Proofs about ModbusMap and ModbusServer: what modbus_reply may do to    *)
(* the tables of a device and the size of its answers; that the master     *)
(* knows what its writes have left in the tables, that the boxes of the    *)
(* form show the coils, that reads show what the widgets show, and that a  *)
(* read of the summary shows the coils bit by bit.                         *)
(***************************************************************************)
EXTENDS ModbusServer, FiniteSetTheorems, WellFoundedInduction, TLAPS

(* modbus_reply. *)

\* A refused request leaves the tables as they are, and is answered with its
\* function code plus 0x80 (response_exception).
LEMMA RefusedChangesNothing ==
    ASSUME NEW t, NEW q, Verdict(q) # "ok"
    PROVE  /\ modbus_reply(t, q).tab = t
           /\ modbus_reply(t, q).rsp = [fn |-> q.fn + 128,
                                        exception |-> Verdict(q)]
BY DEF modbus_reply, Exception

\* The cells an accepted request may write, and those it reads.
WriteCells(q) == CASE q.fn \in {5, 6}   -> {q.addr}
                   [] q.fn \in {15, 16} -> q.addr .. q.addr + q.nb - 1
                   [] q.fn = 23         -> q.waddr .. q.waddr + q.wnb - 1
                   [] OTHER             -> {}
ReadCells(q) == IF q.fn \in {1, 2, 3, 4, 23}
                THEN q.addr .. q.addr + q.nb - 1 ELSE {}

\* The members of Request, by their fields.
LEMMA RequestFields ==
    ASSUME NEW q \in Request
    PROVE  /\ q.fn \in {1, 2, 3, 4, 5, 6, 7, 15, 16, 17, 23, 99}
           /\ q.fn \in {1, 2, 3, 4, 5, 6, 15, 16, 23} => q.addr \in Nat
           /\ q.fn \in {1, 2, 3, 4, 15, 16, 23} => q.nb \in Nat
           /\ q.fn = 23 => q.waddr \in Nat /\ q.wnb \in Nat
           /\ q.fn = 5 => q.data \in {"on", "off", "other"}
           /\ q.fn = 6 => q.data \in Word
           /\ q.fn = 15 => q.data \in Seq(Bit) /\ Len(q.data) = q.nb
           /\ q.fn = 16 => q.data \in Seq(Word) /\ Len(q.data) = q.nb
           /\ q.fn = 23 => q.data \in Seq(Word) /\ Len(q.data) = q.wnb
<1>1. CASE q \in ReadRequest
  BY <1>1 DEF ReadRequest
<1>2. CASE q \in CoilRequest
  BY <1>2 DEF CoilRequest
<1>3. CASE q \in RegisterRequest
  BY <1>3 DEF RegisterRequest
<1>4. CASE q \in WriteRequest
  BY <1>4 DEF WriteRequest, Request, Payload
<1>5. CASE q \in ReadWriteRequest
  BY <1>5 DEF ReadWriteRequest, Request, Payload
<1>6. CASE q \in PlainRequest
  BY <1>6 DEF PlainRequest
<1>. QED  BY <1>1, <1>2, <1>3, <1>4, <1>5, <1>6 DEF Request

\* No accepted request reads or writes outside the tables, at either end
\* (the comparisons of address + nb with nb_* in modbus_reply).
THEOREM AcceptedStaysInside ==
    ASSUME NEW q \in Request, Verdict(q) = "ok"
    PROVE  WriteCells(q) \cup ReadCells(q) \subseteq Cell
<1>0. \A a, n \in Nat : a + n <= NB => a .. a + n - 1 \subseteq Cell
  BY TableAssumption DEF Cell
<1>1. CASE q.fn \in {1, 2, 3, 4, 15, 16}
  <2>1. q.addr \in Nat /\ q.nb \in Nat
    BY <1>1, RequestFields
  <2>2. ~(q.addr + q.nb > NB)
    BY <1>1 DEF Verdict
  <2>3. WriteCells(q) \cup ReadCells(q) \subseteq q.addr .. q.addr + q.nb - 1
    BY <1>1 DEF WriteCells, ReadCells
  <2>4. q.addr + q.nb <= NB
    BY <2>1, <2>2, TableAssumption
  <2>5. q.addr .. q.addr + q.nb - 1 \subseteq Cell
    BY <1>0, <2>1, <2>4
  <2>. QED  BY <2>3, <2>5
<1>2. CASE q.fn \in {5, 6}
  <2>1. q.addr \in Nat
    BY <1>2, RequestFields
  <2>2. ~(q.addr >= NB)
    BY <1>2 DEF Verdict
  <2>3. WriteCells(q) = {q.addr} /\ ReadCells(q) = {}
    BY <1>2 DEF WriteCells, ReadCells
  <2>. QED  BY <2>1, <2>2, <2>3, TableAssumption DEF Cell
<1>3. CASE q.fn = 23
  <2>1. q.addr \in Nat /\ q.nb \in Nat /\ q.waddr \in Nat /\ q.wnb \in Nat
    BY <1>3, RequestFields
  <2>2. ~(q.addr + q.nb > NB) /\ ~(q.waddr + q.wnb > NB)
    BY <1>3 DEF Verdict
  <2>3. /\ ReadCells(q) = q.addr .. q.addr + q.nb - 1
        /\ WriteCells(q) = q.waddr .. q.waddr + q.wnb - 1
    BY <1>3 DEF WriteCells, ReadCells
  <2>4. q.addr + q.nb <= NB /\ q.waddr + q.wnb <= NB
    BY <2>1, <2>2, TableAssumption
  <2>5. /\ q.addr .. q.addr + q.nb - 1 \subseteq Cell
        /\ q.waddr .. q.waddr + q.wnb - 1 \subseteq Cell
    BY <1>0, <2>1, <2>4
  <2>. QED  BY <2>3, <2>5
<1>4. CASE q.fn \in {7, 17, 99}
  BY <1>4 DEF WriteCells, ReadCells
<1>. QED  BY <1>1, <1>2, <1>3, <1>4, RequestFields

\* A request as the limits of modbus.h and the size of the tables allow it: a
\* function that is there, a count within its limits, a byte count and a value
\* of a coil that are right, and no cell outside the tables.
Legal(q) ==
    /\ q.fn \in {1, 2, 3, 4, 5, 6, 7, 15, 16, 17, 23}
    /\ q.fn \in {1, 2, 3, 4, 15, 16, 23} => q.nb \in 1 .. Limit(q.fn)
    /\ q.fn = 23 => q.wnb \in 1 .. MaxRWWriteRegs /\ q.bytes = 2 * q.wnb
    /\ q.fn = 5 => q.data # "other"
    /\ WriteCells(q) \cup ReadCells(q) \subseteq Cell

\* A run of cells is inside the tables exactly if its end is.
LEMMA RunInside ==
    ASSUME NEW a \in Nat, NEW n \in Nat, n >= 1
    PROVE  a .. a + n - 1 \subseteq Cell <=> a + n <= NB
<1>1. ASSUME a .. a + n - 1 \subseteq Cell PROVE a + n <= NB
  <2>1. a + n - 1 \in a .. a + n - 1
    OBVIOUS
  <2>. QED  BY <1>1, <2>1, TableAssumption DEF Cell
<1>2. ASSUME a + n <= NB PROVE a .. a + n - 1 \subseteq Cell
  <2>1. NB \in Nat
    BY TableAssumption
  <2>. QED  BY <1>2, <2>1 DEF Cell
<1>. QED  BY <1>1, <1>2

\* The checks of a function, in whatever order, let a request pass exactly if
\* it is legal.
LEMMA VerdictIsLegal == ASSUME NEW q \in Request PROVE Verdict(q) = "ok" <=> Legal(q)
<1>0. /\ {MaxReadBits, MaxReadRegs, MaxWriteBits, MaxWriteRegs, MaxRWWriteRegs} \subseteq Nat
      /\ NB \in Nat
  BY TableAssumption
<1>1. CASE q.fn \in {1, 2, 3, 4, 15, 16}
  <2>1. q.addr \in Nat /\ q.nb \in Nat /\ Limit(q.fn) \in Nat
    BY <1>0, <1>1, RequestFields DEF Limit
  <2>2. WriteCells(q) \cup ReadCells(q) = q.addr .. q.addr + q.nb - 1
    BY <1>1 DEF WriteCells, ReadCells
  <2>3. Legal(q) <=> /\ q.nb \in 1 .. Limit(q.fn)
                     /\ q.addr .. q.addr + q.nb - 1 \subseteq Cell
    BY <1>1, <2>2 DEF Legal
  <2>4. Verdict(q) = "ok" <=> ~BadCount(q.nb, Limit(q.fn)) /\ ~(q.addr + q.nb > NB)
    BY <1>1 DEF Verdict
  <2>5. ~BadCount(q.nb, Limit(q.fn)) <=> q.nb \in 1 .. Limit(q.fn)
    BY <2>1 DEF BadCount
  <2>6. q.nb \in 1 .. Limit(q.fn) =>
           (q.addr .. q.addr + q.nb - 1 \subseteq Cell <=> ~(q.addr + q.nb > NB))
    <3>. SUFFICES ASSUME q.nb >= 1
                  PROVE  q.addr .. q.addr + q.nb - 1 \subseteq Cell <=> ~(q.addr + q.nb > NB)
      BY <2>1
    <3>1. q.addr .. q.addr + q.nb - 1 \subseteq Cell <=> q.addr + q.nb <= NB
      BY <2>1, RunInside
    <3>. QED  BY <1>0, <2>1, <3>1
  <2>. QED  BY <2>3, <2>4, <2>5, <2>6
<1>2. CASE q.fn \in {5, 6}
  <2>1. q.addr \in Nat
    BY <1>2, RequestFields
  <2>2. WriteCells(q) \cup ReadCells(q) = {q.addr}
    BY <1>2 DEF WriteCells, ReadCells
  <2>3. Legal(q) <=> (q.fn = 5 => q.data # "other") /\ q.addr \in Cell
    BY <1>2, <2>2 DEF Legal
  <2>4. Verdict(q) = "ok" <=> ~(q.addr >= NB) /\ (q.fn = 5 => q.data # "other")
    BY <1>2 DEF Verdict
  <2>. QED  BY <1>0, <2>1, <2>3, <2>4 DEF Cell
<1>3. CASE q.fn = 23
  <2>1. q.addr \in Nat /\ q.nb \in Nat /\ q.waddr \in Nat /\ q.wnb \in Nat
    BY <1>3, RequestFields
  <2>2. /\ ReadCells(q) = q.addr .. q.addr + q.nb - 1
        /\ WriteCells(q) = q.waddr .. q.waddr + q.wnb - 1
        /\ Limit(q.fn) = MaxReadRegs
    BY <1>3 DEF WriteCells, ReadCells, Limit
  <2>3. Legal(q) <=> /\ q.nb \in 1 .. MaxReadRegs /\ q.wnb \in 1 .. MaxRWWriteRegs
                     /\ q.bytes = 2 * q.wnb
                     /\ q.addr .. q.addr + q.nb - 1 \subseteq Cell
                     /\ q.waddr .. q.waddr + q.wnb - 1 \subseteq Cell
    BY <1>3, <2>2 DEF Legal
  <2>4. Verdict(q) = "ok" <=> /\ ~BadCount(q.wnb, MaxRWWriteRegs) /\ ~BadCount(q.nb, MaxReadRegs)
                              /\ q.bytes = q.wnb * 2
                              /\ ~(q.addr + q.nb > NB) /\ ~(q.waddr + q.wnb > NB)
    BY <1>3 DEF Verdict
  <2>5. /\ ~BadCount(q.nb, MaxReadRegs) <=> q.nb \in 1 .. MaxReadRegs
        /\ ~BadCount(q.wnb, MaxRWWriteRegs) <=> q.wnb \in 1 .. MaxRWWriteRegs
    BY <1>0, <2>1 DEF BadCount
  <2>6. q.nb \in 1 .. MaxReadRegs =>
           (q.addr .. q.addr + q.nb - 1 \subseteq Cell <=> ~(q.addr + q.nb > NB))
    <3>. SUFFICES ASSUME q.nb >= 1
                  PROVE  q.addr .. q.addr + q.nb - 1 \subseteq Cell <=> ~(q.addr + q.nb > NB)
      BY <1>0, <2>1
    <3>1. q.addr .. q.addr + q.nb - 1 \subseteq Cell <=> q.addr + q.nb <= NB
      BY <2>1, RunInside
    <3>. QED  BY <1>0, <2>1, <3>1
  <2>7. q.wnb \in 1 .. MaxRWWriteRegs =>
           (q.waddr .. q.waddr + q.wnb - 1 \subseteq Cell <=> ~(q.waddr + q.wnb > NB))
    <3>. SUFFICES ASSUME q.wnb >= 1
                  PROVE  q.waddr .. q.waddr + q.wnb - 1 \subseteq Cell
                            <=> ~(q.waddr + q.wnb > NB)
      BY <1>0, <2>1
    <3>1. q.waddr .. q.waddr + q.wnb - 1 \subseteq Cell <=> q.waddr + q.wnb <= NB
      BY <2>1, RunInside
    <3>. QED  BY <1>0, <2>1, <3>1
  <2>8. q.bytes = q.wnb * 2 <=> q.bytes = 2 * q.wnb
    BY <2>1
  <2>. QED  BY <2>3, <2>4, <2>5, <2>6, <2>7, <2>8
<1>4. CASE q.fn \in {7, 17, 99}
  BY <1>4 DEF Verdict, Legal, WriteCells, ReadCells
<1>. QED  BY <1>1, <1>2, <1>3, <1>4, RequestFields

\* modbus_reply refuses exactly the requests that are not legal, whichever
\* function they are for: those get an exception and change no table, and every
\* other one is answered by its function (read exception status, which libmodbus
\* has no answer for, stands for its error).
THEOREM RefusesExactlyIllegal ==
    ASSUME NEW t, NEW q \in Request
    PROVE  LET r == modbus_reply(t, q)
           IN  /\ r.rsp.fn = IF Legal(q) THEN q.fn ELSE q.fn + 128
               /\ ~Legal(q) => r.tab = t
<1>1. CASE ~Legal(q)
  <2>1. Verdict(q) # "ok"
    BY <1>1, VerdictIsLegal
  <2>2. /\ modbus_reply(t, q).tab = t
        /\ modbus_reply(t, q).rsp = [fn |-> q.fn + 128, exception |-> Verdict(q)]
    BY <2>1, RefusedChangesNothing
  <2>3. modbus_reply(t, q).rsp.fn = q.fn + 128
    BY <2>2
  <2>. QED  BY <1>1, <2>2, <2>3
<1>2. CASE Legal(q)
  <2>1. Verdict(q) = "ok" /\ q.fn \in {1, 2, 3, 4, 5, 6, 7, 15, 16, 17, 23}
    BY <1>2, VerdictIsLegal DEF Legal
  <2>2. CASE q.fn = 7
    BY <1>2, <2>1, <2>2 DEF modbus_reply
  <2>3. CASE q.fn # 7
    <3>1. modbus_reply(t, q).rsp = Answer(Written(t, q), q)
      BY <2>1, <2>3 DEF modbus_reply
    <3>2. Answer(Written(t, q), q).fn = q.fn
      BY <2>1, <2>3 DEF Answer
    <3>. QED  BY <1>2, <3>1, <3>2
  <2>. QED  BY <2>2, <2>3
<1>. QED  BY <1>1, <1>2

\* A write of several cells changes the cells it names and no other.
LEMMA OverwriteFrame ==
    ASSUME NEW S, NEW table \in [Cell -> S], NEW a \in Nat, NEW data \in Seq(S)
    PROVE  /\ Overwrite(table, a, data) \in [Cell -> S]
           /\ \A c \in Cell : c \notin a .. a + Len(data) - 1 =>
                 Overwrite(table, a, data)[c] = table[c]
<1>1. ASSUME NEW c \in Cell, c \in a .. a + Len(data) - 1
      PROVE  data[c - a + 1] \in S
  BY <1>1, TableAssumption DEF Cell
<1>. QED  BY <1>1 DEF Overwrite

\* A request changes the coils or the holding registers it names: every other
\* cell, and the tables of inputs, keep their values, and the tables keep
\* their types.
THEOREM WritesWhatItNames ==
    ASSUME NEW t \in Tables, NEW q \in Request
    PROVE  LET u == modbus_reply(t, q).tab
           IN  /\ u \in Tables
               /\ u.input_bits = t.input_bits
               /\ u.input_registers = t.input_registers
               /\ \A c \in Cell \ WriteCells(q) :
                     u.bits[c] = t.bits[c] /\ u.registers[c] = t.registers[c]
<1>. DEFINE u == modbus_reply(t, q).tab
            Framed(x) == /\ x \in Tables
                         /\ x.input_bits = t.input_bits
                         /\ x.input_registers = t.input_registers
                         /\ \A c \in Cell \ WriteCells(q) :
                               /\ x.bits[c] = t.bits[c]
                               /\ x.registers[c] = t.registers[c]
<1>0. Framed(t)
  OBVIOUS
<1>1. u \in {t, Written(t, q)}
  BY DEF modbus_reply
<1>2. Framed(Written(t, q)) \/ Verdict(q) # "ok"
  <2>. SUFFICES ASSUME Verdict(q) = "ok" PROVE Framed(Written(t, q))
    OBVIOUS
  <2>. t.bits \in [Cell -> Bit] /\ t.registers \in [Cell -> Word]
    BY DEF Tables
  <2>1. CASE q.fn = 5
    <3>1. Written(t, q) = [t EXCEPT !.bits[q.addr] =
                                IF q.data = "on" THEN 1 ELSE 0]
      BY <2>1 DEF Written
    <3>. QED  BY <2>1, <3>1 DEF Tables, WriteCells, Bit
  <2>2. CASE q.fn = 6
    <3>1. Written(t, q) = [t EXCEPT !.registers[q.addr] = q.data]
      BY <2>2 DEF Written
    <3>2. q.data \in Word /\ WriteCells(q) = {q.addr}
      BY <2>2, RequestFields DEF WriteCells
    <3>3. /\ [t.registers EXCEPT ![q.addr] = q.data] \in [Cell -> Word]
          /\ \A c \in Cell \ {q.addr} :
                [t.registers EXCEPT ![q.addr] = q.data][c] = t.registers[c]
      BY <3>2
    <3>. QED  BY <3>1, <3>2, <3>3 DEF Tables
  <2>3. CASE q.fn = 15
    <3>1. Written(t, q) = [t EXCEPT !.bits = Overwrite(t.bits, q.addr, q.data)]
      BY <2>3 DEF Written, Tables
    <3>2. /\ Overwrite(t.bits, q.addr, q.data) \in [Cell -> Bit]
          /\ \A c \in Cell \ WriteCells(q) :
                Overwrite(t.bits, q.addr, q.data)[c] = t.bits[c]
      BY <2>3, RequestFields, OverwriteFrame, SMTT(30) DEF WriteCells
    <3>. QED  BY <3>1, <3>2 DEF Tables
  <2>4. CASE q.fn = 16
    <3>1. Written(t, q) =
            [t EXCEPT !.registers = Overwrite(t.registers, q.addr, q.data)]
      BY <2>4 DEF Written, Tables
    <3>2. /\ Overwrite(t.registers, q.addr, q.data) \in [Cell -> Word]
          /\ \A c \in Cell \ WriteCells(q) :
                Overwrite(t.registers, q.addr, q.data)[c] = t.registers[c]
      BY <2>4, RequestFields, OverwriteFrame DEF WriteCells
    <3>. QED  BY <3>1, <3>2 DEF Tables
  <2>5. CASE q.fn = 23
    <3>1. Written(t, q) =
            [t EXCEPT !.registers = Overwrite(t.registers, q.waddr, q.data)]
      BY <2>5 DEF Written, Tables
    <3>2. /\ Overwrite(t.registers, q.waddr, q.data) \in [Cell -> Word]
          /\ \A c \in Cell \ WriteCells(q) :
                Overwrite(t.registers, q.waddr, q.data)[c] = t.registers[c]
      BY <2>5, RequestFields, OverwriteFrame DEF WriteCells
    <3>. QED  BY <3>1, <3>2 DEF Tables
  <2>6. CASE q.fn \notin {5, 6, 15, 16, 23}
    <3>1. Written(t, q) = t
      BY <2>6 DEF Written
    <3>. QED  BY <3>1, <1>0
  <2>. QED  BY <2>1, <2>2, <2>3, <2>4, <2>5, <2>6
<1>3. Framed(u)
  BY <1>0, <1>1, <1>2 DEF modbus_reply
<1>. QED  BY <1>3

\* With the limits of modbus.h the answer to an accepted read has a byte count
\* that fits in its byte, and the frame fits in the 256 bytes of an RTU frame
\* (the array rsp of modbus_reply).
THEOREM AnswerFits ==
    ASSUME MaxReadBits <= 2000, MaxReadRegs <= 125,
           NEW q \in Request, q.fn \in {1, 2, 3, 4, 23}, Verdict(q) = "ok"
    PROVE  ByteCount(q) \in 1 .. 255 /\ FrameLength(q) <= 256
<1>1. q.nb \in Nat
  BY RequestFields
<1>2. CASE q.fn \in {1, 2}
  <2>1. ~BadCount(q.nb, MaxReadBits)
    BY <1>2 DEF Verdict, Limit
  <2>2. 1 <= q.nb /\ q.nb <= 2000
    BY <1>1, <2>1, TableAssumption DEF BadCount
  <2>3. (q.nb \div 8) + (IF q.nb % 8 # 0 THEN 1 ELSE 0) \in 1 .. 250
    BY <1>1, <2>2
  <2>. QED  BY <1>2, <2>3 DEF ByteCount, FrameLength
<1>3. CASE q.fn \in {3, 4, 23}
  <2>1. ~BadCount(q.nb, MaxReadRegs)
    BY <1>3 DEF Verdict, Limit
  <2>2. 1 <= q.nb /\ q.nb <= 125
    BY <1>1, <2>1, TableAssumption DEF BadCount
  <2>. QED  BY <1>1, <1>3, <2>2 DEF ByteCount, FrameLength
<1>. QED  BY <1>2, <1>3

-----------------------------------------------------------------------------
(* The master knows what its writes have left. *)

\* The part of the types that matters here: the coils and the holding
\* registers.  What HandleRequest puts in the input registers does not.
Shape ==
    /\ tab = [bits |-> tab.bits, input_bits |-> tab.input_bits,
              registers |-> tab.registers, input_registers |-> tab.input_registers]
    /\ tab.bits \in [Cell -> Bit] /\ DOMAIN tab.registers = Cell
    /\ acked = [bits |-> acked.bits, registers |-> acked.registers]
    /\ DOMAIN acked.registers = Cell

\* A request that modbus_reply is about to answer.
Pending == pc \in {"values", "reply"} => req \in Requests /\ req.fn \in 1 .. 6

Inv == Shape /\ Pending /\ MasterKnows

\* The initial tables are known to be clear.
LEMMA InvInit == Init => Inv
<1>. SUFFICES ASSUME Init PROVE Inv
  OBVIOUS
<1>1. Shape
  BY DEF Init, Shape, ClearedTables, Bit
<1>2. Pending
  BY DEF Init, Pending
<1>3. MasterKnows
  BY DEF Init, MasterKnows, ClearedTables
<1>. QED  BY <1>1, <1>2, <1>3 DEF Inv

\* What is known survives a step that keeps the coils and writes only
\* registers that a widget feeds.
LEMMA KeptFrame ==
    ASSUME Shape, MasterKnows, Shape',
           tab'.bits = tab.bits, UNCHANGED acked,
           \A c \in Cell : ~Fed(3, c) => tab'.registers[c] = tab.registers[c]
    PROVE  MasterKnows'
BY DEF MasterKnows, Fed, Feeds, Index

\* The fields of a register of the form.
LEMMA RegisterFields ==
    ASSUME NEW k \in Index
    PROVE  /\ k \in 1 .. Len(Registers) /\ Len(Registers) \in Nat
           /\ Registers[k].func \in 1 .. 6
           /\ Registers[k].addr \in Cell /\ Registers[k].w \in Widgets
           /\ Registers[k].hi \in Cell \cup {-1}
<1>1. k \in 1 .. Len(Registers) /\ Len(Registers) \in Nat
  BY RegisterAssumption DEF Index
<1>2. Registers[k] \in RegisterModbus
  BY <1>1, RegisterAssumption
<1>. QED  BY <1>1, <1>2 DEF RegisterModbus

\* What a step of updateValues does, by the function of its register.
LEMMA ValueCases ==
    ASSUME Inv, UpdateValue
    PROVE  LET v == widget[reg.w]
               In(S) == [S EXCEPT ![reg.addr] = IF v # 0 THEN 1 ELSE 0]
               Set(b, n, r) == tab' = [bits |-> tab.bits, input_bits |-> b,
                                       registers |-> n, input_registers |-> r]
           IN  \/ reg.func > 4 /\ tab' = tab /\ value' = value
               \/ /\ reg.func \in 1 .. 4 /\ value' = [value EXCEPT ![i] = v]
                  /\ \/ reg.func = 1 /\ tab' = tab
                     \/ /\ reg.func = 2
                        /\ Set(In(tab.input_bits), tab.registers, tab.input_registers)
                     \/ /\ reg.func = 3
                        /\ Set(tab.input_bits, Put(tab.registers, v), tab.input_registers)
                     \/ /\ reg.func = 4
                        /\ Set(tab.input_bits, tab.registers, Put(tab.input_registers, v))
<1>. DEFINE v == widget[reg.w]
<1>1. i \in Index /\ reg = Registers[i]
  BY DEF UpdateValue, Past, reg
<1>2. reg.func \in 1 .. 6
  BY <1>1, RegisterFields
<1>3. CASE reg.func > 4
  BY <1>3 DEF UpdateValue
<1>4. CASE ~(reg.func > 4)
  <2>1. reg.func \in {1, 2, 3, 4}
    BY <1>2, <1>4
  <2>2. value' = [value EXCEPT ![i] = v]
    BY <1>4 DEF UpdateValue
  <2>3. Shape
    BY DEF Inv
  <2>4. CASE reg.func = 1
    <3>1. tab' = tab
      BY <1>4, <2>4 DEF UpdateValue
    <3>. QED  BY <2>1, <2>2, <2>4, <3>1
  <2>5. CASE reg.func = 2
    <3>1. tab' = [tab EXCEPT !.input_bits[reg.addr] = IF v # 0 THEN 1 ELSE 0]
      BY <1>4, <2>5 DEF UpdateValue
    <3>. QED  BY <2>1, <2>2, <2>3, <2>5, <3>1 DEF Shape
  <2>6. CASE reg.func = 3
    <3>1. tab' = [tab EXCEPT !.registers = Put(@, v)]
      BY <1>4, <2>6 DEF UpdateValue
    <3>. QED  BY <2>1, <2>2, <2>3, <2>6, <3>1 DEF Shape
  <2>7. CASE reg.func = 4
    <3>1. tab' = [tab EXCEPT !.input_registers = Put(@, v)]
      BY <1>4, <2>7 DEF UpdateValue
    <3>. QED  BY <2>1, <2>2, <2>3, <2>7, <3>1 DEF Shape
  <2>. QED  BY <2>1, <2>4, <2>5, <2>6, <2>7
<1>. QED  BY <1>3, <1>4

\* Serving a register: updateValues writes the registers its widget feeds.
LEMMA ValueStep == ASSUME Inv, UpdateValue PROVE Inv'
<1>. DEFINE v == widget[reg.w]
<1>1. i \in Index /\ reg = Registers[i] /\ UNCHANGED <<pc, req, acked>>
  BY DEF UpdateValue, Past, reg
<1>2. tab' = tab \/ \E b, n, r :
          /\ tab' = [bits |-> tab.bits, input_bits |-> b,
                     registers |-> n, input_registers |-> r]
          /\ n = tab.registers \/ (reg.func = 3 /\ n = Put(tab.registers, v))
  <2>. DEFINE In == [tab.input_bits EXCEPT ![reg.addr] = IF v # 0 THEN 1 ELSE 0]
  <2>. HIDE DEF v, In
  <2>. QED  BY ValueCases DEF v, In
<1>3. Shape'
  BY <1>1, <1>2 DEF Inv, Shape, Put
<1>4. tab'.bits = tab.bits
  BY <1>2
<1>5. \A c \in Cell : ~Fed(3, c) => tab'.registers[c] = tab.registers[c]
  <2>1. ASSUME NEW c \in Cell, ~Fed(3, c), reg.func = 3
        PROVE  Put(tab.registers, v)[c] = tab.registers[c]
    BY <1>1, <2>1 DEF Put, Fed, Feeds
  <2>. QED  BY <1>2, <2>1
<1>. QED  BY <1>1, <1>3, <1>4, <1>5, KeptFrame DEF Inv, Pending

\* updateWidgets sets no coil and no holding register.
LEMMA WidgetStep == ASSUME Inv, UpdateWidget PROVE Inv'
<1>1. Shape' /\ tab'.bits = tab.bits /\ tab'.registers = tab.registers
  BY DEF Inv, UpdateWidget, Shape
<1>. QED  BY <1>1, KeptFrame DEF Inv, UpdateWidget, Pending

\* The board fills input registers only.
LEMMA ReceiveStep == ASSUME Inv, NEW q \in Requests, Receive(q) PROVE Inv'
<1>1. Shape' /\ tab'.bits = tab.bits /\ tab'.registers = tab.registers
  <2>1. tab' = HandleRequest(tab, q)
    BY DEF Receive
  <2>2. CASE tab' = tab
    BY <2>2 DEF Inv, Shape, Receive
  <2>3. CASE tab' = [tab EXCEPT
               !.input_registers[Summary] = SummaryWord(tab.bits, 0),
               !.input_registers[Summary + 1] = SummaryWord(tab.bits, 1)]
    BY <2>3 DEF Inv, Shape, Receive
  <2>. QED  BY <2>1, <2>2, <2>3 DEF HandleRequest
<1>2. MasterKnows'
  BY <1>1, KeptFrame DEF Inv, Receive
<1>3. Pending'
  BY DEF Inv, Receive, Pending, Served
<1>. QED  BY <1>1, <1>2, <1>3 DEF Inv

\* An answer tells the master what modbus_reply has written.
LEMMA ReplyStep == ASSUME Inv, Reply PROVE Inv'
<1>. DEFINE r == modbus_reply(tab, req)
<1>0. /\ req \in Requests /\ req \in Request /\ req.fn \in 1 .. 6
      /\ tab' = r.tab /\ acked' = Noted(acked, r.rsp) /\ Shape /\ MasterKnows
  BY RegisterAssumption DEF Inv, Pending, Reply
<1>1. CASE Verdict(req) # "ok"
  <2>1. tab' = tab
    BY <1>0, <1>1, RefusedChangesNothing
  <2>2. r.rsp.fn \notin {5, 6}
    <3>1. r.rsp = [fn |-> req.fn + 128, exception |-> Verdict(req)]
      BY <1>1, RefusedChangesNothing
    <3>. QED  BY <1>0, <3>1
  <2>3. acked' = acked
    BY <1>0, <2>2 DEF Noted
  <2>4. Shape' /\ MasterKnows'
    BY <1>0, <2>1, <2>3 DEF Shape, MasterKnows, Fed, Feeds, Index
  <2>. QED  BY <2>4 DEF Inv, Pending, Reply
<1>2. CASE Verdict(req) = "ok" /\ req.fn \in 1 .. 4
  <2>1. tab' = tab
    BY <1>0, <1>2 DEF modbus_reply, Written
  <2>2. r.rsp.fn \notin {5, 6}
    <3>1. r.rsp = Answer(Written(tab, req), req)
      BY <1>0, <1>2 DEF modbus_reply
    <3>2. Answer(Written(tab, req), req).fn = req.fn
      BY <1>2 DEF Answer
    <3>. QED  BY <1>2, <3>1, <3>2
  <2>3. acked' = acked
    BY <1>0, <2>2 DEF Noted
  <2>4. Shape' /\ MasterKnows'
    BY <1>0, <2>1, <2>3 DEF Shape, MasterKnows, Fed, Feeds, Index
  <2>. QED  BY <2>4 DEF Inv, Pending, Reply
<1>3. CASE Verdict(req) = "ok" /\ req.fn = 5
  <2>1. r.rsp = req
    BY <1>3 DEF modbus_reply, Answer
  <2>2. tab' = [tab EXCEPT !.bits[req.addr] = IF req.data = "on" THEN 1 ELSE 0]
    BY <1>0, <1>3 DEF modbus_reply, Written
  <2>3. acked' = [acked EXCEPT !.bits[req.addr] = IF req.data = "on" THEN 1 ELSE 0]
    BY <1>0, <1>3, <2>1 DEF Noted
  <2>4. Shape' /\ MasterKnows'
    <3>1. /\ tab'.bits = [tab.bits EXCEPT ![req.addr] =
                               IF req.data = "on" THEN 1 ELSE 0]
          /\ acked'.bits = [acked.bits EXCEPT ![req.addr] =
                               IF req.data = "on" THEN 1 ELSE 0]
          /\ tab'.registers = tab.registers
          /\ acked'.registers = acked.registers
      BY <1>0, <2>2, <2>3 DEF Shape
    <3>2. tab'.bits \in [Cell -> Bit]
      BY <1>0, <3>1 DEF Shape, Bit
    <3>3. Shape'
      BY <1>0, <2>2, <2>3, <3>1, <3>2 DEF Shape
    <3>4. MasterKnows'
      BY <1>0, <3>1 DEF MasterKnows, Fed, Feeds, Index
    <3>. QED  BY <3>3, <3>4
  <2>. QED  BY <2>4 DEF Inv, Pending, Reply
<1>4. CASE Verdict(req) = "ok" /\ req.fn = 6
  <2>1. r.rsp = req
    BY <1>4 DEF modbus_reply, Answer
  <2>2. tab' = [tab EXCEPT !.registers[req.addr] = req.data]
    BY <1>0, <1>4 DEF modbus_reply, Written
  <2>3. acked' = [acked EXCEPT !.registers[req.addr] = req.data]
    BY <1>0, <1>4, <2>1 DEF Noted
  <2>4. Shape' /\ MasterKnows'
    BY <1>0, <2>2, <2>3 DEF Shape, MasterKnows, Fed, Feeds, Index
  <2>. QED  BY <2>4 DEF Inv, Pending, Reply
<1>5. req.fn \in 1 .. 4 \/ req.fn = 5 \/ req.fn = 6
  BY <1>0
<1>. QED  BY <1>1, <1>2, <1>3, <1>4, <1>5

\* Stop and Start clear the same half of what the master knows.
LEMMA RestartStep == ASSUME Inv, Restart PROVE Inv'
<1>1. /\ tab'.bits = tab.bits /\ tab'.registers = Cleared(tab.registers)
      /\ acked'.bits = acked.bits /\ acked'.registers = Cleared(acked.registers)
      /\ tab' = [bits |-> tab'.bits, input_bits |-> tab'.input_bits,
             registers |-> tab'.registers, input_registers |-> tab'.input_registers]
      /\ acked' = [bits |-> acked'.bits, registers |-> acked'.registers]
  BY DEF Inv, Restart, Shape
<1>2. Shape' /\ MasterKnows'
  BY <1>1 DEF Inv, Shape, MasterKnows, Cleared, Fed, Feeds, Index
<1>. QED  BY <1>2 DEF Inv, Pending, Restart

\* The invariant is kept by every step.
LEMMA InvStep == ASSUME Inv, [Next]_vars PROVE Inv'
<1>1. ASSUME UNCHANGED <<tab, acked, req>>, pc' \in {pc, "idle"} PROVE Inv'
  BY <1>1 DEF Inv, Shape, Pending, MasterKnows, Fed, Feeds, Index
<1>2. ASSUME NEW q \in Requests, Receive(q) PROVE Inv'
  BY <1>2, ReceiveStep
<1>3. CASE UpdateValue
  BY <1>3, ValueStep
<1>4. CASE ValuesDone
  BY <1>4 DEF ValuesDone, Inv, Shape, Pending, MasterKnows, Fed, Feeds, Index
<1>5. CASE Reply
  BY <1>5, ReplyStep
<1>6. CASE UpdateWidget
  BY <1>6, WidgetStep
<1>7. CASE WidgetsDone
  BY <1>7 DEF WidgetsDone, Inv, Shape, Pending, MasterKnows, Fed, Feeds, Index
<1>8. CASE Restart
  BY <1>8, RestartStep
<1>9. ASSUME NEW w \in Widgets, NEW v \in Edits[w], UserEdits(w, v) PROVE Inv'
  BY <1>1, <1>9 DEF UserEdits
<1>10. CASE UNCHANGED vars
  BY <1>1, <1>10 DEF vars
<1>. QED  BY <1>2, <1>3, <1>4, <1>5, <1>6, <1>7, <1>8, <1>9, <1>10 DEF Next, Poll

\* The coils of a device, and the holding registers no widget feeds, always
\* hold what the answers told the master that wrote them, for any tables,
\* form and requests.
THEOREM WritesAreKept == Spec => []MasterKnows
<1>1. Inv => MasterKnows
  BY DEF Inv
<1>. QED  BY InvInit, InvStep, <1>1, PTL DEF Spec

-----------------------------------------------------------------------------
(* The boxes of a form show its coils. *)

\* Where poll() and its loop may stand: the loop begins at the first register.
LoopOK ==
    /\ pc \in {"idle", "values", "reply", "widgets"}
    /\ i \in Nat \ {0}
    /\ pc = "idle" => i = 1
    /\ DOMAIN widget = Widgets /\ DOMAIN value = Index /\ DOMAIN seen = Widgets

\* The register that sets its box last, of those before n.
LastBox(k, n) ==
    /\ k \in Index /\ k < n /\ Registers[k].func = 5
    /\ \A k2 \in Index : k2 < n /\ Registers[k2].func = 5
           /\ Registers[k2].w = Registers[k].w => k2 <= k

\* The registers before n are shown in the boxes nobody has touched.
ShownTo(n) ==
    \A k \in Index : LastBox(k, n) /\ Registers[k].w \notin edited =>
        widget[Registers[k].w] = tab.bits[Registers[k].addr]

\* updateWidgets has shown the registers its loop has passed, and what it has
\* shown stays until an answer changes a coil, which is when it begins again.
BoxesOK == ShownTo(IF pc = "widgets" THEN i ELSE Len(Registers) + 1)

\* Only an answer changes a coil.
LEMMA CoilsStay ==
    ASSUME Inv, [Next]_vars, ~Reply
    PROVE  tab'.bits = tab.bits
<1>1. CASE UpdateValue
  BY <1>1, ValueCases
<1>2. CASE UpdateWidget
  BY <1>2 DEF UpdateWidget, Inv, Shape
<1>3. ASSUME NEW q \in Requests, Receive(q) PROVE tab'.bits = tab.bits
  <2>1. tab' = HandleRequest(tab, q)
    BY <1>3 DEF Receive
  <2>. QED  BY <2>1 DEF HandleRequest, Inv, Shape
<1>4. CASE Restart
  BY <1>4 DEF Restart, Inv, Shape
<1>. QED  BY <1>1, <1>2, <1>3, <1>4 DEF Next, Poll, ValuesDone, WidgetsDone,
                                    UserEdits, vars

\* The loop of a phase begins at the first register and stays in step.
LEMMA LoopStep == ASSUME LoopOK, [Next]_vars PROVE LoopOK'
<1>1. ASSUME NEW q \in Requests, Receive(q) PROVE LoopOK'
  <2>1. CASE q.fn \notin Served
    BY <1>1, <2>1 DEF Receive, LoopOK, Index
  <2>2. CASE q.fn \in Served
    <3>1. q.fn \in 1 .. 4 \/ q.fn \in {5, 6} \/ q.fn \in {15, 16}
      BY <2>2 DEF Served
    <3>2. pc' \in {"values", "reply", "widgets"} /\ i' = i
      BY <1>1, <2>2, <3>1 DEF Receive
    <3>3. DOMAIN widget' = Widgets /\ DOMAIN value' = Index
          /\ DOMAIN seen' = Widgets
      BY <1>1, <2>2 DEF Receive, LoopOK
    <3>. QED  BY <3>2, <3>3 DEF LoopOK, Index
  <2>. QED  BY <2>1, <2>2
<1>2. CASE UpdateValue
  <2>1. DOMAIN value' = DOMAIN value
    BY <1>2 DEF UpdateValue
  <2>. QED  BY <1>2, <2>1 DEF UpdateValue, LoopOK, Index
<1>3. CASE UpdateWidget
  BY <1>3 DEF UpdateWidget, LoopOK, Index
<1>4. ASSUME NEW w \in Widgets, NEW v \in Edits[w], UserEdits(w, v) PROVE LoopOK'
  BY <1>4 DEF UserEdits, LoopOK, Index
<1>5. CASE ValuesDone \/ Reply \/ WidgetsDone \/ Restart \/ UNCHANGED vars
  BY <1>5 DEF ValuesDone, Reply, WidgetsDone, Restart, vars, LoopOK, Index
<1>. QED  BY <1>1, <1>2, <1>3, <1>4, <1>5 DEF Next, Poll

\* updateWidgets shows one more register: the last of its box, since the loop
\* has just come to it.
LEMMA WidgetShows == ASSUME Inv, LoopOK, BoxesOK, UpdateWidget PROVE BoxesOK'
<1>1. /\ pc = "widgets" /\ pc' = "widgets" /\ i \in Index /\ i' = i + 1
      /\ reg = Registers[i] /\ ShownTo(i)
  BY DEF UpdateWidget, Past, reg, BoxesOK
<1>2. tab'.bits = tab.bits
  BY DEF Inv, Shape, UpdateWidget
<1>. SUFFICES ASSUME NEW k \in Index, LastBox(k, i + 1),
                     Registers[k].w \notin edited'
              PROVE  widget'[Registers[k].w] = tab.bits[Registers[k].addr]
  BY <1>1, <1>2 DEF BoxesOK, ShownTo, Index, LastBox
<1>3. i \in Nat /\ Registers[k].w \in Widgets /\ \A k2 \in Index : k2 \in Nat
  BY <1>1, RegisterFields
<1>4. CASE k = i
  BY <1>1, <1>4, <1>3 DEF UpdateWidget, LoopOK, LastBox
<1>5. CASE k # i
  <2>1. LastBox(k, i)
    BY <1>3, <1>5 DEF LastBox
  <2>2. reg.func = 5 => Registers[k].w # reg.w
    BY <1>1, <1>3, <1>5 DEF LastBox
  <2>3. /\ Registers[k].w \notin edited
        /\ widget'[Registers[k].w] = widget[Registers[k].w]
    BY <2>2, <1>3 DEF UpdateWidget, LoopOK
  <2>. QED  BY <1>1, <2>1, <2>3 DEF ShownTo
<1>. QED  BY <1>4, <1>5

\* The other steps show nothing and change no coil, or begin anew.
LEMMA BoxesStep ==
    ASSUME Inv, LoopOK, BoxesOK, [Next]_vars
    PROVE  BoxesOK'
<1>. DEFINE End == Len(Registers) + 1
<1>0. \A k \in Index : k \in 1 .. Len(Registers)
  BY RegisterFields
<1>2. ASSUME pc' = "widgets", i' = 1 PROVE BoxesOK'
  BY <1>0, <1>2 DEF BoxesOK, ShownTo, LastBox, Index
<1>3. ASSUME pc # "widgets", pc' # "widgets", UNCHANGED <<widget, edited>>,
             tab'.bits = tab.bits
      PROVE  BoxesOK'
  BY <1>3 DEF BoxesOK, ShownTo, LastBox, Index
<1>4. ASSUME NEW q \in Requests, Receive(q) PROVE BoxesOK'
  <2>1. tab'.bits = tab.bits \/ Reply
    BY CoilsStay
  <2>2. tab'.bits = tab.bits
    BY <1>4, <2>1 DEF Receive, Reply
  <2>3. pc = "idle" /\ i' = i /\ i = 1 /\ UNCHANGED <<widget, edited>>
    BY <1>4 DEF Receive, LoopOK
  <2>4. CASE pc' = "widgets"
    BY <1>2, <2>3, <2>4
  <2>5. CASE pc' # "widgets"
    BY <1>3, <2>2, <2>3, <2>5
  <2>. QED  BY <2>4, <2>5
<1>5. CASE UpdateValue \/ ValuesDone \/ Restart
  <2>1. tab'.bits = tab.bits
    BY <1>5, CoilsStay DEF UpdateValue, ValuesDone, Restart, Reply
  <2>. QED  BY <1>3, <1>5, <2>1 DEF UpdateValue, ValuesDone, Restart
<1>6. CASE Reply
  BY <1>2, <1>6 DEF Reply
<1>7. CASE UpdateWidget
  BY <1>7, WidgetShows
<1>8. CASE WidgetsDone
  <2>1. i \notin Index /\ i \in Nat \ {0} /\ i > Len(Registers)
    BY <1>8, RegisterAssumption DEF WidgetsDone, Past, LoopOK, Index
  <2>2. \A k \in Index : LastBox(k, End) => LastBox(k, i)
    BY <1>0, <2>1 DEF LastBox
  <2>. QED  BY <1>8, <2>1, <2>2 DEF WidgetsDone, BoxesOK, ShownTo, LastBox, Index
<1>9. ASSUME NEW w \in Widgets, NEW v \in Edits[w], UserEdits(w, v)
      PROVE  BoxesOK'
  <2>1. \A x \in Widgets : x \notin edited' =>
            x \notin edited /\ widget'[x] = widget[x]
    BY <1>9 DEF UserEdits, LoopOK
  <2>2. \A k \in Index : Registers[k].w \in Widgets
    BY RegisterFields
  <2>3. UNCHANGED <<tab, pc, i>>
    BY <1>9 DEF UserEdits
  <2>. QED  BY <2>1, <2>2, <2>3 DEF BoxesOK, ShownTo, LastBox, Index
<1>10. CASE UNCHANGED vars
  BY <1>10 DEF vars, BoxesOK, ShownTo, LastBox, Index
<1>. QED  BY <1>4, <1>5, <1>6, <1>7, <1>8, <1>9, <1>10 DEF Next, Poll

\* A new form shows cleared boxes and has cleared coils.
LEMMA BoxesInit == Init => LoopOK /\ BoxesOK
<1>. SUFFICES ASSUME Init PROVE LoopOK /\ BoxesOK
  OBVIOUS
<1>1. LoopOK
  BY DEF Init, LoopOK
<1>2. \A k \in Index : Registers[k].w \in Widgets /\ Registers[k].addr \in Cell
  BY RegisterFields
<1>3. BoxesOK
  BY <1>2 DEF Init, BoxesOK, ShownTo, ClearedTables
<1>. QED  BY <1>1, <1>3

\* Between two requests every box the user has not touched shows its coil,
\* whatever boxes and registers share a widget: updateWidgets follows every
\* answer, and what it shows is not undone.
THEOREM BoxesAreTrue == Spec => []CoilsAreShown
<1>. DEFINE All == Inv /\ LoopOK /\ BoxesOK
<1>1. Init => All
  BY InvInit, BoxesInit
<1>2. All /\ [Next]_vars => All'
  BY InvStep, LoopStep, BoxesStep
<1>3. All => CoilsAreShown
  <2>. SUFFICES ASSUME BoxesOK, pc = "idle", NEW k \in Index,
                       Registers[k].func = 5, Registers[k].w \notin edited,
                       \A k2 \in Index : Registers[k2].func = 5
                           /\ Registers[k2].w = Registers[k].w => k2 <= k
                PROVE  widget[Registers[k].w] = tab.bits[Registers[k].addr]
    BY DEF CoilsAreShown
  <2>1. k < Len(Registers) + 1
    BY RegisterFields
  <2>. QED  BY <2>1 DEF BoxesOK, ShownTo, LastBox
<1>. HIDE DEF All
<1>. QED  BY <1>1, <1>2, <1>3, PTL DEF Spec

-----------------------------------------------------------------------------
(* Reads are recent. *)

\* The register that feeds a cell last, of those before n.
LastFeed(k, fn, c, n) ==
    /\ k \in Index /\ k < n /\ Feeds(k, fn, c)
    /\ \A k2 \in Index : k2 < n /\ Feeds(k2, fn, c) => k2 <= k

\* What the tables hold of a register's number.
Part(fn, r, c, v) == IF fn = 2 THEN IF v # 0 THEN 1 ELSE 0
                     ELSE IF c = r.hi THEN High(v) ELSE Low(v)

\* The cells fed by registers before n hold a number that was shown since the
\* request arrived: the one in the register that fed them last.
FreshTo(n) ==
    \A fn \in {2, 3, 4} : \A c \in Cell : \A k \in Index :
        LastFeed(k, fn, c, n) =>
            /\ TableOf(tab, fn)[c] = Part(fn, Registers[k], c, value[k])
            /\ value[k] \in seen[Registers[k].w]

\* No answer is there before the reply, and from the request on what a widget
\* shows now is among what it has shown; updateValues has fed the cells of the
\* registers its loop has passed.
FreshOK ==
    /\ DOMAIN tab.input_bits = Cell
    /\ pc \in {"idle", "values", "reply"} => rsp = None
    /\ pc # "idle" => \A w \in Widgets : widget[w] \in seen[w]
    /\ pc = "values" => FreshTo(i)
    /\ pc = "reply" /\ req.fn \in {2, 3, 4} => FreshTo(Len(Registers) + 1)

LEMMA TableNames ==
    ASSUME NEW t
    PROVE  /\ TableOf(t, 2) = t.input_bits
           /\ TableOf(t, 3) = t.registers
           /\ TableOf(t, 4) = t.input_registers
<1>1. TableOf(t, 2) = t.input_bits
  BY DEF TableOf
<1>2. TableOf(t, 3) = t.registers
  BY DEF TableOf
<1>3. TableOf(t, 4) = t.input_registers
  BY DEF TableOf
<1>. QED  BY <1>1, <1>2, <1>3

\* A set of positions of a sequence has a last one.
LEMMA LastPosition ==
    ASSUME NEW n \in Nat, NEW T \in SUBSET (1 .. n), T # {}
    PROVE  \E x \in T : \A y \in T : y <= x
<1>. DEFINE F == {x + 1 .. n : x \in T}
            R == StrictSubsetOrdering(Nat)
<1>1. IsWellFoundedOn(R, FiniteSubsetsOf(Nat))
  BY FS_StrictSubsetOrderingWellFounded
<1>2. F \subseteq FiniteSubsetsOf(Nat)
  <2>1. ASSUME NEW x \in T PROVE x + 1 .. n \in FiniteSubsetsOf(Nat)
    <3>1. x + 1 \in Int /\ n \in Int /\ x + 1 .. n \subseteq Nat
      OBVIOUS
    <3>2. IsFiniteSet(x + 1 .. n)
      BY <3>1, FS_Interval
    <3>. QED  BY <3>1, <3>2 DEF FiniteSubsetsOf
  <2>. QED  BY <2>1
<1>3. PICK I \in F : \A J \in F : <<J, I>> \notin R
  <2>1. F # {}
    OBVIOUS
  <2>. HIDE DEF F, R
  <2>. QED  BY <1>1, <1>2, <2>1, WFMin
<1>4. PICK x \in T : I = x + 1 .. n
  OBVIOUS
<1>5. ASSUME NEW y \in T, x < y PROVE FALSE
  <2>1. /\ y + 1 .. n \in F
        /\ y \notin y + 1 .. n /\ y \in x + 1 .. n
        /\ y + 1 .. n \subseteq x + 1 .. n
    BY <1>5
  <2>2. y + 1 .. n \in SUBSET Nat /\ x + 1 .. n \in SUBSET Nat
    BY <1>5
  <2>3. <<y + 1 .. n, x + 1 .. n>> \in R
    BY <2>1, <2>2 DEF StrictSubsetOrdering
  <2>. QED  BY <1>3, <1>4, <2>1, <2>3
<1>. QED  BY <1>5

\* The feeder of a cell is the last register that feeds it.
LEMMA FeederIsLast ==
    ASSUME NEW fn, NEW c, Fed(fn, c)
    PROVE  /\ Feeder(fn, c) \in Index
           /\ LastFeed(Feeder(fn, c), fn, c, Len(Registers) + 1)
<1>. DEFINE T == {k \in Index : Feeds(k, fn, c)}
<1>1. T # {} /\ T \subseteq 1 .. Len(Registers) /\ Len(Registers) \in Nat
  BY RegisterAssumption DEF Fed, Index
<1>2. \E k \in T : \A k2 \in T : k2 <= k
  <2>. HIDE DEF T
  <2>. QED  BY <1>1, LastPosition
<1>3. \E k \in Index : /\ Feeds(k, fn, c)
                       /\ \A k2 \in Index : Feeds(k2, fn, c) => k2 <= k
  BY <1>2
<1>4. /\ Feeder(fn, c) \in Index /\ Feeds(Feeder(fn, c), fn, c)
      /\ \A k2 \in Index : Feeds(k2, fn, c) => k2 <= Feeder(fn, c)
  BY <1>3 DEF Feeder
<1>5. Feeder(fn, c) < Len(Registers) + 1
  BY <1>1, <1>4
<1>. QED  BY <1>4, <1>5 DEF LastFeed

\* An answer that is recent stays so: what a widget has shown is not forgotten
\* before the answer is.
LEMMA RecentStays ==
    ASSUME ReadsAreRecent, UNCHANGED <<req, rsp>>,
           \A w \in Widgets : seen[w] \subseteq seen'[w]
    PROVE  ReadsAreRecent'
<1>1. ASSUME NEW fn \in {3, 4}, NEW c \in Cell, Fed(fn, c)
      PROVE  seen[Registers[Feeder(fn, c)].w] \subseteq seen'[Registers[Feeder(fn, c)].w]
  BY <1>1, FeederIsLast, RegisterFields
<1>2. ASSUME NEW c \in Cell, Fed(2, c)
      PROVE  seen[Registers[Feeder(2, c)].w] \subseteq seen'[Registers[Feeder(2, c)].w]
  BY <1>2, FeederIsLast, RegisterFields
<1>3. ASSUME NEW fn \in {3, 4}, Reads(fn)', NEW c \in Cell, InAnswer(c)', Fed(fn, c)
      PROVE  LET r == Registers[Feeder(fn, c)]
             IN  \E v \in seen'[r.w] :
                   /\ ValueAt(c)' = IF c = r.hi THEN High(v) ELSE Low(v)
                   /\ /\ c = r.addr /\ r.hi # -1 /\ InAnswer(r.hi)'
                      /\ Feeder(fn, r.hi) = Feeder(fn, c)
                      => ValueAt(r.hi)' = High(v)
  BY <1>1, <1>3 DEF ReadsAreRecent, Reads, InAnswer, ValueAt
<1>4. ASSUME Reads(2)', NEW c \in Cell, InAnswer(c)', Fed(2, c)
      PROVE  \E v \in seen'[Registers[Feeder(2, c)].w] :
                ValueAt(c)' = IF v # 0 THEN 1 ELSE 0
  BY <1>2, <1>4 DEF ReadsAreRecent, Reads, InAnswer, ValueAt
<1>5. /\ \A fn, c : Fed(fn, c)' = Fed(fn, c)
      /\ \A fn, c : Feeder(fn, c)' = Feeder(fn, c)
  BY DEF Fed, Feeder, Feeds, Index
<1>. QED  BY <1>3, <1>4, <1>5 DEF ReadsAreRecent

\* updateValues feeds the cells of one more register with what its widget
\* shows; the cells of the registers before it that it does not feed stay.
LEMMA ValueFeeds ==
    ASSUME Inv, LoopOK, FreshOK, UpdateValue
    PROVE  FreshOK'
<1>. DEFINE v == widget[reg.w]
<1>1. /\ pc = "values" /\ pc' = "values" /\ i \in Index /\ i' = i + 1
      /\ reg = Registers[i] /\ FreshTo(i) /\ rsp' = rsp /\ rsp = None
      /\ UNCHANGED <<widget, seen>> /\ i \in Nat
      /\ DOMAIN tab.input_bits = Cell
  BY RegisterFields DEF UpdateValue, Past, reg, FreshOK
<1>2. reg.w \in Widgets /\ reg.addr \in Cell /\ v \in seen[reg.w]
  BY <1>1, RegisterFields DEF FreshOK
<1>3. DOMAIN tab'.input_bits = Cell
  BY <1>1, ValueCases
<1>4. ASSUME NEW fn \in {2, 3, 4}, NEW c \in Cell, NEW k \in Index,
             LastFeed(k, fn, c, i + 1)
      PROVE  /\ TableOf(tab', fn)[c] = Part(fn, Registers[k], c, value'[k])
             /\ value'[k] \in seen[Registers[k].w]
  <2>1. \A k2 \in Index : k2 \in Nat
    BY RegisterFields
  <2>2. CASE k = i
    <3>1. reg.func = fn /\ (c = reg.addr \/ (fn \in {3, 4} /\ c = reg.hi))
      BY <1>1, <1>4, <2>2 DEF LastFeed, Feeds
    <3>2. value' = [value EXCEPT ![i] = v]
      BY <3>1, ValueCases
    <3>3. value'[k] = v
      BY <2>2, <1>1, <3>2 DEF LoopOK
    <3>4. TableOf(tab', fn)[c] = Part(fn, reg, c, v)
      <4>1. CASE fn = 2
        <5>1. tab'.input_bits
                = [tab.input_bits EXCEPT ![reg.addr] = IF v # 0 THEN 1 ELSE 0]
          BY <3>1, <4>1, ValueCases
        <5>. QED  BY <1>1, <3>1, <4>1, <5>1, TableNames DEF Part
      <4>2. CASE fn = 3
        <5>1. tab'.registers = Put(tab.registers, v)
          BY <3>1, <4>2, ValueCases
        <5>. QED  BY <3>1, <4>2, <5>1, TableNames, TableAssumption DEF Part, Put, Cell
      <4>3. CASE fn = 4
        <5>1. tab'.input_registers = Put(tab.input_registers, v)
          BY <3>1, <4>3, ValueCases
        <5>. QED  BY <3>1, <4>3, <5>1, TableNames, TableAssumption DEF Part, Put, Cell
      <4>. QED  BY <4>1, <4>2, <4>3
    <3>. QED  BY <1>1, <1>2, <2>2, <3>3, <3>4
  <2>3. CASE k # i
    <3>1. k < i /\ LastFeed(k, fn, c, i)
      BY <1>1, <1>4, <2>1, <2>3 DEF LastFeed
    <3>2. reg.func = fn => c # reg.addr /\ (fn \in {3, 4} => c # reg.hi)
      BY <1>1, <1>4, <2>1, <3>1 DEF LastFeed, Feeds
    <3>3. value'[k] = value[k]
      BY <2>3, ValueCases DEF LoopOK
    <3>4. TableOf(tab', fn)[c] = TableOf(tab, fn)[c]
      <4>1. CASE fn = 2
        <5>1. \/ tab'.input_bits = tab.input_bits
              \/ reg.func = 2 /\ tab'.input_bits
                   = [tab.input_bits EXCEPT ![reg.addr] = IF v # 0 THEN 1 ELSE 0]
          BY ValueCases
        <5>. QED  BY <1>1, <3>2, <4>1, <5>1, TableNames
      <4>2. CASE fn = 3
        <5>1. \/ tab'.registers = tab.registers
              \/ reg.func = 3 /\ tab'.registers = Put(tab.registers, v)
          BY ValueCases
        <5>. QED  BY <3>2, <4>2, <5>1, TableNames DEF Put
      <4>3. CASE fn = 4
        <5>1. \/ tab'.input_registers = tab.input_registers
              \/ reg.func = 4 /\ tab'.input_registers = Put(tab.input_registers, v)
          BY ValueCases
        <5>. QED  BY <3>2, <4>3, <5>1, TableNames DEF Put
      <4>. QED  BY <4>1, <4>2, <4>3
    <3>. QED  BY <1>1, <3>1, <3>3, <3>4 DEF FreshTo
  <2>. QED  BY <2>2, <2>3
<1>5. FreshTo(i)'
  BY <1>1, <1>4 DEF FreshTo, LastFeed, Feeds, Index
<1>. QED  BY <1>1, <1>3, <1>5 DEF FreshOK

\* modbus_reply writes no input bit, and a read changes nothing.
LEMMA ReplyTables ==
    ASSUME Inv, Reply
    PROVE  /\ req \in Request /\ req.fn \in 1 .. 6
           /\ DOMAIN tab.input_bits = Cell => DOMAIN tab'.input_bits = Cell
           /\ rsp' = modbus_reply(tab, req).rsp
<1>1. /\ req \in Request /\ req.fn \in 1 .. 6
      /\ tab' = modbus_reply(tab, req).tab
      /\ rsp' = modbus_reply(tab, req).rsp
  BY RegisterAssumption DEF Inv, Pending, Reply
<1>2. tab' \in {tab, Written(tab, req)}
  BY <1>1 DEF modbus_reply
<1>3. Written(tab, req).input_bits = tab.input_bits
  <2>1. CASE req.fn = 5
    BY <2>1 DEF Written, Inv, Shape
  <2>2. CASE req.fn = 6
    BY <2>2 DEF Written, Inv, Shape
  <2>3. CASE req.fn \notin {5, 6}
    BY <1>1, <2>3 DEF Written
  <2>. QED  BY <2>1, <2>2, <2>3
<1>. QED  BY <1>1, <1>2, <1>3

\* The answer to a read shows the tables, where updateValues has just put what
\* the widgets showed.
LEMMA ReplyIsRecent ==
    ASSUME Inv, LoopOK, FreshOK, Reply
    PROVE  ReadsAreRecent'
<1>. DEFINE End == Len(Registers) + 1
<1>1. /\ req \in Request /\ req.fn \in 1 .. 6
      /\ rsp' = modbus_reply(tab, req).rsp /\ req' = req /\ seen' = seen
      /\ req.fn \in {2, 3, 4} => FreshTo(End)
  BY ReplyTables DEF Reply, FreshOK
<1>2. ASSUME NEW fn \in {2, 3, 4}, Reads(fn)'
      PROVE  /\ req.addr \in Nat /\ req.nb \in Nat /\ req.fn = fn
             /\ rsp'.values = [j \in 1 .. req.nb |-> TableOf(tab, fn)[req.addr + j - 1]]
  <2>1. req.fn = fn /\ rsp'.fn = fn
    BY <1>1, <1>2 DEF Reads
  <2>2. Verdict(req) = "ok"
    <3>. SUFFICES ASSUME Verdict(req) # "ok" PROVE FALSE
      OBVIOUS
    <3>1. rsp' = [fn |-> req.fn + 128, exception |-> Verdict(req)]
      BY <1>1, RefusedChangesNothing
    <3>. QED  BY <1>1, <2>1, <3>1
  <2>3. Written(tab, req) = tab
    BY <2>1 DEF Written
  <2>4. rsp' = Answer(tab, req)
    BY <1>1, <2>1, <2>2, <2>3 DEF modbus_reply
  <2>5. Answer(tab, req).values = Values(tab, req)
    <3>1. req.fn \in {1, 2, 3, 4, 23} /\ req.fn \notin {5, 6, 15, 16, 17}
      BY <2>1
    <3>. QED  BY <3>1 DEF Answer
  <2>. QED  BY <1>1, <2>1, <2>4, <2>5, RequestFields DEF Values
<1>3. ASSUME NEW fn \in {2, 3, 4}, Reads(fn)', NEW c \in Cell, InAnswer(c)'
      PROVE  ValueAt(c)' = TableOf(tab, fn)[c]
  <2>1. c \in req.addr .. req.addr + req.nb - 1
    BY <1>1, <1>3 DEF InAnswer
  <2>0. /\ req.addr \in Nat /\ req.nb \in Nat
        /\ rsp'.values = [j \in 1 .. req.nb |-> TableOf(tab, fn)[req.addr + j - 1]]
    <3>. HIDE DEF End
    <3>. QED  BY <1>2, <1>3
  <2>2. c - req.addr + 1 \in 1 .. req.nb
        /\ req.addr + (c - req.addr + 1) - 1 = c
    BY <2>0, <2>1, TableAssumption DEF Cell
  <2>3. ValueAt(c)' = rsp'.values[c - req.addr + 1]
    BY <1>1 DEF ValueAt
  <2>. QED  BY <2>0, <2>2, <2>3
<1>4. ASSUME NEW fn \in {2, 3, 4}, Reads(fn)', NEW c \in Cell, Fed(fn, c)
      PROVE  LET k == Feeder(fn, c)
             IN  /\ k \in Index /\ Feeds(k, fn, c)
                 /\ TableOf(tab, fn)[c] = Part(fn, Registers[k], c, value[k])
                 /\ value[k] \in seen[Registers[k].w]
  <2>1. FreshTo(End)
    BY <1>1, <1>2, <1>4
  <2>2. Feeder(fn, c) \in Index /\ LastFeed(Feeder(fn, c), fn, c, End)
    BY <1>4, FeederIsLast
  <2>. QED  BY <2>1, <2>2 DEF FreshTo, LastFeed
<1>5. ASSUME NEW fn \in {3, 4}, Reads(fn)', NEW c \in Cell, InAnswer(c)', Fed(fn, c)
      PROVE  LET r == Registers[Feeder(fn, c)]
             IN  \E v \in seen'[r.w] :
                   /\ ValueAt(c)' = IF c = r.hi THEN High(v) ELSE Low(v)
                   /\ /\ c = r.addr /\ r.hi # -1 /\ InAnswer(r.hi)'
                      /\ Feeder(fn, r.hi) = Feeder(fn, c)
                      => ValueAt(r.hi)' = High(v)
  <2>. DEFINE k == Feeder(fn, c)
              r == Registers[k]
  <2>1. k \in Index /\ Feeds(k, fn, c) /\ value[k] \in seen'[r.w]
    BY <1>1, <1>4, <1>5
  <2>2. ValueAt(c)' = IF c = r.hi THEN High(value[k]) ELSE Low(value[k])
    BY <1>3, <1>4, <1>5 DEF Part
  <2>3. ASSUME r.hi # -1, InAnswer(r.hi)', Feeder(fn, r.hi) = k
        PROVE  ValueAt(r.hi)' = High(value[k])
    <3>1. r.hi \in Cell
      BY <2>1, <2>3, RegisterFields
    <3>2. Fed(fn, r.hi)
      BY <2>1 DEF Fed, Feeds
    <3>3. ValueAt(r.hi)' = TableOf(tab, fn)[r.hi]
      BY <1>3, <1>5, <2>3, <3>1
    <3>4. TableOf(tab, fn)[r.hi] = Part(fn, r, r.hi, value[k])
      BY <1>4, <1>5, <2>3, <3>1, <3>2
    <3>. QED  BY <3>3, <3>4 DEF Part
  <2>. QED  BY <2>1, <2>2, <2>3
<1>6. ASSUME Reads(2)', NEW c \in Cell, InAnswer(c)', Fed(2, c)
      PROVE  \E v \in seen'[Registers[Feeder(2, c)].w] :
                ValueAt(c)' = IF v # 0 THEN 1 ELSE 0
  BY <1>1, <1>3, <1>4, <1>6 DEF Part
<1>7. /\ \A fn, c : Fed(fn, c)' = Fed(fn, c)
      /\ \A fn, c : Feeder(fn, c)' = Feeder(fn, c)
  BY DEF Fed, Feeder, Feeds, Index
<1>. QED  BY <1>5, <1>6, <1>7 DEF ReadsAreRecent

\* The other steps feed nothing: a request begins the history of what was
\* shown anew, and every widget that changes adds to it.
LEMMA FreshStep ==
    ASSUME Inv, LoopOK, FreshOK, [Next]_vars
    PROVE  FreshOK'
<1>. DEFINE End == Len(Registers) + 1
<1>0. ASSUME NEW n, FreshTo(n), UNCHANGED <<tab, value>>,
             \A w \in Widgets : seen[w] \subseteq seen'[w]
      PROVE  \A fn \in {2, 3, 4} : \A c \in Cell : \A k \in Index :
                LastFeed(k, fn, c, n) =>
                    /\ TableOf(tab', fn)[c] = Part(fn, Registers[k], c, value'[k])
                    /\ value'[k] \in seen'[Registers[k].w]
  BY <1>0, RegisterFields DEF FreshTo
<1>1. ASSUME NEW q \in Requests, Receive(q) PROVE FreshOK'
  <2>1. DOMAIN tab'.input_bits = Cell
    <3>1. tab' = HandleRequest(tab, q)
      BY <1>1 DEF Receive
    <3>. QED  BY <3>1 DEF HandleRequest, Inv, Shape, FreshOK
  <2>2. pc = "idle" /\ i' = 1 /\ UNCHANGED <<widget, rsp>> /\ rsp = None
    BY <1>1 DEF Receive, LoopOK, FreshOK
  <2>3. CASE q.fn \notin Served
    BY <1>1, <2>1, <2>2, <2>3 DEF Receive, FreshOK
  <2>4. CASE q.fn \in Served
    <3>1. q.fn \in 1 .. 4 \/ q.fn \in {5, 6} \/ q.fn \in {15, 16}
      BY <2>4 DEF Served
    <3>2. /\ pc' \in {"values", "reply", "widgets"}
          /\ pc' = "reply" => q.fn \in {5, 6}
          /\ req' = q /\ seen' = [w \in Widgets |-> {widget[w]}]
      BY <1>1, <2>4, <3>1 DEF Receive
    <3>3. \A k \in Index : ~(k < 1)
      BY RegisterFields
    <3>4. FreshTo(i)'
      BY <2>2, <3>3 DEF FreshTo, LastFeed, Index
    <3>. QED  BY <2>1, <2>2, <3>2, <3>4 DEF FreshOK
  <2>. QED  BY <2>3, <2>4
<1>2. CASE UpdateValue
  BY <1>2, ValueFeeds
<1>3. CASE ValuesDone
  <2>1. /\ FreshTo(i) /\ i \in Nat \ {0} /\ i \notin Index
        /\ UNCHANGED <<tab, value, seen, widget, rsp>> /\ pc' = "reply"
        /\ pc = "values"
    BY <1>3 DEF ValuesDone, Past, LoopOK, FreshOK
  <2>2. \A k \in Index : k \in 1 .. Len(Registers) /\ k < i
    BY <2>1, RegisterAssumption DEF Index
  <2>3. \A k, fn, c : LastFeed(k, fn, c, End) => LastFeed(k, fn, c, i)
    BY <2>2 DEF LastFeed
  <2>4. FreshTo(End)
    BY <2>1, <2>3 DEF FreshTo
  <2>5. FreshTo(End)'
    BY <2>1, <2>4 DEF FreshTo, LastFeed, Feeds, Index
  <2>. QED  BY <2>1, <2>5 DEF FreshOK
<1>4. CASE Reply
  <2>1. /\ pc = "reply" /\ pc' = "widgets" /\ UNCHANGED <<widget, seen>>
    BY <1>4 DEF Reply
  <2>. QED  BY <1>4, <2>1, ReplyTables DEF FreshOK
<1>5. CASE UpdateWidget
  <2>1. pc = "widgets" /\ pc' = "widgets" /\ i \in Index /\ reg = Registers[i]
    BY <1>5 DEF UpdateWidget, Past, reg
  <2>2. DOMAIN tab'.input_bits = Cell
    BY <1>5 DEF UpdateWidget, Inv, Shape, FreshOK
  <2>3. reg.w \in Widgets
    BY <2>1, RegisterFields
  <2>4. \A w \in Widgets : widget'[w] \in seen'[w]
    BY <1>5, <2>1, <2>3 DEF UpdateWidget, LoopOK, FreshOK
  <2>. QED  BY <2>1, <2>2, <2>4 DEF FreshOK
<1>6. CASE WidgetsDone
  BY <1>6 DEF WidgetsDone, FreshOK
<1>7. CASE Restart
  BY <1>7 DEF Restart, Inv, Shape, FreshOK
<1>8. ASSUME NEW w \in Widgets, NEW v \in Edits[w], UserEdits(w, v)
      PROVE  FreshOK'
  <2>1. /\ UNCHANGED <<tab, value, pc, i, req, rsp>>
        /\ widget' = [widget EXCEPT ![w] = v]
        /\ seen' = IF pc = "idle" THEN seen ELSE [seen EXCEPT ![w] = @ \cup {v}]
    BY <1>8 DEF UserEdits
  <2>2. \A x \in Widgets : seen[x] \subseteq seen'[x]
    BY <2>1 DEF LoopOK
  <2>3. pc # "idle" => \A x \in Widgets : widget'[x] \in seen'[x]
    BY <2>1 DEF LoopOK, FreshOK
  <2>4. pc = "values" => FreshTo(i)'
    BY <1>0, <2>1, <2>2, SMTT(30) DEF FreshOK, FreshTo, LastFeed, Feeds, Index
  <2>5. pc = "reply" /\ req.fn \in {2, 3, 4} => FreshTo(End)'
    BY <1>0, <2>1, <2>2 DEF FreshOK, FreshTo, LastFeed, Feeds, Index
  <2>. QED  BY <2>1, <2>3, <2>4, <2>5 DEF FreshOK
<1>9. CASE UNCHANGED vars
  <2>1. /\ FreshTo(i) => FreshTo(i)'
        /\ FreshTo(End) => FreshTo(End)'
    BY <1>9 DEF vars, FreshTo, LastFeed, Feeds, Index
  <2>. QED  BY <1>9, <2>1 DEF vars, FreshOK
<1>. QED  BY <1>1, <1>2, <1>3, <1>4, <1>5, <1>6, <1>7, <1>8, <1>9 DEF Next, Poll

\* An answer stays recent until it is forgotten.
LEMMA RecentStep ==
    ASSUME Inv, LoopOK, FreshOK, ReadsAreRecent, [Next]_vars
    PROVE  ReadsAreRecent'
<1>1. ASSUME rsp' = None PROVE ReadsAreRecent'
  BY <1>1 DEF ReadsAreRecent, Reads
<1>2. ASSUME NEW q \in Requests, Receive(q) PROVE ReadsAreRecent'
  BY <1>1, <1>2 DEF Receive, FreshOK
<1>3. CASE UpdateValue \/ ValuesDone \/ Restart \/ UNCHANGED vars
  BY <1>3, RecentStays DEF UpdateValue, ValuesDone, Restart, vars
<1>4. CASE Reply
  BY <1>4, ReplyIsRecent
<1>5. CASE UpdateWidget
  <2>1. \A w \in Widgets : seen[w] \subseteq seen'[w]
    BY <1>5 DEF UpdateWidget, LoopOK
  <2>. QED  BY <1>5, <2>1, RecentStays DEF UpdateWidget
<1>6. CASE WidgetsDone
  BY <1>1, <1>6 DEF WidgetsDone
<1>7. ASSUME NEW w \in Widgets, NEW v \in Edits[w], UserEdits(w, v)
      PROVE  ReadsAreRecent'
  <2>1. \A x \in Widgets : seen[x] \subseteq seen'[x]
    BY <1>7 DEF UserEdits, LoopOK
  <2>. QED  BY <1>7, <2>1, RecentStays DEF UserEdits
<1>. QED  BY <1>2, <1>3, <1>4, <1>5, <1>6, <1>7 DEF Next, Poll

\* No answer shows a number older than its request, and the two halves of a
\* number come from one reading of its widget, for any form, whatever
\* registers share a cell or a widget and however the user edits.
THEOREM AnswersAreRecent == Spec => []ReadsAreRecent
<1>. DEFINE All == Inv /\ LoopOK /\ FreshOK /\ ReadsAreRecent
<1>1. Init => All
  <2>. SUFFICES ASSUME Init PROVE FreshOK /\ ReadsAreRecent
    BY InvInit, BoxesInit
  <2>. QED  BY DEF Init, FreshOK, ReadsAreRecent, Reads, ClearedTables
<1>2. All /\ [Next]_vars => All'
  BY InvStep, LoopStep, FreshStep, RecentStep
<1>3. All => ReadsAreRecent
  OBVIOUS
<1>. HIDE DEF All
<1>. QED  BY <1>1, <1>2, <1>3, PTL DEF Spec

-----------------------------------------------------------------------------
(* A word holds the bits it was made of. *)

\* What holds at the beginning of 0 .. n and passes on holds to its end.
LEMMA PassesOn ==
    ASSUME NEW n \in Nat, NEW T, 0 \in T, \A j \in 1 .. n : j - 1 \in T => j \in T
    PROVE  \A j \in 0 .. n : j \in T
<1>. SUFFICES ASSUME NEW m \in 0 .. n, m \notin T PROVE FALSE
  OBVIOUS
<1>. DEFINE U == {x \in 1 .. n : n + 1 - x \notin T}
<1>1. m # 0
  OBVIOUS
<1>2. n + 1 - m \in 1 .. n /\ n + 1 - (n + 1 - m) = m
  BY <1>1
<1>3. n + 1 - m \in U
  BY <1>2
<1>4. U # {} /\ U \in SUBSET (1 .. n)
  BY <1>3
<1>5. PICK x \in U : \A y \in U : y <= x
  <2>. HIDE DEF U
  <2>. QED  BY <1>4, LastPosition
<1>6. /\ x \in 1 .. n /\ n + 1 - x \in 1 .. n /\ n + 1 - x \notin T
      /\ n + 1 - (x + 1) = n + 1 - x - 1
  BY <1>5
<1>7. n + 1 - x - 1 \notin T
  BY <1>6
<1>8. x # n
  BY <1>7
<1>9. x + 1 \in U
  BY <1>6, <1>7, <1>8
<1>10. x + 1 <= x
  <2>. HIDE DEF U
  <2>. QED  BY <1>5, <1>9
<1>. QED  BY <1>6, <1>10

\* A function that is given at 0 and, from each number to the next, by s.
LEMMA StepByStep ==
    ASSUME NEW n \in Nat, NEW a \in Nat, NEW s \in [(1 .. n) \X Nat -> Nat]
    PROVE  \E f \in [0 .. n -> Nat] :
              f[0] = a /\ \A j \in 1 .. n : f[j] = s[<<j, f[j - 1]>>]
<1>. DEFINE Upto(m, f) == /\ f \in [0 .. m -> Nat] /\ f[0] = a
                          /\ \A j \in 1 .. m : f[j] = s[<<j, f[j - 1]>>]
            T == {m \in 0 .. n : \E f : Upto(m, f)}
<1>1. 0 \in T
  <2>1. Upto(0, [j \in 0 .. 0 |-> a])
    OBVIOUS
  <2>2. 0 \in 0 .. n
    OBVIOUS
  <2>. HIDE DEF Upto
  <2>. QED  BY <2>1, <2>2
<1>2. ASSUME NEW m \in 1 .. n, m - 1 \in T PROVE m \in T
  <2>1. PICK f : Upto(m - 1, f)
    BY <1>2
  <2>. DEFINE g == [j \in 0 .. m |-> IF j = m THEN s[<<m, f[m - 1]>>] ELSE f[j]]
  <2>2. f \in [0 .. m - 1 -> Nat] /\ f[0] = a
        /\ \A j \in 1 .. m - 1 : f[j] = s[<<j, f[j - 1]>>]
    BY <2>1
  <2>3. s[<<m, f[m - 1]>>] \in Nat
    <3>1. f[m - 1] \in Nat
      BY <2>2
    <3>. QED  BY <3>1
  <2>4. g \in [0 .. m -> Nat] /\ g[0] = a /\ g[m] = s[<<m, g[m - 1]>>]
    <3>1. \A j \in 0 .. m : j # m => j \in 0 .. m - 1 /\ f[j] \in Nat
      BY <2>2
    <3>2. g \in [0 .. m -> Nat]
      BY <2>3, <3>1
    <3>3. 0 \in 0 .. m /\ 0 # m /\ m \in 0 .. m /\ m - 1 \in 0 .. m /\ m - 1 # m
      OBVIOUS
    <3>4. g[0] = f[0] /\ g[m] = s[<<m, f[m - 1]>>] /\ g[m - 1] = f[m - 1]
      BY <3>3
    <3>. QED  BY <2>2, <3>2, <3>4
  <2>5. ASSUME NEW j \in 1 .. m PROVE g[j] = s[<<j, g[j - 1]>>]
    <3>1. CASE j = m
      BY <2>4, <3>1
    <3>2. CASE j # m
      <4>1. j \in 1 .. m - 1 /\ j - 1 \in 0 .. m /\ j - 1 # m /\ j \in 0 .. m
        BY <3>2
      <4>2. g[j] = f[j] /\ g[j - 1] = f[j - 1]
        BY <3>2, <4>1
      <4>. QED  BY <2>2, <4>1, <4>2
    <3>. QED  BY <3>1, <3>2
  <2>. HIDE DEF g
  <2>6. Upto(m, g)
    BY ONLY m \in 1 .. n, n \in Nat, <2>4, <2>5 DEF Upto
  <2>7. m \in 0 .. n
    OBVIOUS
  <2>. HIDE DEF Upto
  <2>. QED  BY ONLY <2>6, <2>7 DEF T
<1>3. n \in T
  <2>1. \A j \in 0 .. n : j \in T
    <3>. HIDE DEF T
    <3>. QED  BY <1>1, <1>2, PassesOn
  <2>2. n \in 0 .. n
    OBVIOUS
  <2>. HIDE DEF T
  <2>. QED  BY <2>1, <2>2
<1>4. PICK f : Upto(n, f)
  BY <1>3
<1>. QED  BY <1>4

\* Halving, as BitOf does it.
LEMMA Halves ==
    ASSUME NEW v \in Nat, NEW k \in Nat
    PROVE  \E h \in [0 .. k -> Nat] :
              /\ h[0] = v /\ \A j \in 1 .. k : h[j] = h[j - 1] \div 2
              /\ BitOf(v, k) = h[k] % 2
<1>. DEFINE s == [p \in (1 .. k) \X Nat |-> p[2] \div 2]
            e(h) == [j \in 0 .. k |-> IF j = 0 THEN v ELSE h[j - 1] \div 2]
<1>1. s \in [(1 .. k) \X Nat -> Nat]
  OBVIOUS
<1>2. PICK f \in [0 .. k -> Nat] :
          f[0] = v /\ \A j \in 1 .. k : f[j] = s[<<j, f[j - 1]>>]
  <2>. HIDE DEF s
  <2>. QED  BY ONLY <1>1, v \in Nat, k \in Nat, StepByStep
<1>3. \A j \in 1 .. k : f[j] = f[j - 1] \div 2
  <2>. TAKE j \in 1 .. k
  <2>1. j - 1 \in 0 .. k
    OBVIOUS
  <2>2. <<j, f[j - 1]>> \in (1 .. k) \X Nat
    BY <2>1
  <2>. QED  BY <1>2, <2>2
<1>4. f = e(f)
  <2>1. \A j \in 0 .. k : f[j] = IF j = 0 THEN v ELSE f[j - 1] \div 2
    BY <1>2, <1>3
  <2>. QED  BY <2>1
<1>. DEFINE H == CHOOSE h : h = e(h)
<1>5. H = e(H)
  <2>. HIDE DEF e
  <2>. QED  BY <1>4
<1>6. BitOf(v, k) = H[k] % 2
  BY DEF BitOf
<1>. HIDE DEF H
<1>7. H[0] = v /\ \A j \in 1 .. k : H[j] = H[j - 1] \div 2
  BY <1>5
<1>8. \A j \in 0 .. k : H[j] \in Nat
  <2>. DEFINE T == {j \in 0 .. k : H[j] \in Nat}
  <2>1. 0 \in T /\ \A j \in 1 .. k : j - 1 \in T => j \in T
    BY <1>7
  <2>2. \A j \in 0 .. k : j \in T
    <3>. HIDE DEF T
    <3>. QED  BY <2>1, PassesOn
  <2>. QED  BY <2>2
<1>9. H \in [0 .. k -> Nat]
  BY <1>5, <1>8
<1>. QED  BY <1>6, <1>7, <1>9

\* A number with a bit put under it: its half, and that bit.
LEMMA HalfOf ==
    ASSUME NEW u, NEW v, NEW b, u = 2 * v + b, v \in Nat, b \in {0, 1}
    PROVE  u \div 2 = v /\ u % 2 = b
<1>1. CASE b = 0
  BY <1>1
<1>2. CASE b = 1
  BY <1>2
<1>. QED  BY <1>1, <1>2

\* The words of the summary are numbers, and their bits are the coils.
LEMMA SummaryBit ==
    ASSUME NEW bits \in [Cell -> Bit], NEW n \in {0, 1}, NEW k \in 0 .. WordBits - 1
    PROVE  BitOf(SummaryWord(bits, n), k) = SummaryCoil(bits, n * WordBits + k)
<1>. DEFINE c(j) == SummaryCoil(bits, n * WordBits + WordBits - j)
            e(u) == [j \in 0 .. WordBits |-> IF j = 0 THEN 0 ELSE 2 * u[j - 1] + c(j)]
            s == [p \in (1 .. WordBits) \X Nat |-> 2 * p[2] + c(p[1])]
            U == CHOOSE u : u = e(u)
<1>1. WordBits \in Nat /\ WordBits > 0 /\ SummaryBits <= NB /\ NB \in Nat
      /\ SummaryBits \in Nat
  BY SummaryAssumption, TableAssumption
<1>2. \A j \in 1 .. WordBits : c(j) \in {0, 1}
  <2>. TAKE j \in 1 .. WordBits
  <2>. DEFINE q == n * WordBits + WordBits - j
  <2>1. q \in Nat
    BY <1>1
  <2>. HIDE DEF q
  <2>2. q < SummaryBits => q \in Cell
    BY <1>1, <2>1 DEF Cell
  <2>3. SummaryCoil(bits, q) \in {0, 1}
    BY <2>2 DEF SummaryCoil, Bit
  <2>. QED  BY <2>3 DEF q
<1>. HIDE DEF c
<1>3. s \in [(1 .. WordBits) \X Nat -> Nat]
  <2>1. \A p \in (1 .. WordBits) \X Nat : p[2] \in Nat /\ c(p[1]) \in {0, 1}
    BY <1>2
  <2>2. \A p \in (1 .. WordBits) \X Nat : 2 * p[2] + c(p[1]) \in Nat
    BY <2>1
  <2>. QED  BY <2>2
<1>4. PICK f \in [0 .. WordBits -> Nat] :
          f[0] = 0 /\ \A j \in 1 .. WordBits : f[j] = s[<<j, f[j - 1]>>]
  <2>1. 0 \in Nat /\ WordBits \in Nat
    BY <1>1
  <2>. HIDE DEF s, e, U
  <2>2. \A m, a \in Nat : \A z \in [(1 .. m) \X Nat -> Nat] :
           \E f \in [0 .. m -> Nat] :
              f[0] = a /\ \A j \in 1 .. m : f[j] = z[<<j, f[j - 1]>>]
    BY ONLY StepByStep
  <2>. QED  BY ONLY <1>3, <2>1, <2>2
<1>5. \A j \in 1 .. WordBits : f[j] = 2 * f[j - 1] + c(j)
  <2>. TAKE j \in 1 .. WordBits
  <2>1. j - 1 \in 0 .. WordBits
    BY <1>1
  <2>2. <<j, f[j - 1]>> \in (1 .. WordBits) \X Nat
    BY <2>1
  <2>. QED  BY <1>4, <2>2
<1>6. f = e(f)
  <2>1. \A j \in 0 .. WordBits : f[j] = IF j = 0 THEN 0 ELSE 2 * f[j - 1] + c(j)
    BY <1>1, <1>4, <1>5
  <2>. QED  BY <2>1
<1>7. U = e(U)
  <2>. HIDE DEF e
  <2>. QED  BY <1>6
<1>8. SummaryWord(bits, n) = U[WordBits]
  BY DEF SummaryWord, c
<1>. HIDE DEF U
<1>9. U[0] = 0 /\ \A j \in 1 .. WordBits : U[j] = 2 * U[j - 1] + c(j)
  BY <1>1, <1>7
<1>10. \A j \in 0 .. WordBits : U[j] \in Nat
  <2>. DEFINE T == {j \in 0 .. WordBits : U[j] \in Nat}
  <2>1. 0 \in T
    BY <1>1, <1>9
  <2>2. ASSUME NEW j \in 1 .. WordBits, j - 1 \in T PROVE j \in T
    <3>1. U[j - 1] \in Nat /\ c(j) \in {0, 1} /\ U[j] = 2 * U[j - 1] + c(j)
      BY <1>2, <1>9, <2>2
    <3>2. U[j] \in Nat
      BY <3>1
    <3>. QED  BY <3>2
  <2>3. \A j \in 0 .. WordBits : j \in T
    <3>. HIDE DEF T
    <3>. QED  BY <1>1, <2>1, <2>2, PassesOn
  <2>. QED  BY <2>3
<1>11. k \in Nat /\ k < WordBits /\ U[WordBits] \in Nat
  BY <1>1, <1>10
<1>12. PICK h \in [0 .. k -> Nat] :
           /\ h[0] = U[WordBits] /\ \A j \in 1 .. k : h[j] = h[j - 1] \div 2
           /\ BitOf(U[WordBits], k) = h[k] % 2
  BY <1>11, Halves
<1>13. \A j \in 0 .. k : h[j] = U[WordBits - j]
  <2>. DEFINE T == {j \in 0 .. k : h[j] = U[WordBits - j]}
  <2>1. 0 \in T
    BY <1>1, <1>11, <1>12
  <2>2. ASSUME NEW j \in 1 .. k, j - 1 \in T PROVE j \in T
    <3>. DEFINE i1 == WordBits - (j - 1)
    <3>1. i1 \in 1 .. WordBits /\ i1 - 1 = WordBits - j /\ i1 - 1 \in 0 .. WordBits
      BY <1>1, <1>11
    <3>2. h[j - 1] = U[i1]
      BY <2>2
    <3>. HIDE DEF i1
    <3>3. /\ U[i1] = 2 * U[i1 - 1] + c(i1) /\ U[i1 - 1] \in Nat /\ c(i1) \in {0, 1}
      BY <1>2, <1>9, <1>10, <3>1
    <3>4. U[i1] \div 2 = U[i1 - 1]
      BY ONLY <3>3, HalfOf
    <3>5. h[j] = U[WordBits - j]
      BY <1>12, <3>1, <3>2, <3>4
    <3>. QED  BY <3>5
  <2>3. \A j \in 0 .. k : j \in T
    <3>. HIDE DEF T
    <3>. QED  BY <1>11, <2>1, <2>2, PassesOn
  <2>. QED  BY <2>3
<1>14. BitOf(U[WordBits], k) = c(WordBits - k)
  <2>. DEFINE i1 == WordBits - k
  <2>1. i1 \in 1 .. WordBits /\ i1 - 1 \in 0 .. WordBits
    BY <1>1, <1>11
  <2>2. h[k] = U[i1]
    <3>1. k \in 0 .. k
      BY <1>11
    <3>. QED  BY <1>13, <3>1
  <2>. HIDE DEF i1
  <2>3. U[i1] = 2 * U[i1 - 1] + c(i1) /\ U[i1 - 1] \in Nat /\ c(i1) \in {0, 1}
    BY <1>2, <1>9, <1>10, <2>1
  <2>4. U[i1] % 2 = c(i1)
    BY ONLY <2>3, HalfOf
  <2>. QED  BY <1>12, <2>2, <2>4 DEF i1
<1>15. n * WordBits + WordBits - (WordBits - k) = n * WordBits + k
  BY <1>1, <1>11
<1>. QED  BY <1>8, <1>14, <1>15 DEF c


-----------------------------------------------------------------------------
(* A read of the summary shows the coils. *)

\* The request HandleRequest fills the summary for.
AsksSummary(q) == q.fn = 4 /\ q.addr = Summary /\ q.nb = 2

\* Between the request and its answer a summary register that no widget feeds
\* holds the coils: updateValues puts numbers in fed registers only.
SummaryOK ==
    /\ DOMAIN tab.input_registers = Cell
    /\ pc \in {"values", "reply"} /\ AsksSummary(req) =>
         \A n \in {0, 1} : ~Fed(4, Summary + n) =>
            tab.input_registers[Summary + n] = SummaryWord(tab.bits, n)

\* A step of updateValues changes an input register only if a widget feeds it.
LEMMA FedOnly ==
    ASSUME Inv, UpdateValue, DOMAIN tab.input_registers = Cell
    PROVE  /\ DOMAIN tab'.input_registers = Cell
           /\ \A c \in Cell : ~Fed(4, c) =>
                 tab'.input_registers[c] = tab.input_registers[c]
<1>. DEFINE v == widget[reg.w]
<1>1. i \in Index /\ reg = Registers[i]
  BY DEF UpdateValue, Past, reg
<1>2. \/ tab'.input_registers = tab.input_registers
      \/ reg.func = 4 /\ tab'.input_registers = Put(tab.input_registers, v)
  BY ValueCases
<1>3. ASSUME NEW c \in Cell, ~Fed(4, c), reg.func = 4
      PROVE  Put(tab.input_registers, v)[c] = tab.input_registers[c]
  BY <1>1, <1>3 DEF Put, Fed, Feeds
<1>4. DOMAIN Put(tab.input_registers, v) = Cell
  BY DEF Put
<1>. HIDE DEF v
<1>. QED  BY <1>2, <1>3, <1>4

\* The board fills the summary when the request arrives.
LEMMA BoardFills ==
    ASSUME Inv, LoopOK, SummaryOK, NEW q \in Requests, Receive(q)
    PROVE  SummaryOK'
<1>1. tab' = HandleRequest(tab, q) /\ Shape /\ pc = "idle"
  BY DEF Receive, Inv
<1>2. \A fn, c : Fed(fn, c)' = Fed(fn, c)
  BY DEF Fed, Feeds, Index
<1>3. CASE q.fn \notin Served
  <2>1. q.fn # 4
    BY <1>3 DEF Served
  <2>. QED  BY <1>1, <1>3, <2>1 DEF Receive, HandleRequest, SummaryOK
<1>4. CASE q.fn \in Served
  <2>1. req' = q
    BY <1>4 DEF Receive
  <2>2. CASE ~AsksSummary(q)
    <3>1. tab' = tab
      BY <1>1, <2>2 DEF HandleRequest, AsksSummary
    <3>. QED  BY <2>1, <2>2, <3>1 DEF SummaryOK, AsksSummary
  <2>3. CASE AsksSummary(q)
    <3>. DEFINE a == SummaryWord(tab.bits, 0)
                b == SummaryWord(tab.bits, 1)
    <3>1. tab' = [tab EXCEPT !.input_registers[Summary] = a,
                             !.input_registers[Summary + 1] = b]
      BY <1>1, <2>3 DEF HandleRequest, AsksSummary
    <3>. HIDE DEF a, b
    <3>2. /\ tab'.bits = tab.bits
          /\ tab'.input_registers
                = [tab.input_registers EXCEPT ![Summary] = a, ![Summary + 1] = b]
      BY <1>1, <3>1 DEF Shape
    <3>3. Summary \in Cell /\ Summary + 1 \in Cell /\ Summary # Summary + 1
          /\ Summary + 0 = Summary
      BY SummaryAssumption, TableAssumption DEF Cell
    <3>4. /\ DOMAIN tab'.input_registers = Cell
          /\ tab'.input_registers[Summary] = a
          /\ tab'.input_registers[Summary + 1] = b
      BY <3>2, <3>3 DEF SummaryOK
    <3>5. \A n \in {0, 1} :
             tab'.input_registers[Summary + n] = SummaryWord(tab'.bits, n)
      BY <3>2, <3>3, <3>4 DEF a, b
    <3>. QED  BY <3>4, <3>5 DEF SummaryOK
  <2>. QED  BY <2>2, <2>3
<1>. QED  BY <1>3, <1>4

\* Every step keeps what the board has filled until the answer is sent.
LEMMA SummaryStep ==
    ASSUME Inv, LoopOK, SummaryOK, [Next]_vars
    PROVE  SummaryOK'
<1>0. \A fn, c : Fed(fn, c)' = Fed(fn, c)
  BY DEF Fed, Feeds, Index
<1>1. ASSUME NEW q \in Requests, Receive(q) PROVE SummaryOK'
  BY <1>1, BoardFills
<1>2. CASE UpdateValue
  <2>1. UNCHANGED <<pc, req>> /\ tab'.bits = tab.bits
    BY <1>2, ValueCases DEF UpdateValue
  <2>2. \A n \in {0, 1} : Summary + n \in Cell
    BY SummaryAssumption, TableAssumption DEF Cell
  <2>3. /\ DOMAIN tab'.input_registers = Cell
        /\ \A c \in Cell : ~Fed(4, c) =>
              tab'.input_registers[c] = tab.input_registers[c]
    BY <1>2, FedOnly DEF SummaryOK
  <2>. QED  BY <1>0, <2>1, <2>2, <2>3 DEF SummaryOK, AsksSummary
<1>3. CASE Reply
  <2>1. tab'.input_registers = tab.input_registers
    <3>1. tab' \in {tab, Written(tab, req)}
      BY <1>3 DEF Reply, modbus_reply
    <3>2. Written(tab, req).input_registers = tab.input_registers
      <4>1. CASE req.fn = 5
        BY <4>1 DEF Written, Inv, Shape
      <4>2. CASE req.fn = 6
        BY <4>2 DEF Written, Inv, Shape
      <4>3. CASE req.fn \notin {5, 6}
        BY <1>3, <4>3, ReplyTables DEF Written
      <4>. QED  BY <4>1, <4>2, <4>3
    <3>. QED  BY <3>1, <3>2
  <2>. QED  BY <1>3, <2>1 DEF Reply, SummaryOK
<1>4. CASE UpdateWidget
  BY <1>4 DEF UpdateWidget, SummaryOK, Inv, Shape
<1>5. CASE Restart
  BY <1>5 DEF Restart, SummaryOK, Inv, Shape, Cleared
<1>6. CASE ValuesDone
  BY <1>0, <1>6 DEF ValuesDone, SummaryOK, AsksSummary
<1>7. CASE WidgetsDone
  BY <1>7 DEF WidgetsDone, SummaryOK
<1>8. ASSUME NEW w \in Widgets, NEW v \in Edits[w], UserEdits(w, v)
      PROVE  SummaryOK'
  BY <1>0, <1>8 DEF UserEdits, SummaryOK, AsksSummary
<1>9. CASE UNCHANGED vars
  BY <1>0, <1>9 DEF vars, SummaryOK, AsksSummary
<1>. QED  BY <1>1, <1>2, <1>3, <1>4, <1>5, <1>6, <1>7, <1>8, <1>9 DEF Next, Poll

\* What an answer to a read of input registers holds.
LEMMA ReplyReads ==
    ASSUME Inv, Reply, Reads(4)'
    PROVE  rsp'.values = [j \in 1 .. req.nb |-> tab.input_registers[req.addr + j - 1]]
<1>1. /\ req \in Request /\ rsp' = modbus_reply(tab, req).rsp
      /\ req' = req /\ req.fn = 4 /\ rsp'.fn = 4
  BY ReplyTables DEF Reply, Reads
<1>2. Verdict(req) = "ok"
  <2>. SUFFICES ASSUME Verdict(req) # "ok" PROVE FALSE
    OBVIOUS
  <2>1. rsp' = [fn |-> req.fn + 128, exception |-> Verdict(req)]
    BY <1>1, RefusedChangesNothing
  <2>. QED  BY <1>1, <2>1
<1>3. Written(tab, req) = tab
  BY <1>1 DEF Written
<1>4. rsp' = Answer(tab, req)
  BY <1>1, <1>2, <1>3 DEF modbus_reply
<1>5. Answer(tab, req).values = Values(tab, req)
  <2>1. req.fn \in {1, 2, 3, 4, 23} /\ req.fn \notin {5, 6, 15, 16, 17}
    BY <1>1
  <2>. QED  BY <2>1 DEF Answer
<1>. QED  BY <1>1, <1>4, <1>5, TableNames DEF Values

\* The answer to a read of the summary: the words hold the coils, and the
\* coils are what the master knows.
LEMMA ReplyIsFresh ==
    ASSUME Inv, LoopOK, SummaryOK, Reply
    PROVE  SummaryIsFresh'
<1>. DEFINE Bits == \A n \in {0, 1} : \A k \in 0 .. WordBits - 1 :
                LET c == n * WordBits + k
                IN  BitOf(rsp'.values[n + 1], k)
                       = IF c < SummaryBits THEN acked'.bits[c] ELSE 0
<1>1. SUFFICES ASSUME Reads(4)', AsksSummary(req),
                      ~Fed(4, Summary), ~Fed(4, Summary + 1)
               PROVE  Bits
  <2>1. req' = req /\ \A fn, c : Fed(fn, c)' = Fed(fn, c)
    BY DEF Reply, Fed, Feeds, Index
  <2>2. Reads(4)' => req.fn = 4
    BY <2>1 DEF Reads
  <2>. QED  BY <2>1, <2>2 DEF SummaryIsFresh, AsksSummary
<1>2. rsp'.values = [j \in 1 .. 2 |-> tab.input_registers[Summary + j - 1]]
  BY <1>1, ReplyReads DEF AsksSummary
<1>3. ASSUME NEW n \in {0, 1}
      PROVE  rsp'.values[n + 1] = SummaryWord(tab.bits, n)
  <2>1. /\ Summary \in Nat /\ n + 1 \in 1 .. 2
        /\ Summary + (n + 1) - 1 = Summary + n
        /\ ~Fed(4, Summary + n)
    BY <1>1, SummaryAssumption, TableAssumption DEF Cell
  <2>2. pc = "reply"
    BY DEF Reply
  <2>3. tab.input_registers[Summary + n] = SummaryWord(tab.bits, n)
    BY <1>1, <2>1, <2>2 DEF SummaryOK
  <2>. QED  BY <1>2, <2>1, <2>3
<1>4. tab.bits = acked'.bits /\ tab.bits \in [Cell -> Bit]
  <2>1. acked'.bits = tab'.bits
    BY ReplyStep DEF Inv, MasterKnows
  <2>2. Written(tab, req) = tab
    BY <1>1 DEF Written, AsksSummary
  <2>3. tab' = tab
    BY <2>2 DEF Reply, modbus_reply
  <2>. QED  BY <2>1, <2>3 DEF Inv, Shape
<1>5. ASSUME NEW n \in {0, 1}, NEW k \in 0 .. WordBits - 1
      PROVE  BitOf(rsp'.values[n + 1], k)
                = IF n * WordBits + k < SummaryBits
                  THEN acked'.bits[n * WordBits + k] ELSE 0
  BY <1>3, <1>4, SummaryBit DEF SummaryCoil
<1>. QED  BY <1>5

\* An answer about the summary stays what it is until it is forgotten, and no
\* coil changes meanwhile.
LEMMA SummaryFreshStep ==
    ASSUME Inv, LoopOK, FreshOK, SummaryOK, SummaryIsFresh, [Next]_vars
    PROVE  SummaryIsFresh'
<1>0. \A fn, c : Fed(fn, c)' = Fed(fn, c)
  BY DEF Fed, Feeds, Index
<1>1. ASSUME rsp' = None PROVE SummaryIsFresh'
  BY <1>1 DEF SummaryIsFresh, Reads
<1>2. ASSUME UNCHANGED <<req, rsp>>, acked'.bits = acked.bits
      PROVE  SummaryIsFresh'
  BY <1>0, <1>2 DEF SummaryIsFresh, Reads
<1>3. ASSUME NEW q \in Requests, Receive(q) PROVE SummaryIsFresh'
  BY <1>1, <1>3 DEF Receive, FreshOK
<1>4. CASE UpdateValue \/ ValuesDone \/ UpdateWidget \/ UNCHANGED vars
  BY <1>2, <1>4 DEF UpdateValue, ValuesDone, UpdateWidget, vars
<1>5. CASE Reply
  BY <1>5, ReplyIsFresh
<1>6. CASE WidgetsDone
  BY <1>1, <1>6 DEF WidgetsDone
<1>7. CASE Restart
  BY <1>2, <1>7 DEF Restart, Inv, Shape
<1>8. ASSUME NEW w \in Widgets, NEW v \in Edits[w], UserEdits(w, v)
      PROVE  SummaryIsFresh'
  BY <1>2, <1>8 DEF UserEdits
<1>. QED  BY <1>3, <1>4, <1>5, <1>6, <1>7, <1>8 DEF Next, Poll

\* A read of the two summary registers gets, bit by bit, the coils as the
\* master last wrote them, when no widget feeds those registers.
THEOREM SummaryIsTrue == Spec => []SummaryIsFresh
<1>. DEFINE All == Inv /\ LoopOK /\ FreshOK /\ SummaryOK /\ SummaryIsFresh
<1>1. Init => All
  <2>. SUFFICES ASSUME Init PROVE FreshOK /\ SummaryOK /\ SummaryIsFresh
    BY InvInit, BoxesInit
  <2>. QED  BY DEF Init, FreshOK, SummaryOK, SummaryIsFresh, Reads, ClearedTables
<1>2. All /\ [Next]_vars => All'
  BY InvStep, LoopStep, FreshStep, SummaryStep, SummaryFreshStep
<1>3. All => SummaryIsFresh
  OBVIOUS
<1>. HIDE DEF All
<1>. QED  BY <1>1, <1>2, <1>3, PTL DEF Spec
=============================================================================
