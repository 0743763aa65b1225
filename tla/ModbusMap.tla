----------------------------- MODULE ModbusMap -----------------------------
(***************************************************************************)
(* The four tables of a Modbus device (modbus_mapping_t) and the answer    *)
(* modbus_reply gives to a request (libmodbus/modbus.c): which requests it *)
(* refuses and with which exception, what it reads and what it writes.     *)
(***************************************************************************)
EXTENDS Integers, Sequences

CONSTANTS
    NB,            \* cells of each table; 0xFFFF in DeviceModbus
    W,             \* values of a register; 2^16
    MaxReadBits,   \* MODBUS_MAX_READ_BITS, 2000
    MaxReadRegs,   \* MODBUS_MAX_READ_REGISTERS, 125
    MaxWriteBits,  \* MODBUS_MAX_WRITE_BITS, 1968
    MaxWriteRegs,  \* MODBUS_MAX_WRITE_REGISTERS, 123
    MaxRWWriteRegs \* MODBUS_MAX_RW_WRITE_REGISTERS, 121

ASSUME TableAssumption ==
    /\ NB \in Nat /\ W \in Nat \ {0}
    /\ {MaxReadBits, MaxReadRegs, MaxWriteBits, MaxWriteRegs, MaxRWWriteRegs}
          \subseteq Nat

Cell == 0 .. NB - 1
Bit  == {0, 1}
Word == 0 .. W - 1

Tables == [bits : [Cell -> Bit], input_bits : [Cell -> Bit],
           registers : [Cell -> Word], input_registers : [Cell -> Word]]

ClearedTables ==
    [bits |-> [c \in Cell |-> 0], input_bits |-> [c \in Cell |-> 0],
     registers |-> [c \in Cell |-> 0], input_registers |-> [c \in Cell |-> 0]]

-----------------------------------------------------------------------------
(* Requests.  An address is any 16-bit number, one more than there are     *)
(* cells.  A write of several cells carries one value for each.            *)

ReadRequest == [fn : {1, 2, 3, 4}, addr : Nat, nb : Nat]
CoilRequest == [fn : {5}, addr : Nat, data : {"on", "off", "other"}]
RegisterRequest == [fn : {6}, addr : Nat, data : Word]
WriteRequest == [fn : {15}, addr : Nat, nb : Nat, data : Seq(Bit)]
           \cup [fn : {16}, addr : Nat, nb : Nat, data : Seq(Word)]
ReadWriteRequest ==
    [fn : {23}, addr : Nat, nb : Nat, waddr : Nat, wnb : Nat,
     bytes : Nat, data : Seq(Word)]
\* Read exception status, report slave ID, and any other function code.
PlainRequest == [fn : {7, 17, 99}]

\* The payload of a write has a value for every cell it names; bytes that
\* were not received are whatever the buffer holds.
Payload(q) == /\ q.fn \in {15, 16} => Len(q.data) = q.nb
              /\ q.fn = 23 => Len(q.data) = q.wnb

Request == {q \in ReadRequest \cup CoilRequest \cup RegisterRequest
                  \cup WriteRequest \cup ReadWriteRequest \cup PlainRequest :
              Payload(q)}

Limit(fn) == CASE fn \in {1, 2} -> MaxReadBits
               [] fn \in {3, 4, 23} -> MaxReadRegs
               [] fn = 15 -> MaxWriteBits
               [] fn = 16 -> MaxWriteRegs

-----------------------------------------------------------------------------
(* What modbus_reply thinks of a request: "ok", or the exception. *)

BadCount(nb, max) == nb < 1 \/ max < nb

\* The number of values is looked at before the address, except for a coil.
Verdict(q) ==
    IF q.fn \in {1, 2, 3, 4, 15, 16} THEN
        IF BadCount(q.nb, Limit(q.fn)) THEN "value"
        ELSE IF q.addr + q.nb > NB THEN "address" ELSE "ok"
    ELSE IF q.fn = 5 THEN
        IF q.addr >= NB THEN "address"
        ELSE IF q.data = "other" THEN "value" ELSE "ok"
    ELSE IF q.fn = 6 THEN
        IF q.addr >= NB THEN "address" ELSE "ok"
    ELSE IF q.fn = 23 THEN
        IF \/ BadCount(q.wnb, MaxRWWriteRegs) \/ BadCount(q.nb, MaxReadRegs)
           \/ q.bytes # q.wnb * 2 THEN "value"
        ELSE IF q.addr + q.nb > NB \/ q.waddr + q.wnb > NB THEN "address"
        ELSE "ok"
    ELSE IF q.fn \in {7, 17} THEN "ok"
    ELSE "function"

\* A table with the values of data from cell a on.
Overwrite(table, a, data) ==
    [c \in Cell |-> IF c \in a .. a + Len(data) - 1
                    THEN data[c - a + 1] ELSE table[c]]

\* The tables after an accepted request.
Written(t, q) ==
    CASE q.fn = 5  -> [t EXCEPT !.bits[q.addr] = IF q.data = "on" THEN 1 ELSE 0]
      [] q.fn = 6  -> [t EXCEPT !.registers[q.addr] = q.data]
      [] q.fn = 15 -> [t EXCEPT !.bits = Overwrite(@, q.addr, q.data)]
      [] q.fn = 16 -> [t EXCEPT !.registers = Overwrite(@, q.addr, q.data)]
      [] q.fn = 23 -> [t EXCEPT !.registers = Overwrite(@, q.waddr, q.data)]
      [] OTHER     -> t

\* The table a function reads.
TableOf(t, fn) == CASE fn = 1 -> t.bits
                    [] fn = 2 -> t.input_bits
                    [] fn \in {3, 23} -> t.registers
                    [] fn = 4 -> t.input_registers

Values(t, q) == [k \in 1 .. q.nb |-> TableOf(t, q.fn)[q.addr + k - 1]]

\* Bytes of data in the answer to a read (response_io_status packs eight bits
\* in a byte, the last byte is filled up with zeros).
ByteCount(q) == IF q.fn \in {1, 2}
                THEN (q.nb \div 8) + (IF q.nb % 8 # 0 THEN 1 ELSE 0)
                ELSE q.nb * 2

Exception(q, why) == [fn |-> q.fn + 128, exception |-> why]

\* The answer to an accepted request, from the tables after it.
Answer(t, q) ==
    CASE q.fn \in {1, 2, 3, 4, 23} ->
            [fn |-> q.fn, bytes |-> ByteCount(q), values |-> Values(t, q)]
      [] q.fn \in {5, 6}   -> q
      [] q.fn \in {15, 16} -> [fn |-> q.fn, addr |-> q.addr, nb |-> q.nb]
      [] q.fn = 17         -> [fn |-> 17, id |-> "slave id"]

\* The length of an answer: slave, function, byte count, data and CRC.
FrameLength(q) == 2 + 1 + ByteCount(q) + 2

\* modbus_reply on a request that passed filter_request: the tables and the
\* answer.  It has no answer for read exception status.
modbus_reply(t, q) ==
    IF Verdict(q) # "ok" THEN [tab |-> t, rsp |-> Exception(q, Verdict(q))]
    ELSE IF q.fn = 7 THEN [tab |-> t, rsp |-> [fn |-> 7, none |-> TRUE]]
    ELSE [tab |-> Written(t, q), rsp |-> Answer(Written(t, q), q)]

=============================================================================
