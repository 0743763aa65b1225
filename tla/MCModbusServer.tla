--------------------------- MODULE MCModbusServer ---------------------------
(***************************************************************************)
(* Instances of ModbusServer for TLC: registers of two bits, tables of     *)
(* three cells, one box and one number on the form.                        *)
(***************************************************************************)
EXTENDS ModbusServer

Box    == "box"
Number == "number"

\* A box is ticked or not.
FormEdits == [w \in Widgets |-> IF w = Box THEN {0, 1} ELSE {0, 6}]

Register(func, addr, hi, w) == [func |-> func, addr |-> addr, hi |-> hi, w |-> w]

Read(fn, addr, nb) == [fn |-> fn, addr |-> addr, nb |-> nb]
Coil(addr, d) == [fn |-> 5, addr |-> addr, data |-> d]
Single(addr, v) == [fn |-> 6, addr |-> addr, data |-> v]
Several == [fn |-> 15, addr |-> 0, nb |-> 2, data |-> <<1, 1>>]

\* The number is kept, high half first, in two holding registers and its low
\* half in an input register; it is also named as a register that is written,
\* which sets an input bit.  The box shows coil 0 and is the discrete input 0;
\* the second address given there has no effect.  The board fills the other two
\* input registers.
FormRegisters == << Register(5, 0, -1, Box), Register(2, 0, 1, Box),
                    Register(3, 1, 0, Number), Register(4, 0, -1, Number),
                    Register(6, 1, -1, Number) >>
FormRequests ==
    { Read(1, 0, 3), Read(2, 0, 2), Read(3, 0, 2), Read(3, 0, 4), Read(3, 0, 0),
      Read(4, 1, 2), Read(4, 0, 3), Coil(0, "on"), Coil(0, "off"), Coil(2, "on"),
      Coil(1, "other"), Coil(3, "on"), Single(2, 3), Single(1, 1), Single(3, 1),
      Several, [fn |-> 17] }

=============================================================================
