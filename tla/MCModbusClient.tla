--------------------------- MODULE MCModbusClient ---------------------------
(***************************************************************************)
(* Instance of ModbusClient for TLC: calls whose answers look alike, calls *)
(* the server refuses and one the client refuses.                          *)
(***************************************************************************)
EXTENDS ModbusClient

Reading(f, a, n) == [fn |-> f, addr |-> a, nb |-> n]

ApiCalls ==
    {Reading(1, 0, 1), Reading(1, 0, 2), Reading(4, 0, 1), Reading(4, 0, 2),
     Reading(3, 0, 3),
     [fn |-> 5, addr |-> 1, data |-> "on"], [fn |-> 5, addr |-> 1, data |-> "off"],
     [fn |-> 16, addr |-> 1, nb |-> 2, data |-> <<0, 1>>]}

=============================================================================
