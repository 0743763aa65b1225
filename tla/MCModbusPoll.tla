--------------------------- MODULE MCModbusPoll ---------------------------
(***************************************************************************)
(* Instances of ModbusPoll for TLC: two devices, on one port or on two.    *)
(***************************************************************************)
EXTENDS ModbusPoll

CONSTANTS d1, d2, com1, com2

\* Two devices with different slave addresses, and one address nobody has.
SlaveIdDistinct == [d \in Devices |-> IF d = d1 THEN 1 ELSE 2]
\* Two devices configured with the same slave address.
SlaveIdShared == [d \in Devices |-> 1]

=============================================================================
