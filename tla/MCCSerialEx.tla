---------------------------- MODULE MCCSerialEx ----------------------------
(***************************************************************************)
(* Instances of CSerialEx for TLC: two thread handles, so that a listener  *)
(* may be started while another one has not ended.                         *)
(***************************************************************************)
EXTENDS CSerialEx

=============================================================================
