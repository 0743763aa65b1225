----------------------------- MODULE MCCSerial -----------------------------
(***************************************************************************)
(* Two formats, one with a parity, two masks and two event characters; a   *)
(* port that keeps one byte, three bytes that arrive, reads of one and of  *)
(* two bytes.  A behaviour is about the settings, and the line stays       *)
(* silent, or about the line, and the format and the handshaking stay as   *)
(* they are and the mask is the default or none: they have no part in what *)
(* a read returns.                                                         *)
(***************************************************************************)
EXTENDS CSerial

MCDefault == [baud |-> 9600, bits |-> 8, parity |-> "none", stop |-> 1]
MCFormats == {MCDefault, [baud |-> 19200, bits |-> 7, parity |-> "even", stop |-> 2]}
MCMasks == {DefaultMask, {Recv}}

VARIABLE about

MCInit == Init /\ about \in {"settings", "line"}

MCNext ==
  /\ Next
  /\ about = "settings" => arrived' = 0 /\ call' = NoCall /\ timeouts' # Blocking
  /\ about = "line" => dcb' = dcb /\ ~other' /\ m_dwEventMask' \in {{}, DefaultMask}
  /\ UNCHANGED about

MCSpec ==
  /\ MCInit /\ [][MCNext]_<<vars, about>>
  /\ WF_vars(Fill) /\ WF_vars(CompleteRead) /\ WF_vars(TimeOut)
=============================================================================
