----------------------------- MODULE MCModbusTcp -----------------------------
(***************************************************************************)
(* Instance of ModbusTcp for TLC: one context that recovers from errors    *)
(* and one that does not.                                                  *)
(***************************************************************************)
EXTENDS ModbusTcp, TLC

CONSTANTS c1, c2

OneRecovers == c1 :> {{"link", "protocol"}} @@ c2 :> {{}}

=============================================================================
