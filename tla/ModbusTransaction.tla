------------------------- MODULE ModbusTransaction -------------------------
(***************************************************************************)
(* What a client of Modbus over TCP may rely on, whatever happens to its   *)
(* connections: calls are made one at a time, each ends once, with a       *)
(* failure or with an answer, and the answer is its own.  Two exceptions   *)
(* are inherent: a transaction identifier is used again after Ids calls,   *)
(* and once part of an answer has been thrown away what is left of it may  *)
(* be read as anything.                                                    *)
(***************************************************************************)
EXTENDS Integers

CONSTANT Ids    \* how many transaction identifiers there are

VARIABLES
    asked,      \* calls made so far: a call is known by its number
    waiting,    \* the last of them has not returned
    result,     \* the call whose answer it returned, or one of:
    cut         \* part of an answer has been thrown away

Failure  == 0
Anything == -1

tvars == <<asked, waiting, result, cut>>

TInit == asked = 0 /\ waiting = FALSE /\ result = Failure /\ cut = FALSE

Ask ==
    /\ ~waiting
    /\ asked' = asked + 1 /\ waiting' = TRUE /\ result' = Failure
    /\ UNCHANGED cut

Fail ==
    /\ waiting
    /\ waiting' = FALSE /\ result' = Failure /\ cut' \in {cut, TRUE}
    /\ UNCHANGED asked

\* The answer to call n is its own, or one of Ids calls ago.
MayTake(n) == n = asked \/ asked - n >= Ids

Take(n) ==
    /\ waiting /\ MayTake(n)
    /\ waiting' = FALSE /\ result' = n
    /\ UNCHANGED <<asked, cut>>

TakeAnything ==
    /\ waiting /\ cut
    /\ waiting' = FALSE /\ result' = Anything
    /\ UNCHANGED <<asked, cut>>

\* What has arrived is thrown away while the call goes on.
Discard ==
    /\ waiting /\ cut' = TRUE
    /\ UNCHANGED <<asked, waiting, result>>

TNext == Ask \/ Fail \/ (\E n \in 1 .. asked : Take(n)) \/ TakeAnything
         \/ Discard

TSpec == TInit /\ [][TNext]_tvars

=============================================================================
