--------------------------- MODULE MCTuraSession ---------------------------
(***************************************************************************)
(* Instances of TuraSession and TuraAnswer for TLC.  A behaviour is about  *)
(* the sessions, and the form stays as it is, or about the numbers of the  *)
(* answers, and masters are left out: neither module reads the variables   *)
(* of the other.                                                           *)
(***************************************************************************)
EXTENDS TuraSession, TuraAnswer

\* Sessions: a name of two bytes, the two commands and their acknowledgement,
\* and a command the device does not know.
DeviceName == <<"n1", "n2">>

Hello == <<"mark", "start">> \o DeviceName
TuraFrames == {Hello, <<"mark", "cur">>, <<"mark", "acc">>, <<"ok">>,
               <<"mark", "n1">>}

\* Numbers: one with a sign, a fraction and an even exponent, and one without,
\* beyond 24 bits and with an odd exponent (-2.5 and 16842758); both give three
\* different bytes, and so does what an integer below zero is converted to.
Minus  == [word |-> <<192, 32, 0, 0>>,   whole |-> -2,       fraction |-> <<191, 0, 0, 0>>]
Beyond == [word |-> <<75, 128, 128, 3>>, whole |-> 16842758, fraction |-> <<0, 0, 0, 0>>]

TwoNumbers == {Minus, Beyond}
SomeForms == {[r \in Registers |-> IF r[2] = 0 THEN Beyond ELSE Minus]}
SomeStack == {[n \in Positions |-> 255]}

VARIABLE about

MCInit ==
    /\ Init /\ AnswerInit
    /\ about \in {"sessions", "numbers"}
    /\ about = "numbers" => patient

MCNext ==
    \/ about = "sessions" /\ Next /\ UNCHANGED <<answerVars, about>>
    \/ about = "numbers" /\ AnswerNext /\ UNCHANGED <<vars, about>>

MCSpec == MCInit /\ [][MCNext]_<<vars, answerVars, about>> /\ Fairness

=============================================================================
