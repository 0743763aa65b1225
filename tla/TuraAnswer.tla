----------------------------- MODULE TuraAnswer -----------------------------
(***************************************************************************)
(* The numbers in the answers of an emulated Tura flow meter, and those    *)
(* its settings keep (DeviceTura/DeviceTura.cpp): the thread reads the     *)
(* widgets one by one for each command and puts what it read into bytes,   *)
(* while the user edits them; when the window closes, the GUI thread reads *)
(* them too, into the same values, and saves these.  The thread may be     *)
(* answering even then.  This is the step Answer of TuraSession in detail. *)
(* As in ui/Tura.ui there is a line edit for each register.                *)
(***************************************************************************)
EXTENDS Integers

CONSTANTS
    Numbers,    \* what a widget may show: a float by its bytes, and the integer
                \* and the fraction modf splits it into
    Forms,      \* the forms, and the values, there may be at the start
    Stack,      \* what the buffer of processSession may hold at its start
    UIntMax,    \* the greatest unsigned int
    Overflown,  \* what the conversion of other integers to unsigned int may give
    MaxEdits    \* bound: edits by the user

Char == 0..255
Word == [1..4 -> Char]     \* the bytes of 32 bits, the most significant first

Registers == {"current_flowrate", "accum_volume"} \X (0..2)

\* The part of the buffer that is ever sent.
Positions == 0..65

ASSUME NumbersAssumption ==
    /\ Numbers \subseteq [word : Word, whole : Int, fraction : Word]
    /\ Forms \subseteq [Registers -> Numbers]
    /\ Stack \subseteq [Positions -> Char]
    /\ UIntMax \in Nat /\ Overflown \subseteq 0..UIntMax

VARIABLES
    form,      \* the number each widget shows
    value,     \* RegisterTura::value, of which both threads are users
    settings,  \* what has been saved
    gpc, saved,          \* GUI thread: "events", in saveState, or "closed";
                         \* registers read, then registers saved
    apc, code, idx, text,  \* the thread: where it is in its answer, the command,
                           \* the register it is at and what it read there
    sendbuf,   \* the buffer, buf
    edits,     \* edits so far
    shown,     \* history: what each widget has shown since the command came
    caught     \* history: what the thread was about to store when saveState began

window     == <<gpc, saved, settings, caught>>
thread     == <<apc, code, idx, text, sendbuf>>
answerVars == <<form, value, window, thread, edits, shown>>

\* The registers in the order of saveState.
Order == [n \in 1..6 |-> IF n <= 3 THEN <<"current_flowrate", n - 1>>
                                   ELSE <<"accum_volume", n - 4>>]

Register == <<code, idx>>   \* the one the thread is at

-----------------------------------------------------------------------------
(* Numbers as bytes. *)

\* Fault: the low bit of the exponent stays where the sign belongs.
Fault_ieee_to_flo32(v) ==
    LET s == v[1] \div 128
        e == (v[1] % 128) * 2 + (v[2] \div 128)
    IN  <<v[4], v[3], IF s = 1 /\ v[2] < 128 THEN v[2] + 128 ELSE v[2], e>>

\* The bytes are reversed, and the exponent takes the last one, its lowest bit
\* leaving its place to the sign.
ieee_to_flo32(v) ==
    LET s == v[1] \div 128
        e == (v[1] % 128) * 2 + (v[2] \div 128)
    IN  <<v[4], v[3], (v[2] % 128) + 128 * s, e>>

\* A word in memory begins with its least significant byte.
PutWord(b, at, w) ==
    [n \in Positions |-> IF n \in at..at + 3 THEN w[4 - (n - at)] ELSE b[n]]

\* val = fval
Unsigned(whole) == IF whole \in 0..UIntMax THEN {whole} ELSE Overflown

\* val >> 16, val >> 8 and val >> 0 as chars.
Char2(val) == (val \div 65536) % 256
Char1(val) == (val \div 256) % 256
Char0(val) == val % 256

PutWhole(b, at, val) ==
    [b EXCEPT ![at] = Char2(val), ![at + 1] = Char1(val), ![at + 2] = Char0(val)]

-----------------------------------------------------------------------------
AnswerInit ==
    /\ form \in Forms /\ value \in Forms
    /\ settings = value
    /\ gpc = "events" /\ saved = 0 /\ caught = [r \in Registers |-> {}]
    /\ apc = "idle" /\ code = "current_flowrate" /\ idx = 0
    /\ text = form[Register]
    /\ sendbuf \in Stack
    /\ edits = 0 /\ shown = [r \in Registers |-> {form[r]}]

\* The user types another number.
Edit(r, n) ==
    /\ gpc = "events" /\ edits < MaxEdits
    /\ edits' = edits + 1
    /\ form' = [form EXCEPT ![r] = n]
    /\ shown' = [shown EXCEPT ![r] = @ \cup {n}]
    /\ UNCHANGED <<value, window, thread>>

\* ~DeviceWidget: saveState, and only then is the device destroyed.
CloseWindow ==
    /\ gpc = "events"
    /\ gpc' = "reading" /\ saved' = 0
    /\ caught' = [r \in Registers |->
                    IF apc = "store" /\ r = Register THEN {text} ELSE {}]
    /\ UNCHANGED <<form, value, settings, thread, edits, shown>>

\* Fault: saveState saves the values it has.
Fault_SaveReads ==
    /\ gpc = "reading"
    /\ gpc' = "saving" /\ saved' = 0
    /\ UNCHANGED <<form, value, settings, caught, thread, edits, shown>>

\* widgetToValue in saveState: nobody edits meanwhile.
SaveReads ==
    /\ gpc = "reading"
    /\ value' = [value EXCEPT ![Order[saved + 1]] = form[Order[saved + 1]]]
    /\ IF saved = 5 THEN gpc' = "saving" /\ saved' = 0
                    ELSE saved' = saved + 1 /\ UNCHANGED gpc
    /\ UNCHANGED <<form, settings, caught, thread, edits, shown>>

\* SETTINGS->setValue; then ~DeviceTura waits for the thread.
Saves ==
    /\ gpc = "saving"
    /\ settings' = [settings EXCEPT ![Order[saved + 1]] = value[Order[saved + 1]]]
    /\ saved' = saved + 1
    /\ gpc' = IF saved = 5 THEN "closed" ELSE gpc
    /\ UNCHANGED <<form, value, caught, thread, edits, shown>>

-----------------------------------------------------------------------------
(* The thread. *)

\* A command of a session; the one before has been answered.
Command(c) ==
    /\ apc = "idle" /\ gpc # "closed"
    /\ code' = c /\ idx' = 0 /\ apc' = "read"
    /\ shown' = [r \in Registers |-> {form[r]}]
    /\ UNCHANGED <<form, value, window, text, sendbuf, edits>>

\* widgetToValue: the text of the widget is read, and converted.
ReadWidget ==
    /\ apc = "read"
    /\ text' = form[Register]
    /\ apc' = "store"
    /\ UNCHANGED <<form, value, window, code, idx, sendbuf, edits, shown>>

Head66 == [n \in Positions |-> CASE n = 0 -> 1 [] n = 1 -> 64 [] OTHER -> 0]

\* The number is stored.  After the last one the answer is begun: that to
\* AccumulateData in a buffer of zeros, that to CurrentData in what the buffer has.
StoreValue ==
    /\ apc = "store"
    /\ value' = [value EXCEPT ![Register] = text]
    /\ IF idx < 2
       THEN apc' = "read" /\ idx' = idx + 1 /\ UNCHANGED sendbuf
       ELSE /\ apc' = "encode" /\ idx' = 0
            /\ sendbuf' = IF code = "accum_volume" THEN Head66
                          ELSE [sendbuf EXCEPT ![0] = 1, ![1] = 16]
    /\ UNCHANGED <<form, window, code, text, edits, shown>>

Encoded ==
    /\ apc = "encode"
    /\ IF idx < 2 THEN idx' = idx + 1 /\ UNCHANGED apc
                  ELSE idx' = 0 /\ apc' = "sent"
    /\ UNCHANGED <<form, value, window, code, text, edits, shown>>

\* The float itself.
EncodeCurrent ==
    /\ code = "current_flowrate"
    /\ sendbuf' = PutWord(sendbuf, 2 + 4 * idx, ieee_to_flo32(value[Register].word))
    /\ Encoded

\* The fraction as a float, and 24 bits of the integer.
EncodeVolume ==
    /\ code = "accum_volume"
    /\ \E val \in Unsigned(value[Register].whole) :
          sendbuf' = PutWhole(PutWord(sendbuf, 10 + 4 * idx,
                                  ieee_to_flo32(value[Register].fraction)),
                          26 + 3 * idx, val)
    /\ Encoded

\* serialWrite has been called: 18 or 66 bytes of the buffer; the master has
\* acknowledged them, or has not and the session is over.
Acknowledged ==
    /\ apc = "sent"
    /\ apc' = "idle"
    /\ UNCHANGED <<form, value, window, code, idx, text, sendbuf, edits, shown>>

-----------------------------------------------------------------------------
AnswerNext ==
    \/ \E r \in Registers, n \in Numbers : Edit(r, n)
    \/ CloseWindow \/ SaveReads \/ Saves
    \/ \E c \in {"current_flowrate", "accum_volume"} : Command(c)
    \/ ReadWidget \/ StoreValue \/ EncodeCurrent \/ EncodeVolume \/ Acknowledged

AnswerSpec == AnswerInit /\ [][AnswerNext]_answerVars

-----------------------------------------------------------------------------
(* Properties. *)

\* A float by its parts.
Float(v) == [sign     |-> v[1] \div 128,
             exponent |-> (v[1] % 128) * 2 + (v[2] \div 128),
             mantissa |-> <<v[2] % 128, v[3], v[4]>>]

\* What a master makes of four bytes of an answer: the exponent, then the sign
\* and the mantissa; and of three bytes.
FloatAt(b, at) == [sign     |-> b[at + 1] \div 128,
                   exponent |-> b[at],
                   mantissa |-> <<b[at + 1] % 128, b[at + 2], b[at + 3]>>]
WholeAt(b, at) == (b[at] * 256 + b[at + 1]) * 256 + b[at + 2]
Low24(v) == v % 16777216

\* The bytes of a register stand for a number.
Says(b, c, i, n) ==
    IF c = "current_flowrate" THEN FloatAt(b, 2 + 4 * i) = Float(n.word)
    ELSE /\ FloatAt(b, 10 + 4 * i) = Float(n.fraction)
         /\ n.whole \in 0..UIntMax => WholeAt(b, 26 + 3 * i) = Low24(n.whole)

\* Each number of an answer was shown by its widget after the command had come,
\* whatever the user has edited and saveState has stored while the widgets were
\* read; it is the number itself, a volume modulo 2^24 and its integer and its
\* fraction of the same moment (processSession, ieee_to_flo32).
AnswersAreRecent ==
    apc = "sent" =>
        \A i \in 0..2 : \E n \in shown[<<code, i>>] : Says(sendbuf, code, i, n)

\* What is saved when the window closes is what the form shows, though the
\* thread of the device stores into the same values meanwhile; but for the one
\* number it had just read from its widget when saveState began, which may have
\* been edited since (saveState, widgetToValue).
SavedIsShown ==
    \A n \in 1..6 :
        gpc = "closed" \/ (gpc = "saving" /\ n <= saved) =>
            settings[Order[n]] \in {form[Order[n]]} \cup caught[Order[n]]

=============================================================================
