----------------------------- MODULE RtuReceive -----------------------------
(***************************************************************************)
(* The receiver of RTU requests: receive_msg (libmodbus/modbus.c) over the *)
(* reads of modbus-rtu.c, called again and again by Modbus::poll, and a    *)
(* line on which masters send whole frames that may lose a byte.           *)
(*                                                                         *)
(* A byte is a number.  A CRC is perfect: the sequences of bytes that pass *)
(* check_integrity are the members of Frames.  Masters are of two kinds:   *)
(* those that pause and retry as they like, and patient ones, which do not *)
(* pause inside a frame, and wait for silence longer than the byte timeout *)
(* before they send the next.                                              *)
(***************************************************************************)
EXTENDS Integers, Sequences, FiniteSets

CONSTANTS
    Frames,    \* the frames the masters send, with their CRC
    Byte,      \* values of a byte; 0..255
    MaxAdu,    \* MODBUS_RTU_MAX_ADU_LENGTH, the size of Modbus::_query
    MaxLine,   \* bound: bytes waiting in the input queue
    MaxSent,   \* bound: frames sent
    MaxLost,   \* bound: bytes lost on the line, of patient masters
    AnyLost    \* bound: bytes lost of the others

\* The shortest array that holds slave, function and the longest meta part.
ASSUME AduAssumption == MaxAdu \in Nat /\ MaxAdu >= 11
ASSUME FrameAssumption == Byte \subseteq Nat /\ Frames \subseteq Seq(Byte)
ASSUME BoundAssumption == {MaxLine, MaxSent, MaxLost, AnyLost} \subseteq Nat

VARIABLES
    patient,  \* the kind of the masters, chosen once
    msg,      \* the bytes of the message so far
    step,     \* the part of the message receive_msg is in
    toRead,   \* length_to_read
    line,     \* bytes received by the port and not yet read
    out,      \* bytes of the current frame a master has still to send
    frame,    \* the frame that is being sent
    intact,   \* no byte of it has been lost
    sent,     \* frames begun so far
    lost,     \* bytes lost so far
    owed      \* history: how often each frame was sent without a loss, less
              \* how often receive_msg returned it

receiver == <<msg, step, toRead>>
sender   == <<out, frame, intact, sent, lost>>
vars     == <<patient, receiver, line, sender, owed>>

-----------------------------------------------------------------------------
(* The length of a request (header_length = 1, checksum_length = 2). *)

\* Bytes after the function code, up to the byte count.
compute_meta_length_after_function(fn) ==
    CASE fn <= 6 -> 4
      [] fn \in {15, 16} -> 5
      [] fn = 23 -> 9
      [] OTHER -> 0

\* Bytes after those: the data, if the function has any, and the CRC.
compute_data_length_after_meta(m) ==
    CASE m[2] \in {15, 16} -> m[7] + 2
      [] m[2] = 23 -> m[11] + 2
      [] OTHER -> 2

\* A request has the length that its header announces, and fits in _query.
ASSUME LengthAssumption == \A f \in Frames :
    /\ Len(f) >= 2
    /\ LET meta == compute_meta_length_after_function(f[2])
       IN  /\ Len(f) >= 2 + meta
           /\ Len(f) = 2 + meta + compute_data_length_after_meta(f)
    /\ Len(f) <= MaxAdu

\* The bytes of f at the positions I, in their order, are g.
Leaves(f, I, g) ==
    /\ Cardinality(I) = Len(g)
    /\ \A n \in I : f[n] = g[Cardinality({k \in I : k <= n})]

\* A perfect CRC: no frame is a part of what another leaves that lost bytes.
ASSUME CrcAssumption == \A f, g \in Frames :
    \A I \in SUBSET DOMAIN f : Leaves(f, I, g) => I = DOMAIN f

-----------------------------------------------------------------------------
\* Fault: a new call goes on in the part the last one ended in.
Fault_Fresh == msg' = <<>> /\ step' = step /\ toRead' = 2

\* A call of receive_msg begins.
Fresh == msg' = <<>> /\ step' = "function" /\ toRead' = 2

Init ==
    /\ patient \in BOOLEAN
    /\ msg = <<>> /\ step = "function" /\ toRead = 2
    /\ line = <<>>
    /\ out = <<>> /\ frame = <<>> /\ intact = TRUE
    /\ sent = 0 /\ lost = 0
    /\ owed = [f \in Frames |-> 0]

-----------------------------------------------------------------------------
(* The receiver.  Select and recv take some of the bytes that are there,   *)
(* never more than length_to_read.                                         *)

Takes(k) ==
    /\ k \in 1 .. toRead
    /\ k <= Len(line)
    /\ line' = SubSeq(line, k + 1, Len(line))
    /\ UNCHANGED <<patient, sender>>

Longer(k) == msg \o SubSeq(line, 1, k)

\* The part that is read is not complete yet.
ReadSome(k) ==
    /\ Takes(k) /\ k < toRead
    /\ msg' = Longer(k)
    /\ toRead' = toRead - k
    /\ UNCHANGED <<step, owed>>

\* The function code has arrived, and more is expected before the data.
ReadFunction(k) ==
    /\ Takes(k) /\ k = toRead /\ step = "function"
    /\ LET meta == compute_meta_length_after_function(Longer(k)[2])
       IN  meta # 0 /\ toRead' = meta
    /\ msg' = Longer(k) /\ step' = "meta"
    /\ UNCHANGED owed

\* What precedes the data and the CRC has arrived.
MetaComplete(m) ==
    \/ step = "meta"
    \/ step = "function" /\ compute_meta_length_after_function(m[2]) = 0

\* Fault: the length is believed when the frame is complete but for its CRC.
Fault_ReadMeta(k) ==
    /\ Takes(k) /\ k = toRead
    /\ MetaComplete(Longer(k))
    /\ LET data == compute_data_length_after_meta(Longer(k))
       IN  Len(Longer(k)) + data - 2 <= MaxAdu /\ toRead' = data
    /\ msg' = Longer(k) /\ step' = "data"
    /\ UNCHANGED owed

ReadMeta(k) ==
    /\ Takes(k) /\ k = toRead
    /\ MetaComplete(Longer(k))
    /\ LET data == compute_data_length_after_meta(Longer(k))
       IN  Len(Longer(k)) + data <= MaxAdu /\ toRead' = data
    /\ msg' = Longer(k) /\ step' = "data"
    /\ UNCHANGED owed

\* "too many data": the call returns -1, the bytes that follow stay.
TooMany(k) ==
    /\ Takes(k) /\ k = toRead
    /\ MetaComplete(Longer(k))
    /\ Len(Longer(k)) + compute_data_length_after_meta(Longer(k)) > MaxAdu
    /\ Fresh
    /\ UNCHANGED owed

\* The message is complete: check_integrity accepts it, or the call returns
\* -1; nothing is flushed, for error_recovery is NONE.
ReadData(k) ==
    /\ Takes(k) /\ k = toRead /\ step = "data"
    /\ owed' = IF Longer(k) \in Frames
               THEN [owed EXCEPT ![Longer(k)] = @ - 1] ELSE owed
    /\ Fresh

\* Fault: what has been read is kept for the next call.
Fault_TimeOut ==
    /\ line = <<>> /\ msg # <<>> /\ (patient => out = <<>>)
    /\ UNCHANGED vars

\* No byte arrives for the byte timeout: the call returns -1 and what it has
\* read is forgotten.
TimeOut ==
    /\ line = <<>> /\ msg # <<>> /\ (patient => out = <<>>)
    /\ Fresh
    /\ UNCHANGED <<patient, line, sender, owed>>

Receive == \E k \in 1 .. MaxLine :
    ReadSome(k) \/ ReadFunction(k) \/ ReadMeta(k) \/ TooMany(k) \/ ReadData(k)

-----------------------------------------------------------------------------
(* The line.  One master at a time; a byte may be lost. *)

Quiet == line = <<>> /\ out = <<>>

Send(f) ==
    /\ out = <<>> /\ sent < MaxSent
    /\ patient => Quiet /\ msg = <<>>
    /\ out' = f /\ frame' = f /\ intact' = TRUE
    /\ sent' = sent + 1
    /\ UNCHANGED <<patient, receiver, line, lost, owed>>

\* The last byte of a frame that has lost none makes the frame due.
Sent(ok) ==
    /\ out' = Tail(out)
    /\ intact' = ok
    /\ owed' = IF ok /\ Len(out) = 1
               THEN [owed EXCEPT ![frame] = @ + 1] ELSE owed
    /\ UNCHANGED <<patient, receiver, frame, sent>>

Transmit ==
    /\ out # <<>> /\ Len(line) < MaxLine
    /\ line' = Append(line, Head(out))
    /\ Sent(intact)
    /\ UNCHANGED lost

Lose ==
    /\ out # <<>> /\ lost < (IF patient THEN MaxLost ELSE AnyLost)
    /\ lost' = lost + 1
    /\ Sent(FALSE)
    /\ UNCHANGED line

Next == \/ Receive \/ TimeOut \/ Transmit \/ Lose
        \/ \E f \in Frames : Send(f)

Spec == Init /\ [][Next]_vars

\* The polling thread calls modbus_receive as long as the port is listed, and
\* what is on the line arrives.  Nothing promises a further frame.
FairSpec ==
    Spec /\ WF_vars(patient /\ Receive) /\ WF_vars(patient /\ TimeOut)
         /\ WF_vars(patient /\ Transmit)

-----------------------------------------------------------------------------
(* Properties. *)

\* The receiver, the line and the master have their types; a frame that is being
\* sent is one of Frames.
TypeOK ==
    /\ patient \in BOOLEAN
    /\ msg \in Seq(Byte) /\ line \in Seq(Byte) /\ out \in Seq(Byte)
    /\ step \in {"function", "meta", "data"}
    /\ toRead \in Nat
    /\ frame \in Frames \cup {<<>>}
    /\ out # <<>> => frame \in Frames
    /\ intact \in BOOLEAN
    /\ sent \in Nat /\ lost \in Nat
    /\ owed \in [Frames -> Int]

\* receive_msg never writes beyond _query, whatever bytes the line brings and
\* however the reads cut them: the length field of a frame is believed only
\* after it has been compared with the room that is left.
NoOverrun == Len(msg) + toRead <= MaxAdu

\* receive_msg is in the part of the message that its length says: the slave
\* and the function, then up to the byte count, then the data.
StepInv ==
    /\ step = "function" => Len(msg) + toRead = 2
    /\ step = "meta" =>
          /\ Len(msg) >= 2
          /\ compute_meta_length_after_function(msg[2]) # 0
          /\ Len(msg) + toRead = 2 + compute_meta_length_after_function(msg[2])

\* With patient masters a lost byte costs the frame it was part of and no
\* other: when the line is quiet every frame sent whole has been returned
\* once, and none has been put together from the pieces of damaged ones.
OthersArrive ==
    patient /\ Quiet /\ msg = <<>> => \A f \in Frames : owed[f] = 0

\* With patient masters the receiver always comes back to the beginning of a
\* frame, and the line to silence.
Resynchronises == patient => []<>(Quiet /\ msg = <<>>)

=============================================================================
