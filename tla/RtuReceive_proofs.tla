------------------------- MODULE RtuReceive_proofs -------------------------
(***************************************************************************)
(* Proofs, for any frames, any bytes lost and any way in which the reads   *)
(* cut the stream: the receiver never writes beyond its buffer; and when   *)
(* masters wait for silence, every frame that is sent whole is returned,   *)
(* and nothing is returned that was not sent.                              *)
(***************************************************************************)
EXTENDS RtuReceive, SequenceTheorems, FiniteSetTheorems, TLAPS

\* The length after the function code is one of four.
LEMMA MetaLength ==
    ASSUME NEW fn \in Byte
    PROVE  /\ compute_meta_length_after_function(fn) \in {0, 4, 5, 9}
           /\ fn \in {15, 16} => compute_meta_length_after_function(fn) = 5
           /\ fn = 23 => compute_meta_length_after_function(fn) = 9
<1>1. fn \in Nat
  BY FrameAssumption
<1>2. /\ fn <= 6 => fn \notin {15, 16, 23}
      /\ fn \in {15, 16} => ~(fn <= 6) /\ fn # 23
      /\ fn = 23 => ~(fn <= 6)
  BY <1>1
<1>. QED  BY <1>1, <1>2 DEF compute_meta_length_after_function

\* The function code of a message that has one.
LEMMA SecondByte == ASSUME NEW q \in Seq(Byte), Len(q) >= 2 PROVE q[2] \in Byte
OBVIOUS

\* Appending k bytes of the line to the message.
LEMMA LongerLength ==
    ASSUME TypeOK, NEW k \in Nat, k <= Len(line)
    PROVE  /\ Longer(k) \in Seq(Byte)
           /\ Len(Longer(k)) = Len(msg) + k
           /\ \A n \in 1 .. Len(msg) : Longer(k)[n] = msg[n]
           /\ SubSeq(line, k + 1, Len(line)) \in Seq(Byte)
<1>1. msg \in Seq(Byte) /\ line \in Seq(Byte) /\ Len(line) \in Nat
  BY DEF TypeOK
<1>2. /\ SubSeq(line, 1, k) \in Seq(Byte)
      /\ Len(SubSeq(line, 1, k)) = k
  BY <1>1, SubSeqProperties
<1>3. SubSeq(line, k + 1, Len(line)) \in Seq(Byte)
  BY <1>1, SubSeqProperties
<1>. DEFINE part == SubSeq(line, 1, k)
<1>. HIDE DEF part
<1>4. Longer(k) = msg \o part
  BY DEF Longer, part
<1>5. part \in Seq(Byte) /\ Len(part) = k
  BY <1>2 DEF part
<1>6. /\ msg \o part \in Seq(Byte)
      /\ Len(msg \o part) = Len(msg) + Len(part)
      /\ \A n \in 1 .. Len(msg) + Len(part) :
            (msg \o part)[n] = IF n <= Len(msg) THEN msg[n] ELSE part[n - Len(msg)]
  BY <1>1, <1>5, ConcatProperties
<1>7. Len(msg) \in Nat
  BY <1>1
<1>8. \A n \in 1 .. Len(msg) : (msg \o part)[n] = msg[n]
  BY <1>5, <1>6, <1>7
<1>. QED  BY <1>3, <1>4, <1>5, <1>6, <1>8

Inv == TypeOK /\ StepInv /\ NoOverrun

\* A call of receive_msg begins within the buffer.
LEMMA FreshStep ==
    ASSUME Fresh PROVE StepInv' /\ NoOverrun' /\ msg' \in Seq(Byte)
                       /\ step' = "function" /\ toRead' \in Nat
BY AduAssumption DEF Fresh, StepInv, NoOverrun

\* Bytes taken from the line, by every step that reads.
LEMMA TakesStep ==
    ASSUME TypeOK, NEW k, Takes(k)
    PROVE  /\ k \in Nat /\ k >= 1 /\ k <= toRead /\ k <= Len(line)
           /\ line' \in Seq(Byte) /\ UNCHANGED <<patient, sender>>
<1>1. toRead \in Nat
  BY DEF TypeOK
<1>2. k \in Nat /\ k >= 1 /\ k <= toRead
  BY <1>1 DEF Takes
<1>. QED  BY <1>2, LongerLength DEF Takes

\* What is known of the message when its length field is read: the field is
\* one of the bytes received.
LEMMA DataLength ==
    ASSUME Inv, NEW k, Takes(k), k = toRead, MetaComplete(Longer(k))
    PROVE  /\ compute_data_length_after_meta(Longer(k)) \in Nat
           /\ compute_data_length_after_meta(Longer(k)) >= 2
           /\ Longer(k) \in Seq(Byte) /\ Len(Longer(k)) >= 2
<1>. DEFINE m == Longer(k)
<1>1. /\ m \in Seq(Byte) /\ Len(m) = Len(msg) + toRead
      /\ \A n \in 1 .. Len(msg) : m[n] = msg[n]
      /\ Len(msg) \in Nat /\ toRead \in Nat
  BY TakesStep, LongerLength DEF Inv, TypeOK
<1>2. Len(m) >= 2
  <2>1. CASE step = "function"
    BY <1>1, <2>1 DEF Inv, StepInv
  <2>2. CASE step = "meta"
    BY <1>1, <2>2 DEF Inv, StepInv
  <2>. QED  BY <2>1, <2>2 DEF MetaComplete
<1>3. m[2] \in Byte
  BY <1>1, <1>2
<1>4. /\ m[2] \in {15, 16} => Len(m) = 7
      /\ m[2] = 23 => Len(m) = 11
  <2>1. CASE step = "function" /\ compute_meta_length_after_function(m[2]) = 0
    BY <1>3, <2>1, MetaLength
  <2>2. CASE step = "meta"
    <3>1. /\ Len(msg) >= 2 /\ msg[2] = m[2]
          /\ Len(m) = 2 + compute_meta_length_after_function(m[2])
      BY <1>1, <2>2 DEF Inv, StepInv
    <3>. QED  BY <1>3, <3>1, MetaLength
  <2>. QED  BY <2>1, <2>2 DEF MetaComplete
<1>5. \A n \in 1 .. Len(m) : m[n] \in Nat
  <2>1. \A n \in 1 .. Len(m) : m[n] \in Byte
    BY <1>1
  <2>2. Byte \subseteq Nat
    BY FrameAssumption
  <2>. QED  BY <2>1, <2>2
<1>6. /\ m[2] \in {15, 16} => m[7] \in Nat
      /\ m[2] = 23 => m[11] \in Nat
  BY <1>4, <1>5
<1>. QED  BY <1>1, <1>2, <1>6, SMTT(30) DEF compute_data_length_after_meta

\* Each way to read keeps the message, its part and its length together.
LEMMA ReadStep ==
    ASSUME Inv, NEW k,
           ReadSome(k) \/ ReadFunction(k) \/ ReadMeta(k) \/ TooMany(k) \/ ReadData(k)
    PROVE  Inv'
<1>. DEFINE m == Longer(k)
<1>1. Takes(k)
  BY DEF ReadSome, ReadFunction, ReadMeta, TooMany, ReadData
<1>2. /\ m \in Seq(Byte) /\ Len(m) = Len(msg) + k
      /\ \A n \in 1 .. Len(msg) : m[n] = msg[n]
      /\ Len(msg) \in Nat /\ toRead \in Nat /\ k \in Nat /\ k >= 1 /\ k <= toRead
  BY <1>1, TakesStep, LongerLength DEF Inv, TypeOK
<1>3. line' \in Seq(Byte) /\ UNCHANGED <<patient, sender>>
  BY <1>1, TakesStep DEF Inv
<1>4. ASSUME UNCHANGED owed, msg' \in Seq(Byte), toRead' \in Nat,
             step' \in {"function", "meta", "data"}
      PROVE  TypeOK'
  BY <1>3, <1>4 DEF Inv, TypeOK, sender
<1>5. CASE ReadSome(k)
  <2>1. /\ msg' = m /\ toRead' = toRead - k /\ toRead' \in Nat
        /\ step' = step /\ UNCHANGED owed
        /\ Len(msg') + toRead' = Len(msg) + toRead
    BY <1>2, <1>5 DEF ReadSome
  <2>2. TypeOK'
    BY <1>2, <1>4, <2>1 DEF Inv, TypeOK
  <2>3. StepInv'
    <3>1. CASE step = "function"
      BY <2>1, <3>1 DEF Inv, StepInv
    <3>2. CASE step = "meta"
      <4>1. Len(m) >= 2 /\ m[2] = msg[2]
        BY <1>2, <3>2 DEF Inv, StepInv
      <4>. QED  BY <2>1, <3>2, <4>1 DEF Inv, StepInv
    <3>3. CASE step = "data"
      BY <2>1, <3>3 DEF StepInv
    <3>. QED  BY <3>1, <3>2, <3>3 DEF Inv, TypeOK
  <2>4. NoOverrun'
    BY <2>1 DEF Inv, NoOverrun
  <2>. QED  BY <2>2, <2>3, <2>4 DEF Inv
<1>6. CASE ReadFunction(k)
  <2>1. /\ msg' = m /\ step' = "meta" /\ UNCHANGED owed
        /\ toRead' = compute_meta_length_after_function(m[2])
        /\ toRead' # 0
    BY <1>6 DEF ReadFunction
  <2>2. Len(m) = 2
    BY <1>2, <1>6 DEF ReadFunction, Inv, StepInv
  <2>3. m[2] \in Byte
    BY <1>2, <2>2, SecondByte
  <2>4. toRead' \in {4, 5, 9}
    BY <2>1, <2>3, MetaLength
  <2>5. TypeOK'
    BY <1>2, <1>4, <2>1, <2>4
  <2>6. StepInv' /\ NoOverrun'
    BY <2>1, <2>2, <2>4, AduAssumption DEF StepInv, NoOverrun
  <2>. QED  BY <2>5, <2>6 DEF Inv
<1>7. CASE ReadMeta(k)
  <2>1. /\ msg' = m /\ step' = "data" /\ UNCHANGED owed
        /\ toRead' = compute_data_length_after_meta(m)
        /\ Len(m) + compute_data_length_after_meta(m) <= MaxAdu
    BY <1>7 DEF ReadMeta
  <2>2. toRead' \in Nat
    BY <1>1, <1>7, <2>1, DataLength DEF ReadMeta
  <2>3. TypeOK'
    BY <1>2, <1>4, <2>1, <2>2
  <2>4. StepInv' /\ NoOverrun'
    BY <2>1 DEF StepInv, NoOverrun
  <2>. QED  BY <2>3, <2>4 DEF Inv
<1>8. CASE TooMany(k)
  <2>1. Fresh /\ UNCHANGED owed
    BY <1>8 DEF TooMany
  <2>. QED  BY <1>4, <2>1, FreshStep DEF Inv
<1>9. CASE ReadData(k)
  <2>1. Fresh
    BY <1>9 DEF ReadData
  <2>2. owed' \in [Frames -> Int]
    BY <1>9 DEF ReadData, Inv, TypeOK
  <2>. QED  BY <1>3, <2>1, <2>2, FreshStep DEF Inv, TypeOK, sender
<1>. QED  BY <1>5, <1>6, <1>7, <1>8, <1>9

\* The line only adds bytes of frames to the queue.
LEMMA LineStep ==
    ASSUME Inv, Transmit \/ Lose \/ \E f \in Frames : Send(f)
    PROVE  Inv'
<1>1. UNCHANGED <<patient, receiver>>
  BY DEF Transmit, Lose, Send, Sent
<1>2. StepInv' /\ NoOverrun'
  BY <1>1 DEF Inv, StepInv, NoOverrun, receiver
<1>3. CASE \E f \in Frames : Send(f)
  BY <1>1, <1>2, <1>3, FrameAssumption DEF Inv, TypeOK, Send, receiver
<1>4. CASE Transmit \/ Lose
  <2>1. out # <<>> /\ out \in Seq(Byte)
    BY <1>4 DEF Transmit, Lose, Inv, TypeOK
  <2>2. Head(out) \in Byte /\ Tail(out) \in Seq(Byte)
    BY <2>1, HeadTailProperties
  <2>3. line' \in Seq(Byte)
    <3>1. line \in Seq(Byte)
      BY DEF Inv, TypeOK
    <3>2. Append(line, Head(out)) \in Seq(Byte)
      BY <2>2, <3>1, AppendProperties
    <3>. QED  BY <1>4, <3>1, <3>2 DEF Transmit, Lose
  <2>4. /\ out' = Tail(out) /\ frame' = frame /\ sent' = sent
        /\ intact' \in BOOLEAN /\ lost' \in Nat
        /\ owed' \in [Frames -> Int]
    <3>1. frame \in Frames
      BY <2>1 DEF Inv, TypeOK
    <3>2. owed' \in [Frames -> Int]
      BY <1>4, <3>1 DEF Transmit, Lose, Sent, Inv, TypeOK
    <3>3. CASE Transmit
      BY <3>2, <3>3 DEF Transmit, Sent, Inv, TypeOK
    <3>4. CASE Lose
      <4>1. out' = Tail(out) /\ frame' = frame /\ sent' = sent
        BY <3>4 DEF Lose, Sent
      <4>2. intact' = FALSE /\ lost' = lost + 1
        BY <3>4 DEF Lose, Sent
      <4>3. intact' \in BOOLEAN
        BY <4>2, Zenon
      <4>4. lost' \in Nat
        BY <4>2 DEF Inv, TypeOK
      <4>. QED  BY <3>2, <4>1, <4>3, <4>4
    <3>. QED  BY <1>4, <3>3, <3>4
  <2>. QED  BY <1>1, <1>2, <2>1, <2>2, <2>3, <2>4 DEF Inv, TypeOK, receiver
<1>. QED  BY <1>3, <1>4

\* Types, the part of the message and the room in the buffer are invariant.
THEOREM ReceiverInvariant == Spec => []Inv
<1>1. Init => Inv
  <2>. SUFFICES ASSUME Init PROVE Inv
    OBVIOUS
  <2>1. <<>> \in Seq(Byte)
    OBVIOUS
  <2>2. TypeOK
    BY <2>1 DEF Init, TypeOK
  <2>3. StepInv /\ NoOverrun
    BY AduAssumption DEF Init, StepInv, NoOverrun
  <2>. QED  BY <2>2, <2>3 DEF Inv
<1>2. Inv /\ [Next]_vars => Inv'
  <2>. SUFFICES ASSUME Inv, [Next]_vars PROVE Inv'
    OBVIOUS
  <2>1. CASE Receive
    BY <2>1, ReadStep DEF Receive
  <2>2. CASE TimeOut
    BY <2>2, FreshStep DEF TimeOut, Inv, TypeOK, sender
  <2>3. CASE Transmit \/ Lose \/ \E f \in Frames : Send(f)
    BY <2>3, LineStep
  <2>4. CASE UNCHANGED vars
    BY <2>4 DEF vars, receiver, sender, Inv, TypeOK, StepInv, NoOverrun
  <2>. QED  BY <2>1, <2>2, <2>3, <2>4 DEF Next
<1>. QED  BY <1>1, <1>2, PTL DEF Spec

\* Every variable of the receiver and of the line keeps its type.
THEOREM TypeCorrect == Spec => []TypeOK
<1>1. Inv => TypeOK
  BY DEF Inv
<1>. QED  BY <1>1, ReceiverInvariant, PTL

\* receive_msg is always in the part of the message that its length says.
THEOREM StepsFollowTheLength == Spec => []StepInv
<1>1. Inv => StepInv
  BY DEF Inv
<1>. QED  BY <1>1, ReceiverInvariant, PTL

\* The message under construction and what is still to be read of it never
\* exceed the array _query, in which receive_msg writes.
THEOREM NeverOverruns == Spec => []NoOverrun
<1>1. Inv => NoOverrun
  BY DEF Inv
<1>. QED  BY <1>1, ReceiverInvariant, PTL

-----------------------------------------------------------------------------
(* With patient masters whole frames arrive. *)

\* The bytes of the frame that have been sent, or will be, and not been used.
Stream == (msg \o line) \o out

\* Nothing is under way.
Between == Stream = <<>> /\ step = "function" /\ \A f \in Frames : owed[f] = 0

\* A frame that has lost nothing is between the message and the master, and
\* the message ends where the frame does.
Whole ==
    /\ frame \in Frames /\ Stream = frame
    /\ step = "data" => Len(msg) + toRead = Len(frame)
    /\ \A f \in Frames : owed[f] = IF f = frame /\ out = <<>> THEN 1 ELSE 0

\* Some of the bytes of f, in their order.
Within(s, f) ==
    \E h \in [1 .. Len(s) -> 1 .. Len(f)] :
        /\ \A n, k \in 1 .. Len(s) : n < k => h[n] < h[k]
        /\ \A n \in 1 .. Len(s) : s[n] = f[h[n]]

\* A frame that has lost a byte leaves fewer, and none is owed.
Damaged ==
    /\ frame \in Frames
    /\ Within(Stream, frame) /\ Len(Stream) < Len(frame)
    /\ \A f \in Frames : owed[f] = 0

PatientInv ==
    /\ toRead >= 1
    /\ step # "function" => Len(msg) >= 2
    /\ msg = <<>> => step = "function"
    /\ patient => IF intact THEN Between \/ Whole ELSE Damaged

\* Three sequences in a row.
LEMMA InARow ==
    ASSUME NEW a \in Seq(Byte), NEW b \in Seq(Byte), NEW c \in Seq(Byte)
    PROVE  /\ (a \o b) \o c \in Seq(Byte)
           /\ Len((a \o b) \o c) = Len(a) + Len(b) + Len(c)
           /\ Len(a) \in Nat /\ Len(b) \in Nat /\ Len(c) \in Nat
           /\ \A n \in 1 .. Len(a) + Len(b) + Len(c) :
                 ((a \o b) \o c)[n] =
                     IF n <= Len(a) THEN a[n]
                     ELSE IF n <= Len(a) + Len(b) THEN b[n - Len(a)]
                     ELSE c[n - Len(a) - Len(b)]
<1>1. Len(a) \in Nat /\ Len(b) \in Nat /\ Len(c) \in Nat
  OBVIOUS
<1>. DEFINE ab == a \o b
<1>2. /\ ab \in Seq(Byte) /\ Len(ab) = Len(a) + Len(b)
      /\ \A n \in 1 .. Len(a) + Len(b) :
            ab[n] = IF n <= Len(a) THEN a[n] ELSE b[n - Len(a)]
  BY ConcatProperties
<1>. HIDE DEF ab
<1>3. /\ ab \o c \in Seq(Byte) /\ Len(ab \o c) = Len(ab) + Len(c)
      /\ \A n \in 1 .. Len(ab) + Len(c) :
            (ab \o c)[n] = IF n <= Len(ab) THEN ab[n] ELSE c[n - Len(ab)]
  <2>1. ab \in Seq(Byte)
    BY <1>2
  <2>. QED  BY ONLY <2>1, c \in Seq(Byte), ConcatProperties
<1>4. \A n \in 1 .. Len(a) + Len(b) + Len(c) :
         (ab \o c)[n] = IF n <= Len(a) THEN a[n]
                        ELSE IF n <= Len(a) + Len(b) THEN b[n - Len(a)]
                        ELSE c[n - Len(a) - Len(b)]
  <2>. TAKE n \in 1 .. Len(a) + Len(b) + Len(c)
  <2>1. n \in 1 .. Len(ab) + Len(c)
    BY <1>1, <1>2
  <2>2. CASE n <= Len(ab)
    BY <1>1, <1>2, <1>3, <2>1, <2>2
  <2>3. CASE ~(n <= Len(ab))
    <3>1. ~(n <= Len(a)) /\ ~(n <= Len(a) + Len(b))
      BY <1>1, <1>2, <2>3
    <3>. QED  BY <1>1, <1>2, <1>3, <2>1, <2>3, <3>1
  <2>. QED  BY <2>2, <2>3
<1>. QED  BY <1>1, <1>2, <1>3, <1>4 DEF ab

\* What an increasing function takes of 1 .. n has as many members.
LEMMA ImageCount ==
    ASSUME NEW n \in Nat, NEW m \in Nat, NEW h \in [1 .. n -> 1 .. m],
           \A i, j \in 1 .. n : i < j => h[i] < h[j],
           NEW k \in 0 .. n
    PROVE  Cardinality({h[j] : j \in 1 .. k}) = k
<1>. DEFINE T == {h[j] : j \in 1 .. k}
            g == [j \in 1 .. k |-> h[j]]
<1>1. IsFiniteSet(1 .. k) /\ Cardinality(1 .. k) = k
  BY FS_Interval
<1>2. \A i, j \in 1 .. k : g[i] = g[j] => i = j
  <2>. SUFFICES ASSUME NEW i \in 1 .. k, NEW j \in 1 .. k, i < j
                PROVE  g[i] # g[j]
    OBVIOUS
  <2>1. h[i] < h[j] /\ h[i] \in Nat /\ h[j] \in Nat
    OBVIOUS
  <2>. QED  BY <2>1
<1>3. g \in Injection(1 .. k, T)
  BY <1>2 DEF Injection, IsInjective
<1>4. g \in Surjection(1 .. k, T)
  BY DEF Surjection
<1>5. Cardinality(T) = Cardinality(1 .. k)
  <2>. HIDE DEF T, g
  <2>. QED  BY <1>1, <1>3, <1>4, FS_Surjection
<1>. QED  BY <1>1, <1>5

\* No frame is within another that has lost bytes: the perfect CRC, by the
\* positions of the bytes instead of their set.
LEMMA NoFrameWithin ==
    ASSUME NEW f \in Frames, NEW g \in Frames, Within(g, f), Len(g) < Len(f)
    PROVE  FALSE
<1>1. Len(f) \in Nat /\ Len(g) \in Nat /\ DOMAIN f = 1 .. Len(f)
  BY FrameAssumption
<1>2. PICK h \in [1 .. Len(g) -> 1 .. Len(f)] :
          /\ \A i, j \in 1 .. Len(g) : i < j => h[i] < h[j]
          /\ \A i \in 1 .. Len(g) : g[i] = f[h[i]]
  BY DEF Within
<1>. DEFINE I == {h[j] : j \in 1 .. Len(g)}
<1>3. I \in SUBSET DOMAIN f
  BY <1>1
<1>4. Cardinality(I) = Len(g)
  <2>1. Len(g) \in 0 .. Len(g)
    BY <1>1
  <2>. QED  BY <1>1, <1>2, <2>1, ImageCount
<1>5. ASSUME NEW n \in I
      PROVE  f[n] = g[Cardinality({k \in I : k <= n})]
  <2>1. PICK i \in 1 .. Len(g) : n = h[i]
    OBVIOUS
  <2>2. {k \in I : k <= n} = {h[j] : j \in 1 .. i}
    <3>1. ASSUME NEW j \in 1 .. Len(g) PROVE h[j] <= h[i] <=> j <= i
      <4>1. h[j] \in Nat /\ h[i] \in Nat /\ i \in Nat /\ j \in Nat
        BY <1>1
      <4>2. (j < i => h[j] < h[i]) /\ (i < j => h[i] < h[j])
        BY <1>2
      <4>. QED  BY <4>1, <4>2
    <3>2. ASSUME NEW k \in I, k <= n PROVE k \in {h[j] : j \in 1 .. i}
      <4>1. PICK j \in 1 .. Len(g) : k = h[j]
        OBVIOUS
      <4>2. j \in 1 .. i
        BY <2>1, <3>1, <3>2, <4>1
      <4>. QED  BY <4>1, <4>2
    <3>3. ASSUME NEW j \in 1 .. i PROVE h[j] \in I /\ h[j] <= n
      <4>1. j \in 1 .. Len(g)
        BY <1>1
      <4>. QED  BY <2>1, <3>1, <4>1
    <3>. QED  BY <3>2, <3>3
  <2>3. Cardinality({h[j] : j \in 1 .. i}) = i
    <3>1. i \in 0 .. Len(g)
      BY <1>1
    <3>. QED  BY <1>1, <1>2, <3>1, ImageCount
  <2>. QED  BY <1>2, <2>1, <2>2, <2>3
<1>6. Leaves(f, I, g)
  BY <1>4, <1>5 DEF Leaves
<1>7. I # DOMAIN f
  <2>1. Cardinality(DOMAIN f) = Len(f)
    BY <1>1, FS_Interval
  <2>. HIDE DEF I
  <2>. QED  BY <1>1, <1>4, <2>1
<1>. HIDE DEF I
<1>. QED  BY <1>3, <1>6, <1>7, CrcAssumption

\* A sequence is within itself.
LEMMA WithinItself ==
    ASSUME NEW f \in Seq(Byte)
    PROVE  Within(f, f)
<1>. DEFINE h == [n \in 1 .. Len(f) |-> n]
<1>1. /\ h \in [1 .. Len(f) -> 1 .. Len(f)]
      /\ \A n, k \in 1 .. Len(f) : n < k => h[n] < h[k]
      /\ \A n \in 1 .. Len(f) : f[n] = f[h[n]]
  OBVIOUS
<1>. HIDE DEF h
<1>. QED  BY <1>1 DEF Within

\* What lies within a part of s lies within what s lies in.
LEMMA WithinPart ==
    ASSUME NEW s \in Seq(Byte), NEW t \in Seq(Byte), NEW f \in Seq(Byte),
           NEW g \in [1 .. Len(t) -> 1 .. Len(s)],
           \A n, k \in 1 .. Len(t) : n < k => g[n] < g[k],
           \A n \in 1 .. Len(t) : t[n] = s[g[n]],
           Within(s, f)
    PROVE  Within(t, f)
<1>1. PICK h \in [1 .. Len(s) -> 1 .. Len(f)] :
          /\ \A n, k \in 1 .. Len(s) : n < k => h[n] < h[k]
          /\ \A n \in 1 .. Len(s) : s[n] = f[h[n]]
  BY DEF Within
<1>. DEFINE e == [n \in 1 .. Len(t) |-> h[g[n]]]
<1>2. /\ e \in [1 .. Len(t) -> 1 .. Len(f)]
      /\ \A n, k \in 1 .. Len(t) : n < k => e[n] < e[k]
      /\ \A n \in 1 .. Len(t) : t[n] = f[e[n]]
  BY <1>1
<1>. HIDE DEF e
<1>. QED  BY <1>2 DEF Within

\* A stretch of s, from its byte after the first d.
LEMMA WithinStretch ==
    ASSUME NEW s \in Seq(Byte), NEW t \in Seq(Byte), NEW f \in Seq(Byte),
           NEW d \in Nat, d + Len(t) <= Len(s),
           \A n \in 1 .. Len(t) : t[n] = s[d + n],
           Within(s, f)
    PROVE  Within(t, f)
<1>. DEFINE g == [n \in 1 .. Len(t) |-> d + n]
<1>1. /\ g \in [1 .. Len(t) -> 1 .. Len(s)]
      /\ \A n, k \in 1 .. Len(t) : n < k => g[n] < g[k]
      /\ \A n \in 1 .. Len(t) : t[n] = s[g[n]]
  OBVIOUS
<1>. HIDE DEF g
<1>. QED  BY <1>1, WithinPart

\* All of s but its byte after the first p.
LEMMA WithinLess ==
    ASSUME NEW s \in Seq(Byte), NEW t \in Seq(Byte), NEW f \in Seq(Byte),
           NEW p \in Nat, Len(t) = Len(s) - 1,
           \A n \in 1 .. Len(t) : t[n] = s[IF n <= p THEN n ELSE n + 1],
           Within(s, f)
    PROVE  Within(t, f)
<1>. DEFINE g == [n \in 1 .. Len(t) |-> IF n <= p THEN n ELSE n + 1]
<1>1. /\ g \in [1 .. Len(t) -> 1 .. Len(s)]
      /\ \A n, k \in 1 .. Len(t) : n < k => g[n] < g[k]
      /\ \A n \in 1 .. Len(t) : t[n] = s[g[n]]
  OBVIOUS
<1>. HIDE DEF g
<1>. QED  BY <1>1, WithinPart

\* The bytes of the stream, by where they are.
LEMMA StreamBytes ==
    ASSUME TypeOK
    PROVE  /\ Stream \in Seq(Byte)
           /\ Len(Stream) = Len(msg) + Len(line) + Len(out)
           /\ msg \in Seq(Byte) /\ line \in Seq(Byte) /\ out \in Seq(Byte)
           /\ Len(msg) \in Nat /\ Len(line) \in Nat /\ Len(out) \in Nat
           /\ \A n \in 1 .. Len(Stream) :
                 Stream[n] = IF n <= Len(msg) THEN msg[n]
                             ELSE IF n <= Len(msg) + Len(line) THEN line[n - Len(msg)]
                             ELSE out[n - Len(msg) - Len(line)]
<1>1. msg \in Seq(Byte) /\ line \in Seq(Byte) /\ out \in Seq(Byte)
  BY DEF TypeOK
<1>. QED  BY ONLY <1>1, InARow DEF Stream

\* What a read takes comes next in the stream.
LEMMA LongerBytes ==
    ASSUME TypeOK, NEW k, Takes(k)
    PROVE  /\ Longer(k) \in Seq(Byte) /\ Len(Longer(k)) = Len(msg) + k
           /\ \A n \in 1 .. Len(msg) + k : Longer(k)[n] = Stream[n]
           /\ k \in Nat /\ k >= 1 /\ k <= toRead /\ k <= Len(line)
           /\ out' = out /\ frame' = frame /\ intact' = intact /\ patient' = patient
<1>1. /\ k \in Nat /\ k >= 1 /\ k <= toRead /\ k <= Len(line)
      /\ UNCHANGED <<patient, sender>>
  BY TakesStep
<1>2. /\ Longer(k) \in Seq(Byte) /\ Len(Longer(k)) = Len(msg) + k
  BY <1>1, LongerLength
<1>. DEFINE part == SubSeq(line, 1, k)
<1>3. part \in Seq(Byte) /\ Len(part) = k /\ \A n \in 1 .. k : part[n] = line[n]
  BY <1>1, StreamBytes, SubSeqProperties
<1>. HIDE DEF part
<1>4. \A n \in 1 .. Len(msg) + k :
         (msg \o part)[n] = IF n <= Len(msg) THEN msg[n] ELSE part[n - Len(msg)]
  <2>1. msg \in Seq(Byte)
    BY DEF TypeOK
  <2>. QED  BY <2>1, <1>3, ConcatProperties
<1>5. ASSUME NEW n \in 1 .. Len(msg) + k PROVE (msg \o part)[n] = Stream[n]
  <2>1. /\ Len(msg) \in Nat /\ Len(line) \in Nat /\ Len(out) \in Nat
        /\ Len(Stream) = Len(msg) + Len(line) + Len(out)
    BY StreamBytes
  <2>2. n \in 1 .. Len(Stream) /\ n <= Len(msg) + Len(line)
    BY <1>1, <2>1
  <2>3. CASE n <= Len(msg)
    BY <1>4, <2>2, <2>3, StreamBytes
  <2>4. CASE ~(n <= Len(msg))
    <3>1. Stream[n] = line[n - Len(msg)]
      BY <2>2, <2>4, StreamBytes
    <3>2. n - Len(msg) \in 1 .. k
      BY <1>1, <2>1, <2>4
    <3>. QED  BY <1>3, <1>4, <2>4, <3>1, <3>2
  <2>. QED  BY <2>3, <2>4
<1>. QED  BY <1>1, <1>2, <1>5 DEF Longer, part, sender

\* A read that goes on moves bytes from the line to the message.
LEMMA StreamStays ==
    ASSUME TypeOK, NEW k, Takes(k), msg' = Longer(k)
    PROVE  Stream' = Stream
<1>1. /\ k \in Nat /\ k >= 1 /\ k <= Len(line) /\ out' = out
  BY LongerBytes
<1>2. msg \in Seq(Byte) /\ line \in Seq(Byte) /\ Len(line) \in Nat
  BY StreamBytes
<1>. DEFINE a == SubSeq(line, 1, k)
            b == SubSeq(line, k + 1, Len(line))
<1>3. a \in Seq(Byte) /\ b \in Seq(Byte)
  BY <1>1, <1>2, SubSeqProperties
<1>4. a \o b = line
  <2>1. 1 \in 1 .. Len(line) + 1 /\ k \in 0 .. Len(line) /\ Len(line) \in k .. Len(line)
    BY <1>1, <1>2
  <2>2. SubSeq(line, 1, k) \o SubSeq(line, k + 1, Len(line)) = SubSeq(line, 1, Len(line))
    <3>1. 0 = 1 - 1
      OBVIOUS
    <3>2. k \in 1 - 1 .. Len(line)
      BY <2>1, <3>1
    <3>. QED  BY ONLY <1>2, <2>1, <3>2, ConcatAdjacentSubSeq
  <2>. QED  BY <1>2, <2>2, SubSeqFull
<1>5. msg' = msg \o a /\ line' = b
  BY DEF Longer, Takes
<1>. HIDE DEF a, b
<1>6. (msg \o a) \o b = msg \o (a \o b)
  BY <1>2, <1>3, ConcatAssociative
<1>. QED  BY <1>1, <1>4, <1>5, <1>6 DEF Stream

\* A call that returns drops the message from the stream.
LEMMA StreamDrops ==
    ASSUME TypeOK, NEW k, Takes(k), msg' = <<>>
    PROVE  /\ Stream' \in Seq(Byte)
           /\ Len(Stream') = Len(line) - k + Len(out)
           /\ \A n \in 1 .. Len(Stream') : Stream'[n] = Stream[Len(msg) + k + n]
<1>1. /\ k \in Nat /\ k >= 1 /\ k <= Len(line) /\ out' = out
  BY LongerBytes
<1>2. /\ msg \in Seq(Byte) /\ line \in Seq(Byte) /\ out \in Seq(Byte)
      /\ Len(msg) \in Nat /\ Len(line) \in Nat /\ Len(out) \in Nat
  BY StreamBytes
<1>. DEFINE b == SubSeq(line, k + 1, Len(line))
            e == <<>>
<1>3. /\ b \in Seq(Byte) /\ Len(b) = Len(line) - k
      /\ \A n \in 1 .. Len(b) : b[n] = line[k + n]
  BY <1>1, <1>2, SubSeqProperties
<1>4. Stream' = (e \o b) \o out
  BY <1>1 DEF Stream, Takes
<1>5. e \in Seq(Byte) /\ Len(e) = 0
  OBVIOUS
<1>. HIDE DEF b, e
<1>6. /\ (e \o b) \o out \in Seq(Byte)
      /\ Len((e \o b) \o out) = Len(b) + Len(out)
      /\ \A n \in 1 .. Len(b) + Len(out) :
            ((e \o b) \o out)[n] = IF n <= Len(b) THEN b[n] ELSE out[n - Len(b)]
  <2>1. /\ (e \o b) \o out \in Seq(Byte)
        /\ Len((e \o b) \o out) = Len(e) + Len(b) + Len(out)
        /\ \A n \in 1 .. Len(e) + Len(b) + Len(out) :
              ((e \o b) \o out)[n] =
                  IF n <= Len(e) THEN e[n]
                  ELSE IF n <= Len(e) + Len(b) THEN b[n - Len(e)]
                  ELSE out[n - Len(e) - Len(b)]
    BY ONLY <1>2, <1>3, <1>5, InARow
  <2>2. \A n \in 1 .. Len(b) + Len(out) : ~(n <= 0) /\ n - 0 = n /\ 0 + Len(b) = Len(b)
                                          /\ n - 0 - Len(b) = n - Len(b)
    BY <1>1, <1>2, <1>3
  <2>. QED  BY <1>1, <1>2, <1>3, <1>5, <2>1, <2>2
<1>7. ASSUME NEW n \in 1 .. Len(b) + Len(out)
      PROVE  Stream'[n] = Stream[Len(msg) + k + n]
  <2>. DEFINE j == Len(msg) + k + n
  <2>1. /\ j \in 1 .. Len(Stream) /\ ~(j <= Len(msg))
        /\ n <= Len(b) <=> j <= Len(msg) + Len(line)
        /\ j - Len(msg) = k + n
        /\ j - Len(msg) - Len(line) = n - Len(b)
    BY <1>1, <1>2, <1>3, StreamBytes
  <2>. HIDE DEF j
  <2>2. Stream[j] = IF n <= Len(b) THEN line[k + n] ELSE out[n - Len(b)]
    BY <2>1, StreamBytes
  <2>3. n <= Len(b) => n \in 1 .. Len(b)
    BY <1>1, <1>2, <1>3
  <2>. QED  BY <1>3, <1>4, <1>6, <2>2, <2>3 DEF j
<1>. QED  BY <1>3, <1>4, <1>6, <1>7

\* A byte that arrives moves from the master to the line.
LEMMA StreamArrives ==
    ASSUME TypeOK, out # <<>>, msg' = msg, line' = Append(line, Head(out)),
           out' = Tail(out)
    PROVE  Stream' = Stream
<1>1. /\ msg \in Seq(Byte) /\ line \in Seq(Byte) /\ out \in Seq(Byte)
  BY StreamBytes
<1>2. Head(out) \in Byte /\ Tail(out) \in Seq(Byte)
  BY <1>1, HeadTailProperties
<1>. DEFINE one == <<Head(out)>>
<1>3. one \in Seq(Byte) /\ Append(line, Head(out)) = line \o one
  BY <1>1, <1>2, AppendIsConcat
<1>4. out = one \o Tail(out)
  <2>1. Len(out) \in Nat \ {0}
    BY <1>1
  <2>2. SubSeq(out, 1, Len(out)) = <<out[1]>> \o SubSeq(out, 2, Len(out))
    BY <1>1, <2>1, SubSeqRecursiveFirst
  <2>3. Head(out) = out[1]
    BY <1>1
  <2>. QED  BY <1>1, <2>2, <2>3, SubSeqFull, TailIsSubSeq
<1>. HIDE DEF one
<1>5. (msg \o (line \o one)) \o Tail(out) = (msg \o line) \o (one \o Tail(out))
  <2>1. msg \o (line \o one) = (msg \o line) \o one
    BY ONLY <1>1, <1>3, ConcatAssociative, SMTT(30)
  <2>2. msg \o line \in Seq(Byte)
    BY <1>1, ConcatProperties
  <2>3. ((msg \o line) \o one) \o Tail(out) = (msg \o line) \o (one \o Tail(out))
    <3>. DEFINE ml == msg \o line
                tl == Tail(out)
    <3>1. ml \in Seq(Byte) /\ one \in Seq(Byte) /\ tl \in Seq(Byte)
      BY <1>2, <1>3, <2>2
    <3>. HIDE DEF ml, tl
    <3>2. (ml \o one) \o tl = ml \o (one \o tl)
      BY ONLY <3>1, ConcatAssociative
    <3>. QED  BY <3>2 DEF ml, tl
  <2>. QED  BY <2>1, <2>3
<1>. QED  BY <1>3, <1>4, <1>5 DEF Stream

\* A byte that is lost is taken out of the stream.
LEMMA StreamLoses ==
    ASSUME TypeOK, out # <<>>, msg' = msg, line' = line, out' = Tail(out)
    PROVE  /\ Stream' \in Seq(Byte) /\ Len(Stream') = Len(Stream) - 1
           /\ Len(Stream) \in Nat /\ Len(msg) + Len(line) \in Nat
           /\ \A n \in 1 .. Len(Stream') :
                 Stream'[n] = Stream[IF n <= Len(msg) + Len(line) THEN n ELSE n + 1]
<1>. DEFINE t == Tail(out)
            p == Len(msg) + Len(line)
<1>1. /\ msg \in Seq(Byte) /\ line \in Seq(Byte) /\ out \in Seq(Byte)
      /\ Len(msg) \in Nat /\ Len(line) \in Nat /\ Len(out) \in Nat
      /\ Len(Stream) = p + Len(out)
  BY StreamBytes
<1>2. t \in Seq(Byte) /\ Len(t) = Len(out) - 1 /\ \A n \in 1 .. Len(t) : t[n] = out[n + 1]
  BY <1>1, HeadTailProperties
<1>3. Stream' = (msg \o line) \o t
  BY DEF Stream
<1>. HIDE DEF t
<1>4. /\ (msg \o line) \o t \in Seq(Byte)
      /\ Len((msg \o line) \o t) = p + Len(t)
      /\ \A n \in 1 .. p + Len(t) :
            ((msg \o line) \o t)[n] = IF n <= Len(msg) THEN msg[n]
                                      ELSE IF n <= p THEN line[n - Len(msg)]
                                      ELSE t[n - Len(msg) - Len(line)]
  BY ONLY <1>1, <1>2, InARow
<1>5. ASSUME NEW n \in 1 .. p + Len(t)
      PROVE  Stream'[n] = Stream[IF n <= p THEN n ELSE n + 1]
  <2>1. CASE n <= p
    <3>1. n \in 1 .. Len(Stream)
      BY <1>1, <2>1
    <3>. QED  BY <1>3, <1>4, <2>1, <3>1, StreamBytes
  <2>2. CASE ~(n <= p)
    <3>1. /\ n + 1 \in 1 .. Len(Stream) /\ ~(n <= Len(msg))
          /\ ~(n + 1 <= Len(msg)) /\ ~(n + 1 <= p)
          /\ n - Len(msg) - Len(line) \in 1 .. Len(t)
          /\ n + 1 - Len(msg) - Len(line) = n - Len(msg) - Len(line) + 1
      BY <1>1, <1>2, <2>2
    <3>2. Stream[n + 1] = out[n + 1 - Len(msg) - Len(line)]
      BY <3>1, StreamBytes
    <3>3. Stream'[n] = t[n - Len(msg) - Len(line)]
      BY <1>3, <1>4, <2>2, <3>1
    <3>. QED  BY <1>2, <2>2, <3>1, <3>2, <3>3
  <2>. QED  BY <2>1, <2>2
<1>6. p + Len(t) = Len(Stream) - 1 /\ p \in Nat /\ Len(Stream) \in Nat
  BY <1>1, <1>2
<1>. QED  BY <1>3, <1>4, <1>5, <1>6

\* The length that is read is the length of the frame: the message begins as
\* the frame does.
LEMMA Announced ==
    ASSUME Inv, Whole, NEW k, Takes(k), k = toRead, MetaComplete(Longer(k))
    PROVE  Len(Longer(k)) + compute_data_length_after_meta(Longer(k)) = Len(frame)
<1>. DEFINE m == Longer(k)
            meta == compute_meta_length_after_function(frame[2])
<1>0. TypeOK /\ StepInv /\ Stream = frame /\ frame \in Frames
  BY DEF Inv, Whole
<1>1. /\ m \in Seq(Byte) /\ Len(m) = Len(msg) + toRead /\ Len(m) >= 2
      /\ \A n \in 1 .. Len(m) : m[n] = frame[n]
      /\ Len(m) \in Nat /\ Len(msg) \in Nat
      /\ Len(m) <= Len(frame) /\ Len(frame) \in Nat
  <2>1. Len(m) >= 2
    BY DataLength
  <2>2. /\ m \in Seq(Byte) /\ Len(m) = Len(msg) + k
        /\ \A n \in 1 .. Len(msg) + k : m[n] = Stream[n]
        /\ k \in Nat /\ k <= Len(line)
    BY <1>0, LongerBytes
  <2>3. /\ Len(msg) \in Nat /\ Len(line) \in Nat /\ Len(out) \in Nat
        /\ Len(Stream) = Len(msg) + Len(line) + Len(out)
    BY <1>0, StreamBytes
  <2>. HIDE DEF m
  <2>. QED  BY <1>0, <2>1, <2>2, <2>3
<1>. HIDE DEF m
<1>2. m[2] = frame[2] /\ frame[2] \in Byte
  BY <1>1, SecondByte
<1>3. /\ Len(frame) >= 2 + meta
      /\ Len(frame) = 2 + meta + compute_data_length_after_meta(frame)
  BY <1>0, LengthAssumption
<1>4. Len(m) = 2 + meta
  <2>1. CASE step = "meta"
    <3>1. /\ Len(msg) >= 2
          /\ Len(msg) + toRead = 2 + compute_meta_length_after_function(msg[2])
      BY <1>0, <2>1 DEF StepInv
    <3>2. msg[2] = Stream[2]
      <4>1. 2 \in 1 .. Len(Stream) /\ 2 <= Len(msg)
        BY <1>0, <1>1, <3>1
      <4>. QED  BY <1>0, <4>1, StreamBytes
    <3>. QED  BY <1>0, <1>1, <3>1, <3>2
  <2>2. CASE step = "function" /\ compute_meta_length_after_function(m[2]) = 0
    <3>1. Len(msg) + toRead = 2
      BY <1>0, <2>2 DEF StepInv
    <3>. QED  BY <1>1, <1>2, <2>2, <3>1
  <2>. QED  BY <2>1, <2>2 DEF MetaComplete, m
<1>5. compute_data_length_after_meta(m) = compute_data_length_after_meta(frame)
  <2>1. CASE m[2] \in {15, 16}
    <3>1. Len(m) = 7
      BY <1>2, <1>4, <2>1, MetaLength
    <3>2. m[7] = frame[7]
      <4>1. 7 \in 1 .. Len(m)
        BY <3>1
      <4>. QED  BY ONLY <1>1, <4>1
    <3>. QED  BY <1>2, <2>1, <3>2 DEF compute_data_length_after_meta
  <2>2. CASE m[2] = 23
    <3>1. Len(m) = 11
      BY <1>2, <1>4, <2>2, MetaLength
    <3>2. m[11] = frame[11]
      <4>1. 11 \in 1 .. Len(m)
        BY <3>1
      <4>. QED  BY ONLY <1>1, <4>1
    <3>. QED  BY <1>2, <2>2, <3>2 DEF compute_data_length_after_meta
  <2>3. CASE m[2] \notin {15, 16, 23}
    BY <1>2, <2>3 DEF compute_data_length_after_meta
  <2>. QED  BY <2>1, <2>2, <2>3
<1>. QED  BY <1>3, <1>4, <1>5 DEF m

\* The receiver does not ask for more than there is of a frame.
LEMMA WholeRoom ==
    ASSUME Inv, Whole
    PROVE  Len(msg) + toRead <= Len(frame)
<1>0. TypeOK /\ StepInv /\ Stream = frame /\ frame \in Frames
  BY DEF Inv, Whole
<1>1. /\ Len(frame) >= 2 /\ Len(frame) \in Nat
      /\ Len(frame) >= 2 + compute_meta_length_after_function(frame[2])
  BY <1>0, LengthAssumption, FrameAssumption
<1>2. CASE step = "function"
  BY <1>0, <1>1, <1>2 DEF StepInv
<1>3. CASE step = "meta"
  <2>1. /\ Len(msg) >= 2
        /\ Len(msg) + toRead = 2 + compute_meta_length_after_function(msg[2])
    BY <1>0, <1>3 DEF StepInv
  <2>2. msg[2] = Stream[2]
    <3>1. 2 \in 1 .. Len(Stream) /\ 2 <= Len(msg)
      BY <1>0, <1>1, <2>1
    <3>. QED  BY <1>0, <3>1, StreamBytes
  <2>. QED  BY <1>0, <1>1, <2>1, <2>2
<1>4. CASE step = "data"
  BY <1>1, <1>4 DEF Whole
<1>. QED  BY <1>0, <1>2, <1>3, <1>4 DEF TypeOK

\* Reading on: the stream stays, and the data begin where the length says.
LEMMA PatientReads ==
    ASSUME Inv, PatientInv, NEW k, ReadSome(k) \/ ReadFunction(k) \/ ReadMeta(k)
    PROVE  PatientInv'
<1>. DEFINE m == Longer(k)
<1>0. TypeOK /\ Takes(k) /\ msg' = m /\ owed' = owed
  BY DEF Inv, ReadSome, ReadFunction, ReadMeta
<1>1. /\ m \in Seq(Byte) /\ Len(m) = Len(msg) + k
      /\ k \in Nat /\ k >= 1 /\ k <= toRead /\ k <= Len(line)
      /\ out' = out /\ frame' = frame /\ intact' = intact /\ patient' = patient
      /\ Len(msg) \in Nat /\ Len(line) \in Nat /\ toRead \in Nat
      /\ Len(Stream) = Len(msg) + Len(line) + Len(out) /\ Len(out) \in Nat
  BY <1>0, LongerBytes, StreamBytes DEF TypeOK
<1>2. Stream' = Stream /\ Stream # <<>>
  <2>1. Stream # <<>>
    BY <1>1
  <2>. QED  BY <1>0, <2>1, StreamStays
<1>3. /\ toRead' >= 1
      /\ step' # "function" => Len(m) >= 2
  <2>1. CASE ReadSome(k)
    BY <1>1, <2>1 DEF ReadSome, PatientInv
  <2>2. CASE ReadFunction(k)
    <3>1. Len(m) = 2
      BY <1>1, <2>2 DEF ReadFunction, Inv, StepInv
    <3>2. m[2] \in Byte
      <4>. HIDE DEF m
      <4>1. Len(m) >= 2
        BY ONLY <3>1
      <4>. QED  BY ONLY <1>1, <4>1, SecondByte
    <3>. QED  BY <2>2, <3>1, <3>2, MetaLength DEF ReadFunction
  <2>3. CASE ReadMeta(k)
    BY <1>0, <2>3, DataLength DEF ReadMeta
  <2>. QED  BY <2>1, <2>2, <2>3
<1>4. msg' # <<>>
  BY <1>0, <1>1
<1>5. ASSUME Whole PROVE Whole'
  <2>1. step' = "data" => Len(m) + toRead' = Len(frame)
    <3>1. CASE ReadSome(k)
      BY <1>1, <1>5, <3>1 DEF ReadSome, Whole
    <3>2. CASE ReadFunction(k)
      BY <3>2 DEF ReadFunction
    <3>3. CASE ReadMeta(k)
      BY <1>0, <1>5, <3>3, Announced DEF ReadMeta
    <3>. QED  BY <3>1, <3>2, <3>3
  <2>. QED  BY <1>0, <1>1, <1>2, <1>5, <2>1 DEF Whole
<1>6. ASSUME Damaged PROVE Damaged'
  BY <1>0, <1>1, <1>2, <1>6 DEF Damaged
<1>7. ~Between
  BY <1>2 DEF Between
<1>. QED  BY <1>0, <1>1, <1>3, <1>4, <1>5, <1>6, <1>7 DEF PatientInv

\* A call returns: with the frame when it is whole, and never with a part of a
\* damaged one.
LEMMA PatientReturns ==
    ASSUME Inv, PatientInv, NEW k, TooMany(k) \/ ReadData(k)
    PROVE  PatientInv'
<1>. DEFINE m == Longer(k)
<1>0. TypeOK /\ Takes(k) /\ k = toRead /\ Fresh
  BY DEF Inv, TooMany, ReadData
<1>1. /\ m \in Seq(Byte) /\ Len(m) = Len(msg) + k
      /\ \A n \in 1 .. Len(m) : m[n] = Stream[n]
      /\ k \in Nat /\ k >= 1 /\ k <= Len(line)
      /\ out' = out /\ frame' = frame /\ intact' = intact /\ patient' = patient
  BY <1>0, LongerBytes
<1>2. /\ Stream \in Seq(Byte) /\ Len(Stream) = Len(msg) + Len(line) + Len(out)
      /\ Len(msg) \in Nat /\ Len(line) \in Nat /\ Len(out) \in Nat
      /\ out \in Seq(Byte)
  BY <1>0, StreamBytes
<1>3. /\ Stream' \in Seq(Byte) /\ Len(Stream') = Len(line) - k + Len(out)
      /\ \A n \in 1 .. Len(Stream') : Stream'[n] = Stream[Len(m) + n]
  BY <1>0, <1>1, StreamDrops DEF Fresh
<1>. HIDE DEF m
<1>4. ASSUME Whole PROVE Between'
  <2>0. frame \in Frames /\ Stream = frame /\ Len(frame) \in Nat /\ frame \in Seq(Byte)
    BY <1>4, FrameAssumption DEF Whole
  <2>1. ReadData(k)
    <3>. SUFFICES ASSUME TooMany(k) PROVE FALSE
      OBVIOUS
    <3>1. Len(m) + compute_data_length_after_meta(m) = Len(frame)
      BY <1>0, <1>4, Announced DEF TooMany, m
    <3>2. Len(frame) <= MaxAdu
      BY <2>0, LengthAssumption
    <3>. QED  BY <2>0, <3>1, <3>2, AduAssumption DEF TooMany, m
  <2>2. Len(m) = Len(frame)
    BY <1>0, <1>1, <1>4, <2>1 DEF ReadData, Whole
  <2>3. m = frame
    BY <1>1, <2>0, <2>2, SeqEqual
  <2>4. Len(Stream') = 0 /\ Len(out) = 0
    BY <1>1, <1>2, <1>3, <2>0, <2>2
  <2>5. Stream' = <<>> /\ out = <<>>
    BY <1>2, <1>3, <2>4
  <2>6. owed' = [owed EXCEPT ![frame] = @ - 1]
    BY <2>0, <2>1, <2>3 DEF ReadData, m
  <2>7. \A f \in Frames : owed[f] = IF f = frame THEN 1 ELSE 0
    BY <1>4, <2>5 DEF Whole
  <2>8. \A f \in Frames : owed'[f] = 0
    BY <1>0, <2>0, <2>6, <2>7 DEF TypeOK
  <2>. QED  BY <1>0, <2>5, <2>8 DEF Between, Fresh
<1>5. ASSUME Damaged PROVE Damaged'
  <2>0. /\ frame \in Frames /\ frame \in Seq(Byte) /\ Len(frame) \in Nat
        /\ Within(Stream, frame) /\ Len(Stream) < Len(frame)
    BY <1>5, FrameAssumption DEF Damaged
  <2>1. m \notin Frames
    <3>1. Within(m, frame)
      <4>1. /\ 0 \in Nat /\ 0 + Len(m) <= Len(Stream)
            /\ \A n \in 1 .. Len(m) : m[n] = Stream[0 + n]
        BY <1>1, <1>2
      <4>. QED  BY ONLY <1>1, <1>2, <2>0, <4>1, WithinStretch
    <3>2. Len(m) < Len(frame)
      BY <1>1, <1>2, <2>0
    <3>. QED  BY <2>0, <3>1, <3>2, NoFrameWithin
  <2>2. owed' = owed
    BY <2>1 DEF TooMany, ReadData, m
  <2>3. Within(Stream', frame)
    <3>1. Len(m) \in Nat /\ Len(m) + Len(Stream') <= Len(Stream)
      BY <1>1, <1>2, <1>3
    <3>. QED  BY ONLY <1>2, <1>3, <2>0, <3>1, WithinStretch
  <2>4. Len(Stream') < Len(frame)
    BY <1>1, <1>2, <1>3, <2>0
  <2>. QED  BY <1>1, <1>5, <2>0, <2>2, <2>3, <2>4 DEF Damaged
<1>6. ~Between
  <2>1. Len(Stream) # 0
    BY <1>1, <1>2
  <2>. QED  BY <2>1 DEF Between
<1>. QED  BY <1>0, <1>1, <1>4, <1>5, <1>6 DEF PatientInv, Fresh

\* A patient master lets the receiver forget only what is left of a damaged
\* frame: a whole one is returned before the line is silent.
LEMMA PatientTimesOut ==
    ASSUME Inv, PatientInv, TimeOut
    PROVE  PatientInv'
<1>0. /\ TypeOK /\ Fresh /\ line = <<>> /\ msg # <<>> /\ toRead >= 1
      /\ UNCHANGED <<patient, line, out, frame, intact, owed>>
      /\ patient => out = <<>>
  BY DEF Inv, TimeOut, PatientInv, sender
<1>1. /\ Stream \in Seq(Byte) /\ Len(Stream) = Len(msg) + Len(line) + Len(out)
      /\ Len(msg) \in Nat /\ msg \in Seq(Byte) /\ toRead \in Nat
  BY <1>0, StreamBytes DEF TypeOK
<1>. SUFFICES ASSUME patient PROVE PatientInv'
  BY <1>0 DEF PatientInv, Fresh
<1>2. Len(Stream) = Len(msg) /\ Len(msg) # 0
  BY <1>0, <1>1
<1>3. ~Whole
  BY <1>0, <1>1, <1>2, WholeRoom DEF Whole
<1>4. ~Between
  BY <1>2 DEF Between
<1>5. Stream' = <<>>
  BY <1>0 DEF Stream, Fresh
<1>6. ~intact /\ Damaged
  BY <1>3, <1>4 DEF PatientInv
<1>7. Damaged'
  <2>1. /\ frame \in Frames /\ frame \in Seq(Byte) /\ Len(frame) \in Nat
        /\ Within(Stream, frame) /\ Len(Stream) < Len(frame)
    BY <1>6, FrameAssumption DEF Damaged
  <2>. DEFINE t == <<>>
  <2>2. /\ t \in Seq(Byte) /\ 0 \in Nat /\ 0 + Len(t) <= Len(Stream)
        /\ \A n \in 1 .. Len(t) : t[n] = Stream[0 + n]
    BY <1>1, <2>1
  <2>3. Len(t) < Len(frame)
    BY <1>1, <2>1
  <2>. HIDE DEF t
  <2>4. Within(t, frame)
    BY ONLY <1>1, <2>1, <2>2, WithinStretch
  <2>. QED  BY <1>0, <1>5, <1>6, <2>1, <2>3, <2>4 DEF Damaged, t
<1>. QED  BY <1>0, <1>6, <1>7 DEF PatientInv, Fresh

\* A frame begins when nothing is under way: what was left of the last one is
\* gone.
LEMMA PatientSends ==
    ASSUME Inv, PatientInv, NEW f \in Frames, Send(f)
    PROVE  PatientInv'
<1>0. /\ TypeOK /\ out = <<>> /\ out' = f /\ frame' = f /\ intact' = TRUE
      /\ UNCHANGED <<patient, msg, step, toRead, line, owed>>
  BY DEF Inv, Send, receiver
<1>. SUFFICES ASSUME patient PROVE PatientInv'
  BY <1>0 DEF PatientInv
<1>1. line = <<>> /\ msg = <<>> /\ step = "function"
  BY DEF Send, Quiet, PatientInv
<1>2. f \in Seq(Byte) /\ Len(f) >= 2 /\ f # <<>>
  <2>1. f \in Seq(Byte) /\ Len(f) >= 2
    BY FrameAssumption, LengthAssumption
  <2>. QED  BY <2>1
<1>3. Stream = <<>>
  BY <1>0, <1>1 DEF Stream
<1>4. \A g \in Frames : owed[g] = 0
  <2>1. ~Whole
    <3>. SUFFICES ASSUME Whole PROVE FALSE
      OBVIOUS
    <3>1. frame \in Frames /\ frame = <<>>
      BY <1>3 DEF Whole
    <3>2. Len(frame) >= 2
      BY <3>1, LengthAssumption
    <3>. QED  BY <3>1, <3>2
  <2>. QED  BY <2>1 DEF PatientInv, Between, Damaged
<1>5. Stream' = f
  <2>. DEFINE e == <<>>
  <2>1. Stream' = (e \o e) \o f
    BY <1>0, <1>1 DEF Stream
  <2>. QED  BY <1>2, <2>1
<1>6. Whole'
  BY <1>0, <1>1, <1>2, <1>4, <1>5 DEF Whole
<1>. QED  BY <1>0, <1>6 DEF PatientInv

\* A byte arrives: the stream stays, and the last one makes a whole frame due.
LEMMA PatientTransmits ==
    ASSUME Inv, PatientInv, Transmit
    PROVE  PatientInv'
<1>0. /\ TypeOK /\ out # <<>> /\ line' = Append(line, Head(out)) /\ out' = Tail(out)
      /\ intact' = intact
      /\ UNCHANGED <<patient, msg, step, toRead, frame>>
      /\ owed' = IF intact /\ Len(out) = 1
                 THEN [owed EXCEPT ![frame] = @ + 1] ELSE owed
  BY DEF Inv, Transmit, Sent, receiver
<1>1. Stream' = Stream
  BY <1>0, StreamArrives
<1>2. out \in Seq(Byte) /\ Len(Tail(out)) = Len(out) - 1 /\ Len(out) \in Nat
      /\ Tail(out) \in Seq(Byte)
  BY <1>0 DEF TypeOK
<1>3. out' = <<>> <=> Len(out) = 1
  BY <1>0, <1>2
<1>4. ~Between
  <2>1. Len(Stream) # 0
    <3>1. Len(out) # 0
      BY <1>0, <1>2
    <3>. QED  BY <1>0, <3>1, StreamBytes
  <2>. QED  BY <2>1 DEF Between
<1>5. ASSUME intact, Whole PROVE Whole'
  <2>1. \A f \in Frames : owed[f] = 0
    BY <1>0, <1>5 DEF Whole
  <2>2. owed \in [Frames -> Int] /\ frame \in Frames
    BY <1>0, <1>5 DEF TypeOK, Whole
  <2>3. \A f \in Frames : owed'[f] = IF f = frame /\ out' = <<>> THEN 1 ELSE 0
    BY <1>0, <1>3, <1>5, <2>1, <2>2
  <2>. QED  BY <1>0, <1>1, <1>5, <2>3 DEF Whole
<1>6. ASSUME ~intact, Damaged PROVE Damaged'
  BY <1>0, <1>1, <1>6 DEF Damaged
<1>. QED  BY <1>0, <1>4, <1>5, <1>6 DEF PatientInv

\* A byte is lost: what is left is within the frame, and nothing is due.
LEMMA PatientLoses ==
    ASSUME Inv, PatientInv, Lose
    PROVE  PatientInv'
<1>0. /\ TypeOK /\ out # <<>> /\ line' = line /\ out' = Tail(out)
      /\ intact' = FALSE /\ owed' = owed
      /\ UNCHANGED <<patient, msg, step, toRead, frame>>
  BY DEF Inv, Lose, Sent, receiver
<1>. SUFFICES ASSUME patient PROVE PatientInv'
  BY <1>0 DEF PatientInv
<1>1. /\ Stream \in Seq(Byte) /\ Stream' \in Seq(Byte)
      /\ Len(Stream') = Len(Stream) - 1
      /\ Len(Stream) \in Nat /\ Len(msg) + Len(line) \in Nat
      /\ \A n \in 1 .. Len(Stream') :
            Stream'[n] = Stream[IF n <= Len(msg) + Len(line) THEN n ELSE n + 1]
  BY <1>0, StreamBytes, StreamLoses
<1>2. ~Between
  <2>1. Len(Stream) # 0
    <3>1. out \in Seq(Byte) /\ Len(out) # 0
      BY <1>0 DEF TypeOK
    <3>. QED  BY <1>0, <3>1, StreamBytes
  <2>. QED  BY <2>1 DEF Between
<1>3. /\ frame \in Frames /\ frame \in Seq(Byte) /\ Len(frame) \in Nat
      /\ Within(Stream, frame) /\ Len(Stream) <= Len(frame)
      /\ \A f \in Frames : owed[f] = 0
  <2>1. CASE Whole
    <3>1. frame \in Frames /\ Stream = frame /\ \A f \in Frames : owed[f] = 0
      BY <1>0, <2>1 DEF Whole
    <3>. QED  BY <1>1, <3>1, WithinItself
  <2>2. CASE Damaged
    <3>1. frame \in Seq(Byte)
      BY <2>2, FrameAssumption DEF Damaged
    <3>2. Len(frame) \in Nat
      BY <3>1
    <3>. QED  BY <1>1, <2>2, <3>1, <3>2 DEF Damaged
  <2>. QED  BY <1>2, <2>1, <2>2 DEF PatientInv
<1>4. Within(Stream', frame)
  BY ONLY <1>1, <1>3, WithinLess
<1>5. Len(Stream') < Len(frame)
  BY <1>1, <1>3
<1>6. Damaged'
  BY <1>0, <1>3, <1>4, <1>5 DEF Damaged
<1>. QED  BY <1>0, <1>6 DEF PatientInv

\* With patient masters a frame that lost no byte is returned, once, before
\* the line falls silent, and a damaged one neither is returned nor costs
\* another: where the receiver loses its place it finds it in the silence.
THEOREM WholeFramesArrive == Spec => []OthersArrive
<1>1. Init => PatientInv
  <2>. SUFFICES ASSUME Init PROVE PatientInv
    OBVIOUS
  <2>1. Stream = <<>>
    BY DEF Init, Stream
  <2>2. Between /\ intact
    BY <2>1 DEF Init, Between
  <2>. QED  BY <2>2 DEF Init, PatientInv
<1>2. Inv /\ PatientInv /\ [Next]_vars => PatientInv'
  <2>. SUFFICES ASSUME Inv, PatientInv, [Next]_vars PROVE PatientInv'
    OBVIOUS
  <2>1. CASE Receive
    BY <2>1, PatientReads, PatientReturns DEF Receive
  <2>2. CASE TimeOut
    BY <2>2, PatientTimesOut
  <2>3. CASE Transmit
    BY <2>3, PatientTransmits
  <2>4. CASE Lose
    BY <2>4, PatientLoses
  <2>5. CASE \E f \in Frames : Send(f)
    BY <2>5, PatientSends
  <2>6. CASE UNCHANGED vars
    BY <2>6 DEF vars, receiver, sender, PatientInv, Between, Whole, Damaged, Stream
  <2>. QED  BY <2>1, <2>2, <2>3, <2>4, <2>5, <2>6 DEF Next
<1>3. PatientInv => OthersArrive
  <2>. SUFFICES ASSUME PatientInv, patient, Quiet, msg = <<>>
                PROVE  \A f \in Frames : owed[f] = 0
    BY DEF OthersArrive
  <2>1. Stream = <<>>
    BY DEF Quiet, Stream
  <2>2. ~Whole
    <3>. SUFFICES ASSUME Whole PROVE FALSE
      OBVIOUS
    <3>1. frame \in Frames /\ frame = <<>>
      BY <2>1 DEF Whole
    <3>2. Len(frame) >= 2
      BY <3>1, LengthAssumption
    <3>. QED  BY <3>1, <3>2
  <2>. QED  BY <2>2 DEF PatientInv, Between, Damaged
<1>. QED  BY <1>1, <1>2, <1>3, ReceiverInvariant, PTL DEF Spec

=============================================================================
