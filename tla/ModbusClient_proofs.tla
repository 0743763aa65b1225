------------------------ MODULE ModbusClient_proofs ------------------------
(***************************************************************************)
(* Proofs about ModbusClient: which answers a call may be confirmed by,    *)
(* that reads are true and writes are done as long as no call has failed,  *)
(* for any calls, tables, recovery and frames underway.                    *)
(*                                                                         *)
(* What a call returns depends on what is on the line when it begins.  The *)
(* inductive invariant says of each frame underway whose it is: the        *)
(* current call's, of which there is one at most; or that of an earlier    *)
(* call, which has failed or taken the answer of one that had.             *)
(***************************************************************************)
EXTENDS ModbusClient, SequenceTheorems, TLAPS

-----------------------------------------------------------------------------
(* The invariant. *)

\* The answers of the server to the calls of the program.
Replies == {modbus_reply(t, q).rsp : t \in Tables, q \in Calls}

RequestFrames == [of : Calls, own : BOOLEAN]
AnswerFrames  == [of : Replies \cup {Bad}, own : BOOLEAN]

\* r is an answer to q: a refusal, or one with the count and values q asks for.
Answers(r, q) ==
    \/ r.fn = q.fn + 128
    \/ /\ r.fn = q.fn /\ Verdict(q) = "ok" /\ Given(r) = Asked(q)
       /\ q.fn \in Reads => r.values = [k \in 1 .. q.nb |-> r.values[k]]

\* What is true once the server has accepted the current call c: the values of
\* a read were in the cells; a write is in the tables, if no call has failed.
Done(r, c, F, S, t) ==
    r.fn = c.fn => /\ c.fn \in Reads => r.values \in S
                   /\ c.fn \in Writes /\ F = {} => Written(t, c) = t

\* A frame underway is the call's own, or of a call that looks like one that
\* has failed.
SoundRequest(f, c, F) ==
    IF f.own THEN f.of = c ELSE \E p \in F : SameShape(p, f.of)

SoundAnswer(f, c, F, S, t) ==
    f.of # Bad =>
        IF f.own THEN c \in Calls /\ Answers(f.of, c) /\ Done(f.of, c, F, S, t)
        ELSE \E q \in Calls : /\ Answers(f.of, q)
                              /\ \E p \in F : SameShape(p, q)

SoundRequests(s, c, F) == \A k \in 1 .. Len(s) : SoundRequest(s[k], c, F)

SoundAnswers(s, c, F, S, t) ==
    \A k \in 1 .. Len(s) : SoundAnswer(s[k], c, F, S, t)

SoundLine == /\ SoundRequests(requests, call, failures)
             /\ SoundAnswers(answers, call, failures, seen, tab)
             /\ SoundAnswers(input, call, failures, seen, tab)

NoOwn(s)     == \A k \in 1 .. Len(s) : ~s[k].own
AtMostOne(s) == \A j, k \in 1 .. Len(s) : s[j].own /\ s[k].own => j = k

NoneUnderway == NoOwn(requests) /\ NoOwn(answers) /\ NoOwn(input)

\* One frame of the call is underway at most.
Apart ==
    /\ AtMostOne(requests) /\ AtMostOne(answers) /\ AtMostOne(input)
    /\ NoOwn(requests) \/ (NoOwn(answers) /\ NoOwn(input))
    /\ NoOwn(answers) \/ NoOwn(input)

\* None is before it has been sent, and none after its answer was taken, which
\* ends the call.
OneUnderway ==
    /\ Apart
    /\ cpc \in {"send", "resend"} \/ own => NoneUnderway
    /\ own => cpc \in {"idle", "pause"}

\* A call that has ended leaves a frame underway only if one of its shape failed.
EndInv ==
    cpc \in {"idle", "pause"} =>
        NoneUnderway \/ \E p \in failures : SameShape(p, call)

LineOK ==
    /\ requests \in Seq(RequestFrames)
    /\ answers \in Seq(AnswerFrames) /\ input \in Seq(AnswerFrames)
    /\ cpc \in {"send", "resend"} =>
          Len(requests) + Len(answers) + Len(input) < MaxFlight

RetInv == cpc # "idle" => ret = Failed

IInv == /\ TypeOK /\ LineOK /\ SoundLine /\ OneUnderway /\ EndInv /\ RetInv
        /\ OnlyLateTwins /\ ReadsAreTrue /\ WritesAreDone

-----------------------------------------------------------------------------
(* Requests and answers. *)

\* The calls of the program, by their fields.
LEMMA CallFields ==
    ASSUME NEW q \in Calls
    PROVE  /\ q \in Request
           /\ q.fn \in {1, 2, 3, 4, 5, 6, 15, 16, 17, 23, 99}
           /\ q.fn \in {1, 2, 3, 4, 5, 6, 15, 16, 23} => q.addr \in Nat
           /\ q.fn \in {1, 2, 3, 4, 15, 16, 23} => q.nb \in Nat
           /\ q.fn = 23 => q.waddr \in Nat
           /\ q.fn = 6 => q.data \in Word
           /\ q.fn = 15 => q.data \in Seq(Bit)
           /\ q.fn \in {16, 23} => q.data \in Seq(Word)
<1>0. q \in Request /\ q.fn # 7
  BY ClientAssumption
<1>1. CASE q \in ReadRequest
  BY <1>0, <1>1 DEF ReadRequest
<1>2. CASE q \in CoilRequest
  BY <1>0, <1>2 DEF CoilRequest
<1>3. CASE q \in RegisterRequest
  BY <1>0, <1>3 DEF RegisterRequest
<1>4. CASE q \in WriteRequest
  BY <1>0, <1>4 DEF WriteRequest
<1>5. CASE q \in ReadWriteRequest
  BY <1>0, <1>5 DEF ReadWriteRequest
<1>6. CASE q \in PlainRequest
  BY <1>0, <1>6 DEF PlainRequest
<1>. QED  BY <1>0, <1>1, <1>2, <1>3, <1>4, <1>5, <1>6 DEF Request

\* What is counted in a call and in its answer is a number.
LEMMA AskedIsNat == ASSUME NEW q \in Calls PROVE Asked(q) \in Nat
<1>1. CASE q.fn \in {1, 2}
  <2>1. Asked(q) = (q.nb \div 8) + (IF q.nb % 8 # 0 THEN 1 ELSE 0)
    BY <1>1 DEF Asked, ByteCount
  <2>. QED  BY <1>1, <2>1, CallFields
<1>2. CASE q.fn \in {3, 4, 15, 16, 23}
  BY <1>2, CallFields DEF Asked
<1>3. CASE q.fn \notin {1, 2, 3, 4, 15, 16, 23}
  BY <1>3 DEF Asked
<1>. QED  BY <1>1, <1>2, <1>3

\* Twice a number of registers, halved: the count in an answer of registers.
LEMMA Halved == ASSUME NEW n \in Nat PROVE (n * 2) \div 2 = n
  OBVIOUS

\* The answer to an accepted call has the count and the values it asks for.
LEMMA AnswerAnswers ==
    ASSUME NEW u, NEW q \in Calls, Verdict(q) = "ok", NEW r, r = Answer(u, q)
    PROVE  /\ r.fn = q.fn /\ Answers(r, q)
           /\ q.fn \in Reads => r.values = Values(u, q)
<1>0. q.fn \in {1, 2, 3, 4, 5, 6, 15, 16, 17, 23}
  BY CallFields DEF Verdict
<1>. DEFINE Read == [fn |-> q.fn, bytes |-> ByteCount(q), values |-> Values(u, q)]
            Echo == [fn |-> q.fn, addr |-> q.addr, nb |-> q.nb]
<1>1. /\ q.fn = 1 => r = Read
      /\ q.fn = 2 => r = Read
      /\ q.fn = 3 => r = Read
      /\ q.fn = 4 => r = Read
      /\ q.fn = 23 => r = Read
  <2>1. ASSUME q.fn = 1 PROVE r = Read
    BY <2>1 DEF Answer
  <2>2. ASSUME q.fn = 2 PROVE r = Read
    BY <2>2 DEF Answer
  <2>3. ASSUME q.fn = 3 PROVE r = Read
    BY <2>3 DEF Answer
  <2>4. ASSUME q.fn = 4 PROVE r = Read
    BY <2>4 DEF Answer
  <2>5. ASSUME q.fn = 23 PROVE r = Read
    BY <2>5 DEF Answer
  <2>. QED  BY <2>1, <2>2, <2>3, <2>4, <2>5
<1>2. CASE q.fn \in Reads
  <2>2. r.fn = q.fn /\ r.bytes = ByteCount(q) /\ r.values = Values(u, q)
    BY <1>1, <1>2 DEF Reads
  <2>3. Given(r) = Asked(q)
    <3>1. CASE q.fn \in {1, 2}
      BY <2>2, <3>1 DEF Given, Asked
    <3>2. CASE q.fn \in {3, 4, 23}
      <4>1. ByteCount(q) = q.nb * 2 /\ q.nb \in Nat
        BY <3>2, CallFields DEF ByteCount
      <4>2. Given(r) = r.bytes \div 2 /\ Asked(q) = q.nb
        BY <2>2, <3>2 DEF Given, Asked
      <4>. QED  BY <2>2, <4>1, <4>2, Halved
    <3>. QED  BY <1>2, <3>1, <3>2 DEF Reads
  <2>4. Values(u, q) = [k \in 1 .. q.nb |-> Values(u, q)[k]]
    BY DEF Values
  <2>. QED  BY <2>2, <2>3, <2>4 DEF Answers
<1>3. CASE q.fn = 5
  <2>1. r = q
    BY <1>3 DEF Answer
  <2>. QED  BY <1>3, <2>1 DEF Answers, Given, Asked, Reads
<1>4. CASE q.fn = 6
  <2>1. r = q
    BY <1>4 DEF Answer
  <2>. QED  BY <1>4, <2>1 DEF Answers, Given, Asked, Reads
<1>5. CASE q.fn = 15
  <2>1. r = Echo
    BY <1>5 DEF Answer
  <2>. QED  BY <1>5, <2>1 DEF Answers, Given, Asked, Reads
<1>6. CASE q.fn = 16
  <2>1. r = Echo
    BY <1>6 DEF Answer
  <2>. QED  BY <1>6, <2>1 DEF Answers, Given, Asked, Reads
<1>7. CASE q.fn = 17
  <2>1. q.fn \notin {1, 2, 3, 4, 23} /\ q.fn \notin {5, 6} /\ q.fn \notin {15, 16}
    BY <1>7
  <2>2. r = [fn |-> 17, id |-> "slave id"]
    BY <1>7, <2>1 DEF Answer
  <2>3. r.fn = q.fn
    <3>1. [fn |-> 17, id |-> "slave id"].fn = 17
      OBVIOUS
    <3>2. r.fn = 17
      BY <2>2, <3>1, Zenon
    <3>. QED  BY <1>7, <3>2, Zenon
  <2>4. Asked(q) = 1
    BY <2>1, <1>7 DEF Asked
  <2>5. Given(r) = 1
    BY <2>1, <2>3, <1>7 DEF Given
  <2>. QED  BY <2>1, <2>3, <2>4, <2>5 DEF Answers, Reads
<1>. QED  BY <1>0, <1>2, <1>3, <1>4, <1>5, <1>6, <1>7 DEF Reads

\* modbus_reply answers a call, and what it answers as accepted it has done.
LEMMA ReplyAnswers ==
    ASSUME NEW t, NEW q \in Calls
    PROVE  /\ Answers(modbus_reply(t, q).rsp, q)
           /\ modbus_reply(t, q).rsp.fn = q.fn =>
                 /\ Verdict(q) = "ok"
                 /\ modbus_reply(t, q).tab = Written(t, q)
                 /\ q.fn \in Reads => modbus_reply(t, q).rsp.values
                                        = Values(modbus_reply(t, q).tab, q)
<1>0. q.fn \in Nat /\ q.fn # 7
  BY CallFields
<1>1. CASE Verdict(q) # "ok"
  <2>1. modbus_reply(t, q).rsp = [fn |-> q.fn + 128, exception |-> Verdict(q)]
    BY <1>1 DEF modbus_reply, Exception
  <2>. QED  BY <1>0, <2>1 DEF Answers
<1>2. CASE Verdict(q) = "ok"
  <2>1. modbus_reply(t, q) =
            [tab |-> Written(t, q), rsp |-> Answer(Written(t, q), q)]
    BY <1>0, <1>2 DEF modbus_reply
  <2>. QED  BY <1>2, <2>1, AnswerAnswers
<1>. QED  BY <1>1, <1>2

\* An answer whose function and count are those of a call answers a call that
\* looks like it, and was accepted.
LEMMA AcceptedTwin ==
    ASSUME NEW q \in Calls, NEW c \in Calls, NEW r, Answers(r, q),
           check_confirmation(c, r) = "ok"
    PROVE  /\ r.fn = c.fn /\ Given(r) = Asked(c)
           /\ r.fn = q.fn /\ SameShape(q, c) /\ Verdict(q) = "ok"
<1>1. r.fn = c.fn /\ Given(r) = Asked(c)
  BY DEF check_confirmation
<1>2. r.fn # q.fn + 128
  <2>1. q.fn \in 1 .. 99 /\ c.fn \in 1 .. 99
    BY CallFields
  <2>. QED  BY <1>1, <2>1
<1>. QED  BY <1>1, <1>2 DEF Answers, SameShape

\* What the client copies to the caller's array is what the answer carries.
LEMMA DestIsValues ==
    ASSUME NEW q \in Calls, NEW r, Answers(r, q), r.fn = q.fn, q.fn \in Reads
    PROVE  Dest(q, r) = r.values
<1>1. q.nb \in Nat /\ q.fn + 128 # q.fn
  BY CallFields DEF Reads
<1>2. r.values = [k \in 1 .. q.nb |-> r.values[k]] /\ Given(r) = Asked(q)
  BY <1>1 DEF Answers
<1>3. q.fn \notin {1, 2} => Given(r) = q.nb
  BY <1>2 DEF Asked, Reads
<1>4. Len(r.values) = q.nb
  <2>. DEFINE v == r.values
  <2>1. v \in [1 .. q.nb -> {v[k] : k \in 1 .. q.nb}]
    BY <1>2
  <2>2. v \in Seq({v[k] : k \in 1 .. q.nb})
    BY <1>1, <2>1, SeqDef
  <2>. QED  BY <1>1, <2>1, <2>2, LenProperties
<1>5. Dest(q, r) = [k \in 1 .. q.nb |->
                      IF k <= Len(r.values) THEN r.values[k] ELSE 0]
  BY <1>3 DEF Dest
<1>6. Dest(q, r) = [k \in 1 .. q.nb |-> r.values[k]]
  BY <1>1, <1>4, <1>5
<1>. QED  BY <1>2, <1>6

-----------------------------------------------------------------------------
(* The tables. *)

\* What a call makes of the coils and of the holding registers.
NewBits(b, q) ==
    IF q.fn = 5 THEN [b EXCEPT ![q.addr] = IF q.data = "on" THEN 1 ELSE 0]
    ELSE IF q.fn = 15 THEN Overwrite(b, q.addr, q.data) ELSE b

NewRegisters(g, q) ==
    IF q.fn = 6 THEN [g EXCEPT ![q.addr] = q.data]
    ELSE IF q.fn = 16 THEN Overwrite(g, q.addr, q.data)
    ELSE IF q.fn = 23 THEN Overwrite(g, q.waddr, q.data) ELSE g

\* A write of several cells keeps the type of its table, and doing it again
\* changes nothing.
LEMMA OverwriteAgain ==
    ASSUME NEW S, NEW table \in [Cell -> S], NEW a \in Nat, NEW data \in Seq(S)
    PROVE  /\ Overwrite(table, a, data) \in [Cell -> S]
           /\ Overwrite(Overwrite(table, a, data), a, data)
                = Overwrite(table, a, data)
<1>1. ASSUME NEW c \in Cell, c \in a .. a + Len(data) - 1
      PROVE  data[c - a + 1] \in S
  BY <1>1, TableAssumption DEF Cell
<1>. QED  BY <1>1 DEF Overwrite

LEMMA NewBitsAgain ==
    ASSUME NEW b \in [Cell -> Bit], NEW q \in Calls
    PROVE  /\ NewBits(b, q) \in [Cell -> Bit]
           /\ NewBits(NewBits(b, q), q) = NewBits(b, q)
<1>1. CASE q.fn = 5
  BY <1>1 DEF NewBits, Bit
<1>2. CASE q.fn = 15
  BY <1>2, CallFields, OverwriteAgain DEF NewBits
<1>3. CASE q.fn \notin {5, 15}
  BY <1>3 DEF NewBits
<1>. QED  BY <1>1, <1>2, <1>3

LEMMA NewRegistersAgain ==
    ASSUME NEW g \in [Cell -> Word], NEW q \in Calls
    PROVE  /\ NewRegisters(g, q) \in [Cell -> Word]
           /\ NewRegisters(NewRegisters(g, q), q) = NewRegisters(g, q)
<1>1. CASE q.fn = 6
  BY <1>1, CallFields DEF NewRegisters
<1>2. CASE q.fn \in {16, 23}
  BY <1>2, CallFields, OverwriteAgain DEF NewRegisters
<1>3. CASE q.fn \notin {6, 16, 23}
  BY <1>3 DEF NewRegisters
<1>. QED  BY <1>1, <1>2, <1>3

\* Written, by its effect on each table.
LEMMA WrittenForm ==
    ASSUME NEW t \in Tables, NEW q \in Calls
    PROVE  Written(t, q) = [t EXCEPT !.bits = NewBits(t.bits, q),
                                     !.registers = NewRegisters(t.registers, q)]
<1>. t = [bits |-> t.bits, input_bits |-> t.input_bits,
          registers |-> t.registers, input_registers |-> t.input_registers]
  BY DEF Tables
<1>1. CASE q.fn = 5
  <2>1. Written(t, q) = [t EXCEPT !.bits[q.addr] =
                            IF q.data = "on" THEN 1 ELSE 0]
    BY <1>1 DEF Written
  <2>2. /\ NewBits(t.bits, q) = [t.bits EXCEPT ![q.addr] =
                                    IF q.data = "on" THEN 1 ELSE 0]
        /\ NewRegisters(t.registers, q) = t.registers
    BY <1>1 DEF NewBits, NewRegisters
  <2>. QED  BY <2>1, <2>2
<1>2. CASE q.fn = 6
  <2>1. Written(t, q) = [t EXCEPT !.registers[q.addr] = q.data]
    BY <1>2 DEF Written
  <2>2. /\ NewBits(t.bits, q) = t.bits
        /\ NewRegisters(t.registers, q) = [t.registers EXCEPT ![q.addr] = q.data]
    BY <1>2 DEF NewBits, NewRegisters
  <2>. QED  BY <2>1, <2>2
<1>3. CASE q.fn = 15
  <2>1. Written(t, q) = [t EXCEPT !.bits = Overwrite(t.bits, q.addr, q.data)]
    BY <1>3 DEF Written
  <2>2. /\ NewBits(t.bits, q) = Overwrite(t.bits, q.addr, q.data)
        /\ NewRegisters(t.registers, q) = t.registers
    BY <1>3 DEF NewBits, NewRegisters
  <2>. QED  BY <2>1, <2>2
<1>4. CASE q.fn = 16
  <2>1. Written(t, q) =
            [t EXCEPT !.registers = Overwrite(t.registers, q.addr, q.data)]
    BY <1>4 DEF Written
  <2>2. /\ NewBits(t.bits, q) = t.bits
        /\ NewRegisters(t.registers, q)
             = Overwrite(t.registers, q.addr, q.data)
    BY <1>4 DEF NewBits, NewRegisters
  <2>. QED  BY <2>1, <2>2
<1>5. CASE q.fn = 23
  <2>1. Written(t, q) =
            [t EXCEPT !.registers = Overwrite(t.registers, q.waddr, q.data)]
    BY <1>5 DEF Written
  <2>2. /\ NewBits(t.bits, q) = t.bits
        /\ NewRegisters(t.registers, q)
             = Overwrite(t.registers, q.waddr, q.data)
    BY <1>5 DEF NewBits, NewRegisters
  <2>. QED  BY <2>1, <2>2
<1>6. CASE q.fn \notin {5, 6, 15, 16, 23}
  <2>1. Written(t, q) = t
    BY <1>6 DEF Written
  <2>2. /\ NewBits(t.bits, q) = t.bits
        /\ NewRegisters(t.registers, q) = t.registers
    BY <1>6 DEF NewBits, NewRegisters
  <2>. QED  BY <2>1, <2>2
<1>. QED  BY <1>1, <1>2, <1>3, <1>4, <1>5, <1>6

\* A call keeps the type of the tables; done again it changes nothing.
LEMMA WrittenAgain ==
    ASSUME NEW t \in Tables, NEW q \in Calls
    PROVE  /\ Written(t, q) \in Tables
           /\ Written(Written(t, q), q) = Written(t, q)
<1>. DEFINE u == Written(t, q)
<1>0. t.bits \in [Cell -> Bit] /\ t.registers \in [Cell -> Word]
  BY DEF Tables
<1>1. u = [t EXCEPT !.bits = NewBits(t.bits, q),
                    !.registers = NewRegisters(t.registers, q)]
  BY WrittenForm
<1>2. /\ NewBits(t.bits, q) \in [Cell -> Bit]
      /\ NewRegisters(t.registers, q) \in [Cell -> Word]
      /\ NewBits(NewBits(t.bits, q), q) = NewBits(t.bits, q)
      /\ NewRegisters(NewRegisters(t.registers, q), q)
           = NewRegisters(t.registers, q)
  BY <1>0, NewBitsAgain, NewRegistersAgain
<1>3. /\ u \in Tables /\ u.bits = NewBits(t.bits, q)
      /\ u.registers = NewRegisters(t.registers, q)
  BY <1>1, <1>2 DEF Tables
<1>4. Written(u, q) = [u EXCEPT !.bits = NewBits(u.bits, q),
                                !.registers = NewRegisters(u.registers, q)]
  BY <1>3, WrittenForm
<1>5. Written(u, q) = [u EXCEPT !.bits = u.bits, !.registers = u.registers]
  BY <1>2, <1>3, <1>4
<1>6. [u EXCEPT !.bits = u.bits, !.registers = u.registers] = u
  BY <1>3 DEF Tables
<1>. QED  BY <1>3, <1>5, <1>6

\* What a call has written is not changed with the input registers.
LEMMA ChangeKeepsWritten ==
    ASSUME NEW t \in Tables, NEW q \in Calls, Written(t, q) = t, NEW v \in Word,
           NEW u, u = [t EXCEPT !.input_registers[0] = v]
    PROVE  u \in Tables /\ Written(u, q) = u
<1>1. /\ u \in Tables /\ u.bits = t.bits /\ u.registers = t.registers
      /\ u.input_bits = t.input_bits
  BY DEF Tables
<1>2. [t EXCEPT !.bits = NewBits(t.bits, q),
                !.registers = NewRegisters(t.registers, q)] = t
  BY WrittenForm
<1>3. NewBits(t.bits, q) = t.bits /\ NewRegisters(t.registers, q) = t.registers
  BY <1>2 DEF Tables
<1>4. Written(u, q) = [u EXCEPT !.bits = NewBits(u.bits, q),
                                !.registers = NewRegisters(u.registers, q)]
  BY <1>1, WrittenForm
<1>5. Written(u, q) = [u EXCEPT !.bits = u.bits, !.registers = u.registers]
  BY <1>1, <1>3, <1>4
<1>. QED  BY <1>1, <1>5 DEF Tables

\* modbus_reply keeps the type of the tables.
LEMMA ReplyTables ==
    ASSUME NEW t \in Tables, NEW q \in Calls
    PROVE  modbus_reply(t, q).tab \in Tables
BY WrittenAgain DEF modbus_reply

-----------------------------------------------------------------------------
(* Frames underway. *)

\* What is left of s: some of its last frames, or damaged ones.
Remains(t, s) ==
    /\ Len(t) <= Len(s)
    /\ \E d \in Nat : \A k \in 1 .. Len(t) :
          t[k] = Damaged \/ (k + d \in 1 .. Len(s) /\ t[k] = s[k + d])

LEMMA SameRemains ==
    ASSUME NEW T, NEW s \in Seq(T)
    PROVE  Remains(s, s) /\ Remains(<<>>, s) /\ <<>> \in Seq(T)
<1>1. Len(s) \in Nat
  BY LenProperties
<1>2. <<>> \in Seq(T) /\ Len(<<>>) = 0
  BY EmptySeq
<1>3. \A k \in 1 .. Len(s) : k + 0 \in 1 .. Len(s) /\ s[k] = s[k + 0]
  BY <1>1
<1>. QED  BY <1>1, <1>2, <1>3 DEF Remains

LEMMA TailRemains ==
    ASSUME NEW T, NEW s \in Seq(T), s # <<>>
    PROVE  /\ Tail(s) \in Seq(T) /\ Remains(Tail(s), s)
           /\ Len(s) \in Nat \ {0} /\ Len(Tail(s)) = Len(s) - 1
           /\ Head(s) = s[1] /\ s[1] \in T
           /\ \A k \in 1 .. Len(Tail(s)) : k + 1 \in 1 .. Len(s)
                                           /\ Tail(s)[k] = s[k + 1]
<1>1. Len(s) \in Nat \ {0}
  BY EmptySeq
<1>2. /\ Tail(s) \in Seq(T) /\ Len(Tail(s)) = Len(s) - 1
      /\ \A k \in 1 .. Len(Tail(s)) : Tail(s)[k] = s[k + 1]
  BY HeadTailProperties
<1>3. Head(s) = s[1] /\ s[1] \in T
  BY <1>1, ElementOfSeq
<1>4. \A k \in 1 .. Len(Tail(s)) : k + 1 \in 1 .. Len(s)
  BY <1>1, <1>2
<1>5. \E d \in Nat : \A k \in 1 .. Len(Tail(s)) :
          Tail(s)[k] = Damaged
          \/ (k + d \in 1 .. Len(s) /\ Tail(s)[k] = s[k + d])
  BY <1>2, <1>4
<1>6. Len(Tail(s)) <= Len(s)
  BY <1>1, <1>2
<1>. QED  BY <1>1, <1>2, <1>3, <1>4, <1>5, <1>6 DEF Remains

\* Frames swallowed with a damaged one.
LEMMA BadRemains ==
    ASSUME NEW T, NEW s \in Seq(T), Damaged \in T, NEW n \in DOMAIN s,
           NEW t, t \in {SubSeq(s, n + 1, Len(s)),
                         <<Damaged>> \o SubSeq(s, n + 1, Len(s))}
    PROVE  t \in Seq(T) /\ Remains(t, s)
<1>. DEFINE rest == SubSeq(s, n + 1, Len(s))
<1>0. Len(s) \in Nat /\ n \in 1 .. Len(s)
  BY LenProperties
<1>1. \A i \in n + 1 .. Len(s) : s[i] \in T
  BY <1>0, ElementOfSeq
<1>2. /\ rest \in Seq(T)
      /\ Len(rest) = IF n + 1 <= Len(s) THEN Len(s) - (n + 1) + 1 ELSE 0
      /\ \A i \in 1 .. Len(s) - (n + 1) + 1 : rest[i] = s[n + 1 + i - 1]
  <2>1. n + 1 \in Int /\ Len(s) \in Int
    BY <1>0
  <2>. QED  BY <1>1, <2>1, SubSeqProperties
<1>3. /\ Len(rest) = Len(s) - n
      /\ \A i \in 1 .. Len(rest) : i + n \in 1 .. Len(s) /\ rest[i] = s[i + n]
  BY <1>0, <1>2
<1>4. CASE t = rest
  <2>1. n \in Nat /\ Len(t) <= Len(s)
    BY <1>0, <1>3, <1>4
  <2>. QED  BY <1>2, <1>3, <1>4, <2>1 DEF Remains
<1>5. CASE t = <<Damaged>> \o rest
  <2>1. /\ <<Damaged>> \in Seq(T) /\ Len(<<Damaged>>) = 1
        /\ <<Damaged>>[1] = Damaged
    OBVIOUS
  <2>2. /\ t \in Seq(T) /\ Len(t) = 1 + Len(rest)
        /\ \A i \in 1 .. 1 + Len(rest) :
              t[i] = IF i <= 1 THEN <<Damaged>>[i] ELSE rest[i - 1]
    BY <1>2, <1>5, <2>1, ConcatProperties
  <2>3. Len(t) <= Len(s)
    BY <1>0, <1>3, <2>2
  <2>4. n - 1 \in Nat
    BY <1>0
  <2>5. ASSUME NEW k \in 1 .. Len(t)
        PROVE  \/ t[k] = Damaged
               \/ k + (n - 1) \in 1 .. Len(s) /\ t[k] = s[k + (n - 1)]
    <3>1. CASE k = 1
      BY <1>0, <1>3, <2>1, <2>2, <3>1
    <3>2. CASE k # 1
      <4>1. k - 1 \in 1 .. Len(rest) /\ t[k] = rest[k - 1]
        BY <1>0, <1>3, <2>2, <3>2
      <4>2. k - 1 + n \in 1 .. Len(s) /\ rest[k - 1] = s[k - 1 + n]
        BY <1>3, <4>1
      <4>3. k - 1 + n = k + (n - 1)
        BY <1>0
      <4>. QED  BY <4>1, <4>2, <4>3
    <3>. QED  BY <3>1, <3>2
  <2>. QED  BY <2>2, <2>3, <2>4, <2>5 DEF Remains
<1>. QED  BY <1>4, <1>5

\* What is left of a line with no frame of the call, or with one, has none, or
\* one at most.
LEMMA RemainsOwn ==
    ASSUME NEW s, NEW t, Remains(t, s)
    PROVE  /\ NoOwn(s) => NoOwn(t)
           /\ AtMostOne(s) => AtMostOne(t)
<1>1. PICK d \in Nat : \A k \in 1 .. Len(t) :
          t[k] = Damaged \/ (k + d \in 1 .. Len(s) /\ t[k] = s[k + d])
  BY DEF Remains
<1>2. ~Damaged.own
  BY DEF Damaged, Frame
<1>3. \A k \in 1 .. Len(t) : t[k].own => k + d \in 1 .. Len(s) /\ s[k + d].own
  BY <1>1, <1>2
<1>4. ASSUME AtMostOne(s), NEW j \in 1 .. Len(t), NEW k \in 1 .. Len(t),
             t[j].own, t[k].own
      PROVE  j = k
  <2>1. j + d = k + d
    BY <1>3, <1>4 DEF AtMostOne
  <2>. QED  BY <2>1
<1>. QED  BY <1>3, <1>4 DEF NoOwn, AtMostOne

\* A frame stays sound while the call is the same, failures and values seen
\* are added, and what it has written stays.
LEMMA SoundStays ==
    ASSUME NEW c, NEW F, NEW G, F \subseteq G, NEW S, NEW R, S \subseteq R,
           NEW t, NEW u, c.fn \in Writes /\ G = {} /\ Written(t, c) = t
                            => Written(u, c) = u,
           NEW f
    PROVE  /\ SoundRequest(f, c, F) => SoundRequest(f, c, G)
           /\ SoundAnswer(f, c, F, S, t) => SoundAnswer(f, c, G, R, u)
<1>1. SoundRequest(f, c, F) => SoundRequest(f, c, G)
  BY DEF SoundRequest
<1>2. Done(f.of, c, F, S, t) => Done(f.of, c, G, R, u)
  BY DEF Done
<1>3. SoundAnswer(f, c, F, S, t) => SoundAnswer(f, c, G, R, u)
  BY <1>2 DEF SoundAnswer
<1>. QED  BY <1>1, <1>3

LEMMA RemainsSound ==
    ASSUME NEW c, NEW F, NEW G, F \subseteq G, NEW S, NEW R, S \subseteq R,
           NEW t, NEW u, c.fn \in Writes /\ G = {} /\ Written(t, c) = t
                            => Written(u, c) = u,
           NEW s, NEW r, Remains(r, s), SoundAnswers(s, c, F, S, t)
    PROVE  SoundAnswers(r, c, G, R, u)
<1>1. PICK d \in Nat : \A k \in 1 .. Len(r) :
          r[k] = Damaged \/ (k + d \in 1 .. Len(s) /\ r[k] = s[k + d])
  BY DEF Remains
<1>2. SoundAnswer(Damaged, c, G, R, u)
  BY DEF SoundAnswer, Damaged, Frame
<1>3. ASSUME NEW k \in 1 .. Len(r) PROVE SoundAnswer(r[k], c, G, R, u)
  BY <1>1, <1>2, SoundStays DEF SoundAnswers
<1>. QED  BY <1>3 DEF SoundAnswers

LEMMA RequestsSound ==
    ASSUME NEW c, NEW F, NEW G, F \subseteq G,
           NEW T, NEW s \in Seq(T), SoundRequests(s, c, F),
           NEW r, r = s \/ (s # <<>> /\ r = Tail(s))
    PROVE  SoundRequests(r, c, G)
<1>1. ASSUME NEW k \in 1 .. Len(s) PROVE SoundRequest(s[k], c, G)
  BY DEF SoundRequests, SoundRequest
<1>2. CASE r = s
  BY <1>1, <1>2 DEF SoundRequests
<1>3. CASE s # <<>> /\ r = Tail(s)
  BY <1>1, <1>3, TailRemains DEF SoundRequests
<1>. QED  BY <1>2, <1>3

\* One more frame.
LEMMA AppendLine ==
    ASSUME NEW T, NEW s \in Seq(T), NEW f \in T
    PROVE  /\ Append(s, f) \in Seq(T) /\ Len(Append(s, f)) = Len(s) + 1
           /\ Len(s) \in Nat
           /\ Append(s, f)[Len(s) + 1] = f
           /\ \A k \in 1 .. Len(s) : Append(s, f)[k] = s[k]
           /\ \A k \in 1 .. Len(s) + 1 :
                 k = Len(s) + 1 \/ (k \in 1 .. Len(s) /\ Append(s, f)[k] = s[k])
           /\ NoOwn(s) => AtMostOne(Append(s, f))
           /\ ~f.own /\ NoOwn(s) => NoOwn(Append(s, f))
           /\ ~f.own /\ AtMostOne(s) => AtMostOne(Append(s, f))
<1>1. /\ Append(s, f) \in Seq(T) /\ Len(Append(s, f)) = Len(s) + 1
      /\ Append(s, f)[Len(s) + 1] = f
      /\ \A k \in 1 .. Len(s) : Append(s, f)[k] = s[k]
      /\ Len(s) \in Nat
  BY AppendProperties, LenProperties
<1>2. \A k \in 1 .. Len(s) + 1 :
         k = Len(s) + 1 \/ (k \in 1 .. Len(s) /\ Append(s, f)[k] = s[k])
  BY <1>1
<1>. QED  BY <1>1, <1>2 DEF NoOwn, AtMostOne

\* The frames of an earlier call.
LEMMA OthersLine ==
    ASSUME NEW T, NEW s \in Seq([of : T, own : BOOLEAN])
    PROVE  /\ Others(s) \in Seq([of : T, own : BOOLEAN])
           /\ Len(Others(s)) = Len(s)
           /\ \A k \in 1 .. Len(s) : Others(s)[k] = Frame(s[k].of, FALSE)
           /\ NoOwn(Others(s))
<1>. DEFINE R == [of : T, own : BOOLEAN]
<1>1. Len(s) \in Nat /\ DOMAIN s = 1 .. Len(s) /\ s \in [1 .. Len(s) -> R]
  BY LenProperties
<1>2. \A k \in 1 .. Len(s) : Frame(s[k].of, FALSE) \in R
  BY <1>1 DEF Frame
<1>3. Others(s) = [k \in 1 .. Len(s) |-> Frame(s[k].of, FALSE)]
  BY <1>1 DEF Others
<1>4. Others(s) \in [1 .. Len(s) -> R]
  BY <1>2, <1>3
<1>5. Others(s) \in Seq(R)
  BY <1>1, <1>4, SeqDef
<1>6. DOMAIN Others(s) = 1 .. Len(Others(s)) /\ Len(Others(s)) \in Nat
  BY <1>5, LenProperties
<1>7. Len(Others(s)) = Len(s)
  <2>1. 1 .. Len(Others(s)) = 1 .. Len(s)
    BY <1>3, <1>6
  <2>2. \A m, n \in Nat : 1 .. m = 1 .. n => m = n
    <3>1. ASSUME NEW m \in Nat, NEW n \in Nat, 1 .. m = 1 .. n PROVE m <= n
      <4>1. m \in 1 .. m \/ m = 0
        OBVIOUS
      <4>2. m \in 1 .. n \/ m = 0
        BY <3>1, <4>1
      <4>. QED  BY <4>2
    <3>. QED  BY <3>1
  <2>. QED  BY <1>1, <1>6, <2>1, <2>2, Zenon
<1>8. \A k \in 1 .. Len(s) : ~Others(s)[k].own
  BY <1>3 DEF Frame
<1>. QED  BY <1>3, <1>5, <1>7, <1>8 DEF NoOwn

-----------------------------------------------------------------------------
(* The steps. *)

\* Nothing is underway, and nothing has been returned.
LEMMA InvInit == Init => IInv
<1>. SUFFICES ASSUME Init PROVE IInv
  OBVIOUS
<1>. USE DEF Init
<1>1. /\ \A T : <<>> \in Seq(T)
      /\ Len(<<>>) = 0
  BY EmptySeq
<1>2. ClearedTables \in Tables
  BY TableAssumption DEF ClearedTables, Tables, Bit, Word
<1>3. TypeOK
  <2>1. ret.rc = -1 /\ -1 \in Int
    BY DEF Failed
  <2>2. Len(requests) + Len(answers) + Len(input) <= MaxFlight
    BY <1>1, ClientAssumption
  <2>. QED  BY <1>2, <2>1, <2>2 DEF TypeOK
<1>4. LineOK
  BY <1>1 DEF LineOK
<1>5. SoundLine /\ OneUnderway /\ EndInv
  BY <1>1 DEF SoundLine, SoundRequests, SoundAnswers, OneUnderway, Apart,
              EndInv, NoneUnderway, NoOwn, AtMostOne
<1>6. RetInv /\ OnlyLateTwins /\ ReadsAreTrue /\ WritesAreDone
  BY DEF RetInv, OnlyLateTwins, ReadsAreTrue, WritesAreDone, Returned
<1>. QED  BY <1>3, <1>4, <1>5, <1>6 DEF IInv

\* A call that is being made is one of the program's.
LEMMA CallIsMade == ASSUME IInv, cpc # "idle" PROVE call \in Calls /\ Fits(call)
  BY DEF IInv, TypeOK

\* Frames that are taken, lost or swallowed, and calls that fail, leave a line
\* that is sound.
LEMMA FewerFrames ==
    ASSUME IInv, UNCHANGED <<call, tab, seen>>, failures \subseteq failures',
           requests' = requests \/ (requests # <<>> /\ requests' = Tail(requests)),
           answers' = answers \/ (answers # <<>> /\ answers' = Tail(answers)),
           input' \in Seq(AnswerFrames), Remains(input', input)
    PROVE  /\ requests' \in Seq(RequestFrames)
           /\ answers' \in Seq(AnswerFrames)
           /\ Len(requests') + Len(answers') + Len(input')
                <= Len(requests) + Len(answers) + Len(input)
           /\ Len(requests') + Len(answers') + Len(input') <= MaxFlight
           /\ SoundLine' /\ Apart' /\ (NoneUnderway => NoneUnderway')
<1>0. /\ requests \in Seq(RequestFrames)
      /\ answers \in Seq(AnswerFrames) /\ input \in Seq(AnswerFrames)
      /\ SoundLine /\ Apart
      /\ Len(requests) + Len(answers) + Len(input) <= MaxFlight
  BY DEF IInv, LineOK, OneUnderway, TypeOK
<1>1. requests' \in Seq(RequestFrames) /\ Remains(requests', requests)
  <2>1. CASE requests' = requests
    BY <1>0, <2>1, SameRemains
  <2>2. CASE requests # <<>> /\ requests' = Tail(requests)
    BY <1>0, <2>2, TailRemains
  <2>. QED  BY <2>1, <2>2
<1>2. answers' \in Seq(AnswerFrames) /\ Remains(answers', answers)
  <2>1. CASE answers' = answers
    BY <1>0, <2>1, SameRemains
  <2>2. CASE answers # <<>> /\ answers' = Tail(answers)
    BY <1>0, <2>2, TailRemains
  <2>. QED  BY <2>1, <2>2
<1>3. /\ Len(requests) \in Nat /\ Len(answers) \in Nat /\ Len(input) \in Nat
      /\ Len(requests') \in Nat /\ Len(answers') \in Nat /\ Len(input') \in Nat
  BY <1>0, <1>1, <1>2, LenProperties
<1>4. /\ Len(requests') <= Len(requests) /\ Len(answers') <= Len(answers)
      /\ Len(input') <= Len(input)
  BY <1>1, <1>2 DEF Remains
<1>5. /\ Len(requests') + Len(answers') + Len(input')
           <= Len(requests) + Len(answers) + Len(input)
      /\ Len(requests') + Len(answers') + Len(input') <= MaxFlight
  BY <1>0, <1>3, <1>4, ClientAssumption
<1>6. SoundRequests(requests', call', failures')
  BY <1>0, RequestsSound DEF SoundLine
<1>7. SoundAnswers(answers', call', failures', seen', tab')
  BY <1>0, <1>2, RemainsSound DEF SoundLine
<1>8. SoundAnswers(input', call', failures', seen', tab')
  BY <1>0, RemainsSound DEF SoundLine
<1>9. /\ NoOwn(requests) => NoOwn(requests')
      /\ NoOwn(answers) => NoOwn(answers')
      /\ NoOwn(input) => NoOwn(input')
      /\ AtMostOne(requests) => AtMostOne(requests')
      /\ AtMostOne(answers) => AtMostOne(answers')
      /\ AtMostOne(input) => AtMostOne(input')
  BY <1>1, <1>2, RemainsOwn
<1>10. Apart' /\ (NoneUnderway => NoneUnderway')
  BY <1>0, <1>9 DEF Apart, NoneUnderway
<1>. QED  BY <1>1, <1>2, <1>5, <1>6, <1>7, <1>8, <1>10 DEF SoundLine

\* Before it has returned, or when it has failed, a call promises nothing.
LEMMA NothingPromised ==
    ASSUME cpc' # "idle" \/ ret' = Failed
    PROVE  OnlyLateTwins' /\ ReadsAreTrue' /\ WritesAreDone'
<1>1. ret' = Failed => ret'.rc = -1 /\ ret'.dest = None
  BY DEF Failed
<1>2. ~(-1 > 0)
  OBVIOUS
<1>. QED  BY <1>1, <1>2 DEF OnlyLateTwins, ReadsAreTrue, WritesAreDone, Returned

\* What a call has promised stays true while the client rests, if what it wrote
\* stays in the tables.
LEMMA ClientRests ==
    ASSUME IInv, UNCHANGED client, seen \subseteq seen',
           Returned /\ failures = {} /\ call.fn \in Writes /\ ret.rc > 0
             /\ Written(tab, call) = tab => Written(tab', call) = tab'
    PROVE  RetInv' /\ OnlyLateTwins' /\ ReadsAreTrue' /\ WritesAreDone'
<1>. USE DEF IInv, client
<1>1. RetInv'
  BY DEF RetInv
<1>2. OnlyLateTwins'
  BY DEF OnlyLateTwins, Returned
<1>3. ReadsAreTrue'
  BY DEF ReadsAreTrue, Returned
<1>4. WritesAreDone'
  BY DEF WritesAreDone, Returned
<1>. QED  BY <1>1, <1>2, <1>3, <1>4

\* A call that fails after it was sent.
LEMMA FailedCall ==
    ASSUME IInv, cpc # "idle", ret' = Failed, failures' = failures \cup {call},
           UNCHANGED <<call, tab, seen, requests, answers>>,
           input' \in Seq(AnswerFrames), Remains(input', input),
           cpc' \in {"idle", "pause"}, own' \in BOOLEAN,
           own' => NoneUnderway'
    PROVE  IInv'
<1>1. call \in Calls /\ Fits(call)
  BY CallIsMade
<1>2. failures \subseteq failures' /\ failures' \subseteq Calls
  BY <1>1 DEF IInv, TypeOK
<1>3. /\ requests' \in Seq(RequestFrames)
      /\ answers' \in Seq(AnswerFrames)
      /\ Len(requests') + Len(answers') + Len(input') <= MaxFlight
      /\ SoundLine' /\ Apart'
  BY <1>2, FewerFrames
<1>4. TypeOK'
  BY <1>1, <1>2, <1>3 DEF IInv, TypeOK, Failed
<1>5. LineOK' /\ OneUnderway' /\ RetInv'
  BY <1>3 DEF LineOK, OneUnderway, RetInv
<1>6. EndInv'
  BY DEF EndInv, SameShape
<1>. QED  BY <1>3, <1>4, <1>5, <1>6, NothingPromised DEF IInv

\* A step of a call that takes no frame and does not fail: the line is as it
\* was, or the input queue was emptied.
LEMMA CallGoesOn ==
    ASSUME IInv, cpc # "idle", UNCHANGED <<call, own, failures, tab, seen>>,
           UNCHANGED <<requests, answers>>, input' \in {input, <<>>},
           ret' = Failed \/ (ret'.rc \in Int /\ cpc' = "idle"),
           \/ cpc \in {"send", "resend"} /\ cpc' \in {"send", "resend", "idle"}
           \/ cpc = "pause" /\ cpc' = "idle"
    PROVE  /\ TypeOK' /\ LineOK' /\ SoundLine' /\ OneUnderway' /\ EndInv'
           /\ RetInv'
<1>1. call \in Calls /\ Fits(call)
  BY CallIsMade
<1>2. input' \in Seq(AnswerFrames) /\ Remains(input', input)
  BY SameRemains DEF IInv, LineOK
<1>3. /\ requests' \in Seq(RequestFrames)
      /\ answers' \in Seq(AnswerFrames)
      /\ Len(requests') + Len(answers') + Len(input')
           <= Len(requests) + Len(answers) + Len(input)
      /\ Len(requests') + Len(answers') + Len(input') <= MaxFlight
      /\ SoundLine' /\ Apart' /\ (NoneUnderway => NoneUnderway')
  BY <1>2, FewerFrames
<1>4. TypeOK'
  <2>1. ret'.rc \in Int
    BY DEF Failed
  <2>. QED  BY <1>1, <1>3, <2>1 DEF IInv, TypeOK
<1>5. LineOK'
  <2>1. ASSUME cpc' \in {"send", "resend"}
        PROVE  Len(requests') + Len(answers') + Len(input') < MaxFlight
    <3>1. Len(requests) + Len(answers) + Len(input) < MaxFlight
      BY <2>1 DEF IInv, LineOK
    <3>2. /\ Len(requests) \in Nat /\ Len(answers) \in Nat /\ Len(input) \in Nat
          /\ Len(requests') \in Nat /\ Len(answers') \in Nat
          /\ Len(input') \in Nat
      BY <1>2, <1>3, LenProperties DEF IInv, LineOK
    <3>. QED  BY <1>3, <3>1, <3>2, ClientAssumption
  <2>. QED  BY <1>2, <1>3, <2>1 DEF LineOK
<1>6. OneUnderway'
  BY <1>3 DEF IInv, OneUnderway
<1>7. EndInv'
  <2>1. CASE cpc \in {"send", "resend"}
    BY <1>3, <2>1 DEF IInv, OneUnderway, EndInv
  <2>2. CASE cpc = "pause"
    BY <1>3, <2>2 DEF IInv, EndInv
  <2>. QED  BY <2>1, <2>2
<1>8. RetInv'
  BY DEF RetInv
<1>. QED  BY <1>3, <1>4, <1>5, <1>6, <1>7, <1>8

LEMMA SendFailsStep == ASSUME IInv, SendFails PROVE IInv'
<1>1. cpc = "send" /\ cpc' = "idle" /\ ret' = Failed
  BY DEF SendFails, IInv, RetInv
<1>2. TypeOK' /\ LineOK' /\ SoundLine' /\ OneUnderway' /\ EndInv' /\ RetInv'
  BY <1>1, CallGoesOn DEF SendFails, wire
<1>. QED  BY <1>1, <1>2, NothingPromised DEF IInv

\* A count of bits is returned, but neither values nor a write.
LEMMA SendNothingStep == ASSUME IInv, SendNothing PROVE IInv'
<1>. USE DEF SendNothing
<1>1. call \in Calls
  BY CallIsMade
<1>2. ret'.rc = Count(call, 0) /\ ret'.dest = None
  OBVIOUS
<1>3. ret'.rc \in Int
  BY <1>1, <1>2, CallFields DEF Count
<1>4. TypeOK' /\ LineOK' /\ SoundLine' /\ OneUnderway' /\ EndInv' /\ RetInv'
  BY <1>3, CallGoesOn DEF wire
<1>5. ~(call.fn \in Writes /\ ret'.rc > 0)
  BY <1>2 DEF Writes, Count
<1>6. OnlyLateTwins' /\ ReadsAreTrue' /\ WritesAreDone'
  BY <1>2, <1>5 DEF OnlyLateTwins, ReadsAreTrue, WritesAreDone
<1>. QED  BY <1>4, <1>6 DEF IInv

LEMMA SendAgainStep == ASSUME IInv, SendAgain PROVE IInv'
<1>1. /\ cpc = "send" /\ cpc' \in {"send", "resend"} /\ ret' = Failed
      /\ input' \in {input, <<>>}
  BY DEF SendAgain, IInv, RetInv
<1>2. TypeOK' /\ LineOK' /\ SoundLine' /\ OneUnderway' /\ EndInv' /\ RetInv'
  BY <1>1, CallGoesOn DEF SendAgain, wire
<1>. QED  BY <1>1, <1>2, NothingPromised DEF IInv

LEMMA WakeStep == ASSUME IInv, Wake PROVE IInv'
<1>1. /\ \/ cpc = "resend" /\ cpc' = "send"
         \/ cpc = "pause" /\ cpc' = "idle"
      /\ ret' = Failed
  BY DEF Wake, IInv, RetInv
<1>2. TypeOK' /\ LineOK' /\ SoundLine' /\ OneUnderway' /\ EndInv' /\ RetInv'
  BY <1>1, CallGoesOn DEF Wake, wire
<1>. QED  BY <1>1, <1>2, NothingPromised DEF IInv

\* There is room for the request, and it is the only one of its call.
LEMMA SendStep == ASSUME IInv, Send PROVE IInv'
<1>. USE DEF Send
<1>. DEFINE f == Frame(call, TRUE)
<1>0. /\ requests \in Seq(RequestFrames)
      /\ answers \in Seq(AnswerFrames) /\ input \in Seq(AnswerFrames)
      /\ Len(requests) + Len(answers) + Len(input) < MaxFlight
      /\ SoundLine /\ NoneUnderway /\ ret = Failed /\ ~own
  BY DEF IInv, LineOK, OneUnderway, RetInv, TypeOK
<1>1. call \in Calls /\ Fits(call)
  BY CallIsMade
<1>2. f \in RequestFrames
  BY <1>1 DEF Frame, RequestFrames
<1>3. /\ requests' \in Seq(RequestFrames) /\ Len(requests') = Len(requests) + 1
      /\ AtMostOne(requests') /\ Len(requests) \in Nat
      /\ \A k \in 1 .. Len(requests') :
            requests'[k] = f \/ (k \in 1 .. Len(requests)
                                 /\ requests'[k] = requests[k])
  <2>1. requests' = Append(requests, f) /\ NoOwn(requests)
    BY <1>0 DEF NoneUnderway
  <2>2. /\ requests' \in Seq(RequestFrames) /\ Len(requests') = Len(requests) + 1
        /\ AtMostOne(requests') /\ Len(requests) \in Nat
        /\ requests'[Len(requests) + 1] = f
        /\ \A k \in 1 .. Len(requests) + 1 :
              k = Len(requests) + 1
              \/ (k \in 1 .. Len(requests) /\ requests'[k] = requests[k])
    <3>. HIDE DEF f
    <3>1. /\ requests \in Seq(RequestFrames) /\ f \in RequestFrames
          /\ requests' = Append(requests, f) /\ NoOwn(requests)
      BY <1>0, <1>2, <2>1
    <3>. QED  BY ONLY <3>1, AppendLine
  <2>. QED  BY <2>2
<1>4. Len(answers) \in Nat /\ Len(input) \in Nat
  BY <1>0, LenProperties
<1>5. TypeOK'
  <2>1. Len(requests') + Len(answers') + Len(input') <= MaxFlight
    BY <1>0, <1>3, <1>4, ClientAssumption
  <2>. QED  BY <1>1, <2>1 DEF IInv, TypeOK
<1>6. LineOK' /\ RetInv' /\ EndInv'
  BY <1>0, <1>3 DEF LineOK, RetInv, EndInv
<1>7. SoundLine'
  <2>1. SoundRequest(f, call, failures)
    BY DEF SoundRequest, Frame
  <2>2. SoundRequests(requests', call', failures')
    BY <1>0, <1>3, <2>1 DEF SoundRequests, SoundLine
  <2>. QED  BY <1>0, <2>2 DEF SoundLine
<1>8. OneUnderway'
  BY <1>0, <1>3 DEF OneUnderway, Apart, NoneUnderway, NoOwn, AtMostOne
<1>. QED  BY <1>5, <1>6, <1>7, <1>8, NothingPromised DEF IInv

LEMMA TimeOutStep == ASSUME IInv, TimeOut PROVE IInv'
<1>1. input' \in Seq(AnswerFrames) /\ Remains(input', input)
  BY SameRemains DEF IInv, LineOK, TimeOut
<1>2. cpc' \in {"idle", "pause"} /\ ret' = Failed
      /\ failures' = failures \cup {call}
      /\ cpc # "idle" /\ own' \in BOOLEAN /\ ~own'
  BY DEF TimeOut, Fail, IInv, TypeOK, OneUnderway
<1>. QED  BY <1>1, <1>2, FailedCall DEF TimeOut, wire

LEMMA ReceiveFailsStep == ASSUME IInv, ReceiveFails PROVE IInv'
<1>1. input' \in Seq(AnswerFrames) /\ Remains(input', input)
  BY SameRemains DEF IInv, LineOK, ReceiveFails
<1>2. /\ cpc' \in {"idle", "pause"}
      /\ cpc # "idle" /\ own' \in BOOLEAN /\ ~own'
  BY DEF ReceiveFails, IInv, TypeOK, OneUnderway
<1>. QED  BY <1>1, <1>2, FailedCall DEF ReceiveFails, wire

LEMMA ReceiveBadStep == ASSUME IInv, ReceiveBad PROVE IInv'
<1>1. input' \in Seq(AnswerFrames) /\ Remains(input', input)
  <2>1. Damaged \in AnswerFrames
    BY DEF Damaged, Frame, AnswerFrames
  <2>2. input \in Seq(AnswerFrames)
    BY DEF IInv, LineOK
  <2>. QED  BY <2>1, <2>2, BadRemains DEF ReceiveBad
<1>2. cpc' = "idle" /\ cpc # "idle" /\ own' \in BOOLEAN /\ ~own'
  BY DEF ReceiveBad, IInv, TypeOK, OneUnderway
<1>. QED  BY <1>1, <1>2, FailedCall DEF ReceiveBad, wire

\* An answer that is taken: the call's own is the last of it underway; another
\* one that confirms it follows the failure of a call that looks like it.
LEMMA TakenAnswer ==
    ASSUME IInv, Receive, NEW h, h = Head(input)
    PROVE  /\ call \in Calls /\ Fits(call) /\ own' = h.own /\ own' \in BOOLEAN
           /\ input' \in Seq(AnswerFrames) /\ Remains(input', input)
           /\ own' => /\ NoneUnderway'
                      /\ Answers(h.of, call) /\ Done(h.of, call, failures, seen, tab)
           /\ ~own' => \E q \in Calls : /\ Answers(h.of, q)
                                        /\ \E p \in failures : SameShape(p, q)
<1>. USE DEF Receive
<1>1. call \in Calls /\ Fits(call)
  BY CallIsMade
<1>2. input \in Seq(AnswerFrames) /\ SoundLine /\ Apart
  BY DEF IInv, LineOK, OneUnderway
<1>3. /\ input' \in Seq(AnswerFrames) /\ Remains(input', input)
      /\ Len(input) \in Nat \ {0}
      /\ h = input[1] /\ h \in AnswerFrames
      /\ \A k \in 1 .. Len(input') : k + 1 \in 1 .. Len(input)
                                     /\ input'[k] = input[k + 1]
  BY <1>2, TailRemains
<1>4. own' = h.own /\ h.own \in BOOLEAN
  BY <1>3 DEF AnswerFrames
<1>5. 1 \in 1 .. Len(input)
  BY <1>3
<1>6. SoundAnswer(h, call, failures, seen, tab)
  BY <1>2, <1>3, <1>5 DEF SoundLine, SoundAnswers
<1>7. ASSUME own' PROVE NoneUnderway'
  <2>1. NoOwn(requests) /\ NoOwn(answers)
    BY <1>2, <1>3, <1>4, <1>5, <1>7 DEF Apart, NoOwn
  <2>2. ASSUME NEW k \in 1 .. Len(input') PROVE ~input'[k].own
    <3>1. SUFFICES ASSUME input[k + 1].own PROVE FALSE
      BY <1>3
    <3>2. k + 1 = 1
      BY <1>2, <1>3, <1>4, <1>5, <1>7, <3>1 DEF Apart, AtMostOne
    <3>. QED  BY <3>2
  <2>. QED  BY <2>1, <2>2 DEF NoneUnderway, NoOwn, wire
<1>. QED  BY <1>1, <1>3, <1>4, <1>6, <1>7 DEF SoundAnswer

LEMMA ReceiveStep == ASSUME IInv, Receive PROVE IInv'
<1>. DEFINE h == Head(input)
            r == h.of
            Twin == \E p \in failures : SameShape(p, call)
<1>0. /\ cpc = "receive" /\ input # <<>> /\ input' = Tail(input)
      /\ UNCHANGED <<call, tab, seen, requests, answers>>
  BY DEF Receive, wire
<1>1. /\ call \in Calls /\ Fits(call) /\ own' = h.own /\ own' \in BOOLEAN
      /\ input' \in Seq(AnswerFrames) /\ Remains(input', input)
      /\ own' => /\ NoneUnderway'
                 /\ Answers(r, call) /\ Done(r, call, failures, seen, tab)
      /\ ~own' => \E q \in Calls : /\ Answers(r, q)
                                   /\ \E p \in failures : SameShape(p, q)
  BY TakenAnswer
<1>2. CASE check_confirmation(call, r) = "ok"
  <2>1. /\ cpc' = "idle" /\ failures' = failures
        /\ ret' = [rc |-> Count(call, Given(r)), dest |-> Dest(call, r)]
    BY <1>2 DEF Receive
  <2>2. /\ requests' \in Seq(RequestFrames)
        /\ answers' \in Seq(AnswerFrames)
        /\ Len(requests') + Len(answers') + Len(input') <= MaxFlight
        /\ SoundLine' /\ Apart'
    BY <1>0, <1>1, <2>1, FewerFrames
  <2>3. r.fn = call.fn /\ Given(r) = Asked(call)
    BY <1>2 DEF check_confirmation
  <2>4. TypeOK'
    <3>1. Count(call, Given(r)) \in Int
      BY <1>1, <2>3, AskedIsNat, CallFields DEF Count
    <3>. QED  BY <1>0, <1>1, <2>1, <2>2, <3>1 DEF IInv, TypeOK
  <2>5. LineOK' /\ OneUnderway' /\ RetInv'
    BY <1>1, <2>1, <2>2 DEF LineOK, OneUnderway, RetInv
  <2>6. ~own' => Twin
    BY <1>1, <1>2, AcceptedTwin DEF SameShape
  <2>7. EndInv' /\ OnlyLateTwins'
    BY <1>0, <1>1, <2>1, <2>6 DEF EndInv, OnlyLateTwins
  <2>8. failures = {} => Answers(r, call) /\ Done(r, call, failures, seen, tab)
    BY <1>1, <2>6
  <2>9. ReadsAreTrue'
    <3>1. ret'.dest = Dest(call, r)
      BY <2>1
    <3>2. ASSUME failures = {}, ret'.dest # None PROVE ret'.dest \in seen
      <4>1. call.fn \in Reads
        BY <3>1, <3>2 DEF Dest
      <4>2. Dest(call, r) = r.values /\ r.values \in seen
        BY <1>1, <2>3, <2>8, <3>2, <4>1, DestIsValues DEF Done
      <4>. QED  BY <3>1, <4>2
    <3>. QED  BY <1>0, <2>1, <3>2 DEF ReadsAreTrue
  <2>10. WritesAreDone'
    <3>1. ASSUME failures = {}, call.fn \in Writes
          PROVE  Verdict(call) = "ok" /\ Written(tab, call) = tab
      BY <1>1, <1>2, <2>3, <2>8, <3>1, AcceptedTwin DEF Done
    <3>. QED  BY <1>0, <2>1, <3>1 DEF WritesAreDone
  <2>. QED  BY <2>2, <2>4, <2>5, <2>7, <2>9, <2>10 DEF IInv
<1>3. CASE check_confirmation(call, r) = "exception" /\ own'
  <2>1. cpc' = "idle" /\ failures' = failures /\ ret' = Failed
    BY <1>3 DEF Receive
  <2>2. /\ requests' \in Seq(RequestFrames)
        /\ answers' \in Seq(AnswerFrames)
        /\ Len(requests') + Len(answers') + Len(input') <= MaxFlight
        /\ SoundLine' /\ Apart'
    BY <1>0, <1>1, <2>1, FewerFrames
  <2>3. TypeOK'
    <3>1. ret'.rc \in Int
      BY <2>1 DEF Failed
    <3>. QED  BY <1>0, <1>1, <2>1, <2>2, <3>1 DEF IInv, TypeOK
  <2>4. LineOK' /\ OneUnderway' /\ RetInv' /\ EndInv'
    BY <1>1, <1>3, <2>1, <2>2 DEF LineOK, OneUnderway, RetInv, EndInv
  <2>. QED  BY <2>1, <2>2, <2>3, <2>4, NothingPromised DEF IInv
<1>4. CASE \/ check_confirmation(call, r) = "exception" /\ ~own'
           \/ check_confirmation(call, r) \notin {"ok", "exception"}
  <2>1. /\ cpc' \in {"idle", "pause"} /\ ret' = Failed
        /\ failures' = failures \cup {call}
    <3>1. CASE check_confirmation(call, r) = "exception" /\ ~own'
      BY <3>1 DEF Receive
    <3>2. CASE check_confirmation(call, r) \notin {"ok", "exception"}
      <4>1. Fail("protocol")
        BY <3>2 DEF Receive
      <4>. QED  BY <4>1 DEF Fail
    <3>. QED  BY <1>4, <3>1, <3>2
  <2>. QED  BY <1>0, <1>1, <2>1, FailedCall
<1>. QED  BY <1>2, <1>3, <1>4

\* What was underway when a call begins is of calls that look like one that
\* has failed: an idle client has taken the answer of its last call, or failed.
LEMMA OthersSound ==
    ASSUME IInv, cpc = "idle", ~Silent
    PROVE  /\ \A k \in 1 .. Len(requests) :
                 SoundRequest(Frame(requests[k].of, FALSE), None, failures)
           /\ \A c, S, t : \A k \in 1 .. Len(answers) :
                 SoundAnswer(Frame(answers[k].of, FALSE), c, failures, S, t)
           /\ \A c, S, t : \A k \in 1 .. Len(input) :
                 SoundAnswer(Frame(input[k].of, FALSE), c, failures, S, t)
<1>0. SoundLine /\ (NoneUnderway \/ \E p \in failures : SameShape(p, call))
  BY DEF IInv, EndInv
<1>1. ASSUME NEW k \in 1 .. Len(requests)
      PROVE  \E p \in failures : SameShape(p, requests[k].of)
  BY <1>0, <1>1 DEF SoundLine, SoundRequests, SoundRequest, NoneUnderway, NoOwn
<1>. DEFINE OfTwin(r) == r # Bad => \E q \in Calls :
                            Answers(r, q) /\ \E p \in failures : SameShape(p, q)
<1>2. ASSUME NEW k \in 1 .. Len(answers) PROVE OfTwin(answers[k].of)
  BY <1>0, <1>2 DEF SoundLine, SoundAnswers, SoundAnswer, NoneUnderway, NoOwn
<1>3. ASSUME NEW k \in 1 .. Len(input) PROVE OfTwin(input[k].of)
  BY <1>0, <1>3 DEF SoundLine, SoundAnswers, SoundAnswer, NoneUnderway, NoOwn
<1>4. /\ \A r, c, S, t : OfTwin(r) => SoundAnswer(Frame(r, FALSE), c, failures, S, t)
      /\ \A q, c : (\E p \in failures : SameShape(p, q))
                      => SoundRequest(Frame(q, FALSE), c, failures)
  BY DEF SoundAnswer, SoundRequest, Frame
<1>. QED  BY <1>1, <1>2, <1>3, <1>4

LEMMA CallStep == ASSUME IInv, NEW q \in Calls, Call(q) PROVE IInv'
<1>. USE DEF Call
<1>0. /\ requests \in Seq(RequestFrames)
      /\ answers \in Seq(AnswerFrames) /\ input \in Seq(AnswerFrames)
      /\ failures \subseteq Calls /\ tab \in Tables
  BY DEF IInv, LineOK, TypeOK
<1>1. /\ requests' \in Seq(RequestFrames) /\ Len(requests') = Len(requests)
      /\ \A k \in 1 .. Len(requests) :
            requests'[k] = Frame(requests[k].of, FALSE)
      /\ NoOwn(requests')
  BY <1>0, OthersLine DEF RequestFrames
<1>2. /\ answers' \in Seq(AnswerFrames) /\ Len(answers') = Len(answers)
      /\ \A k \in 1 .. Len(answers) : answers'[k] = Frame(answers[k].of, FALSE)
      /\ NoOwn(answers')
  BY <1>0, OthersLine DEF AnswerFrames
<1>3. /\ input' \in Seq(AnswerFrames) /\ Len(input') = Len(input)
      /\ \A k \in 1 .. Len(input) : input'[k] = Frame(input[k].of, FALSE)
      /\ NoOwn(input')
  BY <1>0, OthersLine DEF AnswerFrames
<1>4. /\ Len(requests) \in Nat /\ Len(answers) \in Nat /\ Len(input) \in Nat
      /\ Len(requests) + Len(answers) + Len(input) < MaxFlight
  BY <1>0, LenProperties DEF Room
<1>5. Len(requests') + Len(answers') + Len(input') < MaxFlight
  BY <1>1, <1>2, <1>3, <1>4
<1>6. TypeOK'
  <2>1. Len(requests') + Len(answers') + Len(input') <= MaxFlight
    BY <1>1, <1>2, <1>3, <1>4, <1>5, ClientAssumption
  <2>2. ret'.rc \in Int
    BY DEF Failed
  <2>3. /\ cpc' \in {"send", "idle"} /\ (cpc' # "idle" => Fits(q))
        /\ call' = q /\ q # None
    BY ClientAssumption
  <2>4. failures' \subseteq Calls
    BY <1>0
  <2>. QED  BY <1>0, <2>1, <2>2, <2>3, <2>4 DEF TypeOK
<1>7. LineOK' /\ RetInv'
  BY <1>1, <1>2, <1>3, <1>5 DEF LineOK, RetInv
<1>8. OneUnderway' /\ EndInv'
  BY <1>1, <1>2, <1>3 DEF OneUnderway, Apart, NoneUnderway, EndInv, NoOwn,
                          AtMostOne
<1>9. SoundLine'
  <2>1. CASE Silent
    <3>1. Len(requests') = 0 /\ Len(answers') = 0 /\ Len(input') = 0
      BY <1>1, <1>2, <1>3, <2>1, EmptySeq DEF Silent
    <3>. QED  BY <3>1 DEF SoundLine, SoundRequests, SoundAnswers
  <2>2. CASE ~Silent
    <3>1. failures' = failures
      BY <2>2
    <3>2. SoundRequests(requests', call', failures')
      BY <1>1, <2>2, <3>1, OthersSound DEF SoundRequests, SoundRequest, Frame
    <3>3. SoundAnswers(answers', call', failures', seen', tab')
      BY <1>2, <2>2, <3>1, OthersSound DEF SoundAnswers
    <3>4. SoundAnswers(input', call', failures', seen', tab')
      BY <1>3, <2>2, <3>1, OthersSound DEF SoundAnswers
    <3>. QED  BY <3>2, <3>3, <3>4 DEF SoundLine
  <2>. QED  BY <2>1, <2>2
<1>. QED  BY <1>6, <1>7, <1>8, <1>9, NothingPromised DEF IInv

\* A frame is lost.
LEMMA LoseStep == ASSUME IInv, LoseRequest \/ LoseAnswer PROVE IInv'
<1>0. /\ UNCHANGED <<client, input, tab, seen>>
      /\ requests' = requests \/ (requests # <<>> /\ requests' = Tail(requests))
      /\ answers' = answers \/ (answers # <<>> /\ answers' = Tail(answers))
  BY DEF LoseRequest, LoseAnswer
<1>1. input' \in Seq(AnswerFrames) /\ Remains(input', input)
  BY <1>0, SameRemains DEF IInv, LineOK
<1>2. /\ requests' \in Seq(RequestFrames)
      /\ answers' \in Seq(AnswerFrames)
      /\ Len(requests') + Len(answers') + Len(input')
           <= Len(requests) + Len(answers) + Len(input)
      /\ Len(requests') + Len(answers') + Len(input') <= MaxFlight
      /\ SoundLine' /\ Apart' /\ (NoneUnderway => NoneUnderway')
  BY <1>0, <1>1, FewerFrames DEF client
<1>3. TypeOK'
  BY <1>0, <1>2 DEF IInv, TypeOK, client
<1>4. LineOK'
  <2>1. ASSUME cpc' \in {"send", "resend"}
        PROVE  Len(requests') + Len(answers') + Len(input') < MaxFlight
    <3>1. Len(requests) + Len(answers) + Len(input) < MaxFlight
      BY <1>0, <2>1 DEF IInv, LineOK, client
    <3>2. /\ Len(requests) \in Nat /\ Len(answers) \in Nat /\ Len(input) \in Nat
          /\ Len(requests') \in Nat /\ Len(answers') \in Nat
          /\ Len(input') \in Nat
      BY <1>1, <1>2, LenProperties DEF IInv, LineOK
    <3>. QED  BY <1>2, <3>1, <3>2, ClientAssumption
  <2>. QED  BY <1>1, <1>2, <2>1 DEF LineOK
<1>5. OneUnderway' /\ EndInv'
  BY <1>0, <1>2 DEF IInv, OneUnderway, EndInv, client
<1>6. RetInv' /\ OnlyLateTwins' /\ ReadsAreTrue' /\ WritesAreDone'
  BY <1>0, ClientRests
<1>. QED  BY <1>2, <1>3, <1>4, <1>5, <1>6 DEF IInv

\* A frame, or what damage has made of it, goes from the line to the queue.
LEMMA DeliverStep == ASSUME IInv, Deliver PROVE IInv'
<1>. USE DEF Deliver
<1>. DEFINE h == Head(answers)
<1>0. /\ answers \in Seq(AnswerFrames) /\ input \in Seq(AnswerFrames)
      /\ requests \in Seq(RequestFrames) /\ SoundLine /\ Apart
  BY DEF IInv, LineOK, OneUnderway
<1>1. PICK f \in {h, Damaged} : input' = Append(input, f)
  OBVIOUS
<1>2. /\ answers' \in Seq(AnswerFrames) /\ Remains(answers', answers)
      /\ Len(answers) \in Nat \ {0} /\ Len(answers') = Len(answers) - 1
      /\ h = answers[1] /\ h \in AnswerFrames
      /\ \A k \in 1 .. Len(answers') : k + 1 \in 1 .. Len(answers)
                                       /\ answers'[k] = answers[k + 1]
  BY <1>0, TailRemains
<1>3. f \in AnswerFrames /\ (f.own => f = h)
  <2>1. Damaged \in AnswerFrames /\ ~Damaged.own
    BY DEF Damaged, Frame, AnswerFrames
  <2>2. f = h \/ f = Damaged
    BY <1>1
  <2>. QED  BY ONLY <1>2, <2>1, <2>2
<1>4. /\ input' \in Seq(AnswerFrames) /\ Len(input') = Len(input) + 1
      /\ Len(input) \in Nat
      /\ input'[Len(input) + 1] = f
      /\ \A k \in 1 .. Len(input) + 1 :
            k = Len(input) + 1 \/ (k \in 1 .. Len(input) /\ input'[k] = input[k])
      /\ NoOwn(input) => AtMostOne(input')
      /\ ~f.own /\ NoOwn(input) => NoOwn(input')
      /\ ~f.own /\ AtMostOne(input) => AtMostOne(input')
  <2>1. input \in Seq(AnswerFrames) /\ input' = Append(input, f)
    BY <1>0, <1>1
  <2>. QED  BY ONLY <1>3, <2>1, AppendLine
<1>5. /\ Len(requests') + Len(answers') + Len(input')
           = Len(requests) + Len(answers) + Len(input)
      /\ UNCHANGED client /\ UNCHANGED <<requests, tab, seen>>
  <2>1. Len(requests) \in Nat /\ requests' = requests
    BY <1>0, LenProperties
  <2>. QED  BY <1>2, <1>4, <2>1
<1>6. TypeOK'
  BY <1>5 DEF IInv, TypeOK, client
<1>7. LineOK'
  BY <1>0, <1>2, <1>4, <1>5 DEF IInv, LineOK, client
<1>8. 1 \in 1 .. Len(answers)
  BY <1>2
<1>9. SoundLine'
  <2>1. SoundAnswers(answers', call, failures, seen, tab)
    BY <1>0, <1>2, RemainsSound DEF SoundLine
  <2>2. SoundAnswer(f, call, failures, seen, tab)
    <3>1. SoundAnswer(h, call, failures, seen, tab)
      <4>1. SoundAnswers(answers, call, failures, seen, tab)
        BY <1>0 DEF SoundLine
      <4>. QED  BY ONLY <1>2, <1>8, <4>1 DEF SoundAnswers
    <3>2. SoundAnswer(Damaged, call, failures, seen, tab)
      BY ONLY TRUE DEF SoundAnswer, Damaged, Frame
    <3>3. f = h \/ f = Damaged
      BY ONLY f \in {h, Damaged}
    <3>. QED  BY ONLY <3>1, <3>2, <3>3
  <2>3. SoundAnswers(input', call, failures, seen, tab)
    BY <1>0, <1>4, <2>2 DEF SoundLine, SoundAnswers
  <2>. QED  BY <1>0, <1>5, <2>1, <2>3 DEF SoundLine, client
<1>10. Apart' /\ (NoneUnderway => NoneUnderway')
  <2>1. /\ NoOwn(answers) => NoOwn(answers')
        /\ AtMostOne(answers) => AtMostOne(answers')
    BY <1>2, RemainsOwn
  <2>2. NoOwn(answers) => ~f.own
    BY <1>2, <1>3, <1>8 DEF NoOwn
  <2>3. ASSUME f.own PROVE NoOwn(requests) /\ NoOwn(input) /\ NoOwn(answers')
    <3>1. answers[1].own
      BY <1>2, <1>3, <2>3
    <3>2. NoOwn(requests) /\ NoOwn(input)
      BY <1>0, <1>8, <3>1 DEF Apart, NoOwn
    <3>3. ASSUME NEW k \in 1 .. Len(answers') PROVE ~answers'[k].own
      <4>1. SUFFICES ASSUME answers[k + 1].own PROVE FALSE
        BY <1>2
      <4>2. k + 1 = 1
        BY <1>0, <1>2, <1>8, <3>1, <4>1 DEF Apart, AtMostOne
      <4>. QED  BY <4>2
    <3>. QED  BY <3>2, <3>3 DEF NoOwn
  <2>4. CASE f.own
    BY <1>0, <1>4, <1>5, <2>1, <2>2, <2>3, <2>4 DEF Apart, NoneUnderway
  <2>5. CASE ~f.own
    BY <1>0, <1>4, <1>5, <2>1, <2>5 DEF Apart, NoneUnderway
  <2>. QED  BY <2>4, <2>5
<1>11. OneUnderway' /\ EndInv'
  BY <1>5, <1>10 DEF IInv, OneUnderway, EndInv, client
<1>12. RetInv' /\ OnlyLateTwins' /\ ReadsAreTrue' /\ WritesAreDone'
  BY <1>5, ClientRests
<1>. QED  BY <1>6, <1>7, <1>9, <1>11, <1>12 DEF IInv

\* The owner of the server sets a register that no call writes.
LEMMA ChangeStep == ASSUME IInv, NEW v \in Changes, Change(v) PROVE IInv'
<1>. USE DEF Change
<1>0. /\ UNCHANGED <<client, input, requests, answers>>
      /\ seen \subseteq seen' /\ v \in Word
      /\ tab \in Tables /\ tab' = [tab EXCEPT !.input_registers[0] = v]
  BY ClientAssumption DEF IInv, TypeOK, wire
<1>1. tab' \in Tables
  BY <1>0 DEF Tables
<1>2. ASSUME call \in Calls, Written(tab, call) = tab
      PROVE  Written(tab', call) = tab'
  BY <1>0, <1>2, ChangeKeepsWritten
<1>3. TypeOK' /\ LineOK' /\ OneUnderway' /\ EndInv'
  <2>1. TypeOK'
    BY <1>0, <1>1 DEF IInv, TypeOK, client
  <2>. QED  BY <1>0, <2>1 DEF IInv, LineOK, OneUnderway, Apart, NoneUnderway,
                             EndInv, client
<1>4. SoundLine'
  <2>1. ASSUME NEW f, SoundAnswer(f, call, failures, seen, tab)
        PROVE  SoundAnswer(f, call, failures, seen', tab')
    <3>1. CASE f.own /\ f.of # Bad
      <4>1. call \in Calls
        BY <2>1, <3>1 DEF SoundAnswer
      <4>. QED  BY <1>0, <1>2, <2>1, <4>1, SoundStays
    <3>2. CASE ~(f.own /\ f.of # Bad)
      BY <2>1, <3>2 DEF SoundAnswer
    <3>. QED  BY <3>1, <3>2
  <2>. QED  BY <1>0, <2>1 DEF IInv, SoundLine, SoundAnswers, client
<1>5. RetInv' /\ OnlyLateTwins' /\ ReadsAreTrue' /\ WritesAreDone'
  <2>1. Returned => call \in Calls
    BY DEF IInv, TypeOK, Returned
  <2>. QED  BY <1>0, <1>2, <2>1, ClientRests
<1>. QED  BY <1>3, <1>4, <1>5 DEF IInv

\* The server answers a request.  An answer of the call's own is the first of
\* it; a request of an earlier call is written only after a call has failed.
LEMMA ServeStep == ASSUME IInv, Serve PROVE IInv'
<1>. USE DEF Serve
<1>. DEFINE h == Head(requests)
            a == modbus_reply(tab, h.of)
            f == Frame(a.rsp, h.own)
<1>0. /\ requests \in Seq(RequestFrames)
      /\ answers \in Seq(AnswerFrames) /\ input \in Seq(AnswerFrames)
      /\ SoundLine /\ Apart /\ tab \in Tables
  BY DEF IInv, LineOK, OneUnderway, TypeOK
<1>1. /\ requests' \in Seq(RequestFrames) /\ Remains(requests', requests)
      /\ Len(requests) \in Nat \ {0} /\ Len(requests') = Len(requests) - 1
      /\ h = requests[1] /\ h \in RequestFrames
      /\ \A k \in 1 .. Len(requests') : k + 1 \in 1 .. Len(requests)
                                        /\ requests'[k] = requests[k + 1]
  BY <1>0, TailRemains
<1>2. /\ UNCHANGED <<client, input>> /\ tab' = a.tab
      /\ answers' = Append(answers, f)
      /\ seen' = seen \cup Observed(tab', call)
  OBVIOUS
<1>3. h.of \in Calls /\ h.own \in BOOLEAN /\ f.of = a.rsp /\ f.own = h.own
  BY <1>1 DEF RequestFrames, Frame
<1>4. tab' \in Tables /\ f \in AnswerFrames
  <2>1. a.rsp \in Replies
    BY <1>0, <1>3 DEF Replies
  <2>. QED  BY <1>0, <1>2, <1>3, <2>1, ReplyTables DEF AnswerFrames, Frame
<1>. HIDE DEF f, a, h
<1>5. /\ answers' \in Seq(AnswerFrames) /\ Len(answers') = Len(answers) + 1
      /\ Len(answers) \in Nat
      /\ answers'[Len(answers) + 1] = f
      /\ \A k \in 1 .. Len(answers) + 1 :
            \/ k = Len(answers) + 1
            \/ k \in 1 .. Len(answers) /\ answers'[k] = answers[k]
      /\ NoOwn(answers) => AtMostOne(answers')
      /\ ~f.own /\ NoOwn(answers) => NoOwn(answers')
      /\ ~f.own /\ AtMostOne(answers) => AtMostOne(answers')
  BY ONLY <1>0, <1>2, <1>4, AppendLine
<1>6. Len(requests') + Len(answers') + Len(input')
         = Len(requests) + Len(answers) + Len(input)
  <2>1. Len(input) \in Nat /\ input' = input
    BY <1>0, <1>2, LenProperties
  <2>. QED  BY <1>1, <1>5, <2>1
<1>7. 1 \in 1 .. Len(requests)
  BY <1>1
<1>8. SoundRequest(h, call, failures)
  BY <1>0, <1>1, <1>7 DEF SoundLine, SoundRequests
<1>9. ~h.own => failures # {}
  BY <1>8 DEF SoundRequest
<1>10. h.own => h.of = call /\ NoOwn(answers) /\ NoOwn(input)
  <2>1. h.own => ~NoOwn(requests)
    BY <1>1, <1>7 DEF NoOwn
  <2>. QED  BY <1>0, <1>8, <2>1 DEF SoundRequest, Apart
<1>11. /\ Answers(a.rsp, h.of)
       /\ a.rsp.fn = h.of.fn =>
            /\ Verdict(h.of) = "ok" /\ tab' = Written(tab, h.of)
            /\ h.of.fn \in Reads => a.rsp.values = Values(tab', h.of)
  BY <1>2, <1>3, ReplyAnswers DEF a
<1>12. TypeOK' /\ LineOK'
  <2>1. TypeOK'
    BY <1>2, <1>4, <1>6 DEF IInv, TypeOK, client
  <2>. QED  BY <1>1, <1>2, <1>5, <1>6, <2>1 DEF IInv, LineOK, client
<1>13. SoundAnswer(f, call, failures, seen', tab')
  <2>1. CASE h.own
    <3>1. Done(a.rsp, call, failures, seen', tab')
      <4>1. SUFFICES ASSUME a.rsp.fn = call.fn
                     PROVE  /\ call.fn \in Reads => a.rsp.values \in seen'
                            /\ Written(tab', call) = tab'
        BY DEF Done
      <4>2. /\ call \in Calls /\ Verdict(call) = "ok"
            /\ tab' = Written(tab, call)
            /\ call.fn \in Reads => a.rsp.values = Values(tab', call)
        BY <1>3, <1>10, <1>11, <2>1, <4>1
      <4>3. call.fn \in Reads => Values(tab', call) \in Observed(tab', call)
        BY <4>2, ClientAssumption DEF Observed
      <4>. QED  BY <1>0, <1>2, <4>2, <4>3, WrittenAgain
    <3>. QED  BY <1>3, <1>10, <1>11, <2>1, <3>1 DEF SoundAnswer
  <2>2. CASE ~h.own
    BY <1>3, <1>8, <1>11, <2>2 DEF SoundAnswer, SoundRequest
  <2>. QED  BY <2>1, <2>2
<1>14. SoundLine'
  <2>1. SoundRequests(requests', call, failures)
    BY <1>0, <1>1, RequestsSound DEF SoundLine
  <2>2. ASSUME NEW s, SoundAnswers(s, call, failures, seen, tab),
               h.own => NoOwn(s)
        PROVE  SoundAnswers(s, call, failures, seen', tab')
    <3>1. ASSUME NEW k \in 1 .. Len(s)
          PROVE  SoundAnswer(s[k], call, failures, seen', tab')
      <4>1. SoundAnswer(s[k], call, failures, seen, tab)
        BY <2>2, <3>1 DEF SoundAnswers
      <4>2. CASE h.own
        <5>1. ~s[k].own
          BY <2>2, <3>1, <4>2 DEF NoOwn
        <5>. QED  BY <4>1, <5>1 DEF SoundAnswer
      <4>3. CASE ~h.own
        BY <1>2, <1>9, <4>1, <4>3, SoundStays
      <4>. QED  BY <4>2, <4>3
    <3>. QED  BY <3>1 DEF SoundAnswers
  <2>3. SoundAnswers(input, call, failures, seen', tab')
    BY <1>0, <1>10, <2>2 DEF SoundLine
  <2>4. SoundAnswers(answers, call, failures, seen', tab')
    BY <1>0, <1>10, <2>2 DEF SoundLine
  <2>5. SoundAnswers(answers', call, failures, seen', tab')
    BY <1>5, <1>13, <2>4 DEF SoundAnswers
  <2>. QED  BY <1>2, <2>1, <2>3, <2>5 DEF SoundLine, client
<1>15. Apart' /\ (NoneUnderway => NoneUnderway')
  <2>1. /\ NoOwn(requests) => NoOwn(requests')
        /\ AtMostOne(requests) => AtMostOne(requests')
    BY <1>1, RemainsOwn
  <2>2. NoOwn(requests) => ~f.own
    BY <1>1, <1>3, <1>7 DEF NoOwn
  <2>3. ASSUME h.own PROVE NoOwn(requests')
    <3>1. requests[1].own
      BY <1>1, <2>3
    <3>2. ASSUME NEW k \in 1 .. Len(requests') PROVE ~requests'[k].own
      <4>1. SUFFICES ASSUME requests[k + 1].own PROVE FALSE
        BY <1>1
      <4>2. k + 1 = 1
        BY <1>0, <1>1, <1>7, <3>1, <4>1 DEF Apart, AtMostOne
      <4>. QED  BY <4>2
    <3>. QED  BY <3>2 DEF NoOwn
  <2>4. CASE h.own
    BY <1>0, <1>2, <1>3, <1>5, <1>10, <2>1, <2>2, <2>3, <2>4
       DEF Apart, NoneUnderway
  <2>5. CASE ~h.own
    BY <1>0, <1>2, <1>3, <1>5, <2>1, <2>5 DEF Apart, NoneUnderway
  <2>. QED  BY <2>4, <2>5
<1>16. OneUnderway' /\ EndInv'
  BY <1>2, <1>15 DEF IInv, OneUnderway, EndInv, client
<1>17. RetInv' /\ OnlyLateTwins' /\ ReadsAreTrue' /\ WritesAreDone'
  <2>1. ASSUME Returned, failures = {}, call.fn \in Writes, ret.rc > 0
        PROVE  FALSE
    <3>1. own
      BY <2>1 DEF IInv, OnlyLateTwins
    <3>2. NoOwn(requests)
      BY <3>1 DEF IInv, OneUnderway, NoneUnderway
    <3>. QED  BY <1>1, <1>7, <1>9, <2>1, <3>2 DEF NoOwn
  <2>. QED  BY <1>2, <2>1, ClientRests
<1>. QED  BY <1>12, <1>14, <1>16, <1>17 DEF IInv

LEMMA InvNext == IInv /\ [Next]_vars => IInv'
<1>. SUFFICES ASSUME IInv, [Next]_vars PROVE IInv'
  OBVIOUS
<1>1. ASSUME NEW q \in Calls, Call(q) PROVE IInv'
  BY <1>1, CallStep
<1>2. CASE Client
  BY <1>2, SendStep, SendFailsStep, SendNothingStep, SendAgainStep,
     ReceiveStep, ReceiveBadStep, TimeOutStep, ReceiveFailsStep, WakeStep
     DEF Client
<1>3. CASE Serve
  BY <1>3, ServeStep
<1>4. CASE Deliver
  BY <1>4, DeliverStep
<1>5. CASE LoseRequest \/ LoseAnswer
  BY <1>5, LoseStep
<1>6. ASSUME NEW v \in Changes, Change(v) PROVE IInv'
  BY <1>6, ChangeStep
<1>7. CASE UNCHANGED vars
  BY <1>7 DEF vars, client, wire, IInv, TypeOK, LineOK, SoundLine, OneUnderway,
              Apart, NoneUnderway, EndInv, RetInv, OnlyLateTwins, ReadsAreTrue,
              WritesAreDone, Returned
<1>. QED  BY <1>1, <1>2, <1>3, <1>4, <1>5, <1>6, <1>7 DEF Next

-----------------------------------------------------------------------------
(* The theorems. *)

\* What is on the line is told apart as the invariant says, whatever is lost,
\* damaged, delayed or left in the queue.
THEOREM Invariant == Spec => []IInv
<1>. QED  BY InvInit, InvNext, PTL DEF Spec

\* The client, its calls and the line have their types, and no call that
\* exceeds the limits of the API reaches the port (the checks of nb at the top
\* of the functions of the API).
THEOREM TypeCorrect == Spec => []TypeOK
<1>1. IInv => TypeOK
  BY DEF IInv
<1>. QED  BY <1>1, Invariant, PTL

\* check_confirmation confirms a call by the answer to another one only if a
\* call of the same function and size has failed.
THEOREM LateTwins == Spec => []OnlyLateTwins
<1>1. IInv => OnlyLateTwins
  BY DEF IInv
<1>. QED  BY <1>1, Invariant, PTL

\* As long as no call has failed, read_io_status and read_registers give the
\* caller what the cells held, together, during the call.
THEOREM TrueReads == Spec => []ReadsAreTrue
<1>1. IInv => ReadsAreTrue
  BY DEF IInv
<1>. QED  BY <1>1, Invariant, PTL

\* As long as no call has failed, a write that reports success (write_single,
\* modbus_write_bits, modbus_write_registers) is in the server's tables.
THEOREM DoneWrites == Spec => []WritesAreDone
<1>1. IInv => WritesAreDone
  BY DEF IInv
<1>. QED  BY <1>1, Invariant, PTL

=============================================================================
