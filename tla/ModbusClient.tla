---------------------------- MODULE ModbusClient ----------------------------
(***************************************************************************)
(* The client side of libmodbus (libmodbus/modbus.c) over RTU, on Windows: *)
(* a program calls the functions of the API one after the other; each      *)
(* sends a request, waits for a confirmation and compares the two.  The    *)
(* server answers with modbus_reply.  The line may delay, damage or lose a *)
(* frame, and an RTU frame does not say which request it answers.          *)
(***************************************************************************)
EXTENDS ModbusMap

CONSTANTS
    Calls,      \* calls the program makes, as the request of each
    Recovery,   \* modbus_set_error_recovery: a subset of {"link", "protocol"}
    Changes,    \* words the server's owner puts in its first input register
    MaxFlight,  \* bound: frames on the line and in the input queue
    Bad,        \* a frame that fails check_integrity
    None

ASSUME ClientAssumption ==
    /\ Calls \subseteq {q \in Request : q.fn # 7}
    /\ Recovery \subseteq {"link", "protocol"}
    /\ Changes \subseteq Word
    /\ MaxFlight \in Nat
    /\ None \notin Calls

VARIABLES
    cpc,       \* "idle", "send", "receive"; in _sleep_and_flush: "resend"
               \* before send is tried again, "pause" before a return of -1
    call,      \* the request of the current or last call
    ret,       \* what it returned: rc, and dest where it was filled
    input,     \* frames in the client's input queue
    requests,  \* frames on their way to the server
    answers,   \* frames on their way back
    tab,       \* the server's tables
    seen,      \* history: what the cells the call reads have held during it
    own,       \* history: the answer it took was its own
    failures   \* history: calls that failed after they had sent a request,
               \* since the line was last silent

client == <<cpc, call, ret, own, failures>>
wire   == <<requests, answers>>
vars   == <<client, input, wire, tab, seen>>

-----------------------------------------------------------------------------
(* check_confirmation *)

Reads  == {1, 2, 3, 4, 23}
Writes == {5, 6, 15, 16, 23}

Refusal(r) == r.fn > 128

\* Lengths of the frames, from the slave to the CRC: the one computed from the
\* request, and the one an answer has.
compute_response_length_from_request(q) ==
    IF q.fn \in Reads THEN FrameLength(q) ELSE 8

Length(r) == IF Refusal(r) THEN 5
             ELSE IF r.fn \in Reads THEN 5 + r.bytes ELSE 8

\* req_nb_value and rsp_nb_value: bytes of bits, registers, or 1.
Asked(q) == CASE q.fn \in {1, 2} -> ByteCount(q)
              [] q.fn \in {3, 4, 15, 16, 23} -> q.nb
              [] OTHER -> 1

Given(r) == CASE r.fn \in {1, 2} -> r.bytes
              [] r.fn \in {3, 4, 23} -> r.bytes \div 2
              [] r.fn \in {15, 16} -> r.nb
              [] OTHER -> 1

\* Fault: the values are not counted and the length is not compared.
FaultCount_check_confirmation(q, r) ==
    IF r.fn = q.fn THEN "ok"
    ELSE IF r.fn = q.fn + 128 THEN "exception" ELSE "mismatch"

\* Fault: an exception is looked for in the answers to reads only.
FaultReads_check_confirmation(q, r) ==
    IF r.fn # q.fn + 128 THEN
        IF r.fn = q.fn /\ Asked(q) = Given(r) THEN "ok" ELSE "mismatch"
    ELSE IF q.fn \in Reads THEN "exception" ELSE "ok"

\* A slave id has no length of its own to compare with.  A single write is
\* confirmed by any other: its address and value are not compared.
check_confirmation(q, r) ==
    IF q.fn = 17 \/ Length(r) = compute_response_length_from_request(q) THEN
        IF r.fn = q.fn /\ Asked(q) = Given(r) THEN "ok" ELSE "mismatch"
    ELSE IF Length(r) = 5 /\ r.fn = q.fn + 128 THEN "exception"
    ELSE "mismatch"

\* The values a read puts in dest: bits as many as were asked for, the last
\* byte being filled up with zeros; registers as many as were given.
Dest(q, r) ==
    IF q.fn \notin Reads THEN None
    ELSE [k \in 1 .. (IF q.fn \in {1, 2} THEN q.nb ELSE Given(r)) |->
            IF k <= Len(r.values) THEN r.values[k] ELSE 0]

\* The functions that read bits return nb whenever they do not fail.
Count(q, n) == IF q.fn \in {1, 2} THEN q.nb ELSE n

-----------------------------------------------------------------------------

Frame(f, mine) == [of |-> f, own |-> mine]
Damaged   == Frame(Bad, FALSE)
Others(s) == [k \in DOMAIN s |-> Frame(s[k].of, FALSE)]

Silent == requests = <<>> /\ answers = <<>> /\ input = <<>>
Room   == Len(requests) + Len(answers) + Len(input) < MaxFlight

Observed(t, q) == IF q # None /\ q.fn \in Reads /\ Verdict(q) = "ok"
                  THEN {Values(t, q)} ELSE {}

Failed == [rc |-> -1, dest |-> None]

Init ==
    /\ cpc = "idle" /\ call = None /\ ret = Failed
    /\ input = <<>> /\ requests = <<>> /\ answers = <<>>
    /\ tab = ClearedTables
    /\ seen = {} /\ own = FALSE /\ failures = {}

-----------------------------------------------------------------------------
(* The client. *)

\* The limits of the API: too many values are refused at once (EMBMDATA).
Fits(q) == /\ q.fn \in {1, 2, 3, 4, 15, 16, 23} => q.nb <= Limit(q.fn)
           /\ q.fn = 23 => q.wnb <= MaxRWWriteRegs

\* The program calls a function of the API.
Call(q) ==
    /\ cpc = "idle" /\ Room
    /\ call' = q /\ own' = FALSE
    /\ requests' = Others(requests) /\ answers' = Others(answers)
    /\ input' = Others(input)
    /\ failures' = IF Silent THEN {} ELSE failures
    /\ seen' = Observed(tab, q)
    /\ ret' = Failed
    /\ cpc' = IF Fits(q) THEN "send" ELSE "idle"
    /\ UNCHANGED tab

Send ==
    /\ cpc = "send"
    /\ requests' = Append(requests, Frame(call, TRUE))
    /\ cpc' = "receive"
    /\ UNCHANGED <<call, ret, own, failures, input, answers, tab, seen>>

\* Part of the request was written, which the server takes for damaged
\* (EMBBADDATA); or the port failed and is not to recover.
SendFails ==
    /\ cpc = "send"
    /\ cpc' = "idle"
    /\ UNCHANGED <<call, ret, own, failures, input, wire, tab, seen>>

\* The write took no byte in its second: send_msg returns 0, which is neither
\* waited for nor a failure.
SendNothing ==
    /\ cpc = "send"
    /\ cpc' = "idle"
    /\ ret' = [rc |-> Count(call, 0), dest |-> None]
    /\ UNCHANGED <<call, own, failures, input, wire, tab, seen>>

\* The port failed: recovery sleeps and tries again, or opens the port anew.
\* errno, which decides, is not set by WriteFile.
SendAgain ==
    /\ cpc = "send" /\ "link" \in Recovery
    /\ \/ cpc' = "resend" /\ UNCHANGED input
       \/ cpc' = "send" /\ input' = <<>>
    /\ UNCHANGED <<call, ret, own, failures, wire, tab, seen>>

\* The call returns -1, after _sleep_and_flush if it is to recover.
Fail(from) ==
    /\ cpc' = IF from \in Recovery THEN "pause" ELSE "idle"
    /\ ret' = Failed
    /\ failures' = failures \cup {call}

\* Fault: an answer stays in the queue when it has been accepted.
Fault_Receive ==
    /\ cpc = "receive" /\ input # <<>> /\ Head(input).of # Bad
    /\ own' = Head(input).own
    /\ LET r == Head(input).of IN
       CASE check_confirmation(call, r) = "ok" ->
               /\ cpc' = "idle"
               /\ ret' = [rc |-> Count(call, Given(r)), dest |-> Dest(call, r)]
               /\ UNCHANGED <<failures, input>>
         [] check_confirmation(call, r) = "exception" ->
               /\ cpc' = "idle" /\ ret' = Failed
               /\ failures' = IF own' THEN failures ELSE failures \cup {call}
               /\ input' = Tail(input)
         [] OTHER -> Fail("protocol") /\ input' = Tail(input)
    /\ UNCHANGED <<call, wire, tab, seen>>

\* A whole frame is read, and taken as the answer or not.
Receive ==
    /\ cpc = "receive" /\ input # <<>> /\ Head(input).of # Bad
    /\ input' = Tail(input)
    /\ own' = Head(input).own
    /\ LET r == Head(input).of IN
       CASE check_confirmation(call, r) = "ok" ->
               /\ cpc' = "idle"
               /\ ret' = [rc |-> Count(call, Given(r)), dest |-> Dest(call, r)]
               /\ UNCHANGED failures
         [] check_confirmation(call, r) = "exception" ->
               /\ cpc' = "idle" /\ ret' = Failed
               /\ failures' = IF own' THEN failures ELSE failures \cup {call}
         [] OTHER -> Fail("protocol")
    /\ UNCHANGED <<call, wire, tab, seen>>

\* A frame that fails check_integrity.  Its length field may be the damaged
\* part: bytes of it may be left, and frames behind it may be swallowed.
ReceiveBad ==
    /\ cpc = "receive" /\ input # <<>> /\ Head(input).of = Bad
    /\ \E n \in DOMAIN input :
          LET rest == SubSeq(input, n + 1, Len(input))
          IN  input' \in {rest, <<Damaged>> \o rest}
    /\ cpc' = "idle" /\ ret' = Failed /\ failures' = failures \cup {call}
    /\ UNCHANGED <<call, own, wire, tab, seen>>

\* Fault: recovery waits for the answer again.
Fault_TimeOut ==
    /\ cpc = "receive" /\ input = <<>>
    /\ IF "link" \in Recovery THEN UNCHANGED <<cpc, ret, failures>>
       ELSE Fail("link")
    /\ UNCHANGED <<call, own, input, wire, tab, seen>>

\* No answer within the response time-out.
TimeOut ==
    /\ cpc = "receive" /\ input = <<>>
    /\ Fail("link")
    /\ UNCHANGED <<call, own, input, wire, tab, seen>>

\* ReadFile fails, with whatever errno was left: the call returns -1 as after
\* a time-out, at once, or after the port has been opened anew.
ReceiveFails ==
    /\ cpc = "receive"
    /\ ret' = Failed /\ failures' = failures \cup {call}
    /\ cpc' \in {"idle"} \cup (IF "link" \in Recovery THEN {"pause"} ELSE {})
    /\ input' \in {input} \cup (IF "link" \in Recovery THEN {<<>>} ELSE {})
    /\ UNCHANGED <<call, own, wire, tab, seen>>

\* The end of _sleep_and_flush: FlushFileBuffers waits for output to be sent,
\* and what has been received stays.
Wake ==
    /\ cpc \in {"resend", "pause"}
    /\ cpc' = IF cpc = "resend" THEN "send" ELSE "idle"
    /\ UNCHANGED <<call, ret, own, failures, input, wire, tab, seen>>

Client == \/ Send \/ SendFails \/ SendNothing \/ SendAgain
          \/ Receive \/ ReceiveBad \/ TimeOut \/ ReceiveFails \/ Wake

-----------------------------------------------------------------------------
(* The server and the line. *)

\* modbus_receive and modbus_reply.
Serve ==
    /\ requests # <<>>
    /\ requests' = Tail(requests)
    /\ LET q == Head(requests)
           a == modbus_reply(tab, q.of)
       IN  /\ tab' = a.tab
           /\ answers' = Append(answers, Frame(a.rsp, q.own))
           /\ seen' = seen \cup Observed(a.tab, call)
    /\ UNCHANGED <<client, input>>

\* The server's application sets a register.
Change(v) ==
    /\ tab' = [tab EXCEPT !.input_registers[0] = v]
    /\ seen' = seen \cup Observed(tab', call)
    /\ UNCHANGED <<client, input, wire>>

\* An answer arrives, whole or damaged.
Deliver ==
    /\ answers # <<>>
    /\ answers' = Tail(answers)
    /\ input' \in {Append(input, Head(answers)), Append(input, Damaged)}
    /\ UNCHANGED <<client, requests, tab, seen>>

\* A request is lost, or damaged, which the server ignores.
LoseRequest ==
    /\ requests # <<>> /\ requests' = Tail(requests)
    /\ UNCHANGED <<client, input, answers, tab, seen>>

LoseAnswer ==
    /\ answers # <<>> /\ answers' = Tail(answers)
    /\ UNCHANGED <<client, input, requests, tab, seen>>

Next == \/ \E q \in Calls : Call(q)
        \/ Client \/ Serve \/ Deliver \/ LoseRequest \/ LoseAnswer
        \/ \E v \in Changes : Change(v)

\* The client's thread runs: it reads what arrives, its time-outs expire, its
\* sleeps end; a port that recovers takes a request at last.  No failure is
\* promised, and nothing of the server and the line.
Spec ==
    /\ Init /\ [][Next]_vars
    /\ WF_vars(Receive \/ ReceiveBad) /\ WF_vars(TimeOut) /\ WF_vars(Wake)
    /\ SF_vars(Send)

-----------------------------------------------------------------------------
(* Properties. *)

\* The client, its calls and the line have their types, and no call that
\* exceeds the limits of the API gets as far as the port.
TypeOK ==
    /\ cpc \in {"idle", "send", "receive", "resend", "pause"}
    /\ call \in Calls \cup {None}
    /\ cpc # "idle" => call # None /\ Fits(call)
    /\ ret.rc \in Int
    /\ Len(requests) + Len(answers) + Len(input) <= MaxFlight
    /\ tab \in Tables
    /\ own \in BOOLEAN /\ failures \subseteq Calls

Returned == cpc = "idle" /\ call # None

SameShape(p, q) == p.fn = q.fn /\ Asked(p) = Asked(q)

\* A call is confirmed by the answer to another one only if a call of the same
\* function and size has failed: the late answer to a read of as many values,
\* or to any single write, cannot be told from the one that was waited for,
\* and recovery does not discard it.
OnlyLateTwins ==
    Returned /\ ret.rc > 0 /\ (ret.dest # None \/ call.fn \in Writes) /\ ~own =>
        \E p \in failures : SameShape(p, call)

\* As long as no call has failed, a read returns values that the cells held,
\* together, at a moment between its call and its return.
ReadsAreTrue ==
    Returned /\ failures = {} /\ ret.dest # None => ret.dest \in seen

\* As long as no call has failed, a write that reports success is in the
\* server's tables.
WritesAreDone ==
    Returned /\ failures = {} /\ call.fn \in Writes /\ ret.rc > 0 =>
        Verdict(call) = "ok" /\ Written(tab, call) = tab

\* Every call returns, whatever the server and the line do.
CallsReturn == cpc # "idle" ~> cpc = "idle"

=============================================================================
