------------------------------ MODULE ModbusTcp ------------------------------
(***************************************************************************)
(* The TCP backends of libmodbus (libmodbus/modbus-tcp.c), with the calls  *)
(* of modbus.c that use them: a program of one thread makes contexts,      *)
(* connects and closes them, listens and accepts, and makes calls.  A      *)
(* context keeps the number of its socket after the socket is closed, and  *)
(* the operating system gives free numbers out again, so a number is not   *)
(* a socket.  The peers answer late, in parts or not at all.               *)
(***************************************************************************)
EXTENDS Integers, Sequences

CONSTANTS
    Contexts,    \* the contexts of the program
    Sockets,     \* socket numbers the operating system gives out
    Ids,         \* UINT16_MAX + 1, the transaction identifiers
    Recoveries,  \* of each context, arguments of modbus_set_error_recovery
    MaxCalls,    \* bound: calls the program makes
    MaxFlight    \* bound: frames underway on a connection

ASSUME TcpAssumption ==
    /\ Sockets \subseteq Nat \ {0}
    /\ Ids \in Nat \ {0}
    /\ Recoveries \in [Contexts -> SUBSET SUBSET {"link", "protocol"}]
    /\ MaxCalls \in Nat /\ MaxFlight \in Nat

VARIABLES
    backend,   \* of each context: "none" before modbus_new_tcp
    recovery,  \* ctx->error_recovery
    s,         \* ctx->s
    up,        \* what the program takes a context for: "no", or connected
               \* as a "client" or a "server"
    listener,  \* the socket modbus_tcp_listen returned, as the program has it
    net,       \* the sockets of the operating system
    t_id,      \* the static variable of _modbus_tcp_build_request_basis
    pc,        \* "idle"; a call: "send", "receive"
    ctx,       \* the context of the call
    asked,     \* history: calls made
    result,    \* history: the call whose answer was returned, 0 a failure
    cut        \* history: part of an answer has been thrown away

contexts == <<backend, recovery, s, up>>
history  == <<asked, result, cut>>
vars == <<contexts, listener, net, t_id, pc, ctx, history>>

-----------------------------------------------------------------------------
(* Sockets. *)

Socket(kind) == [is |-> kind, requests |-> <<>>, way |-> <<>>,
                 half |-> "no", input |-> <<>>, eof |-> FALSE]

Closed    == Socket("closed")
Stream    == Socket("stream")
Listening == Socket("listening")

Open(n)  == {f \in Sockets : n[f].is # "closed"}
Free(n)  == Sockets \ Open(n)

Is(n, f, what) == f \in Sockets /\ n[f].is = what

\* close: a number that is free is refused, and that is not looked at.
close(n, f) == [g \in Sockets |-> IF g = f THEN Closed ELSE n[g]]

\* An end of a connection as rc, the number kept in ctx->s, and the sockets.
Outcome(rc, f, n) == [rc |-> rc, s |-> f, net |-> n]

\* Fault: a socket that cannot be connected is left open.
Fault_tcp_connect(f, n) ==
    {Outcome(-1, f, n), Outcome(-1, -1, n)}
    \cup {Outcome(-1, g, [n EXCEPT ![g] = Stream]) : g \in Free(n)}
    \cup {Outcome(0, g, [n EXCEPT ![g] = Stream]) : g \in Free(n)}

\* _modbus_tcp_connect: Windows sockets cannot be used; or there is no socket;
\* or an option or connect fails, the socket is closed and its number stays in
\* ctx->s; or it is connected.
tcp_connect(f, n) ==
    {Outcome(-1, f, n), Outcome(-1, -1, n)}
    \cup {Outcome(-1, g, close([n EXCEPT ![g] = Stream], g)) : g \in Free(n)}
    \cup {Outcome(0, g, [n EXCEPT ![g] = Stream]) : g \in Free(n)}

\* getaddrinfo's own codes, as this system numbers them.
EAI == 8

\* Fault: the code of getaddrinfo is not returned.
Fault_pi_connect(f, n) ==
    {Outcome(-1, f, n), Outcome(0, f, n)}
    \cup {Outcome(IF f = -1 THEN -1 ELSE 0, f, n)}
    \cup {Outcome(0, g, [n EXCEPT ![g] = Stream]) : g \in Free(n)}

\* _modbus_tcp_pi_connect: no addresses, as getaddrinfo says; or every address fails, each socket
\* being closed, and ctx->s, which is as it was, is tested; or one succeeds.
pi_connect(f, n) ==
    {Outcome(-1, f, n), Outcome(EAI, f, n)}
    \cup {Outcome(IF f = -1 THEN -1 ELSE 0, f, n)}
    \cup {Outcome(0, g, [n EXCEPT ![g] = Stream]) : g \in Free(n)}

modbus_connect(c, n) ==
    IF backend[c] = "tcp" THEN tcp_connect(s[c], n) ELSE pi_connect(s[c], n)

\* _modbus_tcp_flush: what has arrived is read; of a frame of which one part
\* has arrived the other is still to come.
flush(n, f) ==
    IF ~ Is(n, f, "stream") THEN n
    ELSE [n EXCEPT ![f].input = <<>>,
                   ![f].half = IF n[f].half = "kept" THEN "lost" ELSE n[f].half]

Cuts(n, m) == \E f \in Sockets : n[f].half = "kept" /\ m[f].half = "lost"

-----------------------------------------------------------------------------

Init ==
    /\ backend = [c \in Contexts |-> "none"]
    /\ recovery = [c \in Contexts |-> {}]
    /\ s = [c \in Contexts |-> -1]
    /\ up = [c \in Contexts |-> "no"]
    /\ listener = -1
    /\ net = [f \in Sockets |-> Closed]
    /\ t_id = 0
    /\ pc = "idle" /\ ctx \in Contexts
    /\ asked = 0 /\ result = 0 /\ cut = FALSE

-----------------------------------------------------------------------------
(* The life of a context.  The program connects and accepts with a context  *)
(* that is not in use, and closes one before it frees it.                   *)

Resting(c) == pc = "idle" /\ backend[c] # "none" /\ up[c] = "no"

\* modbus_new_tcp and modbus_new_tcp_pi, and modbus_set_error_recovery.  An
\* empty or too long name is refused, and the context made for it freed.
New(c, b, rec) ==
    /\ pc = "idle" /\ backend[c] = "none"
    /\ backend' = [backend EXCEPT ![c] = b]
    /\ recovery' = [recovery EXCEPT ![c] = rec]
    /\ s' = [s EXCEPT ![c] = -1]
    /\ UNCHANGED <<up, listener, net, t_id, pc, ctx, history>>

\* modbus_free does not close the socket.
FreeContext(c) ==
    /\ Resting(c)
    /\ backend' = [backend EXCEPT ![c] = "none"]
    /\ recovery' = [recovery EXCEPT ![c] = {}]
    /\ s' = [s EXCEPT ![c] = -1]
    /\ UNCHANGED <<up, listener, net, t_id, pc, ctx, history>>

\* The program takes 0 for success.
Connect(c) ==
    /\ Resting(c)
    /\ \E o \in modbus_connect(c, net) :
          /\ s' = [s EXCEPT ![c] = o.s]
          /\ net' = o.net
          /\ up' = [up EXCEPT ![c] = IF o.rc = 0 THEN "client" ELSE "no"]
    /\ UNCHANGED <<backend, recovery, listener, t_id, pc, ctx, history>>

\* _modbus_tcp_close: ctx->s keeps the number.
Close(c) ==
    /\ pc = "idle" /\ up[c] # "no"
    /\ net' = close(net, s[c])
    /\ up' = [up EXCEPT ![c] = "no"]
    /\ UNCHANGED <<backend, recovery, s, listener, t_id, pc, ctx, history>>

\* modbus_tcp_listen and modbus_tcp_pi_listen: socket, setsockopt, bind and
\* listen; when one fails the socket is closed (and the next address tried).
Listen ==
    /\ pc = "idle" /\ listener \notin Sockets
    /\ \E f \in Free(net) :
          \/ /\ listener' = f
             /\ net' = [net EXCEPT ![f] = Listening]
          \/ /\ listener' = -1
             /\ net' = close([net EXCEPT ![f] = Listening], f)
    /\ UNCHANGED <<contexts, t_id, pc, ctx, history>>

Accept(c) ==
    /\ Resting(c) /\ Is(net, listener, "listening")
    /\ \E f \in Free(net) :
          /\ s' = [s EXCEPT ![c] = f]
          /\ net' = [net EXCEPT ![f] = Stream]
    /\ up' = [up EXCEPT ![c] = "server"]
    /\ UNCHANGED <<backend, recovery, listener, t_id, pc, ctx, history>>

\* accept fails: the program's listening socket is closed, and forgotten.
AcceptFails(c) ==
    /\ Resting(c) /\ listener \in Sockets
    /\ s' = [s EXCEPT ![c] = -1]
    /\ net' = close(net, listener)
    /\ listener' = 0
    /\ UNCHANGED <<backend, recovery, up, t_id, pc, ctx, history>>

-----------------------------------------------------------------------------
(* A call: a request, and the wait for its confirmation. *)

link     == "link" \in recovery[ctx]
protocol == "protocol" \in recovery[ctx]
here     == net[s[ctx]]

\* _modbus_tcp_build_request_basis: one counter serves all contexts.
Call(c) ==
    /\ pc = "idle" /\ up[c] = "client" /\ asked < MaxCalls
    /\ asked' = asked + 1
    /\ t_id' = IF t_id < Ids - 1 THEN t_id + 1 ELSE 0
    /\ ctx' = c /\ pc' = "send" /\ result' = 0
    /\ UNCHANGED <<contexts, listener, net, cut>>

\* The socket takes all of the request.
Send ==
    /\ pc = "send" /\ Is(net, s[ctx], "stream")
    /\ Len(here.requests) + Len(here.way) + Len(here.input) < MaxFlight
    /\ net' = [net EXCEPT ![s[ctx]].requests =
                             Append(@, [call |-> asked, tid |-> t_id])]
    /\ pc' = "receive"
    /\ UNCHANGED <<contexts, listener, t_id, ctx, history>>

\* The call returns -1.
Fails == pc' = "idle" /\ result' = 0

\* modbus_close and modbus_connect of error recovery: nobody looks at what
\* modbus_connect returns.
Reconnect ==
    \E o \in modbus_connect(ctx, close(net, s[ctx])) :
        /\ s' = [s EXCEPT ![ctx] = o.s]
        /\ net' = o.net
        /\ UNCHANGED <<backend, recovery, up, cut>>

\* _sleep_and_flush.
Flush ==
    /\ net' = flush(net, s[ctx])
    /\ cut' = (cut \/ Cuts(net, net'))
    /\ UNCHANGED contexts

\* send fails.  errno decides how the connection is recovered, which Windows
\* does not set: either may happen.  Then send is tried again.
SendFails ==
    /\ pc = "send"
    /\ IF link THEN UNCHANGED <<pc, result>> /\ (Reconnect \/ Flush)
       ELSE Fails /\ UNCHANGED <<contexts, net, cut>>
    /\ UNCHANGED <<listener, t_id, ctx, asked>>

\* Fault: the identifier is not compared.
Fault_pre_check_confirmation(r) == TRUE

pre_check_confirmation(r) == r.tid = t_id

Rest == [call |-> -1, tid |-> -1]

\* A whole frame has been read.  An answer with the right identifier may still
\* not fit its request (check_confirmation), if it is not the request's own.
Receive ==
    /\ pc = "receive" /\ Is(net, s[ctx], "stream")
    /\ here.input # <<>> /\ Head(here.input) # Rest
    /\ LET r == Head(here.input)
           n == [net EXCEPT ![s[ctx]].input = Tail(@)]
       IN  \/ /\ pre_check_confirmation(r)
              /\ pc' = "idle" /\ result' = r.call
              /\ net' = n /\ UNCHANGED cut
           \/ /\ ~ pre_check_confirmation(r) \/ r.call # asked
              /\ Fails
              /\ net' = IF protocol THEN flush(n, s[ctx]) ELSE n
              /\ cut' = (cut \/ Cuts(n, net'))
    /\ UNCHANGED <<contexts, listener, t_id, ctx, asked>>

\* What is left of an answer is read as the head of one: it may swallow frames
\* behind it, and its identifier may be any.
ReceiveRest ==
    /\ pc = "receive" /\ Is(net, s[ctx], "stream")
    /\ here.input # <<>> /\ Head(here.input) = Rest
    /\ \E k \in DOMAIN here.input :
          LET rest == SubSeq(here.input, k + 1, Len(here.input)) IN
          net' \in {[net EXCEPT ![s[ctx]].input = i] :
                       i \in {rest, <<Rest>> \o rest}}
    /\ pc' = "idle" /\ result' \in {0, -1}
    /\ UNCHANGED <<contexts, listener, t_id, ctx, asked, cut>>

\* select times out: nothing has come within the response time-out, or the
\* rest of a frame not within the byte time-out.  What was read is forgotten.
TimeOut ==
    /\ pc = "receive" /\ Is(net, s[ctx], "stream")
    /\ here.input = <<>> /\ Fails
    /\ net' = IF here.half = "kept" \/ link THEN flush(net, s[ctx]) ELSE net
    /\ cut' = (cut \/ Cuts(net, net'))
    /\ UNCHANGED <<contexts, listener, t_id, ctx, asked>>

\* recv returns 0: the peer has closed the connection.
EndOfFile ==
    /\ pc = "receive" /\ Is(net, s[ctx], "stream")
    /\ here.input = <<>> /\ here.eof /\ Fails
    /\ IF link THEN Reconnect ELSE UNCHANGED <<contexts, net, cut>>
    /\ UNCHANGED <<listener, t_id, ctx, asked>>

\* select or recv fails, as on a closed socket; errno decides again.
ReceiveFails ==
    /\ pc = "receive" /\ Fails
    /\ \/ link /\ Reconnect
       \/ UNCHANGED <<contexts, net, cut>>
    /\ UNCHANGED <<listener, t_id, ctx, asked>>

Returns == SendFails \/ Receive \/ ReceiveRest \/ TimeOut \/ EndOfFile
           \/ ReceiveFails

Program ==
    \/ \E c \in Contexts :
          \/ \E b \in {"tcp", "pi"}, rec \in Recoveries[c] : New(c, b, rec)
          \/ FreeContext(c) \/ Connect(c) \/ Close(c)
          \/ Accept(c) \/ AcceptFails(c) \/ Call(c)
    \/ Listen \/ Send \/ Returns

-----------------------------------------------------------------------------
(* The peers, which are libmodbus servers, and the network. *)

\* modbus_reply: build_response_basis copies the identifier of the request.
Answer(f) ==
    /\ net[f].requests # <<>> /\ ~ net[f].eof
    /\ net' = [net EXCEPT ![f].requests = Tail(@),
                          ![f].way = Append(@, Head(net[f].requests))]

Ignore(f) ==
    /\ net[f].requests # <<>>
    /\ net' = [net EXCEPT ![f].requests = Tail(@)]

PeerCloses(f) ==
    /\ net[f].is = "stream" /\ ~ net[f].eof
    /\ net' = [net EXCEPT ![f].eof = TRUE]

\* The first part of an answer arrives.
DeliverPart(f) ==
    /\ net[f].way # <<>> /\ net[f].half = "no"
    /\ net' = [net EXCEPT ![f].half = "kept"]

\* An answer, or what had not arrived of it, arrives.
Deliver(f) ==
    /\ net[f].way # <<>>
    /\ net' = [net EXCEPT
                  ![f].way = Tail(@), ![f].half = "no",
                  ![f].input = Append(@, IF net[f].half = "lost" THEN Rest
                                         ELSE Head(net[f].way))]

Network ==
    /\ \E f \in Sockets : Answer(f) \/ Ignore(f) \/ PeerCloses(f)
                          \/ DeliverPart(f) \/ Deliver(f)
    /\ UNCHANGED <<contexts, listener, t_id, pc, ctx, history>>

Next == Program \/ Network

Spec == Init /\ [][Next]_vars

-----------------------------------------------------------------------------
(* Properties. *)

\* A frame that carries the identifier of call r.call, the counter having gone
\* round j times between that call and call n, whose identifier is i.
Frames(n, i) == {r \in [call : 1 .. n, tid : 0 .. Ids - 1] :
                    \E j \in Nat : n - r.call + r.tid = i + j * Ids}

Items(n, i, c) == Frames(n, i) \cup IF c THEN {Rest} ELSE {}

SocketStates(n, i, c) ==
    {k \in [is : {"closed", "listening", "stream"},
            requests : Seq(Frames(n, i)), way : Seq(Frames(n, i)),
            half : {"no", "kept", "lost"},
            input : Seq(Items(n, i, c)), eof : BOOLEAN] :
        k.half = "lost" => c}

\* The contexts and sockets have their types; frames carry the identifiers of
\* calls that have been made, and a rest is read only where a part was thrown
\* away; a call is made with a context the program takes for connected.
TypeOK ==
    /\ backend \in [Contexts -> {"none", "tcp", "pi"}]
    /\ recovery \in [Contexts -> SUBSET {"link", "protocol"}]
    /\ s \in [Contexts -> Sockets \cup {-1}]
    /\ up \in [Contexts -> {"no", "client", "server"}]
    /\ listener \in Sockets \cup {-1, 0}
    /\ net \in [Sockets -> SocketStates(asked, t_id, cut)]
    /\ t_id \in 0 .. Ids - 1
    /\ pc \in {"idle", "send", "receive"}
    /\ ctx \in Contexts
    /\ pc # "idle" => up[ctx] = "client" /\ asked > 0
    /\ asked \in Nat /\ result \in Int /\ cut \in BOOLEAN

\* A call returns its own answer, or fails (_modbus_tcp_build_request_basis,
\* _modbus_tcp_pre_check_confirmation): also on a connection that carries late
\* answers of earlier calls, and on a socket that two contexts take for their
\* own.  The identifiers are unique only until the counter has gone round, and
\* only in a stream of which no part has been thrown away.
Transaction == INSTANCE ModbusTransaction WITH waiting <- pc # "idle"

OwnAnswers == Transaction!TSpec

\* Every open socket is one the program can still close, through a context or
\* as the listening socket: whatever fails on the way, none is lost.
SocketsHeld ==
    \A f \in Open(net) : f = listener \/ \E c \in Contexts : s[c] = f

\* A connect that reports success has made a connection, except where
\* _modbus_tcp_pi_connect takes the number of an earlier one for it.
ConnectTells ==
    [][\A c \in Contexts : up[c] = "no" /\ up'[c] = "client" =>
          \/ s'[c] \in Open(net') \ Open(net)
          \/ backend[c] = "pi" /\ s'[c] = s[c] /\ s[c] # -1]_vars

=============================================================================
