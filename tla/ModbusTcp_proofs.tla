-------------------------- MODULE ModbusTcp_proofs --------------------------
(***************************************************************************)
(* Proofs about ModbusTcp: its type invariant, that it implements          *)
(* ModbusTransaction, that no open socket is lost, and what a connect that *)
(* reports success has done, for any contexts, sockets, identifiers and    *)
(* bounds.                                                                 *)
(***************************************************************************)
EXTENDS ModbusTcp, TLAPS

-----------------------------------------------------------------------------
(* Sequences. *)

LEMMA SeqParts ==
    ASSUME NEW S, NEW q \in Seq(S), q # <<>>
    PROVE  Head(q) \in S /\ Tail(q) \in Seq(S)
  OBVIOUS

LEMMA SeqMore ==
    ASSUME NEW S, NEW q \in Seq(S), NEW x \in S
    PROVE  Append(q, x) \in Seq(S)
  OBVIOUS

LEMMA SeqWider ==
    ASSUME NEW S, NEW U, S \subseteq U, NEW q \in Seq(S)
    PROVE  q \in Seq(U)
  OBVIOUS

LEMMA SeqSuffix ==
    ASSUME NEW S, NEW q \in Seq(S), NEW k \in DOMAIN q
    PROVE  SubSeq(q, k + 1, Len(q)) \in Seq(S)
  OBVIOUS

-----------------------------------------------------------------------------
(* Sockets. *)

\* An identifier that is taken again names the same call, or one of Ids calls
\* ago.
LEMMA SameIdentifier ==
    ASSUME NEW n \in Nat, NEW i \in 0 .. Ids - 1, NEW r \in Frames(n, i),
           r.tid = i
    PROVE  r.call \in 1 .. n /\ (r.call = n \/ n - r.call >= Ids)
<1>1. PICK j \in Nat : n - r.call + r.tid = i + j * Ids
  BY DEF Frames
<1>2. r.call \in 1 .. n /\ Ids \in Nat \ {0}
  BY TcpAssumption DEF Frames
<1>3. CASE j = 0
  BY <1>1, <1>2, <1>3
<1>4. CASE j # 0
  <2>1. j * Ids >= Ids
    BY <1>2, <1>4
  <2> QED BY <1>1, <1>2, <2>1
<1> QED BY <1>3, <1>4

LEMMA OneMore ==
    ASSUME NEW n \in Int, NEW a \in Int, NEW b \in Int, NEW x \in Int,
           n - a + b = x
    PROVE  (n + 1) - a + b = x + 1
  OBVIOUS

LEMMA OneLater ==
    ASSUME NEW i \in Int, NEW x \in Int
    PROVE  (i + x) + 1 = (i + 1) + x
  OBVIOUS

LEMMA FrameIntro ==
    ASSUME NEW n, NEW i, NEW r \in [call : 1 .. n, tid : 0 .. Ids - 1],
           NEW j \in Nat, n - r.call + r.tid = i + j * Ids
    PROVE  r \in Frames(n, i)
  BY DEF Frames

\* A call keeps the frames of earlier calls what they are.
LEMMA FramesKept ==
    ASSUME NEW n \in Nat, NEW i \in 0 .. Ids - 1, NEW m \in 0 .. Ids - 1,
           m = IF i < Ids - 1 THEN i + 1 ELSE 0
    PROVE  Frames(n, i) \subseteq Frames(n + 1, m)
<1> SUFFICES ASSUME NEW r \in Frames(n, i) PROVE r \in Frames(n + 1, m)
  OBVIOUS
<1>1. PICK j \in Nat : n - r.call + r.tid = i + j * Ids
  BY DEF Frames
<1>2. /\ r \in [call : 1 .. n + 1, tid : 0 .. Ids - 1]
      /\ r.call \in 1 .. n /\ r.tid \in 0 .. Ids - 1 /\ Ids \in Nat \ {0}
  BY TcpAssumption DEF Frames
<1>3. CASE i < Ids - 1
  <2>1. j * Ids \in Int
    BY <1>2
  <2>2. m = i + 1
    BY <1>3
  <2>3. (n + 1) - r.call + r.tid = (i + j * Ids) + 1
    BY <1>1, <1>2, <2>1, OneMore
  <2>4. (i + j * Ids) + 1 = (i + 1) + j * Ids
    BY <1>2, <2>1, OneLater
  <2>5. (n + 1) - r.call + r.tid = m + j * Ids
    BY Zenon, <2>2, <2>3, <2>4
  <2> QED BY Zenon, <1>2, <2>5, FrameIntro
<1>4. CASE ~ (i < Ids - 1)
  <2>1. (j + 1) * Ids = j * Ids + Ids /\ j * Ids \in Int
    BY <1>2
  <2>2. (n + 1) - r.call + r.tid = (i + j * Ids) + 1
    BY <1>1, <1>2, <2>1, OneMore
  <2>3. (n + 1) - r.call + r.tid = m + (j + 1) * Ids
    BY <1>2, <1>4, <2>1, <2>2
  <2>4. j + 1 \in Nat
    OBVIOUS
  <2> QED BY Zenon, <1>2, <2>3, <2>4, FrameIntro
<1> QED BY <1>3, <1>4

LEMMA SocketsKept ==
    ASSUME NEW n, NEW i, NEW c, NEW m, NEW h, NEW d,
           Frames(n, i) \subseteq Frames(m, h), c \in BOOLEAN, d \in BOOLEAN, c => d
    PROVE  SocketStates(n, i, c) \subseteq SocketStates(m, h, d)
<1> SUFFICES ASSUME NEW k \in SocketStates(n, i, c)
             PROVE  k \in SocketStates(m, h, d)
  OBVIOUS
<1>1. Items(n, i, c) \subseteq Items(m, h, d)
  BY DEF Items
<1>2. /\ k.requests \in Seq(Frames(m, h)) /\ k.way \in Seq(Frames(m, h))
      /\ k.input \in Seq(Items(m, h, d))
  BY <1>1, SeqWider DEF SocketStates
<1> QED BY <1>2 DEF SocketStates

LEMMA ClosedStates ==
    ASSUME NEW n, NEW i, NEW c
    PROVE  {Closed, Stream, Listening} \subseteq SocketStates(n, i, c)
<1>1. <<>> \in Seq(Frames(n, i)) /\ <<>> \in Seq(Items(n, i, c))
  OBVIOUS
<1> QED BY <1>1 DEF Closed, Stream, Listening, Socket, SocketStates

LEMMA CloseKeeps ==
    ASSUME NEW S, Closed \in S, NEW n \in [Sockets -> S], NEW f
    PROVE  close(n, f) \in [Sockets -> S]
  BY DEF close

\* Whatever it comes to, a connect leaves sockets and a number of one.
LEMMA ConnectKeeps ==
    ASSUME TypeOK, NEW a, NEW i, NEW d, NEW c \in Contexts,
           NEW n \in [Sockets -> SocketStates(a, i, d)],
           NEW o \in modbus_connect(c, n)
    PROVE  /\ o.s \in Sockets \cup {-1}
           /\ o.net \in [Sockets -> SocketStates(a, i, d)]
<1>1. Closed \in SocketStates(a, i, d) /\ Stream \in SocketStates(a, i, d)
  BY ClosedStates
<1>2. s[c] \in Sockets \cup {-1}
  BY DEF TypeOK
<1>3. ASSUME NEW g \in Sockets
      PROVE  /\ [n EXCEPT ![g] = Stream] \in [Sockets -> SocketStates(a, i, d)]
             /\ close([n EXCEPT ![g] = Stream], g)
                   \in [Sockets -> SocketStates(a, i, d)]
  BY <1>1, CloseKeeps
<1>4. \A g \in Free(n) : g \in Sockets
  BY DEF Free
<1>5. CASE backend[c] = "tcp"
  <2>1. \/ o \in {Outcome(-1, -1, n), Outcome(-1, s[c], n)}
        \/ \E g \in Free(n) :
              \/ o = Outcome(-1, g, close([n EXCEPT ![g] = Stream], g))
              \/ o = Outcome(0, g, [n EXCEPT ![g] = Stream])
    BY <1>5 DEF modbus_connect, tcp_connect
  <2>2. CASE o \in {Outcome(-1, -1, n), Outcome(-1, s[c], n)}
    BY <1>2, <2>2 DEF Outcome
  <2>3. ASSUME NEW g \in Free(n),
               \/ o = Outcome(-1, g, close([n EXCEPT ![g] = Stream], g))
               \/ o = Outcome(0, g, [n EXCEPT ![g] = Stream])
        PROVE  o.s = g /\ o.net \in [Sockets -> SocketStates(a, i, d)]
    <3>1. CASE o = Outcome(-1, g, close([n EXCEPT ![g] = Stream], g))
      BY <1>3, <1>4, <3>1 DEF Outcome
    <3>2. CASE o = Outcome(0, g, [n EXCEPT ![g] = Stream])
      BY <1>3, <1>4, <3>2 DEF Outcome
    <3> QED BY <2>3, <3>1, <3>2
  <2> QED BY <1>4, <2>1, <2>2, <2>3
<1>6. CASE backend[c] # "tcp"
  BY <1>2, <1>3, <1>4, <1>6 DEF modbus_connect, pi_connect, Outcome
<1> QED BY <1>5, <1>6

\* A flush keeps the sockets, given that a cut is noted.
LEMMA FlushKeeps ==
    ASSUME NEW a, NEW i, NEW c \in BOOLEAN, NEW f,
           NEW n \in [Sockets -> SocketStates(a, i, c)], NEW d \in BOOLEAN,
           d = (c \/ Cuts(n, flush(n, f)))
    PROVE  flush(n, f) \in [Sockets -> SocketStates(a, i, d)]
<1>1. SocketStates(a, i, c) \subseteq SocketStates(a, i, d)
  BY SocketsKept
<1>2. CASE ~ Is(n, f, "stream")
  BY <1>1, <1>2 DEF flush
<1>3. CASE Is(n, f, "stream")
  <2>1. f \in Sockets /\ n[f] \in SocketStates(a, i, c)
    BY <1>3 DEF Is
  <2> DEFINE k == [n[f] EXCEPT !.input = <<>>,
                       !.half = IF n[f].half = "kept" THEN "lost" ELSE n[f].half]
  <2>2. flush(n, f) = [n EXCEPT ![f] = k]
    BY <1>3, <2>1 DEF flush
  <2>3. k.half = "lost" => d
    BY <2>1, <2>2 DEF Cuts, SocketStates
  <2>4. <<>> \in Seq(Items(a, i, d))
    OBVIOUS
  <2>5. k \in SocketStates(a, i, d)
    BY <1>1, <2>1, <2>3, <2>4 DEF SocketStates
  <2> QED BY <1>1, <2>2, <2>5
<1> QED BY <1>2, <1>3

-----------------------------------------------------------------------------
(* The type invariant. *)

LEMMA InitTyped == Init => TypeOK
<1> SUFFICES ASSUME Init PROVE TypeOK
  OBVIOUS
<1>1. net \in [Sockets -> SocketStates(asked, t_id, cut)]
  BY ClosedStates DEF Init
<1>2. t_id \in 0 .. Ids - 1 /\ asked \in Nat /\ result \in Int
  BY TcpAssumption DEF Init
<1>3. /\ backend \in [Contexts -> {"none", "tcp", "pi"}]
      /\ recovery \in [Contexts -> SUBSET {"link", "protocol"}]
      /\ s \in [Contexts -> Sockets \cup {-1}]
      /\ up \in [Contexts -> {"no", "client", "server"}]
      /\ listener \in Sockets \cup {-1, 0}
  BY DEF Init
<1> QED BY <1>1, <1>2, <1>3 DEF Init, TypeOK

\* The actions of the program that make no call.
Between(c) ==
    \/ \E b \in {"tcp", "pi"}, rec \in Recoveries[c] : New(c, b, rec)
    \/ FreeContext(c) \/ Connect(c) \/ Close(c) \/ Accept(c) \/ AcceptFails(c)
    \/ Listen

LEMMA BetweenTyped ==
    ASSUME TypeOK, NEW c \in Contexts, Between(c)
    PROVE  TypeOK'
<1> DEFINE S == SocketStates(asked, t_id, cut)
<1>1. /\ Closed \in S /\ Stream \in S /\ Listening \in S
      /\ net \in [Sockets -> S]
  BY ClosedStates DEF TypeOK
<1>2. UNCHANGED <<t_id, pc, ctx, asked, result, cut>> /\ pc = "idle"
  BY DEF Between, New, FreeContext, Connect, Close, Accept, AcceptFails,
         Listen, Resting, history
<1> SUFFICES ASSUME TRUE
             PROVE  /\ net' \in [Sockets -> S]
                    /\ backend' \in [Contexts -> {"none", "tcp", "pi"}]
                    /\ recovery' \in [Contexts -> SUBSET {"link", "protocol"}]
                    /\ s' \in [Contexts -> Sockets \cup {-1}]
                    /\ up' \in [Contexts -> {"no", "client", "server"}]
                    /\ listener' \in Sockets \cup {-1, 0}
  BY <1>2 DEF TypeOK
<1> HIDE DEF S
<1>3. \A f \in Free(net) : f \in Sockets
  BY DEF Free
<1>4. \A f : close(net, f) \in [Sockets -> S]
  BY <1>1, CloseKeeps
<1>5. CASE \E b \in {"tcp", "pi"}, rec \in Recoveries[c] : New(c, b, rec)
  <2>1. PICK b \in {"tcp", "pi"}, rec \in Recoveries[c] : New(c, b, rec)
    BY <1>5
  <2>2. rec \in SUBSET {"link", "protocol"}
    BY TcpAssumption
  <2> QED BY <1>1, <2>1, <2>2 DEF TypeOK, New
<1>6. CASE FreeContext(c)
  BY <1>1, <1>6 DEF TypeOK, FreeContext
<1>7. CASE Connect(c)
  <2>1. PICK o \in modbus_connect(c, net) :
           /\ s' = [s EXCEPT ![c] = o.s] /\ net' = o.net
           /\ up' = [up EXCEPT ![c] = IF o.rc = 0 THEN "client" ELSE "no"]
    BY <1>7 DEF Connect
  <2>2. o.s \in Sockets \cup {-1} /\ o.net \in [Sockets -> S]
    BY <1>1, ConnectKeeps DEF S
  <2> QED BY <1>7, <2>1, <2>2 DEF TypeOK, Connect
<1>8. CASE Close(c)
  BY <1>4, <1>8 DEF TypeOK, Close, contexts
<1>9. CASE Accept(c)
  BY <1>1, <1>3, <1>9 DEF TypeOK, Accept
<1>10. CASE AcceptFails(c)
  BY <1>4, <1>10 DEF TypeOK, AcceptFails
<1>11. CASE Listen
  <2>1. \A f \in Free(net) :
           /\ [net EXCEPT ![f] = Listening] \in [Sockets -> S]
           /\ close([net EXCEPT ![f] = Listening], f) \in [Sockets -> S]
    BY <1>1, <1>3, CloseKeeps
  <2> QED BY <1>3, <1>11, <2>1 DEF TypeOK, Listen, contexts
<1> QED BY <1>5, <1>6, <1>7, <1>8, <1>9, <1>10, <1>11 DEF Between

\* A recovery by close and connect, the sockets having a type that holds of
\* the calls made, the identifiers used and the cuts.
LEMMA ReconnectTyped ==
    ASSUME TypeOK, Reconnect
    PROVE  /\ s' \in [Contexts -> Sockets \cup {-1}]
           /\ net' \in [Sockets -> SocketStates(asked, t_id, cut)]
<1> DEFINE S == SocketStates(asked, t_id, cut)
<1>1. close(net, s[ctx]) \in [Sockets -> S]
  BY CloseKeeps, ClosedStates DEF TypeOK
<1>2. PICK o \in modbus_connect(ctx, close(net, s[ctx])) :
         s' = [s EXCEPT ![ctx] = o.s] /\ net' = o.net
  BY DEF Reconnect
<1>3. o.s \in Sockets \cup {-1} /\ o.net \in [Sockets -> S]
  BY <1>1, ConnectKeeps DEF TypeOK
<1> QED BY <1>2, <1>3 DEF TypeOK

\* The steps of a call that leave the contexts alone keep the types, if they
\* keep those of the sockets.
LEMMA StepTyped ==
    ASSUME TypeOK, UNCHANGED <<backend, recovery, s, up>>,
           UNCHANGED <<listener, t_id, ctx, asked>>,
           net' \in [Sockets -> SocketStates(asked, t_id, cut')],
           cut' \in BOOLEAN, result' \in Int,
           pc' = "idle" \/ (pc # "idle" /\ pc' \in {"send", "receive"})
    PROVE  TypeOK'
  BY DEF TypeOK

LEMMA CallTyped ==
    ASSUME TypeOK, NEW c \in Contexts, Call(c)
    PROVE  TypeOK'
<1>1. t_id' \in 0 .. Ids - 1 /\ asked' \in Nat /\ asked' = asked + 1
  BY TcpAssumption DEF Call, TypeOK
<1>2. net' \in [Sockets -> SocketStates(asked', t_id', cut')]
  <2>1. Frames(asked, t_id) \subseteq Frames(asked', t_id')
    BY <1>1, FramesKept DEF Call, TypeOK
  <2>2. SocketStates(asked, t_id, cut) \subseteq SocketStates(asked', t_id', cut')
    BY <2>1, SocketsKept DEF Call, TypeOK
  <2> QED BY <2>2 DEF Call, TypeOK
<1> QED BY <1>1, <1>2 DEF Call, TypeOK, contexts

LEMMA SendTyped ==
    ASSUME TypeOK, Send
    PROVE  TypeOK'
<1> DEFINE q == [call |-> asked, tid |-> t_id]
<1>1. q \in Frames(asked, t_id)
  <2>1. asked \in 1 .. asked
    BY DEF TypeOK, Send
  <2>2. asked - asked + t_id = t_id + 0 * Ids
    BY TcpAssumption DEF TypeOK
  <2> QED BY <2>1, <2>2, FrameIntro DEF TypeOK
<1>2. PICK f \in Sockets :
         /\ f = s[ctx]
         /\ net' = [net EXCEPT ![f].requests = Append(@, q)]
  BY DEF Send, Is
<1>3. /\ net[f] \in SocketStates(asked, t_id, cut)
      /\ net[f].requests \in Seq(Frames(asked, t_id))
  BY DEF TypeOK, SocketStates
<1>4. Append(net[f].requests, q) \in Seq(Frames(asked, t_id))
  BY <1>1, <1>3, SeqMore
<1>5. [net[f] EXCEPT !.requests = Append(@, q)] \in SocketStates(asked, t_id, cut)
  BY <1>3, <1>4 DEF SocketStates
<1>6. net' \in [Sockets -> SocketStates(asked, t_id, cut)]
  BY <1>2, <1>5 DEF TypeOK
<1>7. cut' = cut /\ result' = result /\ pc' = "receive" /\ pc # "idle"
  BY DEF Send, history
<1>8. /\ UNCHANGED <<backend, recovery, s, up>>
      /\ UNCHANGED <<listener, t_id, ctx, asked>>
  BY DEF Send, contexts, history
<1>9. cut \in BOOLEAN /\ result \in Int
  BY DEF TypeOK
<1> QED BY <1>6, <1>7, <1>8, <1>9, StepTyped

\* A flush by the current call.
LEMMA FlushTyped ==
    ASSUME TypeOK, NEW n \in [Sockets -> SocketStates(asked, t_id, cut)],
           \/ net' = n /\ cut' = cut
           \/ net' = flush(n, s[ctx]) /\ cut' = (cut \/ Cuts(n, net'))
    PROVE  /\ net' \in [Sockets -> SocketStates(asked, t_id, cut')]
           /\ cut' \in BOOLEAN
<1>1. CASE net' = n /\ cut' = cut
  BY <1>1 DEF TypeOK
<1>2. CASE net' = flush(n, s[ctx]) /\ cut' = (cut \/ Cuts(n, net'))
  BY <1>2, FlushKeeps DEF TypeOK
<1> QED BY <1>1, <1>2

LEMMA SendFailsTyped ==
    ASSUME TypeOK, SendFails
    PROVE  TypeOK'
<1>4. /\ UNCHANGED <<listener, t_id, ctx, asked>> /\ result' \in Int
      /\ pc' = "idle" \/ (pc # "idle" /\ pc' \in {"send", "receive"})
  BY DEF SendFails, Fails, TypeOK
<1>1. CASE Reconnect
  <2>1. cut' = cut /\ UNCHANGED <<backend, recovery, up>>
    BY <1>1 DEF Reconnect
  <2> QED BY <1>1, <2>1, ReconnectTyped DEF SendFails, Fails, TypeOK
<1>2. CASE Flush
  <2>1. /\ net' \in [Sockets -> SocketStates(asked, t_id, cut')]
        /\ cut' \in BOOLEAN
    BY <1>2, FlushTyped DEF Flush, TypeOK
  <2>2. UNCHANGED <<backend, recovery, s, up>>
    BY <1>2 DEF Flush, contexts
  <2> QED BY <1>4, <2>1, <2>2, StepTyped
<1>3. CASE UNCHANGED <<contexts, net, cut>>
  <2>1. /\ net' \in [Sockets -> SocketStates(asked, t_id, cut')]
        /\ cut' \in BOOLEAN /\ UNCHANGED <<backend, recovery, s, up>>
    BY <1>3 DEF TypeOK, contexts
  <2> QED BY <1>4, <2>1, StepTyped
<1> QED BY <1>1, <1>2, <1>3 DEF SendFails

\* Taking the first frames out of an input queue keeps the types.
LEMMA InputKeeps ==
    ASSUME TypeOK, NEW f \in Sockets,
           NEW i \in Seq(Items(asked, t_id, cut))
    PROVE  [net EXCEPT ![f].input = i]
              \in [Sockets -> SocketStates(asked, t_id, cut)]
<1>1. net[f] \in SocketStates(asked, t_id, cut)
  BY DEF TypeOK
<1>2. [net[f] EXCEPT !.input = i] \in SocketStates(asked, t_id, cut)
  BY <1>1 DEF SocketStates
<1> QED BY <1>2 DEF TypeOK

LEMMA ReceiveTyped ==
    ASSUME TypeOK, Receive
    PROVE  /\ TypeOK'
           /\ Head(here.input) \in Frames(asked, t_id)
<1>1. /\ s[ctx] \in Sockets
      /\ here.input \in Seq(Items(asked, t_id, cut)) /\ here.input # <<>>
  BY DEF Receive, Is, TypeOK, SocketStates, here
<1>2. /\ Head(here.input) \in Items(asked, t_id, cut)
      /\ Tail(here.input) \in Seq(Items(asked, t_id, cut))
  BY <1>1, SeqParts
<1>3. Head(here.input) \in Frames(asked, t_id)
  BY <1>2 DEF Receive, Items
<1> DEFINE n == [net EXCEPT ![s[ctx]].input = Tail(@)]
<1>4. n \in [Sockets -> SocketStates(asked, t_id, cut)]
  BY <1>1, <1>2, InputKeeps DEF here
<1>5. /\ \/ net' = n /\ cut' = cut
         \/ net' = flush(n, s[ctx]) /\ cut' = (cut \/ Cuts(n, net'))
         \/ net' = n /\ cut' = (cut \/ Cuts(n, net'))
      /\ pc' = "idle" /\ result' \in {0, Head(here.input).call}
  BY DEF Receive, Fails
<1>6. ~ Cuts(n, n)
  BY DEF Cuts
<1>7. /\ net' \in [Sockets -> SocketStates(asked, t_id, cut')]
      /\ cut' \in BOOLEAN
  BY <1>4, <1>5, <1>6, FlushTyped DEF TypeOK
<1>8. result' \in Int
  BY <1>3, <1>5 DEF Frames
<1>9. UNCHANGED <<backend, recovery, s, up>>
      /\ UNCHANGED <<listener, t_id, ctx, asked>>
  BY DEF Receive, contexts
<1> QED BY <1>3, <1>5, <1>7, <1>8, <1>9, StepTyped

LEMMA ReceiveRestTyped ==
    ASSUME TypeOK, ReceiveRest
    PROVE  TypeOK' /\ cut
<1>1. /\ s[ctx] \in Sockets
      /\ here.input \in Seq(Items(asked, t_id, cut)) /\ here.input # <<>>
  BY DEF ReceiveRest, Is, TypeOK, SocketStates, here
<1>2. Head(here.input) \in Items(asked, t_id, cut)
  BY <1>1, SeqParts
<1>3. Rest \notin Frames(asked, t_id)
  BY DEF Rest, Frames, TypeOK
<1>4. cut
  BY <1>2, <1>3 DEF ReceiveRest, Items
<1>5. PICK k \in DOMAIN here.input :
         LET rest == SubSeq(here.input, k + 1, Len(here.input)) IN
         net' \in {[net EXCEPT ![s[ctx]].input = i] :
                      i \in {rest, <<Rest>> \o rest}}
  BY DEF ReceiveRest
<1> DEFINE rest == SubSeq(here.input, k + 1, Len(here.input))
<1>6. rest \in Seq(Items(asked, t_id, cut))
  BY <1>1, SeqSuffix
<1>7. <<Rest>> \o rest \in Seq(Items(asked, t_id, cut))
  <2>1. <<Rest>> \in Seq(Items(asked, t_id, cut))
    BY <1>4 DEF Items
  <2> HIDE DEF rest
  <2> QED BY <1>6, <2>1
<1>8. net' \in [Sockets -> SocketStates(asked, t_id, cut)]
  <2>1. \E i \in {rest, <<Rest>> \o rest} :
           net' = [net EXCEPT ![s[ctx]].input = i]
    BY <1>5
  <2>2. PICK i \in {rest, <<Rest>> \o rest} :
           net' = [net EXCEPT ![s[ctx]].input = i]
    BY <2>1
  <2>3. i \in Seq(Items(asked, t_id, cut))
    <3> HIDE DEF rest
    <3> QED BY <1>6, <1>7
  <2>4. [net EXCEPT ![s[ctx]].input = i]
           \in [Sockets -> SocketStates(asked, t_id, cut)]
    BY <1>1, <2>3, InputKeeps
  <2> QED BY Zenon, <2>2, <2>4
<1>9. /\ UNCHANGED <<backend, recovery, s, up>>
      /\ UNCHANGED <<listener, t_id, ctx, asked>>
      /\ cut' = cut /\ pc' = "idle" /\ result' \in Int
  BY DEF ReceiveRest, contexts
<1> QED BY <1>4, <1>8, <1>9, StepTyped DEF TypeOK

LEMMA OtherReturnsTyped ==
    ASSUME TypeOK, TimeOut \/ EndOfFile \/ ReceiveFails
    PROVE  TypeOK'
<1>1. CASE TimeOut
  <2>1. \/ net' = net /\ cut' = (cut \/ Cuts(net, net'))
        \/ net' = flush(net, s[ctx]) /\ cut' = (cut \/ Cuts(net, net'))
    BY <1>1 DEF TimeOut
  <2>2. ~ Cuts(net, net)
    BY DEF Cuts
  <2>3. /\ net' \in [Sockets -> SocketStates(asked, t_id, cut')]
        /\ cut' \in BOOLEAN
    BY <2>1, <2>2, FlushTyped DEF TypeOK
  <2>4. /\ UNCHANGED <<backend, recovery, s, up>>
        /\ UNCHANGED <<listener, t_id, ctx, asked>>
        /\ pc' = "idle" /\ result' \in Int
    BY <1>1 DEF TimeOut, Fails, contexts
  <2> QED BY <2>3, <2>4, StepTyped
<1>2. CASE (EndOfFile \/ ReceiveFails) /\ Reconnect
  <2>1. cut' = cut /\ UNCHANGED <<backend, recovery, up>>
    BY <1>2 DEF Reconnect
  <2> QED BY <1>2, <2>1, ReconnectTyped
          DEF EndOfFile, ReceiveFails, Fails, TypeOK
<1>3. CASE (EndOfFile \/ ReceiveFails) /\ UNCHANGED <<contexts, net, cut>>
  <2>1. /\ UNCHANGED <<backend, recovery, s, up>>
        /\ UNCHANGED <<listener, t_id, ctx, asked>>
        /\ pc' = "idle" /\ result' \in Int
        /\ net' \in [Sockets -> SocketStates(asked, t_id, cut')]
        /\ cut' \in BOOLEAN
    BY <1>3 DEF EndOfFile, ReceiveFails, Fails, TypeOK, contexts
  <2> QED BY <2>1, StepTyped
<1> QED BY <1>1, <1>2, <1>3 DEF EndOfFile, ReceiveFails

LEMMA NetworkTyped ==
    ASSUME TypeOK, Network
    PROVE  TypeOK'
<1>1. PICK f \in Sockets : Answer(f) \/ Ignore(f) \/ PeerCloses(f)
                           \/ DeliverPart(f) \/ Deliver(f)
  BY DEF Network
<1> DEFINE F == Frames(asked, t_id)
           I == Items(asked, t_id, cut)
<1>2. /\ net[f] \in SocketStates(asked, t_id, cut)
      /\ net[f].requests \in Seq(F) /\ net[f].way \in Seq(F)
      /\ net[f].input \in Seq(I) /\ F \subseteq I
      /\ net[f].half = "lost" => cut
  BY DEF TypeOK, SocketStates, Items
<1>3. \E k \in SocketStates(asked, t_id, cut) : net' = [net EXCEPT ![f] = k]
  <2>1. CASE Answer(f)
    <3> DEFINE k == [net[f] EXCEPT !.requests = Tail(@),
                         !.way = Append(@, Head(net[f].requests))]
    <3>1. /\ Tail(net[f].requests) \in Seq(F)
          /\ Append(net[f].way, Head(net[f].requests)) \in Seq(F)
      BY <1>2, <2>1, SeqParts, SeqMore DEF Answer
    <3>2. k \in SocketStates(asked, t_id, cut)
      BY <1>2, <3>1 DEF SocketStates
    <3>3. net' = [net EXCEPT ![f] = k]
      BY <2>1 DEF Answer, TypeOK
    <3> QED BY <3>2, <3>3
  <2>2. CASE Ignore(f)
    <3> DEFINE k == [net[f] EXCEPT !.requests = Tail(@)]
    <3>1. Tail(net[f].requests) \in Seq(F)
      BY <1>2, <2>2, SeqParts DEF Ignore
    <3>2. k \in SocketStates(asked, t_id, cut)
      BY <1>2, <3>1 DEF SocketStates
    <3>3. net' = [net EXCEPT ![f] = k]
      BY <2>2 DEF Ignore, TypeOK
    <3> QED BY <3>2, <3>3
  <2>3. CASE PeerCloses(f)
    <3> DEFINE k == [net[f] EXCEPT !.eof = TRUE]
    <3>1. k \in SocketStates(asked, t_id, cut)
      BY <1>2 DEF SocketStates
    <3>2. net' = [net EXCEPT ![f] = k]
      BY <2>3 DEF PeerCloses, TypeOK
    <3> QED BY <3>1, <3>2
  <2>4. CASE DeliverPart(f)
    <3> DEFINE k == [net[f] EXCEPT !.half = "kept"]
    <3>1. k \in SocketStates(asked, t_id, cut)
      BY <1>2 DEF SocketStates
    <3>2. net' = [net EXCEPT ![f] = k]
      BY <2>4 DEF DeliverPart, TypeOK
    <3> QED BY <3>1, <3>2
  <2>5. CASE Deliver(f)
    <3> DEFINE x == IF net[f].half = "lost" THEN Rest ELSE Head(net[f].way)
               k == [net[f] EXCEPT !.way = Tail(@), !.half = "no",
                                   !.input = Append(@, x)]
    <3>1. Tail(net[f].way) \in Seq(F) /\ x \in I
      BY <1>2, <2>5, SeqParts DEF Deliver, Items
    <3>2. Append(net[f].input, x) \in Seq(I)
      BY <1>2, <3>1, SeqMore
    <3>3. k \in SocketStates(asked, t_id, cut)
      <4> HIDE DEF x
      <4> QED BY <1>2, <3>1, <3>2 DEF SocketStates
    <3>4. net' = [net EXCEPT ![f] = k]
      BY <2>5 DEF Deliver, TypeOK
    <3> QED BY <3>3, <3>4
  <2> QED BY <1>1, <2>1, <2>2, <2>3, <2>4, <2>5
<1>4. net' \in [Sockets -> SocketStates(asked, t_id, cut)]
  BY <1>3 DEF TypeOK
<1> QED BY <1>4 DEF Network, TypeOK, contexts, history

LEMMA NextTyped ==
    ASSUME TypeOK, [Next]_vars
    PROVE  TypeOK'
<1>1. ASSUME NEW c \in Contexts, Between(c) PROVE TypeOK'
  BY <1>1, BetweenTyped
<1>2. ASSUME NEW c \in Contexts, Call(c) PROVE TypeOK'
  BY <1>2, CallTyped
<1>3. CASE Send
  BY <1>3, SendTyped
<1>4. CASE Returns
  BY <1>4, SendFailsTyped, ReceiveTyped, ReceiveRestTyped, OtherReturnsTyped
     DEF Returns
<1>5. CASE Network
  BY <1>5, NetworkTyped
<1>6. CASE UNCHANGED vars
  BY <1>6 DEF TypeOK, vars, contexts, history
<1>7. Contexts # {}
  BY DEF TypeOK
<1>8. Program => \/ \E c \in Contexts : Between(c) \/ Call(c)
                 \/ Send \/ Returns
  BY <1>7 DEF Program, Between
<1> QED BY <1>1, <1>2, <1>3, <1>4, <1>5, <1>6, <1>8 DEF Next

\* The variables of the contexts and sockets have their types
\* (modbus-tcp.c:99-133, 241-340), for any contexts, sockets and identifiers.
THEOREM TypeCorrect == Spec => []TypeOK
<1>1. Init => TypeOK
  BY InitTyped
<1>2. TypeOK /\ [Next]_vars => TypeOK'
  BY NextTyped
<1> QED BY <1>1, <1>2, PTL DEF Spec

-----------------------------------------------------------------------------
(* The calls implement ModbusTransaction. *)

\* Every step of the program and the network is a step of the transaction, or
\* leaves it alone.
LEMMA StepRefines ==
    ASSUME TypeOK, [Next]_vars
    PROVE  [Transaction!TNext]_(Transaction!tvars)
<1> USE DEF Transaction!Failure, Transaction!Anything
<1>1. ASSUME NEW c \in Contexts, Call(c) PROVE Transaction!Ask
  BY <1>1 DEF Call, Transaction!Ask
<1>2. CASE SendFails
  <2>1. CASE link
    <3>1. UNCHANGED <<pc, result, asked>> /\ pc # "idle"
          /\ (cut' = cut \/ cut' = TRUE)
      BY <1>2, <2>1 DEF SendFails, Reconnect, Flush, TypeOK
    <3> QED BY <3>1 DEF Transaction!Discard, Transaction!TNext, Transaction!tvars
  <2>2. CASE ~link
    BY <1>2, <2>2 DEF SendFails, Fails, Transaction!Fail, Transaction!TNext
  <2> QED BY <2>1, <2>2
<1>3. CASE Receive
  <2>1. Head(here.input) \in Frames(asked, t_id)
    BY <1>3, ReceiveTyped
  <2> DEFINE r == Head(here.input)
  <2>2. CASE /\ pre_check_confirmation(r)
             /\ pc' = "idle" /\ result' = r.call /\ UNCHANGED cut
    <3>1. r.call \in 1 .. asked /\ (r.call = asked \/ asked - r.call >= Ids)
      BY <2>1, <2>2, SameIdentifier DEF pre_check_confirmation, TypeOK
    <3>2. Transaction!Take(r.call)
      BY <1>3, <2>2, <3>1 DEF Receive, Transaction!Take, Transaction!MayTake
    <3> QED BY <3>1, <3>2 DEF Transaction!TNext
  <2>3. CASE Fails /\ cut' \in {cut, TRUE}
    BY <1>3, <2>3 DEF Receive, Fails, Transaction!Fail, Transaction!TNext
  <2> QED BY <1>3, <2>2, <2>3 DEF Receive, TypeOK
<1>4. CASE ReceiveRest
  BY <1>4, ReceiveRestTyped DEF ReceiveRest, Transaction!Fail,
     Transaction!TakeAnything, Transaction!TNext
<1>5. CASE TimeOut \/ EndOfFile \/ ReceiveFails
  <2>1. Fails /\ cut' \in {cut, TRUE} /\ pc # "idle" /\ asked' = asked
    BY <1>5 DEF TimeOut, EndOfFile, ReceiveFails, Reconnect, TypeOK
  <2> QED BY <2>1 DEF Fails, Transaction!Fail, Transaction!TNext
<1>6. CASE \/ \E c \in Contexts : Between(c)
           \/ Send \/ Network \/ UNCHANGED vars
  <2>1. UNCHANGED <<asked, result, cut>> /\ ((pc = "idle") <=> (pc' = "idle"))
    BY <1>6 DEF Between, New, FreeContext, Connect, Close, Accept, AcceptFails,
       Listen, Send, Network, vars, history
  <2> QED BY <2>1 DEF Transaction!tvars
<1>7. Contexts # {}
  BY DEF TypeOK
<1>8. Program => \/ \E c \in Contexts : Between(c) \/ Call(c)
                 \/ Send \/ Returns
  BY <1>7 DEF Program, Between
<1> QED BY <1>1, <1>2, <1>3, <1>4, <1>5, <1>6, <1>8
        DEF Next, Returns, Transaction!TNext

\* A call over TCP returns its own answer or fails, unless identifiers have
\* come round or part of an answer was thrown away: ModbusTcp implements
\* ModbusTransaction (modbus-tcp.c:99-133, 194-208), for any contexts, sockets
\* and recoveries.
THEOREM CallsAreTransactions == Spec => OwnAnswers
<1>1. Init => Transaction!TInit
  BY DEF Init, Transaction!TInit, Transaction!Failure
<1>2. TypeOK /\ [Next]_vars => [Transaction!TNext]_(Transaction!tvars)
  BY StepRefines
<1> QED BY <1>1, <1>2, TypeCorrect, PTL DEF Spec, OwnAnswers, Transaction!TSpec

-----------------------------------------------------------------------------
(* No open socket is lost. *)

\* The open sockets are the listening one and those of contexts the program
\* takes for connected, which exist.
Held ==
    /\ \A f \in Open(net) :
          f = listener \/ \E c \in Contexts : s[c] = f /\ up[c] # "no"
    /\ \A c \in Contexts : backend[c] = "none" => up[c] = "no"

LEMMA CloseOpens ==
    ASSUME NEW n, NEW g
    PROVE  Open(close(n, g)) = Open(n) \ {g}
  BY DEF Open, close, Closed, Socket

LEMMA MakeOpens ==
    ASSUME NEW S, NEW n \in [Sockets -> S], NEW g \in Sockets
    PROVE  /\ Open([n EXCEPT ![g] = Stream]) = Open(n) \cup {g}
           /\ Open([n EXCEPT ![g] = Listening]) = Open(n) \cup {g}
  BY DEF Open, Stream, Listening, Socket

\* What a connect may open is the socket it returns.
LEMMA ConnectOpens ==
    ASSUME NEW S, NEW c, NEW n \in [Sockets -> S], NEW o \in modbus_connect(c, n)
    PROVE  /\ o.rc = 0 => Open(o.net) \subseteq Open(n) \cup {o.s}
           /\ o.rc # 0 => Open(o.net) \subseteq Open(n)
<1>1. \/ o.net = n
      \/ \E g \in Free(n) : o = Outcome(-1, g, close([n EXCEPT ![g] = Stream], g))
      \/ \E g \in Free(n) : o = Outcome(0, g, [n EXCEPT ![g] = Stream])
  <2>1. CASE backend[c] = "tcp"
    BY <2>1 DEF modbus_connect, tcp_connect, Outcome
  <2>2. CASE backend[c] # "tcp"
    BY <2>2 DEF modbus_connect, pi_connect, Outcome
  <2> QED BY <2>1, <2>2
<1>2. CASE o.net = n
  BY <1>2
<1>3. ASSUME NEW g \in Free(n),
             o = Outcome(-1, g, close([n EXCEPT ![g] = Stream], g))
      PROVE  Open(o.net) \subseteq Open(n)
  <2> DEFINE x == [n EXCEPT ![g] = Stream]
  <2>1. Open(x) = Open(n) \cup {g}
    BY MakeOpens DEF Free
  <2>2. Open(close(x, g)) = Open(x) \ {g}
    BY CloseOpens
  <2>3. o.net = close(x, g)
    BY <1>3 DEF Outcome
  <2> QED BY <2>1, <2>2, <2>3
<1>4. ASSUME NEW g \in Free(n), o = Outcome(0, g, [n EXCEPT ![g] = Stream])
      PROVE  o.rc = 0 /\ Open(o.net) \subseteq Open(n) \cup {o.s}
  BY <1>4, MakeOpens DEF Outcome, Free
<1> QED BY <1>1, <1>2, <1>3, <1>4

\* A recovery opens at most the socket of the context, which stays connected
\* for the program.
LEMMA ReconnectHeld ==
    ASSUME TypeOK, Held, pc # "idle", Reconnect, listener' = listener
    PROVE  Held'
<1>1. close(net, s[ctx]) \in [Sockets -> SocketStates(asked, t_id, cut)]
  BY CloseKeeps, ClosedStates DEF TypeOK
<1>2. PICK o \in modbus_connect(ctx, close(net, s[ctx])) :
         s' = [s EXCEPT ![ctx] = o.s] /\ net' = o.net
  BY DEF Reconnect
<1>3. Open(net') \subseteq (Open(net) \ {s[ctx]}) \cup {s'[ctx]}
  <2>1. Open(close(net, s[ctx])) = Open(net) \ {s[ctx]}
    BY CloseOpens
  <2>2. Open(o.net) \subseteq Open(close(net, s[ctx])) \cup {o.s}
    BY <1>1, ConnectOpens
  <2>3. net' = o.net /\ s'[ctx] = o.s
    BY <1>2 DEF TypeOK
  <2> QED BY <2>1, <2>2, <2>3
<1>4. up[ctx] # "no" /\ UNCHANGED <<backend, up>> /\ ctx \in Contexts
  BY DEF TypeOK, Reconnect
<1>5. \A c \in Contexts : c # ctx => s'[c] = s[c]
  BY <1>2 DEF TypeOK
<1> QED BY <1>3, <1>4, <1>5 DEF Held

LEMMA BetweenHeld ==
    ASSUME TypeOK, Held, NEW c \in Contexts, Between(c)
    PROVE  Held'
<1>1. CASE \E b \in {"tcp", "pi"}, rec \in Recoveries[c] : New(c, b, rec)
  BY <1>1 DEF New, Held, TypeOK, Open
<1>2. CASE FreeContext(c)
  BY <1>2 DEF FreeContext, Resting, Held, TypeOK, Open
<1>3. CASE Connect(c)
  <2>1. PICK o \in modbus_connect(c, net) :
           /\ s' = [s EXCEPT ![c] = o.s] /\ net' = o.net
           /\ up' = [up EXCEPT ![c] = IF o.rc = 0 THEN "client" ELSE "no"]
    BY <1>3 DEF Connect
  <2>2. /\ o.rc = 0 => Open(net') \subseteq Open(net) \cup {o.s}
        /\ o.rc # 0 => Open(net') \subseteq Open(net)
    BY <2>1, ConnectOpens DEF TypeOK
  <2>3. /\ up[c] = "no" /\ backend[c] # "none"
        /\ UNCHANGED <<backend, listener>>
    BY <1>3 DEF Connect, Resting
  <2>4. /\ s'[c] = o.s /\ (o.rc = 0 => up'[c] # "no")
        /\ \A d \in Contexts : d # c => s'[d] = s[d] /\ up'[d] = up[d]
    BY <2>1 DEF TypeOK
  <2> QED BY <2>2, <2>3, <2>4 DEF Held
<1>4. CASE Close(c)
  <2>1. Open(net') = Open(net) \ {s[c]}
    BY <1>4, CloseOpens DEF Close
  <2>2. \A d \in Contexts : d # c => up'[d] = up[d]
    BY <1>4 DEF Close, TypeOK
  <2>3. UNCHANGED <<backend, s, listener>> /\ up'[c] = "no"
    BY <1>4 DEF Close, TypeOK
  <2> QED BY <2>1, <2>2, <2>3 DEF Held
<1>5. CASE Accept(c)
  <2>1. PICK f \in Free(net) : s' = [s EXCEPT ![c] = f]
                               /\ net' = [net EXCEPT ![f] = Stream]
    BY <1>5 DEF Accept
  <2>2. Open(net') = Open(net) \cup {f}
    BY <2>1, MakeOpens DEF Free, TypeOK
  <2>3. /\ up[c] = "no" /\ backend[c] # "none" /\ s'[c] = f /\ up'[c] # "no"
        /\ UNCHANGED <<backend, listener>>
        /\ \A d \in Contexts : d # c => s'[d] = s[d] /\ up'[d] = up[d]
    BY <1>5, <2>1 DEF Accept, Resting, TypeOK
  <2> QED BY <2>2, <2>3 DEF Held
<1>6. CASE AcceptFails(c)
  <2>1. Open(net') = Open(net) \ {listener}
    BY <1>6, CloseOpens DEF AcceptFails
  <2>2. /\ up[c] = "no" /\ UNCHANGED <<backend, up>>
        /\ \A d \in Contexts : d # c => s'[d] = s[d]
    BY <1>6 DEF AcceptFails, Resting, TypeOK
  <2> QED BY <2>1, <2>2 DEF Held
<1>7. CASE Listen
  <2>1. PICK f \in Free(net) :
           \/ listener' = f /\ net' = [net EXCEPT ![f] = Listening]
           \/ net' = close([net EXCEPT ![f] = Listening], f)
    BY <1>7 DEF Listen
  <2>2. f \in Sockets /\ f \notin Open(net)
    BY DEF Free
  <2>3. \/ listener' = f /\ Open(net') = Open(net) \cup {f}
        \/ Open(net') = (Open(net) \cup {f}) \ {f}
    <3> DEFINE x == [net EXCEPT ![f] = Listening]
    <3>1. Open(x) = Open(net) \cup {f}
      BY <2>2, MakeOpens DEF TypeOK
    <3>2. Open(close(x, f)) = Open(x) \ {f}
      BY CloseOpens
    <3> QED BY <2>1, <3>1, <3>2
  <2>4. listener \notin Open(net) /\ UNCHANGED <<backend, s, up>>
    BY <1>7 DEF Listen, Open, contexts
  <2> QED BY <2>3, <2>4 DEF Held
<1> QED BY <1>1, <1>2, <1>3, <1>4, <1>5, <1>6, <1>7 DEF Between

\* The other steps open and close no socket.
LEMMA SameHeld ==
    ASSUME Held, UNCHANGED <<backend, s, up, listener>>, Open(net') = Open(net)
    PROVE  Held'
  BY DEF Held

LEMMA FlushOpens ==
    ASSUME NEW n, DOMAIN n = Sockets, NEW f
    PROVE  Open(flush(n, f)) = Open(n)
  BY DEF flush, Open

LEMMA CallHeld ==
    ASSUME TypeOK, Held,
           \/ \E c \in Contexts : Call(c)
           \/ Send \/ Returns \/ Network \/ UNCHANGED vars
    PROVE  Held'
<1>1. CASE \/ \E c \in Contexts : Call(c)
           \/ UNCHANGED vars
  BY <1>1, SameHeld DEF Call, contexts, vars, Open
<1>2. CASE Send
  BY <1>2, SameHeld DEF Send, contexts, Open, TypeOK
<1>3. CASE (SendFails \/ EndOfFile \/ ReceiveFails) /\ Reconnect
  <2>1. pc # "idle" /\ listener' = listener
    BY <1>3 DEF SendFails, EndOfFile, ReceiveFails
  <2> QED BY <1>3, <2>1, ReconnectHeld
<1>4. CASE SendFails /\ Flush
  BY <1>4, SameHeld, FlushOpens DEF SendFails, Flush, contexts, TypeOK
<1>5. CASE (SendFails \/ EndOfFile \/ ReceiveFails) /\ UNCHANGED <<contexts, net>>
  BY <1>5, SameHeld DEF SendFails, EndOfFile, ReceiveFails, contexts, Open
<1>6. CASE Receive
  <2> DEFINE n == [net EXCEPT ![s[ctx]].input = Tail(@)]
  <2>1. net' = n \/ net' = flush(n, s[ctx])
    BY <1>6 DEF Receive
  <2>2. DOMAIN n = Sockets /\ \A f \in Sockets : n[f].is = net[f].is
    BY DEF TypeOK
  <2>4. Open(n) = Open(net)
    BY <2>2 DEF Open
  <2>3. Open(net') = Open(net)
    <3> HIDE DEF n
    <3> QED BY <2>1, <2>2, <2>4, FlushOpens
  <2> QED BY <1>6, <2>3, SameHeld DEF Receive, contexts
<1>7. CASE ReceiveRest
  <2>1. \E i : net' = [net EXCEPT ![s[ctx]].input = i]
    BY <1>7 DEF ReceiveRest
  <2>2. Open(net') = Open(net)
    BY <2>1 DEF Open, TypeOK
  <2> QED BY <1>7, <2>2, SameHeld DEF ReceiveRest, contexts
<1>8. CASE TimeOut
  <2>1. Open(net') = Open(net)
    BY <1>8, FlushOpens DEF TimeOut, TypeOK
  <2> QED BY <1>8, <2>1, SameHeld DEF TimeOut, contexts
<1>9. CASE Network
  <2>1. PICK f \in Sockets : Answer(f) \/ Ignore(f) \/ PeerCloses(f)
                             \/ DeliverPart(f) \/ Deliver(f)
    BY <1>9 DEF Network
  <2>2. Open(net') = Open(net)
    <3>1. CASE Answer(f)
      BY <3>1 DEF Answer, Open, TypeOK
    <3>2. CASE Ignore(f)
      BY <3>2 DEF Ignore, Open, TypeOK
    <3>3. CASE PeerCloses(f)
      BY <3>3 DEF PeerCloses, Open, TypeOK
    <3>4. CASE DeliverPart(f)
      BY <3>4 DEF DeliverPart, Open, TypeOK
    <3>5. CASE Deliver(f)
      BY <3>5 DEF Deliver, Open, TypeOK
    <3> QED BY <2>1, <3>1, <3>2, <3>3, <3>4, <3>5
  <2> QED BY <1>9, <2>2, SameHeld DEF Network, contexts
<1> QED BY <1>1, <1>2, <1>3, <1>4, <1>5, <1>6, <1>7, <1>8, <1>9
        DEF Returns, SendFails, EndOfFile, ReceiveFails

\* Every open socket is the listening one or that of a context, whatever
\* fails in between (modbus-tcp.c:241-340, 387-560).
THEOREM NoSocketIsLost == Spec => []SocketsHeld
<1>1. Init => Held
  BY DEF Init, Held, Open, Closed, Socket
<1>2. TypeOK /\ Held /\ [Next]_vars => Held'
  <2> SUFFICES ASSUME TypeOK, Held, [Next]_vars PROVE Held'
    OBVIOUS
  <2>1. \/ \E c \in Contexts : Between(c) \/ Call(c)
        \/ Send \/ Returns \/ Network \/ UNCHANGED vars
    BY DEF Next, Program, Between, TypeOK
  <2> QED BY <2>1, BetweenHeld, CallHeld
<1>3. Held => SocketsHeld
  BY DEF Held, SocketsHeld
<1> QED BY <1>1, <1>2, <1>3, TypeCorrect, PTL DEF Spec

-----------------------------------------------------------------------------
(* A connect that reports success has made a connection, but for one case. *)

\* What a connect with the result 0 leaves: a socket that was free is open, or
\* modbus_new_tcp_pi's context has kept the number it had.
LEMMA ConnectResult ==
    ASSUME TypeOK, NEW c \in Contexts, NEW o \in modbus_connect(c, net), o.rc = 0
    PROVE  \/ o.s \in Open(o.net) \ Open(net)
           \/ backend[c] # "tcp" /\ o.s = s[c] /\ s[c] # -1
<1>1. ASSUME NEW g \in Free(net), o = Outcome(0, g, [net EXCEPT ![g] = Stream])
      PROVE  o.s \in Open(o.net) \ Open(net)
  <2>1. o.s = g /\ o.net = [net EXCEPT ![g] = Stream]
    BY <1>1 DEF Outcome
  <2>2. g \in Sockets /\ g \notin Open(net)
    BY DEF Free
  <2>3. Open(o.net) = Open(net) \cup {g}
    BY <2>1, <2>2, MakeOpens DEF TypeOK
  <2>. QED  BY <2>1, <2>2, <2>3
<1>2. CASE backend[c] = "tcp"
  <2>1. \/ o \in {Outcome(-1, -1, net), Outcome(-1, s[c], net)}
        \/ \E g \in Free(net) :
              o = Outcome(-1, g, close([net EXCEPT ![g] = Stream], g))
        \/ \E g \in Free(net) : o = Outcome(0, g, [net EXCEPT ![g] = Stream])
    BY <1>2 DEF modbus_connect, tcp_connect
  <2>2. \A g, n : Outcome(-1, g, n).rc = -1
    BY DEF Outcome
  <2>3. \E g \in Free(net) : o = Outcome(0, g, [net EXCEPT ![g] = Stream])
    BY <2>1, <2>2
  <2>. QED  BY <1>1, <2>3
<1>3. CASE backend[c] # "tcp"
  <2>1. \/ o = Outcome(IF s[c] = -1 THEN -1 ELSE 0, s[c], net)
        \/ \E g \in Free(net) : o = Outcome(0, g, [net EXCEPT ![g] = Stream])
    BY <1>3 DEF modbus_connect, pi_connect, Outcome, EAI
  <2>2. ASSUME o = Outcome(IF s[c] = -1 THEN -1 ELSE 0, s[c], net)
        PROVE  o.s = s[c] /\ s[c] # -1
    BY <2>2 DEF Outcome
  <2>. QED  BY <1>1, <1>3, <2>1, <2>2
<1>. QED  BY <1>2, <1>3

\* When the program takes a context for connected it has a new connection,
\* except where _modbus_tcp_pi_connect takes the number of an earlier one for
\* it (modbus-tcp.c:241-340).
THEOREM ConnectIsTrue == Spec => ConnectTells
<1>. DEFINE Tells == \A c \in Contexts : up[c] = "no" /\ up'[c] = "client" =>
                        \/ s'[c] \in Open(net') \ Open(net)
                        \/ backend[c] = "pi" /\ s'[c] = s[c] /\ s[c] # -1
<1>1. TypeOK /\ [Next]_vars => [Tells]_vars
  <2>. SUFFICES ASSUME TypeOK, Next, NEW c \in Contexts,
                       up[c] = "no", up'[c] = "client"
                PROVE  \/ s'[c] \in Open(net') \ Open(net)
                       \/ backend[c] = "pi" /\ s'[c] = s[c] /\ s[c] # -1
    OBVIOUS
  <2>1. Connect(c)
    <3>1. \/ \E d \in Contexts : Between(d) \/ Call(d)
          \/ Send \/ Returns \/ Network
      BY DEF Next, Program, Between, TypeOK
    <3>2. CASE \/ \E d \in Contexts : Call(d)
               \/ Send \/ Returns \/ Network
      <4>1. up' = up
        BY <3>2 DEF Call, Send, Returns, SendFails, Receive, ReceiveRest, TimeOut,
                    EndOfFile, ReceiveFails, Reconnect, Flush, Network, contexts
      <4>. QED  BY <4>1
    <3>3. ASSUME NEW d \in Contexts, Between(d) PROVE Connect(c)
      <4>1. CASE Connect(d)
        <5>1. d = c
          BY <4>1 DEF Connect, TypeOK
        <5>. QED  BY <4>1, <5>1
      <4>2. CASE \/ Close(d) \/ Accept(d)
        BY <4>2 DEF Close, Accept, TypeOK
      <4>3. CASE ~(Connect(d) \/ Close(d) \/ Accept(d))
        <5>1. up' = up
          BY <3>3, <4>3 DEF Between, New, FreeContext, AcceptFails, Listen, contexts
        <5>. QED  BY <5>1
      <4>. QED  BY <4>1, <4>2, <4>3
    <3>. QED  BY <3>1, <3>2, <3>3
  <2>2. PICK o \in modbus_connect(c, net) :
           /\ s' = [s EXCEPT ![c] = o.s] /\ net' = o.net
           /\ up' = [up EXCEPT ![c] = IF o.rc = 0 THEN "client" ELSE "no"]
    BY <2>1 DEF Connect
  <2>3. o.rc = 0 /\ s'[c] = o.s
    BY <2>2 DEF TypeOK
  <2>4. backend[c] # "tcp" => backend[c] = "pi"
    BY <2>1 DEF Connect, Resting, TypeOK
  <2>. QED  BY <2>2, <2>3, <2>4, ConnectResult
<1>2. [][Tells]_vars <=> ConnectTells
  BY DEF ConnectTells
<1>. QED  BY <1>1, <1>2, TypeCorrect, PTL DEF Spec

====
