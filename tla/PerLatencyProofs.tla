--------------------------- MODULE PerLatencyProofs ---------------------------
(* What is proved of PerLatency, for any number of clients, messages,        *)
(* seconds and losses: without a duplicate every reply is to the request the *)
(* client is waiting for, and whoever waits in vain has lost a datagram or   *)
(* the server to another client, however much is delivered twice.            *)
EXTENDS PerLatency, TLAPS

Datagram ==
    [kind : {"request", "reply", "fin", "data"}, of : Clients, n : Nat]

\* The type of every variable; only a server that waits may know nobody.
TypeOK ==
    /\ mode \in Modes
    /\ cl \in [Clients -> {"start", "wait", "test", "end"}]
    /\ seq \in [Clients -> Nat] /\ heard \in [Clients -> Nat]
    /\ net \subseteq Datagram
    /\ srv \in {"recv", "reply", "perform", "end"}
    /\ peer \in Clients \cup {Nobody} /\ about \in Nat /\ seconds \in Nat
    /\ srv # "recv" => peer \in Clients
    /\ losses \in Nat /\ dups \in Nat /\ lost \subseteq Clients

\* What is under way from a client tells how far it has come, and so does
\* what the server does.
PastInv ==
    /\ \A m \in net :
          /\ m.kind = "fin" => At(m.of, "end")
          /\ m.kind = "data" => mode = "bandwidth"
          /\ mode = "bandwidth" => ~At(m.of, "start")
    /\ srv = "perform" => mode = "bandwidth"
    /\ srv = "end" /\ mode = "latency" => At(peer, "end")
    /\ srv # "recv" /\ mode = "bandwidth" => ~At(peer, "start")

\* The request of a waiting client, or the reply to it, is in one place at
\* most, and of a client that does not wait there is none.
Question(c) == {m \in net : m.of = c /\ m.kind \in {"request", "reply"}}

TokenInv ==
    dups = 0 /\ mode = "latency" =>
        \A c \in Clients :
            /\ ~At(c, "wait") => Question(c) = {} /\ ~Busy(c)
            /\ \A m \in Question(c) : m.n = seq[c] /\ ~Busy(c)
            /\ Busy(c) => about = seq[c]
            /\ \A m1, m2 \in Question(c) : m1 = m2

IInv == TypeOK /\ PastInv /\ TokenInv /\ RepliesMatch /\ NobodyStranded

-----------------------------------------------------------------------------
(* The network.                                                              *)

LEMMA Datagrams ==
    ASSUME TypeOK, NEW c \in Clients
    PROVE  /\ Request(c) \in Datagram /\ Fin(c) \in Datagram /\ Data(c) \in Datagram
           /\ \A n \in Nat : Reply(c, n) \in Datagram
    BY DEF TypeOK, Datagram, Request, Fin, Data, Reply

\* A datagram that is read may stay, and then it is counted as a duplicate.
LEMMA ArrivesFacts ==
    ASSUME TypeOK, NEW m \in net, Arrives(m)
    PROVE  /\ net' \subseteq net /\ net \ {m} \subseteq net'
           /\ losses' = losses /\ dups' \in Nat /\ lost' = lost
           /\ dups' = 0 => dups = 0 /\ net' = net \ {m}
    BY TestAssumption DEF TypeOK, Arrives, faults

-----------------------------------------------------------------------------
(* The types.                                                                *)

LEMMA InitType == Init => TypeOK
    BY TestAssumption DEF Init, TypeOK

LEMMA TypeStep == TypeOK /\ [Next]_vars => TypeOK'
<1> SUFFICES ASSUME TypeOK, [Next]_vars PROVE TypeOK'
    OBVIOUS
<1> USE DEF TypeOK
<1>1. ASSUME NEW c \in Clients, SendRequest(c) PROVE TypeOK'
    BY <1>1, Datagrams DEF SendRequest, At, Goto, server, faults
<1>2. ASSUME NEW c \in Clients, TakeReply(c) PROVE TypeOK'
    <2>1. PICK m \in net : /\ heard' = [heard EXCEPT ![c] = m.n]
                           /\ Arrives(m)
        BY <1>2 DEF TakeReply, TakeAny
    <2>2. m.n \in Nat
        BY DEF Datagram
    <2> QED
        BY <1>2, <2>1, <2>2, ArrivesFacts DEF TakeReply, Goto, server
<1>3. ASSUME NEW c \in Clients, Handshake(c) PROVE TypeOK'
    <2>1. PICK m \in net : /\ heard' = [heard EXCEPT ![c] = m.n]
                           /\ Arrives(m)
        BY <1>3 DEF Handshake, TakeAny
    <2>2. m.n \in Nat
        BY DEF Datagram
    <2> QED
        BY <1>3, <2>1, <2>2, ArrivesFacts DEF Handshake, Goto, server
<1>4. ASSUME NEW c \in Clients, SendFin(c) PROVE TypeOK'
    BY <1>4, Datagrams DEF SendFin, Goto, server, faults
<1>5. ASSUME NEW c \in Clients, SendData(c) PROVE TypeOK'
    BY <1>5, Datagrams DEF SendData, Goto, server, faults
<1>6. CASE Receive
    <2>1. PICK m \in net :
              /\ Arrives(m) /\ peer' = m.of /\ about' = m.n
              /\ srv' = IF mode = "latency" /\ m.kind = "fin" THEN "end" ELSE "reply"
        BY <1>6 DEF Receive
    <2>2. m.of \in Clients /\ m.n \in Nat
        BY DEF Datagram
    <2> QED
        BY <1>6, <2>1, <2>2, ArrivesFacts DEF Receive, clients
<1>7. CASE Respond
    <2>1. srv = "reply" /\ peer \in Clients
        BY <1>7 DEF Respond
    <2> QED
        BY <1>7, <2>1, Datagrams DEF Respond, clients, faults
<1>8. CASE Count
    <2>1. PICK m \in net : Arrives(m)
        BY <1>8 DEF Count
    <2> QED
        BY <1>8, <2>1, ArrivesFacts DEF Count, clients
<1>9. CASE Alarm
    BY <1>9 DEF Alarm, clients, faults
<1>10. ASSUME NEW m \in net, Lose(m) PROVE TypeOK'
    BY <1>10 DEF Lose, clients, server, Datagram
<1>11. CASE UNCHANGED vars
    BY <1>11 DEF vars, clients, server, faults
<1> QED
    BY <1>1, <1>2, <1>3, <1>4, <1>5, <1>6, <1>7, <1>8, <1>9, <1>10, <1>11
       DEF Next, Client, Server, Rest

-----------------------------------------------------------------------------
(* How far everyone has come.                                                *)

LEMMA InitPast == Init => PastInv
    BY DEF Init, PastInv

LEMMA PastStep == TypeOK /\ PastInv /\ [Next]_vars => PastInv'
<1> SUFFICES ASSUME TypeOK, PastInv, [Next]_vars PROVE PastInv'
    OBVIOUS
<1> USE DEF PastInv, At
<1>t. /\ cl \in [Clients -> {"start", "wait", "test", "end"}]
      /\ \A m \in net : m.of \in Clients
      /\ srv # "recv" => peer \in Clients
      /\ mode \in {"latency", "bandwidth"}
    BY TestAssumption DEF TypeOK, Datagram
<1>1. ASSUME NEW c \in Clients, SendRequest(c) PROVE PastInv'
    BY <1>1, <1>t DEF SendRequest, Goto, Request, server
<1>2. ASSUME NEW c \in Clients, TakeReply(c) \/ Handshake(c) PROVE PastInv'
    <2>1. PICK m \in net : Arrives(m)
        BY <1>2 DEF TakeReply, Handshake, TakeAny
    <2>2. net' \subseteq net
        BY <2>1, ArrivesFacts
    <2>3. mode = "bandwidth" => cl'[c] = "test"
        BY <1>2, <1>t DEF TakeReply, Handshake, TakeAny, Goto
    <2>4. /\ cl[c] = "wait" /\ UNCHANGED <<mode, server>>
          /\ \A d \in Clients \ {c} : cl'[d] = cl[d]
        BY <1>2, <1>t DEF TakeReply, Handshake, TakeAny, Goto
    <2> QED
        BY <1>t, <2>2, <2>3, <2>4 DEF server
<1>3. ASSUME NEW c \in Clients, SendFin(c) PROVE PastInv'
    BY <1>3, <1>t DEF SendFin, Goto, Fin, server
<1>4. ASSUME NEW c \in Clients, SendData(c) PROVE PastInv'
    BY <1>4, <1>t DEF SendData, Goto, Data, server
<1>5. CASE Receive
    <2>1. PICK m \in net :
              /\ Arrives(m) /\ peer' = m.of
              /\ srv' = IF mode = "latency" /\ m.kind = "fin" THEN "end" ELSE "reply"
        BY <1>5 DEF Receive
    <2> QED
        BY <1>5, <1>t, <2>1, ArrivesFacts DEF Receive, clients
<1>6. CASE Respond
    BY <1>6, <1>t DEF Respond, Reply, clients
<1>7. CASE Count
    <2>1. PICK m \in net : Arrives(m)
        BY <1>7 DEF Count
    <2> QED
        BY <1>7, <1>t, <2>1, ArrivesFacts DEF Count, clients
<1>8. CASE Alarm
    BY <1>8, <1>t DEF Alarm, clients
<1>9. ASSUME NEW m \in net, Lose(m) PROVE PastInv'
    BY <1>9 DEF Lose, clients, server
<1>10. CASE UNCHANGED vars
    BY <1>10 DEF vars, clients, server
<1> QED
    BY <1>1, <1>2, <1>3, <1>4, <1>5, <1>6, <1>7, <1>8, <1>9, <1>10
       DEF Next, Client, Server, Rest

-----------------------------------------------------------------------------
(* Who waits in vain.                                                        *)

\* Whatever does not touch what client d may be waiting for.
Undisturbed(d) ==
    /\ UNCHANGED <<cl[d], mode, server>>
    /\ lost \subseteq lost'
    /\ \A m \in net : m.of = d => m \in net'

\* A client that was not stranded does not become so by a step that leaves it
\* and the server alone and takes none of its datagrams.
LEMMA UndisturbedStep ==
    ASSUME NobodyStranded, NEW d \in Clients, Undisturbed(d), Stranded(d)'
    PROVE  /\ Stranded(d)
           /\ \/ d \in lost'
              \/ peer' # d /\ srv' = "end"
              \/ peer' # d /\ srv' # "recv" /\ mode' = "bandwidth"
<1>1. \A kind : Waits(d, kind) => Waits(d, kind)'
    BY DEF Undisturbed, Waits
<1>2. Stranded(d)
    BY <1>1 DEF Undisturbed, Stranded, At, Busy, server
<1> QED
    BY <1>2 DEF NobodyStranded, Undisturbed, server

LEMMA InitStranded == Init => NobodyStranded
    BY DEF Init, NobodyStranded, Stranded, At

LEMMA StrandedStep ==
    TypeOK /\ PastInv /\ NobodyStranded /\ [Next]_vars => NobodyStranded'
<1> SUFFICES ASSUME TypeOK, PastInv, NobodyStranded, [Next]_vars,
                    NEW d \in Clients, Stranded(d)'
             PROVE  \/ d \in lost'
                    \/ peer' # d /\ srv' = "end"
                    \/ peer' # d /\ srv' # "recv" /\ mode' = "bandwidth"
    BY DEF NobodyStranded
<1> DEFINE Excused == \/ d \in lost'
                      \/ peer' # d /\ srv' = "end"
                      \/ peer' # d /\ srv' # "recv" /\ mode' = "bandwidth"
<1>t. /\ cl \in [Clients -> {"start", "wait", "test", "end"}]
      /\ \A m \in net : m.of \in Clients
      /\ srv \in {"recv", "reply", "perform", "end"}
      /\ srv # "recv" => peer \in Clients
      /\ mode \in {"latency", "bandwidth"}
    BY TestAssumption DEF TypeOK, Datagram
<1>w. cl'[d] = "wait"
    BY DEF Stranded, At
<1>u. Undisturbed(d) => Excused
    BY UndisturbedStep
<1>1. ASSUME NEW c \in Clients, SendRequest(c) PROVE Excused
    <2>1. CASE c = d
        <3>1. cl[d] = "start" /\ UNCHANGED <<mode, srv, peer>>
            BY <1>1, <2>1 DEF SendRequest, At, server
        <3>2. Request(d) \in net'
            BY <1>1, <2>1 DEF SendRequest
        <3>3. Waits(d, "request")'
            BY <3>2 DEF Waits, Request
        <3>4. \/ srv' \in {"perform", "end"}
              \/ srv' = "reply" /\ mode' = "bandwidth"
            BY <3>3 DEF Stranded
        <3>5. peer # d
            BY <1>t, <3>1, <3>4 DEF PastInv, At
        <3> QED
            BY <1>t, <3>1, <3>4, <3>5 DEF PastInv
    <2>2. CASE c # d
        BY <1>1, <2>2, <1>t, <1>u DEF SendRequest, Goto, Undisturbed, faults
    <2> QED
        BY <2>1, <2>2
<1>2. ASSUME NEW c \in Clients, TakeReply(c) \/ Handshake(c) PROVE Excused
    <2>1. PICK m \in net : m.of = c /\ Arrives(m)
        BY <1>2 DEF TakeReply, Handshake, TakeAny
    <2>2. c # d
        BY <1>2, <1>t, <1>w DEF TakeReply, Handshake, Goto
    <2> QED
        BY <1>2, <1>t, <1>u, <2>1, <2>2, ArrivesFacts
           DEF TakeReply, Handshake, Goto, Undisturbed
<1>3. ASSUME NEW c \in Clients, SendFin(c) \/ SendData(c) PROVE Excused
    <2>1. c # d
        BY <1>3, <1>t, <1>w DEF SendFin, SendData, Goto
    <2> QED
        BY <1>3, <1>t, <1>u, <2>1 DEF SendFin, SendData, Goto, Undisturbed, faults
<1>4. CASE Receive
    <2>1. PICK m \in net :
              /\ Arrives(m) /\ peer' = m.of
              /\ srv' = IF mode = "latency" /\ m.kind = "fin" THEN "end" ELSE "reply"
              /\ m.kind # "reply"
        BY <1>4 DEF Receive, ToServer
    <2>2. UNCHANGED <<mode, cl>> /\ srv = "recv"
        BY <1>4 DEF Receive, clients
    <2>3. CASE m.of = d
        <3>1. srv' = "end"
            BY <2>1, <2>3 DEF Stranded, Busy
        <3> QED
            BY <2>1, <2>2, <2>3, <3>1, <1>w DEF PastInv, At
    <2>4. CASE m.of # d
        <3>1. CASE srv' = "end" \/ mode = "bandwidth"
            BY <2>1, <2>2, <2>4, <3>1
        <3>2. CASE srv' = "reply" /\ mode = "latency"
            <4>1. ~Waits(d, "reply") /\ ~Waits(d, "request")
                <5>1. \A kind : Waits(d, kind) => Waits(d, kind)'
                    BY <2>1, <2>4, ArrivesFacts DEF Waits
                <5> QED
                    BY <5>1, <2>2, <3>2 DEF Stranded
            <4>2. Stranded(d)
                BY <4>1, <2>2, <1>w DEF Stranded, At, Busy
            <4>3. d \in lost
                BY <4>2, <2>2 DEF NobodyStranded
            <4> QED
                BY <4>3, <2>1, ArrivesFacts
        <3> QED
            BY <2>1, <1>t, <3>1, <3>2
    <2> QED
        BY <2>3, <2>4
<1>5. CASE Respond
    <2>1. /\ srv = "reply" /\ net' = net \cup {Reply(peer, about)}
          /\ srv' = IF mode = "latency" THEN "recv" ELSE "perform"
          /\ UNCHANGED <<mode, cl, peer, lost>>
        BY <1>5 DEF Respond, clients, faults
    <2>2. peer # d
        <3>1. CASE peer = d
            <4>1. Reply(peer, about) \in net'
                BY <2>1
            <4>2. Waits(d, "reply")'
                BY <3>1, <4>1 DEF Waits, Reply
            <4> QED
                BY <4>2 DEF Stranded
        <3> QED
            BY <3>1
    <2>3. CASE mode = "bandwidth"
        BY <2>1, <2>2, <2>3
    <2>4. CASE mode = "latency"
        <3>1. ~Waits(d, "reply") /\ ~Waits(d, "request")
            <4>1. \A kind : Waits(d, kind) => Waits(d, kind)'
                BY <2>1 DEF Waits
            <4> QED
                BY <4>1, <2>1, <2>4 DEF Stranded
        <3>2. Stranded(d)
            BY <3>1, <2>1, <2>2, <1>w DEF Stranded, At, Busy
        <3> QED
            BY <3>2, <2>1, <2>4 DEF NobodyStranded
    <2> QED
        BY <1>t, <2>3, <2>4
<1>6. CASE Count
    <2>1. PICK m \in net : m.kind # "reply" /\ Arrives(m)
        BY <1>6 DEF Count, ToServer
    <2>2. /\ srv = "perform" /\ srv' \in {"perform", "end"}
          /\ UNCHANGED <<mode, cl, peer>> /\ mode = "bandwidth"
        BY <1>6 DEF Count, clients, PastInv
    <2>3. ~Waits(d, "reply")
        <3>1. Waits(d, "reply") => Waits(d, "reply")'
            BY <2>1, ArrivesFacts DEF Waits
        <3> QED
            BY <3>1 DEF Stranded
    <2>4. Stranded(d)
        BY <2>2, <2>3, <1>w DEF Stranded, At, Busy
    <2> QED
        BY <2>1, <2>2, <2>4, ArrivesFacts DEF NobodyStranded
<1>7. CASE Alarm
    <2>1. /\ srv = "perform" /\ srv' = "end"
          /\ UNCHANGED <<mode, cl, peer, net, lost>> /\ mode = "bandwidth"
        BY <1>7 DEF Alarm, clients, faults, PastInv
    <2>2. Stranded(d)
        BY <2>1 DEF Stranded, At, Busy, Waits
    <2> QED
        BY <2>1, <2>2 DEF NobodyStranded
<1>8. ASSUME NEW m \in net, Lose(m) PROVE Excused
    BY <1>8, <1>u DEF Lose, Undisturbed, clients, server
<1>9. CASE UNCHANGED vars
    BY <1>9, <1>u DEF vars, Undisturbed, clients, faults
<1> QED
    BY <1>1, <1>2, <1>3, <1>4, <1>5, <1>6, <1>7, <1>8, <1>9
       DEF Next, Client, Server, Rest

-----------------------------------------------------------------------------
(* Which request a reply is to.                                              *)

\* What TokenInv says of client c, and RepliesMatch.
Token(c) ==
    /\ ~At(c, "wait") => Question(c) = {} /\ ~Busy(c)
    /\ \A m \in Question(c) : m.n = seq[c] /\ ~Busy(c)
    /\ Busy(c) => about = seq[c]
    /\ \A m1, m2 \in Question(c) : m1 = m2

Match(c) == heard[c] = IF At(c, "wait") THEN seq[c] - 1 ELSE seq[c]

LEMMA InitToken == Init => TokenInv /\ RepliesMatch
    BY DEF Init, TokenInv, RepliesMatch, Question, At, Busy

\* A client that takes no step keeps its place if its datagrams do, and the
\* server does not turn to it.
LEMMA OtherToken ==
    ASSUME NEW d \in Clients, Token(d), Match(d),
           UNCHANGED <<cl[d], seq[d], heard[d]>>,
           Question(d)' \subseteq Question(d),
           Busy(d)' => Busy(d) /\ about' = about
    PROVE  Token(d)' /\ Match(d)'
    BY DEF Token, Match, At

LEMMA TokenStep ==
    TypeOK /\ PastInv /\ TokenInv /\ RepliesMatch /\ [Next]_vars
        => TokenInv' /\ RepliesMatch'
<1> SUFFICES ASSUME TypeOK, PastInv, TokenInv, RepliesMatch, [Next]_vars,
                    dups' = 0, mode' = "latency"
             PROVE  \A d \in Clients : Token(d)' /\ Match(d)'
    BY DEF TokenInv, RepliesMatch, Token, Match
<1>t. /\ cl \in [Clients -> {"start", "wait", "test", "end"}]
      /\ seq \in [Clients -> Nat] /\ heard \in [Clients -> Nat]
      /\ \A m \in net : m.of \in Clients /\ m.kind \in {"request", "reply", "fin", "data"}
      /\ srv # "recv" => peer \in Clients
      /\ dups \in Nat
    BY DEF TypeOK, Datagram
<1>m. mode = "latency"
    BY DEF Next, Client, SendRequest, TakeReply, Handshake, SendFin, SendData,
           Server, Receive, Respond, Count, Alarm, Lose, Rest, vars
<1>i. dups = 0 => \A d \in Clients : Token(d) /\ Match(d)
    BY <1>m DEF TokenInv, RepliesMatch, Token, Match
<1>1. ASSUME NEW c \in Clients, SendRequest(c), NEW d \in Clients
      PROVE  Token(d)' /\ Match(d)'
    <2>1. /\ cl[c] = "start" /\ cl' = [cl EXCEPT ![c] = "wait"]
          /\ seq' = [seq EXCEPT ![c] = @ + 1]
          /\ net' = net \cup {Request(c)}
          /\ UNCHANGED <<heard, srv, peer, about, dups>>
        BY <1>1 DEF SendRequest, At, Goto, server, faults
    <2>2. Token(d) /\ Match(d)
        BY <1>i, <2>1
    <2>3. CASE d = c
        <3>1. Question(c) = {} /\ ~Busy(c) /\ heard[c] = seq[c]
            BY <2>1, <2>2, <2>3 DEF Token, Match, At
        <3>2. cl'[c] = "wait" /\ seq'[c] = seq[c] + 1 /\ ~Busy(c)'
            BY <1>t, <2>1, <3>1 DEF Busy
        <3>3. Question(c)' = {Request(c)}
            BY <2>1, <3>1 DEF Question, Request
        <3>4. Token(c)'
            BY <3>2, <3>3 DEF Token, At, Request
        <3>5. Match(c)'
            BY <1>t, <2>1, <3>1, <3>2 DEF Match, At
        <3> QED
            BY <2>3, <3>4, <3>5
    <2>4. CASE d # c
        <3>1. Question(d)' = Question(d)
            BY <2>1, <2>4 DEF Question, Request
        <3> QED
            BY <1>t, <2>1, <2>2, <2>4, <3>1, OtherToken DEF Busy
    <2> QED
        BY <2>3, <2>4
<1>2. ASSUME NEW c \in Clients, TakeReply(c), NEW d \in Clients
      PROVE  Token(d)' /\ Match(d)'
    <2>1. PICK m \in net :
              /\ m.kind = "reply" /\ m.of = c
              /\ heard' = [heard EXCEPT ![c] = m.n] /\ Arrives(m)
        BY <1>2 DEF TakeReply, TakeAny
    <2>2. /\ cl[c] = "wait" /\ seq' = seq
          /\ cl' = [cl EXCEPT ![c] = IF seq[c] < MSG_NUM THEN "start" ELSE "test"]
          /\ UNCHANGED <<srv, peer, about>>
        BY <1>2 DEF TakeReply, TakeAny, At, Goto, server
    <2>3. dups = 0 /\ net' = net \ {m}
        BY <2>1, ArrivesFacts
    <2>4. Token(d) /\ Match(d)
        BY <1>i, <2>3
    <2>5. CASE d = c
        <3>1. m \in Question(c)
            BY <2>1 DEF Question
        <3>2. m.n = seq[c] /\ ~Busy(c) /\ Question(c) \subseteq {m}
            BY <2>4, <2>5, <3>1 DEF Token
        <3>3. cl'[c] # "wait" /\ heard'[c] = seq'[c] /\ ~Busy(c)'
            BY <1>t, <2>1, <2>2, <3>2 DEF Busy
        <3>4. Question(c)' = {}
            BY <2>3, <3>2 DEF Question
        <3> QED
            BY <2>5, <3>3, <3>4 DEF Token, Match, At
    <2>6. CASE d # c
        <3>1. Question(d)' = Question(d)
            BY <2>1, <2>3, <2>6 DEF Question
        <3> QED
            BY <1>t, <2>1, <2>2, <2>4, <2>6, <3>1, OtherToken DEF Busy
    <2> QED
        BY <2>5, <2>6
<1>3. ASSUME NEW c \in Clients, SendFin(c), NEW d \in Clients
      PROVE  Token(d)' /\ Match(d)'
    <2>1. /\ cl[c] = "test" /\ cl' = [cl EXCEPT ![c] = "end"]
          /\ net' = net \cup {Fin(c)}
          /\ UNCHANGED <<seq, heard, srv, peer, about, dups>>
        BY <1>3 DEF SendFin, At, Goto, server, faults
    <2>2. Token(d) /\ Match(d)
        BY <1>i, <2>1
    <2>3. Question(d)' = Question(d)
        BY <2>1 DEF Question, Fin
    <2>4. \/ cl'[d] = cl[d]
          \/ cl[d] = "test" /\ cl'[d] = "end"
        BY <1>t, <2>1
    <2>5. Token(d)'
        BY <2>1, <2>2, <2>3, <2>4 DEF Token, At, Busy
    <2>6. Match(d)'
        BY <2>1, <2>2, <2>4 DEF Match, At
    <2> QED
        BY <2>5, <2>6
<1>4. ASSUME Receive, NEW d \in Clients PROVE Token(d)' /\ Match(d)'
    <2>1. PICK m \in net :
              /\ m.kind # "reply" /\ Arrives(m) /\ peer' = m.of /\ about' = m.n
              /\ srv' = IF m.kind = "fin" THEN "end" ELSE "reply"
        BY <1>4, <1>m DEF Receive, ToServer
    <2>2. srv = "recv" /\ UNCHANGED <<cl, seq, heard>>
        BY <1>4 DEF Receive, clients
    <2>3. dups = 0 /\ net' = net \ {m}
        BY <2>1, ArrivesFacts
    <2>4. Token(d) /\ Match(d)
        BY <1>i, <2>3
    <2>5. m.kind \in {"request", "fin"}
        BY <1>t, <1>m, <2>1 DEF PastInv
    <2>6. CASE m.of = d /\ m.kind = "request"
        <3>1. m \in Question(d)
            BY <2>6 DEF Question
        <3>2. m.n = seq[d] /\ At(d, "wait") /\ Question(d) \subseteq {m}
            BY <2>4, <3>1 DEF Token
        <3>3. Question(d)' = {}
            BY <2>3, <3>2 DEF Question
        <3>4. Token(d)'
            BY <2>1, <2>2, <3>2, <3>3 DEF Token, At
        <3> QED
            BY <2>2, <2>4, <3>4 DEF Match, At
    <2>7. CASE m.of # d \/ m.kind = "fin"
        <3>1. Question(d)' = Question(d)
            BY <2>3, <2>7 DEF Question
        <3>2. ~Busy(d)'
            BY <2>1, <2>7 DEF Busy
        <3> QED
            BY <2>2, <2>4, <3>1, <3>2, OtherToken
    <2> QED
        BY <2>5, <2>6, <2>7
<1>5. ASSUME Respond, NEW d \in Clients PROVE Token(d)' /\ Match(d)'
    <2>1. /\ srv = "reply" /\ srv' = "recv"
          /\ net' = net \cup {Reply(peer, about)}
          /\ UNCHANGED <<cl, seq, heard, dups>>
        BY <1>5, <1>m DEF Respond, clients, faults
    <2>2. Token(d) /\ Match(d)
        BY <1>i, <2>1
    <2>3. ~Busy(d)'
        BY <2>1 DEF Busy
    <2>4. CASE peer = d
        <3>1. Busy(d) /\ about = seq[d] /\ Question(d) = {} /\ At(d, "wait")
            BY <2>1, <2>2, <2>4 DEF Token, Busy
        <3>2. Question(d)' = {Reply(d, seq[d])}
            BY <2>1, <2>4, <3>1 DEF Question, Reply
        <3>3. Token(d)'
            BY <2>1, <2>3, <3>1, <3>2 DEF Token, At, Reply
        <3> QED
            BY <2>1, <2>2, <3>3 DEF Match, At
    <2>5. CASE peer # d
        <3>1. Question(d)' = Question(d)
            BY <2>1, <2>5 DEF Question, Reply
        <3> QED
            BY <2>1, <2>2, <2>3, <3>1, OtherToken
    <2> QED
        BY <2>4, <2>5
<1>6. ASSUME NEW m \in net, Lose(m), NEW d \in Clients
      PROVE  Token(d)' /\ Match(d)'
    <2>1. /\ net' = net \ {m} /\ UNCHANGED <<cl, seq, heard, dups>>
          /\ UNCHANGED <<srv, peer, about>>
        BY <1>6 DEF Lose, clients, server
    <2>2. Question(d)' \subseteq Question(d)
        BY <2>1 DEF Question
    <2>3. Token(d) /\ Match(d)
        BY <1>i, <2>1
    <2> QED
        BY <2>1, <2>2, <2>3, OtherToken DEF Busy
<1>7. ASSUME UNCHANGED vars, NEW d \in Clients PROVE Token(d)' /\ Match(d)'
    <2>1. UNCHANGED <<cl, seq, heard, net, srv, peer, about, dups>>
        BY <1>7 DEF vars, clients, server, faults
    <2> QED
        BY <1>i, <2>1, OtherToken DEF Question, Busy
<1>8. ~Count /\ ~Alarm
    BY <1>m DEF Count, Alarm, PastInv
<1>9. \A c \in Clients : ~Handshake(c) /\ ~SendData(c)
    BY <1>m DEF Handshake, SendData
<1> QED
    BY <1>1, <1>2, <1>3, <1>4, <1>5, <1>6, <1>7, <1>8, <1>9
       DEF Next, Client, Server, Rest

-----------------------------------------------------------------------------
(* The theorems.                                                             *)

\* The inductive invariant holds of every behaviour of the two programs.
THEOREM Invariance == Spec => []IInv
<1>1. Init => IInv
    BY InitType, InitPast, InitToken, InitStranded DEF IInv
<1>2. IInv /\ [Next]_vars => IInv'
    BY TypeStep, PastStep, TokenStep, StrandedStep DEF IInv
<1> QED
    BY <1>1, <1>2, PTL DEF Spec

\* Types: a datagram is never from or to anyone but a client, and a server
\* that answers knows whom it answers.
THEOREM TypeCorrect == Spec => []TypeOK
<1>1. IInv => TypeOK
    BY DEF IInv
<1> QED
    BY <1>1, Invariance, PTL

\* RepliesMatch: as long as nothing is delivered twice, the reply a client
\* takes is to the request it is waiting for, whatever is lost or late and
\* however many clients share the server.
THEOREM RepliesMatchHolds == Spec => []RepliesMatch
<1>1. IInv => RepliesMatch
    BY DEF IInv
<1> QED
    BY <1>1, Invariance, PTL

\* NobodyStranded: whoever waits for ever has lost a datagram, or the server
\* to another client; a duplicate alone strands nobody.
THEOREM NobodyStrandedHolds == Spec => []NobodyStranded
<1>1. IInv => NobodyStranded
    BY DEF IInv
<1> QED
    BY <1>1, Invariance, PTL
=============================================================================
