------------------------------ MODULE PerLatency ------------------------------
(* PerLatency: one server and the clients that measure latency or bandwidth  *)
(* with it, over UDP, which loses, duplicates and reorders datagrams.        *)
(* Neither side has a timeout, apart from the server's alarm(15), and no     *)
(* datagram carries a number: n is here to tell what a reply was about.      *)
(*                                                                           *)
(* In a bandwidth test the datagrams a client sends in one second are one,   *)
(* and so are two equal datagrams under way.                                 *)
EXTENDS Naturals

CONSTANTS
    Clients,
    Modes,      \* "latency", "bandwidth": the option of both programs
    MSG_NUM,
    PERFORMANCE_COUNT,
    Nobody,
    MaxLoss,    \* bound: datagrams lost
    MaxDup      \* bound: datagrams delivered twice

ASSUME TestAssumption ==
    /\ Modes \subseteq {"latency", "bandwidth"}
    /\ {MSG_NUM, PERFORMANCE_COUNT} \subseteq Nat \ {0}
    /\ Nobody \notin Clients
    /\ {MaxLoss, MaxDup} \subseteq Nat

VARIABLES
    mode,
    cl,         \* cl[c]: where client c is
    seq,        \* seq[c]: requests sent (MsgIndex), or seconds (PerCount)
    heard,      \* heard[c]: history: the request that the last reply was to
    net,        \* datagrams under way
    srv,        \* where the server is
    peer,       \* its ClientAddr
    about,      \* history: the request it replies to
    seconds,    \* its PerCount
    losses, dups, lost  \* losses and duplicates; clients that suffered a loss

clients == <<cl, seq, heard>>
server == <<srv, peer, about, seconds>>
faults == <<losses, dups, lost>>
vars == <<mode, clients, net, server, faults>>

Init ==
    /\ mode \in Modes
    /\ cl = [c \in Clients |-> "start"]
    /\ seq = [c \in Clients |-> 0]
    /\ heard = [c \in Clients |-> 0]
    /\ net = {}
    /\ srv = "recv" /\ peer = Nobody /\ about = 0 /\ seconds = 0
    /\ losses = 0 /\ dups = 0 /\ lost = {}

Request(c) == [kind |-> "request", of |-> c, n |-> seq[c] + 1]
Reply(c, n) == [kind |-> "reply", of |-> c, n |-> n]
Fin(c) == [kind |-> "fin", of |-> c, n |-> 0]
Data(c) == [kind |-> "data", of |-> c, n |-> seq[c] + 1]

At(c, label) == cl[c] = label
Goto(c, label) == cl' = [cl EXCEPT ![c] = label]

\* recvfrom takes m, or one of two copies of it.
Arrives(m) ==
    \/ net' = net \ {m} /\ UNCHANGED faults
    \/ /\ dups < MaxDup /\ dups' = dups + 1
       /\ UNCHANGED <<net, losses, lost>>

Lose(m) ==
    /\ losses < MaxLoss
    /\ losses' = losses + 1
    /\ lost' = lost \cup {m.of}
    /\ net' = net \ {m}
    /\ UNCHANGED <<mode, clients, server, dups>>

-----------------------------------------------------------------------------
(* A client.                                                                 *)

\* Mutant: the next request does not wait for the reply to the last.
SendRequestAhead(c) ==
    /\ \/ At(c, "start")
       \/ At(c, "wait") /\ mode = "latency" /\ seq[c] < MSG_NUM
    /\ net' = net \cup {Request(c)}
    /\ seq' = [seq EXCEPT ![c] = @ + 1]
    /\ Goto(c, "wait")
    /\ UNCHANGED <<mode, heard, server, faults>>

\* The next message of a latency test, or the handshake.
SendRequest(c) ==
    /\ At(c, "start")
    /\ net' = net \cup {Request(c)}
    /\ seq' = [seq EXCEPT ![c] = @ + 1]
    /\ Goto(c, "wait")
    /\ UNCHANGED <<mode, heard, server, faults>>

\* Any datagram is taken for the reply to the last request.
TakeAny(c) ==
    /\ At(c, "wait")
    /\ \E m \in net :
          /\ m.kind = "reply" /\ m.of = c
          /\ heard' = [heard EXCEPT ![c] = m.n]
          /\ Arrives(m)

TakeReply(c) ==
    /\ mode = "latency" /\ TakeAny(c)
    /\ Goto(c, IF seq[c] < MSG_NUM THEN "start" ELSE "test")
    /\ UNCHANGED <<mode, seq, server>>

\* The handshake is over; the test counts seconds from 0.
Handshake(c) ==
    /\ mode = "bandwidth" /\ TakeAny(c)
    /\ Goto(c, "test")
    /\ seq' = [seq EXCEPT ![c] = 0]
    /\ UNCHANGED <<mode, server>>

\* The average is printed and the server is told to end.
SendFin(c) ==
    /\ At(c, "test") /\ mode = "latency"
    /\ net' = net \cup {Fin(c)}
    /\ Goto(c, "end")
    /\ UNCHANGED <<mode, seq, heard, server, faults>>

\* Perform: a second of sending.
SendData(c) ==
    /\ At(c, "test") /\ mode = "bandwidth"
    /\ net' = net \cup {Data(c)}
    /\ seq' = [seq EXCEPT ![c] = @ + 1]
    /\ Goto(c, IF seq[c] + 1 = PERFORMANCE_COUNT THEN "end" ELSE "test")
    /\ UNCHANGED <<mode, heard, server, faults>>

Client(c) ==
    SendRequest(c) \/ TakeReply(c) \/ Handshake(c) \/ SendFin(c) \/ SendData(c)

-----------------------------------------------------------------------------
(* The server.                                                               *)

ToServer(m) == m.kind # "reply"

\* Mutant: the answer to every client goes to the first one.
ReceiveFirst ==
    /\ srv = "recv"
    /\ \E m \in net :
          /\ ToServer(m)
          /\ Arrives(m)
          /\ peer' = IF peer = Nobody THEN m.of ELSE peer
          /\ about' = m.n
          /\ srv' = IF mode = "latency" /\ m.kind = "fin" THEN "end" ELSE "reply"
    /\ UNCHANGED <<mode, clients, seconds>>

\* LatencyTest, or the handshake: whatever comes is answered, but for "Fin".
Receive ==
    /\ srv = "recv"
    /\ \E m \in net :
          /\ ToServer(m)
          /\ Arrives(m)
          /\ peer' = m.of /\ about' = m.n
          /\ srv' = IF mode = "latency" /\ m.kind = "fin" THEN "end" ELSE "reply"
    /\ UNCHANGED <<mode, clients, seconds>>

Respond ==
    /\ srv = "reply"
    /\ net' = net \cup {Reply(peer, about)}
    /\ srv' = IF mode = "latency" THEN "recv" ELSE "perform"
    /\ UNCHANGED <<mode, clients, peer, about, seconds, faults>>

\* Perform counts whatever comes, until a second has passed; the second that
\* ends last ends the server.
Count ==
    /\ srv = "perform"
    /\ \E m \in net : ToServer(m) /\ Arrives(m)
    /\ seconds' \in {seconds, seconds + 1}
    /\ srv' = IF seconds' = PERFORMANCE_COUNT THEN "end" ELSE srv
    /\ UNCHANGED <<mode, clients, peer, about>>

\* Mutant: the alarm is cancelled by the first second of data.
AlarmFirst ==
    /\ srv = "perform" /\ seconds = 0
    /\ srv' = "end"
    /\ UNCHANGED <<mode, clients, net, peer, about, seconds, faults>>

\* alarm(15): however many datagrams are missing.
Alarm ==
    /\ srv = "perform"
    /\ srv' = "end"
    /\ UNCHANGED <<mode, clients, net, peer, about, seconds, faults>>

Server == Receive \/ Respond \/ Count

-----------------------------------------------------------------------------
Busy(c) == srv = "reply" /\ peer = c
Waits(c, kind) == \E m \in net : m.of = c /\ m.kind = kind

\* Client c waits, and nothing that is under way will make it go on.
Stranded(c) ==
    /\ At(c, "wait")
    /\ ~Waits(c, "reply") /\ ~Busy(c)
    /\ \/ ~Waits(c, "request")
       \/ srv \in {"perform", "end"}
       \/ srv = "reply" /\ mode = "bandwidth"

\* No client has anything left to do; the server may.
Rest ==
    /\ \A c \in Clients : At(c, "end") \/ Stranded(c)
    /\ UNCHANGED vars

Next ==
    \/ \E c \in Clients : Client(c)
    \/ Server \/ Alarm
    \/ \E m \in net : Lose(m)
    \/ Rest

\* The programs run, what is under way is read, and time passes.
Spec ==
    /\ Init /\ [][Next]_vars
    /\ \A c \in Clients : WF_vars(Client(c))
    /\ WF_vars(Server) /\ WF_vars(Alarm)

-----------------------------------------------------------------------------
(* Properties.                                                               *)

\* What a client measures is the time of its own request, although no message
\* carries a number: unless the network delivered something twice.
RepliesMatch ==
    dups = 0 /\ mode = "latency" =>
        \A c \in Clients :
            heard[c] = IF At(c, "wait") THEN seq[c] - 1 ELSE seq[c]

\* A client waits for ever only if a datagram of its own was lost, or if
\* another client had the server: its "Fin" ends the server for all, its
\* handshake leaves the others without an answer.
NobodyStranded ==
    \A c \in Clients :
        Stranded(c) =>
            \/ c \in lost
            \/ peer # c /\ srv = "end"
            \/ peer # c /\ srv # "recv" /\ mode = "bandwidth"

\* Both sides end, with as much as is lost, delivered twice or late: a client
\* that is not stranded, and a server that has begun a bandwidth test, also
\* when the data stops coming.
TestsEnd ==
    /\ \A c \in Clients : TRUE ~> At(c, "end") \/ Stranded(c)
    /\ peer # Nobody /\ mode = "bandwidth" ~> srv = "end"
=============================================================================
