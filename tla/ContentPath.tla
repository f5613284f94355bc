---------------------------- MODULE ContentPath ----------------------------
(* The connection between a client of dpiDeamon (the controller in content   *)
(* mode, or dpiClient) and its proxy thread.  The client writes a packet     *)
(* and reads the four bytes of one answer; the thread reads what it finds,   *)
(* up to PACKET_SIZE bytes, takes it for one packet and writes one answer.   *)
(* TCP keeps the bytes in order but not the packets apart, and nothing in    *)
(* the protocol does.                                                        *)
(*                                                                           *)
(* Bytes are counted in units, some of which make up PACKET_SIZE.  A packet  *)
(* is known by its number, an answer by the packet it is about.  The four    *)
(* bytes of an answer stay together.                                         *)
EXTENDS Naturals, Sequences

CONSTANTS
    Buf,        \* units in PACKET_SIZE
    Sizes,      \* units in a packet
    MaxAsk      \* bound: packets sent

ASSUME PathAssumption ==
    /\ Buf \in Nat \ {0}
    /\ Sizes \subseteq Nat \ {0}
    /\ MaxAsk \in Nat

VARIABLES
    client,     \* "idle", or "wait" in recv
    asked,      \* packets sent so far; the last one is being asked about
    stream,     \* units on their way to the daemon
    thread,     \* the proxy thread: "recv", "send" or "gone"
    chunk,      \* the packet it has in hand; 0: bytes that begin in the middle
    answers,    \* answers on their way back
    told,       \* the answer the client used last, 0 for none
    torn        \* history: was a packet larger than Buf, or read in pieces?

vars == <<client, asked, stream, thread, chunk, answers, told, torn>>

Init ==
    /\ client = "idle" /\ asked = 0 /\ stream = <<>>
    /\ thread = "recv" /\ chunk = 0 /\ answers = <<>>
    /\ told = 0 /\ torn = FALSE

Up == thread # "gone"

\* send: the bytes of packet asked + 1.  Towards a daemon that is gone it
\* fails, which the client ignores.
Ask(size) ==
    /\ client = "idle" /\ asked < MaxAsk
    /\ client' = "wait"
    /\ asked' = asked + 1
    /\ stream' = IF Up
                 THEN stream \o [i \in 1..size |-> [of |-> asked + 1, at |-> i]]
                 ELSE stream
    /\ torn' = (torn \/ size > Buf)
    /\ UNCHANGED <<thread, chunk, answers, told>>

\* recv and IpPacket: a packet is recognised by its first unit.  What follows
\* the length that its header gives is ignored.
Receive(k) ==
    /\ thread = "recv"
    /\ k \in 1..Len(stream) /\ k <= Buf
    /\ chunk' = IF Head(stream).at = 1 THEN Head(stream).of ELSE 0
    /\ stream' = SubSeq(stream, k + 1, Len(stream))
    /\ thread' = "send"
    /\ torn' = (torn \/ k < Len(stream))
    /\ UNCHANGED <<client, asked, answers, told>>

\* Mutant: what is not a packet gets no answer.
ReplyToPackets ==
    /\ thread = "send"
    /\ answers' = IF chunk = 0 THEN answers ELSE Append(answers, chunk)
    /\ thread' = "recv"
    /\ UNCHANGED <<client, asked, stream, chunk, told, torn>>

Reply ==
    /\ thread = "send"
    /\ answers' = Append(answers, chunk)
    /\ thread' = "recv"
    /\ UNCHANGED <<client, asked, stream, chunk, told, torn>>

\* Mutant: the answer is looked at and left in the socket.
TakePeek ==
    /\ client = "wait" /\ answers # <<>>
    /\ told' = Head(answers)
    /\ client' = "idle"
    /\ UNCHANGED <<asked, stream, thread, chunk, answers, torn>>

\* recv(4) returns the oldest answer; the client uses it for the packet it
\* sent last.
Take ==
    /\ client = "wait" /\ answers # <<>>
    /\ told' = Head(answers)
    /\ answers' = Tail(answers)
    /\ client' = "idle"
    /\ UNCHANGED <<asked, stream, thread, chunk, torn>>

\* The daemon ends; what it wrote before may still arrive, or be lost.
Crash ==
    /\ Up
    /\ thread' = "gone"
    /\ stream' = <<>>
    /\ answers' \in {<<>>, answers}
    /\ UNCHANGED <<client, asked, chunk, told, torn>>

\* recv returns nothing.  The controller's handler ends with an exception,
\* dpiClient takes it for the class 0; both go on with their next packet.
TakeNothing ==
    /\ client = "wait" /\ ~Up /\ answers = <<>>
    /\ told' = 0
    /\ client' = "idle"
    /\ UNCHANGED <<asked, stream, thread, chunk, answers, torn>>

\* The client has no packet left.
Rest == client = "idle" /\ asked = MaxAsk /\ UNCHANGED vars

Thread == (\E k \in 1..Buf : Receive(k)) \/ Reply

Next ==
    \/ \E size \in Sizes : Ask(size)
    \/ Take \/ TakeNothing \/ Crash \/ Thread \/ Rest

Spec == Init /\ [][Next]_vars

\* Both sides are blocked in recv at most as long as nothing arrives.
FairSpec == Spec /\ WF_vars(Thread) /\ WF_vars(Take \/ TakeNothing)

-----------------------------------------------------------------------------
(* Properties.                                                               *)

Unit == [of : Nat \ {0}, at : Nat \ {0}]

\* The type of every variable.
TypeOK ==
    /\ client \in {"idle", "wait"} /\ asked \in Nat
    /\ stream \in Seq(Unit)
    /\ thread \in {"recv", "send", "gone"} /\ chunk \in Nat
    /\ answers \in Seq(Nat) /\ told \in Nat /\ torn \in BOOLEAN

\* As long as every packet fitted into PACKET_SIZE and was read in one piece,
\* the class the client uses is that of the packet it asked about; afterwards
\* it may be the class of an earlier packet, of another flow.
AnswerMatches ==
    ~torn /\ client = "idle" => told = asked \/ ~Up

\* However the bytes are cut into packets, a waiting client is owed an answer:
\* the two sides never wait for each other.
NeverStuck ==
    client = "wait" =>
        ~Up \/ thread = "send" \/ stream # <<>> \/ answers # <<>>

\* The client always gets on with its work, also when the daemon is gone.
Returns == client = "wait" ~> client = "idle"
=============================================================================
