------------------------------ MODULE DpiDaemon ------------------------------
(* dpiDeamon: one proxy thread per client connection, one analysis thread,   *)
(* the packet queue between them and the flow contexts all of them touch.    *)
(*                                                                           *)
(* A client sends a packet and waits for the 4-byte class of its flow.  The  *)
(* proxy thread reads the flow's class without a lock, hands the packet to   *)
(* the queue while the flow is still undecided, and answers what it read.    *)
(* The analysis thread pops packets, counts them, drives the classifiers and *)
(* is the only writer of a flow's class.                                     *)
(*                                                                           *)
(* Every read and write of shared memory that another thread can come        *)
(* between is a step of its own.  Finding or creating the flow is one step:  *)
(* FlowTable models what happens inside.  The byte stream under the requests *)
(* is modelled in ContentPath, the packet and traffic totals are left out.   *)
EXTENDS Classifier, Sequences, FiniteSets

CONSTANTS
    Conns,      \* client connections, each with its proxy thread
    Flows,      \* flows of configured users
    NoFlow,     \* stands for m_SrcIp = 0
    Nobody,     \* the free mutex
    Port,       \* Port[f]: destination port of flow f
    Payloads,   \* the sets of patterns that may occur in one packet
    DPI_NUM,    \* packets of a flow that are analysed before giving up
    MaxReq,     \* bound: requests per connection
    Mortal      \* bound: the connections whose client may go away

ASSUME DaemonAssumption ==
    /\ NoFlow \notin Flows
    /\ Nobody \notin Conns
    /\ Port \in [Flows -> Nat]
    /\ Payloads \subseteq SUBSET Pid
    /\ DPI_NUM \in Nat
    /\ MaxReq \in Nat
    /\ Mortal \subseteq Conns

VARIABLES
    conn,       \* conn[c]: "closed" before accept, "open", "fin" once the
                \* peer closed, "rst" once the connection is reset
    provoked,   \* connections on which a closed peer was sent an answer
    nreq,       \* requests received per connection (bounded by MaxReq)
    pc,         \* program counter of each proxy thread
    pkt,        \* local Ip: the request the thread works on, if any
    cfRead,     \* local CfId: the class it is going to answer
    mutex,      \* PacketSet::m_Mutex, as the pushing threads see it
    queue,      \* PacketSet::m_PacketSet
    eng,        \* program counter of the analysis thread
    cur,        \* the packet it works on
    known,      \* flows in the tables
    sdu,        \* Flow::m_SduNum
    cfId,       \* Flow::m_CfId
    ctx,        \* Flow::m_Cf2Text: state of every classifier for the flow
    got,        \* history: requests received for a flow
    acct,       \* packets of a flow its proxies accounted and dropped
    fed,        \* history: what the classifiers were given, per flow
    late        \* history: <<c, f>> once c pushed a packet of f after f's
                \* verdict

proxyVars == <<conn, provoked, nreq, pc, pkt, cfRead>>
queueVars == <<mutex, queue>>
engVars   == <<eng, cur>>
flowVars  == <<known, sdu, cfId, ctx>>
history   == <<got, acct, fed, late>>
vars == <<proxyVars, queueVars, engVars, flowVars, history>>

NoPkt == [flow |-> NoFlow, found |-> {}]
Packet == [flow : Flows, found : SUBSET Pid]
Received == Packet \cup {NoPkt}

FreshCtx == [c \in Cf |-> 0]

Init ==
    /\ conn = [c \in Conns |-> "closed"]
    /\ provoked = {}
    /\ nreq = [c \in Conns |-> 0]
    /\ pc = [c \in Conns |-> "none"]
    /\ pkt = [c \in Conns |-> NoPkt]
    /\ cfRead = [c \in Conns |-> NoVerdict]
    /\ mutex = Nobody
    /\ queue = <<>>
    /\ eng = "idle"
    /\ cur = NoPkt
    /\ known = {}
    /\ sdu = [f \in Flows |-> 0]
    /\ cfId = [f \in Flows |-> NoVerdict]
    /\ ctx = [f \in Flows |-> FreshCtx]
    /\ got = [f \in Flows |-> 0]
    /\ acct = [f \in Flows |-> 0]
    /\ fed = [f \in Flows |-> <<>>]
    /\ late = {}

Goto(c, label) == pc' = [pc EXCEPT ![c] = label]

-----------------------------------------------------------------------------
(* The peers and the network.                                                *)

\* TCPserver::Start: accept returned a socket and its thread was created.
Accept(c) ==
    /\ pc[c] = "none"
    /\ conn' = [conn EXCEPT ![c] = "open"]
    /\ Goto(c, "recv")
    /\ UNCHANGED <<provoked, nreq, pkt, cfRead, queueVars, engVars, flowVars,
                   history>>

\* The client goes away: orderly, or with unread data and hence with a reset.
PeerClose(c) ==
    /\ c \in Mortal
    /\ conn[c] = "open"
    /\ \E s \in {"fin", "rst"} : conn' = [conn EXCEPT ![c] = s]
    /\ UNCHANGED <<provoked, nreq, pc, pkt, cfRead, queueVars, engVars,
                   flowVars, history>>

\* An answer sent to a closed socket makes the peer's host reset.
NetReset(c) ==
    /\ conn[c] = "fin"
    /\ c \in provoked
    /\ conn' = [conn EXCEPT ![c] = "rst"]
    /\ UNCHANGED <<provoked, nreq, pc, pkt, cfRead, queueVars, engVars,
                   flowVars, history>>

-----------------------------------------------------------------------------
(* The proxy thread.                                                         *)

\* recv returns a request; p is what the IpPacket constructor made of it.
Recv(c) ==
    /\ pc[c] = "recv"
    /\ conn[c] = "open"
    /\ nreq[c] < MaxReq
    /\ \E f \in Flows \cup {NoFlow} :
         \E found \in (IF f = NoFlow THEN {{}} ELSE Payloads) :
            /\ pkt' = [pkt EXCEPT ![c] = [flow |-> f, found |-> found]]
            /\ got' = IF f = NoFlow THEN got ELSE [got EXCEPT ![f] = @ + 1]
    /\ nreq' = [nreq EXCEPT ![c] = @ + 1]
    /\ Goto(c, "query")
    /\ UNCHANGED <<conn, provoked, cfRead, queueVars, engVars, flowVars, acct,
                   fed, late>>

\* recv returns 0 at the end of the stream; the code tests RecvBytes < 0 only
\* and goes on with a packet of length 0, which does not parse.
RecvEof(c) ==
    /\ pc[c] = "recv"
    /\ conn[c] = "fin"
    /\ Goto(c, "query")
    /\ UNCHANGED <<conn, provoked, nreq, pkt, cfRead, queueVars, engVars,
                   flowVars, history>>

\* Mutant: an error of recv is taken for an empty packet and tried again.
RecvErrorIgnored(c) ==
    /\ pc[c] = "recv"
    /\ conn[c] = "rst"
    /\ UNCHANGED vars

RecvError(c) ==
    /\ pc[c] = "recv"
    /\ conn[c] = "rst"
    /\ Goto(c, "exit")
    /\ UNCHANGED <<conn, provoked, nreq, pkt, cfRead, queueVars, engVars,
                   flowVars, history>>

\* m_SrcIp = 0: the packet is deleted and the answer is 0.
QueryNothing(c) ==
    /\ pc[c] = "query"
    /\ pkt[c] = NoPkt
    /\ Goto(c, "send")
    /\ UNCHANGED <<conn, provoked, nreq, pkt, cfRead, queueVars, engVars,
                   flowVars, history>>

\* QueryFlow finds or creates the flow, GetCfId reads its class.
Query(c) ==
    LET f == pkt[c].flow
    IN  /\ pc[c] = "query"
        /\ f \in Flows
        /\ known' = known \cup {f}
        /\ cfRead' = [cfRead EXCEPT ![c] = cfId[f]]
        /\ Goto(c, "check")
        /\ UNCHANGED <<conn, provoked, nreq, pkt, queueVars, engVars, sdu,
                       cfId, ctx, history>>

\* Mutant: the budget ends one packet early.
ExhaustedEarly(f) == sdu[f] >= DPI_NUM

\* The condition of the push: m_SduNum is read now, CfId was read before.
\* m_Payload is a pointer and never null in a packet that parsed, so a packet
\* without payload is pushed, and counted, like any other.
Exhausted(f) == sdu[f] > DPI_NUM

\* Mutant: the class is not looked at.
WantsMoreBlind(c) == ~Exhausted(pkt[c].flow)

WantsMore(c) == ~Exhausted(pkt[c].flow) /\ cfRead[c] = NoVerdict

CheckPush(c) ==
    /\ pc[c] = "check"
    /\ WantsMore(c)
    /\ Goto(c, "lock")
    /\ UNCHANGED <<conn, provoked, nreq, pkt, cfRead, queueVars, engVars,
                   flowVars, history>>

\* Mutant: a flow past its budget is answered as UnIdentify at once.
SkipUnidentified(c) ==
    /\ pc[c] = "check"
    /\ ~WantsMore(c)
    /\ acct' = [acct EXCEPT ![pkt[c].flow] = @ + 1]
    /\ cfRead' = [cfRead EXCEPT ![c] = IF @ = NoVerdict THEN UnIdentify ELSE @]
    /\ Goto(c, "send")
    /\ UNCHANGED <<conn, provoked, nreq, pkt, queueVars, engVars, flowVars,
                   got, fed, late>>

CheckSkip(c) ==
    /\ pc[c] = "check"
    /\ ~WantsMore(c)
    /\ acct' = [acct EXCEPT ![pkt[c].flow] = @ + 1]
    /\ Goto(c, "send")
    /\ UNCHANGED <<conn, provoked, nreq, pkt, cfRead, queueVars, engVars,
                   flowVars, got, fed, late>>

\* PacketSet::Push takes the mutex ...
PushLock(c) ==
    /\ pc[c] = "lock"
    /\ mutex = Nobody
    /\ mutex' = c
    /\ Goto(c, "append")
    /\ UNCHANGED <<conn, provoked, nreq, pkt, cfRead, queue, engVars, flowVars,
                   history>>

\* Mutant: the mutex is not released.
PushKeepsLock(c) ==
    /\ pc[c] = "append"
    /\ queue' = Append(queue, pkt[c])
    /\ Goto(c, "send")
    /\ UNCHANGED <<conn, provoked, nreq, pkt, cfRead, mutex, engVars, flowVars,
                   history>>

\* ... appends and releases it.  From here on the analysis thread owns the
\* packet; pkt[c] only remembers which request is being answered.
PushAppend(c) ==
    LET f == pkt[c].flow
    IN  /\ pc[c] = "append"
        /\ queue' = Append(queue, pkt[c])
        /\ mutex' = Nobody
        /\ late' = IF cfId[f] # NoVerdict THEN late \cup {<<c, f>>} ELSE late
        /\ Goto(c, "send")
        /\ UNCHANGED <<conn, provoked, nreq, pkt, cfRead, engVars, flowVars,
                       got, acct, fed>>

\* The locals of one round of the loop go out of scope.
Forget(c) ==
    /\ pkt' = [pkt EXCEPT ![c] = NoPkt]
    /\ cfRead' = [cfRead EXCEPT ![c] = NoVerdict]

\* send succeeds, also towards a peer that has closed already.
Send(c) ==
    /\ pc[c] = "send"
    /\ conn[c] # "rst"
    /\ provoked' = IF conn[c] = "fin" THEN provoked \cup {c} ELSE provoked
    /\ Forget(c)
    /\ Goto(c, "recv")
    /\ UNCHANGED <<conn, nreq, queueVars, engVars, flowVars, history>>

SendError(c) ==
    /\ pc[c] = "send"
    /\ conn[c] = "rst"
    /\ Forget(c)
    /\ Goto(c, "exit")
    /\ UNCHANGED <<conn, provoked, nreq, queueVars, engVars, flowVars, history>>

\* What the thread does once it has its request; Recv is up to the client.
Proxy(c) ==
    \/ RecvEof(c) \/ RecvError(c)
    \/ QueryNothing(c) \/ Query(c)
    \/ CheckPush(c) \/ CheckSkip(c)
    \/ PushLock(c) \/ PushAppend(c)
    \/ Send(c) \/ SendError(c)

-----------------------------------------------------------------------------
(* The analysis thread.                                                      *)

\* Mutant: Pop is called without a look at the size.
EngineLookAway ==
    /\ eng = "idle"
    /\ eng' = "pop"
    /\ UNCHANGED <<proxyVars, queueVars, cur, flowVars, history>>

\* IsEmpty reads the size without the mutex: while a push is under way the
\* read may give anything, otherwise it is exact.  Reading 0 changes nothing.
EngineLook ==
    /\ eng = "idle"
    /\ queue # <<>> \/ mutex # Nobody
    /\ eng' = "pop"
    /\ UNCHANGED <<proxyVars, queueVars, cur, flowVars, history>>

\* Pop, under the mutex.  front() of an empty queue would be undefined:
\* PopFindsPacket shows that the guard queue # <<>> never blocks the thread.
EnginePop ==
    /\ eng = "pop"
    /\ mutex = Nobody
    /\ queue # <<>>
    /\ cur' = Head(queue)
    /\ queue' = Tail(queue)
    /\ eng' = "count"
    /\ UNCHANGED <<proxyVars, mutex, flowVars, history>>

\* Mutant: packets of a decided flow are not counted.
EngineCountOpen ==
    /\ eng = "count"
    /\ known' = known \cup {cur.flow}
    /\ sdu' = IF cfId[cur.flow] = NoVerdict
              THEN [sdu EXCEPT ![cur.flow] = @ + 1] ELSE sdu
    /\ eng' = "judge"
    /\ UNCHANGED <<proxyVars, queueVars, cur, cfId, ctx, history>>

\* Classify, first half: QueryFlow and m_SduNum++.
EngineCount ==
    /\ eng = "count"
    /\ known' = known \cup {cur.flow}
    /\ sdu' = [sdu EXCEPT ![cur.flow] = @ + 1]
    /\ eng' = "judge"
    /\ UNCHANGED <<proxyVars, queueVars, cur, cfId, ctx, history>>

\* Classify returned; the packet is deleted.
Done == eng' = "idle" /\ cur' = NoPkt

\* Classify, second half: the flow has its class already.
EngineKnown ==
    /\ eng = "judge"
    /\ cfId[cur.flow] # NoVerdict
    /\ Done
    /\ UNCHANGED <<proxyVars, queueVars, flowVars, history>>

\* Mutant: a flow that has its class is classified again.
JudgeAgain == eng = "judge"

Undecided == eng = "judge" /\ cfId[cur.flow] = NoVerdict

\* Mutant: a flow past its budget is left without a class.
EngineGiveUpSilently ==
    /\ Undecided
    /\ Exhausted(cur.flow)
    /\ Done
    /\ UNCHANGED <<proxyVars, queueVars, flowVars, history>>

\* Too many packets: the flow is given up.
EngineGiveUp ==
    /\ Undecided
    /\ Exhausted(cur.flow)
    /\ cfId' = [cfId EXCEPT ![cur.flow] = UnIdentify]
    /\ Done
    /\ UNCHANGED <<proxyVars, queueVars, known, sdu, ctx, history>>

Searched ==
    /\ Undecided
    /\ ~Exhausted(cur.flow)
    /\ fed' = [fed EXCEPT ![cur.flow] = Append(@, cur.found)]

\* Mutant: the pattern is taken for the class.
WinningPatterns ==
    {p \in cur.found :
        Finishes(CfOf[p], cur.found, ctx[cur.flow][CfOf[p]], Port[cur.flow])}

\* The classifiers that reach a final state with the packet at hand.
Winners ==
    LET f == cur.flow
    IN  {c \in Related(cur.found) :
            Finishes(c, cur.found, ctx[f][c], Port[f])}

\* CfSet is ordered by address, so any of the winners may be the first.
EngineIdentify ==
    /\ Searched
    /\ \E c \in Winners : cfId' = [cfId EXCEPT ![cur.flow] = c]
    /\ ctx' = [ctx EXCEPT ![cur.flow] = FreshCtx]
    /\ Done
    /\ UNCHANGED <<proxyVars, queueVars, known, sdu, got, acct, late>>

\* Mutant: the state is kept with the classifier, not with the flow.
EngineAdvanceShared ==
    /\ Searched
    /\ Winners = {}
    /\ ctx' = [f \in Flows |-> [c \in Cf |->
                  IF c \in Related(cur.found)
                  THEN Step(c, cur.found, ctx[cur.flow][c], Port[cur.flow])
                  ELSE ctx[f][c]]]
    /\ Done
    /\ UNCHANGED <<proxyVars, queueVars, known, sdu, cfId, got, acct, late>>

EngineAdvance ==
    LET f == cur.flow
    IN  /\ Searched
        /\ Winners = {}
        /\ ctx' = [ctx EXCEPT ![f] = [c \in Cf |->
                      IF c \in Related(cur.found)
                      THEN Step(c, cur.found, @[c], Port[f])
                      ELSE @[c]]]
        /\ Done
        /\ UNCHANGED <<proxyVars, queueVars, known, sdu, cfId, got, acct, late>>

Engine ==
    \/ EngineLook \/ EnginePop \/ EngineCount
    \/ EngineKnown \/ EngineGiveUp \/ EngineIdentify \/ EngineAdvance

-----------------------------------------------------------------------------
\* Within the bounds every client may be gone or silent; nothing else stops.
Rest ==
    /\ \A c \in Conns :
         \/ pc[c] = "exit"
         \/ pc[c] = "recv" /\ conn[c] = "open" /\ nreq[c] = MaxReq
    /\ eng = "idle" /\ queue = <<>>
    /\ UNCHANGED vars

Next ==
    \/ \E c \in Conns : Accept(c) \/ PeerClose(c) \/ NetReset(c) \/ Recv(c)
    \/ \E c \in Conns : Proxy(c)
    \/ Engine
    \/ Rest

Spec == Init /\ [][Next]_vars

\* The threads are scheduled, and a reset the network owes is delivered.
Fairness ==
    /\ \A c \in Conns : WF_vars(Proxy(c)) /\ WF_vars(NetReset(c))
    /\ WF_vars(Engine)

FairSpec == Spec /\ Fairness

-----------------------------------------------------------------------------
(* Properties.                                                               *)

Labels == {"none", "recv", "query", "check", "lock", "append", "send", "exit"}

\* The type of every variable.
TypeOK ==
    /\ conn \in [Conns -> {"closed", "open", "fin", "rst"}]
    /\ provoked \subseteq Conns
    /\ nreq \in [Conns -> Nat]
    /\ pc \in [Conns -> Labels]
    /\ pkt \in [Conns -> Received]
    /\ cfRead \in [Conns -> Verdict \cup {NoVerdict}]
    /\ mutex \in Conns \cup {Nobody}
    /\ queue \in Seq(Packet)
    /\ eng \in {"idle", "pop", "count", "judge"}
    /\ cur \in Received
    /\ known \subseteq Flows
    /\ sdu \in [Flows -> Nat]
    /\ cfId \in [Flows -> Verdict \cup {NoVerdict}]
    /\ ctx \in [Flows -> [Cf -> Nat]]
    /\ got \in [Flows -> Nat]
    /\ acct \in [Flows -> Nat]
    /\ fed \in [Flows -> Seq(SUBSET Pid)]
    /\ late \subseteq Conns \X Flows

\* Analysis reads the size without the lock and then calls Pop, which takes
\* front() of whatever it finds: once Pop has the mutex there is a packet.
PopFindsPacket == eng = "pop" /\ mutex = Nobody => queue # <<>>

Owned(c) == pc[c] \in {"query", "check", "lock", "append"}
Queued(f) == {i \in DOMAIN queue : queue[i].flow = f}
Handled(f) == {c \in Conns : Owned(c) /\ pkt[c].flow = f}
OnBench(f) == IF eng = "count" /\ cur.flow = f THEN 1 ELSE 0

\* Every request of a flow is, at any time, with exactly one owner: a proxy,
\* the queue, the analysis thread before counting it, or one of the two
\* counters.  Nothing is lost, analysed twice, or both queued and accounted.
PacketsAccounted ==
    \A f \in Flows :
        got[f] = acct[f] + sdu[f] + OnBench(f)
                 + Cardinality(Queued(f)) + Cardinality(Handled(f))

\* The state classifier c is in after the first n payloads of a flow.
RunOf(c, f) ==
    LET run[n \in 0..Len(fed[f])] ==
            IF n = 0 THEN 0
            ELSE Step(c, fed[f][n], run[n - 1], Port[f])
    IN  run

Final(c, f, n) == RunOf(c, f)[n] \in Table[c].fin

\* The class of a flow is what its own packets say, however the packets of
\* other flows and connections were interleaved with them: while it is open,
\* the stored states are those of a run over the payloads of this flow, and
\* none is final; a class was reached by the last payload and by none before;
\* UnIdentify means that DPI_NUM payloads were examined in vain.
VerdictJustified ==
    \A f \in Flows :
        LET n == Len(fed[f])
            vain(m) == \A c \in Cf : \A k \in 0..m : ~Final(c, f, k)
        IN  CASE cfId[f] = NoVerdict ->
                    vain(n) /\ \A c \in Cf : ctx[f][c] = RunOf(c, f)[n]
              [] cfId[f] = UnIdentify -> n = DPI_NUM /\ vain(n)
              [] OTHER -> n > 0 /\ Final(cfId[f], f, n) /\ vain(n - 1)

\* An undecided flow is never past its budget, except while the analysis
\* thread is about to give it up; a proxy that sees m_SduNum > DPI_NUM may
\* therefore drop the packet.
BudgetDecides ==
    \A f \in Flows :
        Exhausted(f) => cfId[f] # NoVerdict \/ (eng = "judge" /\ cur.flow = f)

\* Once set, the class of a flow never changes, although packets pushed before
\* the verdict, or after it on a stale read, are still classified.
VerdictOnce ==
    [][\A f \in Flows : cfId[f] # NoVerdict => cfId'[f] = cfId[f]]_vars

\* A thread that read "undecided" just before the verdict queues one packet in
\* vain, never a second one: the backlog after a verdict is bounded by the
\* number of connections.
LateOnce ==
    [][\A c \in Conns :
          LET f == pkt[c].flow
          IN  pc[c] = "append" /\ pc'[c] # "append" /\ cfId[f] # NoVerdict
                 => <<c, f>> \notin late]_vars

Busy(c) == pc[c] \in {"query", "check", "lock", "append", "send"}

\* Every request is answered, or its connection is broken and the thread ends.
Answered == \A c \in Conns : Busy(c) ~> ~Busy(c)

\* A flow with more than DPI_NUM packets gets a class.
EventuallyDecided ==
    \A f \in Flows : got[f] > DPI_NUM ~> cfId[f] # NoVerdict

\* The thread of a connection whose client has gone ends, although it takes
\* the end of the stream for a packet.
ThreadEnds == \A c \in Conns : conn[c] \in {"fin", "rst"} ~> pc[c] = "exit"

\* The daemon implements FlowVerdict: the look is the unlocked read of m_CfId.
Stage(c) ==
    CASE pc[c] \in {"none", "recv"} -> "idle"
      [] pc[c] = "query" -> "asked"
      [] pc[c] = "exit" -> "gone"
      [] OTHER -> "looked"

V == INSTANCE FlowVerdict WITH
        verdict <- cfId,
        stage <- [c \in Conns |-> Stage(c)],
        about <- [c \in Conns |-> pkt[c].flow],
        answer <- cfRead

\* One verdict per flow, and answers that are the verdict at a moment between
\* request and answer.
ImplementsFlowVerdict == V!Spec
=============================================================================
