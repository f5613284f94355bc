--------------------------- MODULE DpiDaemonProofs ---------------------------
(* Proofs about DpiDaemon, for any number of connections and flows, any      *)
(* classifier table and any DPI_NUM: what the queue and the mutex keep, that *)
(* the daemon implements FlowVerdict, that no packet is lost or counted      *)
(* twice, that a class is what the packets of its own flow say, and what     *)
(* this means for the table the repository configures.                       *)
EXTENDS DpiTable, SequenceTheorems, FiniteSetTheorems, TLAPS

-----------------------------------------------------------------------------
(* Lemmas about the classifiers.                                             *)

\* The ordered map has a first enabled entry.
LEMMA LeastNat ==
    ASSUME NEW T, T \subseteq Nat, T # {}
    PROVE  \E p \in T : \A q \in T : p <= q
<1> DEFINE Less == OpToRel(<, Nat)
<1>1. \E p \in T : \A q \in T : ~ (<<q, p>> \in Less)
    BY WFMin, NatLessThanWellFounded, Zenon
<1>2. \A p, q \in Nat : q < p => <<q, p>> \in Less
    BY DEF OpToRel
<1> HIDE DEF Less
<1>3. PICK p \in T : \A q \in T : ~ (<<q, p>> \in Less)
    BY <1>1
<1>4. \A q \in T : ~ (q < p)
    BY <1>2, <1>3, Zenon
<1> QED
    BY <1>3, <1>4

\* A classifier never leaves its states: NxtS != NULL.
LEMMA StepStays ==
    ASSUME NEW c \in Cf, NEW found, NEW s \in States(c), NEW port
    PROVE  Step(c, found, s, port) \in States(c)
<1> DEFINE hits == Enabled(c, found, s)
           first == CHOOSE p \in hits : \A q \in hits : p <= q
<1>1. CASE hits = {}
    BY <1>1 DEF Step, Target
<1>2. CASE hits # {}
    <2>1. hits \subseteq Nat
        BY ClassifierAssumption DEF Enabled, States
    <2>2. first \in hits
        BY <1>2, <2>1, LeastNat, Zenon
    <2>3. Table[c].next[s][first] \in States(c)
        BY <2>2, ClassifierAssumption DEF Enabled, States
    <2> QED
        BY <1>2, <2>3 DEF Step, Target
<1> QED
    BY <1>1, <1>2

\* The classifiers consulted for a packet are classifiers of the table.
LEMMA RelatedInTable ==
    ASSUME NEW found \in SUBSET Pid
    PROVE  Related(found) \subseteq Cf
BY ClassifierAssumption DEF Related

-----------------------------------------------------------------------------
(* The inductive invariant.                                                  *)

\* What a proxy holds at each point of its loop.
LocalInv ==
    \A c \in Conns :
        /\ pc[c] \in {"none", "recv", "exit"} => pkt[c] = NoPkt
        /\ pc[c] \in {"none", "recv", "query", "exit"} => cfRead[c] = NoVerdict
        /\ pc[c] \in {"check", "lock", "append"} => pkt[c].flow \in Flows

\* The mutex is held by the thread that is appending, and by no other.
MutexInv == \A c \in Conns : pc[c] = "append" <=> mutex = c

\* The analysis thread works on a packet of a flow, and when it has seen the
\* queue non-empty there is a packet in it or one is about to be.
BenchInv ==
    /\ eng \in {"count", "judge"} => cur \in Packet
    /\ eng = "pop" => queue # <<>> \/ mutex # Nobody

\* Every stored state is a state of its classifier.
CtxInv == \A f \in Flows : \A c \in Cf : ctx[f][c] \in States(c)

\* A connection that queued a packet of a decided flow knows the verdict the
\* next time it gets to the check, and does not pass it.
LateInv ==
    \A c \in Conns : \A f \in Flows :
        <<c, f>> \in late =>
            /\ cfId[f] # NoVerdict
            /\ pc[c] = "check" /\ pkt[c].flow = f => cfRead[c] # NoVerdict
            /\ pc[c] \in {"lock", "append"} => pkt[c].flow # f

IInv ==
    /\ TypeOK
    /\ LocalInv
    /\ MutexInv
    /\ BenchInv
    /\ CtxInv
    /\ LateInv
    /\ BudgetDecides

LEMMA InitInv == Init => IInv
<1> SUFFICES ASSUME Init PROVE IInv
    OBVIOUS
<1> USE DaemonAssumption, ClassifierAssumption DEF Init
<1>1. NoPkt \in Received
    BY DEF Received
<1>2. FreshCtx \in [Cf -> Nat]
    BY DEF FreshCtx
<1>3. TypeOK
    BY <1>1, <1>2 DEF TypeOK, Labels, Verdict
<1>4. CtxInv
    BY DEF CtxInv, FreshCtx, States
<1>5. LocalInv /\ MutexInv /\ BenchInv /\ LateInv
    BY DEF LocalInv, MutexInv, BenchInv, LateInv
<1>6. BudgetDecides
    BY DEF BudgetDecides, Exhausted
<1> QED
    BY <1>3, <1>4, <1>5, <1>6 DEF IInv

\* Steps that leave the flow contexts and the engine alone.
LEMMA FlowPartKept ==
    ASSUME IInv, UNCHANGED <<engVars, flowVars>>
    PROVE  CtxInv' /\ BudgetDecides'
BY DEF IInv, CtxInv, BudgetDecides, Exhausted, engVars, flowVars, States

\* Accept, PeerClose, NetReset, Recv, RecvEof and RecvError.
LEMMA ClientInv ==
    ASSUME IInv, NEW c \in Conns,
           \/ Accept(c) \/ PeerClose(c) \/ NetReset(c)
           \/ Recv(c) \/ RecvEof(c) \/ RecvError(c)
    PROVE  IInv'
<1> USE DaemonAssumption DEF IInv, TypeOK, Labels, Goto, queueVars, engVars,
                              flowVars, history
<1>1. UNCHANGED <<engVars, flowVars>>
    BY DEF Accept, PeerClose, NetReset, Recv, RecvEof, RecvError
<1>2. CtxInv' /\ BudgetDecides'
    BY <1>1, FlowPartKept
<1>3. CASE Accept(c)
    BY <1>2, <1>3 DEF Accept, LocalInv, MutexInv, BenchInv, LateInv
<1>4. CASE PeerClose(c)
    BY <1>2, <1>4 DEF PeerClose, LocalInv, MutexInv, BenchInv, LateInv
<1>5. CASE NetReset(c)
    BY <1>2, <1>5 DEF NetReset, LocalInv, MutexInv, BenchInv, LateInv
<1>6. CASE Recv(c)
    <2>0. PICK f \in Flows \cup {NoFlow} :
            \E found \in (IF f = NoFlow THEN {{}} ELSE Payloads) :
               /\ pkt' = [pkt EXCEPT ![c] = [flow |-> f, found |-> found]]
               /\ got' = IF f = NoFlow THEN got ELSE [got EXCEPT ![f] = @ + 1]
        BY <1>6 DEF Recv
    <2>1. PICK found \in (IF f = NoFlow THEN {{}} ELSE Payloads) :
               /\ pkt' = [pkt EXCEPT ![c] = [flow |-> f, found |-> found]]
               /\ got' = IF f = NoFlow THEN got ELSE [got EXCEPT ![f] = @ + 1]
        BY <2>0
    <2>2. TypeOK'
        <3>1. [flow |-> f, found |-> found] \in Received
            BY DEF Received, Packet, NoPkt
        <3>2. pkt' \in [Conns -> Received] /\ got' \in [Flows -> Nat]
            BY <2>1, <3>1
        <3>3. nreq' \in [Conns -> Nat] /\ pc' \in [Conns -> Labels]
            BY <1>6, SMTT(30) DEF Recv
        <3>4. UNCHANGED <<conn, provoked, cfRead, mutex, queue, eng, cur,
                          known, sdu, cfId, ctx, acct, fed, late>>
            BY <1>6 DEF Recv
        <3> QED
            BY <3>2, <3>3, <3>4
    <2>3. LocalInv'
        BY <1>6 DEF Recv, LocalInv
    <2>4. MutexInv' /\ BenchInv'
        BY <1>6 DEF Recv, MutexInv, BenchInv
    <2>5. LateInv'
        BY <1>6 DEF Recv, LateInv
    <2> QED
        BY <1>2, <2>2, <2>3, <2>4, <2>5
<1>7. CASE RecvEof(c)
    BY <1>2, <1>7 DEF RecvEof, LocalInv, MutexInv, BenchInv, LateInv
<1>8. CASE RecvError(c)
    BY <1>2, <1>8 DEF RecvError, LocalInv, MutexInv, BenchInv, LateInv
<1> QED
    BY <1>3, <1>4, <1>5, <1>6, <1>7, <1>8

\* The body of the proxy loop, between recv and the end of send.
LEMMA ProxyInv ==
    ASSUME IInv, NEW c \in Conns,
           \/ QueryNothing(c) \/ Query(c) \/ CheckPush(c) \/ CheckSkip(c)
           \/ PushLock(c) \/ PushAppend(c) \/ Send(c) \/ SendError(c)
    PROVE  IInv'
<1> USE DaemonAssumption DEF IInv, TypeOK, Labels, Goto, queueVars, engVars,
                              flowVars, history
<1>1. UNCHANGED <<engVars, sdu, cfId, ctx>>
    BY DEF QueryNothing, Query, CheckPush, CheckSkip, PushLock, PushAppend,
           Send, SendError
<1>2. CtxInv' /\ BudgetDecides'
    BY <1>1 DEF CtxInv, BudgetDecides, Exhausted, States
<1>3. CASE QueryNothing(c)
    BY <1>2, <1>3 DEF QueryNothing, LocalInv, MutexInv, BenchInv, LateInv
<1>4. CASE Query(c)
    <2>1. TypeOK'
        BY <1>4 DEF Query
    <2>2. LocalInv' /\ MutexInv' /\ BenchInv'
        BY <1>4 DEF Query, LocalInv, MutexInv, BenchInv
    <2>3. LateInv'
        BY <1>4 DEF Query, LateInv
    <2> QED
        BY <1>2, <2>1, <2>2, <2>3
<1>5. CASE CheckPush(c)
    <2>1. TypeOK'
        BY <1>5 DEF CheckPush
    <2>2. LocalInv' /\ MutexInv' /\ BenchInv'
        BY <1>5 DEF CheckPush, LocalInv, MutexInv, BenchInv
    <2>3. LateInv'
        BY <1>5 DEF CheckPush, WantsMore, LateInv
    <2> QED
        BY <1>2, <2>1, <2>2, <2>3
<1>6. CASE CheckSkip(c)
    <2>1. TypeOK'
        <3> DEFINE g == pkt[c].flow
        <3>g. g \in Flows
            BY <1>6 DEF CheckSkip, LocalInv
        <3>n. acct[g] + 1 \in Nat
            BY <3>g
        <3>1. acct' \in [Flows -> Nat]
            <4>1. acct' = [acct EXCEPT ![g] = acct[g] + 1]
                BY <1>6 DEF CheckSkip
            <4> HIDE DEF g
            <4> QED
                BY <3>g, <3>n, <4>1
        <3>2. pc' \in [Conns -> Labels]
            BY <1>6 DEF CheckSkip
        <3> QED
            BY <1>6, <3>1, <3>2 DEF CheckSkip
    <2>2. LocalInv' /\ MutexInv' /\ BenchInv'
        BY <1>6 DEF CheckSkip, LocalInv, MutexInv, BenchInv
    <2>3. LateInv'
        BY <1>6 DEF CheckSkip, LateInv
    <2> QED
        BY <1>2, <2>1, <2>2, <2>3
<1>7. CASE PushLock(c)
    <2>1. TypeOK'
        BY <1>7 DEF PushLock
    <2>2. LocalInv' /\ MutexInv' /\ BenchInv'
        BY <1>7 DEF PushLock, LocalInv, MutexInv, BenchInv
    <2>3. LateInv'
        BY <1>7 DEF PushLock, LateInv
    <2> QED
        BY <1>2, <2>1, <2>2, <2>3
<1>8. CASE PushAppend(c)
    <2>1. pkt[c] \in Packet
        BY <1>8 DEF PushAppend, LocalInv, Received, NoPkt
    <2>2. TypeOK'
        BY <1>8, <2>1, SMTT(30) DEF PushAppend, Packet
    <2>3. LocalInv' /\ MutexInv'
        BY <1>8 DEF PushAppend, LocalInv, MutexInv
    <2>4. queue' # <<>> /\ UNCHANGED <<eng, cur>>
        <3>1. queue' = Append(queue, pkt[c]) /\ UNCHANGED <<eng, cur>>
            BY <1>8 DEF PushAppend
        <3>2. queue \in Seq(Packet)
            OBVIOUS
        <3>3. Append(queue, pkt[c]) # <<>>
            BY ONLY <2>1, <3>2, AppendProperties, ZenonT(30)
        <3> QED
            BY <3>1, <3>3
    <2>5. BenchInv'
        BY <2>4 DEF BenchInv
    <2>6. LateInv'
        BY <1>8, <2>1 DEF PushAppend, LateInv
    <2> QED
        BY <1>2, <2>2, <2>3, <2>5, <2>6
<1>9. CASE Send(c) \/ SendError(c)
    <2>1. NoPkt \in Received
        BY DEF Received
    <2>2. /\ pkt' = [pkt EXCEPT ![c] = NoPkt]
          /\ cfRead' = [cfRead EXCEPT ![c] = NoVerdict]
          /\ pc' = [pc EXCEPT ![c] = "recv"] \/ pc' = [pc EXCEPT ![c] = "exit"]
          /\ provoked' = provoked \/ provoked' = provoked \cup {c}
          /\ UNCHANGED <<conn, nreq, mutex, queue, eng, cur, known, sdu, cfId,
                         ctx, got, acct, fed, late>>
        BY <1>9 DEF Send, SendError, Forget
    <2>3. TypeOK'
        <3>1. pkt' \in [Conns -> Received]
            BY <2>1, <2>2
        <3>2. pc' \in [Conns -> Labels] /\ provoked' \subseteq Conns
            BY <2>2
        <3> QED
            BY <2>2, <3>1, <3>2
    <2>4. LocalInv'
        BY <2>2 DEF LocalInv
    <2>5. MutexInv' /\ BenchInv'
        BY <1>9, <2>2 DEF Send, SendError, MutexInv, BenchInv
    <2>6. LateInv'
        BY <2>2 DEF LateInv
    <2> QED
        BY <1>2, <2>3, <2>4, <2>5, <2>6
<1> QED
    BY <1>3, <1>4, <1>5, <1>6, <1>7, <1>8, <1>9

\* The analysis thread never takes back a verdict.
LEMMA EngineKeepsVerdicts ==
    ASSUME IInv, Engine
    PROVE  \A f \in Flows : cfId[f] # NoVerdict => cfId'[f] = cfId[f]
BY DEF IInv, TypeOK, Engine, EngineLook, EnginePop, EngineCount, EngineKnown,
       EngineGiveUp, EngineIdentify, EngineAdvance, Searched, Undecided, flowVars

\* The proxies' part of the invariant does not notice the analysis thread.
LEMMA EngineApart ==
    ASSUME IInv, Engine
    PROVE  LocalInv' /\ MutexInv' /\ LateInv'
<1>1. UNCHANGED <<proxyVars, mutex, late>>
    BY DEF Engine, EngineLook, EnginePop, EngineCount, EngineKnown,
           EngineGiveUp, EngineIdentify, EngineAdvance, queueVars, history
<1>2. LocalInv' /\ MutexInv'
    BY <1>1 DEF IInv, LocalInv, MutexInv, proxyVars
<1>3. \A f \in Flows : cfId[f] # NoVerdict => cfId'[f] # NoVerdict
    BY EngineKeepsVerdicts
<1>4. LateInv'
    BY <1>1, <1>3 DEF IInv, LateInv, proxyVars
<1> QED
    BY <1>2, <1>4

\* The history of payloads keeps its type.
LEMMA FedTyped ==
    ASSUME TypeOK, Searched, cur.flow \in Flows, cur.found \in SUBSET Pid
    PROVE  fed' \in [Flows -> Seq(SUBSET Pid)]
<1>1. fed[cur.flow] \in Seq(SUBSET Pid)
    BY DEF TypeOK
<1>2. Append(fed[cur.flow], cur.found) \in Seq(SUBSET Pid)
    BY <1>1, AppendProperties
<1> QED
    BY <1>2 DEF TypeOK, Searched

\* The analysis thread keeps the rest of the invariant.
LEMMA EngineInv ==
    ASSUME IInv, Engine
    PROVE  IInv'
<1> USE DaemonAssumption, ClassifierAssumption
    DEF IInv, TypeOK, proxyVars, queueVars, engVars, flowVars, history
<1>0. NoPkt \in Received /\ LocalInv' /\ MutexInv' /\ LateInv'
    BY EngineApart DEF Received
<1>1. CASE EngineLook
    BY <1>0, <1>1 DEF EngineLook, BenchInv, CtxInv, BudgetDecides, Exhausted
<1>2. CASE EnginePop
    <2>1. Head(queue) \in Packet /\ Tail(queue) \in Seq(Packet)
        BY <1>2 DEF EnginePop
    <2> QED
        BY <1>0, <1>2, <2>1 DEF EnginePop, Received, BenchInv, CtxInv,
                                BudgetDecides, Exhausted
<1>3. CASE EngineCount
    <2>1. cur.flow \in Flows
        BY <1>3 DEF EngineCount, BenchInv, Packet
    <2>2. TypeOK'
        <3>1. sdu' \in [Flows -> Nat] /\ known' \subseteq Flows
            BY <1>3, <2>1, SMTT(30) DEF EngineCount
        <3> QED
            BY <1>3, <3>1 DEF EngineCount
    <2>3. BudgetDecides'
        BY <1>3, <2>1 DEF EngineCount, BudgetDecides, Exhausted
    <2> QED
        BY <1>0, <1>3, <2>2, <2>3 DEF EngineCount, BenchInv, CtxInv
<1>4. CASE EngineKnown
    BY <1>0, <1>4 DEF EngineKnown, Done, BenchInv, CtxInv, BudgetDecides,
                      Exhausted
<1>5. CASE EngineGiveUp
    <2>1. cur.flow \in Flows
        BY <1>5 DEF EngineGiveUp, Undecided, BenchInv, Packet
    <2>2. TypeOK'
        BY <1>0, <1>5, <2>1 DEF EngineGiveUp, Done, Verdict
    <2>3. BudgetDecides'
        BY <1>5, <2>1 DEF EngineGiveUp, Undecided, Done, BudgetDecides,
                          Exhausted
    <2> QED
        BY <1>0, <1>5, <2>2, <2>3 DEF EngineGiveUp, Done, BenchInv, CtxInv
<1>6. CASE EngineIdentify
    <2>1. cur.flow \in Flows /\ cur.found \in SUBSET Pid
        BY <1>6 DEF EngineIdentify, Searched, Undecided, BenchInv, Packet
    <2>2. PICK c \in Cf : cfId' = [cfId EXCEPT ![cur.flow] = c]
        BY <1>6, <2>1, RelatedInTable DEF EngineIdentify, Winners
    <2>3. FreshCtx \in [Cf -> Nat] /\ \A d \in Cf : FreshCtx[d] \in States(d)
        BY DEF FreshCtx, States
    <2>4. TypeOK'
        <3>1. ctx' \in [Flows -> [Cf -> Nat]]
            BY <1>6, <2>1, <2>3 DEF EngineIdentify
        <3>2. fed' \in [Flows -> Seq(SUBSET Pid)]
            BY <1>6, <2>1, FedTyped DEF EngineIdentify
        <3>3. cfId' \in [Flows -> Verdict \cup {NoVerdict}]
            BY <2>1, <2>2 DEF Verdict
        <3> QED
            BY <1>0, <1>6, <3>1, <3>2, <3>3 DEF EngineIdentify, Done
    <2>5. CtxInv'
        BY <1>6, <2>1, <2>3 DEF EngineIdentify, CtxInv
    <2>6. BudgetDecides'
        BY <1>6, <2>1, <2>2, SMTT(30) DEF EngineIdentify, Searched, Undecided, Done,
                                BudgetDecides, Exhausted
    <2> QED
        BY <1>0, <1>6, <2>4, <2>5, <2>6 DEF EngineIdentify, Done, BenchInv
<1>7. CASE EngineAdvance
    <2>1. cur.flow \in Flows /\ cur.found \in SUBSET Pid
        BY <1>7 DEF EngineAdvance, Searched, Undecided, BenchInv, Packet
    <2>2. \A c \in Cf : ctx'[cur.flow][c] \in States(c)
        BY <1>7, <2>1, StepStays DEF EngineAdvance, CtxInv
    <2>3. CtxInv'
        BY <1>7, <2>1, <2>2 DEF EngineAdvance, CtxInv
    <2>4. TypeOK'
        <3> DEFINE moved == [c \in Cf |->
                       IF c \in Related(cur.found)
                       THEN Step(c, cur.found, ctx[cur.flow][c], Port[cur.flow])
                       ELSE ctx[cur.flow][c]]
        <3>0. ctx' = [ctx EXCEPT ![cur.flow] = moved]
            BY <1>7 DEF EngineAdvance
        <3>1. ctx'[cur.flow] \in [Cf -> Nat]
            <4> HIDE DEF moved
            <4>1. ctx'[cur.flow] = moved
                BY <2>1, <3>0
            <4>2. \A c \in Cf : moved[c] \in Nat
                BY <2>2, <4>1 DEF States
            <4> QED
                BY <4>1, <4>2 DEF moved
        <3>2. ctx' \in [Flows -> [Cf -> Nat]]
            BY <1>7, <2>1, <3>1 DEF EngineAdvance
        <3>3. fed' \in [Flows -> Seq(SUBSET Pid)]
            BY <1>7, <2>1, FedTyped DEF EngineAdvance
        <3> QED
            BY <1>0, <1>7, <3>2, <3>3 DEF EngineAdvance, Done
    <2>5. BudgetDecides'
        BY <1>7, <2>1 DEF EngineAdvance, Searched, Undecided, Done,
                          BudgetDecides, Exhausted
    <2> QED
        BY <1>0, <1>7, <2>3, <2>4, <2>5 DEF EngineAdvance, Done, BenchInv
<1> QED
    BY <1>1, <1>2, <1>3, <1>4, <1>5, <1>6, <1>7 DEF Engine

LEMMA StutterInv ==
    ASSUME IInv, UNCHANGED vars
    PROVE  IInv'
BY DEF IInv, TypeOK, LocalInv, MutexInv, BenchInv, CtxInv, LateInv,
       BudgetDecides, Exhausted, States, vars, proxyVars, queueVars, engVars,
       flowVars, history

LEMMA NextInv == IInv /\ [Next]_vars => IInv'
<1> SUFFICES ASSUME IInv, [Next]_vars PROVE IInv'
    OBVIOUS
<1>1. ASSUME NEW c \in Conns,
             Accept(c) \/ PeerClose(c) \/ NetReset(c) \/ Recv(c)
      PROVE  IInv'
    BY <1>1, ClientInv
<1>2. ASSUME NEW c \in Conns, Proxy(c) PROVE IInv'
    BY <1>2, ClientInv, ProxyInv DEF Proxy
<1>3. CASE Engine
    BY <1>3, EngineInv
<1>4. CASE Rest \/ UNCHANGED vars
    BY <1>4, StutterInv DEF Rest
<1> QED
    BY <1>1, <1>2, <1>3, <1>4 DEF Next

\* The strengthened invariant holds in every reachable state.
THEOREM Invariance == Spec => []IInv
<1>1. Init => IInv
    BY InitInv
<1>2. IInv /\ [Next]_vars => IInv'
    BY NextInv
<1> QED
    BY <1>1, <1>2, PTL DEF Spec

-----------------------------------------------------------------------------
(* Safety.                                                                   *)

\* Every variable keeps its type.
THEOREM TypeCorrect == Spec => []TypeOK
<1>1. IInv => TypeOK
    BY DEF IInv
<1> QED
    BY <1>1, Invariance, PTL

\* Pop never takes the front of an empty queue, although the size was read
\* without the lock.
THEOREM PopFindsPacketHolds == Spec => []PopFindsPacket
<1>1. IInv => PopFindsPacket
    BY DEF IInv, BenchInv, PopFindsPacket
<1> QED
    BY <1>1, Invariance, PTL

\* Past its budget a flow is decided, or about to be.
THEOREM BudgetDecidesHolds == Spec => []BudgetDecides
<1>1. IInv => BudgetDecides
    BY DEF IInv
<1> QED
    BY <1>1, Invariance, PTL

\* Only the analysis thread writes a class.
LEMMA OnlyEngineDecides ==
    ASSUME [Next]_vars, ~ Engine
    PROVE  UNCHANGED cfId
BY DEF Next, vars, Accept, PeerClose, NetReset, Recv, Proxy, RecvEof,
       RecvError, QueryNothing, Query, CheckPush, CheckSkip, PushLock,
       PushAppend, Send, SendError, Rest, flowVars

\* The class of a flow is written once.
THEOREM VerdictOnceHolds == Spec => VerdictOnce
<1>1. IInv /\ [Next]_vars
         => [\A f \in Flows : cfId[f] # NoVerdict => cfId'[f] = cfId[f]]_vars
    BY EngineKeepsVerdicts, OnlyEngineDecides
<1> QED
    BY <1>1, Invariance, PTL DEF Spec, VerdictOnce

\* A connection queues at most one packet of a flow after the flow's verdict.
THEOREM LateOnceHolds == Spec => LateOnce
<1> DEFINE A == \A c \in Conns :
                   LET f == pkt[c].flow
                   IN  pc[c] = "append" /\ pc'[c] # "append"
                          /\ cfId[f] # NoVerdict
                          => <<c, f>> \notin late
<1>1. IInv => A
    BY DEF IInv, LateInv, LocalInv
<1>2. IInv /\ [Next]_vars => [A]_vars
    BY <1>1
<1> QED
    BY <1>2, Invariance, PTL DEF Spec, LateOnce

-----------------------------------------------------------------------------
(* Refinement of FlowVerdict.                                                *)

StageMap == [c \in Conns |-> Stage(c)]
AboutMap == [c \in Conns |-> pkt[c].flow]

\* A step that changes nothing a client can see.
LEMMA Invisible ==
    ASSUME UNCHANGED <<cfId, StageMap, AboutMap, cfRead>>
    PROVE  UNCHANGED V!vars
BY DEF V!vars, StageMap, AboutMap

\* What moving one thread does to the stages.
LEMMA StageMoves ==
    ASSUME TypeOK, NEW c \in Conns, NEW l \in Labels, Goto(c, l)
    PROVE  StageMap' = [StageMap EXCEPT ![c] =
              CASE l \in {"none", "recv"} -> "idle"
                [] l = "query" -> "asked"
                [] l = "exit" -> "gone"
                [] OTHER -> "looked"]
BY DEF TypeOK, Goto, Stage, StageMap, Labels

LEMMA RefinesInit == Init => V!Init
BY DEF Init, V!Init, Stage, NoPkt, NoVerdict, V!NoVerdict

LEMMA RefinesNext ==
    ASSUME IInv, [Next]_vars
    PROVE  [V!Next]_(V!vars)
<1> USE DEF IInv, TypeOK
<1>1. ASSUME NEW c \in Conns, Recv(c) \/ RecvEof(c) PROVE V!Next
    <2>1. pc[c] = "recv" /\ Goto(c, "query") /\ UNCHANGED <<cfId, cfRead>>
        BY <1>1 DEF Recv, RecvEof, flowVars
    <2>2. \E f \in Flows \cup {NoFlow} : AboutMap' = [AboutMap EXCEPT ![c] = f]
        <3>1. CASE Recv(c)
            <4>1. PICK f \in Flows \cup {NoFlow} :
                     \E found \in (IF f = NoFlow THEN {{}} ELSE Payloads) :
                        pkt' = [pkt EXCEPT ![c] = [flow |-> f, found |-> found]]
                BY <3>1 DEF Recv
            <4>2. PICK found :
                     pkt' = [pkt EXCEPT ![c] = [flow |-> f, found |-> found]]
                BY <4>1
            <4>3. AboutMap' = [AboutMap EXCEPT ![c] = f]
                BY <4>2 DEF AboutMap
            <4> QED
                BY <4>3
        <3>2. CASE RecvEof(c)
            <4>1. pkt[c].flow = NoFlow /\ UNCHANGED pkt
                BY <2>1, <3>2 DEF RecvEof, LocalInv, NoPkt
            <4>2. AboutMap' = [AboutMap EXCEPT ![c] = NoFlow]
                BY <4>1 DEF AboutMap
            <4> QED
                BY <4>2
        <3> QED
            BY <1>1, <3>1, <3>2
    <2>3. StageMap[c] = "idle"
        BY <2>1 DEF StageMap, Stage
    <2>4. StageMap' = [StageMap EXCEPT ![c] = "asked"]
        BY <2>1, StageMoves DEF Labels
    <2>5. \E f \in Flows \cup {NoFlow} : V!Ask(c, f)
        BY <2>1, <2>2, <2>3, <2>4 DEF V!Ask, StageMap, AboutMap
    <2> QED
        BY <2>5 DEF V!Next
<1>2. ASSUME NEW c \in Conns, QueryNothing(c) \/ Query(c) PROVE V!Next
    <2>1. /\ pc[c] = "query" /\ cfRead[c] = NoVerdict
          /\ Goto(c, "send") \/ Goto(c, "check")
          /\ UNCHANGED <<cfId, pkt>>
        BY <1>2 DEF QueryNothing, Query, LocalInv, flowVars
    <2>2. StageMap[c] = "asked" /\ AboutMap[c] = pkt[c].flow
        BY <2>1 DEF StageMap, AboutMap, Stage
    <2>3. StageMap' = [StageMap EXCEPT ![c] = "looked"]
        BY <2>1, StageMoves DEF Labels
    <2>4. cfRead' = [cfRead EXCEPT ![c] =
                        IF pkt[c].flow = NoFlow THEN NoVerdict
                        ELSE cfId[pkt[c].flow]]
        BY <1>2, <2>1, DaemonAssumption DEF QueryNothing, Query, NoPkt
    <2>5. V!Look(c)
        BY <2>1, <2>2, <2>3, <2>4
        DEF V!Look, StageMap, AboutMap, NoVerdict, V!NoVerdict
    <2> QED
        BY <2>5 DEF V!Next
<1>3. ASSUME NEW c \in Conns, Send(c) \/ SendError(c) \/ RecvError(c)
      PROVE  V!Next
    <2>1. /\ pkt' = [pkt EXCEPT ![c] = NoPkt]
          /\ cfRead' = [cfRead EXCEPT ![c] = NoVerdict]
          /\ UNCHANGED cfId
        BY <1>3 DEF Send, SendError, RecvError, Forget, LocalInv, flowVars
    <2>2. AboutMap' = [AboutMap EXCEPT ![c] = NoFlow]
        BY <2>1 DEF AboutMap, NoPkt
    <2>3. CASE Send(c)
        <3>1. StageMap[c] = "looked"
            BY <2>3 DEF Send, StageMap, Stage
        <3>2. StageMap' = [StageMap EXCEPT ![c] = "idle"]
            BY <2>3, StageMoves DEF Send, Labels
        <3>3. V!Tell(c)
            BY <2>1, <2>2, <3>1, <3>2
            DEF V!Tell, StageMap, AboutMap, NoVerdict, V!NoVerdict
        <3> QED
            BY <3>3 DEF V!Next
    <2>4. CASE SendError(c) \/ RecvError(c)
        <3>1. StageMap[c] # "gone"
            BY <2>4 DEF SendError, RecvError, StageMap, Stage
        <3>2. StageMap' = [StageMap EXCEPT ![c] = "gone"]
            BY <2>4, StageMoves DEF SendError, RecvError, Labels
        <3>3. V!Leave(c)
            BY <2>1, <2>2, <3>1, <3>2
            DEF V!Leave, StageMap, AboutMap, NoVerdict, V!NoVerdict
        <3> QED
            BY <3>3 DEF V!Next
    <2> QED
        BY <1>3, <2>3, <2>4
<1>4. ASSUME NEW c \in Conns,
             Accept(c) \/ PeerClose(c) \/ NetReset(c) \/ CheckPush(c)
             \/ CheckSkip(c) \/ PushLock(c) \/ PushAppend(c)
      PROVE  UNCHANGED V!vars
    <2>1. UNCHANGED <<cfId, pkt, cfRead>>
        BY <1>4 DEF Accept, PeerClose, NetReset, CheckPush, CheckSkip,
                    PushLock, PushAppend, flowVars
    <2>2. UNCHANGED StageMap
        BY <1>4 DEF Accept, PeerClose, NetReset, CheckPush, CheckSkip,
                    PushLock, PushAppend, Goto, StageMap, Stage, Labels
    <2>3. UNCHANGED AboutMap
        BY <2>1 DEF AboutMap
    <2> QED
        BY <2>1, <2>2, <2>3, Invisible
<1>5. CASE Engine
    <2>1. UNCHANGED <<pc, pkt, cfRead>>
        BY <1>5 DEF Engine, EngineLook, EnginePop, EngineCount, EngineKnown,
                    EngineGiveUp, EngineIdentify, EngineAdvance, proxyVars
    <2>2. UNCHANGED <<StageMap, AboutMap, cfRead>>
        BY <2>1 DEF StageMap, AboutMap, Stage
    <2>3. CASE EngineGiveUp \/ EngineIdentify
        <3>1. /\ cur.flow \in Flows /\ cur.found \in SUBSET Pid
              /\ cfId[cur.flow] = NoVerdict
            BY <2>3 DEF EngineGiveUp, EngineIdentify, Searched, Undecided,
                        BenchInv, Packet
        <3>2. \E v \in Verdict : cfId' = [cfId EXCEPT ![cur.flow] = v]
            <4>1. CASE EngineGiveUp
                BY <4>1 DEF EngineGiveUp, Verdict
            <4>2. CASE EngineIdentify
                BY <3>1, <4>2, RelatedInTable
                DEF EngineIdentify, Winners, Verdict
            <4> QED
                BY <2>3, <4>1, <4>2
        <3>3. \E v \in Verdict : V!Decide(cur.flow, v)
            BY <2>2, <3>1, <3>2
            DEF V!Decide, StageMap, AboutMap, NoVerdict, V!NoVerdict
        <3> QED
            BY <3>1, <3>3 DEF V!Next
    <2>4. CASE ~ (EngineGiveUp \/ EngineIdentify)
        <3>1. UNCHANGED cfId
            BY <1>5, <2>4 DEF Engine, EngineLook, EnginePop, EngineCount,
                              EngineKnown, EngineAdvance, flowVars
        <3> QED
            BY <2>1, <2>2, <3>1, Invisible
    <2> QED
        BY <2>3, <2>4
<1>6. CASE Rest \/ UNCHANGED vars
    <2>1. UNCHANGED <<pc, cfId, pkt, cfRead>>
        BY <1>6 DEF Rest, vars, proxyVars, flowVars
    <2>2. UNCHANGED <<StageMap, AboutMap>>
        BY <2>1 DEF StageMap, AboutMap, Stage
    <2> QED
        BY <2>1, <2>2, Invisible
<1> QED
    BY <1>1, <1>2, <1>3, <1>4, <1>5, <1>6 DEF Next, Proxy

\* The daemon implements FlowVerdict: one verdict per flow, and every answer
\* is the verdict its flow had between the request and the answer.
THEOREM Refinement == Spec => ImplementsFlowVerdict
<1>1. Init => V!Init
    BY RefinesInit
<1>2. IInv /\ [Next]_vars => [V!Next]_(V!vars)
    BY RefinesNext
<1> QED
    BY <1>1, <1>2, Invariance, PTL DEF Spec, ImplementsFlowVerdict, V!Spec

-----------------------------------------------------------------------------
(* No packet is lost or counted twice.                                       *)

\* The places of a queue that hold packets of a flow.
Places(s, f) == {i \in DOMAIN s : s[i].flow = f}

LEMMA PlacesFinite ==
    ASSUME NEW s \in Seq(Packet), NEW f
    PROVE  IsFiniteSet(Places(s, f)) /\ Cardinality(Places(s, f)) \in Nat
<1>1. Len(s) \in Nat /\ DOMAIN s = 1..Len(s)
    OBVIOUS
<1>2. IsFiniteSet(1..Len(s))
    BY <1>1, FS_Interval
<1>3. Places(s, f) \in SUBSET (1..Len(s))
    BY <1>1 DEF Places
<1>4. IsFiniteSet(Places(s, f))
    BY <1>2, <1>3, FS_Subset
<1> QED
    BY <1>4, FS_CardinalityType

\* A packet appended is one more of its flow ...
LEMMA AppendPlaces ==
    ASSUME NEW s \in Seq(Packet), NEW p \in Packet, NEW f
    PROVE  Cardinality(Places(Append(s, p), f))
             = Cardinality(Places(s, f)) + (IF p.flow = f THEN 1 ELSE 0)
<1> DEFINE n == Len(s) + 1
<1>1. /\ Len(s) \in Nat /\ DOMAIN s = 1..Len(s)
      /\ DOMAIN Append(s, p) = 1..n
      /\ \A i \in 1..Len(s) : Append(s, p)[i] = s[i]
      /\ Append(s, p)[n] = p
    OBVIOUS
<1>2. n \notin Places(s, f)
    BY <1>1 DEF Places
<1>3. CASE p.flow = f
    <2>1. Places(Append(s, p), f) = Places(s, f) \cup {n}
        BY <1>1, <1>3 DEF Places
    <2> HIDE DEF n
    <2>2. Cardinality(Places(s, f) \cup {n}) = Cardinality(Places(s, f)) + 1
        BY <1>2, PlacesFinite, FS_AddElement
    <2> QED
        BY <1>3, <2>1, <2>2
<1>4. CASE p.flow # f
    <2>1. Places(Append(s, p), f) = Places(s, f)
        BY <1>1, <1>4 DEF Places
    <2> QED
        BY <1>4, <2>1, PlacesFinite
<1> QED
    BY <1>3, <1>4

\* ... and the head taken off is one less.
LEMMA TailPlaces ==
    ASSUME NEW s \in Seq(Packet), s # <<>>, NEW f
    PROVE  Cardinality(Places(s, f))
             = Cardinality(Places(Tail(s), f))
               + (IF Head(s).flow = f THEN 1 ELSE 0)
<1> DEFINE T == Places(Tail(s), f)
           U == Places(s, f) \ {1}
           shift == [i \in T |-> i + 1]
<1>1. /\ Len(s) \in Nat \ {0} /\ DOMAIN s = 1..Len(s)
      /\ Tail(s) \in Seq(Packet)
      /\ DOMAIN Tail(s) = 1..(Len(s) - 1)
      /\ \A i \in 1..(Len(s) - 1) : Tail(s)[i] = s[i + 1]
      /\ Head(s) = s[1]
    OBVIOUS
<1>2. T \subseteq Nat /\ \A i \in T : i + 1 \in U
    BY <1>1 DEF Places
<1>3. \A j \in U : \E i \in T : j = i + 1
    <2> SUFFICES ASSUME NEW j \in U PROVE j - 1 \in T /\ j = (j - 1) + 1
        OBVIOUS
    <2>1. j \in 1..Len(s) /\ j # 1 /\ s[j].flow = f
        BY <1>1 DEF Places
    <2>2. j - 1 \in 1..(Len(s) - 1) /\ j = (j - 1) + 1
        BY <1>1, <2>1
    <2> QED
        BY <1>1, <2>1, <2>2 DEF Places
<1>4. Cardinality(U) = Cardinality(T)
    <2> HIDE DEF T, U
    <2>1. shift \in Bijection(T, U)
        BY <1>2, <1>3 DEF Bijection, Injection, Surjection, IsInjective
    <2>2. ExistsBijection(T, U)
        BY <2>1 DEF ExistsBijection
    <2>3. IsFiniteSet(T)
        BY <1>1, PlacesFinite DEF T
    <2> QED
        BY <2>2, <2>3, FS_Bijection
<1>5. Cardinality(U) = IF 1 \in Places(s, f) THEN Cardinality(Places(s, f)) - 1
                       ELSE Cardinality(Places(s, f))
    BY PlacesFinite, FS_RemoveElement
<1>6. 1 \in Places(s, f) <=> Head(s).flow = f
    BY <1>1 DEF Places
<1> QED
    BY <1>4, <1>5, <1>6, PlacesFinite

AccountOf(f) ==
    /\ IsFiniteSet(Handled(f))
    /\ got[f] = acct[f] + sdu[f] + OnBench(f)
                + Cardinality(Places(queue, f)) + Cardinality(Handled(f))

AccountInv == \A f \in Flows : AccountOf(f)

\* What the terms of the account are.
LEMMA AccountTerms ==
    ASSUME IInv, NEW f \in Flows, AccountOf(f)
    PROVE  /\ {got[f], acct[f], sdu[f], OnBench(f)} \subseteq Nat
           /\ Cardinality(Places(queue, f)) \in Nat
           /\ Cardinality(Handled(f)) \in Nat
<1>1. {got[f], acct[f], sdu[f], OnBench(f)} \subseteq Nat
    BY DEF IInv, TypeOK, OnBench
<1>2. Cardinality(Places(queue, f)) \in Nat
    BY PlacesFinite DEF IInv, TypeOK
<1>3. Cardinality(Handled(f)) \in Nat
    BY FS_CardinalityType DEF AccountOf
<1> QED
    BY <1>1, <1>2, <1>3

\* A step after which every proxy holds what it held.
LEMMA AccountKept ==
    ASSUME AccountInv, UNCHANGED <<got, acct, sdu, queue, eng, cur>>,
           \A c \in Conns : \A f \in Flows :
               (Owned(c) /\ pkt[c].flow = f)' <=> Owned(c) /\ pkt[c].flow = f
    PROVE  AccountInv'
<1>1. \A f \in Flows : Handled(f)' = Handled(f)
    BY DEF Handled
<1> QED
    BY <1>1 DEF AccountInv, AccountOf, OnBench

\* A step with which one proxy gets hold of a packet of flow g.
LEMMA HandledMore ==
    ASSUME NEW c \in Conns, NEW f \in Flows, IsFiniteSet(Handled(f)),
           ~ Owned(c), Owned(c)',
           \A d \in Conns \ {c} :
               (Owned(d) /\ pkt[d].flow = f)' <=> Owned(d) /\ pkt[d].flow = f
    PROVE  /\ IsFiniteSet(Handled(f)')
           /\ Cardinality(Handled(f)')
                = Cardinality(Handled(f)) + (IF pkt[c].flow' = f THEN 1 ELSE 0)
<1>0. Cardinality(Handled(f)) \in Nat /\ c \notin Handled(f)
    BY FS_CardinalityType DEF Handled
<1>1. CASE pkt[c].flow' = f
    <2>1. Handled(f)' = Handled(f) \cup {c}
        BY <1>1 DEF Handled
    <2> QED
        BY <1>0, <1>1, <2>1, FS_AddElement
<1>2. CASE pkt[c].flow' # f
    <2>1. Handled(f)' = Handled(f)
        BY <1>2 DEF Handled
    <2> QED
        BY <1>0, <1>2, <2>1
<1> QED
    BY <1>1, <1>2

\* A step with which one proxy parts with its packet.
LEMMA HandledLess ==
    ASSUME NEW c \in Conns, NEW f \in Flows, IsFiniteSet(Handled(f)),
           Owned(c), ~ Owned(c)',
           \A d \in Conns \ {c} :
               (Owned(d) /\ pkt[d].flow = f)' <=> Owned(d) /\ pkt[d].flow = f
    PROVE  /\ IsFiniteSet(Handled(f)')
           /\ Cardinality(Handled(f))
                = Cardinality(Handled(f)') + (IF pkt[c].flow = f THEN 1 ELSE 0)
<1>0. Cardinality(Handled(f)) \in Nat
    BY FS_CardinalityType
<1>1. CASE pkt[c].flow = f
    <2>1. Handled(f)' = Handled(f) \ {c} /\ c \in Handled(f)
        BY <1>1 DEF Handled
    <2>2. /\ IsFiniteSet(Handled(f)')
          /\ Cardinality(Handled(f)') = Cardinality(Handled(f)) - 1
        BY <2>1, FS_RemoveElement
    <2> QED
        BY <1>0, <1>1, <2>2
<1>2. CASE pkt[c].flow # f
    <2>1. Handled(f)' = Handled(f)
        BY <1>2 DEF Handled
    <2> QED
        BY <1>0, <1>2, <2>1
<1> QED
    BY <1>1, <1>2

LEMMA AccountInit == Init => AccountInv
<1> SUFFICES ASSUME Init, NEW f \in Flows PROVE AccountOf(f)
    BY DEF AccountInv
<1>1. Handled(f) = {}
    BY DEF Init, Handled, Owned
<1>2. Places(queue, f) = {}
    BY DEF Init, Places
<1>3. OnBench(f) = 0 /\ got[f] = 0 /\ acct[f] = 0 /\ sdu[f] = 0
    BY DEF Init, OnBench
<1> QED
    BY <1>1, <1>2, <1>3, FS_EmptySet DEF AccountOf

\* The steps of the proxies.
LEMMA AccountProxy ==
    ASSUME IInv, AccountInv, NEW c \in Conns,
           \/ Accept(c) \/ PeerClose(c) \/ NetReset(c) \/ Recv(c) \/ Proxy(c)
    PROVE  AccountInv'
<1> USE DEF IInv, TypeOK, Goto, queueVars, engVars, flowVars, history
<1>1. CASE \/ Accept(c) \/ PeerClose(c) \/ NetReset(c) \/ RecvError(c)
           \/ CheckPush(c) \/ PushLock(c) \/ Query(c)
    <2>1. /\ UNCHANGED <<got, acct, sdu, queue, eng, cur>>
          /\ UNCHANGED pkt
          /\ \A d \in Conns : Owned(d)' <=> Owned(d)
        BY <1>1 DEF Accept, PeerClose, NetReset, RecvError, CheckPush,
                    PushLock, Query, Owned
    <2> QED
        BY <2>1, AccountKept
<1>2. CASE RecvEof(c) \/ QueryNothing(c)
    <2>1. /\ UNCHANGED <<got, acct, sdu, queue, eng, cur>>
          /\ UNCHANGED pkt /\ pkt[c].flow \notin Flows
          /\ \A d \in Conns \ {c} : Owned(d)' <=> Owned(d)
        BY <1>2, DaemonAssumption
        DEF RecvEof, QueryNothing, Owned, LocalInv, NoPkt
    <2> QED
        BY <2>1, AccountKept
<1>3. CASE Send(c) \/ SendError(c)
    <2>1. /\ UNCHANGED <<got, acct, sdu, queue, eng, cur>>
          /\ \A d \in Conns \ {c} : pkt'[d] = pkt[d] /\ (Owned(d)' <=> Owned(d))
          /\ ~ Owned(c) /\ ~ Owned(c)'
        BY <1>3 DEF Send, SendError, Forget, Owned
    <2>2. \A d \in Conns : \A f \in Flows :
               (Owned(d) /\ pkt[d].flow = f)' <=> Owned(d) /\ pkt[d].flow = f
        BY <2>1
    <2> QED
        BY <2>1, <2>2, AccountKept
<1>4. CASE Recv(c)
    <2> SUFFICES ASSUME NEW f \in Flows PROVE AccountOf(f)'
        BY DEF AccountInv
    <2>1. PICK g \in Flows \cup {NoFlow} :
            \E found \in (IF g = NoFlow THEN {{}} ELSE Payloads) :
               /\ pkt' = [pkt EXCEPT ![c] = [flow |-> g, found |-> found]]
               /\ got' = IF g = NoFlow THEN got ELSE [got EXCEPT ![g] = @ + 1]
        BY <1>4 DEF Recv
    <2>2. /\ \E found : pkt' = [pkt EXCEPT ![c] = [flow |-> g, found |-> found]]
          /\ got' = IF g = NoFlow THEN got ELSE [got EXCEPT ![g] = @ + 1]
        BY <2>1
    <2>3. pkt'[c].flow = g /\ \A d \in Conns \ {c} : pkt'[d] = pkt[d]
        BY <2>2
    <2>4. ~ Owned(c) /\ Owned(c)' /\ \A d \in Conns \ {c} : Owned(d)' <=> Owned(d)
        BY <1>4 DEF Recv, Owned
    <2>5. /\ IsFiniteSet(Handled(f)')
          /\ Cardinality(Handled(f)')
                = Cardinality(Handled(f)) + (IF g = f THEN 1 ELSE 0)
        BY <2>3, <2>4, HandledMore DEF AccountInv, AccountOf
    <2>6. got'[f] = got[f] + (IF g = f THEN 1 ELSE 0)
        BY <2>2, DaemonAssumption
    <2>7. UNCHANGED <<acct, sdu, queue, eng, cur>> /\ OnBench(f)' = OnBench(f)
        BY <1>4 DEF Recv, OnBench
    <2>8. AccountOf(f)
        BY DEF AccountInv
    <2>9. /\ {got[f], acct[f], sdu[f], OnBench(f)} \subseteq Nat
          /\ Cardinality(Places(queue, f)) \in Nat
          /\ Cardinality(Handled(f)) \in Nat
        BY <2>8, AccountTerms
    <2> HIDE DEF IInv, TypeOK
    <2> QED
        BY <2>5, <2>6, <2>7, <2>8, <2>9 DEF AccountOf
<1>5. CASE CheckSkip(c)
    <2> SUFFICES ASSUME NEW f \in Flows PROVE AccountOf(f)'
        BY DEF AccountInv
    <2>1. /\ UNCHANGED <<got, sdu, queue, eng, cur, pkt>>
          /\ OnBench(f)' = OnBench(f)
          /\ acct' = [acct EXCEPT ![pkt[c].flow] = @ + 1]
          /\ pkt[c].flow \in Flows
        BY <1>5 DEF CheckSkip, OnBench, LocalInv
    <2>2. Owned(c) /\ ~ Owned(c)' /\ \A d \in Conns \ {c} : Owned(d)' <=> Owned(d)
        BY <1>5 DEF CheckSkip, Owned
    <2>3. /\ IsFiniteSet(Handled(f)')
          /\ Cardinality(Handled(f))
               = Cardinality(Handled(f)') + (IF pkt[c].flow = f THEN 1 ELSE 0)
        BY <2>1, <2>2, HandledLess DEF AccountInv, AccountOf
    <2>4. acct'[f] = acct[f] + (IF pkt[c].flow = f THEN 1 ELSE 0)
        BY <2>1
    <2>5. AccountOf(f)
        BY DEF AccountInv
    <2>6. /\ {got[f], acct[f], sdu[f], OnBench(f)} \subseteq Nat
          /\ Cardinality(Places(queue, f)) \in Nat
          /\ Cardinality(Handled(f)') \in Nat
        BY <2>3, <2>5, AccountTerms, FS_CardinalityType
    <2> HIDE DEF IInv, TypeOK
    <2> QED
        BY <2>1, <2>3, <2>4, <2>5, <2>6 DEF AccountOf
<1>6. CASE PushAppend(c)
    <2> SUFFICES ASSUME NEW f \in Flows PROVE AccountOf(f)'
        BY DEF AccountInv
    <2>1. /\ UNCHANGED <<got, acct, sdu, eng, cur, pkt>>
          /\ OnBench(f)' = OnBench(f)
          /\ queue' = Append(queue, pkt[c])
          /\ pkt[c] \in Packet
        BY <1>6, DaemonAssumption
        DEF PushAppend, OnBench, LocalInv, Received, NoPkt
    <2>2. Owned(c) /\ ~ Owned(c)' /\ \A d \in Conns \ {c} : Owned(d)' <=> Owned(d)
        BY <1>6 DEF PushAppend, Owned
    <2>3. /\ IsFiniteSet(Handled(f)')
          /\ Cardinality(Handled(f))
               = Cardinality(Handled(f)') + (IF pkt[c].flow = f THEN 1 ELSE 0)
        BY <2>1, <2>2, HandledLess DEF AccountInv, AccountOf
    <2>4. Cardinality(Places(queue', f))
            = Cardinality(Places(queue, f))
              + (IF pkt[c].flow = f THEN 1 ELSE 0)
        BY <2>1, AppendPlaces
    <2>5. AccountOf(f)
        BY DEF AccountInv
    <2>6. /\ {got[f], acct[f], sdu[f], OnBench(f)} \subseteq Nat
          /\ Cardinality(Places(queue, f)) \in Nat
          /\ Cardinality(Handled(f)') \in Nat
        BY <2>3, <2>5, AccountTerms, FS_CardinalityType
    <2> HIDE DEF IInv, TypeOK
    <2> QED
        BY <2>1, <2>3, <2>4, <2>5, <2>6 DEF AccountOf
<1> QED
    BY <1>1, <1>2, <1>3, <1>4, <1>5, <1>6 DEF Proxy

\* The steps of the analysis thread.
LEMMA AccountEngine ==
    ASSUME IInv, AccountInv, Engine
    PROVE  AccountInv'
<1> SUFFICES ASSUME NEW f \in Flows PROVE AccountOf(f)'
    BY DEF AccountInv
<1>1. /\ UNCHANGED <<got, acct>>
      /\ IsFiniteSet(Handled(f)') /\ Handled(f)' = Handled(f)
    <2>1. UNCHANGED <<pc, pkt, got, acct>>
        BY DEF Engine, EngineLook, EnginePop, EngineCount, EngineKnown,
               EngineGiveUp, EngineIdentify, EngineAdvance, proxyVars, history
    <2>2. Handled(f)' = Handled(f)
        BY <2>1 DEF Handled, Owned
    <2> QED
        BY <2>1, <2>2 DEF AccountInv, AccountOf
<1>2. AccountOf(f)
    BY DEF AccountInv
<1>3. /\ {got[f], acct[f], sdu[f], OnBench(f)} \subseteq Nat
      /\ Cardinality(Places(queue, f)) \in Nat
      /\ Cardinality(Handled(f)) \in Nat
    BY <1>2, AccountTerms
<1>4. CASE EnginePop
    <2>1. /\ queue \in Seq(Packet) /\ queue # <<>>
          /\ queue' = Tail(queue) /\ cur' = Head(queue)
          /\ eng = "pop" /\ eng' = "count" /\ UNCHANGED sdu
        BY <1>4 DEF EnginePop, IInv, TypeOK, flowVars
    <2>2. Cardinality(Places(queue, f))
             = Cardinality(Places(queue', f))
               + (IF Head(queue).flow = f THEN 1 ELSE 0)
        BY <2>1, TailPlaces
    <2>3. OnBench(f) = 0 /\ OnBench(f)' = IF Head(queue).flow = f THEN 1 ELSE 0
        BY <2>1 DEF OnBench
    <2>4. Cardinality(Places(queue', f)) \in Nat
        <3>1. queue' \in Seq(Packet)
            BY <2>1
        <3> QED
            BY <3>1, PlacesFinite
    <2>5. UNCHANGED sdu
        BY <2>1
    <2> QED
        BY <1>1, <1>2, <1>3, <2>2, <2>3, <2>4, <2>5 DEF AccountOf
<1>5. CASE EngineCount
    <2>1. UNCHANGED <<queue, cur>> /\ eng = "count" /\ eng' = "judge"
        BY <1>5 DEF EngineCount, queueVars
    <2>2. sdu'[f] = sdu[f] + (IF cur.flow = f THEN 1 ELSE 0)
        BY <1>5 DEF EngineCount, IInv, TypeOK
    <2>3. OnBench(f)' = 0 /\ OnBench(f) = IF cur.flow = f THEN 1 ELSE 0
        BY <2>1 DEF OnBench
    <2> QED
        BY <1>1, <1>2, <1>3, <2>1, <2>2, <2>3 DEF AccountOf
<1>6. CASE ~ EnginePop /\ ~ EngineCount
    <2>1. UNCHANGED <<queue, sdu>> /\ eng # "count" /\ eng' # "count"
        BY <1>6 DEF Engine, EngineLook, EngineKnown, EngineGiveUp,
                    EngineIdentify, EngineAdvance, Searched, Undecided, Done,
                    queueVars, flowVars
    <2>2. OnBench(f) = 0 /\ OnBench(f)' = 0
        BY <2>1 DEF OnBench
    <2> QED
        BY <1>1, <1>2, <1>3, <2>1, <2>2 DEF AccountOf
<1> QED
    BY <1>4, <1>5, <1>6

\* Every packet of a flow is with exactly one owner or in one counter, for
\* any number of connections, even an infinite one.
THEOREM PacketsAccountedHolds == Spec => []PacketsAccounted
<1>1. Init => AccountInv
    BY AccountInit
<1>2. IInv /\ AccountInv /\ [Next]_vars => AccountInv'
    <2> SUFFICES ASSUME IInv, AccountInv, [Next]_vars PROVE AccountInv'
        OBVIOUS
    <2>1. ASSUME NEW c \in Conns,
                 \/ Accept(c) \/ PeerClose(c) \/ NetReset(c) \/ Recv(c)
                 \/ Proxy(c)
          PROVE  AccountInv'
        BY <2>1, AccountProxy
    <2>2. CASE Engine
        BY <2>2, AccountEngine
    <2>3. CASE Rest \/ UNCHANGED vars
        <3>1. UNCHANGED <<pc, pkt, got, acct, sdu, queue, eng, cur>>
            BY <2>3 DEF Rest, vars, proxyVars, queueVars, engVars, flowVars,
                        history
        <3> QED
            BY <3>1, AccountKept DEF Owned
    <2> QED
        BY <2>1, <2>2, <2>3 DEF Next
<1>3. AccountInv => PacketsAccounted
    BY DEF AccountInv, AccountOf, PacketsAccounted, Queued, Places
<1> QED
    BY <1>1, <1>2, <1>3, Invariance, PTL DEF Spec

-----------------------------------------------------------------------------
(* A class is what the packets of its own flow say.                          *)

\* Induction, as a statement about a set.
LEMMA NatSetInduction ==
    ASSUME NEW S, 0 \in S, \A n \in Nat : n \in S => n + 1 \in S
    PROVE  Nat \subseteq S
<1> DEFINE T == Nat \ S
<1> SUFFICES ASSUME T # {} PROVE FALSE
    OBVIOUS
<1>1. PICK p \in T : \A q \in T : p <= q
    <2>1. T \subseteq Nat
        OBVIOUS
    <2> HIDE DEF T
    <2> QED
        BY <2>1, LeastNat
<1>2. p \in Nat /\ p # 0
    OBVIOUS
<1>3. p - 1 \in Nat /\ ~ (p <= p - 1) /\ p = (p - 1) + 1
    BY <1>2
<1>4. p - 1 \in S
    BY <1>1, <1>3
<1> QED
    BY <1>3, <1>4

\* The states of classifier c over the payloads s.
Runs(c, s, port) ==
    LET run[n \in 0..Len(s)] ==
            IF n = 0 THEN 0 ELSE Step(c, s[n], run[n - 1], port)
    IN  run

IsRun(g, c, s, port, m) ==
    g = [n \in 0..m |-> IF n = 0 THEN 0 ELSE Step(c, s[n], g[n - 1], port)]

LEMMA RunIs ==
    ASSUME NEW c, NEW f
    PROVE  RunOf(c, f) = Runs(c, fed[f], Port[f])
BY DEF RunOf, Runs

\* The recursion has a solution ...
LEMMA RunExists ==
    ASSUME NEW c, NEW s, NEW port, NEW m \in Nat
    PROVE  \E g : IsRun(g, c, s, port, m)
<1> DEFINE S == {k \in Nat : \E g : IsRun(g, c, s, port, k)}
<1>1. 0 \in S
    <2>1. IsRun([n \in 0..0 |-> 0], c, s, port, 0)
        BY DEF IsRun
    <2> QED
        BY <2>1
<1>2. ASSUME NEW k \in Nat, k \in S PROVE k + 1 \in S
    <2>1. PICK g : IsRun(g, c, s, port, k)
        BY <1>2
    <2> DEFINE h == [n \in 0..(k + 1) |->
                        IF n = k + 1 THEN Step(c, s[k + 1], g[k], port)
                        ELSE g[n]]
    <2>2. \A n \in 0..k : g[n] = IF n = 0 THEN 0
                                 ELSE Step(c, s[n], g[n - 1], port)
        BY <2>1 DEF IsRun
    <2>3. \A n \in 0..(k + 1) :
              h[n] = IF n = 0 THEN 0 ELSE Step(c, s[n], h[n - 1], port)
        <3> SUFFICES ASSUME NEW n \in 0..(k + 1)
                     PROVE  h[n] = IF n = 0 THEN 0
                                   ELSE Step(c, s[n], h[n - 1], port)
            OBVIOUS
        <3>1. CASE n = k + 1
            <4>1. n # 0 /\ n - 1 = k /\ k \in 0..(k + 1) /\ k # k + 1
                BY <3>1
            <4>2. h[n] = Step(c, s[n], g[k], port)
                BY <3>1
            <4>3. h[n - 1] = g[k]
                BY <4>1
            <4> QED
                BY <4>1, <4>2, <4>3
        <3>2. CASE n # k + 1
            <4>1. n \in 0..k /\ h[n] = g[n]
                BY <3>2
            <4>2. n # 0 => n - 1 \in 0..(k + 1) /\ n - 1 # k + 1
                BY <3>2
            <4>3. n # 0 => h[n - 1] = g[n - 1]
                BY <4>2
            <4> QED
                BY <2>2, <4>1, <4>3
        <3> QED
            BY <3>1, <3>2
    <2>4. IsRun(h, c, s, port, k + 1)
        <3>1. h = [n \in 0..(k + 1) |-> h[n]]
            OBVIOUS
        <3> HIDE DEF h
        <3> QED
            BY <2>3, <3>1 DEF IsRun
    <2> QED
        BY <2>4
<1> HIDE DEF S
<1>3. m \in S
    BY <1>1, <1>2, NatSetInduction
<1> QED
    BY <1>3 DEF S

\* ... and so Runs is one.
LEMMA RunsRecurrence ==
    ASSUME NEW c, NEW s, NEW port, Len(s) \in Nat
    PROVE  \A n \in 0..Len(s) :
              Runs(c, s, port)[n] =
                 IF n = 0 THEN 0
                 ELSE Step(c, s[n], Runs(c, s, port)[n - 1], port)
<1>1. Runs(c, s, port) = CHOOSE g : IsRun(g, c, s, port, Len(s))
    BY DEF Runs, IsRun
<1>2. IsRun(Runs(c, s, port), c, s, port, Len(s))
    BY <1>1, RunExists
<1> QED
    BY <1>2 DEF IsRun

\* One payload more is one step more of every run.
LEMMA RunsAppend ==
    ASSUME NEW c, NEW s \in Seq(SUBSET Pid), NEW x \in SUBSET Pid, NEW port
    PROVE  LET long == Append(s, x)
           IN  /\ Len(long) = Len(s) + 1
               /\ \A k \in 0..Len(s) :
                     Runs(c, long, port)[k] = Runs(c, s, port)[k]
               /\ Runs(c, long, port)[Len(s) + 1]
                     = Step(c, x, Runs(c, s, port)[Len(s)], port)
<1> DEFINE long == Append(s, x)
           R == Runs(c, s, port)
           Q == Runs(c, long, port)
           S == {k \in Nat : k <= Len(s) => Q[k] = R[k]}
<1>1. /\ Len(s) \in Nat /\ Len(long) = Len(s) + 1
      /\ \A k \in 1..Len(s) : long[k] = s[k]
      /\ long[Len(s) + 1] = x
    OBVIOUS
<1>2. \A n \in 0..Len(s) :
          R[n] = IF n = 0 THEN 0 ELSE Step(c, s[n], R[n - 1], port)
    BY <1>1, RunsRecurrence
<1>3. \A n \in 0..(Len(s) + 1) :
          Q[n] = IF n = 0 THEN 0 ELSE Step(c, long[n], Q[n - 1], port)
    <2> HIDE DEF long
    <2> QED
        BY <1>1, RunsRecurrence
<1> HIDE DEF R, Q, long
<1>4. 0 \in S
    BY <1>1, <1>2, <1>3
<1>5. ASSUME NEW k \in Nat, k \in S PROVE k + 1 \in S
    <2> SUFFICES ASSUME k + 1 <= Len(s) PROVE Q[k + 1] = R[k + 1]
        OBVIOUS
    <2>1. /\ k + 1 \in 0..Len(s) /\ k + 1 \in 0..(Len(s) + 1)
          /\ k + 1 # 0 /\ (k + 1) - 1 = k /\ k + 1 \in 1..Len(s)
          /\ k <= Len(s)
        BY <1>1
    <2>2. Q[k] = R[k]
        BY <1>5, <2>1
    <2>3. R[k + 1] = Step(c, s[k + 1], R[k], port)
        BY <1>2, <2>1
    <2>4. Q[k + 1] = Step(c, long[k + 1], Q[k], port)
        BY <1>3, <2>1
    <2> QED
        BY <1>1, <2>1, <2>2, <2>3, <2>4
<1>6. \A k \in 0..Len(s) : Q[k] = R[k]
    <2> HIDE DEF S
    <2>1. Nat \subseteq S
        BY <1>4, <1>5, NatSetInduction
    <2> QED
        BY <1>1, <2>1 DEF S
<1>7. Q[Len(s) + 1] = Step(c, x, R[Len(s)], port)
    <2>1. Len(s) + 1 \in 0..(Len(s) + 1) /\ (Len(s) + 1) - 1 = Len(s)
          /\ Len(s) + 1 # 0 /\ Len(s) \in 0..Len(s)
        BY <1>1
    <2> QED
        BY <1>1, <1>3, <1>6, <2>1
<1> QED
    BY <1>1, <1>6, <1>7 DEF long, R, Q

\* A classifier none of whose patterns is in the packet stays where it is.
LEMMA UnrelatedStays ==
    ASSUME NEW c \in Cf, NEW found \in SUBSET Pid, NEW s \in States(c),
           NEW port, c \notin Related(found)
    PROVE  Step(c, found, s, port) = s
<1>1. Enabled(c, found, s) = {}
    BY ClassifierAssumption DEF Enabled, Related, States
<1> QED
    BY <1>1 DEF Step, Target

\* A classifier that does not finish does not step into a final state.
LEMMA NoFinish ==
    ASSUME NEW c, NEW found, NEW s, NEW port,
           s \notin Table[c].fin, ~ Finishes(c, found, s, port)
    PROVE  Step(c, found, s, port) \notin Table[c].fin
BY DEF Finishes, Step

\* One that finishes does.
LEMMA FinishSteps ==
    ASSUME NEW c, NEW found, NEW s, NEW port, Finishes(c, found, s, port)
    PROVE  Step(c, found, s, port) \in Table[c].fin
BY DEF Finishes, Step

\* None of the first m payloads of s finished a classifier.
Vain(s, port, m) ==
    \A c \in Cf : \A k \in 0..m : Runs(c, s, port)[k] \notin Table[c].fin

\* What VerdictJustified says of a flow, and what is needed to keep it true:
\* an undecided flow has examined every payload that was counted, but for the
\* one at hand, and no more than DPI_NUM.
JustOf(f) ==
    LET s == fed[f]
        n == Len(s)
    IN  /\ cfId[f] = NoVerdict =>
            /\ Vain(s, Port[f], n)
            /\ \A c \in Cf : ctx[f][c] = Runs(c, s, Port[f])[n]
            /\ n <= DPI_NUM
            /\ sdu[f] = n + (IF eng = "judge" /\ cur.flow = f THEN 1 ELSE 0)
        /\ cfId[f] = UnIdentify => n = DPI_NUM /\ Vain(s, Port[f], n)
        /\ cfId[f] \in Cf =>
            /\ n > 0
            /\ Runs(cfId[f], s, Port[f])[n] \in Table[cfId[f]].fin
            /\ Vain(s, Port[f], n - 1)

JustInv == \A f \in Flows : JustOf(f)

LEMMA JustImplies ==
    ASSUME TypeOK, JustInv
    PROVE  VerdictJustified
<1> SUFFICES ASSUME NEW f \in Flows
    PROVE  LET n == Len(fed[f])
               vain(m) == \A c \in Cf : \A k \in 0..m : ~Final(c, f, k)
           IN  CASE cfId[f] = NoVerdict ->
                       vain(n) /\ \A c \in Cf : ctx[f][c] = RunOf(c, f)[n]
                 [] cfId[f] = UnIdentify -> n = DPI_NUM /\ vain(n)
                 [] OTHER -> n > 0 /\ Final(cfId[f], f, n) /\ vain(n - 1)
    BY DEF VerdictJustified
<1>1. JustOf(f)
    BY DEF JustInv
<1>2. \A c : RunOf(c, f) = Runs(c, fed[f], Port[f])
    BY RunIs
<1>3. cfId[f] = NoVerdict \/ cfId[f] = UnIdentify \/ cfId[f] \in Cf
    BY DEF TypeOK, Verdict
<1>4. NoVerdict # UnIdentify /\ NoVerdict \notin Cf /\ UnIdentify \notin Cf
    BY ClassifierAssumption
<1>5. CASE cfId[f] = NoVerdict
    BY <1>1, <1>2, <1>4, <1>5 DEF JustOf, Vain, Final
<1>6. CASE cfId[f] = UnIdentify
    BY <1>1, <1>2, <1>4, <1>6 DEF JustOf, Vain, Final
<1>7. CASE cfId[f] \in Cf
    BY <1>1, <1>2, <1>4, <1>7 DEF JustOf, Vain, Final
<1> QED
    BY <1>3, <1>5, <1>6, <1>7

LEMMA JustInit == Init => JustInv
<1> SUFFICES ASSUME Init, NEW f \in Flows PROVE JustOf(f)
    BY DEF JustInv
<1>1. /\ fed[f] = <<>> /\ cfId[f] = NoVerdict /\ sdu[f] = 0 /\ eng = "idle"
      /\ \A c \in Cf : ctx[f][c] = 0
    BY DEF Init, FreshCtx
<1>2. Len(fed[f]) = 0 /\ 0 <= DPI_NUM
    BY <1>1, DaemonAssumption
<1>3. NoVerdict # UnIdentify /\ NoVerdict \notin Cf
    BY ClassifierAssumption
<1>4. \A c \in Cf : Runs(c, fed[f], Port[f])[0] = 0
    BY <1>2, RunsRecurrence
<1>5. Vain(fed[f], Port[f], 0)
    BY <1>4, ClassifierAssumption DEF Vain
<1> QED
    BY <1>1, <1>2, <1>3, <1>4, <1>5 DEF JustOf

\* A step that does not touch a flow and does not take it off the bench.
LEMMA JustKept ==
    ASSUME NEW f \in Flows, JustOf(f),
           fed'[f] = fed[f], cfId'[f] = cfId[f], ctx'[f] = ctx[f],
           sdu'[f] = sdu[f],
           cfId[f] = NoVerdict =>
               ((eng = "judge" /\ cur.flow = f)'
                    <=> eng = "judge" /\ cur.flow = f)
    PROVE  JustOf(f)'
BY DEF JustOf

\* The flow whose packet is examined.
LEMMA JustSearched ==
    ASSUME IInv, JustInv, Searched
    PROVE  LET f == cur.flow
               s == fed[f]
               n == Len(s)
           IN  /\ f \in Flows /\ cur.found \in SUBSET Pid
               /\ s \in Seq(SUBSET Pid) /\ n \in Nat
               /\ fed'[f] = Append(s, cur.found)
               /\ Len(fed'[f]) = n + 1 /\ n + 1 <= DPI_NUM /\ sdu[f] = n + 1
               /\ Vain(fed'[f], Port[f], n)
               /\ \A c \in Cf :
                     /\ ctx[f][c] \in States(c)
                     /\ ctx[f][c] \notin Table[c].fin
                     /\ Runs(c, fed'[f], Port[f])[n + 1]
                          = Step(c, cur.found, ctx[f][c], Port[f])
<1> DEFINE f == cur.flow
           s == fed[f]
           n == Len(s)
           x == cur.found
<1>1. f \in Flows /\ x \in SUBSET Pid
    BY DEF IInv, BenchInv, Searched, Undecided, Packet
<1>2. s \in Seq(SUBSET Pid) /\ n \in Nat
    BY <1>1 DEF IInv, TypeOK
<1>3. fed'[f] = Append(s, x)
    BY <1>1 DEF Searched, IInv, TypeOK
<1>4. cfId[f] = NoVerdict /\ eng = "judge" /\ sdu[f] <= DPI_NUM
    BY <1>1, DaemonAssumption DEF Searched, Undecided, Exhausted, IInv, TypeOK
<1>5. JustOf(f)
    BY <1>1 DEF JustInv
<1>6. /\ Vain(s, Port[f], n)
      /\ \A c \in Cf : ctx[f][c] = Runs(c, s, Port[f])[n]
      /\ sdu[f] = n + 1
    BY <1>4, <1>5 DEF JustOf
<1> HIDE DEF f, s, n, x
<1>7. \A c \in Cf :
          /\ Len(Append(s, x)) = n + 1
          /\ \A k \in 0..n :
                Runs(c, Append(s, x), Port[f])[k] = Runs(c, s, Port[f])[k]
          /\ Runs(c, Append(s, x), Port[f])[n + 1]
                = Step(c, x, Runs(c, s, Port[f])[n], Port[f])
    BY <1>1, <1>2, RunsAppend DEF n
<1>8. Len(Append(s, x)) = n + 1
    BY <1>1, <1>2 DEF n
<1>9. Vain(Append(s, x), Port[f], n)
    BY <1>6, <1>7 DEF Vain
<1>10. \A c \in Cf : ctx[f][c] \in States(c)
    BY <1>1 DEF IInv, CtxInv
<1>11. \A c \in Cf : ctx[f][c] \notin Table[c].fin
    <2>1. n \in 0..n
        BY <1>2
    <2> QED
        BY <1>6, <2>1 DEF Vain
<1>12. n + 1 <= DPI_NUM
    BY <1>4, <1>6
<1> QED
    BY <1>1, <1>2, <1>3, <1>6, <1>7, <1>8, <1>9, <1>10, <1>11, <1>12
    DEF f, s, n, x

LEMMA JustIdentify ==
    ASSUME IInv, JustInv, EngineIdentify
    PROVE  JustInv'
<1> PICK g : g = cur.flow
    OBVIOUS
<1> DEFINE n == Len(fed[g])
<1>1. Searched
    BY DEF EngineIdentify
<1>2. /\ g \in Flows /\ cur.found \in SUBSET Pid /\ n \in Nat
      /\ Len(fed'[g]) = n + 1
      /\ Vain(fed'[g], Port[g], n)
      /\ \A c \in Cf : Runs(c, fed'[g], Port[g])[n + 1]
                          = Step(c, cur.found, ctx[g][c], Port[g])
    BY <1>1, JustSearched
<1>3. PICK c \in Winners : cfId' = [cfId EXCEPT ![g] = c]
    BY DEF EngineIdentify
<1>4. c \in Cf /\ Finishes(c, cur.found, ctx[g][c], Port[g])
    BY <1>2, <1>3, RelatedInTable DEF Winners
<1>5. cfId'[g] = c
    BY <1>2, <1>3 DEF IInv, TypeOK
<1>6. Runs(c, fed'[g], Port[g])[n + 1] \in Table[c].fin
    BY <1>2, <1>4, FinishSteps
<1>7. c # NoVerdict /\ c # UnIdentify
    BY <1>4, ClassifierAssumption
<1>8. JustOf(g)'
    <2> HIDE DEF n
    <2>1. n + 1 > 0 /\ (n + 1) - 1 = n
        BY <1>2
    <2> QED
        BY <1>2, <1>4, <1>5, <1>6, <1>7, <2>1 DEF JustOf
<1>9. ASSUME NEW f \in Flows, f # g PROVE JustOf(f)'
    <2>1. /\ fed'[f] = fed[f] /\ cfId'[f] = cfId[f] /\ ctx'[f] = ctx[f]
          /\ sdu'[f] = sdu[f]
        BY <1>3, <1>9 DEF EngineIdentify, Searched, IInv, TypeOK
    <2>2. eng' = "idle"
        BY DEF EngineIdentify, Done
    <2>3. JustOf(f)
        BY DEF JustInv
    <2> QED
        BY <1>9, <2>1, <2>2, <2>3, JustKept
<1> QED
    BY <1>8, <1>9 DEF JustInv

LEMMA JustAdvance ==
    ASSUME IInv, JustInv, EngineAdvance
    PROVE  JustInv'
<1> PICK g : g = cur.flow
    OBVIOUS
<1> DEFINE n == Len(fed[g])
           moved == [c \in Cf |->
                       IF c \in Related(cur.found)
                       THEN Step(c, cur.found, ctx[g][c], Port[g])
                       ELSE ctx[g][c]]
<1>1. Searched /\ Winners = {}
    BY DEF EngineAdvance
<1>2. /\ g \in Flows /\ cur.found \in SUBSET Pid /\ n \in Nat
      /\ Len(fed'[g]) = n + 1 /\ n + 1 <= DPI_NUM /\ sdu[g] = n + 1
      /\ Vain(fed'[g], Port[g], n)
      /\ \A c \in Cf :
            /\ ctx[g][c] \in States(c)
            /\ ctx[g][c] \notin Table[c].fin
            /\ Runs(c, fed'[g], Port[g])[n + 1]
                  = Step(c, cur.found, ctx[g][c], Port[g])
    BY <1>1, JustSearched
<1>3. ctx'[g] = moved
    BY <1>2 DEF EngineAdvance, IInv, TypeOK
<1>4. \A c \in Cf : ctx'[g][c] = Step(c, cur.found, ctx[g][c], Port[g])
    <2> SUFFICES ASSUME NEW c \in Cf
                 PROVE  moved[c] = Step(c, cur.found, ctx[g][c], Port[g])
        BY <1>3
    <2> QED
        BY <1>2, UnrelatedStays
<1>5. \A c \in Cf : Step(c, cur.found, ctx[g][c], Port[g]) \notin Table[c].fin
    <2> SUFFICES ASSUME NEW c \in Cf
        PROVE Step(c, cur.found, ctx[g][c], Port[g]) \notin Table[c].fin
        OBVIOUS
    <2>1. CASE c \in Related(cur.found)
        <3>1. ~ Finishes(c, cur.found, ctx[g][c], Port[g])
            BY <1>1, <2>1 DEF Winners
        <3> QED
            BY <1>2, <3>1, NoFinish
    <2>2. CASE c \notin Related(cur.found)
        BY <1>2, <2>2, UnrelatedStays
    <2> QED
        BY <2>1, <2>2
<1> HIDE DEF moved
<1>6. Vain(fed'[g], Port[g], n + 1)
    <2> HIDE DEF n
    <2>1. \A k \in 0..(n + 1) : k \in 0..n \/ k = n + 1
        BY <1>2
    <2> QED
        BY <1>2, <1>5, <2>1 DEF Vain
<1>7. cfId'[g] = cfId[g] /\ cfId[g] = NoVerdict /\ sdu'[g] = sdu[g]
      /\ eng' = "idle"
    BY DEF EngineAdvance, Searched, Undecided, Done
<1>8. JustOf(g)'
    <2>1. NoVerdict # UnIdentify /\ NoVerdict \notin Cf
        BY ClassifierAssumption
    <2>2. /\ \A c \in Cf : ctx'[g][c] = Runs(c, fed'[g], Port[g])[n + 1]
          /\ sdu'[g] = n + 1 + 0
        BY <1>2, <1>4, <1>7
    <2> HIDE DEF n
    <2> QED
        BY <1>2, <1>6, <1>7, <2>1, <2>2 DEF JustOf
<1>9. ASSUME NEW f \in Flows, f # g PROVE JustOf(f)'
    <2>1. /\ fed'[f] = fed[f] /\ cfId'[f] = cfId[f] /\ ctx'[f] = ctx[f]
          /\ sdu'[f] = sdu[f]
        BY <1>9 DEF EngineAdvance, Searched, IInv, TypeOK
    <2>2. JustOf(f)
        BY DEF JustInv
    <2> QED
        BY <1>7, <1>9, <2>1, <2>2, JustKept
<1> QED
    BY <1>8, <1>9 DEF JustInv

LEMMA JustGiveUp ==
    ASSUME IInv, JustInv, EngineGiveUp
    PROVE  JustInv'
<1> PICK g : g = cur.flow
    OBVIOUS
<1>1. /\ g \in Flows /\ cfId[g] = NoVerdict /\ eng = "judge"
      /\ sdu[g] > DPI_NUM
      /\ cfId' = [cfId EXCEPT ![g] = UnIdentify]
      /\ UNCHANGED <<sdu, ctx, fed>> /\ eng' = "idle"
    BY DEF EngineGiveUp, Undecided, Exhausted, Done, IInv, BenchInv, Packet,
           history
<1>2. JustOf(g)
    BY <1>1 DEF JustInv
<1>3. /\ Vain(fed[g], Port[g], Len(fed[g])) /\ Len(fed[g]) <= DPI_NUM
      /\ sdu[g] = Len(fed[g]) + 1
    BY <1>1, <1>2 DEF JustOf
<1>4. Len(fed[g]) = DPI_NUM
    <2>1. fed[g] \in Seq(SUBSET Pid)
        BY <1>1 DEF IInv, TypeOK
    <2>2. Len(fed[g]) \in Nat /\ DPI_NUM \in Nat
        BY <2>1, DaemonAssumption
    <2> QED
        BY <1>1, <1>3, <2>2
<1>5. cfId'[g] = UnIdentify /\ UnIdentify # NoVerdict /\ UnIdentify \notin Cf
    BY <1>1, ClassifierAssumption DEF IInv, TypeOK
<1>6. JustOf(g)'
    BY <1>1, <1>3, <1>4, <1>5 DEF JustOf
<1>7. ASSUME NEW f \in Flows, f # g PROVE JustOf(f)'
    <2>1. /\ fed'[f] = fed[f] /\ cfId'[f] = cfId[f] /\ ctx'[f] = ctx[f]
          /\ sdu'[f] = sdu[f]
        BY <1>1, <1>7 DEF IInv, TypeOK
    <2>2. JustOf(f)
        BY DEF JustInv
    <2> QED
        BY <1>1, <1>7, <2>1, <2>2, JustKept
<1> QED
    BY <1>6, <1>7 DEF JustInv

LEMMA JustCount ==
    ASSUME IInv, JustInv, EngineCount
    PROVE  JustInv'
<1> PICK g : g = cur.flow
    OBVIOUS
<1>1. /\ g \in Flows /\ eng = "count" /\ eng' = "judge"
      /\ sdu' = [sdu EXCEPT ![g] = @ + 1]
      /\ UNCHANGED <<cur, cfId, ctx, fed>>
    BY DEF EngineCount, IInv, BenchInv, Packet, history
<1>2. JustOf(g)
    BY <1>1 DEF JustInv
<1>3. sdu'[g] = sdu[g] + 1
    BY <1>1 DEF IInv, TypeOK
<1>4. JustOf(g)'
    <2>1. Len(fed[g]) \in Nat
        BY <1>1 DEF IInv, TypeOK
    <2>2. cfId[g] = NoVerdict => sdu'[g] = Len(fed[g]) + 1
        BY <1>1, <1>2, <1>3, <2>1 DEF JustOf
    <2> QED
        BY <1>1, <1>2, <2>2 DEF JustOf
<1>5. ASSUME NEW f \in Flows, f # g PROVE JustOf(f)'
    <2>1. /\ fed'[f] = fed[f] /\ cfId'[f] = cfId[f] /\ ctx'[f] = ctx[f]
          /\ sdu'[f] = sdu[f]
        BY <1>1, <1>5 DEF IInv, TypeOK
    <2>2. JustOf(f)
        BY DEF JustInv
    <2> QED
        BY <1>1, <1>5, <2>1, <2>2, JustKept
<1> QED
    BY <1>4, <1>5 DEF JustInv

\* Every other step leaves the flows alone.
LEMMA JustElse ==
    ASSUME IInv, JustInv, [Next]_vars,
           ~ EngineCount, ~ EngineGiveUp, ~ EngineIdentify, ~ EngineAdvance
    PROVE  JustInv'
<1>1. UNCHANGED <<fed, cfId, ctx, sdu>>
    BY DEF Next, vars, Accept, PeerClose, NetReset, Recv, Proxy, RecvEof,
           RecvError, QueryNothing, Query, CheckPush, CheckSkip, PushLock,
           PushAppend, Send, SendError, Engine, EngineLook, EnginePop,
           EngineKnown, Rest, flowVars, history
<1>2. ASSUME NEW f \in Flows, cfId[f] = NoVerdict
      PROVE  (eng = "judge" /\ cur.flow = f)' <=> eng = "judge" /\ cur.flow = f
    <2>1. CASE EngineLook \/ EnginePop
        BY <2>1 DEF EngineLook, EnginePop
    <2>2. CASE EngineKnown
        BY <1>2, <2>2 DEF EngineKnown, Done
    <2>3. CASE ~ Engine
        <3>1. UNCHANGED <<eng, cur>>
            BY <2>3 DEF Next, vars, Accept, PeerClose, NetReset, Recv, Proxy,
               RecvEof, RecvError, QueryNothing, Query, CheckPush, CheckSkip,
               PushLock, PushAppend, Send, SendError, Rest, engVars
        <3> QED
            BY <3>1
    <2> QED
        BY <2>1, <2>2, <2>3 DEF Engine
<1> SUFFICES ASSUME NEW f \in Flows PROVE JustOf(f)'
    BY DEF JustInv
<1>3. JustOf(f)
    BY DEF JustInv
<1> QED
    BY <1>1, <1>2, <1>3, JustKept

\* What VerdictJustified says, and what is stored and counted agrees with it.
THEOREM JustInvariance == Spec => []JustInv
<1>1. Init => JustInv
    BY JustInit
<1>2. IInv /\ JustInv /\ [Next]_vars => JustInv'
    BY JustCount, JustGiveUp, JustIdentify, JustAdvance, JustElse
<1> QED
    BY <1>1, <1>2, Invariance, PTL DEF Spec

\* The class of a flow is what its own packets say, for any table, any number
\* of connections and any interleaving: while it is open no prefix of its
\* payloads finishes a classifier, a class was reached by the last payload and
\* by none before, and UnIdentify means DPI_NUM payloads in vain.
THEOREM VerdictJustifiedHolds == Spec => []VerdictJustified
<1>1. TypeOK /\ JustInv => VerdictJustified
    BY JustImplies
<1> QED
    BY <1>1, JustInvariance, TypeCorrect, PTL

-----------------------------------------------------------------------------
(* The table the repository configures.                                      *)

\* A run stays among the states of its classifier.
LEMMA RunsStay ==
    ASSUME NEW c \in Cf, NEW s \in Seq(SUBSET Pid), NEW port
    PROVE  \A k \in 0..Len(s) : Runs(c, s, port)[k] \in States(c)
<1> DEFINE R == Runs(c, s, port)
           S == {k \in Nat : k <= Len(s) => R[k] \in States(c)}
<1>1. /\ Len(s) \in Nat
      /\ \A k \in 0..Len(s) :
            R[k] = IF k = 0 THEN 0 ELSE Step(c, s[k], R[k - 1], port)
    BY RunsRecurrence
<1> HIDE DEF R
<1>2. 0 \in S
    BY <1>1, ClassifierAssumption DEF States
<1>3. ASSUME NEW k \in Nat, k \in S PROVE k + 1 \in S
    <2> SUFFICES ASSUME k + 1 <= Len(s) PROVE R[k + 1] \in States(c)
        OBVIOUS
    <2>1. /\ R[k] \in States(c)
          /\ k + 1 \in 0..Len(s) /\ k + 1 # 0 /\ (k + 1) - 1 = k
        BY <1>1, <1>3
    <2>2. R[k + 1] = Step(c, s[k + 1], R[k], port)
        BY <1>1, <2>1
    <2> QED
        BY <2>1, <2>2, StepStays
<1>4. Nat \subseteq S
    <2> HIDE DEF S
    <2> QED
        BY <1>2, <1>3, NatSetInduction
<1> QED
    BY <1>1, <1>4 DEF R

\* A classifier that identifies with its first pattern.
IsDirect(table) ==
    \E port \in Nat, n \in Nat : \E trans :
        /\ table = Direct(port, n, trans)
        /\ \A p \in DOMAIN trans : trans[p] \in 1..n

\* All of the configured classifiers are, but for OneNote.
LEMMA ConfiguredDirect ==
    ASSUME Configured, NEW c \in Cf, c # 2008
    PROVE  IsDirect(Table[c])
<1>d. ASSUME NEW port \in Nat, NEW n \in Nat, NEW trans,
             \A p \in DOMAIN trans : trans[p] \in 1..n
      PROVE  IsDirect(Direct(port, n, trans))
    BY <1>d DEF IsDirect
<1> HIDE DEF IsDirect
<1>1. IsDirect(Google)
    <2> DEFINE trans == [p \in 1..3 |-> IF p = 1 THEN 1 ELSE 2]
    <2>1. \A p \in DOMAIN trans : trans[p] \in 1..3
        OBVIOUS
    <2> HIDE DEF trans
    <2>2. IsDirect(Direct(443, 3, trans))
        BY <1>d, <2>1
    <2> QED
        BY <2>2 DEF Google, trans
<1>2. IsDirect(Youtube)
    <2> DEFINE trans == [p \in 4..6 |-> p - 3]
    <2>1. \A p \in DOMAIN trans : trans[p] \in 1..3
        OBVIOUS
    <2> HIDE DEF trans
    <2>2. IsDirect(Direct(443, 3, trans))
        BY <1>d, <2>1
    <2> QED
        BY <2>2 DEF Youtube, trans
<1>3. IsDirect(Facebook)
    <2> DEFINE trans == [p \in 10..11 |-> p - 9]
    <2>1. \A p \in DOMAIN trans : trans[p] \in 1..2
        OBVIOUS
    <2> HIDE DEF trans
    <2>2. IsDirect(Direct(443, 2, trans))
        BY <1>d, <2>1
    <2> QED
        BY <2>2 DEF Facebook, trans
<1>4. IsDirect(Overleaf)
    <2> DEFINE trans == [p \in 17..19 |-> p - 16]
    <2>1. \A p \in DOMAIN trans : trans[p] \in 1..3
        OBVIOUS
    <2> HIDE DEF trans
    <2>2. IsDirect(Direct(443, 3, trans))
        BY <1>d, <2>1
    <2> QED
        BY <2>2 DEF Overleaf, trans
<1>s. ASSUME NEW port \in Nat, NEW q
      PROVE  IsDirect(Direct(port, 1, [p \in {q} |-> 1]))
    <2> DEFINE trans == [p \in {q} |-> 1]
    <2>1. \A p \in DOMAIN trans : trans[p] \in 1..1
        OBVIOUS
    <2> HIDE DEF trans
    <2>2. IsDirect(Direct(port, 1, trans))
        BY <1>d, <2>1
    <2> QED
        BY <2>2 DEF trans
<1>5. IsDirect(Zoom) /\ IsDirect(Office365) /\ IsDirect(QQ)
    BY <1>s DEF Zoom, Office365, QQ
<1>6. IsDirect(Whatsapp) /\ IsDirect(Twitter) /\ IsDirect(Dropbox)
    BY <1>s DEF Whatsapp, Twitter, Dropbox
<1>7. PICK i \in 1..11 : c = 2000 + i - 1
    BY DEF Configured, ConfigCf, CF_ID_BEGIN, Creation
<1>8. i # 9 /\ Table[c] = Creation[i]
    BY <1>7 DEF Configured, ConfigTable, CF_ID_BEGIN
<1> QED
    BY <1>1, <1>2, <1>3, <1>4, <1>5, <1>6, <1>7, <1>8 DEF Creation

\* Such a classifier is in its initial state until it finishes, and it does so
\* with any of its patterns.
LEMMA DirectStep ==
    ASSUME NEW c \in Cf, IsDirect(Table[c])
    PROVE  /\ States(c) \subseteq {0} \cup Table[c].fin
           /\ \A port, found : \A p \in found :
                 PortFits(c, port) /\ p \in DOMAIN Table[c].next[0]
                    => Step(c, found, 0, port) \in Table[c].fin
<1>1. PICK port0 \in Nat, n \in Nat :
          \E trans : /\ Table[c] = Direct(port0, n, trans)
                     /\ \A p \in DOMAIN trans : trans[p] \in 1..n
    BY DEF IsDirect
<1>t. PICK trans : /\ Table[c] = Direct(port0, n, trans)
                   /\ \A p \in DOMAIN trans : trans[p] \in 1..n
    BY <1>1
<1>2. /\ States(c) = 0..n /\ Table[c].fin = 1..n
      /\ Table[c].next[0] = trans
    BY <1>t DEF Direct, States
<1>3. ASSUME NEW port, NEW found, NEW p \in found,
             PortFits(c, port), p \in DOMAIN Table[c].next[0]
      PROVE  Step(c, found, 0, port) \in Table[c].fin
    <2> DEFINE hits == Enabled(c, found, 0)
               first == CHOOSE q \in hits : \A r \in hits : q <= r
    <2>1. hits # {} /\ hits \subseteq Nat
        BY <1>3, ClassifierAssumption DEF Enabled
    <2>2. first \in hits
        BY <2>1, LeastNat, Zenon
    <2>3. Table[c].next[0][first] \in 1..n
        BY <1>t, <1>2, <2>2 DEF Enabled
    <2>4. Target(c, found, 0) = Table[c].next[0][first]
        BY <2>1 DEF Target
    <2> QED
        BY <1>2, <1>3, <2>3, <2>4 DEF Step
<1> QED
    BY <1>2, <1>3

LEMMA CountsInTable ==
    ASSUME Configured, TypeOK, JustInv
    PROVE  EveryPatternCounts
<1> SUFFICES ASSUME NEW f \in Flows, NEW k \in DOMAIN fed[f],
                    NEW p \in fed[f][k], Telling(p, f)
             PROVE  k = Len(fed[f]) /\ cfId[f] \in Cf
    BY DEF EveryPatternCounts
<1> DEFINE s == fed[f]
           c == CfOf[p]
           n == Len(s)
           R == Runs(c, s, Port[f])
<1>1. s \in Seq(SUBSET Pid) /\ n \in Nat /\ k \in 1..n /\ p \in Pid
    BY DEF TypeOK
<1>2. c \in Cf /\ IsDirect(Table[c])
    <2>1. CfOf \in [Pid -> Cf]
        BY ClassifierAssumption
    <2>2. c \in Cf /\ c # 2008
        BY <1>1, <2>1 DEF Telling
    <2> HIDE DEF c
    <2> QED
        BY <2>2, ConfiguredDirect
<1> HIDE DEF c
<1>3. /\ k - 1 \in 0..n /\ k \in 0..n /\ k # 0
      /\ R[k] = Step(c, s[k], R[k - 1], Port[f])
      /\ R[k - 1] \in {0} \cup Table[c].fin
    <2>1. k - 1 \in 0..n /\ k \in 0..n /\ k # 0
        BY <1>1
    <2>2. R[k] = Step(c, s[k], R[k - 1], Port[f])
        BY <1>1, <2>1, RunsRecurrence
    <2>3. R[k - 1] \in States(c)
        BY <1>1, <1>2, <2>1, RunsStay
    <2> QED
        BY <1>2, <2>1, <2>2, <2>3, DirectStep
<1>4. \A m \in 0..n : k <= m => ~ Vain(s, Port[f], m)
    <2> SUFFICES ASSUME NEW m \in 0..n, k <= m, Vain(s, Port[f], m)
                 PROVE  FALSE
        OBVIOUS
    <2>1. R[k - 1] = 0 /\ R[k] \notin Table[c].fin
        <3>1. k \in 0..m /\ k - 1 \in 0..m
            BY <1>1
        <3> QED
            BY <1>2, <1>3, <3>1 DEF Vain
    <2>2. PortFits(c, Port[f]) /\ p \in DOMAIN Table[c].next[0]
        BY DEF Telling, c
    <2> QED
        BY <1>2, <1>3, <2>1, <2>2, DirectStep
<1>5. JustOf(f)
    BY DEF JustInv
<1> HIDE DEF R
<1>6. cfId[f] \in Cf
    <2>1. n \in 0..n /\ k <= n
        BY <1>1
    <2>2. ~ Vain(s, Port[f], n)
        BY <1>4, <2>1
    <2> QED
        BY <1>5, <2>2 DEF JustOf, TypeOK, Verdict
<1>7. k = n
    <2>1. Vain(s, Port[f], n - 1)
        BY <1>5, <1>6 DEF JustOf
    <2> HIDE DEF s, n
    <2>2. ~ (k <= n - 1)
        BY <1>1, <1>4, <2>1
    <2> QED
        BY <1>1, <2>2
<1> QED
    BY <1>6, <1>7

\* OneNote moves by 14 from 0 to 1 and by 15 from 1 to 2.
LEMMA OneNoteStep ==
    ASSUME Configured
    PROVE  /\ 2008 \in Cf /\ States(2008) = 0..2 /\ Table[2008].fin = {2}
           /\ \A found, port :
                 /\ Step(2008, found, 0, port) # 2
                 /\ Step(2008, found, 0, port) = 1 => 14 \in found
                 /\ Step(2008, found, 1, port) = 2 => 15 \in found
<1>1. 2008 \in Cf /\ Table[2008] = OneNote
    <2>1. 9 \in DOMAIN Creation /\ Creation[9] = OneNote /\ 2000 + 9 - 1 = 2008
        BY DEF Creation
    <2>2. 2008 \in ConfigCf
        BY <2>1 DEF ConfigCf, CF_ID_BEGIN
    <2>3. (2008 - 2000) + 1 = 9
        OBVIOUS
    <2> QED
        BY <2>1, <2>2, <2>3 DEF Configured, ConfigTable, CF_ID_BEGIN
<1>2. /\ Table[2008].next = Successive /\ Table[2008].fin = {2}
      /\ States(2008) = 0..2
    BY <1>1 DEF OneNote, Successive, States
<1>3. /\ DOMAIN Successive[0] = {14} /\ Successive[0][14] = 1
      /\ DOMAIN Successive[1] = {15} /\ Successive[1][15] = 2
    BY DEF Successive
<1>4. ASSUME NEW found
      PROVE  /\ Target(2008, found, 0) = IF 14 \in found THEN 1 ELSE 0
             /\ Target(2008, found, 1) = IF 15 \in found THEN 2 ELSE 0
    <2>1. /\ Enabled(2008, found, 0) = IF 14 \in found THEN {14} ELSE {}
          /\ Enabled(2008, found, 1) = IF 15 \in found THEN {15} ELSE {}
        BY <1>2, <1>3 DEF Enabled
    <2>2. \A q \in Nat : (CHOOSE p \in {q} : \A r \in {q} : p <= r) = q
        OBVIOUS
    <2> QED
        BY <1>2, <1>3, <2>1, <2>2 DEF Target
<1> QED
    BY <1>1, <1>2, <1>4 DEF Step

LEMMA OneNoteInTable ==
    ASSUME Configured, TypeOK, JustInv
    PROVE  OneNoteNeedsTwo
<1> SUFFICES ASSUME NEW f \in Flows, cfId[f] = 2008
             PROVE  \E i, k \in DOMAIN fed[f] :
                        i < k /\ 14 \in fed[f][i] /\ 15 \in fed[f][k]
    BY DEF OneNoteNeedsTwo
<1> DEFINE s == fed[f]
           n == Len(s)
           R == Runs(2008, s, Port[f])
           S == {j \in Nat : j <= n /\ R[j] = 1
                                => \E i \in 1..j : 14 \in s[i]}
<1>1. s \in Seq(SUBSET Pid) /\ n \in Nat /\ DOMAIN s = 1..n
    BY DEF TypeOK
<1>2. /\ 2008 \in Cf /\ States(2008) = 0..2 /\ Table[2008].fin = {2}
      /\ \A found, port :
            /\ Step(2008, found, 0, port) # 2
            /\ Step(2008, found, 0, port) = 1 => 14 \in found
            /\ Step(2008, found, 1, port) = 2 => 15 \in found
    BY OneNoteStep
<1>3. /\ n > 0 /\ R[n] = 2
      /\ \A k \in 0..(n - 1) : R[k] # 2
    <2>1. JustOf(f) /\ cfId[f] \in Cf
        BY <1>2 DEF JustInv
    <2>2. /\ n > 0 /\ R[n] \in Table[2008].fin
          /\ Vain(s, Port[f], n - 1)
        BY <2>1 DEF JustOf
    <2>3. \A k \in 0..(n - 1) : R[k] \notin Table[2008].fin
        BY <1>2, <2>2 DEF Vain
    <2> QED
        BY <1>2, <2>2, <2>3
<1>4. \A k \in 0..n :
          /\ R[k] = IF k = 0 THEN 0 ELSE Step(2008, s[k], R[k - 1], Port[f])
          /\ R[k] \in 0..2
    BY <1>1, <1>2, RunsRecurrence, RunsStay
<1> HIDE DEF R, s, n
<1>5. 0 \in S
    BY <1>1, <1>4
<1>6. ASSUME NEW j \in Nat, j \in S PROVE j + 1 \in S
    <2> SUFFICES ASSUME j + 1 <= n, R[j + 1] = 1
                 PROVE  \E i \in 1..(j + 1) : 14 \in s[i]
        OBVIOUS
    <2>1. /\ j \in 0..n /\ j + 1 \in 0..n /\ j + 1 # 0 /\ (j + 1) - 1 = j
          /\ j \in 0..(n - 1)
        BY <1>1
    <2>2. R[j + 1] = Step(2008, s[j + 1], R[j], Port[f])
        BY <1>4, <2>1
    <2>3. R[j] \in {0, 1}
        BY <1>3, <1>4, <2>1
    <2>4. CASE R[j] = 0
        <3>1. 14 \in s[j + 1] /\ j + 1 \in 1..(j + 1)
            BY <1>2, <2>2, <2>4
        <3> QED
            BY <3>1
    <2>5. CASE R[j] = 1
        <3>1. \E i \in 1..j : 14 \in s[i]
            BY <1>6, <2>1, <2>5
        <3> QED
            BY <3>1
    <2> QED
        BY <2>3, <2>4, <2>5
<1>7. Nat \subseteq S
    <2> HIDE DEF S
    <2> QED
        BY <1>5, <1>6, NatSetInduction
<1>8. n - 1 \in 0..n /\ n \in 0..n /\ n # 0 /\ n - 1 \in 0..(n - 1) /\ n - 1 \in Nat
    BY <1>1, <1>3
<1>9. /\ R[n] = Step(2008, s[n], R[n - 1], Port[f])
      /\ R[n - 1] \in {0, 1}
    BY <1>3, <1>4, <1>8
<1>10. R[n - 1] = 1 /\ 15 \in s[n]
    BY <1>2, <1>3, <1>9
<1>11. PICK i \in 1..(n - 1) : 14 \in s[i]
    BY <1>7, <1>8, <1>10
<1>12. i \in DOMAIN s /\ n \in DOMAIN s /\ i < n
    BY <1>1, <1>3
<1> QED
    BY <1>10, <1>11, <1>12 DEF s

\* With the configured table, on any port and whatever came before: a packet
\* with a pattern of a one-packet protocol identifies its flow at once, also
\* if it is the last one DPI_NUM allows.
THEOREM EveryPatternCountsHolds ==
    ASSUME Configured
    PROVE  Spec => []EveryPatternCounts
<1>1. TypeOK /\ JustInv => EveryPatternCounts
    BY CountsInTable
<1> QED
    BY <1>1, JustInvariance, TypeCorrect, PTL

\* OneNote is identified by its two patterns in two packets and in order only.
THEOREM OneNoteNeedsTwoHolds ==
    ASSUME Configured
    PROVE  Spec => []OneNoteNeedsTwo
<1>1. TypeOK /\ JustInv => OneNoteNeedsTwo
    BY OneNoteInTable
<1> QED
    BY <1>1, JustInvariance, TypeCorrect, PTL
=============================================================================
