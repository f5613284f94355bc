----------------------------- MODULE ShellProofs -----------------------------
(* The shell beside any number of threads, users and flows.  The threads     *)
(* never notice it, so what FlowTableProofs shows of them holds on.  A walk  *)
(* that meets no tree in rotation has printed, at every point, the flows it  *)
(* has passed in key order, as nothing is ever removed.  A thread's loaded   *)
(* m_PacketNum is bounded like the total itself.  What a walk has counted is *)
(* bounded by the flows it has passed, those of then and those of now.       *)
EXTENDS Shell, FlowTableProofs, FiniteSetTheorems, WellFoundedInduction

-----------------------------------------------------------------------------
(* The threads do not notice the shell.                                      *)

LEMMA TableStep ==
    ASSUME [ShellNext]_allVars
    PROVE  [Next]_vars
BY DEF ShellNext, allVars, Lookup, Load, Store, ShellThread, ReadCommand,
       Sample, Sleep, Done, Begin, Visit, NextUser, PrintFlow, NextFlow, LastFlow

\* Under the shell the table behaves as it does alone.
THEOREM TableUnderShell == ShellSpec => Spec
<1>1. ShellInit => Init
    BY DEF ShellInit
<1>2. [ShellNext]_allVars => [Next]_vars
    BY TableStep
<1> QED
    BY <1>1, <1>2, PTL DEF ShellSpec, Spec

\* The invariant of the table.
LEMMA TableInvariance == ShellSpec => []IInv
BY TableUnderShell, Invariance, PTL

\* RightContext: every lookup gets the context of its own packet, with the
\* shell beside it.
THEOREM RightContextUnderShell == ShellSpec => []RightContext
BY TableUnderShell, RightContextHolds, PTL

\* FlowsUnderTheirUser: walking the users visits every flow once.
THEOREM FlowsUnderTheirUserUnderShell == ShellSpec => []FlowsUnderTheirUser
BY TableUnderShell, FlowsUnderTheirUserHolds, PTL

\* ImplementsRegistry: the lookup is an atomic find-or-create, with the shell
\* beside it.
THEOREM RefinementUnderShell == ShellSpec => ImplementsRegistry
BY TableUnderShell, Refinement, PTL

-----------------------------------------------------------------------------
(* The totals.                                                               *)

Loaded == {t \in Threads : reg[t] # None}

CountTypeOK ==
    /\ reg \in [Threads -> Nat \cup {None}]
    /\ pktNum \in Nat /\ begun \in Nat /\ num0 \in Nat

\* What a thread has loaded is bounded as the total is.
TotalInv ==
    /\ IsFiniteSet(Loaded)
    /\ pktNum + Cardinality(Loaded) <= begun
    /\ \A t \in Loaded : reg[t] + Cardinality(Loaded) <= begun

Measuring == cmd = "perf" /\ sh \notin {"prompt", "sample"} /\ ~stale

\* Since the first look of perf nobody has loaded a smaller total.
SinceLook ==
    Measuring => pktNum >= num0 /\ \A t \in Loaded : reg[t] >= num0

RateInv == CountTypeOK /\ TotalInv /\ SinceLook

LEMMA RateInit == ShellInit => RateInv
<1> SUFFICES ASSUME ShellInit
             PROVE  RateInv
    OBVIOUS
<1>1. Loaded = {}
    BY DEF ShellInit, Loaded
<1>2. IsFiniteSet(Loaded) /\ Cardinality(Loaded) = 0
    BY <1>1, FS_EmptySet
<1> QED
    BY <1>1, <1>2 DEF ShellInit, RateInv, CountTypeOK, TotalInv, SinceLook, Measuring

LEMMA RateNext == RateInv /\ [ShellNext]_allVars => RateInv'
<1> SUFFICES ASSUME RateInv, [ShellNext]_allVars
             PROVE  RateInv'
    OBVIOUS
<1> DEFINE n == Cardinality(Loaded)
<1>0. n \in Nat
    BY FS_CardinalityType DEF RateInv, TotalInv
<1>1. ASSUME NEW t \in Threads, Load(t) PROVE RateInv'
    <2>1. CountTypeOK'
        BY <1>1 DEF Load, RateInv, CountTypeOK, shellVars, perfVars
    <2>2. t \notin Loaded /\ Loaded' = Loaded \cup {t}
        BY <1>1, ShellAssumption DEF Load, Loaded, RateInv, CountTypeOK
    <2>3. IsFiniteSet(Loaded)' /\ Cardinality(Loaded)' = n + 1
        BY <2>2, FS_AddElement DEF RateInv, TotalInv
    <2>4. \A u \in Loaded' : reg'[u] = IF u = t THEN pktNum ELSE reg[u]
        BY <1>1 DEF Load, Loaded, RateInv, CountTypeOK
    <2> HIDE DEF n
    <2>5. TotalInv'
        <3>1. pktNum' + (n + 1) <= begun'
            BY <1>0, <1>1 DEF Load, RateInv, CountTypeOK, TotalInv, n
        <3>2. \A u \in Loaded' : reg'[u] + (n + 1) <= begun'
            BY <1>0, <1>1, <2>2, <2>4
               DEF Load, RateInv, CountTypeOK, TotalInv, n, Loaded
        <3> QED
            BY <2>3, <3>1, <3>2 DEF TotalInv
    <2>6. SinceLook'
        BY <1>1, <2>2, <2>4
           DEF Load, RateInv, SinceLook, Measuring, shellVars, perfVars
    <2> QED
        BY <2>1, <2>5, <2>6 DEF RateInv
<1>2. ASSUME NEW t \in Threads, Store(t) PROVE RateInv'
    <2>0. reg[t] \in Nat /\ t \in Loaded
        BY <1>2 DEF Store, Loaded, RateInv, CountTypeOK
    <2>1. CountTypeOK'
        BY <1>2, <2>0 DEF Store, RateInv, CountTypeOK, shellVars, perfVars
    <2>2. Loaded' = Loaded \ {t}
        BY <1>2, ShellAssumption DEF Store, Loaded, RateInv, CountTypeOK
    <2>3. IsFiniteSet(Loaded)' /\ Cardinality(Loaded)' = n - 1
        BY <2>0, <2>2, FS_RemoveElement DEF RateInv, TotalInv
    <2>4. \A u \in Loaded' : u \in Loaded /\ reg'[u] = reg[u] /\ reg[u] \in Nat
        BY <1>2, <2>2 DEF Store, Loaded, RateInv, CountTypeOK
    <2> HIDE DEF n
    <2>5. TotalInv'
        <3>1. pktNum' + (n - 1) <= begun'
            BY <1>0, <1>2, <2>0 DEF Store, RateInv, CountTypeOK, TotalInv, n
        <3>2. \A u \in Loaded' : reg'[u] + (n - 1) <= begun'
            BY <1>0, <1>2, <2>4 DEF Store, RateInv, CountTypeOK, TotalInv, n
        <3> QED
            BY <2>3, <3>1, <3>2 DEF TotalInv
    <2>6. SinceLook'
        BY <1>2, <2>0, <2>4
           DEF Store, RateInv, CountTypeOK, SinceLook, Measuring, shellVars, perfVars
    <2> QED
        BY <2>1, <2>5, <2>6 DEF RateInv
<1>3. CASE Sample
    <2>1. UNCHANGED <<reg, pktNum, begun>> /\ num0' = pktNum
        BY <1>3 DEF Sample, statVars
    <2>2. Measuring' => Loaded = {}
        <3>1. stale' = (\E t \in Threads : reg[t] # None)
            BY <1>3 DEF Sample
        <3> QED
            BY <3>1, Zenon DEF Measuring, Loaded
    <2> QED
        BY <2>1, <2>2 DEF RateInv, CountTypeOK, TotalInv, SinceLook, Loaded
<1>4. CASE Done
    <2>1. UNCHANGED <<reg, pktNum, begun>> /\ num0' = 0 /\ ~Measuring'
        BY <1>4 DEF Done, statVars, Measuring
    <2> QED
        BY <2>1 DEF RateInv, CountTypeOK, TotalInv, SinceLook, Loaded
<1>5. CASE ReadCommand
    <2>1. UNCHANGED <<reg, pktNum, begun, num0>> /\ ~Measuring'
        BY <1>5 DEF ReadCommand, statVars, perfVars, Measuring, Commands
    <2> QED
        BY <2>1 DEF RateInv, CountTypeOK, TotalInv, SinceLook, Loaded
<1>6. CASE \/ Lookup \/ Sleep \/ Begin \/ Visit \/ NextUser \/ PrintFlow
           \/ NextFlow \/ LastFlow \/ UNCHANGED allVars
    <2>1. UNCHANGED <<reg, pktNum, begun, num0>> /\ (Measuring' => Measuring)
        BY <1>6
           DEF Lookup, Sleep, Begin, Visit, NextUser, PrintFlow, NextFlow,
               LastFlow, allVars, statVars, shellVars, perfVars, Measuring
    <2> QED
        BY <2>1 DEF RateInv, CountTypeOK, TotalInv, SinceLook, Loaded
<1> QED
    BY <1>1, <1>2, <1>3, <1>4, <1>5, <1>6 DEF ShellNext, ShellThread

\* RatesHold: lost updates never add packets, and what perf prints does not
\* wrap below zero.
THEOREM RatesHoldAlways == ShellSpec => []RatesHold
<1>1. RateInv => RatesHold
    BY DEF RateInv, TotalInv, SinceLook, Measuring, Loaded, RatesHold
<1> QED
    BY <1>1, RateInit, RateNext, PTL DEF ShellSpec

-----------------------------------------------------------------------------
(* Walks.                                                                    *)

\* A set of natural numbers has a least element: the one with the least, and
\* finite, set of elements below it.
LEMMA LeastIs ==
    ASSUME NEW S \in SUBSET Nat, S # {}
    PROVE  Least(S) \in S /\ \A y \in S : Least(S) <= y
<1> DEFINE below(x) == {y \in S : y < x}
           B == {below(x) : x \in S}
<1>0. \A z \in S : z \in Nat
    OBVIOUS
<1>1. B \subseteq FiniteSubsetsOf(S) /\ B # {}
    <2>1. ASSUME NEW x \in S
          PROVE  IsFiniteSet(below(x))
        <3>1. x \in Nat /\ below(x) \in SUBSET Nat
            BY <1>0
        <3>2. \A y \in below(x) : y <= x
            BY <1>0
        <3> QED
            BY <3>1, <3>2, FS_BoundedSetOfNaturals
    <2> QED
        BY <2>1 DEF FiniteSubsetsOf
<1>2. PICK b \in B : \A a \in B : ~(<<a, b>> \in StrictSubsetOrdering(S))
    BY <1>1, FS_StrictSubsetOrderingWellFounded, WFMin
<1>3. PICK x \in S : b = below(x)
    OBVIOUS
<1>4. ASSUME NEW y \in S, ~(x <= y)
      PROVE  FALSE
    <2>0. x \in Nat /\ y \in Nat /\ y < x
        BY <1>0, <1>4
    <2>1. below(y) \subseteq below(x) /\ y \in below(x) /\ y \notin below(y)
        <3>1. ASSUME NEW z \in below(y)
              PROVE  z \in below(x)
            <4>1. z \in S /\ z \in Nat /\ z < y
                BY <1>0
            <4> QED
                BY <2>0, <4>1
        <3>2. y \in below(x)
            BY <2>0
        <3>3. y \notin below(y)
            BY <2>0
        <3> QED
            BY <3>1, <3>2, <3>3
    <2>2. below(y) \in B /\ below(y) # below(x)
        BY <2>1
    <2>3. <<below(y), below(x)>> \in StrictSubsetOrdering(S)
        BY <2>1, <2>2 DEF StrictSubsetOrdering
    <2> QED
        BY <1>2, <1>3, <2>2, <2>3
<1>5. \E z \in S : \A y \in S : z <= y
    BY <1>4
<1> QED
    BY <1>5 DEF Least

\* Where a walk goes from x: to the end, or to the least greater element.
LEMMA BehindIs ==
    ASSUME NEW S \in SUBSET Nat, NEW x \in Nat
    PROVE  \/ Behind(S, x) = None /\ \A y \in S : y <= x
           \/ /\ Behind(S, x) \in S /\ Behind(S, x) > x
              /\ \A y \in S : y <= x \/ Behind(S, x) <= y
<1> DEFINE T == {y \in S : y > x}
<1>1. CASE T = {}
    BY <1>1 DEF Behind, Least
<1>2. CASE T # {}
    <2>1. T \in SUBSET Nat
        OBVIOUS
    <2>2. Least(T) \in T /\ \A y \in T : Least(T) <= y
        BY <1>2, <2>1, LeastIs
    <2> QED
        BY <2>2 DEF Behind
<1> QED
    BY <1>1, <1>2

\* Nothing is ever removed, and what a thread is inserting it inserts.
LEMMA TableGrows ==
    ASSUME IInv, [Next]_vars
    PROVE  /\ users \subseteq users' /\ AllFlows \subseteq AllFlows'
           /\ \A u \in Ips :
                 /\ flows[u] \subseteq flows'[u]
                 /\ FlowsComing(u) \subseteq FlowsComing(u)' \cup flows'[u]
<1> USE TableAssumption
        DEF IInv, TypeOK, Labels, InUser, InFlow, At, Goto, FlowsComing
<1>1. users \subseteq users' /\ \A u \in Ips : flows[u] \subseteq flows'[u]
    BY DEF Next, Call, LockUsers, FillUserKey, FindUser, AddUser, UnlockUsers,
           LockFlows, FillFlowKey, FindFlow, AddFlow, UnlockFlows, Return, vars,
           locals, userVars, flowVars
<1>2. AllFlows \subseteq AllFlows'
    BY <1>1 DEF AllFlows
<1>3. ASSUME NEW t \in Threads, NEW u \in Ips, At(t, "fadd"), user[t] = u
      PROVE  fKey[u] \in {fKey'[u] : s \in {s \in Threads : At(s, "fadd")' /\ user'[s] = u}}
                          \cup flows'[u]
    <2>0. \A s \in Threads : InFlow(s) /\ user[s] = u => s = t
        BY <1>3 DEF MutexInv
    <2>1. CASE AddFlow(t)
        BY <1>3, <2>1 DEF AddFlow
    <2>2. CASE ~AddFlow(t)
        <3>1. fKey'[u] = fKey[u] /\ pc'[t] = "fadd" /\ user'[t] = u
            BY <1>3, <2>0, <2>2
               DEF Next, Call, LockUsers, FillUserKey, FindUser, AddUser,
                   UnlockUsers, LockFlows, FillFlowKey, FindFlow, AddFlow,
                   UnlockFlows, Return, vars, locals, userVars, flowVars
        <3> QED
            BY <3>1
    <2> QED
        BY <2>1, <2>2
<1> QED
    BY <1>1, <1>2, <1>3

FlowsFinite == \A u \in Ips : IsFiniteSet(flows[u])

\* Where the iterators point.
AtInv ==
    /\ sh \in {"next", "flow", "fnext"} => at \in Ips
    /\ sh = "fnext" => fat \in Keys
    /\ sh \in {"flow", "fnext"} => cmd = "flow"
    /\ sh \in {"flow", "fnext"} /\ fat # None =>
          fat \in flows[at] \cup FlowsComing(at)

ShownInv ==
    /\ shown \subseteq AllFlows \cup UNION {FlowsComing(u) : u \in Ips}
    /\ start \subseteq AllFlows

\* The walk of flow has left k behind: it goes by users and then by flows.
Passed(k) ==
    \/ sh = "user" /\ at = None
    \/ at # None /\ IpOf[k] < at
    \/ sh = "next" /\ IpOf[k] = at
    \/ sh = "flow" /\ IpOf[k] = at /\ (fat = None \/ k < fat)
    \/ sh = "fnext" /\ IpOf[k] = at /\ k <= fat

\* What it has left behind is what it has printed, of the flows it found.
PassInv ==
    ~rough /\ cmd = "flow" /\ sh \in {"user", "next", "flow", "fnext"} =>
        /\ \A k \in shown : Passed(k)
        /\ \A k \in start : Passed(k) => k \in shown

WalkInv == ShellTypeOK /\ FlowsFinite /\ AtInv /\ ShownInv /\ PassInv

LEMMA WalkInit == ShellInit => WalkInv
<1> SUFFICES ASSUME ShellInit
             PROVE  WalkInv
    OBVIOUS
<1>1. TypeOK
    BY InitInv DEF ShellInit, IInv
<1>2. FlowsFinite
    BY FS_EmptySet DEF ShellInit, Init, FlowsFinite
<1>3. ShellTypeOK
    BY <1>1, ShellAssumption DEF ShellInit, ShellTypeOK, Commands
<1> QED
    BY <1>2, <1>3 DEF ShellInit, WalkInv, AtInv, ShownInv, PassInv

\* What may be inserted, and where a step may lead.
LEMMA Coming ==
    ASSUME IInv
    PROVE  /\ UsersComing \subseteq Ips
           /\ \A u \in Ips : FlowsComing(u) \subseteq Keys
           /\ \A u \in Ips : \A k \in flows[u] \cup FlowsComing(u) : IpOf[k] = u
<1> USE TableAssumption DEF IInv, TypeOK, KeyInv, LocalInv, At, InFlow
<1>1. UsersComing \subseteq Ips
    BY DEF UsersComing
<1>2. ASSUME NEW u \in Ips, NEW t \in Threads, At(t, "fadd"), user[t] = u
      PROVE  fKey[u] \in Keys /\ IpOf[fKey[u]] = u
    BY <1>2
<1>3. \A u \in Ips : \A k \in flows[u] : IpOf[k] = u
    BY DEF FlowsUnderTheirUser
<1> QED
    BY <1>1, <1>2, <1>3 DEF FlowsComing

\* The step of an iterator over the users.
LEMMA UserStepTo ==
    ASSUME IInv, NEW x \in users \cup {None}, UserStep(x), rough \in BOOLEAN
    PROVE  /\ at' \in Ips \cup {None} /\ rough' \in BOOLEAN
           /\ ~rough' => ~rough /\ at' = x
<1>1. rough' = (rough \/ UsersComing # {}) /\ at' \in Reach(x, users, UsersComing)
    BY DEF UserStep
<1>2. rough' \in BOOLEAN /\ (~rough' => ~rough /\ UsersComing = {})
    BY <1>1
<1>3. users \subseteq Ips /\ UsersComing \subseteq Ips
    BY Coming DEF IInv, TypeOK
<1> QED
    BY <1>1, <1>2, <1>3 DEF Reach

\* The step of an iterator over the flows of a user.
LEMMA FlowStepTo ==
    ASSUME IInv, at \in Ips, NEW x \in flows[at] \cup {None}, FlowStep(x),
           rough \in BOOLEAN
    PROVE  /\ fat' \in flows[at] \cup FlowsComing(at) \cup {None}
           /\ fat' \in Keys \cup {None} /\ rough' \in BOOLEAN
           /\ ~rough' => ~rough /\ fat' = x
<1>1. /\ rough' = (rough \/ FlowsComing(at) # {})
      /\ fat' \in Reach(x, flows[at], FlowsComing(at))
    BY DEF FlowStep
<1>2. rough' \in BOOLEAN /\ (~rough' => ~rough /\ FlowsComing(at) = {})
    BY <1>1
<1>3. flows[at] \subseteq Keys /\ FlowsComing(at) \subseteq Keys
    BY Coming DEF IInv, TypeOK
<1> QED
    BY <1>1, <1>2, <1>3 DEF Reach

\* The least element of users and flows.
LEMMA LeastOf ==
    ASSUME NEW S \in SUBSET Nat
    PROVE  \/ S = {} /\ Least(S) = None
           \/ Least(S) \in S /\ \A y \in S : Least(S) <= y
BY LeastIs DEF Least

-----------------------------------------------------------------------------
\* A lookup: the table grows under the walk.
LEMMA LookupWalk ==
    ASSUME IInv, IInv', WalkInv, [Next]_vars, UNCHANGED <<statVars, shellVars>>
    PROVE  WalkInv'
<1>1. ShellTypeOK'
    BY DEF WalkInv, ShellTypeOK, IInv, statVars, shellVars, walkVars, perfVars
<1>2. FlowsFinite'
    <2>1. CASE \E t \in Threads : AddFlow(t)
        <3>1. PICK t \in Threads : AddFlow(t)
            BY <2>1
        <3>2. /\ flows \in [Ips -> SUBSET Keys]
              /\ flows' = [flows EXCEPT ![user[t]] = @ \cup {fKey[user[t]]}]
            BY <3>1, Zenon DEF AddFlow, IInv, TypeOK
        <3>3. \A u \in Ips :
                 \/ flows'[u] = flows[u]
                 \/ flows'[u] = flows[u] \cup {fKey[u]}
            BY <3>2
        <3>4. ASSUME NEW u \in Ips
              PROVE  IsFiniteSet(flows[u]) /\ IsFiniteSet(flows[u] \cup {fKey[u]})
            BY FS_AddElement DEF WalkInv, FlowsFinite
        <3>5. ASSUME NEW u \in Ips
              PROVE  IsFiniteSet(flows'[u])
            BY <3>3, <3>4, Zenon
        <3> QED
            BY <3>5 DEF FlowsFinite
    <2>2. CASE ~\E t \in Threads : AddFlow(t)
        <3>1. flows' = flows
            BY <2>2
               DEF Next, Call, LockUsers, FillUserKey, FindUser, AddUser,
                   UnlockUsers, LockFlows, FillFlowKey, FindFlow, UnlockFlows,
                   Return, vars, flowVars
        <3> QED
            BY <3>1 DEF WalkInv, FlowsFinite
    <2> QED
        BY <2>1, <2>2
<1>3. AtInv'
    BY TableGrows DEF WalkInv, AtInv, shellVars, walkVars
<1>4. ShownInv'
    <2>1. ASSUME NEW u \in Ips, NEW k \in flows'[u]
          PROVE  k \in AllFlows'
        BY <2>1 DEF IInv, FlowsUnderTheirUser, AllFlows
    <2>2. \A u \in Ips : FlowsComing(u) \subseteq FlowsComing(u)' \cup AllFlows'
        BY <2>1, TableGrows
    <2>3. AllFlows \subseteq AllFlows' /\ UNCHANGED <<shown, start>>
        BY TableGrows DEF shellVars, walkVars
    <2> QED
        BY <2>2, <2>3 DEF WalkInv, ShownInv
<1>5. PassInv'
    BY DEF WalkInv, PassInv, Passed, shellVars, walkVars
<1> QED
    BY <1>1, <1>2, <1>3, <1>4, <1>5 DEF WalkInv

-----------------------------------------------------------------------------
(* The steps of the shell.                                                   *)

LEMMA TableStill ==
    ASSUME UNCHANGED vars, TypeOK, FlowsFinite
    PROVE  /\ TypeOK' /\ FlowsFinite' /\ AllFlows' = AllFlows
           /\ flows' = flows /\ users' = users
           /\ \A u : FlowsComing(u)' = FlowsComing(u)
BY DEF vars, locals, userVars, flowVars, TypeOK, FlowsFinite, AllFlows,
       FlowsComing, At

\* The threads count, or a command begins or ends.
LEMMA CommandWalk ==
    ASSUME WalkInv,
           \/ \E t \in Threads : Load(t) \/ Store(t)
           \/ ReadCommand \/ Sample \/ Sleep \/ Done
    PROVE  WalkInv'
<1> USE ShellAssumption DEF WalkInv
<1>1. UNCHANGED vars
    BY DEF Load, Store, ReadCommand, Sample, Sleep, Done
<1>2. /\ TypeOK' /\ FlowsFinite' /\ AllFlows' = AllFlows /\ flows' = flows
      /\ \A u : FlowsComing(u)' = FlowsComing(u)
    BY <1>1, TableStill DEF ShellTypeOK
<1>3. ASSUME NEW t \in Threads, Load(t) \/ Store(t)
      PROVE  WalkInv'
    <2>1. UNCHANGED shellVars /\ reg' \in [Threads -> Nat \cup {None}]
          /\ pktNum' \in Nat /\ begun' \in Nat
        BY <1>3 DEF Load, Store, ShellTypeOK
    <2>2. ShellTypeOK'
        BY <1>2, <2>1 DEF ShellTypeOK, shellVars, walkVars, perfVars
    <2>3. AtInv' /\ ShownInv' /\ PassInv'
        BY <1>2, <2>1
           DEF AtInv, ShownInv, PassInv, Passed, shellVars, walkVars
    <2> QED
        BY <1>2, <2>2, <2>3
<1>4. CASE ReadCommand
    <2>1. /\ UNCHANGED <<statVars, walkVars, perfVars>> /\ cmd' \in Commands
          /\ sh' \in {"sample", "prompt", "begin"}
        BY <1>4, Zenon DEF ReadCommand
    <2>2. ShellTypeOK'
        BY <1>2, <2>1 DEF ShellTypeOK, statVars, walkVars, perfVars
    <2>3. AtInv' /\ ShownInv' /\ PassInv'
        BY <1>2, <2>1 DEF AtInv, ShownInv, PassInv, walkVars
    <2> QED
        BY <1>2, <2>2, <2>3
<1>5. CASE Sample
    <2>1. stale' \in BOOLEAN
        BY <1>5, Zenon DEF Sample
    <2>2. ShellTypeOK'
        BY <1>2, <1>5, <2>1 DEF ShellTypeOK, Sample, statVars, walkVars
    <2>3. AtInv' /\ ShownInv' /\ PassInv'
        BY <1>2, <1>5 DEF Sample, AtInv, ShownInv, PassInv, walkVars
    <2> QED
        BY <1>2, <2>2, <2>3
<1>6. CASE Sleep
    <2>2. ShellTypeOK'
        BY <1>2, <1>6 DEF ShellTypeOK, Sleep, statVars, walkVars
    <2>3. AtInv' /\ ShownInv' /\ PassInv'
        BY <1>2, <1>6 DEF Sleep, AtInv, ShownInv, PassInv, walkVars
    <2> QED
        BY <1>2, <2>2, <2>3
<1>7. CASE Done
    <2>1. sh' \in {"sample", "prompt"}
        BY <1>7, Zenon DEF Done
    <2>2. ShellTypeOK'
        BY <1>2, <1>7, <2>1 DEF ShellTypeOK, Done, statVars
    <2>3. AtInv' /\ ShownInv' /\ PassInv'
        BY <1>2, <1>7, <2>1 DEF Done, AtInv, ShownInv, PassInv
    <2> QED
        BY <1>2, <2>2, <2>3
<1> QED
    BY <1>3, <1>4, <1>5, <1>6, <1>7

\* A walk begins at the first user, in front of everything.
LEMMA BeginWalk ==
    ASSUME IInv, WalkInv, Begin
    PROVE  WalkInv'
<1> USE ShellAssumption, TableAssumption DEF WalkInv
<1>1. UNCHANGED <<vars, statVars, cmd, fat, perfVars>> /\ sh' = "user"
      /\ tally' = 0 /\ shown' = {} /\ UserStep(Least(users))
      /\ start' \in {{}, AllFlows}
    BY DEF Begin
<1>2. /\ TypeOK' /\ FlowsFinite' /\ AllFlows' = AllFlows /\ flows' = flows
      /\ users' = users /\ \A u : FlowsComing(u)' = FlowsComing(u)
    BY <1>1, TableStill DEF ShellTypeOK
<1>3. users \in SUBSET Nat /\ users \subseteq Ips
    BY DEF IInv, TypeOK
<1>4. \/ users = {} /\ Least(users) = None
      \/ Least(users) \in users /\ \A y \in users : Least(users) <= y
    BY <1>3, LeastOf
<1>5. /\ at' \in Ips \cup {None} /\ rough' \in BOOLEAN
      /\ ~rough' => at' = Least(users)
    BY <1>1, <1>4, UserStepTo DEF ShellTypeOK
<1>6. start' \subseteq Keys
    BY <1>1 DEF AllFlows, IInv, TypeOK
<1>7. ShellTypeOK'
    BY <1>1, <1>2, <1>5, <1>6 DEF ShellTypeOK, statVars, perfVars
<1>8. AtInv' /\ ShownInv'
    BY <1>1, <1>2 DEF AtInv, ShownInv
<1>9. PassInv'
    <2> SUFFICES ASSUME ~rough', NEW k \in start', Passed(k)'
                 PROVE  FALSE
        BY <1>1 DEF PassInv
    <2>1. k \in AllFlows
        BY <1>1
    <2>2. IpOf[k] \in users
        <3>1. PICK u \in users : k \in flows[u]
            BY <2>1 DEF AllFlows
        <3>2. u \in Ips
            BY <1>3
        <3> QED
            BY <3>1, <3>2 DEF IInv, FlowsUnderTheirUser
    <2>3. at' # None /\ at' <= IpOf[k]
        BY <1>3, <1>4, <1>5, <2>2
    <2>4. IpOf[k] < at'
        BY <1>1, <2>3 DEF Passed
    <2>5. IpOf[k] \in Nat /\ at' \in Nat
        BY <1>3, <1>5, <2>2, <2>3
    <2> QED
        BY <2>3, <2>4, <2>5
<1> QED
    BY <1>2, <1>7, <1>8, <1>9

\* The flows that a walk has found are the users' own.
LEMMA StartedBy ==
    ASSUME IInv, WalkInv
    PROVE  \A k \in start :
              /\ k \in Keys /\ k \in Nat
              /\ IpOf[k] \in users /\ IpOf[k] \in Nat /\ k \in flows[IpOf[k]]
<1> SUFFICES ASSUME NEW k \in start
             PROVE  /\ k \in Keys /\ k \in Nat
                    /\ IpOf[k] \in users /\ IpOf[k] \in Nat /\ k \in flows[IpOf[k]]
    OBVIOUS
<1>1. PICK u \in users : k \in flows[u]
    BY DEF WalkInv, ShownInv, AllFlows
<1>2. u \in Ips /\ u \in Nat /\ k \in Keys /\ k \in Nat
    BY <1>1, ShellAssumption DEF IInv, TypeOK
<1> QED
    BY <1>1, <1>2 DEF IInv, FlowsUnderTheirUser

LEMMA ShownBy ==
    ASSUME IInv, WalkInv
    PROVE  \A k \in shown : k \in Nat /\ IpOf[k] \in Nat
<1> SUFFICES ASSUME NEW k \in shown
             PROVE  k \in Nat /\ IpOf[k] \in Nat
    OBVIOUS
<1>1. PICK u \in Ips : k \in flows[u] \cup FlowsComing(u)
    BY DEF WalkInv, ShownInv, AllFlows, IInv, TypeOK
<1>2. IpOf[k] = u
    BY <1>1, Coming
<1> QED
    BY <1>1, <1>2, ShellAssumption DEF WalkInv, ShellTypeOK

\* A user is entered, or counted.
LEMMA VisitWalk ==
    ASSUME IInv, WalkInv, Visit
    PROVE  WalkInv'
<1> USE ShellAssumption, TableAssumption DEF WalkInv
<1>1. /\ UNCHANGED <<vars, statVars, cmd, at, shown, start, perfVars>>
      /\ sh = "user" /\ at \in Ips /\ at \in Nat /\ at # None
    BY DEF Visit, ShellTypeOK
<1>2. /\ TypeOK' /\ FlowsFinite' /\ AllFlows' = AllFlows /\ flows' = flows
      /\ \A u : FlowsComing(u)' = FlowsComing(u)
    BY <1>1, TableStill DEF ShellTypeOK
<1>3. CASE cmd = "flow"
    <2>1. FlowStep(Least(flows[at])) /\ sh' = "flow" /\ tally' = tally
        BY <1>3 DEF Visit
    <2>2. flows[at] \in SUBSET Nat
        BY <1>1 DEF IInv, TypeOK
    <2>3. \/ flows[at] = {} /\ Least(flows[at]) = None
          \/ /\ Least(flows[at]) \in flows[at]
             /\ \A y \in flows[at] : Least(flows[at]) <= y
        BY <2>2, LeastOf
    <2>4. /\ fat' \in flows[at] \cup FlowsComing(at) \cup {None}
          /\ fat' \in Keys \cup {None} /\ rough' \in BOOLEAN
          /\ ~rough' => ~rough /\ fat' = Least(flows[at])
        BY <1>1, <2>1, <2>3, FlowStepTo DEF ShellTypeOK
    <2>5. ShellTypeOK'
        BY <1>1, <1>2, <2>1, <2>4 DEF ShellTypeOK, statVars, perfVars
    <2>6. AtInv' /\ ShownInv'
        BY <1>1, <1>2, <1>3, <2>1, <2>4 DEF AtInv, ShownInv
    <2>7. PassInv'
        <3> SUFFICES ASSUME ~rough'
                     PROVE  /\ \A k \in shown : Passed(k)'
                            /\ \A k \in start : Passed(k)' => k \in shown
            BY <1>1 DEF PassInv
        <3>0. fat' = Least(flows[at])
            BY <2>4
        <3>1. /\ \A k \in shown : IpOf[k] < at
              /\ \A k \in start : IpOf[k] < at => k \in shown
            BY <1>1, <1>3, <2>4 DEF PassInv, Passed
        <3>2. \A k \in shown : Passed(k)'
            BY <1>1, <2>1, <3>1 DEF Passed
        <3>3. ASSUME NEW k \in start, Passed(k)'
              PROVE  IpOf[k] < at
            <4>1. IpOf[k] < at \/ (IpOf[k] = at /\ (fat' = None \/ k < fat'))
                BY <1>1, <2>1, <3>3 DEF Passed
            <4>2. k \in Nat /\ k \in flows[IpOf[k]]
                BY StartedBy
            <4>3. ASSUME IpOf[k] = at, fat' = None \/ k < fat'
                  PROVE  FALSE
                <5>1. k \in flows[at]
                    BY <4>2, <4>3
                <5>2. Least(flows[at]) \in flows[at] /\ Least(flows[at]) <= k
                    BY <2>3, <5>1
                <5>3. fat' \in Nat /\ fat' <= k
                    BY <2>2, <3>0, <5>2
                <5> QED
                    BY <4>2, <4>3, <5>3
            <4> QED
                BY <4>1, <4>3
        <3> QED
            BY <3>1, <3>2, <3>3
    <2> QED
        BY <1>2, <2>5, <2>6, <2>7
<1>4. CASE cmd # "flow"
    <2>1. /\ sh' = "next" /\ UNCHANGED <<fat, rough>>
          /\ tally' \in {tally, tally + Cardinality(flows[at])}
        BY <1>4 DEF Visit
    <2>2. Cardinality(flows[at]) \in Nat
        BY <1>1, FS_CardinalityType DEF FlowsFinite
    <2>3. ShellTypeOK'
        BY <1>1, <1>2, <2>1, <2>2 DEF ShellTypeOK, statVars, perfVars
    <2>4. AtInv' /\ ShownInv' /\ PassInv'
        BY <1>1, <1>2, <1>4, <2>1 DEF AtInv, ShownInv, PassInv
    <2> QED
        BY <1>2, <2>3, <2>4
<1> QED
    BY <1>3, <1>4

\* To the next user.
LEMMA NextUserWalk ==
    ASSUME IInv, WalkInv, NextUser
    PROVE  WalkInv'
<1> USE ShellAssumption, TableAssumption DEF WalkInv
<1>1. /\ UNCHANGED <<vars, statVars, cmd, fat, tally, shown, start, perfVars>>
      /\ sh = "next" /\ sh' = "user" /\ UserStep(Behind(users, at))
      /\ at \in Ips /\ at \in Nat /\ at # None
    BY DEF NextUser, AtInv
<1>2. /\ TypeOK' /\ FlowsFinite' /\ AllFlows' = AllFlows /\ flows' = flows
      /\ \A u : FlowsComing(u)' = FlowsComing(u)
    BY <1>1, TableStill DEF ShellTypeOK
<1>3. users \in SUBSET Nat /\ users \subseteq Ips
    BY DEF IInv, TypeOK
<1> DEFINE x == Behind(users, at)
<1>4. \/ x = None /\ \A y \in users : y <= at
      \/ x \in users /\ x > at /\ \A y \in users : y <= at \/ x <= y
    BY <1>1, <1>3, BehindIs
<1>5. /\ at' \in Ips \cup {None} /\ rough' \in BOOLEAN
      /\ ~rough' => ~rough /\ at' = x
    BY <1>1, <1>4, UserStepTo DEF ShellTypeOK
<1> HIDE DEF x
<1>6. ShellTypeOK'
    BY <1>1, <1>2, <1>5 DEF ShellTypeOK, statVars, perfVars
<1>7. AtInv' /\ ShownInv'
    BY <1>1, <1>2 DEF AtInv, ShownInv
<1>8. PassInv'
    <2> SUFFICES ASSUME ~rough', cmd = "flow"
                 PROVE  /\ \A k \in shown : Passed(k)'
                        /\ \A k \in start : Passed(k)' => k \in shown
        BY <1>1 DEF PassInv
    <2>1. /\ \A k \in shown : IpOf[k] < at \/ IpOf[k] = at
          /\ \A k \in start : IpOf[k] < at \/ IpOf[k] = at => k \in shown
        BY <1>1, <1>5 DEF PassInv, Passed
    <2>2. ASSUME NEW k \in shown
          PROVE  Passed(k)'
        <3>1. IpOf[k] \in Nat
            BY ShownBy
        <3>2. at' = None \/ (at' # None /\ at' \in Nat /\ at' > at)
            BY <1>3, <1>4, <1>5
        <3>3. IpOf[k] < at \/ IpOf[k] = at
            BY <2>1
        <3>4. at' = None \/ (at' # None /\ IpOf[k] < at')
            BY <1>1, <3>1, <3>2, <3>3
        <3> QED
            BY <1>1, <3>4 DEF Passed
    <2>3. ASSUME NEW k \in start, Passed(k)'
          PROVE  k \in shown
        <3>1. IpOf[k] \in Nat /\ IpOf[k] \in users
            BY StartedBy
        <3>2. at' = None \/ (at' # None /\ IpOf[k] < at')
            BY <1>1, <2>3 DEF Passed
        <3>3. IpOf[k] <= at
            BY <1>1, <1>3, <1>4, <1>5, <3>1, <3>2
        <3> QED
            BY <1>1, <2>1, <3>1, <3>3
    <2> QED
        BY <2>2, <2>3
<1> QED
    BY <1>2, <1>6, <1>7, <1>8

\* A flow is printed.
LEMMA PrintWalk ==
    ASSUME IInv, WalkInv, PrintFlow
    PROVE  WalkInv'
<1> USE ShellAssumption, TableAssumption DEF WalkInv
<1>1. /\ UNCHANGED <<vars, statVars, cmd, at, fat, tally, start, rough, perfVars>>
      /\ sh = "flow" /\ sh' = "fnext" /\ fat \in Keys /\ fat \in Nat /\ fat # None
      /\ shown' = shown \cup {fat} /\ cmd = "flow"
      /\ at \in Ips /\ at \in Nat /\ at # None
    BY DEF PrintFlow, ShellTypeOK, AtInv
<1>2. /\ TypeOK' /\ FlowsFinite' /\ AllFlows' = AllFlows /\ flows' = flows
      /\ \A u : FlowsComing(u)' = FlowsComing(u)
    BY <1>1, TableStill DEF ShellTypeOK
<1>3. ShellTypeOK'
    BY <1>1, <1>2 DEF ShellTypeOK, statVars, perfVars
<1>4. fat \in flows[at] \cup FlowsComing(at) /\ IpOf[fat] = at
    BY <1>1, Coming DEF AtInv
<1>5. AtInv'
    BY <1>1, <1>2, <1>4 DEF AtInv
<1>6. ShownInv'
    <2>1. flows[at] \subseteq AllFlows
        <3>1. flows[at] # {} => at \in users
            BY <1>1 DEF IInv, FlowsUnderTheirUser
        <3> QED
            BY <3>1 DEF AllFlows
    <2> QED
        BY <1>1, <1>2, <1>4, <2>1 DEF ShownInv
<1>7. PassInv'
    <2> SUFFICES ASSUME ~rough
                 PROVE  /\ \A k \in shown \cup {fat} : Passed(k)'
                        /\ \A k \in start : Passed(k)' => k \in shown \cup {fat}
        BY <1>1 DEF PassInv
    <2>1. ASSUME NEW k \in shown
          PROVE  Passed(k)'
        <3>1. IpOf[k] < at \/ (IpOf[k] = at /\ k < fat)
            BY <1>1 DEF PassInv, Passed
        <3>2. k \in Nat
            BY ShownBy
        <3>3. IpOf[k] < at \/ (IpOf[k] = at /\ k <= fat)
            BY <1>1, <3>1, <3>2
        <3> QED
            BY <1>1, <3>3 DEF Passed
    <2>2. \A k \in {fat} : Passed(k)'
        BY <1>1, <1>4 DEF Passed
    <2>3. ASSUME NEW k \in start, Passed(k)'
          PROVE  k \in shown \cup {fat}
        <3>1. IpOf[k] < at \/ (IpOf[k] = at /\ k <= fat)
            BY <1>1, <2>3 DEF Passed
        <3>2. k \in Nat
            BY StartedBy
        <3>3. k = fat \/ IpOf[k] < at \/ (IpOf[k] = at /\ k < fat)
            BY <1>1, <3>1, <3>2
        <3> QED
            BY <1>1, <3>3 DEF PassInv, Passed
    <2> QED
        BY <2>1, <2>2, <2>3
<1> QED
    BY <1>2, <1>3, <1>5, <1>6, <1>7

\* To the next flow of the user.
LEMMA NextFlowWalk ==
    ASSUME IInv, WalkInv, NextFlow
    PROVE  WalkInv'
<1> USE ShellAssumption, TableAssumption DEF WalkInv
<1>1. /\ UNCHANGED <<vars, statVars, cmd, at, tally, shown, start, perfVars>>
      /\ sh = "fnext" /\ sh' = "flow" /\ FlowStep(Behind(flows[at], fat))
      /\ fat \in Keys /\ fat \in Nat /\ cmd = "flow"
      /\ at \in Ips /\ at \in Nat /\ at # None
    BY DEF NextFlow, AtInv
<1>2. /\ TypeOK' /\ FlowsFinite' /\ AllFlows' = AllFlows /\ flows' = flows
      /\ \A u : FlowsComing(u)' = FlowsComing(u)
    BY <1>1, TableStill DEF ShellTypeOK
<1>3. flows[at] \in SUBSET Nat
    BY <1>1 DEF IInv, TypeOK
<1> DEFINE x == Behind(flows[at], fat)
<1>4. \/ x = None /\ \A y \in flows[at] : y <= fat
      \/ x \in flows[at] /\ x > fat /\ \A y \in flows[at] : y <= fat \/ x <= y
    BY <1>1, <1>3, BehindIs
<1>5. /\ fat' \in flows[at] \cup FlowsComing(at) \cup {None}
      /\ fat' \in Keys \cup {None} /\ rough' \in BOOLEAN
      /\ ~rough' => ~rough /\ fat' = x
    BY <1>1, <1>4, FlowStepTo DEF ShellTypeOK
<1> HIDE DEF x
<1>6. ShellTypeOK'
    BY <1>1, <1>2, <1>5 DEF ShellTypeOK, statVars, perfVars
<1>7. AtInv' /\ ShownInv'
    BY <1>1, <1>2, <1>5 DEF AtInv, ShownInv
<1>8. PassInv'
    <2> SUFFICES ASSUME ~rough'
                 PROVE  /\ \A k \in shown : Passed(k)'
                        /\ \A k \in start : Passed(k)' => k \in shown
        BY <1>1 DEF PassInv
    <2>0. fat' = x /\ ~rough
        BY <1>5
    <2>1. ASSUME NEW k \in shown
          PROVE  Passed(k)'
        <3>1. IpOf[k] < at \/ (IpOf[k] = at /\ k <= fat)
            BY <1>1, <2>0 DEF PassInv, Passed
        <3>2. k \in Nat
            BY ShownBy
        <3>3. IpOf[k] < at \/ (IpOf[k] = at /\ (fat' = None \/ k < fat'))
            BY <1>1, <1>3, <1>4, <2>0, <3>1, <3>2
        <3> QED
            BY <1>1, <3>3 DEF Passed
    <2>2. ASSUME NEW k \in start, Passed(k)'
          PROVE  k \in shown
        <3>1. IpOf[k] < at \/ (IpOf[k] = at /\ (fat' = None \/ k < fat'))
            BY <1>1, <2>2 DEF Passed
        <3>2. k \in Nat /\ k \in flows[IpOf[k]]
            BY StartedBy
        <3>3. IpOf[k] < at \/ (IpOf[k] = at /\ k <= fat)
            BY <1>1, <1>3, <1>4, <2>0, <3>1, <3>2
        <3> QED
            BY <1>1, <2>0, <3>3 DEF PassInv, Passed
    <2> QED
        BY <2>1, <2>2
<1> QED
    BY <1>2, <1>6, <1>7, <1>8

\* The user's flows are done.
LEMMA LastFlowWalk ==
    ASSUME IInv, WalkInv, LastFlow
    PROVE  WalkInv'
<1> USE ShellAssumption DEF WalkInv
<1>1. /\ UNCHANGED <<vars, statVars, cmd, walkVars, perfVars>>
      /\ sh = "flow" /\ fat = None /\ sh' = "next" /\ cmd = "flow"
      /\ at \in Ips /\ at # None
    BY DEF LastFlow, AtInv
<1>2. /\ TypeOK' /\ FlowsFinite' /\ AllFlows' = AllFlows
      /\ \A u : FlowsComing(u)' = FlowsComing(u)
    BY <1>1, TableStill DEF ShellTypeOK
<1>3. ShellTypeOK'
    BY <1>1, <1>2 DEF ShellTypeOK, statVars, walkVars, perfVars
<1>4. AtInv' /\ ShownInv'
    BY <1>1, <1>2 DEF AtInv, ShownInv, walkVars
<1>5. PassInv'
    BY <1>1 DEF PassInv, Passed, walkVars
<1> QED
    BY <1>2, <1>3, <1>4, <1>5

\* Every step of threads and shell keeps the invariant of the walk.
LEMMA WalkNext == IInv /\ IInv' /\ WalkInv /\ [ShellNext]_allVars => WalkInv'
<1> SUFFICES ASSUME IInv, IInv', WalkInv, [ShellNext]_allVars
             PROVE  WalkInv'
    OBVIOUS
<1>1. CASE Lookup \/ UNCHANGED allVars
    <2>1. [Next]_vars /\ UNCHANGED <<statVars, shellVars>>
        BY <1>1 DEF Lookup, allVars
    <2> QED
        BY <2>1, LookupWalk
<1>2. CASE \/ \E t \in Threads : Load(t) \/ Store(t)
           \/ ReadCommand \/ Sample \/ Sleep \/ Done
    BY <1>2, CommandWalk
<1>3. CASE Begin \/ Visit \/ NextUser \/ PrintFlow \/ NextFlow \/ LastFlow
    BY <1>3, BeginWalk, VisitWalk, NextUserWalk, PrintWalk, NextFlowWalk,
       LastFlowWalk
<1> QED
    BY <1>1, <1>2, <1>3 DEF ShellNext, ShellThread

LEMMA WalkInvariance == ShellSpec => [](IInv /\ WalkInv)
<1>1. ShellInit => WalkInv
    BY WalkInit
<1>2. IInv /\ IInv' /\ WalkInv /\ [ShellNext]_allVars => WalkInv'
    BY WalkNext
<1> QED
    BY <1>1, <1>2, TableInvariance, PTL DEF ShellSpec

\* The type of every variable of shell, totals and table.
THEOREM ShellTypeCorrect == ShellSpec => []ShellTypeOK
<1>1. IInv /\ WalkInv => ShellTypeOK
    BY DEF WalkInv
<1> QED
    BY <1>1, WalkInvariance, PTL

\* ListsFlows: the flow command prints flows that exist or are about to; and
\* each once, and all that were there, unless it met a tree in rotation.
THEOREM ListsFlowsHolds == ShellSpec => []ListsFlows
<1>1. IInv /\ WalkInv => ListsFlows
    <2> SUFFICES ASSUME IInv, WalkInv
                 PROVE  ListsFlows
        OBVIOUS
    <2> USE ShellAssumption DEF WalkInv
    <2>1. ASSUME ~rough, sh = "flow", fat # None, fat \in shown
          PROVE  FALSE
        <3>1. /\ at \in Ips /\ at \in Nat /\ at # None /\ cmd = "flow"
              /\ fat \in Nat /\ IpOf[fat] = at
            BY <2>1, Coming DEF AtInv, ShellTypeOK
        <3>2. IpOf[fat] < at \/ fat < fat
            BY <2>1, <3>1 DEF PassInv, Passed
        <3> QED
            BY <3>1, <3>2
    <2>2. ASSUME ~rough, cmd = "flow", Walked
          PROVE  start \subseteq shown
        BY <2>2 DEF Walked, PassInv, Passed
    <2> QED
        BY <2>1, <2>2 DEF ListsFlows, ShownInv
<1> QED
    BY <1>1, WalkInvariance, PTL

-----------------------------------------------------------------------------
(* What mem and perf count.                                                  *)

\* The flows of the users that the walk has left behind.
PassedFlows == {k \in AllFlows : Passed(k)}

Counting == ~rough /\ cmd \in {"mem", "perf"}

\* The sum so far is no more than the flows behind the walk, and no less than
\* those of them that were there when it began.  For perf the set S of these
\* is one as large as the first of its two sums.
CountInv ==
    /\ IsFiniteSet(AllFlows)
    /\ sh \in {"prompt", "sample"} => flow0 = None
    /\ Counting /\ sh = "begin" /\ cmd = "perf" /\ flow0 # None =>
          flow0 <= Cardinality(AllFlows)
    /\ Counting /\ sh \in {"user", "next"} =>
          /\ tally <= Cardinality(PassedFlows)
          /\ \E S \in SUBSET AllFlows :
                /\ Cardinality(S \cap PassedFlows) <= tally
                /\ cmd = "mem" => S = start
                /\ cmd = "perf" /\ flow0 # None => flow0 <= Cardinality(S)

\* The flows of the users are the flows of all addresses.
LEMMA AllFlowsAre ==
    ASSUME IInv
    PROVE  /\ AllFlows \subseteq Keys
           /\ \A k \in AllFlows : IpOf[k] \in users /\ k \in flows[IpOf[k]]
           /\ \A u \in Ips : flows[u] \subseteq AllFlows
<1>1. AllFlows \subseteq Keys
    BY DEF IInv, TypeOK, AllFlows
<1>2. ASSUME NEW k \in AllFlows
      PROVE  IpOf[k] \in users /\ k \in flows[IpOf[k]]
    <2>1. PICK u \in users : k \in flows[u]
        BY DEF AllFlows
    <2>2. u \in Ips
        BY DEF IInv, TypeOK
    <2> QED
        BY <2>1, <2>2 DEF IInv, FlowsUnderTheirUser
<1>3. \A u \in Ips : flows[u] \subseteq AllFlows
    BY DEF IInv, FlowsUnderTheirUser, AllFlows
<1> QED
    BY <1>1, <1>2, <1>3

LEMMA AllFlowsFinite ==
    ASSUME IInv, IInv', IsFiniteSet(AllFlows), [Next]_vars
    PROVE  IsFiniteSet(AllFlows')
<1>1. CASE \E t \in Threads : AddFlow(t)
    <2>1. PICK t \in Threads : AddFlow(t)
        BY <1>1
    <2> DEFINE x == fKey[user[t]]
    <2>2. /\ flows \in [Ips -> SUBSET Keys]
          /\ flows' = [flows EXCEPT ![user[t]] = @ \cup {x}]
        BY <2>1, Zenon DEF AddFlow, IInv, TypeOK
    <2>3. \A u \in Ips : flows'[u] \subseteq flows[u] \cup {x}
        BY <2>2
    <2> HIDE DEF x
    <2>4. AllFlows' \in SUBSET (AllFlows \cup {x})
        <3> SUFFICES ASSUME NEW k \in AllFlows' PROVE k \in AllFlows \cup {x}
            OBVIOUS
        <3>1. PICK u \in users' : k \in flows'[u]
            BY DEF AllFlows
        <3>2. u \in Ips
            BY DEF IInv, TypeOK
        <3>3. k \in flows[u] \cup {x}
            BY <2>3, <3>1, <3>2
        <3>4. flows[u] \subseteq AllFlows
            BY <3>2, AllFlowsAre
        <3> QED
            BY <3>3, <3>4
    <2>5. IsFiniteSet(AllFlows \cup {x})
        BY FS_AddElement
    <2> QED
        BY <2>4, <2>5, FS_Subset
<1>2. CASE ~\E t \in Threads : AddFlow(t)
    <2>1. flows' = flows
        BY <1>2
           DEF Next, Call, LockUsers, FillUserKey, FindUser, AddUser,
               UnlockUsers, LockFlows, FillFlowKey, FindFlow, UnlockFlows,
               Return, vars, flowVars
    <2>2. AllFlows' \in SUBSET AllFlows
        <3> SUFFICES ASSUME NEW k \in AllFlows' PROVE k \in AllFlows
            OBVIOUS
        <3>1. PICK u \in users' : k \in flows'[u]
            BY DEF AllFlows
        <3>2. u \in Ips
            BY DEF IInv, TypeOK
        <3> QED
            BY <2>1, <3>1, <3>2, AllFlowsAre
    <2> QED
        BY <2>2, FS_Subset
<1> QED
    BY <1>1, <1>2

LEMMA CountInit == ShellInit => CountInv
<1> SUFFICES ASSUME ShellInit
             PROVE  CountInv
    OBVIOUS
<1>1. AllFlows = {}
    BY DEF ShellInit, Init, AllFlows
<1> QED
    BY <1>1, FS_EmptySet DEF ShellInit, CountInv

\* The table grows: what was behind the walk stays there.
LEMMA LookupCount ==
    ASSUME IInv, IInv', WalkInv, CountInv, [Next]_vars,
           UNCHANGED <<statVars, shellVars>>
    PROVE  CountInv'
<1>1. IsFiniteSet(AllFlows) /\ IsFiniteSet(AllFlows')
    BY AllFlowsFinite DEF CountInv
<1>2. AllFlows \in SUBSET AllFlows'
    BY TableGrows
<1>3. /\ UNCHANGED <<sh, cmd, at, fat, tally, flow0, start, rough>>
      /\ \A k : Passed(k)' <=> Passed(k)
    BY DEF shellVars, walkVars, perfVars, Passed
<1>4. PassedFlows' \in SUBSET AllFlows' /\ PassedFlows \in SUBSET PassedFlows'
    BY <1>2, <1>3 DEF PassedFlows
<1>5. IsFiniteSet(PassedFlows') /\ IsFiniteSet(PassedFlows)
    BY <1>1, <1>4, FS_Subset
<1>6. /\ {Cardinality(AllFlows), Cardinality(AllFlows'), Cardinality(PassedFlows),
          Cardinality(PassedFlows')} \subseteq Nat
      /\ Cardinality(AllFlows) <= Cardinality(AllFlows')
      /\ Cardinality(PassedFlows) <= Cardinality(PassedFlows')
    BY <1>1, <1>2, <1>4, <1>5, FS_Subset, FS_CardinalityType
<1>7. tally \in Nat /\ flow0 \in Nat \cup {None}
    BY DEF WalkInv, ShellTypeOK
<1>8. ASSUME Counting, sh = "begin", cmd = "perf", flow0 # None
      PROVE  flow0 <= Cardinality(AllFlows')
    BY <1>6, <1>7, <1>8 DEF CountInv
<1>9. ASSUME Counting, sh \in {"user", "next"}
      PROVE  /\ tally <= Cardinality(PassedFlows')
             /\ \E S \in SUBSET AllFlows' :
                   /\ Cardinality(S \cap PassedFlows') <= tally
                   /\ cmd = "mem" => S = start
                   /\ cmd = "perf" /\ flow0 # None => flow0 <= Cardinality(S)
    <2>1. tally <= Cardinality(PassedFlows')
        BY <1>6, <1>7, <1>9 DEF CountInv
    <2>2. PICK S \in SUBSET AllFlows :
                   /\ Cardinality(S \cap PassedFlows) <= tally
                   /\ cmd = "mem" => S = start
                   /\ cmd = "perf" /\ flow0 # None => flow0 <= Cardinality(S)
        BY <1>9 DEF CountInv
    <2>3. S \cap PassedFlows' = S \cap PassedFlows
        BY <1>2, <1>3 DEF PassedFlows
    <2>4. S \in SUBSET AllFlows'
        BY <1>2
    <2> QED
        BY <2>1, <2>2, <2>3, <2>4
<1> QED
    BY <1>1, <1>3, <1>8, <1>9 DEF CountInv, Counting

\* A walk begins with nothing behind it.
LEMMA BeginCount ==
    ASSUME IInv, WalkInv, CountInv, Begin
    PROVE  CountInv'
<1> USE ShellAssumption, TableAssumption
<1>1. /\ UNCHANGED <<vars, cmd, flow0>> /\ sh = "begin" /\ sh' = "user"
      /\ tally' = 0 /\ UserStep(Least(users))
      /\ start' = IF cmd = "perf" THEN {} ELSE AllFlows
    BY DEF Begin, perfVars
<1>2. AllFlows' = AllFlows /\ rough \in BOOLEAN
    BY <1>1, TableStill DEF WalkInv, ShellTypeOK
<1>3. users \in SUBSET Nat /\ users \subseteq Ips
    BY DEF IInv, TypeOK
<1>4. \/ users = {} /\ Least(users) = None
      \/ Least(users) \in users /\ \A y \in users : Least(users) <= y
    BY <1>3, LeastOf
<1>5. ~rough' => ~rough /\ at' = Least(users)
    BY <1>1, <1>2, <1>4, UserStepTo
<1>6. ~rough' => PassedFlows' = {}
    <2> SUFFICES ASSUME ~rough', NEW k \in AllFlows, Passed(k)' PROVE FALSE
        BY <1>2 DEF PassedFlows
    <2>1. IpOf[k] \in users /\ IpOf[k] \in Nat
        BY <1>3, AllFlowsAre
    <2>2. at' \in Nat /\ at' # None /\ at' <= IpOf[k]
        BY <1>3, <1>4, <1>5, <2>1
    <2>3. IpOf[k] < at'
        BY <1>1, <2>2 DEF Passed
    <2> QED
        BY <2>1, <2>2, <2>3
<1>7. Cardinality({}) = 0 /\ AllFlows \cap {} = {}
    BY FS_EmptySet
<1>8. ASSUME Counting'
      PROVE  /\ tally' <= Cardinality(PassedFlows')
             /\ Cardinality(AllFlows \cap PassedFlows') <= tally'
             /\ cmd = "mem" => AllFlows = start'
             /\ cmd = "perf" /\ flow0 # None => flow0 <= Cardinality(AllFlows)
    <2>1. PassedFlows' = {} /\ Counting
        BY <1>1, <1>5, <1>6, <1>8 DEF Counting
    <2> QED
        BY <1>1, <1>7, <2>1 DEF CountInv
<1> QED
    BY <1>1, <1>2, <1>8 DEF CountInv

\* A user is passed and the size of its set added.
LEMMA VisitCount ==
    ASSUME IInv, WalkInv, CountInv, Visit
    PROVE  CountInv'
<1> USE ShellAssumption, TableAssumption
<1> DEFINE F == flows[at]
           P == PassedFlows
<1>1. /\ UNCHANGED <<vars, cmd, at, start, flow0>>
      /\ sh = "user" /\ at \in Ips /\ at \in Nat /\ at # None
    BY DEF Visit, perfVars, WalkInv, ShellTypeOK
<1>2. AllFlows' = AllFlows
    BY <1>1, TableStill DEF WalkInv, ShellTypeOK
<1>3. CASE ~Counting'
    <2>1. sh' # "begin" /\ sh' \notin {"prompt", "sample"}
        BY DEF Visit
    <2> QED
        BY <1>2, <1>3, <2>1 DEF CountInv
<1>4. CASE Counting'
    <2>1. /\ sh' = "next" /\ tally' = tally + Cardinality(F) /\ Counting
        BY <1>1, <1>4 DEF Counting, Visit
    <2>2. F \in SUBSET AllFlows /\ \A k \in AllFlows : IpOf[k] = at <=> k \in F
        <3>1. \A k \in F : IpOf[k] = at
            BY <1>1 DEF IInv, FlowsUnderTheirUser
        <3> QED
            BY <1>1, <3>1, AllFlowsAre
    <2>3. \A k \in AllFlows : IpOf[k] \in Nat
        BY AllFlowsAre DEF IInv, TypeOK
    <2>4. PassedFlows' = P \cup F /\ P \cap F = {}
        <3>1. \A k \in AllFlows : Passed(k) <=> IpOf[k] < at
            BY <1>1 DEF Passed
        <3>2. \A k \in AllFlows : Passed(k)' <=> IpOf[k] < at \/ IpOf[k] = at
            BY <1>1, <2>1 DEF Passed
        <3>3. \A k \in AllFlows : IpOf[k] = at => ~ (IpOf[k] < at)
            BY <1>1
        <3> QED
            BY <1>2, <2>2, <3>1, <3>2, <3>3 DEF PassedFlows
    <2>5. PICK S \in SUBSET AllFlows :
                   /\ Cardinality(S \cap P) <= tally
                   /\ cmd = "mem" => S = start
                   /\ cmd = "perf" /\ flow0 # None => flow0 <= Cardinality(S)
        BY <1>1, <2>1 DEF CountInv
    <2>6. IsFiniteSet(AllFlows) /\ P \in SUBSET AllFlows /\ F \in SUBSET AllFlows
        BY <2>2 DEF CountInv, PassedFlows
    <2> HIDE DEF P, F
    <2>7. /\ IsFiniteSet(P) /\ IsFiniteSet(F)
          /\ IsFiniteSet(S \cap P) /\ IsFiniteSet(S \cap F)
        <3>1. S \cap P \in SUBSET AllFlows /\ S \cap F \in SUBSET AllFlows
            OBVIOUS
        <3> QED
            BY <2>6, <3>1, FS_Subset
    <2>8. /\ {Cardinality(P), Cardinality(F), Cardinality(S \cap P),
              Cardinality(S \cap F)} \subseteq Nat
          /\ tally \in Nat /\ Cardinality(S \cap F) <= Cardinality(F)
        <3>1. S \cap F \in SUBSET F
            OBVIOUS
        <3>2. tally \in Nat
            BY DEF WalkInv, ShellTypeOK
        <3> QED
            BY <2>7, <3>1, <3>2, FS_CardinalityType, FS_Subset
    <2>9. Cardinality(P \cup F) = Cardinality(P) + Cardinality(F)
        <3>1. Cardinality(P \cup F)
                 = Cardinality(P) + Cardinality(F) - Cardinality(P \cap F)
            BY <2>7, FS_Union
        <3>2. Cardinality(P \cap F) = 0
            BY <2>4, FS_EmptySet
        <3> QED
            BY <2>8, <3>1, <3>2
    <2>10. Cardinality(S \cap (P \cup F))
              = Cardinality(S \cap P) + Cardinality(S \cap F)
        <3>1. /\ S \cap (P \cup F) = (S \cap P) \cup (S \cap F)
              /\ (S \cap P) \cap (S \cap F) = {}
            BY <2>4
        <3>2. Cardinality((S \cap P) \cup (S \cap F))
                 = Cardinality(S \cap P) + Cardinality(S \cap F)
                   - Cardinality((S \cap P) \cap (S \cap F))
            BY <2>7, FS_Union
        <3>3. Cardinality((S \cap P) \cap (S \cap F)) = 0
            BY <3>1, FS_EmptySet
        <3>4. Cardinality((S \cap P) \cup (S \cap F))
                 = Cardinality(S \cap P) + Cardinality(S \cap F)
            BY <2>8, <3>2, <3>3
        <3> QED
            BY <3>1, <3>4, Zenon
    <2>11. tally <= Cardinality(P)
        BY <1>1, <2>1 DEF CountInv, P
    <2>12. /\ tally + Cardinality(F) <= Cardinality(P) + Cardinality(F)
           /\ Cardinality(S \cap P) + Cardinality(S \cap F)
                 <= tally + Cardinality(F)
        BY <2>5, <2>8, <2>11
    <2>13. /\ tally' <= Cardinality(PassedFlows')
           /\ Cardinality(S \cap PassedFlows') <= tally'
        BY <2>1, <2>4, <2>9, <2>10, <2>12
    <2> QED
        BY <1>1, <1>2, <2>1, <2>5, <2>6, <2>13 DEF CountInv
<1> QED
    BY <1>3, <1>4

\* The next user is the next: nothing is passed between the two.
LEMMA NextUserCount ==
    ASSUME IInv, WalkInv, CountInv, NextUser
    PROVE  CountInv'
<1> USE ShellAssumption, TableAssumption
<1>1. /\ UNCHANGED <<vars, cmd, tally, start, flow0>>
      /\ sh = "next" /\ sh' = "user" /\ UserStep(Behind(users, at))
      /\ at \in Ips /\ at \in Nat /\ at # None
    BY DEF NextUser, perfVars, WalkInv, AtInv
<1>2. AllFlows' = AllFlows /\ rough \in BOOLEAN
    BY <1>1, TableStill DEF WalkInv, ShellTypeOK
<1>3. users \in SUBSET Nat /\ users \subseteq Ips
    BY DEF IInv, TypeOK
<1> DEFINE x == Behind(users, at)
<1>4. \/ x = None /\ \A y \in users : y <= at
      \/ x \in users /\ x > at /\ \A y \in users : y <= at \/ x <= y
    BY <1>1, <1>3, BehindIs
<1>5. ~rough' => ~rough /\ at' = x
    BY <1>1, <1>2, <1>4, UserStepTo
<1> HIDE DEF x
<1>6. ASSUME ~rough' PROVE PassedFlows' = PassedFlows
    <2> SUFFICES ASSUME NEW k \in AllFlows PROVE Passed(k)' <=> Passed(k)
        BY <1>2 DEF PassedFlows
    <2>1. IpOf[k] \in users /\ IpOf[k] \in Nat
        BY <1>3, AllFlowsAre
    <2>2. Passed(k) <=> IpOf[k] < at \/ IpOf[k] = at
        BY <1>1 DEF Passed
    <2>3. Passed(k)' <=> at' = None \/ (at' # None /\ IpOf[k] < at')
        BY <1>1 DEF Passed
    <2>4. at' = x
        BY <1>5, <1>6
    <2>5. CASE x = None
        <3>1. IpOf[k] <= at
            BY <1>3, <1>4, <2>1, <2>5
        <3>2. IpOf[k] < at \/ IpOf[k] = at
            BY <1>1, <2>1, <3>1
        <3> QED
            BY <2>2, <2>3, <2>4, <2>5, <3>2
    <2>6. CASE x # None
        <3>1. x \in Nat /\ x > at /\ (IpOf[k] <= at \/ x <= IpOf[k])
            BY <1>3, <1>4, <2>1, <2>6
        <3>2. IpOf[k] < at \/ IpOf[k] = at <=> IpOf[k] < x
            BY <1>1, <2>1, <3>1
        <3> QED
            BY <2>2, <2>3, <2>4, <2>6, <3>2
    <2> QED
        BY <2>5, <2>6
<1>7. ASSUME Counting' PROVE PassedFlows' = PassedFlows /\ Counting
    BY <1>1, <1>5, <1>6, <1>7 DEF Counting
<1> QED
    BY <1>1, <1>2, <1>7 DEF CountInv

\* The commands, and the steps that do not count.
LEMMA CommandCount ==
    ASSUME IInv, WalkInv, CountInv,
           \/ \E t \in Threads : Load(t) \/ Store(t)
           \/ ReadCommand \/ Sample \/ Sleep \/ Done
           \/ PrintFlow \/ NextFlow \/ LastFlow
    PROVE  CountInv'
<1>1. UNCHANGED vars
    BY DEF Load, Store, ReadCommand, Sample, Sleep, Done, PrintFlow, NextFlow,
           LastFlow
<1>2. AllFlows' = AllFlows
    BY <1>1, TableStill DEF WalkInv, ShellTypeOK
<1>3. ASSUME NEW t \in Threads, Load(t) \/ Store(t)
      PROVE  CountInv'
    <2>1. UNCHANGED shellVars
        BY <1>3 DEF Load, Store
    <2>2. PassedFlows' = PassedFlows /\ (Counting' <=> Counting)
        BY <1>2, <2>1
        DEF PassedFlows, Passed, Counting, shellVars, walkVars
    <2> QED
        BY <1>2, <2>1, <2>2 DEF CountInv, shellVars, walkVars, perfVars
<1>4. CASE ReadCommand
    <2>1. /\ flow0' = flow0 /\ flow0 = None
          /\ sh' \notin {"user", "next"}
        BY <1>4 DEF ReadCommand, perfVars, CountInv, Commands
    <2> QED
        BY <1>2, <2>1 DEF CountInv
<1>5. CASE Sample
    <2>1. flow0' = flow0 /\ flow0 = None /\ sh' = "begin"
        BY <1>5 DEF Sample, CountInv
    <2> QED
        BY <1>2, <2>1 DEF CountInv
<1>6. CASE Sleep
    <2>1. /\ sh = "user" /\ sh' = "begin" /\ at = None /\ flow0' = tally
          /\ UNCHANGED <<cmd, rough>>
        BY <1>6 DEF Sleep, walkVars
    <2>2. PassedFlows = AllFlows
        BY <2>1 DEF PassedFlows, Passed
    <2> QED
        BY <1>2, <2>1, <2>2 DEF CountInv, Counting
<1>7. CASE Done
    <2>1. flow0' = None /\ sh' \in {"sample", "prompt"}
        BY <1>7 DEF Done
    <2> QED
        BY <1>2, <2>1 DEF CountInv
<1>8. CASE PrintFlow \/ NextFlow \/ LastFlow
    <2>1. cmd = "flow" /\ cmd' = cmd
        BY <1>8 DEF PrintFlow, NextFlow, LastFlow, WalkInv, AtInv
    <2>2. sh' \notin {"prompt", "sample"}
        BY <1>8 DEF PrintFlow, NextFlow, LastFlow
    <2> QED
        BY <1>2, <2>1, <2>2 DEF CountInv, Counting
<1> QED
    BY <1>3, <1>4, <1>5, <1>6, <1>7, <1>8

\* CountsFlows: what GetFlowNum returns lies between the flows there were when
\* it began and the flows there are when it ends, although every size is read
\* at another time; and of the two sums of perf the second is not the smaller.
THEOREM CountsFlowsHolds == ShellSpec => []CountsFlows
<1>1. ShellInit => CountInv
    BY CountInit
<1>2. /\ IInv /\ WalkInv /\ CountInv
      /\ (IInv /\ WalkInv)' /\ [ShellNext]_allVars
      => CountInv'
    <2> SUFFICES ASSUME IInv, IInv', WalkInv, CountInv, [ShellNext]_allVars
                 PROVE  CountInv'
        OBVIOUS
    <2>1. CASE Lookup \/ UNCHANGED allVars
        <3>1. [Next]_vars /\ UNCHANGED <<statVars, shellVars>>
            BY <2>1 DEF Lookup, allVars
        <3> QED
            BY <3>1, LookupCount
    <2>2. CASE Begin \/ Visit \/ NextUser
        BY <2>2, BeginCount, VisitCount, NextUserCount
    <2>3. CASE \/ \E t \in Threads : Load(t) \/ Store(t)
               \/ ReadCommand \/ Sample \/ Sleep \/ Done
               \/ PrintFlow \/ NextFlow \/ LastFlow
        BY <2>3, CommandCount
    <2> QED
        BY <2>1, <2>2, <2>3 DEF ShellNext, ShellThread
<1>3. IInv /\ WalkInv /\ CountInv => CountsFlows
    <2> SUFFICES ASSUME WalkInv, CountInv, ~rough, Walked
                 PROVE  /\ cmd = "mem" =>
                            tally \in Cardinality(start)..Cardinality(AllFlows)
                        /\ cmd = "perf" /\ flow0 # None => tally >= flow0
        BY DEF CountsFlows
    <2>1. /\ tally \in Nat /\ flow0 \in Nat \cup {None}
          /\ Cardinality(AllFlows) \in Nat
        BY FS_CardinalityType DEF WalkInv, ShellTypeOK, CountInv
    <2>2. PassedFlows = AllFlows
        BY DEF PassedFlows, Passed, Walked
    <2> SUFFICES ASSUME Counting
                 PROVE  /\ cmd = "mem" =>
                            tally \in Cardinality(start)..Cardinality(AllFlows)
                        /\ cmd = "perf" /\ flow0 # None => tally >= flow0
        BY DEF Counting
    <2>3. tally <= Cardinality(AllFlows)
        BY <2>2 DEF CountInv, Walked
    <2>4. PICK S \in SUBSET AllFlows :
               /\ Cardinality(S \cap AllFlows) <= tally
               /\ cmd = "mem" => S = start
               /\ cmd = "perf" /\ flow0 # None => flow0 <= Cardinality(S)
        BY <2>2 DEF CountInv, Walked
    <2>5. S \cap AllFlows = S
        OBVIOUS
    <2>6. Cardinality(S) \in Nat
        BY FS_Subset, FS_CardinalityType DEF CountInv
    <2> QED
        BY <2>1, <2>3, <2>4, <2>5, <2>6, ShellAssumption
<1> QED
    BY <1>1, <1>2, <1>3, WalkInvariance, PTL DEF ShellSpec
=============================================================================
