--------------------------- MODULE FlowTableProofs ---------------------------
(* The lookup of a flow is atomic and returns the right flow, for any number *)
(* of threads, users and flows.  The argument: a scratch key belongs to the  *)
(* holder of the mutex from the moment it fills it, and what the holder found*)
(* absent stays absent until it inserts.                                     *)
EXTENDS FlowTable, TLAPS

InUser(t) == pc[t] \in {"ufill", "ufind", "uadd", "uunlock"}
InFlow(t) == pc[t] \in {"ffill", "ffind", "fadd", "funlock"}

\* Each mutex is held by exactly the thread inside its critical section.
MutexInv ==
    /\ \A t \in Threads : InUser(t) <=> uMutex = t
    /\ \A t \in Threads, u \in Ips :
          InFlow(t) /\ user[t] = u <=> fMutex[u] = t

\* The scratch keys are the holder's, and a missing entry is still missing.
KeyInv ==
    \A t \in Threads :
        /\ pc[t] \in {"ufind", "uadd"} => uKey = IpOf[want[t]]
        /\ pc[t] = "uadd" => uKey \notin users
        /\ pc[t] \in {"ffind", "fadd"} => fKey[user[t]] = want[t]
        /\ pc[t] = "fadd" => want[t] \notin flows[user[t]]

\* What the locals of a thread hold at each point of the lookup.
LocalInv ==
    \A t \in Threads :
        /\ want[t] = None <=> pc[t] = "idle"
        /\ IF InFlow(t) \/ pc[t] \in {"uunlock", "flock", "return"}
           THEN user[t] = IpOf[want[t]] /\ user[t] \in users
           ELSE user[t] = None
        /\ flow[t] = IF pc[t] \in {"funlock", "return"} THEN want[t] ELSE None

IInv == TypeOK /\ MutexInv /\ KeyInv /\ LocalInv /\ FlowsUnderTheirUser

LEMMA InitInv == Init => IInv
BY TableAssumption
   DEF Init, IInv, TypeOK, Labels, MutexInv, KeyInv, LocalInv, InUser, InFlow,
       FlowsUnderTheirUser

\* One step of the lookup keeps the invariant, action by action.
LEMMA NextInv == IInv /\ [Next]_vars => IInv'
<1> SUFFICES ASSUME IInv, [Next]_vars PROVE IInv'
    OBVIOUS
<1> USE TableAssumption DEF IInv, TypeOK, Labels, InUser, InFlow, At, Goto
<1>1. ASSUME NEW t \in Threads, NEW k \in Keys, Call(t, k) PROVE IInv'
    BY <1>1 DEF Call, userVars, flowVars, MutexInv, KeyInv, LocalInv,
                FlowsUnderTheirUser
<1>2. ASSUME NEW t \in Threads, LockUsers(t) PROVE IInv'
    BY <1>2 DEF LockUsers, locals, flowVars, MutexInv, KeyInv, LocalInv,
                FlowsUnderTheirUser
<1>3. ASSUME NEW t \in Threads, FillUserKey(t) PROVE IInv'
    BY <1>3 DEF FillUserKey, locals, flowVars, MutexInv, KeyInv, LocalInv,
                FlowsUnderTheirUser
<1>4. ASSUME NEW t \in Threads, FindUser(t) PROVE IInv'
    <2> USE <1>4 DEF FindUser, userVars, flowVars
    <2>1. TypeOK'
        OBVIOUS
    <2>2. MutexInv'
        BY DEF MutexInv
    <2>3. KeyInv'
        BY DEF KeyInv, MutexInv
    <2>4. LocalInv'
        <3>1. uKey = IpOf[want[t]] /\ user[t] = None
            BY DEF KeyInv, LocalInv
        <3> QED
            BY <3>1 DEF LocalInv
    <2>5. FlowsUnderTheirUser'
        BY DEF FlowsUnderTheirUser
    <2> QED
        BY <2>1, <2>2, <2>3, <2>4, <2>5
<1>5. ASSUME NEW t \in Threads, AddUser(t) PROVE IInv'
    BY <1>5 DEF AddUser, flowVars, MutexInv, KeyInv, LocalInv,
                FlowsUnderTheirUser
<1>6. ASSUME NEW t \in Threads, UnlockUsers(t) PROVE IInv'
    BY <1>6 DEF UnlockUsers, locals, flowVars, MutexInv, KeyInv, LocalInv,
                FlowsUnderTheirUser
<1>7. ASSUME NEW t \in Threads, LockFlows(t) PROVE IInv'
    BY <1>7 DEF LockFlows, locals, userVars, MutexInv, KeyInv, LocalInv,
                FlowsUnderTheirUser
<1>8. ASSUME NEW t \in Threads, FillFlowKey(t) PROVE IInv'
    BY <1>8 DEF FillFlowKey, locals, userVars, MutexInv, KeyInv, LocalInv,
                FlowsUnderTheirUser
<1>9. ASSUME NEW t \in Threads, FindFlow(t) PROVE IInv'
    BY <1>9 DEF FindFlow, userVars, flowVars, MutexInv, KeyInv, LocalInv,
                FlowsUnderTheirUser
<1>10. ASSUME NEW t \in Threads, AddFlow(t) PROVE IInv'
    BY <1>10 DEF AddFlow, userVars, MutexInv, KeyInv, LocalInv,
                 FlowsUnderTheirUser
<1>11. ASSUME NEW t \in Threads, UnlockFlows(t) PROVE IInv'
    BY <1>11 DEF UnlockFlows, locals, userVars, MutexInv, KeyInv, LocalInv,
                 FlowsUnderTheirUser
<1>12. ASSUME NEW t \in Threads, Return(t) PROVE IInv'
    BY <1>12 DEF Return, userVars, flowVars, MutexInv, KeyInv, LocalInv,
                 FlowsUnderTheirUser
<1>13. ASSUME UNCHANGED vars PROVE IInv'
    BY <1>13 DEF vars, locals, userVars, flowVars, MutexInv, KeyInv, LocalInv,
                 FlowsUnderTheirUser
<1> QED
    BY <1>1, <1>2, <1>3, <1>4, <1>5, <1>6, <1>7, <1>8, <1>9, <1>10, <1>11,
       <1>12, <1>13 DEF Next

\* The strengthened invariant holds in every reachable state.
THEOREM Invariance == Spec => []IInv
<1>1. Init => IInv
    BY InitInv
<1>2. IInv /\ [Next]_vars => IInv'
    BY NextInv
<1> QED
    BY <1>1, <1>2, PTL DEF Spec

\* QueryFlow hands out the user and the flow of the packet it was called for,
\* never the NULL of a failed insertion.
THEOREM RightContextHolds == Spec => []RightContext
<1>1. IInv => RightContext
    BY TableAssumption DEF IInv, LocalInv, RightContext, TypeOK, InFlow
<1> QED
    BY <1>1, Invariance, PTL

\* A flow sits in the set of its own user, and only there.
THEOREM FlowsUnderTheirUserHolds == Spec => []FlowsUnderTheirUser
<1>1. IInv => FlowsUnderTheirUser
    BY DEF IInv
<1> QED
    BY <1>1, Invariance, PTL

-----------------------------------------------------------------------------
(* Refinement: inserting, or finding, is the step FindOrCreate.              *)

Registered == UNION {flows[u] : u \in Ips}

LEMMA RefinesInit == Init => R!Init
BY DEF Init, R!Init

LEMMA RefinesNext ==
    ASSUME IInv, [Next]_vars
    PROVE  [R!Next]_(R!vars)
<1> USE TableAssumption DEF IInv, TypeOK, Labels, At, Goto, R!Next, R!vars
<1>1. ASSUME NEW t \in Threads, NEW k \in Keys, Call(t, k)
      PROVE  R!Next
    <2>1. want[t] = None
        BY <1>1 DEF Call, LocalInv
    <2>2. R!Call(t, k)
        BY <1>1, <2>1 DEF Call, flowVars, R!Call
    <2> QED
        BY <2>2
<1>2. ASSUME NEW t \in Threads, FindFlow(t) PROVE [R!Next]_(R!vars)
    <2> USE <1>2 DEF FindFlow, flowVars
    <2>1. /\ user[t] \in Ips /\ fKey[user[t]] = want[t]
          /\ want[t] \in Keys /\ flow[t] = None
        BY DEF LocalInv, KeyInv, InFlow
    <2>2. CASE want[t] \in flows[user[t]]
        <3>1. Registered' = Registered \cup {want[t]}
            BY <2>1, <2>2 DEF Registered
        <3>2. flow' = [flow EXCEPT ![t] = want[t]] /\ UNCHANGED want
            BY <2>1, <2>2
        <3> QED
            BY <2>1, <3>1, <3>2 DEF R!FindOrCreate, Registered
    <2>3. CASE want[t] \notin flows[user[t]]
        BY <2>1, <2>3
    <2> QED
        BY <2>2, <2>3
<1>3. ASSUME NEW t \in Threads, AddFlow(t) PROVE R!Next
    <2> USE <1>3 DEF AddFlow
    <2>1. /\ user[t] \in Ips /\ fKey[user[t]] = want[t]
          /\ want[t] \in Keys /\ flow[t] = None
          /\ want[t] \notin flows[user[t]]
        BY DEF LocalInv, KeyInv, InFlow
    <2>2. Registered' = Registered \cup {want[t]}
        BY <2>1 DEF Registered
    <2>3. flow' = [flow EXCEPT ![t] = want[t]] /\ UNCHANGED want
        BY <2>1
    <2> QED
        BY <2>1, <2>2, <2>3 DEF R!FindOrCreate, Registered
<1>4. ASSUME NEW t \in Threads, Return(t) PROVE R!Next
    <2>1. flow[t] # None
        BY <1>4 DEF Return, LocalInv
    <2>2. R!Return(t)
        BY <1>4, <2>1 DEF Return, flowVars, R!Return
    <2> QED
        BY <2>2
<1>5. ASSUME UNCHANGED <<want, flow, flows>> PROVE [R!Next]_(R!vars)
    BY <1>5
<1>6. ASSUME NEW t \in Threads,
             \/ LockUsers(t) \/ FillUserKey(t) \/ FindUser(t) \/ AddUser(t)
             \/ UnlockUsers(t) \/ LockFlows(t) \/ FillFlowKey(t)
             \/ UnlockFlows(t)
      PROVE  UNCHANGED <<want, flow, flows>>
    BY <1>6 DEF LockUsers, FillUserKey, FindUser, AddUser, UnlockUsers,
                LockFlows, FillFlowKey, UnlockFlows, locals, flowVars
<1>7. ASSUME UNCHANGED vars PROVE UNCHANGED <<want, flow, flows>>
    BY <1>7 DEF vars, locals, flowVars
<1> QED
    BY <1>1, <1>2, <1>3, <1>4, <1>5, <1>6, <1>7 DEF Next

\* The table with its two locks and shared scratch keys implements the atomic
\* find-or-create of FlowRegistry.
THEOREM Refinement == Spec => ImplementsRegistry
<1>1. Init => R!Init
    BY RefinesInit
<1>2. IInv /\ [Next]_vars => [R!Next]_(R!vars)
    BY RefinesNext
<1> QED
    BY <1>1, <1>2, Invariance, PTL DEF Spec, ImplementsRegistry, R!Spec
=============================================================================
