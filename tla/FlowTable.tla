------------------------------ MODULE FlowTable ------------------------------
(* The two-level table of flows: ClassifyEngine::GetUser finds or creates    *)
(* the user of a packet under the engine's mutex, User::GetFlow the flow     *)
(* under the user's mutex.  Both search with a scratch object (m_Ukey,       *)
(* m_Fkey) that all threads share, and copy it when they create an entry, so *)
(* a key is only good while the mutex is held.                               *)
(*                                                                           *)
(* A user is identified with its address and a flow with its key: the sets   *)
(* hold at most one object per key and never drop one.                       *)
CONSTANTS
    Threads,    \* the analysis thread and the proxy threads
    Ips,        \* addresses of users
    Keys,       \* flow keys
    IpOf,       \* IpOf[k]: the m_SrcIp field of key k
    None,       \* nothing: a free mutex, an unset local or key
    Null        \* the NULL of a failed insertion

ASSUME TableAssumption ==
    /\ IpOf \in [Keys -> Ips]
    /\ None \notin Threads \cup Ips \cup Keys
    /\ Null \notin Ips \cup Keys
    /\ None # Null

VARIABLES
    pc,         \* pc[t]: where thread t is in QueryFlow
    want,       \* want[t]: key of the packet it looks up
    user,       \* user[t]: local Utx / Uctxt
    flow,       \* flow[t]: local Fctx
    uMutex,     \* ClassifyEngine::m_Mutex
    uKey,       \* ClassifyEngine::m_Ukey
    users,      \* ClassifyEngine::m_UserSet
    fMutex,     \* fMutex[u]: User::m_Mutex
    fKey,       \* fKey[u]: User::m_Fkey
    flows       \* flows[u]: User::m_FlowSet

locals == <<want, user, flow>>
userVars == <<uMutex, uKey, users>>
flowVars == <<fMutex, fKey, flows>>
vars == <<pc, locals, userVars, flowVars>>

Init ==
    /\ pc = [t \in Threads |-> "idle"]
    /\ want = [t \in Threads |-> None]
    /\ user = [t \in Threads |-> None]
    /\ flow = [t \in Threads |-> None]
    /\ uMutex = None
    /\ uKey = None
    /\ users = {}
    /\ fMutex = [u \in Ips |-> None]
    /\ fKey = [u \in Ips |-> None]
    /\ flows = [u \in Ips |-> {}]

At(t, label) == pc[t] = label
Goto(t, label) == pc' = [pc EXCEPT ![t] = label]

\* A thread calls QueryFlow for a packet with key k.
Call(t, k) ==
    /\ At(t, "idle")
    /\ want' = [want EXCEPT ![t] = k]
    /\ Goto(t, "ulock")
    /\ UNCHANGED <<user, flow, userVars, flowVars>>

-----------------------------------------------------------------------------
(* GetUser                                                                   *)

\* Mutant: the mutex of the engine is not waited for.
LockUsersFree(t) ==
    /\ At(t, "ulock")
    /\ uMutex' = t
    /\ Goto(t, "ufill")
    /\ UNCHANGED <<locals, uKey, users, flowVars>>

LockUsers(t) ==
    /\ At(t, "ulock")
    /\ uMutex = None
    /\ uMutex' = t
    /\ Goto(t, "ufill")
    /\ UNCHANGED <<locals, uKey, users, flowVars>>

FillUserKey(t) ==
    /\ At(t, "ufill")
    /\ uKey' = IpOf[want[t]]
    /\ Goto(t, "ufind")
    /\ UNCHANGED <<locals, uMutex, users, flowVars>>

FindUser(t) ==
    /\ At(t, "ufind")
    /\ IF uKey \in users
       THEN /\ user' = [user EXCEPT ![t] = uKey]
            /\ Goto(t, "uunlock")
       ELSE /\ Goto(t, "uadd")
            /\ UNCHANGED user
    /\ UNCHANGED <<want, flow, userVars, flowVars>>

\* Mutant: a new user is handed out and not inserted.
AddUserUnlisted(t) ==
    /\ At(t, "uadd")
    /\ user' = [user EXCEPT ![t] = uKey]
    /\ Goto(t, "uunlock")
    /\ UNCHANGED <<want, flow, userVars, flowVars>>

\* AddUser copies the scratch key; inserting a key that is there gives NULL.
AddUser(t) ==
    /\ At(t, "uadd")
    /\ user' = [user EXCEPT ![t] = IF uKey \in users THEN Null ELSE uKey]
    /\ users' = users \cup {uKey}
    /\ Goto(t, "uunlock")
    /\ UNCHANGED <<want, flow, uMutex, uKey, flowVars>>

UnlockUsers(t) ==
    /\ At(t, "uunlock")
    /\ uMutex' = None
    /\ Goto(t, "flock")
    /\ UNCHANGED <<locals, uKey, users, flowVars>>

-----------------------------------------------------------------------------
(* GetFlow                                                                   *)

\* Mutant: the mutex of the user is not waited for.
LockFlowsFree(t) ==
    /\ At(t, "flock")
    /\ user[t] \in Ips
    /\ fMutex' = [fMutex EXCEPT ![user[t]] = t]
    /\ Goto(t, "ffill")
    /\ UNCHANGED <<locals, userVars, fKey, flows>>

LockFlows(t) ==
    /\ At(t, "flock")
    /\ user[t] \in Ips          \* assert (Uctxt != NULL)
    /\ fMutex[user[t]] = None
    /\ fMutex' = [fMutex EXCEPT ![user[t]] = t]
    /\ Goto(t, "ffill")
    /\ UNCHANGED <<locals, userVars, fKey, flows>>

FillFlowKey(t) ==
    /\ At(t, "ffill")
    /\ fKey' = [fKey EXCEPT ![user[t]] = want[t]]
    /\ Goto(t, "ffind")
    /\ UNCHANGED <<locals, userVars, fMutex, flows>>

FindFlow(t) ==
    /\ At(t, "ffind")
    /\ IF fKey[user[t]] \in flows[user[t]]
       THEN /\ flow' = [flow EXCEPT ![t] = fKey[user[t]]]
            /\ Goto(t, "funlock")
       ELSE /\ Goto(t, "fadd")
            /\ UNCHANGED flow
    /\ UNCHANGED <<want, user, userVars, flowVars>>

AddFlow(t) ==
    LET u == user[t]
    IN  /\ At(t, "fadd")
        /\ flow' = [flow EXCEPT ![t] =
                       IF fKey[u] \in flows[u] THEN Null ELSE fKey[u]]
        /\ flows' = [flows EXCEPT ![u] = @ \cup {fKey[u]}]
        /\ Goto(t, "funlock")
        /\ UNCHANGED <<want, user, userVars, fMutex, fKey>>

UnlockFlows(t) ==
    /\ At(t, "funlock")
    /\ fMutex' = [fMutex EXCEPT ![user[t]] = None]
    /\ Goto(t, "return")
    /\ UNCHANGED <<locals, userVars, fKey, flows>>

\* QueryFlow returns to its caller, whose locals are gone at the next call.
Return(t) ==
    /\ At(t, "return")
    /\ want' = [want EXCEPT ![t] = None]
    /\ user' = [user EXCEPT ![t] = None]
    /\ flow' = [flow EXCEPT ![t] = None]
    /\ Goto(t, "idle")
    /\ UNCHANGED <<userVars, flowVars>>

-----------------------------------------------------------------------------
Next ==
    \E t \in Threads :
        \/ \E k \in Keys : Call(t, k)
        \/ LockUsers(t) \/ FillUserKey(t) \/ FindUser(t) \/ AddUser(t)
        \/ UnlockUsers(t)
        \/ LockFlows(t) \/ FillFlowKey(t) \/ FindFlow(t) \/ AddFlow(t)
        \/ UnlockFlows(t) \/ Return(t)

Spec == Init /\ [][Next]_vars

-----------------------------------------------------------------------------
(* Properties.                                                               *)

Labels == {"idle", "ulock", "ufill", "ufind", "uadd", "uunlock",
           "flock", "ffill", "ffind", "fadd", "funlock", "return"}

\* The type of every variable.
TypeOK ==
    /\ pc \in [Threads -> Labels]
    /\ want \in [Threads -> Keys \cup {None}]
    /\ user \in [Threads -> Ips \cup {None, Null}]
    /\ flow \in [Threads -> Keys \cup {None, Null}]
    /\ uMutex \in Threads \cup {None}
    /\ uKey \in Ips \cup {None}
    /\ users \subseteq Ips
    /\ fMutex \in [Ips -> Threads \cup {None}]
    /\ fKey \in [Ips -> Keys \cup {None}]
    /\ flows \in [Ips -> SUBSET Keys]

\* What a lookup hands out is the user and the flow of the packet it was
\* called for, whatever other threads did to the shared scratch keys: packets
\* are never counted on, nor classified by, somebody else's flow, and the
\* asserts on NULL in QueryFlow never fire.
RightContext ==
    \A t \in Threads :
        /\ user[t] # None => user[t] = IpOf[want[t]]
        /\ flow[t] # None => flow[t] = want[t]

\* A flow sits in the set of its own user and in no other, and a user with
\* flows is in the set of users: walking the users visits every flow once.
FlowsUnderTheirUser ==
    \A u \in Ips : \A k \in flows[u] : IpOf[k] = u /\ u \in users

R == INSTANCE FlowRegistry WITH
        registered <- UNION {flows[u] : u \in Ips},
        have <- flow

\* The two-level table with its locks behaves as one atomic find-or-create.
ImplementsRegistry == R!Spec
=============================================================================
