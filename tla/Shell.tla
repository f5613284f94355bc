-------------------------------- MODULE Shell --------------------------------
(* The debug shell of dpiDeamon and the statistics it reads.  Its commands   *)
(* walk the sets of users and flows and read the totals without the mutexes  *)
(* of FlowTable, while the threads go on looking up flows and counting.      *)
(*                                                                           *)
(* A set is a tree in key order; a walk stands at an element and goes to the *)
(* least greater one, None is its end.  While a thread inserts, the tree may *)
(* be in rotation: a step of the walk then leads to any element or the end.  *)
(* m_PacketNum++ is a load and a store; m_Traffic is counted likewise and    *)
(* left out, as are the columns of the listings.                             *)
EXTENDS FlowTable, Naturals, FiniteSets

CONSTANTS
    MaxPkts     \* bound: packets counted

ASSUME ShellAssumption ==
    /\ Ips \subseteq Nat /\ Keys \subseteq Nat /\ None \notin Nat
    /\ MaxPkts \in Nat

VARIABLES
    reg,        \* reg[t]: m_PacketNum as t has loaded it, None otherwise
    pktNum,     \* ClassifyEngine::m_PacketNum, from whatever it began with
    begun,      \* increments begun (bounded by MaxPkts)
    sh,         \* where the shell thread is
    cmd,        \* its local Comand
    at, fat,    \* the user and the flow its iterators point to
    tally,      \* local FlowNum of GetFlowNum
    num0, flow0,\* locals PktNum and FlowNUm of Perf::Execute
    shown,      \* flows that the command has printed
    start,      \* history: flows that existed when the walk of flow or mem began
    rough,      \* history: a step of the walk met a tree in rotation
    stale       \* history: an increment was under way when num0 was read

statVars == <<reg, pktNum, begun>>
walkVars == <<at, fat, tally, shown, start, rough>>
perfVars == <<num0, flow0, stale>>
shellVars == <<sh, cmd, walkVars, perfVars>>
allVars == <<vars, statVars, shellVars>>

\* "other" stands for ps, queue, ?, iptable and what is no command.
Commands == {"flow", "user", "mem", "perf", "other"}

ShellInit ==
    /\ Init
    /\ reg = [t \in Threads |-> None] /\ pktNum = 0 /\ begun = 0
    /\ sh = "prompt" /\ cmd = "other"
    /\ at = None /\ fat = None /\ tally = 0
    /\ num0 = 0 /\ flow0 = None /\ stale = FALSE
    /\ shown = {} /\ start = {} /\ rough = FALSE

-----------------------------------------------------------------------------
(* The threads that count.                                                   *)

\* Classify, or UpdateStatistic of a proxy, before or after the flow is looked
\* up: the value is loaded ...
Load(t) ==
    /\ users = {} /\ \A u \in Threads : At(u, "idle")     \* bound, see Lookup
    /\ reg[t] = None
    /\ begun < MaxPkts
    /\ reg' = [reg EXCEPT ![t] = pktNum]
    /\ begun' = begun + 1
    /\ UNCHANGED <<vars, pktNum, shellVars>>

\* Mutant: the counter is too narrow.
StoreNarrow(t) ==
    /\ reg[t] # None
    /\ pktNum' = (reg[t] + 1) % 2
    /\ reg' = [reg EXCEPT ![t] = None]
    /\ UNCHANGED <<vars, begun, shellVars>>

\* ... and one more is stored, whatever others stored meanwhile.
Store(t) ==
    /\ reg[t] # None
    /\ pktNum' = reg[t] + 1
    /\ reg' = [reg EXCEPT ![t] = None]
    /\ UNCHANGED <<vars, begun, shellVars>>

\* Bound: a behaviour follows either the totals or the table, which have no
\* variable in common.
Lookup ==
    /\ Next
    /\ begun = 0
    /\ UNCHANGED <<statVars, shellVars>>

-----------------------------------------------------------------------------
(* Walks.                                                                    *)

Least(S) == IF S = {} THEN None ELSE CHOOSE x \in S : \A y \in S : x <= y

\* Mutant: the iterator does not leave its element.
BehindOrAt(S, x) == Least({y \in S : y >= x})

Behind(S, x) == Least({y \in S : y > x})

\* Elements that threads are inserting into the set of users, or of u's flows.
UsersComing == {uKey : t \in {t \in Threads : At(t, "uadd")}}
FlowsComing(u) ==
    {fKey[u] : t \in {t \in Threads : At(t, "fadd") /\ user[t] = u}}

\* Where an iterator may end up that should go to x: S is the set it walks.
Reach(x, S, coming) == IF coming = {} THEN {x} ELSE S \cup coming \cup {None}

UserStep(x) ==
    /\ at' \in Reach(x, users, UsersComing)
    /\ rough' = (rough \/ UsersComing # {})

FlowStep(x) ==
    /\ fat' \in Reach(x, flows[at], FlowsComing(at))
    /\ rough' = (rough \/ FlowsComing(at) # {})

AllFlows == UNION {flows[u] : u \in users}

\* Every walk begins at the first user.
Begin ==
    /\ sh = "begin"
    /\ UserStep(Least(users))
    /\ tally' = 0 /\ shown' = {} /\ start' = IF cmd = "perf" THEN {} ELSE AllFlows
    /\ sh' = "user"
    /\ UNCHANGED <<vars, statVars, cmd, fat, perfVars>>

\* Mutant: users are counted for flows.
VisitUsers ==
    /\ sh = "user" /\ at # None
    /\ IF cmd = "flow"
       THEN FlowStep(Least(flows[at])) /\ sh' = "flow" /\ UNCHANGED tally
       ELSE /\ tally' = IF cmd = "user" \/ rough THEN tally ELSE tally + 1
            /\ sh' = "next"
            /\ UNCHANGED <<fat, rough>>
    /\ UNCHANGED <<vars, statVars, cmd, at, shown, start, perfVars>>

\* FlowPrint enters the set of a user, UserPrint prints (a part of a pointer
\* to it), GetFlowNum adds its size.  A sum over a tree in rotation may be
\* anything and is followed no further.
Visit ==
    /\ sh = "user" /\ at # None
    /\ IF cmd = "flow"
       THEN FlowStep(Least(flows[at])) /\ sh' = "flow" /\ UNCHANGED tally
       ELSE /\ tally' = IF cmd = "user" \/ rough THEN tally
                        ELSE tally + Cardinality(flows[at])
            /\ sh' = "next"
            /\ UNCHANGED <<fat, rough>>
    /\ UNCHANGED <<vars, statVars, cmd, at, shown, start, perfVars>>

NextUser ==
    /\ sh = "next"
    /\ UserStep(Behind(users, at))
    /\ sh' = "user"
    /\ UNCHANGED <<vars, statVars, cmd, fat, tally, shown, start, perfVars>>

PrintFlow ==
    /\ sh = "flow" /\ fat # None
    /\ shown' = shown \cup {fat}
    /\ sh' = "fnext"
    /\ UNCHANGED <<vars, statVars, cmd, at, fat, tally, start, rough, perfVars>>

NextFlow ==
    /\ sh = "fnext"
    /\ FlowStep(Behind(flows[at], fat))
    /\ sh' = "flow"
    /\ UNCHANGED <<vars, statVars, cmd, at, tally, shown, start, perfVars>>

LastFlow ==
    /\ sh = "flow" /\ fat = None
    /\ sh' = "next"
    /\ UNCHANGED <<vars, statVars, cmd, walkVars, perfVars>>

-----------------------------------------------------------------------------
(* Commands.                                                                 *)

\* At the end of its input cin leaves Comand as it was: the last command is
\* executed for ever, which is among the choices here.
ReadCommand ==
    /\ sh = "prompt"
    /\ cmd' \in Commands
    /\ sh' = CASE cmd' = "perf" -> "sample"
               [] cmd' = "other" -> "prompt"
               [] OTHER -> "begin"
    /\ UNCHANGED <<vars, statVars, walkVars, perfVars>>

\* One round of perf: the packets and the flows so far ...
Sample ==
    /\ sh = "sample"
    /\ num0' = pktNum
    /\ stale' = (\E t \in Threads : reg[t] # None)
    /\ sh' = "begin"
    /\ UNCHANGED <<vars, statVars, cmd, walkVars, flow0>>

\* ... and, five seconds later, again.
Sleep ==
    /\ sh = "user" /\ at = None
    /\ cmd = "perf" /\ flow0 = None
    /\ flow0' = tally
    /\ sh' = "begin"
    /\ UNCHANGED <<vars, statVars, cmd, walkVars, num0, stale>>

\* A command is done, or a round of perf, which begins 300 of them.
Done ==
    /\ sh = "user" /\ at = None
    /\ cmd = "perf" => flow0 # None
    /\ sh' \in IF cmd = "perf" THEN {"sample", "prompt"} ELSE {"prompt"}
    /\ tally' = 0 /\ shown' = {} /\ start' = {} /\ rough' = FALSE
    /\ num0' = 0 /\ flow0' = None /\ stale' = FALSE
    /\ UNCHANGED <<vars, statVars, cmd, at, fat>>

ShellThread ==
    \/ ReadCommand \/ Sample \/ Sleep \/ Done
    \/ Begin \/ Visit \/ NextUser \/ PrintFlow \/ NextFlow \/ LastFlow

ShellNext == Lookup \/ (\E t \in Threads : Load(t) \/ Store(t)) \/ ShellThread

ShellSpec == ShellInit /\ [][ShellNext]_allVars

-----------------------------------------------------------------------------
(* Properties.                                                               *)

\* The type of every variable.
ShellTypeOK ==
    /\ TypeOK
    /\ reg \in [Threads -> Nat \cup {None}]
    /\ pktNum \in Nat /\ begun \in Nat /\ num0 \in Nat /\ tally \in Nat
    /\ sh \in {"prompt", "sample", "begin", "user", "flow", "fnext", "next"}
    /\ cmd \in Commands
    /\ at \in Ips \cup {None} /\ fat \in Keys \cup {None}
    /\ flow0 \in Nat \cup {None}
    /\ shown \subseteq Keys /\ start \subseteq Keys
    /\ {rough, stale} \subseteq BOOLEAN

Walked == sh = "user" /\ at = None

\* The flow command prints flows that exist, whatever the threads insert under
\* its feet.  Unless it met a tree in rotation it prints none twice, and
\* leaves out none that existed when it began.
ListsFlows ==
    /\ shown \subseteq AllFlows \cup UNION {FlowsComing(u) : u \in Ips}
    /\ ~rough /\ sh = "flow" /\ fat # None => fat \notin shown
    /\ ~rough /\ cmd = "flow" /\ Walked => start \subseteq shown

\* GetFlowNum, which adds up sizes read at different times, returns a number
\* between the flows when it began and the flows when it ends, so that perf
\* sees them grow, unless a user was inserted in between: then a user may be
\* counted twice or not at all.
CountsFlows ==
    ~rough /\ Walked =>
        /\ cmd = "mem" => tally \in Cardinality(start)..Cardinality(AllFlows)
        /\ cmd = "perf" /\ flow0 # None => tally >= flow0

\* Increments of the totals are lost, and m_PacketNum may go back; but no lost
\* update ever adds packets, and the difference that perf prints does not wrap
\* below zero, unless a thread had loaded m_PacketNum before the first look
\* and stores it after.
RatesHold ==
    /\ pktNum + Cardinality({t \in Threads : reg[t] # None}) <= begun
    /\ cmd = "perf" /\ sh \notin {"prompt", "sample"} /\ ~stale => pktNum >= num0
=============================================================================
