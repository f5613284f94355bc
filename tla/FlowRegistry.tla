----------------------------- MODULE FlowRegistry -----------------------------
(* QueryFlow as its callers see it: in one step the flow of the packet is    *)
(* found, or created if nobody asked for it before, and returned.            *)
CONSTANTS
    Threads,    \* callers of QueryFlow: the analysis thread and the proxies
    Keys,       \* flow keys: user, peer, ports and protocol of a packet
    None        \* no key

VARIABLES
    registered, \* flows that exist
    want,       \* want[t]: the key thread t looks for
    have        \* have[t]: the flow it was given

vars == <<registered, want, have>>

Init ==
    /\ registered = {}
    /\ want = [t \in Threads |-> None]
    /\ have = [t \in Threads |-> None]

Call(t, k) ==
    /\ want[t] = None
    /\ want' = [want EXCEPT ![t] = k]
    /\ UNCHANGED <<registered, have>>

FindOrCreate(t) ==
    /\ want[t] # None
    /\ have[t] = None
    /\ have' = [have EXCEPT ![t] = want[t]]
    /\ registered' = registered \cup {want[t]}
    /\ UNCHANGED want

Return(t) ==
    /\ have[t] # None
    /\ want' = [want EXCEPT ![t] = None]
    /\ have' = [have EXCEPT ![t] = None]
    /\ UNCHANGED registered

Next == \E t \in Threads : (\E k \in Keys : Call(t, k)) \/ FindOrCreate(t) \/ Return(t)

Spec == Init /\ [][Next]_vars
=============================================================================
