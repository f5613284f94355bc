----------------------------- MODULE FlowVerdict -----------------------------
(* What the DPI daemon promises its clients: every flow has one verdict,     *)
(* which is absent at first, is decided at most once and never changes; an   *)
(* answer is the verdict the flow had at some moment between the request and *)
(* the answer.  Requests that belong to no flow are answered "no verdict".   *)
EXTENDS Naturals

CONSTANTS
    Conns,      \* client connections
    Flows,      \* flows the clients ask about
    NoFlow,     \* the packet is not IPv4, not TCP/UDP, or of no known user
    Verdict     \* the verdicts a flow may get

NoVerdict == 0

VARIABLES
    verdict,    \* verdict[f]: the verdict of flow f, or NoVerdict
    stage,      \* stage[c]: where the current request of connection c stands
    about,      \* about[c]: the flow the current request is about
    answer      \* answer[c]: the answer chosen for it

vars == <<verdict, stage, about, answer>>

Init ==
    /\ verdict = [f \in Flows |-> NoVerdict]
    /\ stage = [c \in Conns |-> "idle"]
    /\ about = [c \in Conns |-> NoFlow]
    /\ answer = [c \in Conns |-> NoVerdict]

Ask(c, f) ==
    /\ stage[c] = "idle"
    /\ stage' = [stage EXCEPT ![c] = "asked"]
    /\ about' = [about EXCEPT ![c] = f]
    /\ UNCHANGED <<verdict, answer>>

\* The moment the answer is chosen: it is what the flow's verdict is now.
Look(c) ==
    /\ stage[c] = "asked"
    /\ stage' = [stage EXCEPT ![c] = "looked"]
    /\ answer' = [answer EXCEPT ![c] =
                     IF about[c] = NoFlow THEN NoVerdict ELSE verdict[about[c]]]
    /\ UNCHANGED <<verdict, about>>

Tell(c) ==
    /\ stage[c] = "looked"
    /\ stage' = [stage EXCEPT ![c] = "idle"]
    /\ about' = [about EXCEPT ![c] = NoFlow]
    /\ answer' = [answer EXCEPT ![c] = NoVerdict]
    /\ UNCHANGED verdict

\* The connection breaks, before or after its request was looked at.
Leave(c) ==
    /\ stage[c] # "gone"
    /\ stage' = [stage EXCEPT ![c] = "gone"]
    /\ about' = [about EXCEPT ![c] = NoFlow]
    /\ answer' = [answer EXCEPT ![c] = NoVerdict]
    /\ UNCHANGED verdict

Decide(f, v) ==
    /\ verdict[f] = NoVerdict
    /\ verdict' = [verdict EXCEPT ![f] = v]
    /\ UNCHANGED <<stage, about, answer>>

Next ==
    \/ \E c \in Conns :
         \/ \E f \in Flows \cup {NoFlow} : Ask(c, f)
         \/ Look(c)
         \/ Tell(c)
         \/ Leave(c)
    \/ \E f \in Flows, v \in Verdict : Decide(f, v)

Spec == Init /\ [][Next]_vars
=============================================================================
