----------------------------- MODULE Classifier -----------------------------
(* The classifiers of the DPI library: every protocol is a small automaton   *)
(* whose transitions are labelled with pattern ids.  A payload is reduced to *)
(* the set of pattern ids the search found in it (see WmMatch).              *)
EXTENDS Naturals

CONSTANTS
    Cf,         \* ids of the classifiers that own a pattern (2000, 2001, ...)
    Pid,        \* pattern ids (1, 2, ...)
    Table,      \* Table[c] = [port, fin, next]: m_Port and m_StateMap
    CfOf,       \* m_Ptn2Cf: the classifier a pattern belongs to
    UnIdentify  \* CF_UN_IDENTIFY, the verdict of a flow that was given up

NoVerdict == 0  \* m_CfId of a new flow

(* What CfManage::Init establishes.  The two asserts of the engine, RelCf != *)
(* NULL and NxtS != NULL, hold exactly for tables of this shape.             *)
ASSUME ClassifierAssumption ==
    /\ Cf \subseteq Nat \ {NoVerdict, UnIdentify}
    /\ UnIdentify \in Nat \ {NoVerdict}
    /\ Pid \subseteq Nat
    /\ CfOf \in [Pid -> Cf]
    /\ \A c \in Cf :
         /\ Table[c].port \in Nat
         /\ DOMAIN Table[c].next \subseteq Nat
         /\ 0 \in DOMAIN Table[c].next \ Table[c].fin
         /\ Table[c].fin \subseteq DOMAIN Table[c].next
         /\ \A s \in DOMAIN Table[c].next :
              \A p \in DOMAIN Table[c].next[s] :
                 /\ p \in Pid
                 /\ CfOf[p] = c
                 /\ Table[c].next[s][p] \in DOMAIN Table[c].next

Verdict == Cf \cup {UnIdentify}
States(c) == DOMAIN Table[c].next

PortFits(c, port) == Table[c].port \in {0, port}

\* The transitions of state s that the patterns found in a packet enable.
Enabled(c, found, s) == DOMAIN Table[c].next[s] \cap found

(* Classifier::Match: the first enabled entry of the ordered map m_Pid2Sid,  *)
(* that is the one with the least pattern id; a target of 0 is no move.      *)
Target(c, found, s) ==
    LET hits == Enabled(c, found, s)
    IN  IF hits = {} THEN 0
        ELSE Table[c].next[s][CHOOSE p \in hits : \A q \in hits : p <= q]

Step(c, found, s, port) ==
    IF PortFits(c, port) /\ Target(c, found, s) # 0
    THEN Target(c, found, s)
    ELSE s

Finishes(c, found, s, port) ==
    /\ PortFits(c, port)
    /\ Target(c, found, s) # 0
    /\ Target(c, found, s) \in Table[c].fin

\* The classifiers the engine consults for a packet (CfSet in Classify).
Related(found) == {CfOf[p] : p \in found}
=============================================================================
