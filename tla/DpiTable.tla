------------------------------ MODULE DpiTable ------------------------------
(* DpiDaemon with the classifiers the repository configures, for any         *)
(* connections, flows, ports and number of packets.                          *)
EXTENDS DpiDaemon, CfConfig

\* What CfManage::Init leaves behind.
Configured ==
    /\ Cf = ConfigCf /\ Pid = ConfigPid
    /\ Table = ConfigTable /\ CfOf = ConfigCfOf
    /\ UnIdentify = CF_UN_IDENTIFY

\* Patterns that are the label of a transition into a final state from the
\* initial state, on a flow to the classifier's port.
Telling(p, f) ==
    LET c == CfOf[p]
    IN  /\ PortFits(c, Port[f])
        /\ p \in DOMAIN Table[c].next[0]
        /\ c # 2008     \* OneNote needs both of its patterns in this order

\* No pattern of the table is dead: a packet with a pattern of a one-packet
\* protocol, on the port of the protocol, identifies the flow at once.
EveryPatternCounts ==
    \A f \in Flows : \A k \in DOMAIN fed[f] : \A p \in fed[f][k] :
        Telling(p, f) => k = Len(fed[f]) /\ cfId[f] \in Cf

\* OneNote: the two patterns identify a flow in this order only, and not when
\* both are in one packet.
OneNoteNeedsTwo ==
    \A f \in Flows :
        cfId[f] = 2008 =>
            \E i, k \in DOMAIN fed[f] :
                i < k /\ 14 \in fed[f][i] /\ 15 \in fed[f][k]
=============================================================================
