---------------------------- MODULE MCController ----------------------------
(* Two hosts, a TCP flow that is a video, a UDP flow the other way, and the  *)
(* packets of LLDP; Layer 4 configurations of several sizes and a content    *)
(* one.                                                                      *)
EXTENDS Controller

CONSTANTS s1, s2, tcp12, udp21, lldp

MCSrc == [f \in Flows |-> IF f = udp21 THEN "h2" ELSE "h1"]
MCDst == [f \in Flows |-> IF f = udp21 THEN "h1" ELSE "h2"]

MCMembers == [TCP |-> {tcp12}, UDP |-> {udp21} \cap Flows, video |-> {tcp12}]
MCContent == [f \in Flows |-> IF f = tcp12 THEN "video" ELSE "UnIdentify"]

Layer4(classes) == [mode |-> 1, classes |-> classes]
ContentMode(classes) == [mode |-> 3, classes |-> classes]

SmallConfigs == {Layer4(<<>>), Layer4(<<"TCP">>)}
LayerConfigs == {Layer4(<<"UDP">>), Layer4(<<"TCP", "UDP">>)}
MixedConfigs == SmallConfigs \cup {ContentMode(<<"video">>)}

\* Two switches in Layer 4 mode, without LLDP or the daemon; there is no second
\* packet after a reset that failed ...
BothSwitches ==
    /\ ~daemon /\ sock = "none"
    /\ sent <= 1 \/ \A s \in Switches : trouble[s] = "none"
    /\ file.conf \in SmallConfigs /\ mem.mode = 1
    /\ \A i \in DOMAIN inbox : inbox[i].kind = Features \/ inbox[i].flow # lldp

\* ... or the one that may fail, in any mode, while monitor.py sleeps.
OneSwitch == attached \subseteq {s2} /\ file.conf # Layer4(<<>>) /\ monSeen = 0

Scenario == BothSwitches \/ OneSwitch
=============================================================================
