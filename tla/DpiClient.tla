------------------------------ MODULE DpiClient ------------------------------
(* What the clients of dpiDeamon ask it about, over the byte stream of       *)
(* ContentPath: the controller in content mode, and dpiClient with a device  *)
(* (-d), with a capture file (-f), and with a file that it sends again and   *)
(* again under other addresses (-x, perf) so that every round makes flows    *)
(* the daemon has not seen.                                                  *)
(*                                                                           *)
(* A packet is its two addresses and its length; addresses are numbers in    *)
(* network byte order, as PerfTest writes them.                              *)
EXTENDS ContentPath, FiniteSets

CONSTANTS
    IpSet,      \* ip.properties, the same for the client and the daemon
    Files,      \* capture files: sequences of frames
    Live,       \* lengths of the frames that a device may deliver
    UIps,       \* values of the option -a, 0 without it
    MAX_PKT_NUM, PKT_LEN, ETH_HEADER_LEN,
    MinCap,     \* ETH_HEADER_LEN + 28
    MaxRound    \* bound: rounds of PerfTest

ASSUME ClientAssumption ==
    /\ IpSet \subseteq Nat \ {0} /\ UIps \subseteq Nat
    /\ {MAX_PKT_NUM, PKT_LEN, ETH_HEADER_LEN, MaxRound} \subseteq Nat \ {0}
    /\ PKT_LEN <= Buf                       \* both are 1500
    /\ MinCap \in Nat /\ MinCap > ETH_HEADER_LEN
    /\ Live \subseteq Nat
    /\ \A file \in Files : file \in Seq([src : Nat, dst : Nat, len : Nat \ {0}])

VARIABLES
    mode,       \* "content", "device", "once" or "perf"
    file,       \* the frames of the capture file
    UIp,        \* the address that replaces the user's, 0 for none
    phase,      \* "prepare", "send", "past" the arrays, or "end"
    PktNum,     \* frames read from the file
    store,      \* PktData and PktLen
    Index,      \* the packet PerfTest is at
    NewDstIp,   \* the round of PerfTest
    made,       \* history: flows asked about, with their rounds
    counts      \* history: packets sent in each finished round

fileVars == <<phase, PktNum, store, Index, NewDstIp, made, counts>>
clientVars == <<mode, file, UIp, fileVars>>
allVars == <<vars, clientVars>>

ClientInit ==
    /\ Init
    /\ \/ /\ mode \in {"content", "device"} /\ phase = "send"
          /\ file = <<>> /\ UIp = 0
       \/ /\ mode \in {"once", "perf"} /\ phase = "prepare"
          /\ file \in Files /\ UIp \in UIps
    /\ PktNum = 0 /\ store = <<>> /\ Index = 0 /\ NewDstIp = 1
    /\ made = {} /\ counts = {}

-----------------------------------------------------------------------------
(* The controller, and a device.                                             *)

AskContent ==
    /\ mode = "content"
    /\ \E size \in Sizes : Ask(size)
    /\ UNCHANGED clientVars

\* Analysis: what is not shorter than a UDP datagram is sent, however long.
SendCaptured ==
    /\ mode = "device" /\ phase = "send"
    /\ \E len \in Live : len >= MinCap /\ Ask(len - ETH_HEADER_LEN)
    /\ UNCHANGED clientVars

-----------------------------------------------------------------------------
(* A capture file.                                                           *)

\* Mutant: the length in the store is not limited.
StoredLong(frame) == frame

\* The Ethernet header is skipped, and its length is not subtracted.
Stored(frame) ==
    [frame EXCEPT !.len = IF frame.len > PKT_LEN THEN PKT_LEN ELSE frame.len]

\* Frames that no longer fit are counted all the same.
ReadPcap ==
    /\ phase = "prepare" /\ PktNum < Len(file)
    /\ store' = IF PktNum < MAX_PKT_NUM
                THEN Append(store, Stored(file[PktNum + 1])) ELSE store
    /\ PktNum' = PktNum + 1
    /\ UNCHANGED <<vars, mode, file, UIp, phase, Index, NewDstIp, made, counts>>

Prepared ==
    /\ phase = "prepare" /\ PktNum = Len(file)
    /\ phase' = "send"
    /\ UNCHANGED <<vars, mode, file, UIp, PktNum, store, Index, NewDstIp,
                   made, counts>>

HasUser(p) == p.src \in IpSet \/ p.dst \in IpSet

\* The flow the daemon counts p under: the user first.
FlowOf(p) == IF p.src \in IpSet THEN <<p.src, p.dst>> ELSE <<p.dst, p.src>>

User(ip) == IF UIp # 0 THEN UIp ELSE ip

\* Mutant: the source is replaced in both directions.
RewriteSource(p) == [p EXCEPT !.src = NewDstIp, !.dst = User(@)]

\* In place: the next round starts from what this one made.
Rewrite(p) ==
    IF p.src \in IpSet THEN [p EXCEPT !.dst = NewDstIp, !.src = User(@)]
                       ELSE [p EXCEPT !.src = NewDstIp, !.dst = User(@)]

AtPacket ==
    /\ phase = "send" /\ mode \in {"once", "perf"} /\ client = "idle"
    /\ Index < PktNum

\* Mutant: the packet is sent as it was captured.
SendAsCaptured ==
    /\ AtPacket /\ Index < MAX_PKT_NUM
    /\ LET p == store[Index + 1]
       IN  /\ mode = "perf" => HasUser(p)
           /\ Ask(p.len)
           /\ made' = made \cup {[round |-> NewDstIp, flow |-> FlowOf(p)]}
    /\ Index' = Index + 1
    /\ UNCHANGED <<mode, file, UIp, phase, PktNum, store, NewDstIp, counts>>

SendStored ==
    /\ AtPacket /\ Index < MAX_PKT_NUM
    /\ LET p == store[Index + 1]
           q == IF mode = "perf" THEN Rewrite(p) ELSE p
       IN  /\ mode = "perf" => HasUser(p)
           /\ Ask(q.len)
           /\ store' = [store EXCEPT ![Index + 1] = q]
           /\ made' = IF HasUser(q)
                      THEN made \cup {[round |-> NewDstIp, flow |-> FlowOf(q)]}
                      ELSE made
    /\ Index' = Index + 1
    /\ UNCHANGED <<mode, file, UIp, phase, PktNum, NewDstIp, counts>>

\* Beyond the arrays PerfTest reads, sends and writes memory of other
\* variables; what happens then is not followed.
RunPast ==
    /\ AtPacket /\ Index >= MAX_PKT_NUM
    /\ phase' = "past"
    /\ UNCHANGED <<vars, mode, file, UIp, PktNum, store, Index, NewDstIp,
                   made, counts>>

\* The end of the inner loop: perf begins another round.
NextRound ==
    /\ NewDstIp < MaxRound
    /\ NewDstIp' = NewDstIp + 1
    /\ counts' = counts \cup {Index}
    /\ Index' = IF mode = "perf" THEN 0 ELSE Index
    /\ phase' = IF mode = "perf" THEN "send" ELSE "end"
    /\ UNCHANGED <<vars, mode, file, UIp, PktNum, store, made>>

EndRound ==
    /\ phase = "send" /\ mode \in {"once", "perf"} /\ client = "idle"
    /\ Index >= PktNum
    /\ NextRound

\* A packet of no user breaks off the round, not the test.
BreakRound ==
    /\ AtPacket /\ Index < MAX_PKT_NUM
    /\ mode = "perf" /\ ~HasUser(store[Index + 1])
    /\ NextRound

\* send to a daemon that is gone: dpiClient may die of SIGPIPE.
Killed ==
    /\ mode # "content" /\ phase = "send" /\ client = "idle" /\ ~Up
    /\ phase' = "end"
    /\ UNCHANGED <<vars, mode, file, UIp, PktNum, store, Index, NewDstIp,
                   made, counts>>

-----------------------------------------------------------------------------
\* The program has ended, or a bound is reached.
ClientRest ==
    /\ client = "idle"
    /\ asked = MaxAsk \/ phase \in {"past", "end"} \/ NewDstIp = MaxRound
    /\ UNCHANGED allVars

Exchange == (Take \/ TakeNothing) /\ UNCHANGED clientVars
Daemon == Thread /\ UNCHANGED clientVars

ClientNext ==
    \/ AskContent \/ SendCaptured
    \/ ReadPcap \/ Prepared \/ SendStored \/ RunPast \/ EndRound \/ BreakRound
    \/ Killed
    \/ Exchange \/ Daemon \/ (Crash /\ UNCHANGED clientVars)
    \/ ClientRest

\* As in FairSpec: what has arrived is read.
ClientSpec ==
    /\ ClientInit /\ [][ClientNext]_allVars
    /\ WF_allVars(Daemon) /\ WF_allVars(Exchange)

-----------------------------------------------------------------------------
(* Properties.                                                               *)

Frame == [src : Nat, dst : Nat, len : Nat \ {0}]

\* The type of every variable.
ClientTypeOK ==
    /\ TypeOK
    /\ mode \in {"content", "device", "once", "perf"}
    /\ file \in Seq(Frame) /\ UIp \in Nat
    /\ phase \in {"prepare", "send", "past", "end"}
    /\ PktNum \in Nat /\ Index \in Nat /\ NewDstIp \in Nat
    /\ store \in Seq(Frame)
    /\ made \subseteq [round : Nat, flow : Nat \X Nat]
    /\ counts \subseteq Nat

\* perf is there to make flows: no flow comes up in two rounds.  That ends when
\* NewDstIp reaches the address of a user, which changes the direction of the
\* packets that carry it and from then on their user.
RoundsMakeFlows ==
    (\A u \in IpSet : NewDstIp < u) =>
        \A a, b \in made : a.flow = b.flow => a.round = b.round

\* What every round should send: the frames before the first without a user.
Whole ==
    Cardinality({i \in 1..Len(file) : \A j \in 1..i : HasUser(file[j])})

\* Although each round changes the packets the next one starts from, all rounds
\* send the same ones, up to the first of no user: the rewritten packet still
\* has a user.  With -a and an address that is not in ip.properties it has not,
\* and every round but the first sends nothing.
RoundsAreWhole ==
    mode = "perf" /\ UIp \in IpSet \cup {0} => counts \subseteq {Whole}

\* A packet from a file fits into one read of the daemon, and no byte of it
\* that fits into PKT_LEN is left out (up to ETH_HEADER_LEN bytes that do not
\* belong to it are sent behind it); the arrays are left behind only with a
\* file of more than MAX_PKT_NUM frames.
StoredFits ==
    /\ \A i \in 1..Len(store) :
          /\ store[i].len <= Buf
          /\ file[i].len - ETH_HEADER_LEN <= store[i].len \/ store[i].len = PKT_LEN
          /\ store[i].len <= file[i].len
    /\ phase = "past" => Len(file) > MAX_PKT_NUM
    /\ Len(store) <= MAX_PKT_NUM
=============================================================================
