----------------------------- MODULE Controller -----------------------------
(* controller.py, the OpenFlow switches it drives, monitor.py beside it and  *)
(* config.ini, which a user may save at any time.                            *)
(*                                                                           *)
(* Ryu hands the controller one event at a time, in order of arrival; what   *)
(* it sends to a switch arrives later, in order.  A handler is split where   *)
(* the file, the daemon or a switch can act in the middle of it.             *)
(*                                                                           *)
(* Hosts do not move, so in_port is left out of a match.  A class (a         *)
(* protocol, a port or a content id) is known by its member flows; the two   *)
(* entries of a Layer 5 class, for either direction, count as one.  The      *)
(* switches do not buffer packets, as the table-miss entry demands.          *)
(*                                                                           *)
(* While the file is saved it is cut off somewhere, or not there at all.     *)
(* What is raised and not caught ends the handler: Ryu logs it and goes on   *)
(* with the next event.                                                      *)
EXTENDS Naturals, Sequences, FiniteSets, SequencesExt

CONSTANTS
    Switches,
    Watched,    \* the switch monitor.py clears: s1
    Hosts,
    Flows,      \* packets with the same hosts, protocol and ports
    Src, Dst,   \* the hosts a flow runs between
    Lldp,       \* the flows of LLDP packets
    Class,      \* what a line of config.ini can name
    Members,    \* Members[k]: flows of class k
    Content,    \* Content[f]: what the daemon calls flow f, sooner or later
    Configs,    \* what the file may say: [mode, classes]
    Nowhere,
    Faulty,     \* bound: where what reset asks of the OVSDB may fail
    WithDaemon, \* bound: does dpiDeamon run, from time to time?
    MaxEdits,   \* bound: times the file is saved
    MaxPackets  \* bound: packets sent up by the switches

ASSUME ControllerAssumption ==
    /\ Watched \in Switches
    /\ Src \in [Flows -> Hosts] /\ Dst \in [Flows -> Hosts]
    /\ Lldp \subseteq Flows
    /\ Members \in [Class -> SUBSET Flows]
    /\ Configs \subseteq [mode : 1..3, classes : Seq(Class)]
    /\ Nowhere \notin Switches
    /\ Faulty \subseteq Switches /\ WithDaemon \in BOOLEAN
    /\ MaxEdits \in Nat /\ MaxPackets \in Nat

VARIABLES
    file,       \* config.ini: its content, or what it is to be while it is
                \* "part" written or "gone", and its modification time
    mon,        \* program counter of monitor.py
    monSeen,    \* its lastModify
    daemon,     \* is dpiDeamon running?
    sock,       \* connection to it: "none" while self.connected is False
    inbox,      \* events waiting for the controller; the first one is handled
    ctl,        \* where its handler is
    mem,        \* self.mode and the one of L4, L5, Content that belongs to it
    lastModify, \* self.lastModify
    macs,       \* macs[s]: keys of self.mac_to_port[s]
    outbox,     \* outbox[s]: messages on their way to switch s
    table,      \* table[s]: the flow table of s
    queues,     \* queues[s]: number of QoS queues on the ports of s
    attached,   \* switches that have connected
    sent,       \* packets sent up so far (bounded by MaxPackets)
    resetAt,    \* history: the switch of the last reset
    trouble,    \* history: trouble[s]: what failed in the last reset of s
    raced       \* history: a save came between the last reset and its Stamp

fileVars == <<file>>
monVars == <<mon, monSeen>>
dpiVars == <<daemon, sock>>
ctlVars == <<inbox, ctl, mem, lastModify, macs>>
netVars == <<outbox, table, queues, attached, sent>>
history == <<resetAt, trouble, raced>>
vars == <<fileVars, monVars, dpiVars, ctlVars, netVars, history>>

Blank == [miss |-> FALSE, entries |-> {}]

\* The controller is up; no switch has connected yet.
Init ==
    /\ \E c \in Configs : file = [conf |-> c, mtime |-> 0, state |-> "whole"]
    /\ mon = "watch" /\ monSeen = 0
    /\ daemon \in {WithDaemon, FALSE}
    /\ sock = IF daemon THEN "ok" ELSE "none"
    /\ inbox = <<>> /\ ctl = "idle"
    /\ mem = [mode |-> 1, classes |-> <<>>]
    /\ lastModify = 0
    /\ macs = [s \in Switches |-> {}]
    /\ outbox = [s \in Switches |-> <<>>]
    /\ table = [s \in Switches |-> Blank]
    /\ queues = [s \in Switches |-> 0]
    /\ attached = {} /\ sent = 0
    /\ resetAt = Nowhere /\ trouble = [s \in Switches |-> "none"]
    /\ raced = FALSE

-----------------------------------------------------------------------------
(* Switches.                                                                 *)

Features == "features"
Connect(s) ==
    /\ s \notin attached
    /\ attached' = attached \cup {s}
    /\ inbox' = Append(inbox, [kind |-> Features, at |-> s])
    /\ UNCHANGED <<fileVars, monVars, dpiVars, ctl, mem, lastModify, macs,
                   outbox, table, queues, sent, history>>

Matches(e, f) == e.src = Src[f] /\ e.dst = Dst[f] /\ f \in e.of

\* A packet that no entry matches goes to the controller, if the table-miss
\* entry is there; otherwise it is forwarded, or dropped, unseen.
Traffic(s, f) ==
    /\ sent < MaxPackets
    /\ table[s].miss
    /\ \A e \in table[s].entries : ~Matches(e, f)
    /\ sent' = sent + 1
    /\ inbox' = Append(inbox, [kind |-> "packetin", at |-> s, flow |-> f])
    /\ UNCHANGED <<fileVars, monVars, dpiVars, ctl, mem, lastModify, macs,
                   outbox, table, queues, attached, history>>

SameMatch(d, e) ==
    d.pri = e.pri /\ d.src = e.src /\ d.dst = e.dst /\ d.of = e.of

\* What a switch does with a message; an entry replaces one of equal match.
Apply(t, m) ==
    CASE m.type = "delete" -> Blank
      [] m.type = "miss" -> [t EXCEPT !.miss = TRUE]
      [] m.type = "add" ->
            [t EXCEPT !.entries =
                {d \in @ : ~SameMatch(d, m.entry)} \cup {m.entry}]
      [] m.type = "out" -> t

Deliver(s) ==
    /\ outbox[s] # <<>>
    /\ table' = [table EXCEPT ![s] = Apply(@, Head(outbox[s]))]
    /\ outbox' = [outbox EXCEPT ![s] = Tail(@)]
    /\ UNCHANGED <<fileVars, monVars, dpiVars, ctlVars, queues, attached,
                   sent, history>>

-----------------------------------------------------------------------------
(* The user, the daemon and monitor.py.                                      *)

\* The file has been read for a switch that connects, the time has not.
Stamping == ctl \in {"qos", "stamp"} /\ Head(inbox).kind = Features

\* An editor cuts the file off and writes it again, or puts it aside and
\* writes a new one; either way the clock of the file moves ...
SaveBegin ==
    /\ file.state = "whole" /\ file.mtime < 2 * MaxEdits
    /\ \E c \in Configs \ {file.conf}, st \in {"part", "gone"} :
          file' = [conf |-> c, mtime |-> file.mtime + 1, state |-> st]
    /\ raced' = (raced \/ Stamping)
    /\ UNCHANGED <<monVars, dpiVars, ctlVars, netVars, resetAt, trouble>>

\* ... and again when all of it has been written.
SaveEnd ==
    /\ file.state # "whole"
    /\ file' = [file EXCEPT !.mtime = @ + 1, !.state = "whole"]
    /\ raced' = (raced \/ Stamping)
    /\ UNCHANGED <<monVars, dpiVars, ctlVars, netVars, resetAt, trouble>>

DaemonStart ==
    /\ ~daemon /\ WithDaemon
    /\ daemon' = TRUE
    /\ UNCHANGED <<fileVars, monVars, sock, ctlVars, netVars, history>>

DaemonStop ==
    /\ daemon /\ WithDaemon
    /\ daemon' = FALSE
    /\ sock' = IF sock = "ok" THEN "dead" ELSE sock
    /\ UNCHANGED <<fileVars, monVars, ctlVars, netVars, history>>

\* monitor.py compares the modification times once a second; a file that is
\* not there it takes for one that has not changed ...
MonitorSee ==
    /\ mon = "watch" /\ file.state # "gone"
    /\ file.mtime > monSeen
    /\ monSeen' = file.mtime
    /\ mon' = "clear"
    /\ UNCHANGED <<fileVars, dpiVars, ctlVars, netVars, history>>

\* ... empties the table of s1 ...
MonitorClear ==
    /\ mon = "clear"
    /\ mon' = "miss"
    /\ table' = [table EXCEPT ![Watched] = Blank]
    /\ UNCHANGED <<fileVars, monSeen, dpiVars, ctlVars, outbox, queues,
                   attached, sent, history>>

\* ... and puts the table-miss entry back.
MonitorMiss ==
    /\ mon = "miss"
    /\ mon' = "watch"
    /\ table' = [table EXCEPT ![Watched].miss = TRUE]
    /\ UNCHANGED <<fileVars, monSeen, dpiVars, ctlVars, outbox, queues,
                   attached, sent, history>>

-----------------------------------------------------------------------------
(* The controller: reset.                                                    *)

ev == Head(inbox)
Finish == ctl' = "idle" /\ inbox' = Tail(inbox)
SendAll(s, msgs) == outbox' = [outbox EXCEPT ![s] = @ \o msgs]
AfterReset == IF ev.kind = Features THEN "stamp" ELSE "learn"

\* switch_features_handler
SwitchFeatures ==
    /\ ctl = "idle" /\ inbox # <<>> /\ ev.kind = Features
    /\ ctl' = "reset"
    /\ UNCHANGED <<fileVars, monVars, dpiVars, inbox, mem, lastModify, macs,
                   netVars, history>>

\* Mutant: the new time is noted and nothing is reset.
PacketInNoted ==
    /\ ctl = "idle" /\ inbox # <<>> /\ ev.kind # Features
    /\ file.state # "gone"
    /\ sock' = IF sock = "none" /\ daemon THEN "ok" ELSE sock
    /\ lastModify' = file.mtime /\ ctl' = "learn"
    /\ UNCHANGED <<fileVars, monVars, daemon, inbox, mem, macs, netVars,
                   history>>

\* _packet_in_handler up to the check of the file: connect to the daemon
\* unless that was done before, and compare the modification times.
PacketIn ==
    /\ ctl = "idle" /\ inbox # <<>> /\ ev.kind # Features
    /\ file.state # "gone"
    /\ sock' = IF sock = "none" /\ daemon THEN "ok" ELSE sock
    /\ IF file.mtime > lastModify
       THEN lastModify' = file.mtime /\ ctl' = "reset"
       ELSE ctl' = "learn" /\ UNCHANGED lastModify
    /\ UNCHANGED <<fileVars, monVars, daemon, inbox, mem, macs, netVars,
                   history>>

\* getmtime raises: the packet is dropped.
PacketInBreaks ==
    /\ ctl = "idle" /\ inbox # <<>> /\ ev.kind # Features
    /\ file.state = "gone"
    /\ sock' = IF sock = "none" /\ daemon THEN "ok" ELSE sock
    /\ Finish
    /\ UNCHANGED <<fileVars, monVars, daemon, mem, lastModify, macs, netVars,
                   history>>

Delete == [type |-> "delete"]
Miss == [type |-> "miss"]

\* The lists are cleared and the table is deleted, OVSBridge.init raises and
\* reset returns: the old mode stays, with no class and no table-miss entry.
ResetFails ==
    /\ ctl = "reset" /\ ev.at \in Faulty
    /\ SendAll(ev.at, <<Delete>>)
    /\ mem' = [mem EXCEPT !.classes = <<>>]
    /\ ctl' = AfterReset
    /\ resetAt' = ev.at
    /\ trouble' = [trouble EXCEPT ![ev.at] = "bridge"]
    /\ raced' = FALSE
    /\ UNCHANGED <<fileVars, monVars, dpiVars, inbox, lastModify, macs, table,
                   queues, attached, sent>>

\* What reset may take a file for that is cut off: lines are missing at the end,
\* and the line that the cut goes through passes for the last one.
Cut(c) == {[c EXCEPT !.classes = SubSeq(@, 1, n)] : n \in 0..Len(c.classes)}

Readable == CASE file.state = "whole" -> {file.conf}
              [] file.state = "part" -> Cut(file.conf)
              [] OTHER -> {}

\* Mutant: the table is not deleted.
ResetKeepsTable ==
    /\ ctl = "reset"
    /\ mem' \in Readable
    /\ ctl' = "qos"
    /\ resetAt' = ev.at
    /\ trouble' = [trouble EXCEPT ![ev.at] = "none"]
    /\ raced' = FALSE
    /\ UNCHANGED <<fileVars, monVars, dpiVars, inbox, lastModify, macs, netVars>>

\* The table is deleted and the file is read.
ResetReads ==
    /\ ctl = "reset"
    /\ SendAll(ev.at, <<Delete>>)
    /\ mem' \in Readable
    /\ ctl' = "qos"
    /\ resetAt' = ev.at
    /\ trouble' = [trouble EXCEPT ![ev.at] = "none"]
    /\ raced' = FALSE
    /\ UNCHANGED <<fileVars, monVars, dpiVars, inbox, lastModify, macs, table,
                   queues, attached, sent>>

\* The lists are cleared, the table is deleted, and then something raises: the
\* list of the ports, open, or a line that is not what it should be.  That ends
\* the handler, without the table-miss entry and without a look at the time.
ResetBreaks ==
    /\ ctl = "reset"
    /\ \/ /\ ev.at \in Faulty \/ file.state # "whole"
          /\ mem' = [mem EXCEPT !.classes = <<>>]
       \/ /\ file.state = "part"
          /\ mem' \in Cut(file.conf)
    /\ SendAll(ev.at, <<Delete>>)
    /\ Finish
    /\ resetAt' = ev.at
    /\ trouble' = [trouble EXCEPT ![ev.at] = "broken"]
    /\ raced' = FALSE
    /\ UNCHANGED <<fileVars, monVars, dpiVars, lastModify, macs, table, queues,
                   attached, sent>>

\* Mutant: no queue is set up for the rest.
ResetQosShort ==
    /\ ctl = "qos"
    /\ queues' = [queues EXCEPT ![ev.at] = Len(mem.classes)]
    /\ SendAll(ev.at, <<Miss>>)
    /\ ctl' = AfterReset
    /\ UNCHANGED <<fileVars, monVars, dpiVars, inbox, mem, lastModify, macs,
                   table, attached, sent, history>>

\* Mutant: reset returns when set_qos fails.
ResetQosReturns ==
    /\ ctl = "qos"
    /\ \/ /\ queues' = [queues EXCEPT ![ev.at] = Len(mem.classes) + 1]
          /\ SendAll(ev.at, <<Miss>>)
          /\ UNCHANGED trouble
       \/ /\ ev.at \in Faulty
          /\ trouble' = [trouble EXCEPT ![ev.at] = "qos"]
          /\ UNCHANGED <<queues, outbox>>
    /\ ctl' = AfterReset
    /\ UNCHANGED <<fileVars, monVars, dpiVars, inbox, mem, lastModify, macs,
                   table, attached, sent, resetAt, raced>>

\* set_qos gives the ports a queue for each class and one for the rest; if it
\* fails that is logged only.  The table-miss entry is sent in either case.
ResetQos ==
    /\ ctl = "qos"
    /\ \/ /\ queues' = [queues EXCEPT ![ev.at] = Len(mem.classes) + 1]
          /\ UNCHANGED trouble
       \/ /\ ev.at \in Faulty
          /\ trouble' = [trouble EXCEPT ![ev.at] = "qos"]
          /\ UNCHANGED queues
    /\ SendAll(ev.at, <<Miss>>)
    /\ ctl' = AfterReset
    /\ UNCHANGED <<fileVars, monVars, dpiVars, inbox, mem, lastModify, macs,
                   table, attached, sent, resetAt, raced>>

\* Back in switch_features_handler: the time is read after the file was, or
\* getmtime raises.
Stamp ==
    /\ ctl = "stamp"
    /\ lastModify' = IF file.state = "gone" THEN lastModify ELSE file.mtime
    /\ Finish
    /\ UNCHANGED <<fileVars, monVars, dpiVars, mem, macs, netVars, history>>

-----------------------------------------------------------------------------
(* The controller: the rest of _packet_in_handler.                           *)

\* The flow entry of the handler's packet for the flows in of.
EntryFor(pri, of, queue) ==
    [pri |-> pri, src |-> Src[ev.flow], dst |-> Dst[ev.flow], of |-> of,
     queue |-> queue,
     out |-> IF Dst[ev.flow] \in macs[ev.at] \cup {Src[ev.flow]}
             THEN "port" ELSE "flood"]

Add(entry) == [type |-> "add", entry |-> entry]
Out == [type |-> "out", flow |-> ev.flow]

Learning == ctl = "learn" /\ ev.flow \notin Lldp

Learn == macs' = [macs EXCEPT ![ev.at] = @ \cup {Src[ev.flow]}]

IgnoreLldp ==
    /\ ctl = "learn" /\ ev.flow \in Lldp
    /\ Finish
    /\ UNCHANGED <<fileVars, monVars, dpiVars, mem, lastModify, macs, netVars,
                   history>>

\* The entry for the rest goes to the last queue; it is left out while the
\* destination is unknown.
RestEntry ==
    LET e == EntryFor(1, Flows, Len(mem.classes))
    IN  IF e.out = "port" THEN <<Add(e)>> ELSE <<>>

ClassEntries ==
    [i \in DOMAIN mem.classes |->
        Add(EntryFor(2, Members[mem.classes[i]], i - 1))]

\* Modes 1 and 2: an entry per class, in any case, and the packet.
ForwardByClass ==
    /\ Learning /\ mem.mode # 3
    /\ Learn
    /\ SendAll(ev.at, RestEntry \o ClassEntries \o <<Out>>)
    /\ Finish
    /\ UNCHANGED <<fileVars, monVars, dpiVars, mem, lastModify, table, queues,
                   attached, sent, history>>

\* Mode 3 without the daemon: the log says "Drop", the packet goes out.
ForwardUnasked ==
    /\ Learning /\ mem.mode = 3 /\ sock = "none"
    /\ Learn
    /\ SendAll(ev.at, <<Out>>)
    /\ Finish
    /\ UNCHANGED <<fileVars, monVars, dpiVars, mem, lastModify, table, queues,
                   attached, sent, history>>

\* Mode 3: the packet is sent to the daemon (a failure to do so is ignored)
\* and the controller waits for the answer.
AskContent ==
    /\ Learning /\ mem.mode = 3 /\ sock # "none"
    /\ Learn
    /\ ctl' = "answer"
    /\ UNCHANGED <<fileVars, monVars, dpiVars, inbox, mem, lastModify, netVars,
                   history>>

\* The queue of a content class: its own, or the last one.
QueueOf(k) ==
    IF \E i \in DOMAIN mem.classes : mem.classes[i] = k
    THEN SelectInSeq(mem.classes, LAMBDA x : x = k) - 1
    ELSE Len(mem.classes)

\* An answer other than 0 becomes an entry for exactly this flow.
ContentAnswer ==
    /\ ctl = "answer" /\ sock = "ok"
    /\ \/ SendAll(ev.at, <<Out>>)
       \/ SendAll(ev.at, <<Add(EntryFor(1, {ev.flow}, QueueOf(Content[ev.flow]))),
                           Out>>)
    /\ Finish
    /\ UNCHANGED <<fileVars, monVars, dpiVars, mem, lastModify, macs, table,
                   queues, attached, sent, history>>

\* recv returns nothing: indexing it raises, Ryu logs the exception and goes
\* on with the next event.  connected stays True.
ContentBroken ==
    /\ ctl = "answer" /\ sock = "dead"
    /\ Finish
    /\ UNCHANGED <<fileVars, monVars, dpiVars, mem, lastModify, macs, netVars,
                   history>>

Handler ==
    \/ SwitchFeatures \/ PacketIn \/ PacketInBreaks
    \/ ResetFails \/ ResetReads \/ ResetBreaks \/ ResetQos \/ Stamp
    \/ IgnoreLldp \/ ForwardByClass \/ ForwardUnasked
    \/ AskContent \/ ContentAnswer \/ ContentBroken

Monitor == MonitorSee \/ MonitorClear \/ MonitorMiss

Next ==
    \/ \E s \in Switches : Connect(s) \/ Deliver(s)
    \/ \E s \in Switches, f \in Flows : Traffic(s, f)
    \/ SaveBegin \/ SaveEnd \/ DaemonStart \/ DaemonStop
    \/ Monitor \/ Handler

Spec == Init /\ [][Next]_vars
-----------------------------------------------------------------------------
(* Properties.                                                               *)

Entry == [pri : {1, 2}, src : Hosts, dst : Hosts, of : SUBSET Flows,
          queue : Nat, out : {"port", "flood"}]

Message == [type : {"delete", "miss"}] \cup [type : {"add"}, entry : Entry]
           \cup [type : {"out"}, flow : Flows]

Event == [kind : {Features}, at : Switches]
         \cup [kind : {"packetin"}, at : Switches, flow : Flows]

Config == [mode : 1..3, classes : Seq(Class)]

\* The type of every variable.
TypeOK ==
    /\ file \in [conf : Config, mtime : Nat, state : {"whole", "part", "gone"}]
    /\ mon \in {"watch", "clear", "miss"} /\ monSeen \in Nat
    /\ daemon \in BOOLEAN /\ sock \in {"none", "ok", "dead"}
    /\ inbox \in Seq(Event)
    /\ ctl \in {"idle", "reset", "qos", "stamp", "learn", "answer"}
    /\ mem \in Config /\ lastModify \in Nat
    /\ macs \in [Switches -> SUBSET Hosts]
    /\ outbox \in [Switches -> Seq(Message)]
    /\ table \in [Switches -> [miss : BOOLEAN, entries : SUBSET Entry]]
    /\ queues \in [Switches -> Nat]
    /\ attached \subseteq Switches /\ sent \in Nat
    /\ resetAt \in Switches \cup {Nowhere}
    /\ trouble \in [Switches -> {"none", "bridge", "broken", "qos"}]
    /\ raced \in BOOLEAN

Undeleted(s) == \A i \in DOMAIN outbox[s] : outbox[s][i] # Delete

\* Messages on their way to s that no deletion follows.
Lasting(s) ==
    {outbox[s][i] : i \in {i \in DOMAIN outbox[s] :
                              \A j \in i..Len(outbox[s]) : outbox[s][j] # Delete}}

\* What a switch has to expect once everything on its way has arrived: what its
\* table keeps and what is added after the last deletion, with the entries that
\* will have been replaced by then.
Settled(s) ==
    [miss |-> (Undeleted(s) /\ table[s].miss) \/ Miss \in Lasting(s),
     entries |-> (IF Undeleted(s) THEN table[s].entries ELSE {})
                 \cup {m.entry : m \in {m \in Lasting(s) : m.type = "add"}}]

\* Entry e puts its packets into the queue that configuration c asks for.
Agrees(e, c) ==
    IF c.mode = 3
    THEN \E f \in Flows :
            /\ e.of = {f}
            /\ \/ e.queue + 1 \in DOMAIN c.classes
                  /\ c.classes[e.queue + 1] = Content[f]
               \/ e.queue = Len(c.classes)
                  /\ \A i \in DOMAIN c.classes : c.classes[i] # Content[f]
    ELSE \/ e.of = Flows /\ e.queue = Len(c.classes)
         \/ /\ e.queue + 1 \in DOMAIN c.classes
            /\ e.of = Members[c.classes[e.queue + 1]]

\* The switch that was reset last is, or will be when its messages arrive,
\* forwarding by the configuration in memory only, whatever was on its way
\* before the reset and however monitor.py interferes.
ResetSwitchFollows ==
    resetAt # Nowhere =>
        \A e \in Settled(resetAt).entries : Agrees(e, mem)

\* Its entries name queues that its ports have, unless setting them up failed.
QueuesExist ==
    resetAt # Nowhere /\ trouble[resetAt] = "none" /\ ctl # "qos" =>
        \A e \in Settled(resetAt).entries : e.queue < queues[resetAt]

Resetting(s) == ctl \in {"reset", "qos"} /\ ev.at = s
Greeted(s) == s \in attached /\ [kind |-> Features, at |-> s] \notin ToSet(inbox)

\* A switch that has been greeted keeps its table-miss entry, without which it
\* drops what it does not know in silence, through all resets, packets that are
\* dropped and whatever monitor.py does to s1.  It has lost the entry only if its
\* last reset ended between the deletion and the new entry: OVSBridge.init
\* failed, or reset raised, on the OVSDB or on a file that was being saved.
MissInstalled ==
    \A s \in Switches :
        Greeted(s) /\ ~Resetting(s) =>
            \/ Settled(s).miss
            \/ trouble[s] \in {"bridge", "broken"}
            \/ s = Watched /\ mon = "miss"

\* A saved configuration that lastModify says was seen is the one in memory,
\* even if the file was read while it was saved.  There are three ways out:
\* OVSBridge.init failed; reset raised, after lastModify had been set for a
\* packet; or the file was saved after reset had read it for a switch that
\* connects and before the handler read the time.
SavedConfigSeen ==
    /\ lastModify = file.mtime /\ file.state = "whole"
    /\ ctl \in {"idle", "learn", "answer"}
    => \/ resetAt = Nowhere
       \/ trouble[resetAt] \in {"bridge", "broken"}
       \/ raced
       \/ mem = file.conf

-----------------------------------------------------------------------------
(* What the documentation says.                                              *)

\* Everybody has noticed the last save and nothing is on its way.
Quiet ==
    /\ inbox = <<>> /\ mon = "watch" /\ monSeen = file.mtime
    /\ file.state = "whole"
    /\ lastModify = file.mtime /\ mem = file.conf
    /\ \A s \in Switches : outbox[s] = <<>>

\* README.txt: the new configuration is enabled once the file is saved.  When
\* things are quiet, every switch forwards by the file.
SavedIsEnabled ==
    Quiet => \A s \in Switches : \A e \in table[s].entries :
                Agrees(e, file.conf)

\* "learn a mac address to avoid FLOOD next time": a known host is not flooded.
LearnedNotFlooded ==
    Quiet => \A s \in Switches : \A e \in table[s].entries :
                e.dst \in macs[s] => e.out = "port"
=============================================================================
