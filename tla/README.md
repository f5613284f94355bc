# A TLA+ model of IQoSAofSDN

The repository assigns the packets of an OpenFlow network to QoS queues. A Ryu
application (`src/iqos/ryu-controller/controller.py`) reads `config.ini` and
installs flow entries; in content mode it asks a daemon (`dpiDeamon`, C++) to
which protocol a flow belongs; the daemon searches payloads for patterns with a
Wu-Manber matcher and drives one small automaton per protocol. This directory
models the daemon with its library and its shell, its two clients, the
controller with the switches, the monitor and the configuration file around it,
the connection between them, and the tool that measures the network.

All modules are parsed with SANY and checked with TLC, and those named `*Proofs`
with TLAPS. `PROJECT.json` names, for every definition, the lines it stands for,
and lists runs, mutants, hazards, findings and theorems.

## 1. Inventory

| part | source (below `src/iqos`) | state | operations | talks to |
|---|---|---|---|---|
| proxy threads | `dpi/dpiDeamon/source/Server.cpp` | a socket, a packet and the read class (locals) | accept, recv, query, push, send | clients (TCP), flow table, queue |
| analysis thread and queue | `dpi/dpiDeamon/source/Main.cpp`, `dpi/lib/source/Context.cpp`, `dpi/lib/include/PakcetSet.h` | packet queue, its mutex; `m_SduNum`, `m_CfId`, `m_Cf2Text` of each flow | pop, count, search, step the automata, decide | proxies (shared memory), matcher |
| user and flow tables | `dpi/lib/include/Context.h` | two levels of sets, a mutex and a scratch key each | find or create | proxies |
| classifiers | `dpi/lib/include/Classifier.h`, `CfMatch.cpp`, `CfConfigure.cpp` | automata (constant after start) | `Match` | analysis thread |
| matcher | `dpi/lib/source/Wm.cpp`, `Wm.h` | shift, auxiliary shift and hash tables | `Compile`, `Search` | analysis thread |
| packet parser | `dpi/lib/source/Packet.cpp`, `Packet.h` | fields of a packet | constructor, `Ipv4Parse` | proxies |
| statistics, shell | `Context.h`, `dpi/dpiDeamon/source/Shell.cpp` | the totals; a command, its iterators, the samples of `perf` | `flow`, `user`, `mem`, `perf` and commands without state | tables and totals, without their locks |
| log | `Log.h` | a file | print | - |
| dpiClient | `dpi/dpiClient/source/*` | packet store, round, rewritten addresses | capture, `ReadPcap`, `PerfTest`, `SendPacket` | daemon |
| controller | `ryu-controller/controller.py` | mode, class lists, `lastModify`, `mac_to_port`, `connected` | switch features, packet-in, `reset` | switches (OpenFlow, OVSDB), file, daemon |
| monitor | `ryu-controller/monitor.py` | its own `lastModify` | clear s1 on a change | file, s1 |
| PerLatency | `../tool/PerLatency` | messages and seconds of a test | handshake, latency and bandwidth test | its other half, over UDP |
| traffic tools, Mininet scripts, sample switches | `src/tool`, `src/network`, `simple_switch_1*.py` | - | traffic, start-up | - |

What is hard, and the properties that answer it:

* **Threads of the daemon.** The proxies read `m_CfId` and `m_SduNum` without a
  lock while the analysis thread writes them; `IsEmpty` looks at the queue
  without the mutex. *Wanted:* a flow's verdict is final and follows from its own
  packets only, no packet is lost or counted twice, `Pop` never meets an empty
  queue, stale reads cost a bounded number of packets, everybody is answered.
* **The tables.** All threads search with one scratch key per table. *Wanted:*
  the lookup is an atomic find-or-create.
* **The search.** Moves are computed from an auxiliary table that depends on the
  order of compilation, with unsigned positions, and the length it is given need
  not be that of the payload. *Wanted:* the result is exactly the set of patterns
  in the text; the search ends, and it is known when it leaves the packet.
* **The stream between client and daemon.** Packets have no boundaries on it.
  *Wanted:* no mutual wait; the answer is about the packet asked.
* **The shell.** It walks sets that threads insert into, and adds up and
  subtracts totals that threads increment without a lock. *Wanted:* a listing
  names existing flows, each once, and all that were there; a count lies between
  what was and what is; a rate does not wrap below zero.
* **dpiClient.** `PerfTest` rewrites its packets in place, round after round,
  in arrays whose limit the reader counts past. *Wanted:* each round sends the same
  packets, as flows the daemon has not seen, and none is too long for it.
* **PerLatency.** UDP, no sequence numbers, no timeouts but one. *Wanted:* a time
  belongs to its request; one knows who can be left waiting; everybody else ends.
* **Controller, switches, file.** One `lastModify` for all switches, a file saved
  at any time and read in the middle of it, messages under way, a second program
  writing the table of s1, an OVSDB that may fail, exceptions that nobody catches. *Wanted:* a reset switch follows the configuration in
  memory, its entries have their queues, it keeps the table-miss entry, and no
  save is missed, or one knows why.

`PROJECT.json` lists the hazards one by one with their lines.

## 2. Modules

| module | models | used by |
|---|---|---|
| `Classifier` | `Classifier::Match`: states, enabled transitions, port check | `DpiDaemon` |
| `CfConfig` | `CfManage::Init`: the 11 configured protocols and 19 patterns | `DpiTable` |
| `FlowVerdict` | abstract: one final verdict per flow, an answer is the verdict at a moment between request and answer | refined by `DpiDaemon` |
| `DpiDaemon` | proxies, queue, analysis thread | `MCDpiDaemon`, `DpiTable` |
| `DpiTable` | `DpiDaemon` with that table: what every pattern does | `MCDpiTable` |
| `FlowRegistry` | abstract: atomic find-or-create | refined by `FlowTable` |
| `FlowTable` | `QueryFlow`, `GetUser`, `GetFlow` | `Shell` |
| `Shell` | the shell thread, its commands, the totals | `MCShell` |
| `PacketParse` | `IpPacket` | `MCPacketParse` |
| `WmMatch` | `WmMatch` | `MCWmMatch` |
| `ContentPath` | the TCP stream between `SendPacket` (C++ and Python) and the proxy thread | `DpiClient` |
| `DpiClient` | the controller in content mode and `dpiClient` in its three modes, over that stream | `MCDpiClient` |
| `PerLatency` | client and server of the measuring tool and the network between | `MCPerLatency` |
| `Controller` | `controller.py`, switches, `monitor.py`, `config.ini` | `MCController` |
| `*Proofs` | TLAPS proofs | - |

`DpiDaemon` takes a flow lookup as one step, which `FlowTable` justifies through
`FlowRegistry`; it takes what a search finds as an input, which `WmMatch` covers;
and it takes a request for a packet, which `ContentPath` says when to believe. In
`Controller` the daemon is what `FlowVerdict` promises: an answer is 0 or the
class of the flow, and it may come late or never.

### DpiDaemon

One action is what a thread does between two accesses to memory that others
touch. A proxy goes `recv`, `query` (find the flow, read `m_CfId`), `check` (read
`m_SduNum`), `lock`, `append`, `send`. The analysis thread goes `idle` (look at
the size), `pop`, `count` (`m_SduNum++` and the early returns), `judge`. A read of
a word is taken as atomic. The class is a 32-bit word that one thread writes, so
a racing read gives the old or the new value. `recv` that returns 0 is a packet
without a user, as in the code; `recv` or `send` with an error ends the thread.
`got`, `acct`, `fed` and `late` are history: what was received, dropped at the
check, given to the classifiers, and queued after the verdict. (The code keeps
`acct` too, as a part of the flow's statistics.)

### FlowTable

One action for each step between lock and unlock: fill the scratch key, find,
add. The fields of a key are filled in one step, as only the holder of the mutex
looks at it (`KeyInv` in the proofs). `LockUsersFree` and `LockFlowsFree`
(mutants) are the same code without the mutexes.

### Shell

`Shell` extends `FlowTable`: the threads go on with their lookups and, separately,
load and store `m_PacketNum`, while one more thread executes commands. A walk has
one action per access: enter a user, print a flow, step to the next. Iterators
point at elements of a tree in key order, so a step leads to the least greater
element that is there *now*. While a thread is inside an insertion (`uadd`,
`fadd`) the tree may be in rotation, and the step leads anywhere, or ends the walk;
`rough` remembers that this happened. (The C++ standard calls this a data race;
what the model excludes is only that the process crashes.) A packet is counted
by a load and a store (`Load`, `Store`), so increments are lost and a late store
sets the total back. `m_Traffic` and `Flow::m_PacketNum` are counted in the same
way and left out.

### WmMatch

`Compile` goes block by block, in a given order of patterns, and writes all three
tables as the code does; `Search` has one action for each exit of its loop body.
Blocks are tuples of three letters instead of the value computed from them: the
code's function of three bytes is injective. Positions count from 0.

The text is the packet buffer from `m_Payload` on: `received` bytes of the packet,
the four pad bytes, and what the memory held before. `Length` is whatever the
parser computed, which `PacketParse` bounds: TCP options make it shorter than
`received`, IP options longer, and it may have wrapped. `received` is below 0 where IP
options put `m_Payload` behind the packet. A round of the loop that would read
behind the buffer is `RunPast`: the phase `past` stands for anything that may happen
then, and nothing is claimed of it.

### PacketParse

The lengths that the headers claim and the length that `recv` returned are
independent, as in a packet nobody checked. The fields the constructor leaves
alone are `Unset`. `ByteAt` says what the buffer holds at an index: a byte of the
packet, a pad byte, or, behind them, any of `Stale`. The code checks the length for
headers without options, but reads ports and the TCP header length behind the IP
header as long as it is, so they may be any of these; `PortsInside` says when the
ports are those of the packet.

### ContentPath

Bytes come in units. The daemon reads any prefix of what has arrived, up to
`Buf`; `torn` remembers that a packet exceeded the buffer or was read in pieces.

### DpiClient

The client side of `ContentPath` with its reasons: `AskContent` is the controller,
`SendCaptured` is `dpiClient -d`, and `ReadPcap`, `Prepared`, `SendStored`, `EndRound`
are `dpiClient -f`, which sends a file once, or with `-x` in rounds, each under a new
address (`NewDstIp`). A packet is two addresses and a length; `Rewrite` is what
`PerfTest` does to it in place. A packet of no user breaks off a round
(`BreakRound`). Reading behind the arrays (`RunPast`) is undefined and ends the
behaviour in the phase `past`. A client that writes to a daemon that is gone may
be killed by SIGPIPE (`Killed`); the controller, which Python protects, goes on.

### PerLatency

Both programs in both modes. The network may lose `MaxLoss` datagrams, deliver
`MaxDup` twice, and deliver in any order. The number `n` in a datagram is not in
the program: it is there to tell what a reply was about (`about`, `heard`). The
data of one second of a bandwidth test is one datagram. `Alarm` is `alarm(15)`.

### Controller

Ryu runs one handler at a time. A handler is split where something else can
intervene: at the connection to the daemon, before and after the file is read,
around the wait for an answer. Every other line between two such points is part
of the action, `reset` with its early return (`ResetFails`) and with what it raises
(`ResetBreaks`) included: the list of the ports, `open`, and a line that is no
number end the handler behind the deletion, before the table-miss entry and the
look at the time. `PacketInBreaks` and the other branch of `Stamp` are a `getmtime` of a
file that is not there.

A save takes two steps, `SaveBegin` and `SaveEnd`: in between the file is cut off
(`part`) or absent (`gone`). What `reset` makes of a file that is cut off is a
configuration without its last classes (`Cut`), as the line that the cut goes
through may pass for the last one, or an exception. Both steps move the file's
clock: the model assumes that its times tell two writes apart.
 
Messages to a switch go through a FIFO `outbox[s]`, and `Apply` is what OpenFlow prescribes: ADD replaces an
entry with the same match and priority. `monitor.py` writes the table of `s1`
directly (`ovs-ofctl`). The properties speak of `Settled(s)`, what the table will hold
once everything sent has arrived; it keeps entries that a later message replaces, so
it asks for more than the switch shows. A match is the pair of hosts and the set of flows a class
stands for; a whole `config.ini` is one of a few parsed contents.

## 3. Runs

| run | instance | time (about) | shows |
|---|---|---|---|
| `daemon` | 2 connections, 2 flows on different ports, `DPI_NUM` 2, 2 requests each, symmetric connections | 2 min | the safety of the daemon and that it implements `FlowVerdict` |
| `daemon_live` | 2 connections, 1 flow, `DPI_NUM` 1, 1 request each, one client may close or reset | 8 s | answers, verdicts and the end of threads |
| `table` | the real table and the real `DPI_NUM` 15, one client, 2 requests | 8 s | no configured pattern is dead; OneNote needs both its patterns, in order, in two packets |
| `flow_table` | `Shell`: 2 threads, 2 users, 3 flows, 4 counted packets, one shell | 1 min | the right context; refinement of `FlowRegistry`; what the shell prints |
| `packet` | 2 users and a host, lengths around every limit, IP headers of 4 to 11 words, two stale bytes | 45 s | both directions are one flow unless a port lies behind the packet; how far the search looks behind it |
| `wm_search` | 3 patterns of length 5 and 6 over two letters, all texts of up to 8 (of up to 5 with pad bytes among them), memory that holds nothing, a pattern or a part of one, lengths that are right, 4 too short, 4 and 8 too long, and wrapped; the orders without the defect | 1 min | the search is exact in the packet, and what it reports from behind |
| `wm_orders` | the same, every order | 5 s | **violated**: `Complete` |
| `controller` | 2 switches, 3 flows with LLDP, layer 4 mode with one class and with none, one save, two packets, a failing s2; content mode and a daemon that comes and goes while s2 is the only switch and the monitor sleeps | 80 s | reset switches follow the configuration, with queues and table-miss entry; no save is missed |
| `controller_save` | 2 switches, one save | 75 s | **violated**: `SavedIsEnabled` |
| `controller_flood` | one switch, no save | 2 s | **violated**: `LearnedNotFlooded` |
| `content_path` | `DpiClient`: 4 capture files, frames around every limit, buffer of 2 units, 2 stored packets, 5 rounds, 5 questions, with and without `-a` | 1 min | no mutual wait; answers match until a packet is cut; rounds of a perf test are whole and new |
| `per_latency` | 2 clients, 3 messages or seconds, 2 losses, 1 duplicate | 5 s | whom a reply belongs to; who is stranded and why; all others end |

**Why the bounds are enough.** Two connections are what a stale read and a contended
mutex take; two flows tell a context of one from that of the other; with
`DPI_NUM` 2 a two-packet protocol can be identified, missed, or be given up
between its packets, and four requests exceed the budget of one flow with a
backlog in the queue. The classifier instance has a one-packet protocol, a two-packet one
and one on another port. In `flow_table` two threads contend for each mutex while two keys share a user,
and the shell, a third, stands between any two of their steps (the proofs cover any
number of threads). Three flows let a walk be before, at and behind an insertion in
the same user and in the next. Four increments of two threads make a stored value
older than one that was read before. In `wm_search` a window of
five has three blocks, so a block occurs at the end, in the middle and at the start of a
window, and eight letters hold overlapping occurrences of patterns; a length
that ends 4 bytes behind the packet ends in front of what the memory held, one that
ends 8 bytes behind does not, and the wrapped one leaves every buffer. In `packet`
no stale byte is part of a port, so a port that was not received is never right, and
the headers put the ports inside, into the pad bytes and behind them. In
`controller` two packets let one trigger the reset and one be forwarded by it. In `content_path` the arrays hold two packets and one file has three; five
rounds reach the user with address 3, so `NewDstIp` passes a user; 50 as `-a` is an
address of nobody; the files hold both directions, a packet of no user behind and
between others, and two users that talk to each other. In `per_latency` two
clients are what it takes to end or to occupy the server for another one; two
losses can hit both. The
configurations differ in the number of classes or in the mode, and one of content mode
that is cut off is unlike both others. The constraint `Scenario` keeps content mode, the daemon
and LLDP to a single switch, as the handler sends to no other and what `monitor.py` does
to a table is the same in every mode; with two switches a reset that failed is
followed by no second packet, with one it is. The switch that fails differs from the one the monitor
watches. `MaxReq`, `MaxAsk`, `MaxPackets`, `MaxEdits`, `MaxPkts`, `MaxRound`,
`MaxLoss`, `MaxDup`, `Mortal`, `Faulty` and `WithDaemon` are bounds and occur in
guards (`WithDaemon` in `Init` too) only. In `Shell` a behaviour either counts packets or looks up flows
(`Load`, `Lookup`), as the two have no variable in common; every command runs
beside both.

`CHECK_DEADLOCK FALSE` in the controller's runs: everything waits for an
environment that has no packets, saves or switches left. `DpiDaemon`, `WmMatch`,
`DpiClient`, `PerLatency` and `PacketParse` have a `Rest` step that states what the
end of a run looks like, and the threads of `FlowTable` go on for ever: a deadlock
would be found.

**Symmetry** is over connections and threads, in runs without liveness.

**Fairness.** `DpiDaemon`: weak fairness of each proxy thread, of the analysis
thread (the operating system schedules them; the analysis thread polls) and of
the reset that TCP delivers for data sent to a closed socket. A mutex step needs no
strong fairness, as the instance makes finitely many requests. `ContentPath`:
weak fairness of the thread and of the client's receive; nothing makes a client ask
(`ClientSpec` of `DpiClient` likewise). `PerLatency`: weak fairness of each
program, which does not wait for what it does not need, and of the alarm; a loss is
never fair, and a datagram that is not lost is read in the end.
`WmMatch`: the loop is sequential. Requests, closes, packets and saves are never fair.

## 4. Disagreements between code and documentation

1. `wm_orders` (`Wm.cpp:28`): in some orders of compilation a hit moves the window
   past another occurrence. The auxiliary shift of a block is taken from the shift
   table as it is when the pattern is compiled, and a block first seen at the end
   of a window has 0 there for good, so an occurrence of the block further left in a
   later pattern leaves no trace. The order is that of an `unordered_map`. With the
   nineteen configured patterns in the order libstdc++ yields the case does not arise;
   `CompleteWhenBenign` (section 5) proves the orders that are safe.
2. `controller_save` (`controller.py:89`): a save is enabled on the switch whose
   packet came up first, and s1 is cleared by `monitor.py`; another switch keeps its
   old entries for ever. `README.txt:31` says the new configuration is enabled.
3. `controller_flood` (`controller.py:391`): the entries of priority 2 are installed
   with the flood port and then keep the packets away that would correct them.

Observed and without a run of its own: a save between reading the file and
reading its time (`controller.py:264`) counts as seen and is not used, which
`SavedConfigSeen` excepts (`raced`); an exception in `reset` leaves the switch with
an empty table, no table-miss entry and, if a packet brought it about, with the
save noted as seen (`controller.py:111-159, 307`; the exceptions of `MissInstalled` and
`SavedConfigSeen`); with IP options the ports, and with them the flow, may come from
behind the packet (`Packet.cpp:56-65`; the premise of `OneConversation`), and the search
goes on behind it as far as the options are long, over the pad bytes into what
the memory held before, where it may find a pattern (`SearchesPayload`, `Sound`); `ReadPcap` skips the Ethernet header without subtracting it, so
14 bytes of the next memory are sent with each packet, and counts frames past the
arrays (`StoredFits`); `-a` with an address outside `ip.properties` makes every round but
the first send nothing, and a round that reaches the address of a user turns
packets around (the premises of `RoundsAreWhole` and `RoundsMakeFlows`); frames
of a device may exceed `PACKET_SIZE`; the shell repeats its last command for ever at the
end of its input; `user` prints a part of a pointer for the address; increments of
`m_PacketNum` are lost; the retry of PerLatency's handshake tests the wrong variable
(`client/source/bandwidth.c:19`), and the "Fin" of one client ends the server for
all; the message at `controller.py:416` says "Drop" where
the packet is forwarded; `Packet.cpp:25` tests a bit that IPv6 has as well, so the
branch for IPv6 below it is never taken; with TCP options the search gets the
options and misses as many bytes at the end of the payload; two configured users
that talk to each other make two flows of one conversation; a TCP header longer
than its packet wraps `m_PayloadLen` around, and the search then leaves the buffer.

## 5. Proofs

Everything is proved for every value of the constants, from the assumptions that
the modules name (`DaemonAssumption`, `ClassifierAssumption`, `TableAssumption`,
`PathAssumption`, `ParseAssumption`, `ShellAssumption`, `ClientAssumption`,
`WmAssumption`, `ControllerAssumption`, `TestAssumption`), which
TLC evaluates in the runs. `Spec` is the specification a run checks; where a run
checks a composition, the theorem is stated of `ShellSpec` or `ClientSpec`.

* **DpiDaemonProofs.** The inductive invariant `IInv` adds to `TypeOK`:
  `LocalInv`, what a proxy holds at each point of its loop; `MutexInv`, the
  thread that appends is the one with the mutex; `BenchInv`, when the analysis
  thread is about to pop, the queue has a packet or somebody holds the mutex:
  nobody else removes one; `CtxInv`, stored states are states of their automaton, which
  keeps `Match` away from a null state; `LateInv`, a connection that queued a packet
  of a decided flow has read the verdict when it gets to the check again; and
  `BudgetDecides`, whose only gap is the step between counting and judging.
  `TypeCorrect`, `PopFindsPacketHolds`, `BudgetDecidesHolds` follow from it,
  `VerdictOnceHolds` and `LateOnceHolds` from it and one step, and `Refinement` shows
  that every step is a step of `FlowVerdict` or a stutter: the unlocked read is the
  moment at which an answer is chosen, the `judge` steps are the decisions.
  `PacketsAccountedHolds`: the equation is inductive with the types; the work is in how
  appending to the queue, taking its head and a change of `pc` move the two
  cardinalities by one (`AppendPlaces`, `TailPlaces`, `HandledMore`, `HandledLess`).
  `VerdictJustifiedHolds` needs `JustInv`: of an undecided flow, the stored states are
  those of a run over its payloads, no prefix of them finishes a classifier, there are at
  most `DPI_NUM`, and `m_SduNum` is their number, plus one between counting and judging.
  Without the last part a flow could be given up too early. `RunsRecurrence` shows that
  the recursion has a solution and `RunsAppend` that a payload more is a step more,
  both by an induction stated about a set (`NatSetInduction`), as the library's
  induction theorems take an operator. `EveryPatternCountsHolds` and
  `OneNoteNeedsTwoHolds` assume that the constants are the configured table
  (`Configured`), as in the run, and leave ports, flows, packets and `DPI_NUM` free: they follow
  from `JustInv` and from what runs of these automata can look like (`DirectStep`,
  `OneNoteStep`).
* **FlowTableProofs.** The scratch keys belong to the thread that holds the mutex
  (`MutexInv`, `KeyInv`), and what a thread found or is about to insert agrees with
  its packet (`LocalInv`). `RightContextHolds`, `FlowsUnderTheirUserHolds`, and
  `Refinement` to `FlowRegistry`.
* **PacketParseProofs.** The invariant is that whatever was set was set from the
  packet or from what lies behind it (`Filled`) and that the two packets are opposite.
  `OneConversationHolds` uses that a port inside the packet has one value only. `TypeCorrect`,
  `OneConversationHolds`, `SearchesPayloadHolds` follow.
* **ShellProofs.** A step of the shell or of a counting thread leaves the table's
  variables alone (`TableUnderShell`), which carries the theorems on `FlowTable`
  over. `RatesHoldAlways`: `TotalInv` bounds the total and every loaded value by the
  increments begun, `SinceLook` says that since the first look of `perf` nobody has
  loaded a smaller total. `ListsFlowsHolds` is about a walk of any length: nothing is
  removed (`TableGrows`), iterators point at elements or at what is being inserted
  (`AtInv`), and what the walk has passed is what it has printed, of the flows that
  were there when it began (`PassInv`). That a step goes to the *least* greater
  element needs that every non-empty set of numbers has one; `LeastIs` proves it from
  the well-foundedness of finite sets, as the library's induction theorems cannot be
  used. `CountsFlowsHolds`: each size is read at another time, so what has been added up
  is no number of flows there ever was. `CountInv` bounds it on both sides: at
  most the flows that the users passed have now, and at least those of them that are in some set `S`
  of flows that were there before: all there were when the walk of `mem` began, or as many as
  the first sum of `perf`.
* **DpiClientProofs.** First the stream alone: `NeverStuck` is inductive with
  `Lockstep`, which says that without a torn packet the question, the stream, the
  thread and the answers hold one packet between them; `AnswerMatchesHolds` follows. The
  clients only add reasons to ask, so its `IInv` is kept under them (`AskInv` is for
  packets of any size: `ClientNeverStuck`, `ClientAnswerMatches`). `StoreInv`: the
  arrays hold the first frames of the file in their own lengths. `UserInv`: a stored
  packet has a user exactly if its frame had one, however often it was rewritten, so
  each round ends where the first did. `RoundInv`: below the addresses of the users, the
  round is the other end of every flow made in it. `StoredFitsHolds`,
  `RoundsAreWholeHolds` and `RoundsMakeFlowsHolds` follow.
* **WmMatchProofs.** `IInv` adds to `TypeOK`, `HitsAreCovered` and `Sound` where the
  search starts (`PosInv`). `SoundHolds` and `StaysInBufferHolds` rest on `PadDiffers`: a
  comparison that runs into the pad bytes ends at the first of them, so a match lies
  in front of them or behind them, and the latter takes a length that ends there. `CompleteWhenBenign` is the
  positive side of disagreement 1: it assumes that, in the order at hand, a block that
  a pattern introduced at the end of its window does not turn up further left in a later
  one (`Benign`), and then nothing is missed.
  `OrderInv` says of compilation what the search needs: the shift of a block is at most
  its distance in every pattern compiled so far (`ShiftsFit`), and the auxiliary shift
  after a hit as well (`HitsFit`), the step at which a bad order fails. `PassedInv`
  then carries the window over the payload: what ends before it has been reported.
  `SearchAdvances` says that every step descends in what is left to do (`Left`:
  patterns, then blocks, then bytes), and `LeftIsWellFounded` that this order has no
  infinite descent.
* **ControllerProofs.** `Settled(s)` says what a switch has to expect from its table and
  from the messages on their way; lemmas on sequences say what sending, deleting and
  delivering do to it (`SendSettled`, `DeleteSettled`, `DeliverSettled`). `IInv` adds to
  `TypeOK`: `CtlInv`, a handler runs with its event at the head of the queue;
  `MissInv`, after a reset that went through, no deletion is on its way without a
  table-miss entry behind it, without which `monitor.py`'s entry would be deleted
  again; `KeepInv`, which is `MissInstalled` with the moment between reset and `Stamp`;
  `QueueInv`, the number of queues fits the list in memory; and `SeenInv`, whose point is
  that while a handler for a connecting switch is between reading the file and reading
  its time, `raced` has noted every save, and that what was read or noted during a save
  does no harm, because the end of the save moves the clock again. A reset that broke
  off is remembered in `trouble`, so that `MissInv` and `KeepInv` say of which switches it
  is that they speak. The four properties of the run follow.

* **PerLatencyProofs.** `PastInv` says how far a client has come whose datagram is under
  way, or whom the server answers or has answered: only a client at its end has sent a
  "Fin", and nobody the server has turned to is at the start. With it `NobodyStranded` is
  inductive, duplicates included: a step that leaves a waiting client alone and takes
  none of its datagrams strands nobody (`UndisturbedStep`), and of the others only a loss
  and another client's handshake or "Fin" do. `RepliesMatch` needs `TokenInv`: without
  duplicates, a waiting client's request, the server's work on it and the reply are one
  token, which bears the number of the last request, and there is none of a client that
  does not wait.

Every invariant, every step property and every refinement that a passing run checks is
proved, `Complete` for the orders named. Only model-checked is liveness (`Answered`,
`EventuallyDecided`, `ThreadEnds`, `Terminates`, `Returns`, `TestsEnd`): the prover knows
no rule for fairness. Of `Terminates` the descent is proved, not that a step is taken
while one is possible.

## 6. Not modelled, and the plan

Done, in this order: daemon, tables, search, controller, stream, parser, the
proofs, and then the shell with the statistics, `DpiClient` and `PerLatency`. Left:

1. Controller and daemon composed: a packet on a path of several switches is asked
   about several times and counts several times against `DPI_NUM`; the queue of a
   `PacketOut` (`controller.py:446`).
2. The IPv6 test of the parser as a run of its own.
3. Proofs: theorems about what is modelled under 1 and 2.

Left out for good: logging, the Mininet scripts, the traffic generators in
`src/tool`, and Ryu's sample applications, which neither hold state of this system nor take part
in its protocols; the text format of `config.ini`, which is taken for correct when the
file is whole (a wrong one would be another way to `ResetBreaks`); what happens once
`Search` or `PerfTest` has left its arrays; byte order conversions; the ageing of flow entries, which are
installed without time-outs.
