--------------------------- MODULE DpiClientProofs ---------------------------
(* First the stream of ContentPath, for every size of the buffer and of the  *)
(* packets: nobody waits in vain, and while all packets fit into one read    *)
(* the answers belong to the questions.  Then dpiClient, for any capture     *)
(* file, any ip.properties and any number of rounds.  The stream does not    *)
(* care why a packet is sent, so what is shown of it holds there.  Rewriting *)
(* keeps the length of a packet, and keeps a user in it where one was; the   *)
(* round stands in the flow.                                                 *)
EXTENDS DpiClient, SequenceTheorems, FiniteSetTheorems, TLAPS

-----------------------------------------------------------------------------
(* The stream.                                                               *)

\* A packet of length n is on the stream, alone and complete.
OnlyAsked(n) ==
    /\ Len(stream) = n
    /\ \A i \in 1..n : stream[i] = [of |-> asked, at |-> i]

\* Where the one question is while every packet fits.
Lockstep ==
    ~torn =>
        /\ ~Up => stream = <<>>
        /\ client = "idle" => thread # "send" /\ stream = <<>>
                              /\ (Up => answers = <<>> /\ told = asked)
        /\ client = "wait" /\ Up =>
            \/ /\ thread = "recv" /\ answers = <<>>
               /\ \E n \in 1..Buf : OnlyAsked(n)
            \/ thread = "send" /\ chunk = asked /\ stream = <<>> /\ answers = <<>>
            \/ thread = "recv" /\ stream = <<>> /\ answers = <<asked>>

IInv == TypeOK /\ NeverStuck /\ Lockstep

\* The bytes of a packet, as Ask puts them on the stream.
Bytes(n, size) == [i \in 1..size |-> [of |-> n, at |-> i]]

LEMMA BytesTyped ==
    ASSUME NEW n \in Nat \ {0}, NEW size \in Nat \ {0}
    PROVE  Bytes(n, size) \in Seq(Unit) /\ Len(Bytes(n, size)) = size
BY DEF Bytes, Unit

\* Init establishes the invariant.
LEMMA InitInv == Init => IInv
<1> SUFFICES ASSUME Init
             PROVE  IInv
    OBVIOUS
<1>1. <<>> \in Seq(Unit) /\ <<>> \in Seq(Nat)
    OBVIOUS
<1>2. TypeOK
    BY <1>1 DEF Init, TypeOK
<1>3. NeverStuck /\ Lockstep
    BY DEF Init, NeverStuck, Lockstep, Up
<1> QED BY <1>2, <1>3 DEF IInv

\* A question keeps it, of whatever size.
LEMMA AskInv ==
    ASSUME IInv, NEW size \in Nat \ {0}, Ask(size)
    PROVE  IInv'
<1> USE PathAssumption
<1> DEFINE b == Bytes(asked + 1, size)
<1>1. size \in Nat \ {0} /\ asked + 1 \in Nat \ {0}
    BY DEF IInv, TypeOK
<1>2. b \in Seq(Unit) /\ Len(b) = size
    BY <1>1, BytesTyped
<1>3. stream' = IF Up THEN stream \o b ELSE stream
    BY DEF Ask, Bytes
<1> HIDE DEF b
<1>4. stream \in Seq(Unit)
    BY DEF IInv, TypeOK
<1>5. TypeOK'
    <2>1. stream' \in Seq(Unit)
        BY <1>2, <1>3, <1>4
    <2>2. torn' \in BOOLEAN
        BY DEF Ask
    <2> QED BY <2>1, <2>2, <1>1 DEF IInv, TypeOK, Ask
<1>6. NeverStuck'
    <2>1. Up => stream' # <<>>
        BY <1>2, <1>3, <1>1 DEF IInv, TypeOK
    <2> QED BY <2>1 DEF NeverStuck, Ask, Up
<1>7. Lockstep'
    <2> SUFFICES ASSUME ~torn'
                 PROVE  Lockstep'
        BY DEF Lockstep
    <2>1. ~torn /\ size <= Buf
        <3>1. ~torn /\ ~(size > Buf)
            BY Zenon DEF Ask
        <3> QED BY <3>1, <1>1
    <2>2. CASE Up
        <3>1. stream = <<>> /\ answers = <<>> /\ thread = "recv"
            BY <2>1, <2>2 DEF IInv, Lockstep, Ask, Up, TypeOK
        <3>2. stream' = b
            BY <1>2, <1>3, <2>2, <3>1
        <3>3. OnlyAsked(size)' /\ size \in 1..Buf
            BY <2>1, <3>2, <1>1, <1>2 DEF OnlyAsked, b, Bytes, Ask
        <3>4. /\ thread' = "recv" /\ answers' = <<>>
              /\ client' = "wait" /\ Up'
              /\ \E n \in 1..Buf : OnlyAsked(n)'
            BY <2>2, <3>1, <3>3 DEF Ask, Up
        <3> QED BY <3>4 DEF Lockstep
    <2>3. CASE ~Up
        BY <2>1, <2>3, <1>3 DEF IInv, Lockstep, Ask, Up
    <2> QED BY <2>2, <2>3
<1> QED BY <1>5, <1>6, <1>7 DEF IInv

\* So does a read, of whatever length.
LEMMA ReceiveInv ==
    ASSUME IInv, NEW k \in 1..Buf, Receive(k)
    PROVE  IInv'
<1> USE PathAssumption
<1> DEFINE rest == SubSeq(stream, k + 1, Len(stream))
<1>1. stream \in Seq(Unit) /\ k \in 1..Len(stream) /\ stream # <<>>
    BY DEF IInv, TypeOK, Receive
<1>2. Head(stream) \in Unit /\ Head(stream) = stream[1] /\ 1 \in DOMAIN stream
    BY <1>1
<1>3. rest \in Seq(Unit) /\ Len(rest) = Len(stream) - k
      /\ \A i \in DOMAIN rest : i + k \in DOMAIN stream /\ rest[i] = stream[i + k]
    BY <1>1
<1>5. TypeOK'
    BY <1>2, <1>3 DEF IInv, TypeOK, Receive, Unit
<1>6. NeverStuck'
    BY DEF NeverStuck, Receive
<1>7. Lockstep'
    <2> SUFFICES ASSUME ~torn'
                 PROVE  Lockstep'
        BY DEF Lockstep
    <2>0. ~torn /\ ~(k < Len(stream))
        BY Zenon DEF Receive
    <2>1. /\ client = "wait" /\ answers = <<>>
          /\ \E n \in 1..Buf : OnlyAsked(n)
        BY <1>1, <2>0 DEF IInv, Lockstep, Receive, TypeOK, Up
    <2>2. PICK n \in 1..Buf : OnlyAsked(n)
        BY <2>1
    <2>3. k = n
        BY <2>0, <2>2, <1>1 DEF Receive, OnlyAsked
    <2>4. chunk' = asked /\ stream' = <<>>
        BY <2>2, <2>3, <1>1, <1>2, <1>3 DEF Receive, OnlyAsked
    <2> QED BY <2>1, <2>4 DEF Lockstep, Receive, Up
<1> QED BY <1>5, <1>6, <1>7 DEF IInv

\* And every other step.
LEMMA NextInv == IInv /\ [Next]_vars => IInv'
<1> SUFFICES ASSUME IInv, [Next]_vars
             PROVE  IInv'
    OBVIOUS
<1>1. CASE \E size \in Sizes : Ask(size)
    BY <1>1, AskInv, PathAssumption
<1>2. CASE Take
    <2>1. /\ answers \in Seq(Nat) /\ answers # <<>>
          /\ Head(answers) \in Nat /\ Head(answers) = answers[1]
          /\ Tail(answers) \in Seq(Nat)
          /\ answers = <<asked>> => Tail(answers) = <<>>
        BY <1>2 DEF IInv, TypeOK, Take
    <2>2. TypeOK' /\ NeverStuck'
        BY <1>2, <2>1 DEF IInv, TypeOK, NeverStuck, Take
    <2>3. Lockstep'
        <3> SUFFICES ASSUME ~torn
                     PROVE  Lockstep'
            BY <1>2 DEF Lockstep, Take
        <3>1. CASE Up
            BY <1>2, <2>1, <3>1 DEF IInv, Lockstep, Take, Up
        <3>2. CASE ~Up
            BY <1>2, <3>2, Zenon DEF IInv, Lockstep, Take, Up
        <3> QED BY <3>1, <3>2
    <2> QED BY <2>2, <2>3 DEF IInv
<1>3. CASE TakeNothing
    <2>1. TypeOK' /\ NeverStuck'
        BY <1>3 DEF IInv, TypeOK, NeverStuck, TakeNothing, Up
    <2>2. Lockstep'
        BY <1>3 DEF IInv, TypeOK, Lockstep, TakeNothing, Up
    <2> QED BY <2>1, <2>2 DEF IInv
<1>4. CASE Crash
    <2>1. TypeOK' /\ NeverStuck'
        <3>1. CASE answers' = answers
            BY <1>4, <3>1 DEF IInv, TypeOK, NeverStuck, Crash, Up
        <3>2. CASE answers' = <<>>
            BY <1>4, <3>2 DEF IInv, TypeOK, NeverStuck, Crash, Up
        <3> QED BY <1>4, <3>1, <3>2 DEF Crash
    <2>2. Lockstep'
        BY <1>4 DEF IInv, TypeOK, Lockstep, Crash, Up
    <2> QED BY <2>1, <2>2 DEF IInv
<1>5. CASE \E k \in 1..Buf : Receive(k)
    BY <1>5, ReceiveInv
<1>6. CASE Reply
    <2>1. answers \in Seq(Nat) /\ chunk \in Nat
        BY DEF IInv, TypeOK
    <2>2. /\ answers' \in Seq(Nat) /\ answers' # <<>>
          /\ \A i \in DOMAIN answers' :
                answers'[i] = chunk \/ (i \in DOMAIN answers /\ answers'[i] = answers[i])
          /\ answers = <<>> => answers' = <<chunk>>
        <3>1. answers' = Append(answers, chunk)
            BY <1>6 DEF Reply
        <3>2. /\ answers' \in Seq(Nat) /\ Len(answers') = Len(answers) + 1
              /\ \A i \in 1..Len(answers) : answers'[i] = answers[i]
              /\ answers'[Len(answers) + 1] = chunk
            BY <2>1, <3>1
        <3>3. \A i \in DOMAIN answers' :
                answers'[i] = chunk \/ (i \in DOMAIN answers /\ answers'[i] = answers[i])
            BY <2>1, <3>2, SMTT(30)
        <3>4. answers = <<>> => answers' = <<chunk>>
            BY <3>1
        <3> QED BY <2>1, <3>2, <3>3, <3>4
    <2>3. TypeOK' /\ NeverStuck'
        BY <1>6, <2>2 DEF IInv, TypeOK, NeverStuck, Reply, Up
    <2>4. Lockstep'
        BY <1>6, <2>2 DEF IInv, Lockstep, Reply, Up, TypeOK
    <2> QED BY <2>3, <2>4 DEF IInv
<1>7. CASE Rest
    BY <1>7 DEF IInv, TypeOK, NeverStuck, Lockstep, OnlyAsked, Rest,
                Up, vars
<1>8. CASE UNCHANGED vars
    BY <1>8 DEF IInv, TypeOK, NeverStuck, Lockstep, OnlyAsked, Up,
                vars
<1> QED
    BY <1>1, <1>2, <1>3, <1>4, <1>5, <1>6, <1>7, <1>8 DEF Next, Thread

\* The inductive invariant holds in every state.
THEOREM Invariance == Spec => []IInv
BY InitInv, NextInv, PTL DEF Spec

\* NeverStuck: client and proxy thread never wait for each other, however TCP
\* cuts the bytes.
THEOREM NeverStuckHolds == Spec => []NeverStuck
<1>1. IInv => NeverStuck
    BY DEF IInv
<1> QED BY <1>1, Invariance, PTL

\* AnswerMatches: while packets fit into PACKET_SIZE and are read whole, the
\* class the client uses is that of the packet it asked about.
THEOREM AnswerMatchesHolds == Spec => []AnswerMatches
<1>1. IInv => AnswerMatches
    BY DEF IInv, Lockstep, AnswerMatches
<1> QED BY <1>1, Invariance, PTL

-----------------------------------------------------------------------------
(* The capture file and its packets.                                         *)

\* The arrays hold the first frames, in their own lengths.
StoreInv ==
    /\ PktNum <= Len(file)
    /\ Len(store) = IF PktNum <= MAX_PKT_NUM THEN PktNum ELSE MAX_PKT_NUM
    /\ \A i \in 1..Len(store) : store[i].len = Stored(file[i]).len
    /\ phase # "prepare" => PktNum = Len(file)
    /\ Index <= PktNum /\ Index <= MAX_PKT_NUM
    /\ phase = "past" => PktNum > MAX_PKT_NUM

\* A stored packet has a user if its frame had one, and what perf has sent in
\* this round had one.
UserInv ==
    mode = "perf" /\ UIp \in IpSet \cup {0} =>
        /\ \A i \in 1..Len(store) : HasUser(store[i]) <=> HasUser(file[i])
        /\ \A i \in 1..Index : HasUser(file[i])
        /\ counts \subseteq {Whole}

Below == \A u \in IpSet : NewDstIp < u

\* The round is the other end of a flow.
RoundInv ==
    Below =>
        /\ mode = "perf" => \A m \in made : m.flow[2] = m.round
        /\ mode # "perf" => \A m \in made : m.round = 1
        /\ mode # "perf" /\ phase # "end" => NewDstIp = 1

ClientInv == ClientTypeOK /\ StoreInv /\ UserInv /\ RoundInv

LEMMA ClientInitInv == ClientInit => IInv /\ ClientInv
<1> SUFFICES ASSUME ClientInit
             PROVE  IInv /\ ClientInv
    OBVIOUS
<1>1. IInv
    BY InitInv DEF ClientInit
<1>2. file \in Seq(Frame) /\ UIp \in Nat
    <2>1. CASE file = <<>> /\ UIp = 0
        BY <2>1
    <2>2. CASE file \in Files /\ UIp \in UIps
        BY <2>2, ClientAssumption DEF Frame
    <2> QED
        BY <2>1, <2>2 DEF ClientInit
<1>3. store \in Seq(Frame) /\ store = <<>> /\ Len(store) = 0
    BY DEF ClientInit
<1>4. ClientTypeOK
    BY <1>1, <1>2, <1>3 DEF ClientInit, ClientTypeOK, IInv
<1>5. Len(file) \in Nat
    BY <1>2
<1>6. StoreInv
    <2>1. PktNum = 0 /\ Index = 0 /\ Len(store) = 0
          /\ \A i \in 1..Len(store) : store[i].len = Stored(file[i]).len
        BY <1>3 DEF ClientInit
    <2>2. phase # "prepare" => phase = "send" /\ Len(file) = 0
        BY DEF ClientInit
    <2> QED
        BY <1>5, <2>1, <2>2, ClientAssumption DEF StoreInv, ClientInit
<1>7. UserInv /\ RoundInv
    BY <1>3 DEF ClientInit, UserInv, RoundInv
<1> QED
    BY <1>1, <1>4, <1>6, <1>7 DEF ClientInv

\* Rewriting leaves the length, and a user where one was.
LEMMA RewriteIs ==
    ASSUME NEW p \in Frame, NewDstIp \in Nat, UIp \in Nat
    PROVE  /\ Rewrite(p) \in Frame /\ Rewrite(p).len = p.len
           /\ UIp \in IpSet \cup {0} /\ HasUser(p) => HasUser(Rewrite(p))
           /\ HasUser(p) /\ HasUser(Rewrite(p)) /\ NewDstIp \notin IpSet =>
                 FlowOf(Rewrite(p))[2] = NewDstIp
<1> DEFINE q == Rewrite(p)
<1>1. CASE p.src \in IpSet
    <2>1. q = [src |-> User(p.src), dst |-> NewDstIp, len |-> p.len]
        BY <1>1 DEF Rewrite, Frame
    <2> QED
        BY <1>1, <2>1 DEF User, HasUser, FlowOf, Frame
<1>2. CASE p.src \notin IpSet
    <2>1. q = [src |-> NewDstIp, dst |-> User(p.dst), len |-> p.len]
        BY <1>2 DEF Rewrite, Frame
    <2> QED
        BY <1>2, <2>1 DEF User, HasUser, FlowOf, Frame
<1> QED
    BY <1>1, <1>2

LEMMA FlowOfIs ==
    ASSUME NEW p \in Frame
    PROVE  FlowOf(p) \in Nat \X Nat
BY DEF FlowOf, Frame

\* A frame is read.
LEMMA ReadInv ==
    ASSUME ClientInv, ReadPcap
    PROVE  StoreInv' /\ UserInv' /\ RoundInv' /\ store' \in Seq(Frame) /\ PktNum' \in Nat
<1> USE ClientAssumption DEF ClientInv, ClientTypeOK
<1> DEFINE e == Stored(file[PktNum + 1])
<1>0. UNCHANGED <<vars, mode, file, UIp, phase, Index, NewDstIp, made, counts>>
      /\ PktNum' = PktNum + 1 /\ phase = "prepare" /\ PktNum < Len(file)
      /\ store' = IF PktNum < MAX_PKT_NUM THEN Append(store, e) ELSE store
    BY DEF ReadPcap
<1>1. PktNum + 1 \in 1..Len(file) /\ Len(file) \in Nat /\ Len(store) \in Nat
    BY <1>0
<1>2. file[PktNum + 1] \in Frame
    BY <1>1, ElementOfSeq
<1>3. /\ e \in Frame /\ e.src = file[PktNum + 1].src
      /\ e.dst = file[PktNum + 1].dst
    BY <1>2 DEF Stored, Frame
<1> HIDE DEF e
<1>4. \/ PktNum >= MAX_PKT_NUM /\ store' = store
      \/ /\ PktNum < MAX_PKT_NUM /\ Len(store) = PktNum
         /\ store' \in Seq(Frame) /\ Len(store') = PktNum + 1
         /\ \A i \in 1..PktNum : store'[i] = store[i]
         /\ store'[PktNum + 1] = e
    <2>1. CASE PktNum < MAX_PKT_NUM
        BY <1>0, <1>3, <2>1, AppendProperties DEF StoreInv
    <2>2. CASE ~(PktNum < MAX_PKT_NUM)
        BY <1>0, <2>2
    <2> QED
        BY <2>1, <2>2
<1>5. StoreInv'
    <2>1. PktNum' <= Len(file) /\ Index <= PktNum' /\ phase # "past"
        BY <1>0, <1>1 DEF StoreInv
    <2>2. Len(store') = IF PktNum' <= MAX_PKT_NUM THEN PktNum' ELSE MAX_PKT_NUM
        <3>1. Len(store) = IF PktNum <= MAX_PKT_NUM THEN PktNum ELSE MAX_PKT_NUM
            BY DEF StoreInv
        <3> QED
            BY <1>0, <1>4, <3>1
    <2>3. ASSUME NEW i \in 1..Len(store')
          PROVE  store'[i].len = Stored(file[i]).len
        <3>1. CASE i \in 1..Len(store) /\ store'[i] = store[i]
            BY <3>1 DEF StoreInv
        <3>2. CASE i = PktNum + 1 /\ store'[i] = e
            BY <3>2 DEF e
        <3> QED
            BY <1>4, <3>1, <3>2
    <2> QED
        BY <1>0, <2>1, <2>2, <2>3 DEF StoreInv, Stored
<1>6. UserInv'
    <2> SUFFICES ASSUME mode = "perf" /\ UIp \in IpSet \cup {0}
                 PROVE  /\ \A i \in 1..Len(store') : HasUser(store'[i]) <=> HasUser(file[i])
                        /\ \A i \in 1..Index : HasUser(file[i])
                        /\ counts \subseteq {Whole}
        BY <1>0 DEF UserInv, Whole, HasUser
    <2>1. ASSUME NEW i \in 1..Len(store')
          PROVE  HasUser(store'[i]) <=> HasUser(file[i])
        <3>1. CASE i \in 1..Len(store)
            BY <1>0, <1>1, <1>4, <3>1 DEF UserInv
        <3>2. CASE i = PktNum + 1 /\ store'[i] = e
            BY <1>3, <3>2 DEF HasUser
        <3> QED
            BY <1>1, <1>4, <3>1, <3>2
    <2> QED
        BY <2>1 DEF UserInv
<1>7. RoundInv'
    BY <1>0 DEF RoundInv, Below
<1> QED
    BY <1>0, <1>4, <1>5, <1>6, <1>7

\* A packet of the file is sent, and rewritten for the next round.
LEMMA SendInv ==
    ASSUME ClientInv, SendStored
    PROVE  /\ \E size \in Nat \ {0} : Ask(size)
           /\ StoreInv' /\ UserInv' /\ RoundInv' /\ store' \in Seq(Frame)
           /\ Index' \in Nat /\ made' \subseteq [round : Nat, flow : Nat \X Nat]
<1> USE ClientAssumption DEF ClientInv, ClientTypeOK
<1> DEFINE n == Index + 1
           p == store[n]
           q == IF mode = "perf" THEN Rewrite(p) ELSE p
<1>0. /\ UNCHANGED <<mode, file, UIp, phase, PktNum, NewDstIp, counts>>
      /\ phase = "send" /\ Index < PktNum /\ Index < MAX_PKT_NUM /\ Index' = n
    BY DEF SendStored, AtPacket
<1>1. /\ mode = "perf" => HasUser(p)
      /\ Ask(q.len)
      /\ store' = [store EXCEPT ![n] = q]
      /\ made' = IF HasUser(q)
                 THEN made \cup {[round |-> NewDstIp, flow |-> FlowOf(q)]}
                 ELSE made
    BY DEF SendStored
<1>2. /\ Len(store) \in Nat /\ Len(file) \in Nat
      /\ n \in 1..Len(store) /\ n \in 1..Len(file)
    BY <1>0 DEF StoreInv
<1>3. p \in Frame
    BY <1>2, ElementOfSeq
<1> HIDE DEF p
<1>4. /\ q \in Frame /\ q.len = p.len
      /\ mode # "perf" => q = p
      /\ mode = "perf" /\ UIp \in IpSet \cup {0} => HasUser(q)
      /\ mode = "perf" /\ HasUser(q) /\ NewDstIp \notin IpSet =>
            FlowOf(q)[2] = NewDstIp
    BY <1>1, <1>3, RewriteIs
<1> HIDE DEF q
<1>5. /\ store' \in Seq(Frame) /\ Len(store') = Len(store)
      /\ \A j \in 1..Len(store) : store'[j] = IF j = n THEN q ELSE store[j]
    BY <1>1, <1>2, <1>4, ExceptSeq
<1> HIDE DEF n
<1>6. \E size \in Nat \ {0} : Ask(size)
    <2>1. q.len \in Nat \ {0}
        BY <1>4 DEF Frame
    <2> QED
        BY <1>1, <2>1
<1>7. StoreInv'
    <2>1. \A i \in 1..Len(store') : store'[i].len = Stored(file[i]).len
        BY <1>4, <1>5 DEF StoreInv, p
    <2>2. Index' <= PktNum /\ Index' <= MAX_PKT_NUM
        BY <1>0 DEF n
    <2> QED
        BY <1>0, <1>5, <2>1, <2>2 DEF StoreInv
<1>8. UserInv'
    <2> SUFFICES ASSUME mode = "perf", UIp \in IpSet \cup {0}
                 PROVE  /\ \A i \in 1..Len(store') :
                              HasUser(store'[i]) <=> HasUser(file[i])
                        /\ \A i \in 1..Index' : HasUser(file[i])
                        /\ counts \subseteq {Whole}
        BY <1>0 DEF UserInv, Whole, HasUser
    <2>1. HasUser(p) /\ HasUser(q) /\ HasUser(file[n])
        BY <1>1, <1>2, <1>4 DEF UserInv, p
    <2>2. \A i \in 1..Len(store') : HasUser(store'[i]) <=> HasUser(file[i])
        BY <1>5, <2>1 DEF UserInv
    <2>3. \A i \in 1..Index' : i \in 1..Index \/ i = n
        BY <1>0 DEF n
    <2> QED
        BY <2>1, <2>2, <2>3 DEF UserInv
<1>9. FlowOf(q) \in Nat \X Nat
    BY <1>4, FlowOfIs
<1>10. RoundInv'
    <2> SUFFICES ASSUME Below
                 PROVE  /\ mode = "perf" => \A m \in made' : m.flow[2] = m.round
                        /\ mode # "perf" => \A m \in made' : m.round = 1
                        /\ mode # "perf" /\ phase # "end" => NewDstIp = 1
        BY <1>0 DEF RoundInv, Below
    <2>1. NewDstIp \notin IpSet
        BY DEF Below
    <2>2. \A m \in made' : \/ m \in made
                           \/ /\ HasUser(q)
                              /\ m = [round |-> NewDstIp, flow |-> FlowOf(q)]
        BY <1>1
    <2>3. ASSUME mode = "perf", NEW m \in made'
          PROVE  m.flow[2] = m.round
        BY <1>4, <2>1, <2>2, <2>3 DEF RoundInv
    <2>4. ASSUME mode # "perf", NEW m \in made'
          PROVE  m.round = 1
        BY <1>0, <2>2, <2>4 DEF RoundInv
    <2> QED
        BY <2>3, <2>4 DEF RoundInv
<1>11. made' \subseteq [round : Nat, flow : Nat \X Nat]
    BY <1>1, <1>9
<1>12. Index' \in Nat
    BY <1>0 DEF n
<1> QED
    BY <1>5, <1>6, <1>7, <1>8, <1>10, <1>11, <1>12

\* A round that ends at the end of the file, or at a frame without a user, has
\* sent the frames before.
LEMMA WholeIs ==
    ASSUME NEW n \in Nat, n <= Len(file), Len(file) \in Nat,
           \A i \in 1..n : HasUser(file[i]),
           n = Len(file) \/ ~HasUser(file[n + 1])
    PROVE  Whole = n
<1> DEFINE W == {i \in 1..Len(file) : \A j \in 1..i : HasUser(file[j])}
<1>1. ASSUME NEW i \in 1..n
      PROVE  i \in W
    BY <1>1
<1>2. ASSUME NEW i \in W
      PROVE  i \in 1..n
    <2>1. i \in 1..Len(file) /\ \A j \in 1..i : HasUser(file[j])
        OBVIOUS
    <2>2. CASE i > n
        <3>1. n + 1 \in 1..i /\ n # Len(file)
            BY <2>1, <2>2
        <3> QED
            BY <2>1, <3>1
    <2> QED
        BY <2>1, <2>2
<1>3. W = 1..n
    BY <1>1, <1>2
<1>4. Cardinality(1..n) = n
    BY FS_Interval
<1> QED
    BY <1>3, <1>4 DEF Whole

\* The inner loop ends.
LEMMA RoundEndInv ==
    ASSUME ClientInv, EndRound \/ BreakRound
    PROVE  /\ UNCHANGED vars
           /\ StoreInv' /\ UserInv' /\ RoundInv'
           /\ Index' \in Nat /\ NewDstIp' \in Nat /\ counts' \subseteq Nat
<1> USE ClientAssumption DEF ClientInv, ClientTypeOK
<1>0. /\ UNCHANGED <<vars, mode, file, UIp, PktNum, store, made>>
      /\ phase = "send" /\ NewDstIp' = NewDstIp + 1
      /\ counts' = counts \cup {Index}
      /\ Index' = IF mode = "perf" THEN 0 ELSE Index
      /\ phase' = IF mode = "perf" THEN "send" ELSE "end"
    BY DEF EndRound, BreakRound, NextRound, AtPacket
<1>1. \/ Index >= PktNum
      \/ Index < PktNum /\ Index < MAX_PKT_NUM /\ ~HasUser(store[Index + 1])
    BY DEF EndRound, BreakRound, AtPacket
<1>2. Len(file) \in Nat /\ PktNum = Len(file) /\ Index <= PktNum
    BY <1>0 DEF StoreInv
<1>2a. Index < PktNum /\ Index < MAX_PKT_NUM => Index + 1 \in 1..Len(store)
    <2> SUFFICES ASSUME Index < PktNum, Index < MAX_PKT_NUM
                 PROVE  Index + 1 >= 1 /\ Index + 1 <= Len(store)
        OBVIOUS
    <2>1. Len(store) = PktNum \/ Len(store) = MAX_PKT_NUM
        BY DEF StoreInv
    <2>2. Index \in Nat /\ PktNum \in Nat /\ MAX_PKT_NUM \in Nat
        OBVIOUS
    <2> QED
        BY <2>1, <2>2
<1>3. StoreInv'
    BY <1>0, <1>2 DEF StoreInv
<1>4. UserInv'
    <2> SUFFICES ASSUME mode = "perf", UIp \in IpSet \cup {0}
                 PROVE  /\ \A i \in 1..Index' : HasUser(file[i])
                        /\ Index = Whole
        BY <1>0 DEF UserInv, Whole, HasUser
    <2>1. \A i \in 1..Index' : HasUser(file[i])
        BY <1>0
    <2>2. Index = Len(file) \/ ~HasUser(file[Index + 1])
        <3>1. CASE Index >= PktNum
            BY <1>2, <3>1
        <3>2. CASE Index < PktNum /\ Index < MAX_PKT_NUM
                   /\ ~HasUser(store[Index + 1])
            BY <1>2a, <3>2 DEF UserInv
        <3> QED
            BY <1>1, <3>1, <3>2
    <2>3. Whole = Index
        BY <1>2, <2>2, WholeIs DEF UserInv
    <2> QED
        BY <2>1, <2>3
<1>5. RoundInv'
    <2>1. Below' => Below
        BY <1>0 DEF Below
    <2> QED
        BY <1>0, <2>1 DEF RoundInv
<1> QED
    BY <1>0, <1>3, <1>4, <1>5

-----------------------------------------------------------------------------
(* Every step.                                                               *)

LEMMA ClientNextInv ==
    ASSUME IInv, ClientInv, [ClientNext]_allVars
    PROVE  IInv' /\ ClientInv'
<1> USE ClientAssumption
<1>1. ASSUME IInv', UNCHANGED clientVars
      PROVE  ClientInv'
    BY <1>1 DEF ClientInv, ClientTypeOK, StoreInv, UserInv, RoundInv, Below,
                Whole, HasUser, Stored, IInv, clientVars, fileVars
<1>2. ASSUME IInv',
             UNCHANGED <<mode, file, UIp, PktNum, store, Index, NewDstIp,
                         made, counts>>,
             \/ phase = "prepare" /\ PktNum = Len(file) /\ phase' = "send"
             \/ phase = "send" /\ phase' = "end"
             \/ phase = "send" /\ phase' = "past" /\ PktNum > MAX_PKT_NUM
      PROVE  ClientInv'
    <2>1. ClientTypeOK'
        BY <1>2 DEF ClientInv, ClientTypeOK, IInv
    <2>2. StoreInv' /\ UserInv' /\ RoundInv'
        BY <1>2 DEF ClientInv, StoreInv, UserInv, RoundInv, Below, Whole,
                    HasUser, Stored
    <2> QED
        BY <2>1, <2>2 DEF ClientInv
<1>3. CASE AskContent
    <2>1. IInv' /\ UNCHANGED clientVars
        BY <1>3, AskInv, PathAssumption DEF AskContent
    <2> QED
        BY <1>1, <2>1
<1>4. CASE SendCaptured
    <2>1. PICK len \in Live : len >= MinCap /\ Ask(len - ETH_HEADER_LEN)
        BY <1>4 DEF SendCaptured
    <2>2. len - ETH_HEADER_LEN \in Nat \ {0}
        BY <2>1
    <2>3. IInv' /\ UNCHANGED clientVars
        BY <1>4, <2>1, <2>2, AskInv DEF SendCaptured
    <2> QED
        BY <1>1, <2>3
<1>5. CASE ReadPcap
    <2>1. IInv' /\ UNCHANGED <<mode, file, UIp, phase, Index, NewDstIp, made, counts>>
        BY <1>5, NextInv DEF ReadPcap
    <2>2. ClientTypeOK'
        BY <1>5, <2>1, ReadInv DEF ClientInv, ClientTypeOK, IInv
    <2> QED
        BY <1>5, <2>1, <2>2, ReadInv DEF ClientInv
<1>6. CASE Prepared
    <2>1. IInv'
        BY <1>6, NextInv DEF Prepared
    <2> QED
        BY <1>2, <1>6, <2>1 DEF Prepared
<1>7. CASE SendStored
    <2>1. IInv'
        BY <1>7, SendInv, AskInv
    <2>2. ClientTypeOK'
        BY <1>7, <2>1, SendInv DEF ClientInv, ClientTypeOK, IInv, SendStored
    <2> QED
        BY <1>7, <2>1, <2>2, SendInv DEF ClientInv
<1>8. CASE RunPast
    <2>1. IInv'
        BY <1>8, NextInv DEF RunPast
    <2>2. PktNum > MAX_PKT_NUM
        BY <1>8 DEF RunPast, AtPacket, ClientInv, ClientTypeOK
    <2> QED
        BY <1>2, <1>8, <2>1, <2>2 DEF RunPast, AtPacket
<1>9. CASE EndRound \/ BreakRound
    <2>1. IInv'
        BY <1>9, RoundEndInv, NextInv
    <2>2. ClientTypeOK'
        BY <1>9, <2>1, RoundEndInv
        DEF ClientInv, ClientTypeOK, IInv, EndRound, BreakRound, NextRound
    <2> QED
        BY <1>9, <2>1, <2>2, RoundEndInv DEF ClientInv
<1>10. CASE Killed
    <2>1. IInv'
        BY <1>10, NextInv DEF Killed
    <2> QED
        BY <1>2, <1>10, <2>1 DEF Killed
<1>11. CASE Exchange \/ Daemon \/ (Crash /\ UNCHANGED clientVars)
    <2>1. IInv' /\ UNCHANGED clientVars
        BY <1>11, NextInv DEF Exchange, Daemon, Next
    <2> QED
        BY <1>1, <2>1
<1>12. CASE UNCHANGED allVars
    <2>1. IInv' /\ UNCHANGED clientVars
        BY <1>12, NextInv DEF allVars
    <2> QED
        BY <1>1, <2>1
<1> QED
    BY <1>3, <1>4, <1>5, <1>6, <1>7, <1>8, <1>9, <1>10, <1>11, <1>12
    DEF ClientNext, ClientRest

\* The inductive invariant of the stream and of its clients.
LEMMA ClientInvariance == ClientSpec => [](IInv /\ ClientInv)
BY ClientInitInv, ClientNextInv, PTL DEF ClientSpec

-----------------------------------------------------------------------------
(* What it is for.                                                           *)

\* NeverStuck, with the packets the clients really send.
THEOREM ClientNeverStuck == ClientSpec => []NeverStuck
<1>1. IInv => NeverStuck
    BY DEF IInv
<1> QED
    BY <1>1, ClientInvariance, PTL

\* AnswerMatches, with the packets the clients really send.
THEOREM ClientAnswerMatches == ClientSpec => []AnswerMatches
<1>1. IInv => AnswerMatches
    BY DEF IInv, Lockstep, AnswerMatches
<1> QED
    BY <1>1, ClientInvariance, PTL

\* ClientTypeOK: every variable keeps its type.
THEOREM ClientTypeCorrect == ClientSpec => []ClientTypeOK
<1>1. ClientInv => ClientTypeOK
    BY DEF ClientInv
<1> QED
    BY <1>1, ClientInvariance, PTL

\* StoredFits: ReadPcap cuts every packet to what the daemon reads at once, and
\* PerfTest leaves its arrays only with a file larger than they are.
THEOREM StoredFitsHolds == ClientSpec => []StoredFits
<1>1. ClientInv => StoredFits
    <2> SUFFICES ASSUME ClientInv
                 PROVE  StoredFits
        OBVIOUS
    <2> USE ClientAssumption, PathAssumption DEF ClientInv, ClientTypeOK
    <2>1. Len(file) \in Nat /\ Len(store) \in Nat /\ Len(store) <= Len(file)
        BY DEF StoreInv
    <2>2. ASSUME NEW i \in 1..Len(store)
          PROVE  /\ store[i].len <= Buf
                 /\ file[i].len - ETH_HEADER_LEN <= store[i].len
                    \/ store[i].len = PKT_LEN
                 /\ store[i].len <= file[i].len
        <3>1. i \in 1..Len(file)
            BY <2>1
        <3>2. file[i] \in Frame
            BY <3>1, ElementOfSeq
        <3>3. store[i].len = IF file[i].len > PKT_LEN THEN PKT_LEN
                             ELSE file[i].len
            BY <3>2 DEF StoreInv, Stored, Frame
        <3>4. file[i].len \in Nat
            BY <3>2 DEF Frame
        <3> QED
            BY <3>3, <3>4
    <2>3. phase = "past" => Len(file) > MAX_PKT_NUM
        BY DEF StoreInv
    <2>4. Len(store) <= MAX_PKT_NUM
        BY DEF StoreInv
    <2> QED
        BY <2>2, <2>3, <2>4 DEF StoredFits
<1> QED
    BY <1>1, ClientInvariance, PTL

\* RoundsMakeFlows: perf makes flows the daemon has not seen, as long as the
\* rounds are below every address of a user.
THEOREM RoundsMakeFlowsHolds == ClientSpec => []RoundsMakeFlows
<1>1. ClientInv => RoundsMakeFlows
    BY Zenon DEF ClientInv, RoundInv, Below, RoundsMakeFlows
<1> QED
    BY <1>1, ClientInvariance, PTL

\* RoundsAreWhole: rewriting in place takes no packet out of a later round.
THEOREM RoundsAreWholeHolds == ClientSpec => []RoundsAreWhole
<1>1. ClientInv => RoundsAreWhole
    BY Zenon DEF ClientInv, UserInv, RoundsAreWhole
<1> QED
    BY <1>1, ClientInvariance, PTL
=============================================================================
