--------------------------- MODULE ControllerProofs ---------------------------
(* The controller and its switches, for any configurations, flows, switches  *)
(* and packets: the switch that was reset last forwards by the configuration *)
(* in memory into queues that it has, every switch keeps its table-miss      *)
(* entry, and no save is missed but in the ways that the properties name.    *)
EXTENDS Controller, SequenceTheorems, FiniteSetTheorems, WellFoundedInduction,
        TLAPS

-----------------------------------------------------------------------------
(* Types.                                                                    *)

LEMMA EventIs ==
    ASSUME TypeOK, inbox # <<>>
    PROVE  /\ ev \in Event /\ ev.at \in Switches /\ Tail(inbox) \in Seq(Event)
           /\ ev.kind # Features => ev.flow \in Flows
<1>1. ev \in Event /\ Tail(inbox) \in Seq(Event)
    <2>1. inbox \in Seq(Event)
        BY DEF TypeOK
    <2> QED
        BY <2>1, HeadTailProperties DEF ev
<1> QED
    BY <1>1 DEF Event, ev

\* A handler runs with its event at the head of the queue.
CtlInv ==
    /\ ctl # "idle" => inbox # <<>>
    /\ ctl \in {"learn", "answer"} => ev.kind # Features
    /\ ctl = "stamp" => ev.kind = Features
    /\ ctl = "answer" => mem.mode = 3
    /\ ctl = "qos" => resetAt = ev.at /\ trouble[ev.at] = "none"

LEMMA MessageIs ==
    /\ Delete \in Message /\ Miss \in Message /\ Delete # Miss
    /\ \A e \in Entry : Add(e) \in Message /\ Add(e) # Delete /\ Add(e) # Miss
                        /\ Add(e).type = "add" /\ Add(e).entry = e
    /\ Miss.type # "add" /\ Delete.type # "add"
    /\ Out # Delete /\ Out # Miss /\ Out.type # "add"
    /\ (ev.flow \in Flows => Out \in Message)
<1>1. Delete \in Message /\ Miss \in Message /\ Delete # Miss
      /\ Miss.type # "add" /\ Delete.type # "add"
    BY DEF Delete, Miss, Message
<1>2. ASSUME NEW e \in Entry
      PROVE  Add(e) \in Message /\ Add(e) # Delete /\ Add(e) # Miss
             /\ Add(e).type = "add" /\ Add(e).entry = e
    <2>1. Add(e).type = "add" /\ Add(e).entry = e
        BY DEF Add
    <2>2. Delete.type = "delete" /\ Miss.type = "miss"
        BY DEF Delete, Miss
    <2>3. Add(e) \in [type : {"add"}, entry : Entry]
        BY DEF Add
    <2> QED
        BY <2>1, <2>2, <2>3 DEF Message
<1>3. Out # Delete /\ Out # Miss /\ Out.type # "add"
    <2>1. Out.type = "out" /\ Delete.type = "delete" /\ Miss.type = "miss"
        BY DEF Out, Delete, Miss
    <2> QED
        BY <2>1
<1>4. ASSUME ev.flow \in Flows
      PROVE  Out \in Message
    <2>1. Out \in [type : {"out"}, flow : Flows]
        BY <1>4 DEF Out
    <2> QED
        BY <2>1 DEF Message
<1> QED
    BY <1>1, <1>2, <1>3, <1>4

\* Every set of numbers has a first one.
LEMMA FirstIs ==
    ASSUME NEW I \in SUBSET Nat, I # {}
    PROVE  Min(I) \in I
<1> DEFINE below(x) == {y \in I : y < x}
           B == {below(x) : x \in I}
<1>1. B \subseteq FiniteSubsetsOf(I) /\ B # {}
    <2>1. ASSUME NEW x \in I
          PROVE  IsFiniteSet(below(x))
        <3>1. x \in Nat /\ below(x) \in SUBSET Nat
            OBVIOUS
        <3>2. \A y \in below(x) : y <= x
            BY <3>1
        <3> QED
            BY <3>1, <3>2, FS_BoundedSetOfNaturals
    <2> QED
        BY <2>1 DEF FiniteSubsetsOf
<1>2. PICK b \in B : \A c \in B : ~(<<c, b>> \in StrictSubsetOrdering(I))
    BY <1>1, FS_StrictSubsetOrderingWellFounded, WFMin
<1>3. PICK x \in I : b = below(x)
    OBVIOUS
<1>4. ASSUME NEW y \in I, ~(x <= y)
      PROVE  FALSE
    <2>1. x \in Nat /\ y \in Nat /\ y < x
        BY <1>4
    <2>2. y \in below(x) /\ y \notin below(y)
        BY <2>1
    <2>3. ASSUME NEW z \in below(y)
          PROVE  z \in below(x)
        <3>1. z \in I /\ z \in Nat /\ z < y
            OBVIOUS
        <3> QED
            BY <2>1, <3>1
    <2>4. <<below(y), b>> \in StrictSubsetOrdering(I)
        BY <1>3, <2>2, <2>3 DEF StrictSubsetOrdering
    <2> QED
        BY <1>2, <2>4
<1> QED
    BY <1>4 DEF Min

\* The queue of a content class is its own, or the last one.
LEMMA QueueIs ==
    ASSUME mem \in Config, NEW k
    PROVE  /\ QueueOf(k) \in 0..Len(mem.classes)
           /\ \/ /\ QueueOf(k) + 1 \in DOMAIN mem.classes
                 /\ mem.classes[QueueOf(k) + 1] = k
              \/ /\ QueueOf(k) = Len(mem.classes)
                 /\ \A i \in DOMAIN mem.classes : mem.classes[i] # k
<1> DEFINE q == mem.classes
           I == {i \in 1..Len(q) : q[i] = k}
<1>1. q \in Seq(Class) /\ DOMAIN q = 1..Len(q) /\ Len(q) \in Nat
    BY DEF Config
<1>2. CASE I = {}
    BY <1>1, <1>2 DEF QueueOf
<1>3. CASE I # {}
    <2>1. QueueOf(k) = Min(I) - 1
        BY <1>1, <1>3 DEF QueueOf, SelectInSeq
    <2>2. Min(I) \in I
        <3>1. I \in SUBSET Nat
            BY <1>1
        <3> QED
            BY <1>3, <3>1, FirstIs
    <2> HIDE DEF I
    <2>3. Min(I) \in 1..Len(q) /\ q[Min(I)] = k
        BY <2>2 DEF I
    <2>4. QueueOf(k) + 1 = Min(I) /\ QueueOf(k) \in 0..Len(q)
        BY <1>1, <2>1, <2>3
    <2> QED
        BY <1>1, <2>3, <2>4
<1> QED
    BY <1>2, <1>3
-----------------------------------------------------------------------------
(* Messages on their way.                                                    *)

\* No deletion among the messages of q; those that no deletion follows.
Clean(q) == \A i \in DOMAIN q : q[i] # Delete
After(q) ==
    {q[i] : i \in {i \in DOMAIN q : \A j \in i..Len(q) : q[j] # Delete}}

LEMMA AfterIs ==
    ASSUME NEW q \in Seq(Message), NEW m
    PROVE  m \in After(q) <=>
               \E i \in 1..Len(q) : q[i] = m /\ \A j \in i..Len(q) : q[j] # Delete
BY DEF After

\* More messages without a deletion.
LEMMA CleanJoin ==
    ASSUME NEW q \in Seq(Message), NEW r \in Seq(Message), Clean(r)
    PROVE  /\ Clean(q \o r) <=> Clean(q)
           /\ After(q \o r) = After(q) \cup {r[i] : i \in 1..Len(r)}
<1> DEFINE l == Len(q)
           all == q \o r
<1>1. /\ all \in Seq(Message) /\ l \in Nat /\ Len(r) \in Nat
      /\ Len(all) = l + Len(r)
      /\ \A i \in 1..l : all[i] = q[i]
      /\ \A i \in 1..Len(r) : all[l + i] = r[i] /\ r[i] # Delete
    <2>1. /\ all \in Seq(Message) /\ Len(all) = l + Len(r)
          /\ \A i \in 1..(l + Len(r)) :
                all[i] = IF i <= l THEN q[i] ELSE r[i - l]
        BY ConcatProperties
    <2>2. l \in Nat /\ Len(r) \in Nat /\ DOMAIN r = 1..Len(r)
        BY LenProperties
    <2> HIDE DEF all, l
    <2>3. ASSUME NEW i \in 1..l
          PROVE  all[i] = q[i]
        BY <2>1, <2>2
    <2>4. ASSUME NEW i \in 1..Len(r)
          PROVE  all[l + i] = r[i]
        <3>1. l + i \in 1..(l + Len(r)) /\ ~(l + i <= l) /\ (l + i) - l = i
            BY <2>2
        <3> QED
            BY <2>1, <3>1
    <2> QED
        BY <2>1, <2>2, <2>3, <2>4 DEF Clean
<1> HIDE DEF all, l
<1>2. ASSUME NEW k \in 1..Len(all), k \notin 1..l
      PROVE  k - l \in 1..Len(r) /\ all[k] = r[k - l] /\ all[k] # Delete
    <2>1. k - l \in 1..Len(r) /\ l + (k - l) = k
        BY <1>1, <1>2
    <2> QED
        BY <1>1, <2>1
<1>3. 1..l \subseteq 1..Len(all)
    BY <1>1
<1>4. Clean(all) <=> Clean(q)
    <2>1. DOMAIN all = 1..Len(all) /\ DOMAIN q = 1..l
        BY <1>1 DEF l
    <2> QED
        BY <1>1, <1>2, <1>3, <2>1 DEF Clean
<1>5. ASSUME NEW m
      PROVE  m \in After(all) <=> m \in After(q) \cup {r[i] : i \in 1..Len(r)}
    <2>1. ASSUME m \in After(all)
          PROVE  m \in After(q) \cup {r[i] : i \in 1..Len(r)}
        <3>1. PICK i \in 1..Len(all) :
                    all[i] = m /\ \A j \in i..Len(all) : all[j] # Delete
            <4>1. all \in Seq(Message)
                BY <1>1
            <4> QED
                BY <2>1, <4>1, AfterIs
        <3>2. CASE i \in 1..l
            <4>1. ASSUME NEW j \in i..l
                  PROVE  q[j] # Delete
                <5>1. j \in i..Len(all) /\ j \in 1..l
                    BY <1>1, <3>2
                <5> QED
                    BY <1>1, <3>1, <5>1
            <4>2. q[i] = m
                BY <1>1, <3>1, <3>2
            <4> QED
                BY <3>2, <4>1, <4>2, AfterIs DEF l
        <3>3. CASE i \notin 1..l
            BY <1>2, <3>1, <3>3
        <3> QED
            BY <3>2, <3>3
    <2>2. ASSUME m \in After(q)
          PROVE  m \in After(all)
        <3>1. PICK i \in 1..l : q[i] = m /\ \A j \in i..l : q[j] # Delete
            BY <2>2, AfterIs DEF l
        <3>2. ASSUME NEW j \in i..Len(all)
              PROVE  all[j] # Delete
            <4>1. CASE j \in 1..l
                <5>1. j \in i..l
                    BY <4>1
                <5> QED
                    BY <1>1, <3>1, <4>1, <5>1
            <4>2. CASE j \notin 1..l
                <5>1. j \in 1..Len(all)
                    BY <1>1
                <5> QED
                    BY <1>2, <4>2, <5>1
            <4> QED
                BY <4>1, <4>2
        <3>3. i \in 1..Len(all) /\ all[i] = m
            BY <1>1, <1>3, <3>1
        <3> QED
            BY <1>1, <3>2, <3>3, AfterIs
    <2>3. ASSUME NEW i \in 1..Len(r), m = r[i]
          PROVE  m \in After(all)
        <3>1. l + i \in 1..Len(all) /\ all[l + i] = m
            BY <1>1, <2>3
        <3>2. ASSUME NEW j \in (l + i)..Len(all)
              PROVE  all[j] # Delete
            <4>1. j \in 1..Len(all) /\ j \notin 1..l
                BY <1>1
            <4> QED
                BY <1>2, <4>1
        <3> QED
            BY <1>1, <3>1, <3>2, AfterIs
    <2> QED
        BY <2>1, <2>2, <2>3
<1> QED
    BY <1>4, <1>5 DEF all

\* A deletion behind the rest.
LEMMA DeleteJoin ==
    ASSUME NEW q \in Seq(Message)
    PROVE  ~Clean(q \o <<Delete>>) /\ After(q \o <<Delete>>) = {}
<1> DEFINE l == Len(q) + 1
           all == q \o <<Delete>>
<1>1. all \in Seq(Message) /\ Len(all) = l /\ l \in Nat \ {0} /\ all[l] = Delete
    <2>1. Delete \in Message
        BY MessageIs
    <2>2. <<Delete>> \in Seq(Message) /\ Len(<<Delete>>) = 1 /\ <<Delete>>[1] = Delete
        BY <2>1
    <2>3. Len(q) \in Nat
        BY LenProperties
    <2>4. /\ all \in Seq(Message) /\ Len(all) = Len(q) + 1
          /\ \A i \in 1..(Len(q) + 1) :
                all[i] = IF i <= Len(q) THEN q[i] ELSE <<Delete>>[i - Len(q)]
        BY <2>2, ConcatProperties
    <2>5. l \in 1..(Len(q) + 1) /\ ~(l <= Len(q)) /\ l - Len(q) = 1
        BY <2>3
    <2> QED
        BY <2>2, <2>3, <2>4, <2>5
<1> HIDE DEF all, l
<1>2. ~Clean(all)
    BY <1>1 DEF Clean
<1>3. ASSUME NEW m
      PROVE  m \notin After(all)
    <2>1. ASSUME NEW i \in 1..l
          PROVE  l \in i..l
        BY <1>1
    <2> QED
        BY <1>1, <2>1, AfterIs
<1> QED
    BY <1>2, <1>3 DEF all

\* The first message leaves.
LEMMA TailIs ==
    ASSUME NEW q \in Seq(Message), q # <<>>
    PROVE  /\ Head(q) \in Message /\ Tail(q) \in Seq(Message)
           /\ Clean(q) => Head(q) # Delete /\ Clean(Tail(q)) /\ Head(q) \in After(q)
           /\ Clean(Tail(q)) /\ Head(q) # Delete => Clean(q)
           /\ After(Tail(q)) \subseteq After(q)
           /\ \A m \in After(q) :
                 m \in After(Tail(q)) \/ (m = Head(q) /\ Clean(q))
<1> DEFINE t == Tail(q)
<1>1. /\ Head(q) \in Message /\ Head(q) = q[1]
      /\ t \in Seq(Message) /\ Len(q) \in Nat \ {0} /\ Len(t) = Len(q) - 1
      /\ \A i \in 1..Len(t) : t[i] = q[i + 1]
      /\ DOMAIN q = 1..Len(q) /\ DOMAIN t = 1..Len(t)
    BY HeadTailProperties, EmptySeq, LenProperties
<1> HIDE DEF t
<1>2. ASSUME NEW i \in 2..Len(q)
      PROVE  i - 1 \in 1..Len(t) /\ t[i - 1] = q[i]
    <2>1. i - 1 \in 1..Len(t) /\ (i - 1) + 1 = i
        BY <1>1
    <2> QED
        BY <1>1, <2>1
<1>3. ASSUME NEW i \in 1..Len(t)
      PROVE  i + 1 \in 2..Len(q) /\ i + 1 \in 1..Len(q) /\ t[i] = q[i + 1]
    BY <1>1
<1>4. ASSUME Clean(q)
      PROVE  Head(q) # Delete /\ Clean(t) /\ Head(q) \in After(q)
    <2>1. \A i \in 1..Len(q) : q[i] # Delete
        BY <1>1, <1>4 DEF Clean
    <2>2. 1 \in 1..Len(q)
        BY <1>1
    <2>3. Clean(t)
        BY <1>1, <1>3, <2>1 DEF Clean
    <2> QED
        BY <1>1, <2>1, <2>2, <2>3, AfterIs
<1>5. ASSUME Clean(t), Head(q) # Delete
      PROVE  Clean(q)
    <2>1. ASSUME NEW i \in 1..Len(q)
          PROVE  q[i] # Delete
        <3>1. CASE i = 1
            BY <1>1, <1>5, <3>1
        <3>2. CASE i # 1
            <4>1. i \in 2..Len(q)
                BY <3>2, <1>1
            <4> QED
                BY <1>1, <1>2, <1>5, <4>1 DEF Clean
        <3> QED
            BY <3>1, <3>2
    <2> QED
        BY <1>1, <2>1 DEF Clean
<1>6. ASSUME NEW m \in After(t)
      PROVE  m \in After(q)
    <2>1. PICK i \in 1..Len(t) : t[i] = m /\ \A j \in i..Len(t) : t[j] # Delete
        BY <1>1, AfterIs
    <2>2. ASSUME NEW j \in (i + 1)..Len(q)
          PROVE  q[j] # Delete
        <3>1. j \in 2..Len(q) /\ j - 1 \in i..Len(t)
            BY <1>1
        <3> QED
            BY <1>2, <2>1, <3>1
    <2> QED
        BY <1>3, <2>1, <2>2, AfterIs
<1>7. ASSUME NEW m \in After(q), m \notin After(t)
      PROVE  m = Head(q) /\ Clean(q)
    <2>1. PICK i \in 1..Len(q) : q[i] = m /\ \A j \in i..Len(q) : q[j] # Delete
        BY AfterIs
    <2>2. ASSUME i # 1
          PROVE  FALSE
        <3>1. i \in 2..Len(q)
            BY <1>1, <2>2
        <3>2. ASSUME NEW j \in (i - 1)..Len(t)
              PROVE  t[j] # Delete
            <4>1. j \in 1..Len(t) /\ j + 1 \in i..Len(q)
                BY <1>1, <3>1
            <4> QED
                BY <1>3, <2>1, <4>1
        <3> QED
            BY <1>1, <1>2, <1>7, <2>1, <3>1, <3>2, AfterIs
    <2> QED
        BY <1>1, <2>1, <2>2 DEF Clean
<1> QED
    BY <1>1, <1>4, <1>5, <1>6, <1>7 DEF t
-----------------------------------------------------------------------------
(* What a step does to what a switch has to expect.                          *)

LEMMA OnTheWay ==
    ASSUME NEW s
    PROVE  (Undeleted(s) <=> Clean(outbox[s])) /\ Lasting(s) = After(outbox[s])
BY DEF Undeleted, Lasting, Clean, After

\* The entries that s has or will get.
Entries(s) == Settled(s).entries

LEMMA SettledIs ==
    ASSUME NEW s
    PROVE  /\ Settled(s).miss <=> (Undeleted(s) /\ table[s].miss) \/ Miss \in Lasting(s)
           /\ \A e : e \in Entries(s) <=>
                 \/ Undeleted(s) /\ e \in table[s].entries
                 \/ \E m \in Lasting(s) : m.type = "add" /\ m.entry = e
BY DEF Settled, Entries

\* Nothing happens to s.
Still(s) == outbox'[s] = outbox[s] /\ table'[s] = table[s]

LEMMA StillSettled ==
    ASSUME NEW s, Still(s)
    PROVE  /\ Undeleted(s)' <=> Undeleted(s)
           /\ Lasting(s)' = Lasting(s)
           /\ Settled(s)' = Settled(s)
           /\ Entries(s)' = Entries(s)
<1>1. (Undeleted(s)' <=> Undeleted(s)) /\ Lasting(s)' = Lasting(s)
    BY DEF Still, Undeleted, Lasting
<1>2. Settled(s)' = Settled(s)
    BY <1>1 DEF Settled, Still
<1> QED
    BY <1>1, <1>2 DEF Entries

\* Messages without a deletion are sent to s.
LEMMA SendSettled ==
    ASSUME TypeOK, NEW s \in Switches, NEW r \in Seq(Message), Clean(r),
           outbox'[s] = outbox[s] \o r, table'[s] = table[s]
    PROVE  /\ Undeleted(s)' <=> Undeleted(s)
           /\ Lasting(s)' = Lasting(s) \cup {r[i] : i \in 1..Len(r)}
           /\ Settled(s).miss => Settled(s)'.miss
           /\ \A e \in Entries(s)' :
                 \/ e \in Entries(s)
                 \/ \E i \in 1..Len(r) : r[i].type = "add" /\ r[i].entry = e
<1>1. outbox[s] \in Seq(Message)
    BY DEF TypeOK
<1>2. /\ Undeleted(s)' <=> Clean(outbox'[s])
      /\ Lasting(s)' = After(outbox'[s])
    BY DEF Undeleted, Lasting, Clean, After
<1>3. /\ Undeleted(s)' <=> Undeleted(s)
      /\ Lasting(s)' = Lasting(s) \cup {r[i] : i \in 1..Len(r)}
    BY <1>1, <1>2, CleanJoin, OnTheWay
<1>4. /\ Settled(s)'.miss <=>
            (Undeleted(s)' /\ table'[s].miss) \/ Miss \in Lasting(s)'
      /\ \A e : e \in Entries(s)' <=>
            \/ Undeleted(s)' /\ e \in table'[s].entries
            \/ \E m \in Lasting(s)' : m.type = "add" /\ m.entry = e
    BY DEF Settled, Entries, Miss
<1>5. Settled(s).miss => Settled(s)'.miss
    BY <1>3, <1>4, SettledIs
<1>6. ASSUME NEW e \in Entries(s)'
      PROVE  \/ e \in Entries(s)
             \/ \E i \in 1..Len(r) : r[i].type = "add" /\ r[i].entry = e
    <2>1. CASE Undeleted(s)' /\ e \in table'[s].entries
        BY <1>3, <2>1, SettledIs
    <2>2. CASE \E m \in Lasting(s)' : m.type = "add" /\ m.entry = e
        BY <1>3, <2>2, SettledIs
    <2> QED
        BY <1>4, <2>1, <2>2
<1> QED
    BY <1>3, <1>5, <1>6

\* A deletion is sent to s.
LEMMA DeleteSettled ==
    ASSUME TypeOK, NEW s \in Switches, outbox'[s] = outbox[s] \o <<Delete>>
    PROVE  Entries(s)' = {}
<1>1. outbox[s] \in Seq(Message)
    BY DEF TypeOK
<1>2. /\ Undeleted(s)' <=> Clean(outbox'[s])
      /\ Lasting(s)' = After(outbox'[s])
    BY DEF Undeleted, Lasting, Clean, After
<1>3. ~Undeleted(s)' /\ Lasting(s)' = {}
    BY <1>1, <1>2, DeleteJoin
<1> QED
    BY <1>3 DEF Settled, Entries

\* What a switch does with a message.
LEMMA ApplyIs ==
    ASSUME NEW t, NEW m \in Message, t \in [miss : BOOLEAN, entries : SUBSET Entry]
    PROVE  /\ Apply(t, m) \in [miss : BOOLEAN, entries : SUBSET Entry]
           /\ m # Delete /\ (t.miss \/ m = Miss) => Apply(t, m).miss
           /\ \A e \in Apply(t, m).entries :
                 m # Delete /\ (e \in t.entries \/ (m.type = "add" /\ m.entry = e))
<1>1. CASE m \in [type : {"delete", "miss"}]
    <2>1. CASE m.type = "delete"
        <3>1. Apply(t, m) = Blank /\ m = Delete
            BY <1>1, <2>1 DEF Apply, Delete
        <3> QED
            BY <3>1 DEF Blank
    <2>2. CASE m.type = "miss"
        <3>1. Apply(t, m) = [t EXCEPT !.miss = TRUE] /\ m # Delete
            BY <1>1, <2>2 DEF Apply, Delete
        <3> QED
            BY <3>1
    <2> QED
        BY <1>1, <2>1, <2>2
<1>2. CASE m \in [type : {"add"}, entry : Entry]
    <2>1. m.type = "add" /\ m.entry \in Entry
        BY <1>2
    <2>2. m # Delete /\ m # Miss
        BY <2>1 DEF Delete, Miss
    <2>3. Apply(t, m) = [t EXCEPT !.entries =
                {d \in @ : ~SameMatch(d, m.entry)} \cup {m.entry}]
        BY <2>1 DEF Apply
    <2>4. /\ Apply(t, m) \in [miss : BOOLEAN, entries : SUBSET Entry]
          /\ Apply(t, m).miss = t.miss
          /\ Apply(t, m).entries =
                {d \in t.entries : ~SameMatch(d, m.entry)} \cup {m.entry}
        BY <2>1, <2>3
    <2> QED
        BY <2>1, <2>2, <2>4
<1>3. CASE m \in [type : {"out"}, flow : Flows]
    <2>1. m.type = "out"
        BY <1>3
    <2>2. m # Delete /\ m # Miss
        BY <2>1 DEF Delete, Miss
    <2>3. Apply(t, m) = t
        BY <2>1 DEF Apply
    <2> QED
        BY <2>2, <2>3
<1> QED
    BY <1>1, <1>2, <1>3 DEF Message

\* A message arrives at s: nothing new can come of it.
LEMMA DeliverSettled ==
    ASSUME TypeOK, NEW s \in Switches, Deliver(s)
    PROVE  /\ Entries(s)' \subseteq Entries(s)
           /\ Settled(s).miss => Settled(s)'.miss
           /\ Undeleted(s) \/ Miss \in Lasting(s) =>
                 Undeleted(s)' \/ Miss \in Lasting(s)'
           /\ \A z \in Switches \ {s} : Still(z)
<1> DEFINE q == outbox[s]
           m == Head(q)
<1>1. /\ q \in Seq(Message) /\ q # <<>>
      /\ table[s] \in [miss : BOOLEAN, entries : SUBSET Entry]
      /\ outbox'[s] = Tail(q) /\ table'[s] = Apply(table[s], m)
      /\ \A z \in Switches \ {s} : Still(z)
    BY DEF TypeOK, Deliver, Still
<1>2. /\ m \in Message /\ Tail(q) \in Seq(Message)
      /\ Clean(q) => m # Delete /\ Clean(Tail(q)) /\ m \in After(q)
      /\ Clean(Tail(q)) /\ m # Delete => Clean(q)
      /\ After(Tail(q)) \subseteq After(q)
      /\ \A x \in After(q) : x \in After(Tail(q)) \/ (x = m /\ Clean(q))
    BY <1>1, TailIs
<1>3. /\ m # Delete /\ (table[s].miss \/ m = Miss) => table'[s].miss
      /\ \A e \in table'[s].entries :
            m # Delete /\ (e \in table[s].entries \/ (m.type = "add" /\ m.entry = e))
    BY <1>1, <1>2, ApplyIs
<1>4. /\ Undeleted(s)' <=> Clean(Tail(q))
      /\ Lasting(s)' = After(Tail(q))
      /\ Undeleted(s) <=> Clean(q)
      /\ Lasting(s) = After(q)
    BY <1>1 DEF Undeleted, Lasting, Clean, After
<1>5. /\ Settled(s)'.miss <=>
            (Undeleted(s)' /\ table'[s].miss) \/ Miss \in Lasting(s)'
      /\ \A e : e \in Entries(s)' <=>
            \/ Undeleted(s)' /\ e \in table'[s].entries
            \/ \E x \in Lasting(s)' : x.type = "add" /\ x.entry = e
    BY DEF Settled, Entries, Miss
<1> HIDE DEF q, m
<1>6. Settled(s).miss => Settled(s)'.miss
    <2>1. CASE Undeleted(s) /\ table[s].miss
        BY <1>2, <1>3, <1>4, <1>5, <2>1
    <2>2. CASE Miss \in Lasting(s)
        BY <1>2, <1>3, <1>4, <1>5, <2>2
    <2> QED
        BY <2>1, <2>2, SettledIs
<1>7. ASSUME NEW e \in Entries(s)'
      PROVE  e \in Entries(s)
    <2>1. CASE Undeleted(s)' /\ e \in table'[s].entries
        BY <1>2, <1>3, <1>4, <2>1, SettledIs
    <2>2. CASE \E x \in Lasting(s)' : x.type = "add" /\ x.entry = e
        BY <1>2, <1>4, <2>2, SettledIs
    <2> QED
        BY <1>5, <2>1, <2>2
<1> QED
    BY <1>1, <1>2, <1>4, <1>6, <1>7
-----------------------------------------------------------------------------
(* What is sent for a packet.                                                *)

LEMMA EntryIs ==
    ASSUME TypeOK, ev.flow \in Flows, NEW pri \in {1, 2}, NEW of \in SUBSET Flows,
           NEW n \in Nat
    PROVE  LET e == EntryFor(pri, of, n)
           IN  e \in Entry /\ e.pri = pri /\ e.of = of /\ e.queue = n
<1>1. Src[ev.flow] \in Hosts /\ Dst[ev.flow] \in Hosts
    BY ControllerAssumption
<1> QED
    BY <1>1 DEF EntryFor, Entry

\* An entry of modes 1 and 2.
ByClass(e) ==
    \/ e.of = Flows /\ e.queue = Len(mem.classes)
    \/ \E j \in 1..Len(mem.classes) :
          e.of = Members[mem.classes[j]] /\ e.queue = j - 1

LEMMA ForwardIs ==
    ASSUME TypeOK, ev.flow \in Flows
    PROVE  LET r == RestEntry \o ClassEntries \o <<Out>>
           IN  /\ r \in Seq(Message) /\ Clean(r)
               /\ \A i \in 1..Len(r) : r[i].type = "add" => ByClass(r[i].entry)
<1> DEFINE Fits(m) == m \in Message /\ m # Delete /\ (m.type = "add" => ByClass(m.entry))
           S == {m \in Message : Fits(m)}
<1>1. /\ mem.classes \in Seq(Class) /\ Len(mem.classes) \in Nat
      /\ DOMAIN mem.classes = 1..Len(mem.classes)
    <2>1. mem.classes \in Seq(Class)
        BY DEF TypeOK, Config
    <2> QED
        BY <2>1, LenProperties
<1>2. RestEntry \in Seq(S)
    <2> DEFINE e == EntryFor(1, Flows, Len(mem.classes))
    <2>1. e \in Entry /\ e.of = Flows /\ e.queue = Len(mem.classes)
        BY <1>1, EntryIs
    <2>2. Fits(Add(e))
        BY <2>1, MessageIs DEF ByClass
    <2>3. RestEntry = <<Add(e)>> \/ RestEntry = <<>>
        BY DEF RestEntry
    <2> HIDE DEF e
    <2>4. Add(e) \in S
        BY <2>2
    <2> HIDE DEF S
    <2>5. <<>> \in Seq(S) /\ <<Add(e)>> \in Seq(S)
        BY <2>4
    <2> QED
        BY <2>3, <2>5
<1>3. ClassEntries \in Seq(S)
    <2> DEFINE e(i) == EntryFor(2, Members[mem.classes[i]], i - 1)
    <2>1. ASSUME NEW i \in 1..Len(mem.classes)
          PROVE  Add(e(i)) \in S
        <3>1. Members[mem.classes[i]] \in SUBSET Flows
            BY <1>1, ControllerAssumption, ElementOfSeq
        <3>2. i - 1 \in Nat
            BY <1>1
        <3>3. /\ e(i) \in Entry /\ e(i).of = Members[mem.classes[i]]
              /\ e(i).queue = i - 1
            BY <3>1, <3>2, EntryIs
        <3> HIDE DEF e
        <3>4. ByClass(e(i))
            BY <3>3 DEF ByClass
        <3> QED
            BY <3>3, <3>4, MessageIs
    <2>2. ClassEntries = [i \in 1..Len(mem.classes) |-> Add(e(i))]
        BY <1>1 DEF ClassEntries
    <2> HIDE DEF e, S
    <2> QED
        BY <1>1, <2>1, <2>2, IsASeq
<1>4. <<Out>> \in Seq(S)
    <2>1. Out \in S
        BY MessageIs
    <2> HIDE DEF S
    <2> QED
        BY <2>1
<1>5. RestEntry \o ClassEntries \o <<Out>> \in Seq(S)
    <2> HIDE DEF S
    <2>1. RestEntry \o ClassEntries \in Seq(S)
        BY <1>2, <1>3, ConcatProperties
    <2> QED
        BY <1>4, <2>1, ConcatProperties
<1>6. ASSUME NEW r \in Seq(S)
      PROVE  /\ r \in Seq(Message) /\ Clean(r)
             /\ \A i \in 1..Len(r) : r[i].type = "add" => ByClass(r[i].entry)
    <2>1. DOMAIN r = 1..Len(r) /\ \A i \in 1..Len(r) : r[i] \in S
        BY LenProperties
    <2>2. r \in Seq(Message)
        <3>1. S \subseteq Message
            OBVIOUS
        <3> QED
            BY <3>1, SeqMonotonic
    <2> QED
        BY <2>1, <2>2 DEF Clean
<1> QED
    BY <1>5, <1>6

\* An entry of mode 3.
ByContent(e) ==
    /\ e.of = {ev.flow} /\ ev.flow \in Flows
    /\ \/ e.queue + 1 \in DOMAIN mem.classes /\ mem.classes[e.queue + 1] = Content[ev.flow]
       \/ e.queue = Len(mem.classes)
          /\ \A i \in DOMAIN mem.classes : mem.classes[i] # Content[ev.flow]

LEMMA AnswerIs ==
    ASSUME TypeOK, ev.flow \in Flows
    PROVE  LET e == EntryFor(1, {ev.flow}, QueueOf(Content[ev.flow]))
           IN  /\ <<Add(e), Out>> \in Seq(Message) /\ Clean(<<Add(e), Out>>)
               /\ \A i \in 1..Len(<<Add(e), Out>>) :
                     <<Add(e), Out>>[i].type = "add" =>
                         <<Add(e), Out>>[i].entry = e /\ ByContent(e)
<1> DEFINE n == QueueOf(Content[ev.flow])
           e == EntryFor(1, {ev.flow}, n)
<1>1. mem \in Config /\ Len(mem.classes) \in Nat
    BY DEF TypeOK, Config
<1>2. /\ n \in 0..Len(mem.classes)
      /\ \/ n + 1 \in DOMAIN mem.classes /\ mem.classes[n + 1] = Content[ev.flow]
         \/ n = Len(mem.classes)
            /\ \A i \in DOMAIN mem.classes : mem.classes[i] # Content[ev.flow]
    BY <1>1, QueueIs
<1>3. n \in Nat
    BY <1>1, <1>2
<1> HIDE DEF n
<1>4. e \in Entry /\ e.of = {ev.flow} /\ e.queue = n
    BY <1>3, EntryIs
<1> HIDE DEF e
<1>5. ByContent(e)
    BY <1>2, <1>4 DEF ByContent
<1>6. /\ Add(e) \in Message /\ Add(e) # Delete /\ Add(e).entry = e
      /\ Out \in Message /\ Out # Delete /\ Out.type # "add"
    BY <1>4, MessageIs
<1> DEFINE a == Add(e)
           o == Out
<1> HIDE DEF a, o
<1>7. /\ <<a, o>> \in Seq(Message) /\ Clean(<<a, o>>)
      /\ \A i \in 1..Len(<<a, o>>) :
            <<a, o>>[i].type = "add" => <<a, o>>[i].entry = e
    <2>1. a \in Message /\ a # Delete /\ a.entry = e /\ o \in Message
          /\ o # Delete /\ o.type # "add"
        BY <1>6 DEF a, o
    <2>2. Len(<<a, o>>) = 2 /\ DOMAIN <<a, o>> = 1..2
        OBVIOUS
    <2>3. <<a, o>>[1] = a /\ <<a, o>>[2] = o
        OBVIOUS
    <2>4. ASSUME NEW i \in 1..2
          PROVE  i = 1 \/ i = 2
        OBVIOUS
    <2>5. <<a, o>> \in Seq(Message)
        BY <2>1
    <2> QED
        BY <2>1, <2>2, <2>3, <2>4, <2>5 DEF Clean
<1> QED
    BY <1>5, <1>7 DEF a, o, e, n

LEMMA OutIs ==
    ASSUME ev.flow \in Flows
    PROVE  /\ <<Out>> \in Seq(Message) /\ Clean(<<Out>>)
           /\ \A i \in 1..Len(<<Out>>) : <<Out>>[i].type # "add"
<1> DEFINE o == Out
<1>1. o \in Message /\ o # Delete /\ o.type # "add"
    BY MessageIs
<1> HIDE DEF o
<1>2. <<o>> \in Seq(Message) /\ Len(<<o>>) = 1 /\ DOMAIN <<o>> = 1..1 /\ <<o>>[1] = o
    BY <1>1
<1>3. \A i \in 1..1 : i = 1
    OBVIOUS
<1> QED
    BY <1>1, <1>2, <1>3 DEF Clean, o

LEMMA MissIs ==
    /\ <<Miss>> \in Seq(Message) /\ Clean(<<Miss>>)
    /\ \A i \in 1..Len(<<Miss>>) : <<Miss>>[i].type # "add"
    /\ Miss \in {<<Miss>>[i] : i \in 1..Len(<<Miss>>)}
<1> DEFINE o == Miss
<1>1. o \in Message /\ o # Delete /\ o.type # "add"
    BY MessageIs
<1> HIDE DEF o
<1>2. <<o>> \in Seq(Message) /\ Len(<<o>>) = 1 /\ DOMAIN <<o>> = 1..1 /\ <<o>>[1] = o
    BY <1>1
<1>3. (\A i \in 1..1 : i = 1) /\ 1 \in 1..1
    OBVIOUS
<1>4. o \in {<<o>>[i] : i \in 1..Len(<<o>>)}
    BY <1>2, <1>3
<1> QED
    BY <1>1, <1>2, <1>3, <1>4 DEF Clean, o
-----------------------------------------------------------------------------
(* The invariant of types and of control.                                    *)

\* A message list that is sent.
LEMMA SendIs ==
    ASSUME TypeOK, NEW s \in Switches, NEW r, SendAll(s, r)
    PROVE  /\ outbox'[s] = outbox[s] \o r
           /\ \A z \in Switches \ {s} : outbox'[z] = outbox[z]
           /\ r \in Seq(Message) => outbox' \in [Switches -> Seq(Message)]
<1>1. /\ outbox \in [Switches -> Seq(Message)]
      /\ outbox' = [outbox EXCEPT ![s] = outbox[s] \o r]
    BY DEF TypeOK, SendAll
<1>2. r \in Seq(Message) => outbox[s] \o r \in Seq(Message)
    BY <1>1, ConcatProperties
<1> QED
    BY <1>1, <1>2

LEMMA InitType == Init => TypeOK /\ CtlInv
<1> SUFFICES ASSUME Init
             PROVE  TypeOK /\ CtlInv
    OBVIOUS
<1>1. /\ file \in [conf : Config, mtime : Nat, state : {"whole", "part", "gone"}]
      /\ mem \in Config
    <2>1. Configs \subseteq Config
        BY ControllerAssumption DEF Config
    <2> QED
        BY <2>1 DEF Init, Config
<1>2. table \in [Switches -> [miss : BOOLEAN, entries : SUBSET Entry]]
    BY DEF Init, Blank
<1>3. outbox \in [Switches -> Seq(Message)] /\ inbox \in Seq(Event)
    BY DEF Init
<1> QED
    BY <1>1, <1>2, <1>3, ControllerAssumption DEF Init, TypeOK, CtlInv

\* The events stay in their order.
LEMMA InboxIs ==
    ASSUME TypeOK, NEW e \in Event, inbox' = Append(inbox, e)
    PROVE  /\ inbox' \in Seq(Event) /\ inbox' # <<>>
           /\ inbox # <<>> => ev' = ev
           /\ \A x : x \in ToSet(inbox)' <=> x \in ToSet(inbox) \/ x = e
<1>1. inbox \in Seq(Event) /\ Len(inbox) \in Nat /\ DOMAIN inbox = 1..Len(inbox)
    BY LenProperties DEF TypeOK
<1>2. /\ inbox' \in Seq(Event) /\ Len(inbox') = Len(inbox) + 1
      /\ DOMAIN inbox' = 1..Len(inbox')
      /\ \A i \in 1..Len(inbox) : inbox'[i] = inbox[i]
      /\ inbox'[Len(inbox) + 1] = e
    BY <1>1
<1>3. inbox' # <<>>
    BY <1>1, <1>2
<1>4. ASSUME inbox # <<>>
      PROVE  ev' = ev
    <2>1. 1 \in 1..Len(inbox)
        BY <1>1, <1>4
    <2>2. ev = inbox[1] /\ ev' = inbox'[1]
        BY <1>1, <1>2, <1>3, <1>4 DEF ev
    <2> QED
        BY <1>2, <2>1, <2>2
<1>5. ASSUME NEW x
      PROVE  x \in ToSet(inbox)' <=> x \in ToSet(inbox) \/ x = e
    <2>1. ToSet(inbox)' = {inbox'[i] : i \in 1..Len(inbox')}
        BY <1>2 DEF ToSet
    <2>2. ToSet(inbox) = {inbox[i] : i \in 1..Len(inbox)}
        BY <1>1 DEF ToSet
    <2>3. \A i \in 1..Len(inbox') : i \in 1..Len(inbox) \/ i = Len(inbox) + 1
        BY <1>1, <1>2
    <2>4. Len(inbox) + 1 \in 1..Len(inbox') /\ 1..Len(inbox) \subseteq 1..Len(inbox')
        BY <1>1, <1>2
    <2> QED
        BY <1>2, <2>1, <2>2, <2>3, <2>4
<1> QED
    BY <1>2, <1>3, <1>4, <1>5

\* A handler that is done takes its event out, and no other.
LEMMA FinishIs ==
    ASSUME TypeOK, inbox # <<>>, Finish
    PROVE  /\ inbox' \in Seq(Event) /\ ctl' = "idle"
           /\ \A x : x \in ToSet(inbox) => x = ev \/ x \in ToSet(inbox)'
<1>1. /\ inbox \in Seq(Event) /\ Len(inbox) \in Nat \ {0}
      /\ DOMAIN inbox = 1..Len(inbox) /\ ev = inbox[1]
    BY LenProperties, EmptySeq DEF TypeOK, ev
<1>2. /\ inbox' \in Seq(Event) /\ Len(inbox') = Len(inbox) - 1
      /\ \A i \in 1..Len(inbox') : inbox'[i] = inbox[i + 1]
    BY <1>1, HeadTailProperties DEF Finish
<1>3. DOMAIN inbox' = 1..Len(inbox')
    BY <1>2, LenProperties
<1>4. ASSUME NEW i \in 1..Len(inbox)
      PROVE  inbox[i] = ev \/ inbox[i] \in ToSet(inbox)'
    <2>1. CASE i = 1
        BY <1>1, <2>1
    <2>2. CASE i # 1
        <3>1. i - 1 \in 1..Len(inbox') /\ (i - 1) + 1 = i
            BY <1>1, <1>2, <2>2
        <3>2. ToSet(inbox)' = {inbox'[k] : k \in 1..Len(inbox')}
            BY <1>3 DEF ToSet
        <3> QED
            BY <1>2, <3>1, <3>2
    <2> QED
        BY <2>1, <2>2
<1> QED
    BY <1>1, <1>2, <1>4 DEF Finish, ToSet

\* The steps of the environment and of monitor.py: the handler stays where it is.
Outside ==
    \/ \E s \in Switches : Connect(s) \/ Deliver(s)
    \/ \E s \in Switches, f \in Flows : Traffic(s, f)
    \/ SaveBegin \/ SaveEnd \/ DaemonStart \/ DaemonStop
    \/ Monitor

\* A save moves the clock of the file, at its beginning and at its end.
LEMMA SaveIs ==
    ASSUME TypeOK, SaveBegin \/ SaveEnd
    PROVE  /\ file' \in [conf : Config, mtime : Nat, state : {"whole", "part", "gone"}]
           /\ file'.mtime = file.mtime + 1
<1> DEFINE F == [conf : Config, mtime : Nat, state : {"whole", "part", "gone"}]
<1>1. file \in F
    BY DEF TypeOK
<1>2. file.mtime \in Nat /\ file.mtime + 1 \in Nat /\ file.conf \in Config
    BY <1>1
<1>3. CASE SaveBegin
    <2>1. PICK c \in Configs, st \in {"part", "gone"} :
              file' = [conf |-> c, mtime |-> file.mtime + 1, state |-> st]
        BY <1>3 DEF SaveBegin
    <2>2. c \in Config
        BY ControllerAssumption DEF Config
    <2> QED
        BY <1>2, <2>1, <2>2
<1>4. CASE SaveEnd
    <2>1. file' = [file EXCEPT !.mtime = file.mtime + 1, !.state = "whole"]
        BY <1>4 DEF SaveEnd
    <2> QED
        BY <1>1, <1>2, <2>1
<1> QED
    BY <1>3, <1>4

LEMMA OutsideType ==
    ASSUME TypeOK, CtlInv, Outside
    PROVE  TypeOK' /\ CtlInv'
<1> USE DEF fileVars, monVars, dpiVars, ctlVars, netVars, history
<1>1. ASSUME NEW s \in Switches, Connect(s)
      PROVE  TypeOK' /\ CtlInv'
    <2>1. [kind |-> Features, at |-> s] \in Event
        BY DEF Event
    <2>2. inbox' \in Seq(Event) /\ inbox' # <<>> /\ (inbox # <<>> => ev' = ev)
        BY <1>1, <2>1, InboxIs DEF Connect
    <2>3. TypeOK'
        BY <1>1, <2>2 DEF Connect, TypeOK
    <2>4. CASE ctl = "idle"
        BY <1>1, <2>2, <2>3, <2>4 DEF Connect, CtlInv
    <2>5. CASE ctl # "idle"
        BY <1>1, <2>2, <2>3, <2>5 DEF Connect, CtlInv
    <2> QED
        BY <2>3, <2>4, <2>5
<1>2. ASSUME NEW s \in Switches, NEW f \in Flows, Traffic(s, f)
      PROVE  TypeOK' /\ CtlInv'
    <2>1. [kind |-> "packetin", at |-> s, flow |-> f] \in Event
        BY DEF Event
    <2>2. inbox' \in Seq(Event) /\ inbox' # <<>> /\ (inbox # <<>> => ev' = ev)
        BY <1>2, <2>1, InboxIs DEF Traffic
    <2>3. TypeOK'
        BY <1>2, <2>2 DEF Traffic, TypeOK
    <2>4. CASE ctl = "idle"
        BY <1>2, <2>2, <2>3, <2>4 DEF Traffic, CtlInv
    <2>5. CASE ctl # "idle"
        BY <1>2, <2>2, <2>3, <2>5 DEF Traffic, CtlInv
    <2> QED
        BY <2>3, <2>4, <2>5
<1>3. ASSUME NEW s \in Switches, Deliver(s)
      PROVE  TypeOK' /\ CtlInv'
    <2>1. outbox[s] \in Seq(Message) /\ outbox[s] # <<>>
        BY <1>3 DEF Deliver, TypeOK
    <2>2. Head(outbox[s]) \in Message /\ Tail(outbox[s]) \in Seq(Message)
        BY <2>1, TailIs
    <2>3. outbox' \in [Switches -> Seq(Message)]
        BY <1>3, <2>2 DEF Deliver, TypeOK
    <2>4. /\ table \in [Switches -> [miss : BOOLEAN, entries : SUBSET Entry]]
          /\ table' = [table EXCEPT ![s] = Apply(table[s], Head(outbox[s]))]
        BY <1>3 DEF Deliver, TypeOK
    <2>5. Apply(table[s], Head(outbox[s])) \in [miss : BOOLEAN, entries : SUBSET Entry]
        BY <2>2, <2>4, ApplyIs
    <2>6. table' \in [Switches -> [miss : BOOLEAN, entries : SUBSET Entry]]
        BY <2>4, <2>5
    <2>7. TypeOK'
        BY <1>3, <2>3, <2>6 DEF Deliver, TypeOK
    <2> QED
        BY <1>3, <2>7 DEF Deliver, CtlInv, ev
<1>4. CASE SaveBegin \/ SaveEnd
    <2>1. file' \in [conf : Config, mtime : Nat, state : {"whole", "part", "gone"}]
        BY <1>4, SaveIs
    <2>2. raced' \in BOOLEAN
        BY <1>4 DEF SaveBegin, SaveEnd, TypeOK, Stamping
    <2>3. TypeOK'
        BY <1>4, <2>1, <2>2 DEF SaveBegin, SaveEnd, TypeOK
    <2> QED
        BY <1>4, <2>3 DEF SaveBegin, SaveEnd, CtlInv, ev
<1>5. CASE DaemonStart
    BY <1>5 DEF DaemonStart, TypeOK, CtlInv, ev
<1>6. CASE DaemonStop
    BY <1>6 DEF DaemonStop, TypeOK, CtlInv, ev
<1>7. CASE MonitorSee
    BY <1>7 DEF MonitorSee, TypeOK, CtlInv, ev
<1>8. CASE MonitorClear
    <2>1. Blank \in [miss : BOOLEAN, entries : SUBSET Entry]
        BY DEF Blank
    <2>2. table' \in [Switches -> [miss : BOOLEAN, entries : SUBSET Entry]]
        BY <1>8, <2>1 DEF MonitorClear, TypeOK
    <2>3. TypeOK'
        BY <1>8, <2>2 DEF MonitorClear, TypeOK
    <2> QED
        BY <1>8, <2>3 DEF MonitorClear, CtlInv, ev
<1>9. CASE MonitorMiss
    <2>1. table' \in [Switches -> [miss : BOOLEAN, entries : SUBSET Entry]]
        <3>1. /\ table \in [Switches -> [miss : BOOLEAN, entries : SUBSET Entry]]
              /\ table' = [table EXCEPT ![Watched].miss = TRUE]
            BY <1>9 DEF MonitorMiss, TypeOK
        <3> QED
            BY <3>1
    <2>2. TypeOK'
        BY <1>9, <2>1 DEF MonitorMiss, TypeOK
    <2> QED
        BY <1>9, <2>2 DEF MonitorMiss, CtlInv, ev
<1> QED
    BY <1>1, <1>2, <1>3, <1>4, <1>5, <1>6, <1>7, <1>8, <1>9 DEF Outside, Monitor

\* What reset takes a file for is a configuration.
LEMMA CutIs ==
    ASSUME NEW c \in Config
    PROVE  Cut(c) \subseteq Config
<1> SUFFICES ASSUME NEW n \in 0..Len(c.classes)
             PROVE  [c EXCEPT !.classes = SubSeq(c.classes, 1, n)] \in Config
    BY DEF Cut
<1>1. c \in [mode : 1..3, classes : Seq(Class)] /\ Len(c.classes) \in Nat
    BY LenProperties DEF Config
<1>2. SubSeq(c.classes, 1, n) \in Seq(Class)
    BY <1>1, SubSeqProperties
<1> QED
    BY <1>1, <1>2 DEF Config

LEMMA ReadableIs ==
    ASSUME TypeOK
    PROVE  /\ Readable \subseteq Config /\ Cut(file.conf) \subseteq Config
           /\ file.state = "whole" => Readable = {file.conf}
<1>1. file.conf \in Config /\ Cut(file.conf) \subseteq Config
    BY CutIs DEF TypeOK
<1> QED
    BY <1>1 DEF Readable

LEMMA HandlerType ==
    ASSUME TypeOK, CtlInv, Handler
    PROVE  TypeOK' /\ CtlInv'
<1> USE DEF fileVars, monVars, dpiVars, ctlVars, netVars, history
<1>1. CASE SwitchFeatures
    BY <1>1 DEF SwitchFeatures, TypeOK, CtlInv, ev
<1>2. CASE PacketIn
    <2>1. TypeOK'
        BY <1>2 DEF PacketIn, TypeOK
    <2> QED
        BY <1>2, <2>1 DEF PacketIn, CtlInv, ev
<1>10. CASE PacketInBreaks
    <2>1. inbox # <<>> /\ Finish
        BY <1>10 DEF PacketInBreaks
    <2>2. inbox' \in Seq(Event) /\ ctl' = "idle"
        BY <2>1, FinishIs
    <2> QED
        BY <1>10, <2>2 DEF PacketInBreaks, TypeOK, CtlInv
<1>11. CASE ResetBreaks
    <2>1. inbox # <<>> /\ ev.at \in Switches /\ Finish
        BY <1>11, EventIs DEF ResetBreaks, CtlInv
    <2>2. <<Delete>> \in Seq(Message) /\ SendAll(ev.at, <<Delete>>)
        BY <1>11, MessageIs DEF ResetBreaks
    <2>3. outbox' \in [Switches -> Seq(Message)]
        BY <2>1, <2>2, SendIs
    <2>4. mem' \in Config
        <3>1. \/ mem' = [mem EXCEPT !.classes = <<>>]
              \/ mem' \in Cut(file.conf)
            BY <1>11 DEF ResetBreaks
        <3>2. mem \in [mode : 1..3, classes : Seq(Class)] /\ <<>> \in Seq(Class)
            BY DEF TypeOK, Config
        <3> QED
            BY <3>1, <3>2, ReadableIs DEF Config
    <2>5. /\ trouble' \in [Switches -> {"none", "bridge", "broken", "qos"}]
          /\ inbox' \in Seq(Event) /\ ctl' = "idle"
        BY <1>11, <2>1, FinishIs DEF ResetBreaks, TypeOK
    <2>6. TypeOK'
        BY <1>11, <2>1, <2>3, <2>4, <2>5 DEF ResetBreaks, TypeOK
    <2> QED
        BY <2>5, <2>6 DEF CtlInv
<1>3. CASE ResetFails
    <2>1. inbox # <<>> /\ ev.at \in Switches
        BY <1>3, EventIs DEF ResetFails, CtlInv
    <2>2. <<Delete>> \in Seq(Message) /\ SendAll(ev.at, <<Delete>>)
        BY <1>3, MessageIs DEF ResetFails
    <2>3. outbox' \in [Switches -> Seq(Message)]
        BY <2>1, <2>2, SendIs
    <2>4. mem' \in Config /\ trouble' \in [Switches -> {"none", "bridge", "broken", "qos"}]
        <3>1. mem' = [mem EXCEPT !.classes = <<>>]
            BY <1>3 DEF ResetFails
        <3>2. mem \in [mode : 1..3, classes : Seq(Class)] /\ <<>> \in Seq(Class)
            BY DEF TypeOK, Config
        <3>3. mem' \in Config
            BY <3>1, <3>2 DEF Config
        <3> QED
            BY <1>3, <3>3 DEF ResetFails, TypeOK
    <2>5. TypeOK'
        BY <1>3, <2>1, <2>3, <2>4 DEF ResetFails, TypeOK, AfterReset
    <2> QED
        BY <1>3, <2>1, <2>5 DEF ResetFails, CtlInv, AfterReset, ev
<1>4. CASE ResetReads
    <2>1. inbox # <<>> /\ ev.at \in Switches
        BY <1>4, EventIs DEF ResetReads, CtlInv
    <2>2. <<Delete>> \in Seq(Message) /\ SendAll(ev.at, <<Delete>>)
        BY <1>4, MessageIs DEF ResetReads
    <2>3. outbox' \in [Switches -> Seq(Message)]
        BY <2>1, <2>2, SendIs
    <2>4. /\ mem' \in Config /\ trouble' \in [Switches -> {"none", "bridge", "broken", "qos"}]
          /\ trouble'[ev.at] = "none" /\ ev' = ev
        BY <1>4, <2>1, ReadableIs DEF ResetReads, TypeOK, ev
    <2>5. TypeOK'
        BY <1>4, <2>1, <2>3, <2>4 DEF ResetReads, TypeOK
    <2> QED
        BY <1>4, <2>1, <2>4, <2>5 DEF ResetReads, CtlInv
<1>5. CASE ResetQos
    <2>1. inbox # <<>> /\ ev.at \in Switches
        BY <1>5, EventIs DEF ResetQos, CtlInv
    <2>2. outbox' \in [Switches -> Seq(Message)]
        BY <1>5, <2>1, MissIs, SendIs DEF ResetQos
    <2>3. Len(mem.classes) + 1 \in Nat
        BY DEF TypeOK, Config
    <2>4. /\ queues' \in [Switches -> Nat]
          /\ trouble' \in [Switches -> {"none", "bridge", "broken", "qos"}]
        <3>1. \/ queues' = queues
              \/ queues' = [queues EXCEPT ![ev.at] = Len(mem.classes) + 1]
            BY <1>5 DEF ResetQos
        <3>2. \/ trouble' = trouble
              \/ trouble' = [trouble EXCEPT ![ev.at] = "qos"]
            BY <1>5 DEF ResetQos
        <3>3. /\ queues \in [Switches -> Nat]
              /\ trouble \in [Switches -> {"none", "bridge", "broken", "qos"}]
            BY DEF TypeOK
        <3> QED
            BY <2>3, <3>1, <3>2, <3>3
    <2>5. TypeOK'
        BY <1>5, <2>1, <2>2, <2>4 DEF ResetQos, TypeOK, AfterReset
    <2> QED
        BY <1>5, <2>1, <2>5 DEF ResetQos, CtlInv, AfterReset, ev
<1>6. CASE Stamp
    <2>1. inbox # <<>> /\ Finish
        BY <1>6 DEF Stamp, CtlInv
    <2>2. inbox' \in Seq(Event) /\ ctl' = "idle"
        BY <2>1, FinishIs
    <2> QED
        BY <1>6, <2>2 DEF Stamp, TypeOK, CtlInv
<1>7. CASE IgnoreLldp \/ ContentBroken
    <2>1. inbox # <<>> /\ Finish
        BY <1>7 DEF IgnoreLldp, ContentBroken, CtlInv
    <2>2. inbox' \in Seq(Event) /\ ctl' = "idle"
        BY <2>1, FinishIs
    <2> QED
        BY <1>7, <2>2 DEF IgnoreLldp, ContentBroken, TypeOK, CtlInv
<1>8. CASE ForwardByClass \/ ForwardUnasked \/ ContentAnswer
    <2>1. inbox # <<>> /\ Finish /\ ev.kind # Features
        BY <1>8 DEF ForwardByClass, ForwardUnasked, ContentAnswer, CtlInv, Learning
    <2>2. inbox' \in Seq(Event) /\ ctl' = "idle"
        BY <2>1, FinishIs
    <2>3. ev.at \in Switches /\ ev.flow \in Flows
        BY <2>1, EventIs
    <2>4. outbox' \in [Switches -> Seq(Message)]
        BY <1>8, <2>3, SendIs, ForwardIs, AnswerIs, OutIs
        DEF ForwardByClass, ForwardUnasked, ContentAnswer
    <2>5. Src[ev.flow] \in Hosts
        BY <2>3, ControllerAssumption
    <2>6. macs' \in [Switches -> SUBSET Hosts]
        <3>1. \/ macs' = macs
              \/ macs' = [macs EXCEPT ![ev.at] = macs[ev.at] \cup {Src[ev.flow]}]
            BY <1>8 DEF ForwardByClass, ForwardUnasked, ContentAnswer, Learn
        <3>2. macs \in [Switches -> SUBSET Hosts]
            BY DEF TypeOK
        <3> QED
            BY <2>5, <3>1, <3>2
    <2> QED
        BY <1>8, <2>2, <2>4, <2>6
        DEF ForwardByClass, ForwardUnasked, ContentAnswer, TypeOK, CtlInv
<1>9. CASE AskContent
    <2>1. inbox # <<>> /\ ev.kind # Features
        BY <1>9 DEF AskContent, CtlInv, Learning
    <2>2. ev.at \in Switches /\ ev.flow \in Flows
        BY <2>1, EventIs
    <2>3. Src[ev.flow] \in Hosts
        BY <2>2, ControllerAssumption
    <2>4. macs' \in [Switches -> SUBSET Hosts]
        BY <1>9, <2>3 DEF AskContent, Learn, TypeOK
    <2>5. TypeOK'
        BY <1>9, <2>4 DEF AskContent, TypeOK
    <2> QED
        BY <1>9, <2>1, <2>5 DEF AskContent, CtlInv, ev
<1> QED
    BY <1>1, <1>2, <1>3, <1>4, <1>5, <1>6, <1>7, <1>8, <1>9, <1>10, <1>11 DEF Handler
-----------------------------------------------------------------------------
(* What the environment can do to the controller's expectations.             *)

\* The table-miss entry is there, or is on its way.
OnWay(s) == Undeleted(s) \/ Miss \in Lasting(s)

LEMMA MonitorSettled ==
    ASSUME TypeOK, MonitorClear \/ MonitorMiss, NEW s \in Switches
    PROVE  /\ Entries(s)' \subseteq Entries(s)
           /\ OnWay(s)' <=> OnWay(s)
           /\ s # Watched => Settled(s)' = Settled(s)
           /\ MonitorMiss /\ OnWay(s) => Settled(s)'.miss \/ s # Watched
           /\ MonitorMiss /\ Settled(s).miss => Settled(s)'.miss
<1>1. /\ outbox' = outbox /\ DOMAIN table = Switches /\ Watched \in Switches
      /\ \A z \in Switches : z # Watched => table'[z] = table[z]
      /\ MonitorMiss => table'[Watched].miss /\ table'[Watched].entries = table[Watched].entries
      /\ MonitorClear => table'[Watched].entries = {}
    BY ControllerAssumption DEF TypeOK, MonitorClear, MonitorMiss, Blank
<1>2. (Undeleted(s)' <=> Undeleted(s)) /\ Lasting(s)' = Lasting(s)
    BY <1>1 DEF Undeleted, Lasting
<1>3. table'[s].entries \subseteq table[s].entries
    BY <1>1
<1>4. /\ Settled(s)'.miss <=>
            (Undeleted(s)' /\ table'[s].miss) \/ Miss \in Lasting(s)'
      /\ \A e : e \in Entries(s)' <=>
            \/ Undeleted(s)' /\ e \in table'[s].entries
            \/ \E x \in Lasting(s)' : x.type = "add" /\ x.entry = e
    BY DEF Settled, Entries, Miss
<1>5. ASSUME NEW e \in Entries(s)'
      PROVE  e \in Entries(s)
    BY <1>2, <1>3, <1>4, SettledIs
<1>6. OnWay(s)' <=> OnWay(s)
    BY <1>2 DEF OnWay, Miss
<1>7. s # Watched => Still(s)
    BY <1>1 DEF Still
<1>8. MonitorMiss /\ s = Watched /\ OnWay(s) => Settled(s)'.miss
    BY <1>1, <1>2, <1>4 DEF OnWay
<1>9. Settled(s).miss => OnWay(s)
    BY SettledIs DEF OnWay
<1> QED
    BY <1>5, <1>6, <1>7, <1>8, <1>9, StillSettled

LEMMA OutsideKeeps ==
    ASSUME TypeOK, CtlInv, Outside \/ UNCHANGED vars
    PROVE  /\ UNCHANGED <<ctl, mem, lastModify, queues, resetAt, trouble>>
           /\ ctl # "idle" => ev' = ev
           /\ \A s \in Switches :
                 /\ Greeted(s)' => Greeted(s)
                 /\ Entries(s)' \subseteq Entries(s)
                 /\ OnWay(s) => OnWay(s)'
                 /\ Settled(s).miss => Settled(s)'.miss \/ (s = Watched /\ mon' = "miss")
                 /\ s = Watched /\ mon = "miss" /\ OnWay(s) =>
                        Settled(s)'.miss \/ mon' = "miss"
<1> USE DEF fileVars, monVars, dpiVars, ctlVars, netVars, history
<1>a. ctl # "idle" => inbox # <<>>
    BY DEF CtlInv
<1>b. ASSUME UNCHANGED <<outbox, table>>, NEW s \in Switches
      PROVE  /\ Entries(s)' = Entries(s) /\ Settled(s)' = Settled(s)
             /\ OnWay(s)' <=> OnWay(s)
    <2>1. Still(s)
        BY <1>b DEF Still
    <2> QED
        BY <2>1, StillSettled DEF OnWay, Miss
<1>1. ASSUME NEW x \in Switches, Connect(x)
      PROVE  /\ UNCHANGED <<ctl, mem, lastModify, queues, resetAt, trouble,
                            outbox, table, mon>>
             /\ ctl # "idle" => ev' = ev
             /\ \A s \in Switches : Greeted(s)' => Greeted(s)
    <2> DEFINE e == [kind |-> Features, at |-> x]
    <2>1. e \in Event
        BY DEF Event
    <2>2. /\ inbox # <<>> => ev' = ev
          /\ \A y : y \in ToSet(inbox)' <=> y \in ToSet(inbox) \/ y = e
        BY <1>1, <2>1, InboxIs DEF Connect
    <2>3. attached' = attached \cup {x}
        BY <1>1 DEF Connect
    <2>4. ASSUME NEW s \in Switches, Greeted(s)'
          PROVE  Greeted(s)
        <3>1. s \in attached' /\ [kind |-> Features, at |-> s] \notin ToSet(inbox)'
            BY <2>4 DEF Greeted, Features
        <3> QED
            BY <2>2, <2>3, <3>1 DEF Greeted
    <2> QED
        BY <1>1, <1>a, <2>2, <2>4 DEF Connect
<1>2. ASSUME NEW x \in Switches, NEW f \in Flows, Traffic(x, f)
      PROVE  /\ UNCHANGED <<ctl, mem, lastModify, queues, resetAt, trouble,
                            outbox, table, mon>>
             /\ ctl # "idle" => ev' = ev
             /\ \A s \in Switches : Greeted(s)' => Greeted(s)
    <2> DEFINE e == [kind |-> "packetin", at |-> x, flow |-> f]
    <2>1. e \in Event
        BY DEF Event
    <2>2. /\ inbox # <<>> => ev' = ev
          /\ \A y : y \in ToSet(inbox)' <=> y \in ToSet(inbox) \/ y = e
        BY <1>2, <2>1, InboxIs DEF Traffic
    <2>3. attached' = attached
        BY <1>2 DEF Traffic
    <2>4. ASSUME NEW s \in Switches, Greeted(s)'
          PROVE  Greeted(s)
        <3>1. s \in attached' /\ [kind |-> Features, at |-> s] \notin ToSet(inbox)'
            BY <2>4 DEF Greeted, Features
        <3> QED
            BY <2>2, <2>3, <3>1 DEF Greeted
    <2> QED
        BY <1>2, <1>a, <2>2, <2>4 DEF Traffic
<1>3. ASSUME NEW x \in Switches, Deliver(x)
      PROVE  /\ UNCHANGED <<ctl, mem, lastModify, queues, resetAt, trouble, mon,
                            inbox, attached>>
             /\ \A s \in Switches : /\ Entries(s)' \subseteq Entries(s)
                                    /\ OnWay(s) => OnWay(s)'
                                    /\ Settled(s).miss => Settled(s)'.miss
    <2>1. UNCHANGED <<ctl, mem, lastModify, queues, resetAt, trouble, mon, inbox, attached>>
        BY <1>3 DEF Deliver
    <2>2. ASSUME NEW s \in Switches
          PROVE  /\ Entries(s)' \subseteq Entries(s)
                 /\ OnWay(s) => OnWay(s)'
                 /\ Settled(s).miss => Settled(s)'.miss
        <3>1. CASE s = x
            BY <1>3, <3>1, DeliverSettled DEF OnWay, Miss
        <3>2. CASE s # x
            <4>1. Still(s)
                BY <1>3, <3>2, DeliverSettled
            <4> QED
                BY <4>1, StillSettled DEF OnWay, Miss
        <3> QED
            BY <3>1, <3>2
    <2> QED
        BY <2>1, <2>2
<1>4. ASSUME SaveBegin \/ SaveEnd \/ DaemonStart \/ DaemonStop \/ MonitorSee \/ UNCHANGED vars
      PROVE  /\ UNCHANGED <<ctl, mem, lastModify, queues, resetAt, trouble,
                            outbox, table, inbox, attached>>
             /\ mon = "miss" => mon' = "miss"
    BY <1>4 DEF SaveBegin, SaveEnd, DaemonStart, DaemonStop, MonitorSee, vars
<1>5. ASSUME MonitorClear \/ MonitorMiss
      PROVE  /\ UNCHANGED <<ctl, mem, lastModify, queues, resetAt, trouble,
                            inbox, attached>>
             /\ MonitorClear => mon # "miss" /\ mon' = "miss"
    BY <1>5 DEF MonitorClear, MonitorMiss
<1>6. ASSUME UNCHANGED <<inbox, attached>>
      PROVE  ev' = ev /\ \A s \in Switches : Greeted(s)' => Greeted(s)
    BY <1>6 DEF ev, Greeted, Features
<1>7. CASE (\E s \in Switches : Connect(s))
           \/ (\E s \in Switches, f \in Flows : Traffic(s, f))
    BY <1>b, <1>1, <1>2, <1>7
<1>8. CASE \E s \in Switches : Deliver(s)
    BY <1>3, <1>6, <1>8
<1>9. CASE SaveBegin \/ SaveEnd \/ DaemonStart \/ DaemonStop \/ MonitorSee \/ UNCHANGED vars
    BY <1>b, <1>4, <1>6, <1>9
<1>10. CASE MonitorClear \/ MonitorMiss
    <2>1. ASSUME NEW s \in Switches
          PROVE  /\ Entries(s)' \subseteq Entries(s)
                 /\ OnWay(s) => OnWay(s)'
                 /\ Settled(s).miss => Settled(s)'.miss \/ (s = Watched /\ mon' = "miss")
                 /\ s = Watched /\ mon = "miss" /\ OnWay(s) =>
                        Settled(s)'.miss \/ mon' = "miss"
        BY <1>5, <1>10, MonitorSettled
    <2> QED
        BY <1>5, <1>6, <1>10, <2>1
<1> QED
    BY <1>7, <1>8, <1>9, <1>10 DEF Outside, Monitor
-----------------------------------------------------------------------------
(* What the handlers send.                                                   *)

Idles ==
    \/ SwitchFeatures \/ PacketIn \/ PacketInBreaks \/ Stamp
    \/ IgnoreLldp \/ AskContent \/ ContentBroken
Resets == ResetFails \/ ResetReads \/ ResetBreaks
Forwards == ForwardByClass \/ ForwardUnasked \/ ContentAnswer

LEMMA Handlers == Handler <=> Idles \/ Resets \/ ResetQos \/ Forwards
BY DEF Handler, Idles, Resets, Forwards

\* Handlers that send nothing.
LEMMA IdlesKeep ==
    ASSUME Idles, NEW s
    PROVE  /\ UNCHANGED <<mem, queues, resetAt, trouble, mon, attached>>
           /\ Entries(s)' = Entries(s) /\ Settled(s)' = Settled(s)
           /\ OnWay(s)' <=> OnWay(s)
<1> USE DEF fileVars, monVars, dpiVars, ctlVars, netVars, history
<1>1. UNCHANGED <<mem, queues, resetAt, trouble, mon, attached, outbox, table>>
    BY DEF Idles, SwitchFeatures, PacketIn, PacketInBreaks, Stamp, IgnoreLldp,
           AskContent, ContentBroken
<1>2. Still(s)
    BY <1>1 DEF Still
<1> QED
    BY <1>1, <1>2, StillSettled DEF OnWay, Miss

\* A handler that sends reaches no switch but its own.
LEMMA OthersStill ==
    ASSUME TypeOK, CtlInv, Resets \/ ResetQos \/ Forwards,
           NEW s \in Switches, s # ev.at
    PROVE  /\ Entries(s)' = Entries(s) /\ Settled(s)' = Settled(s)
           /\ OnWay(s)' <=> OnWay(s)
<1> USE DEF fileVars, monVars, dpiVars, ctlVars, netVars, history
<1>1. ev.at \in Switches
    <2>1. ctl # "idle"
        BY DEF Resets, ResetFails, ResetReads, ResetBreaks, ResetQos, Forwards, ForwardByClass,
               ForwardUnasked, ContentAnswer, Learning
    <2> QED
        BY <2>1, EventIs DEF CtlInv
<1>2. (\E r : SendAll(ev.at, r)) /\ table' = table
    BY DEF Resets, ResetFails, ResetReads, ResetBreaks, ResetQos, Forwards, ForwardByClass,
           ForwardUnasked, ContentAnswer
<1>3. Still(s)
    BY <1>1, <1>2, SendIs DEF Still
<1> QED
    BY <1>3, StillSettled DEF OnWay, Miss

LEMMA ResetsSend ==
    ASSUME TypeOK, CtlInv, Resets
    PROVE  /\ ctl = "reset" /\ ev.at \in Switches /\ inbox # <<>>
           /\ resetAt' = ev.at /\ UNCHANGED <<attached, mon>>
           /\ \A s \in Switches : s # ev.at => trouble'[s] = trouble[s]
           /\ \/ ResetReads
              \/ trouble'[ev.at] \in {"bridge", "broken"}
           /\ \/ ev' = ev /\ inbox' = inbox
              \/ ctl' = "idle" /\ Finish
           /\ \A s \in Switches : s = ev.at => Entries(s)' = {}
<1> USE DEF fileVars, monVars, dpiVars, ctlVars, netVars, history
<1>1. /\ ctl = "reset" /\ SendAll(ev.at, <<Delete>>)
      /\ inbox' = inbox \/ (ctl' = "idle" /\ Finish)
      /\ resetAt' = ev.at /\ UNCHANGED <<attached, mon>>
    BY DEF Resets, ResetFails, ResetReads, ResetBreaks, Finish
<1>2. inbox # <<>> /\ ev.at \in Switches /\ (inbox' = inbox => ev' = ev)
    BY <1>1, EventIs DEF CtlInv, ev
<1>4. /\ \A s \in Switches : s # ev.at => trouble'[s] = trouble[s]
      /\ ResetReads \/ trouble'[ev.at] \in {"bridge", "broken"}
    BY <1>2 DEF Resets, ResetFails, ResetReads, ResetBreaks, TypeOK
<1>3. \A s \in Switches : s = ev.at => Entries(s)' = {}
    BY <1>1, <1>2, SendIs, DeleteSettled
<1> QED
    BY <1>1, <1>2, <1>3, <1>4

LEMMA QosSends ==
    ASSUME TypeOK, CtlInv, ResetQos
    PROVE  /\ ev.at \in Switches /\ inbox # <<>> /\ ev' = ev
           /\ resetAt = ev.at /\ trouble[ev.at] = "none"
           /\ UNCHANGED <<mem, resetAt, attached, inbox, mon>>
           /\ \A s \in Switches :
                 /\ Entries(s)' \subseteq Entries(s)
                 /\ OnWay(s) \/ s = ev.at => OnWay(s)'
                 /\ Settled(s).miss \/ s = ev.at => Settled(s)'.miss
<1> USE DEF fileVars, monVars, dpiVars, ctlVars, netVars, history
<1>1. /\ ctl = "qos" /\ SendAll(ev.at, <<Miss>>) /\ inbox' = inbox /\ table' = table
      /\ UNCHANGED <<mem, resetAt, attached, mon>>
    BY DEF ResetQos
<1>2. inbox # <<>> /\ ev.at \in Switches /\ ev' = ev
    BY <1>1, EventIs DEF CtlInv, ev
<1>3. ASSUME NEW s \in Switches
      PROVE  /\ Entries(s)' \subseteq Entries(s)
             /\ OnWay(s) \/ s = ev.at => OnWay(s)'
             /\ Settled(s).miss \/ s = ev.at => Settled(s)'.miss
    <2>1. CASE s # ev.at
        BY <2>1, OthersStill
    <2>2. CASE s = ev.at
        <3>1. outbox'[s] = outbox[s] \o <<Miss>> /\ table'[s] = table[s]
            BY <1>1, <2>2, SendIs
        <3>2. /\ Miss \in Lasting(s)'
              /\ \A e \in Entries(s)' : e \in Entries(s)
            <4>1. <<Miss>> \in Seq(Message) /\ Clean(<<Miss>>)
                BY MissIs
            <4>2. /\ Lasting(s)' = Lasting(s) \cup {<<Miss>>[i] : i \in 1..Len(<<Miss>>)}
                  /\ \A e \in Entries(s)' :
                        \/ e \in Entries(s)
                        \/ \E i \in 1..Len(<<Miss>>) :
                              <<Miss>>[i].type = "add" /\ <<Miss>>[i].entry = e
                BY <3>1, <4>1, SendSettled
            <4> QED
                BY <4>2, MissIs
        <3>3. Settled(s)'.miss
            BY <3>2 DEF Settled, Miss
        <3> QED
            BY <3>2, <3>3 DEF OnWay, Miss
    <2> QED
        BY <2>1, <2>2
<1> QED
    BY <1>1, <1>2, <1>3 DEF CtlInv

LEMMA ForwardsSend ==
    ASSUME TypeOK, CtlInv, Forwards
    PROVE  /\ inbox # <<>> /\ Finish /\ ev.kind # Features
           /\ UNCHANGED <<mem, queues, resetAt, trouble, attached, mon>>
           /\ \A s \in Switches :
                 /\ OnWay(s) => OnWay(s)'
                 /\ Settled(s).miss => Settled(s)'.miss
                 /\ \A e \in Entries(s)' :
                       \/ e \in Entries(s)
                       \/ mem.mode # 3 /\ ByClass(e)
                       \/ mem.mode = 3 /\ ByContent(e)
<1> USE DEF fileVars, monVars, dpiVars, ctlVars, netVars, history
<1>1. /\ inbox # <<>> /\ Finish /\ ev.kind # Features /\ table' = table
      /\ UNCHANGED <<mem, queues, resetAt, trouble, attached, mon>>
    BY DEF Forwards, ForwardByClass, ForwardUnasked, ContentAnswer, Learning, CtlInv
<1>2. ev.at \in Switches /\ ev.flow \in Flows
    BY <1>1, EventIs
<1>3. \E r \in Seq(Message) :
          /\ SendAll(ev.at, r) /\ Clean(r)
          /\ \A i \in 1..Len(r) : r[i].type = "add" =>
                \/ mem.mode # 3 /\ ByClass(r[i].entry)
                \/ mem.mode = 3 /\ ByContent(r[i].entry)
    <2>1. CASE ForwardByClass
        BY <1>2, <2>1, ForwardIs DEF ForwardByClass
    <2>2. CASE ForwardUnasked
        BY <1>2, <2>2, OutIs DEF ForwardUnasked
    <2>3. CASE ContentAnswer
        <3>1. mem.mode = 3
            BY <2>3 DEF ContentAnswer, CtlInv
        <3>2. CASE SendAll(ev.at, <<Out>>)
            BY <1>2, <3>2, OutIs
        <3>3. CASE SendAll(ev.at, <<Add(EntryFor(1, {ev.flow}, QueueOf(Content[ev.flow]))), Out>>)
            BY <1>2, <3>1, <3>3, AnswerIs
        <3> QED
            BY <2>3, <3>2, <3>3 DEF ContentAnswer
    <2> QED
        BY <2>1, <2>2, <2>3 DEF Forwards
<1>4. ASSUME NEW s \in Switches
      PROVE  /\ OnWay(s) => OnWay(s)'
             /\ Settled(s).miss => Settled(s)'.miss
             /\ \A e \in Entries(s)' :
                   \/ e \in Entries(s)
                   \/ mem.mode # 3 /\ ByClass(e)
                   \/ mem.mode = 3 /\ ByContent(e)
    <2>1. CASE s # ev.at
        BY <2>1, OthersStill
    <2>2. CASE s = ev.at
        <3>1. PICK r \in Seq(Message) :
                  /\ SendAll(ev.at, r) /\ Clean(r)
                  /\ \A i \in 1..Len(r) : r[i].type = "add" =>
                        \/ mem.mode # 3 /\ ByClass(r[i].entry)
                        \/ mem.mode = 3 /\ ByContent(r[i].entry)
            BY <1>3
        <3>2. outbox'[s] = outbox[s] \o r /\ table'[s] = table[s]
            BY <1>1, <2>2, <3>1, SendIs
        <3>3. /\ Undeleted(s)' <=> Undeleted(s)
              /\ Lasting(s)' = Lasting(s) \cup {r[i] : i \in 1..Len(r)}
              /\ Settled(s).miss => Settled(s)'.miss
              /\ \A e \in Entries(s)' :
                    \/ e \in Entries(s)
                    \/ \E i \in 1..Len(r) : r[i].type = "add" /\ r[i].entry = e
            BY <3>1, <3>2, SendSettled
        <3>4. OnWay(s) => OnWay(s)'
            BY <3>3 DEF OnWay, Miss
        <3> QED
            BY <3>1, <3>3, <3>4
    <2> QED
        BY <2>1, <2>2
<1> QED
    BY <1>1, <1>4
-----------------------------------------------------------------------------
(* The invariants.                                                           *)

\* A switch whose last reset went through has not been left without a
\* table-miss entry behind the deletion; while reset is at work it has.
MissInv ==
    \A s \in Switches :
        ~(ctl = "qos" /\ ev.at = s) /\ trouble[s] \notin {"bridge", "broken"} => OnWay(s)

\* MissInstalled, from the end of the first reset on.
KeepInv ==
    \A s \in Switches :
        /\ Greeted(s) \/ (ctl = "stamp" /\ ev.at = s)
        /\ ~Resetting(s)
        => \/ Settled(s).miss
           \/ trouble[s] \in {"bridge", "broken"}
           \/ s = Watched /\ mon = "miss"

\* The ports of the switch reset last have a queue per class and one more.
QueueInv ==
    resetAt # Nowhere /\ trouble[resetAt] = "none" /\ ctl # "qos" =>
        queues[resetAt] = Len(mem.classes) + 1

LEMMA MissStep ==
    ASSUME TypeOK, CtlInv, MissInv, [Next]_vars
    PROVE  MissInv'
<1> SUFFICES ASSUME NEW s \in Switches,
                    ~(ctl' = "qos" /\ ev'.at = s), trouble'[s] \notin {"bridge", "broken"}
             PROVE  OnWay(s)'
    BY DEF MissInv
<1>1. CASE Outside \/ UNCHANGED vars
    <2>1. ctl' = ctl /\ trouble' = trouble /\ (ctl # "idle" => ev' = ev)
          /\ (OnWay(s) => OnWay(s)')
        BY <1>1, OutsideKeeps
    <2> QED
        BY <2>1 DEF MissInv
<1>2. CASE Idles
    <2>1. trouble' = trouble /\ (OnWay(s) => OnWay(s)') /\ ctl # "qos"
        BY <1>2, IdlesKeep
        DEF Idles, SwitchFeatures, PacketIn, PacketInBreaks, Stamp, IgnoreLldp, AskContent,
            ContentBroken, Learning
    <2> QED
        BY <2>1 DEF MissInv
<1>3. CASE Resets
    <2>1. ctl = "reset"
        BY <1>3, ResetsSend
    <2>2. CASE s = ev.at
        <3>1. ResetReads
            BY <1>3, <2>2, ResetsSend
        <3>2. ctl' = "qos" /\ ev' = ev
            BY <3>1 DEF ResetReads, ev
        <3> QED
            BY <2>2, <3>2
    <2>3. CASE s # ev.at
        <3>1. trouble'[s] = trouble[s]
            BY <1>3, <2>3, ResetsSend
        <3> QED
            BY <1>3, <2>1, <2>3, <3>1, OthersStill DEF MissInv
    <2> QED
        BY <2>2, <2>3
<1>4. CASE ResetQos
    <2>1. (OnWay(s) \/ s = ev.at => OnWay(s)')
        BY <1>4, QosSends
    <2>2. s # ev.at => trouble'[s] = trouble[s]
        BY <1>4 DEF ResetQos, TypeOK, history
    <2> QED
        BY <2>1, <2>2 DEF MissInv
<1>5. CASE Forwards
    <2>1. trouble' = trouble /\ (OnWay(s) => OnWay(s)')
        BY <1>5, ForwardsSend
    <2>2. ctl # "qos"
        BY <1>5 DEF Forwards, ForwardByClass, ForwardUnasked, ContentAnswer, Learning
    <2> QED
        BY <2>1, <2>2 DEF MissInv
<1> QED
    BY <1>1, <1>2, <1>3, <1>4, <1>5, Handlers DEF Next, Outside

LEMMA KeepStep ==
    ASSUME TypeOK, CtlInv, MissInv, KeepInv, [Next]_vars
    PROVE  KeepInv'
<1> USE DEF fileVars, monVars, dpiVars, ctlVars, netVars, history
<1> SUFFICES ASSUME NEW s \in Switches,
                    Greeted(s)' \/ (ctl' = "stamp" /\ ev'.at = s),
                    ~Resetting(s)', trouble'[s] \notin {"bridge", "broken"}
             PROVE  Settled(s)'.miss \/ (s = Watched /\ mon' = "miss")
    BY DEF KeepInv
<1>0. ~(ctl' \in {"reset", "qos"} /\ ev'.at = s)
    BY DEF Resetting
<1>1. CASE Outside \/ UNCHANGED vars
    <2>1. /\ ctl' = ctl /\ trouble' = trouble /\ (ctl # "idle" => ev' = ev)
          /\ Greeted(s)' => Greeted(s)
          /\ OnWay(s) => OnWay(s)'
          /\ Settled(s).miss => Settled(s)'.miss \/ (s = Watched /\ mon' = "miss")
          /\ s = Watched /\ mon = "miss" /\ OnWay(s) =>
                 Settled(s)'.miss \/ mon' = "miss"
        BY <1>1, OutsideKeeps
    <2>2. ~Resetting(s)
        BY <1>0, <2>1 DEF Resetting
    <2>3. OnWay(s)
        BY <2>1, <2>2 DEF MissInv, Resetting
    <2>4. Settled(s).miss \/ (s = Watched /\ mon = "miss")
        BY <2>1, <2>2 DEF KeepInv
    <2> QED
        BY <2>1, <2>3, <2>4
<1>2. CASE Idles
    <2>1. UNCHANGED <<trouble, mon, attached>> /\ Settled(s)' = Settled(s)
        BY <1>2, IdlesKeep
    <2>2. ctl \notin {"reset", "qos"}
        BY <1>2 DEF Idles, SwitchFeatures, PacketIn, PacketInBreaks, Stamp, IgnoreLldp, AskContent,
            ContentBroken, Learning
    <2>3. Greeted(s) \/ (ctl = "stamp" /\ ev.at = s)
        <3>1. CASE SwitchFeatures \/ PacketIn \/ AskContent
            <4>1. inbox' = inbox /\ attached' = attached /\ ctl' # "stamp"
                BY <3>1 DEF SwitchFeatures, PacketIn, AskContent
            <4> QED
                BY <4>1 DEF Greeted, Features
        <3>2. CASE PacketInBreaks \/ Stamp \/ IgnoreLldp \/ ContentBroken
            <4>1. inbox # <<>> /\ Finish /\ attached' = attached /\ ctl' # "stamp"
                BY <3>2 DEF PacketInBreaks, Stamp, IgnoreLldp, ContentBroken, CtlInv, Finish
            <4>2. Stamp \/ ev.kind # Features
                BY <3>2 DEF PacketInBreaks, Stamp, IgnoreLldp, ContentBroken, CtlInv
            <4>3. s \in attached /\ [kind |-> Features, at |-> s] \notin ToSet(inbox)'
                BY <4>1 DEF Greeted, Features
            <4>4. [kind |-> Features, at |-> s] \in ToSet(inbox) =>
                      ev = [kind |-> Features, at |-> s]
                BY <4>1, <4>3, FinishIs
            <4>5. CASE ev = [kind |-> Features, at |-> s]
                <5>1. ev.kind = Features /\ ev.at = s
                    BY <4>5
                <5> QED
                    BY <4>2, <5>1 DEF Stamp
            <4> QED
                BY <4>3, <4>4, <4>5 DEF Greeted
        <3> QED
            BY <1>2, <3>1, <3>2 DEF Idles
    <2> QED
        BY <2>1, <2>2, <2>3 DEF KeepInv, Resetting
<1>3. CASE Resets
    <2>1. /\ ctl = "reset" /\ inbox # <<>> /\ UNCHANGED <<attached, mon>>
          /\ \/ ev' = ev /\ inbox' = inbox
             \/ ctl' = "idle" /\ Finish
        BY <1>3, ResetsSend
    <2>2. CASE s = ev.at
        <3>1. ResetReads
            BY <1>3, <2>2, ResetsSend
        <3>2. ctl' = "qos" /\ ev' = ev
            BY <3>1 DEF ResetReads, ev
        <3> QED
            BY <1>0, <2>2, <3>2
    <2>3. CASE s # ev.at
        <3>1. trouble'[s] = trouble[s]
            BY <1>3, <2>3, ResetsSend
        <3>2. Greeted(s)
            <4>1. s \in attached /\ [kind |-> Features, at |-> s] \notin ToSet(inbox)'
                BY <2>1, <2>3 DEF Greeted, Features
            <4>2. ev # [kind |-> Features, at |-> s]
                BY <2>3
            <4>3. CASE inbox' = inbox
                BY <4>1, <4>3 DEF Greeted
            <4>4. CASE Finish
                BY <2>1, <4>1, <4>2, <4>4, FinishIs DEF Greeted
            <4> QED
                BY <2>1, <4>3, <4>4
        <3>3. Settled(s).miss \/ (s = Watched /\ mon = "miss")
            BY <2>1, <2>3, <3>1, <3>2 DEF KeepInv, Resetting
        <3> QED
            BY <1>3, <2>1, <2>3, <3>3, OthersStill
    <2> QED
        BY <2>2, <2>3
<1>4. CASE ResetQos
    <2>1. /\ UNCHANGED <<attached, inbox, mon>> /\ ev' = ev
          /\ Settled(s).miss \/ s = ev.at => Settled(s)'.miss
        BY <1>4, QosSends
    <2>2. CASE s = ev.at
        BY <2>1, <2>2
    <2>3. CASE s # ev.at
        <3>1. trouble'[s] = trouble[s]
            BY <1>4, <2>3 DEF ResetQos, TypeOK
        <3>2. Greeted(s)
            BY <2>1, <2>3 DEF Greeted, Features
        <3>3. Settled(s).miss \/ (s = Watched /\ mon = "miss")
            BY <2>3, <3>1, <3>2 DEF KeepInv, Resetting
        <3> QED
            BY <2>1, <3>3
    <2> QED
        BY <2>2, <2>3
<1>5. CASE Forwards
    <2>1. /\ inbox # <<>> /\ Finish /\ ev.kind # Features
          /\ UNCHANGED <<trouble, attached, mon>>
          /\ Settled(s).miss => Settled(s)'.miss
        BY <1>5, ForwardsSend
    <2>2. ctl \notin {"reset", "qos"} /\ ctl' = "idle"
        BY <1>5, <2>1 DEF Finish, Forwards, ForwardByClass, ForwardUnasked,
                          ContentAnswer, Learning
    <2>3. s \in attached /\ [kind |-> Features, at |-> s] \notin ToSet(inbox)'
        BY <2>1, <2>2 DEF Greeted, Features
    <2>4. [kind |-> Features, at |-> s] # ev
        BY <2>1
    <2>5. Greeted(s)
        BY <2>1, <2>3, <2>4, FinishIs DEF Greeted
    <2> QED
        BY <2>1, <2>2, <2>5 DEF KeepInv, Resetting
<1> QED
    BY <1>1, <1>2, <1>3, <1>4, <1>5, Handlers DEF Next, Outside

LEMMA ByClassAgrees ==
    ASSUME mem \in Config, NEW e,
           (mem.mode # 3 /\ ByClass(e)) \/ (mem.mode = 3 /\ ByContent(e))
    PROVE  Agrees(e, mem)
<1>1. Len(mem.classes) \in Nat /\ DOMAIN mem.classes = 1..Len(mem.classes)
    BY LenProperties DEF Config
<1>2. CASE mem.mode # 3 /\ ByClass(e)
    <2>1. CASE e.of = Flows /\ e.queue = Len(mem.classes)
        BY <1>2, <2>1 DEF Agrees
    <2>2. ASSUME NEW j \in 1..Len(mem.classes),
                 e.of = Members[mem.classes[j]], e.queue = j - 1
          PROVE  Agrees(e, mem)
        <3>1. e.queue + 1 = j
            BY <2>2
        <3> QED
            BY <1>1, <1>2, <2>2, <3>1 DEF Agrees
    <2> QED
        BY <1>2, <2>1, <2>2 DEF ByClass
<1>3. CASE mem.mode = 3 /\ ByContent(e)
    BY <1>3 DEF ByContent, Agrees
<1> QED
    BY <1>2, <1>3

LEMMA FollowStep ==
    ASSUME TypeOK, CtlInv, ResetSwitchFollows, [Next]_vars
    PROVE  ResetSwitchFollows'
<1> USE DEF fileVars, monVars, dpiVars, ctlVars, netVars, history
<1> SUFFICES ASSUME resetAt' # Nowhere,
                    NEW e \in Entries(resetAt)'
             PROVE  Agrees(e, mem')
    BY DEF ResetSwitchFollows, Entries
<1>1. ASSUME UNCHANGED <<mem, resetAt>>,
             \A s \in Switches : \A d \in Entries(s)' :
                 d \in Entries(s) \/ Agrees(d, mem)
      PROVE  Agrees(e, mem')
    <2>1. resetAt \in Switches /\ resetAt # Nowhere
        BY <1>1 DEF TypeOK
    <2>2. \A s \in Switches : s = resetAt' => e \in Entries(s)'
        OBVIOUS
    <2>3. e \in Entries(resetAt) \/ Agrees(e, mem)
        BY <1>1, <2>1, <2>2
    <2> QED
        BY <1>1, <2>1, <2>3 DEF ResetSwitchFollows, Entries
<1>2. CASE Outside \/ UNCHANGED vars
    BY <1>1, <1>2, OutsideKeeps
<1>3. CASE Idles
    BY <1>1, <1>3, IdlesKeep
<1>4. CASE Resets
    <2>1. resetAt' = ev.at /\ ev.at \in Switches
        BY <1>4, ResetsSend
    <2>2. \A s \in Switches : s = resetAt' => e \in Entries(s)'
        OBVIOUS
    <2>3. \A s \in Switches : s = ev.at => Entries(s)' = {}
        BY <1>4, ResetsSend
    <2> QED
        BY <2>1, <2>2, <2>3
<1>5. CASE ResetQos
    BY <1>1, <1>5, QosSends
<1>6. CASE Forwards
    <2>1. mem \in Config
        BY DEF TypeOK
    <2>2. \A s \in Switches : \A d \in Entries(s)' :
              \/ d \in Entries(s)
              \/ (mem.mode # 3 /\ ByClass(d)) \/ (mem.mode = 3 /\ ByContent(d))
        BY <1>6, ForwardsSend
    <2>3. \A s \in Switches : \A d \in Entries(s)' : d \in Entries(s) \/ Agrees(d, mem)
        BY <2>1, <2>2, ByClassAgrees
    <2> QED
        BY <1>1, <1>6, <2>3, ForwardsSend
<1> QED
    BY <1>2, <1>3, <1>4, <1>5, <1>6, Handlers DEF Next, Outside

LEMMA QueueStep ==
    ASSUME TypeOK, CtlInv, QueueInv, [Next]_vars
    PROVE  QueueInv'
<1> USE DEF fileVars, monVars, dpiVars, ctlVars, netVars, history
<1>1. CASE Outside \/ UNCHANGED vars
    <2>1. UNCHANGED <<ctl, mem, queues, resetAt, trouble>>
        BY <1>1, OutsideKeeps
    <2> QED
        BY <2>1 DEF QueueInv
<1>2. CASE Idles
    <2>1. UNCHANGED <<mem, queues, resetAt, trouble>> /\ ctl # "qos"
        BY <1>2, IdlesKeep
        DEF Idles, SwitchFeatures, PacketIn, PacketInBreaks, Stamp, IgnoreLldp, AskContent,
            ContentBroken, Learning
    <2> QED
        BY <2>1 DEF QueueInv
<1>3. CASE Resets /\ ~ResetReads
    <2>1. resetAt' = ev.at /\ trouble'[ev.at] \in {"bridge", "broken"}
        BY <1>3, ResetsSend
    <2> QED
        BY <2>1 DEF QueueInv
<1>4. CASE ResetReads
    BY <1>4 DEF ResetReads, QueueInv
<1>5. CASE ResetQos
    <2>1. /\ ev.at \in Switches /\ resetAt' = ev.at /\ mem' = mem
        BY <1>5, QosSends
    <2>2. \/ queues'[ev.at] = Len(mem.classes) + 1
          \/ trouble'[ev.at] = "qos"
        BY <1>5, <2>1 DEF ResetQos, TypeOK
    <2> QED
        BY <2>1, <2>2 DEF QueueInv
<1>6. CASE Forwards
    <2>1. UNCHANGED <<mem, queues, resetAt, trouble>>
        BY <1>6, ForwardsSend
    <2>2. ctl # "qos"
        BY <1>6 DEF Forwards, ForwardByClass, ForwardUnasked, ContentAnswer, Learning
    <2> QED
        BY <2>1, <2>2 DEF QueueInv
<1> QED
    BY <1>1, <1>2, <1>3, <1>4, <1>5, <1>6, Handlers DEF Next, Outside

\* An entry that agrees with a configuration names one of its queues.
LEMMA QueueBound ==
    ASSUME NEW c \in Config, NEW e \in Entry, Agrees(e, c)
    PROVE  e.queue < Len(c.classes) + 1
<1>1. /\ Len(c.classes) \in Nat /\ DOMAIN c.classes = 1..Len(c.classes)
      /\ e.queue \in Nat
    BY LenProperties DEF Config, Entry
<1>2. e.queue + 1 \in DOMAIN c.classes \/ e.queue = Len(c.classes)
    BY DEF Agrees
<1> QED
    BY <1>1, <1>2

\* All entries are entries.
LEMMA EntriesTyped ==
    ASSUME TypeOK, NEW s \in Switches
    PROVE  Entries(s) \subseteq Entry
<1>1. table[s].entries \subseteq Entry /\ outbox[s] \in Seq(Message)
    BY DEF TypeOK
<1>2. \A m \in Lasting(s) : m \in Message
    BY <1>1 DEF Lasting
<1>3. \A m \in Message : m.type = "add" => m.entry \in Entry
    BY DEF Message
<1> QED
    BY <1>1, <1>2, <1>3, SettledIs

\* What SavedConfigSeen asks for.
Known ==
    \/ resetAt = Nowhere
    \/ trouble[resetAt] \in {"bridge", "broken"}
    \/ raced
    \/ mem = file.conf

\* It holds whenever the time noted is that of a whole file, but for the moment
\* in which the file is about to be read; a switch that connects gets there
\* before the time is noted.  What is read or noted while the file is saved does
\* no harm, for the end of the save moves the clock once more.
SeenInv ==
    /\ lastModify <= file.mtime
    /\ file.state = "whole" =>
          /\ lastModify = file.mtime /\ ctl # "reset" => Known
          /\ ctl \in {"qos", "stamp"} /\ ev.kind = Features => Known

LEMMA SeenStep ==
    ASSUME TypeOK, CtlInv, SeenInv, [Next]_vars
    PROVE  SeenInv'
<1> USE DEF fileVars, monVars, dpiVars, ctlVars, netVars, history
<1>0. file.mtime \in Nat /\ lastModify \in Nat
    BY DEF TypeOK
<1>1. CASE SaveBegin \/ SaveEnd
    <2>1. /\ file'.mtime = file.mtime + 1 /\ lastModify' = lastModify
          /\ ctl' = ctl /\ inbox' = inbox /\ raced' = (raced \/ Stamping)
        BY <1>1, SaveIs DEF SaveBegin, SaveEnd
    <2>2. lastModify' <= file'.mtime /\ lastModify' # file'.mtime
        BY <1>0, <2>1 DEF SeenInv
    <2>3. ctl \in {"qos", "stamp"} /\ ev.kind = Features => raced'
        BY <2>1 DEF Stamping, ev
    <2> QED
        BY <2>1, <2>2, <2>3 DEF SeenInv, Known, ev, Features
<1>2. CASE (Outside \/ UNCHANGED vars) /\ ~SaveBegin /\ ~SaveEnd
    <2>1. UNCHANGED <<ctl, mem, lastModify, resetAt, trouble>> /\ (ctl # "idle" => ev' = ev)
        BY <1>2, OutsideKeeps
    <2>2. UNCHANGED <<file, raced>>
        BY <1>2 DEF Outside, Connect, Deliver, Traffic, DaemonStart, DaemonStop,
                    Monitor, MonitorSee, MonitorClear, MonitorMiss, vars
    <2> QED
        BY <2>1, <2>2 DEF SeenInv, Known, Features
<1>3. CASE Idles
    <2>1. UNCHANGED <<mem, resetAt, trouble, file, raced>>
        BY <1>3 DEF Idles, SwitchFeatures, PacketIn, PacketInBreaks, Stamp, IgnoreLldp, AskContent,
                    ContentBroken
    <2>2. Known' <=> Known
        BY <2>1 DEF Known
    <2>3. CASE Stamp
        <3>1. /\ ctl = "stamp" /\ ev.kind = Features /\ ctl' = "idle"
              /\ \/ lastModify' = file.mtime
                 \/ lastModify' = lastModify
            BY <2>3 DEF Stamp, CtlInv, Finish
        <3> QED
            BY <1>0, <2>1, <2>2, <3>1 DEF SeenInv
    <2>4. CASE PacketIn
        <3>1. \/ ctl' = "reset" /\ lastModify' = file.mtime
              \/ ctl' = "learn" /\ lastModify' = lastModify /\ ctl = "idle"
            BY <2>4 DEF PacketIn
        <3> QED
            BY <1>0, <2>1, <2>2, <3>1 DEF SeenInv
    <2>5. CASE \/ SwitchFeatures \/ PacketInBreaks
               \/ IgnoreLldp \/ AskContent \/ ContentBroken
        <3>1. lastModify' = lastModify /\ ctl # "reset" /\ ctl' \notin {"qos", "stamp"}
            BY <2>5 DEF SwitchFeatures, PacketInBreaks, IgnoreLldp, AskContent, ContentBroken,
                        Learning, Finish
        <3> QED
            BY <2>1, <2>2, <3>1 DEF SeenInv
    <2> QED
        BY <1>3, <2>3, <2>4, <2>5 DEF Idles
<1>4. CASE Resets
    <2>1. UNCHANGED <<file, lastModify>>
        BY <1>4 DEF Resets, ResetFails, ResetReads, ResetBreaks
    <2>2. ASSUME file.state = "whole"
          PROVE  Known'
        <3>1. CASE ResetReads
            <4>1. mem' = file.conf
                BY <2>2, <3>1, ReadableIs DEF ResetReads
            <4> QED
                BY <2>1, <4>1 DEF Known
        <3>2. CASE ~ResetReads
            <4>1. resetAt' = ev.at /\ trouble'[ev.at] \in {"bridge", "broken"}
                BY <1>4, <3>2, ResetsSend
            <4> QED
                BY <4>1 DEF Known
        <3> QED
            BY <3>1, <3>2
    <2> QED
        BY <2>1, <2>2 DEF SeenInv
<1>5. CASE ResetQos
    <2>1. /\ UNCHANGED <<file, lastModify, mem, resetAt, raced>> /\ ctl = "qos"
          /\ ev' = ev
          /\ resetAt = ev.at /\ trouble[ev.at] = "none"
        BY <1>5, QosSends DEF ResetQos
    <2>2. Known => Known'
        BY <2>1 DEF Known
    <2>3. ctl' = "stamp" => ev.kind = Features
        BY <1>5 DEF ResetQos, AfterReset
    <2> QED
        BY <2>1, <2>2, <2>3 DEF SeenInv
<1>6. CASE Forwards
    <2>1. UNCHANGED <<file, lastModify, mem, resetAt, trouble, raced>> /\ ctl # "reset"
          /\ ctl' = "idle"
        BY <1>6 DEF Forwards, ForwardByClass, ForwardUnasked, ContentAnswer,
                    Learning, Finish
    <2>2. Known' <=> Known
        BY <2>1 DEF Known
    <2> QED
        BY <2>1, <2>2 DEF SeenInv
<1> QED
    BY <1>1, <1>2, <1>3, <1>4, <1>5, <1>6, Handlers DEF Next, Outside
-----------------------------------------------------------------------------
(* The theorems.                                                             *)

IInv == TypeOK /\ CtlInv /\ MissInv /\ KeepInv /\ ResetSwitchFollows /\ QueueInv /\ SeenInv

LEMMA InitIInv == Init => IInv
<1> SUFFICES ASSUME Init
             PROVE  IInv
    OBVIOUS
<1>1. TypeOK /\ CtlInv
    BY InitType
<1>2. resetAt = Nowhere /\ attached = {} /\ ctl = "idle" /\ lastModify = 0
      /\ file.mtime = 0
    BY DEF Init
<1>3. ASSUME NEW s \in Switches
      PROVE  OnWay(s)
    <2>1. outbox[s] = <<>>
        BY DEF Init
    <2> QED
        BY <2>1 DEF OnWay, Undeleted
<1>4. MissInv /\ KeepInv
    BY <1>2, <1>3 DEF MissInv, KeepInv, Greeted
<1>5. ResetSwitchFollows /\ QueueInv /\ SeenInv
    BY <1>2 DEF ResetSwitchFollows, QueueInv, SeenInv, Known
<1> QED
    BY <1>1, <1>4, <1>5 DEF IInv

LEMMA StepIInv == IInv /\ [Next]_vars => IInv'
<1> SUFFICES ASSUME IInv, [Next]_vars
             PROVE  IInv'
    OBVIOUS
<1>1. TypeOK' /\ CtlInv'
    <2>1. CASE Handler
        BY <2>1, HandlerType DEF IInv
    <2>2. CASE Outside
        BY <2>2, OutsideType DEF IInv
    <2>3. CASE UNCHANGED vars
        BY <2>3 DEF IInv, TypeOK, CtlInv, vars, fileVars, monVars, dpiVars, ctlVars,
                    netVars, history, ev, Features
    <2> QED
        BY <2>1, <2>2, <2>3 DEF Next, Outside
<1> QED
    BY <1>1, MissStep, KeepStep, FollowStep, QueueStep, SeenStep DEF IInv

LEMMA Invariance == Spec => []IInv
BY InitIInv, StepIInv, PTL DEF Spec

\* TypeOK: every variable of the controller, the switches and the monitor keeps
\* its type.
THEOREM TypeCorrect == Spec => []TypeOK
<1>1. IInv => TypeOK
    BY DEF IInv
<1> QED
    BY <1>1, Invariance, PTL

\* ResetSwitchFollows: whatever was on its way before reset and whatever
\* monitor.py does, the switch reset last forwards by the configuration in
\* memory only.
THEOREM ResetSwitchFollowsHolds == Spec => []ResetSwitchFollows
<1>1. IInv => ResetSwitchFollows
    BY DEF IInv
<1> QED
    BY <1>1, Invariance, PTL

\* QueuesExist: the entries of that switch name queues that set_qos has made.
THEOREM QueuesExistHolds == Spec => []QueuesExist
<1>1. ASSUME IInv
      PROVE  QueuesExist
    <2> SUFFICES ASSUME resetAt # Nowhere, trouble[resetAt] = "none", ctl # "qos",
                        NEW e \in Entries(resetAt)
                 PROVE  e.queue < queues[resetAt]
        BY DEF QueuesExist, Entries
    <2>1. resetAt \in Switches /\ mem \in Config /\ TypeOK
        BY <1>1 DEF IInv, TypeOK
    <2>2. e \in Entry /\ Agrees(e, mem)
        BY <1>1, <2>1, EntriesTyped DEF IInv, ResetSwitchFollows, Entries
    <2>3. queues[resetAt] = Len(mem.classes) + 1
        BY <1>1 DEF IInv, QueueInv
    <2> QED
        BY <2>1, <2>2, <2>3, QueueBound
<1> QED
    BY <1>1, Invariance, PTL

\* MissInstalled: a switch that has been greeted keeps its table-miss entry
\* through all resets, packets that are dropped and whatever monitor.py does; it
\* has lost it only if its last reset ended before the entry was sent.
THEOREM MissInstalledHolds == Spec => []MissInstalled
<1>1. IInv => MissInstalled
    BY DEF IInv, KeepInv, MissInstalled
<1> QED
    BY <1>1, Invariance, PTL

\* SavedConfigSeen: no save is missed, even if the file is read in the middle of
\* it, but in the three ways the property names.
THEOREM SavedConfigSeenHolds == Spec => []SavedConfigSeen
<1>1. IInv => SavedConfigSeen
    BY DEF IInv, SeenInv, Known, SavedConfigSeen
<1> QED
    BY <1>1, Invariance, PTL
=============================================================================
