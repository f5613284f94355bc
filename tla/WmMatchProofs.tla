---------------------------- MODULE WmMatchProofs ----------------------------
(* The search of WmMatch for any patterns, any payload with any length and   *)
(* any order of compilation: it reports nothing that does not stand there,   *)
(* reads nothing behind the pad bytes if the length ends in front of them,   *)
(* and always moves on.  In the benign orders it also misses nothing: this   *)
(* says what the order has to do with it.                                    *)
EXTENDS WmMatch, FiniteSetTheorems, SequenceTheorems, WellFoundedInduction, TLAPS

Last == m_Min - BLOCK_SIZE      \* the last block of a window

-----------------------------------------------------------------------------
(* Compile.                                                                  *)

LEMMA PutIs ==
    ASSUME NEW table, NEW block, NEW value
    PROVE  /\ DOMAIN Put(table, block, value) = DOMAIN table \cup {block}
           /\ Put(table, block, value)[block] = value
           /\ \A b \in DOMAIN table : b # block => Put(table, block, value)[b] = table[b]
BY DEF Put

LEMMA LeastIs ==
    ASSUME NEW a \in Nat, NEW b \in Nat
    PROVE  /\ Least(a, b) \in {a, b}
           /\ Least(a, b) <= a /\ Least(a, b) <= b
BY DEF Least

LEMMA EmptyIs == DOMAIN Empty = {}
BY DEF Empty

\* What block, at distance d from the end of the window of p, does to the tables.
Learnt(p, block, d) ==
    /\ DOMAIN shift' = DOMAIN shift \cup {block}
    /\ shift'[block] =
          IF block \in DOMAIN shift THEN Least(shift[block], d) ELSE d
    /\ \A b \in DOMAIN shift : b # block => shift'[b] = shift[b]
    /\ d # 0 => UNCHANGED <<hash, aux>>
    /\ d = 0 =>
          /\ DOMAIN hash' = DOMAIN hash \cup {block}
          /\ hash'[block] =
                IF block \in DOMAIN hash THEN hash[block] \cup {p} ELSE {p}
          /\ \A b \in DOMAIN hash : b # block => hash'[b] = hash[b]
          /\ DOMAIN aux' = DOMAIN aux \cup {block}
          /\ \A b \in DOMAIN aux : b # block => aux'[b] = aux[b]
          /\ IF block \in DOMAIN shift /\ shift[block] = 0
             THEN aux'[block] = aux[block]
             ELSE /\ aux'[block] \in 1..(Last + 1)
                  /\ block \in DOMAIN shift => aux'[block] <= shift[block]

LEMMA LearnIs ==
    ASSUME TypeOK, HitsAreCovered, CompileBlock,
           NEW p, p = Head(todo), NEW block, block = PtnBlock(p, ch)
    PROVE  p \in Pids /\ Learnt(p, block, BlockPos(ch))
<1> USE WmAssumption DEF BLOCK_SIZE, Last, TypeOK
<1>1. p \in Pids
    BY DEF CompileBlock
<1>2. LearnShift(block, ch) /\ LearnHit(p, block, ch)
    BY DEF CompileBlock
<1>3. /\ DOMAIN shift' = DOMAIN shift \cup {block}
      /\ shift'[block] =
            IF block \in DOMAIN shift THEN Least(shift[block], BlockPos(ch))
            ELSE BlockPos(ch)
      /\ \A b \in DOMAIN shift : b # block => shift'[b] = shift[b]
    <2> DEFINE v == IF block \in DOMAIN shift
                    THEN Least(shift[block], BlockPos(ch)) ELSE BlockPos(ch)
    <2>1. shift' = Put(shift, block, v)
        BY <1>2 DEF LearnShift
    <2> HIDE DEF v
    <2>2. /\ DOMAIN shift' = DOMAIN shift \cup {block} /\ shift'[block] = v
          /\ \A b \in DOMAIN shift : b # block => shift'[b] = shift[b]
        BY ONLY <2>1 DEF Put
    <2> QED
        BY <2>2 DEF v
<1>4. BlockPos(ch) # 0 => UNCHANGED <<hash, aux>>
    BY <1>2 DEF LearnHit
<1>5. ASSUME BlockPos(ch) = 0
      PROVE  /\ DOMAIN hash' = DOMAIN hash \cup {block}
             /\ hash'[block] =
                   IF block \in DOMAIN hash THEN hash[block] \cup {p} ELSE {p}
             /\ \A b \in DOMAIN hash : b # block => hash'[b] = hash[b]
    <2> DEFINE v == IF block \in DOMAIN hash THEN hash[block] \cup {p} ELSE {p}
    <2>1. hash' = Put(hash, block, v)
        BY <1>2, <1>5 DEF LearnHit
    <2> HIDE DEF v
    <2>2. /\ DOMAIN hash' = DOMAIN hash \cup {block} /\ hash'[block] = v
          /\ \A b \in DOMAIN hash : b # block => hash'[b] = hash[b]
        BY ONLY <2>1 DEF Put
    <2> QED
        BY <2>2 DEF v
<1>6. ASSUME BlockPos(ch) = 0
      PROVE  /\ DOMAIN aux' = DOMAIN aux \cup {block}
             /\ \A b \in DOMAIN aux : b # block => aux'[b] = aux[b]
             /\ IF block \in DOMAIN shift /\ shift[block] = 0
                THEN aux'[block] = aux[block]
                ELSE /\ aux'[block] \in 1..(Last + 1)
                     /\ block \in DOMAIN shift => aux'[block] <= shift[block]
    <2> DEFINE old == OldShift(block, ch)
    <2>1. CASE block \in DOMAIN shift /\ shift[block] = 0
        <3>1. old = 0 /\ block \in DOMAIN aux
            BY <2>1 DEF OldShift, HitsAreCovered
        <3>2. aux' = aux
            BY <1>2, <1>6, <3>1 DEF LearnHit
        <3> QED
            BY <2>1, <3>1, <3>2
    <2>2. CASE ~(block \in DOMAIN shift /\ shift[block] = 0)
        <3>1. /\ old \in 1..(Last + 1)
              /\ block \in DOMAIN shift => old = shift[block]
            BY <1>6, <2>2 DEF OldShift
        <3>2. aux' = Put(aux, block, IF block \in DOMAIN aux
                                     THEN Least(aux[block], old) ELSE old)
            BY <1>2, <1>6, <3>1 DEF LearnHit
        <3> HIDE DEF old
        <3>3. /\ DOMAIN aux' = DOMAIN aux \cup {block}
              /\ aux'[block] = IF block \in DOMAIN aux
                               THEN Least(aux[block], old) ELSE old
              /\ \A b \in DOMAIN aux : b # block => aux'[b] = aux[b]
            <4> DEFINE v == IF block \in DOMAIN aux
                            THEN Least(aux[block], old) ELSE old
            <4>1. aux' = Put(aux, block, v)
                BY <3>2
            <4> HIDE DEF v
            <4>2. /\ DOMAIN aux' = DOMAIN aux \cup {block} /\ aux'[block] = v
                  /\ \A b \in DOMAIN aux : b # block => aux'[b] = aux[b]
                BY ONLY <4>1 DEF Put
            <4> QED
                BY <4>2 DEF v
        <3>4. aux'[block] \in 1..(Last + 1) /\ aux'[block] <= old
            <4>1. CASE block \in DOMAIN aux
                <5>1. aux[block] \in 1..(Last + 1)
                    BY <4>1
                <5> QED
                    BY <3>1, <3>3, <4>1, <5>1, LeastIs
            <4>2. CASE block \notin DOMAIN aux
                BY <3>1, <3>3, <4>2
            <4> QED
                BY <4>1, <4>2
        <3> QED
            BY <2>2, <3>1, <3>3, <3>4
    <2> QED
        BY <2>1, <2>2
<1> QED
    BY <1>1, <1>3, <1>4, <1>5, <1>6 DEF Learnt

LEMMA CompileInv ==
    ASSUME TypeOK, HitsAreCovered, CompileBlock
    PROVE  TypeOK' /\ HitsAreCovered'
<1> USE WmAssumption DEF BLOCK_SIZE, Last
<1> DEFINE p == Head(todo)
           block == PtnBlock(p, ch)
<1>0. ch \in 0..Last /\ BlockPos(ch) \in 0..Last /\ (BlockPos(ch) = 0 <=> ch = Last)
    BY DEF TypeOK, BlockPos
<1>1. p \in Pids /\ Learnt(p, block, BlockPos(ch))
    BY LearnIs
<1> HIDE DEF p, block
<1> USE DEF Learnt
<1>2. \A b \in DOMAIN shift : shift[b] \in 0..Last
    BY DEF TypeOK
<1>3. \A b \in DOMAIN aux : aux[b] \in 1..(Last + 1)
    BY DEF TypeOK
<1>4. /\ shift'[block] \in 0..Last
      /\ shift'[block] = 0 => BlockPos(ch) = 0
                              \/ (block \in DOMAIN shift /\ shift[block] = 0)
    <2>1. CASE block \in DOMAIN shift
        <3>1. shift[block] \in 0..Last
            BY <1>2, <2>1
        <3> QED
            BY <1>0, <1>1, <2>1, <3>1, LeastIs
    <2>2. CASE block \notin DOMAIN shift
        BY <1>0, <1>1, <2>2
    <2> QED
        BY <2>1, <2>2
<1>5. \A b \in DOMAIN shift' : shift'[b] \in 0..Last
    BY <1>1, <1>2, <1>4
<1>6. \A b \in DOMAIN aux' : aux'[b] \in 1..(Last + 1)
    <2>1. CASE BlockPos(ch) = 0
        <3>1. aux'[block] \in 1..(Last + 1)
            <4>1. CASE block \in DOMAIN shift /\ shift[block] = 0
                <5>1. block \in DOMAIN aux
                    BY <4>1 DEF HitsAreCovered
                <5> QED
                    BY <1>1, <1>3, <2>1, <4>1, <5>1
            <4> QED
                BY <1>1, <2>1, <4>1
        <3> QED
            BY <1>1, <1>3, <2>1, <3>1
    <2>2. CASE BlockPos(ch) # 0
        BY <1>1, <1>3, <2>2
    <2> QED
        BY <2>1, <2>2
<1>7. \A b \in DOMAIN hash' : hash'[b] \subseteq Pids
    BY <1>1, SMTT(30) DEF TypeOK
<1>8. todo' \in Seq(Pids) /\ ch' \in 0..Last
    <2>1. todo \in Seq(Pids) /\ todo # <<>>
        BY DEF TypeOK, CompileBlock
    <2>2. Tail(todo) \in Seq(Pids)
        BY <2>1
    <2>3. \/ ch < Last /\ ch' = ch + 1 /\ todo' = todo
          \/ ch' = 0 /\ todo' = Tail(todo)
        BY DEF CompileBlock
    <2>4. todo' \in Seq(Pids)
        BY ONLY <2>1, <2>2, <2>3
    <2>5. Last \in Nat
        BY WmAssumption
    <2> HIDE DEF Last
    <2>6. ch' \in 0..Last
        BY ONLY <1>0, <2>3, <2>5
    <2> QED
        BY <2>4, <2>6
<1>9. TypeOK'
    BY <1>5, <1>6, <1>7, <1>8 DEF TypeOK, CompileBlock, input
<1>10. HitsAreCovered'
    <2> SUFFICES ASSUME NEW b \in DOMAIN shift', shift'[b] = 0
                 PROVE  b \in DOMAIN hash' /\ b \in DOMAIN aux'
        BY <1>6 DEF HitsAreCovered
    <2>1. CASE BlockPos(ch) = 0 /\ b = block
        BY <1>1, <2>1
    <2>2. CASE b \in DOMAIN shift /\ shift[b] = 0
        <3>1. b \in DOMAIN hash /\ b \in DOMAIN aux
            BY <2>2 DEF HitsAreCovered
        <3> QED
            BY <1>1, <3>1
    <2> QED
        BY <1>1, <1>4, <2>1, <2>2
<1> QED
    BY <1>9, <1>10

-----------------------------------------------------------------------------
(* Search.                                                                   *)

\* The window begins in the payload, or at the first byte.
PosInv == pos >= Last /\ (phase = "compile" => pos = Last)

IInv == TypeOK /\ HitsAreCovered /\ PosInv /\ Sound

LEMMA InitInv == Init => IInv
<1> SUFFICES ASSUME Init
             PROVE  IInv
    OBVIOUS
<1> USE WmAssumption, EmptyIs DEF Init, BLOCK_SIZE, Last
<1>1. TypeOK
    BY DEF TypeOK
<1>2. HitsAreCovered /\ PosInv /\ Sound
    BY DEF HitsAreCovered, PosInv, Sound
<1> QED
    BY <1>1, <1>2 DEF IInv

\* What Search is called with.
LEMMA InputIs ==
    ASSUME TypeOK
    PROVE  /\ text \in Seq(Byte \cup {Pad}) /\ Len(text) \in Nat
           /\ Length \in Nat /\ received \in Int
           /\ received + PAD_SIZE <= Len(text)
           /\ \A k \in received..(received + PAD_SIZE - 1) :
                 k >= 0 => text[k + 1] = Pad
<1> DEFINE q == [text |-> text, received |-> received, length |-> Length]
<1>1. q \in Payloads /\ q.text = text /\ q.received = received /\ q.length = Length
    BY DEF TypeOK
<1> HIDE DEF q
<1>2. /\ q.text \in Seq(Byte \cup {Pad}) /\ q.received \in Int /\ q.length \in Nat
      /\ q.received + PAD_SIZE <= Len(q.text)
      /\ \A k \in q.received..(q.received + PAD_SIZE - 1) :
            k >= 0 => q.text[k + 1] = Pad
    BY <1>1, WmAssumption
<1> QED
    BY <1>1, <1>2

\* A window in front of the end of the payload begins inside it.
LEMMA WindowIs ==
    ASSUME TypeOK, PosInv
    PROVE  /\ WindowStart \in Nat /\ WindowStart = pos - Last
           /\ WindowStart <= pos
           /\ pos < Length => WindowStart \in 0..(Length - 1)
<1>1. pos \in Nat /\ pos >= Last /\ Last \in Nat /\ Length \in Nat
    BY InputIs, WmAssumption DEF TypeOK, PosInv, BLOCK_SIZE, Last
<1>2. WindowStart = pos - Last
    BY <1>1, WmAssumption DEF WindowStart, BLOCK_SIZE, Last
<1> HIDE DEF Last
<1> QED
    BY <1>1, <1>2

\* Nothing of a pattern matches a pad byte.
LEMMA PadDiffers ==
    ASSUME TypeOK, NEW p \in Pids, NEW i \in Nat, NEW k \in 0..(Size[p] - 1),
           received <= i + k, i + k < received + PAD_SIZE
    PROVE  At(i + k) # Ptn[p][k]
<1>1. Ptn[p][k] \in Byte /\ Size[p] \in Nat
    BY WmAssumption
<1>2. received \in Int /\ i + k \in Nat
    BY <1>1, InputIs
<1>3. i + k \in received..(received + PAD_SIZE - 1)
    BY <1>2 DEF PAD_SIZE
<1>4. At(i + k) = Pad
    BY <1>2, <1>3, InputIs DEF At
<1> QED
    BY <1>1, <1>4, WmAssumption

\* So a pattern that starts in front of the end of the pad bytes, and does not
\* end in front of them, differs at one of them.
LEMMA PadEnds ==
    ASSUME TypeOK, NEW p \in Pids, NEW i \in Nat,
           i < received + PAD_SIZE, i + Size[p] > received
    PROVE  \E k \in 0..(Size[p] - 1) :
               i + k < received + PAD_SIZE /\ At(i + k) # Ptn[p][k]
<1>1. Size[p] \in Nat /\ Size[p] >= 3 /\ received \in Int
    BY WmAssumption, InputIs DEF BLOCK_SIZE
<1>2. CASE i >= received
    <2>1. 0 \in 0..(Size[p] - 1) /\ i + 0 = i
        BY <1>1
    <2>2. At(i + 0) # Ptn[p][0]
        BY <1>1, <1>2, <2>1, PadDiffers
    <2> QED
        BY <2>1, <2>2
<1>3. CASE i < received
    <2>1. PICK k \in Int : k = received - i
        BY <1>1
    <2>2. k \in 0..(Size[p] - 1) /\ i + k = received /\ i + k < received + PAD_SIZE
        BY <1>1, <1>3, <2>1 DEF PAD_SIZE
    <2>3. At(i + k) # Ptn[p][k]
        BY <1>1, <2>2, PadDiffers
    <2> QED
        BY <2>2, <2>3
<1> QED
    BY <1>1, <1>2, <1>3

\* A match that Search has read inside the buffer stands there, and not over the
\* pad bytes.
LEMMA MatchIsOccurrence ==
    ASSUME TypeOK, NEW p \in Pids, NEW i \in Nat, MatchesAt(p, i),
           \/ i + Size[p] <= Len(text)
           \/ \E k \in 0..(Size[p] - 1) :
                 i + k < Len(text) /\ At(i + k) # Ptn[p][k]
    PROVE  /\ OccursAt(p, i)
           /\ i + Size[p] <= received \/ i >= received + PAD_SIZE
<1>1. i + Size[p] <= Len(text)
    BY DEF MatchesAt
<1>2. OccursAt(p, i)
    BY <1>1 DEF OccursAt, MatchesAt, At
<1>3. received \in Int /\ Size[p] \in Nat
    BY InputIs, WmAssumption
<1>4. ASSUME ~(i + Size[p] <= received), ~(i >= received + PAD_SIZE)
      PROVE  FALSE
    <2>1. i + Size[p] > received /\ i < received + PAD_SIZE
        BY <1>3, <1>4 DEF PAD_SIZE
    <2> QED
        BY <2>1, PadEnds DEF MatchesAt
<1> QED
    BY <1>2, <1>4

LEMMA NextInv == IInv /\ [Next]_vars => IInv'
<1> SUFFICES ASSUME IInv, [Next]_vars
             PROVE  IInv'
    OBVIOUS
<1> USE WmAssumption DEF IInv, BLOCK_SIZE, Last
<1>0. Last \in Nat /\ pos \in Nat /\ m_Min \in Nat
    BY DEF TypeOK
<1>1. CASE CompileBlock
    <2>1. TypeOK' /\ HitsAreCovered'
        BY <1>1, CompileInv
    <2>2. PosInv' /\ Sound'
        BY <1>1 DEF CompileBlock, PosInv, Sound, OccursAt, input
    <2> QED
        BY <2>1, <2>2
<1>2. CASE Compiled \/ Finish \/ RunPast
    <2>1. /\ UNCHANGED <<todo, ch, tables, input, pos, result>>
          /\ phase' \in {"search", "done", "past"}
        BY <1>2 DEF Compiled, Finish, RunPast
    <2>2. TypeOK'
        BY <2>1 DEF TypeOK, tables, input
    <2>3. HitsAreCovered' /\ PosInv'
        BY <2>1 DEF HitsAreCovered, PosInv, tables
    <2>4. Sound'
        BY <2>1 DEF Sound, OccursAt, input
    <2> QED
        BY <2>2, <2>3, <2>4
<1>3. ASSUME NEW n \in Nat, Searching, Move(n),
             UNCHANGED <<phase, todo, ch, tables, input, result>>
      PROVE  IInv'
    <2>1. TypeOK' /\ HitsAreCovered'
        BY <1>0, <1>3 DEF TypeOK, HitsAreCovered, Move, tables, input
    <2>2. PosInv'
        BY <1>0, <1>3 DEF PosInv, Move, Searching
    <2>3. Sound'
        BY <1>3 DEF Sound, OccursAt, input
    <2> QED
        BY <2>1, <2>2, <2>3
<1>4. CASE SkipUnknown
    <2>1. m_Min - BLOCK_SIZE + 1 \in Nat
        BY <1>0
    <2> QED
        BY <1>3, <1>4, <2>1 DEF SkipUnknown, Reading
<1>5. CASE SkipKnown
    <2>1. shift[Block] \in Nat
        BY <1>5 DEF SkipKnown, TypeOK
    <2> QED
        BY <1>3, <1>5, <2>1 DEF SkipKnown, Reading
<1>6. CASE Hit
    <2>1. Block \in DOMAIN aux /\ aux[Block] \in Nat /\ Block \in DOMAIN hash
        BY <1>6 DEF Hit, Hitting, TypeOK, HitsAreCovered
    <2>2. hash[Block] \subseteq Pids
        BY <2>1 DEF TypeOK
    <2>3. /\ WindowStart \in 0..(Length - 1) /\ WindowStart \in Nat
          /\ Length \in Nat /\ received \in Int
          /\ ReadsBelow(Len(text)) /\ Hitting
        BY <1>6, WindowIs, InputIs DEF Hit, Reading, Searching
    <2>4. result' = result \cup {p \in hash[Block] : MatchesAt(p, WindowStart)}
        BY <1>6 DEF Hit
    <2>5. result' \subseteq Pids
        BY <2>2, <2>4 DEF TypeOK
    <2>6. pos' = pos + aux[Block]
          /\ UNCHANGED <<phase, todo, ch, tables, input>> /\ phase = "search"
        BY <1>6 DEF Hit, Move, Reading, Searching
    <2>7. TypeOK' /\ HitsAreCovered'
        BY <1>0, <2>1, <2>5, <2>6 DEF TypeOK, HitsAreCovered, tables, input
    <2>8. PosInv'
        BY <1>0, <2>1, <2>6 DEF PosInv
    <2>9. Sound'
        <3> DEFINE Stands(p, i) ==
                       /\ OccursAt(p, i)
                       /\ \/ i + Size[p] <= received
                          \/ /\ i >= received + PAD_SIZE
                             /\ Length > received + PAD_SIZE
        <3>1. ASSUME NEW p \in hash[Block], MatchesAt(p, WindowStart)
              PROVE  \E i \in 0..(Length - 1) : Stands(p, i)
            <4>1. p \in Pids
                BY <2>2
            <4>2. \/ WindowStart + Size[p] <= Len(text)
                  \/ \E k \in 0..(Size[p] - 1) :
                        WindowStart + k < Len(text) /\ At(WindowStart + k) # Ptn[p][k]
                BY <2>3 DEF ReadsBelow
            <4>3. /\ OccursAt(p, WindowStart)
                  /\ \/ WindowStart + Size[p] <= received
                     \/ WindowStart >= received + PAD_SIZE
                BY <2>3, <3>1, <4>1, <4>2, MatchIsOccurrence
            <4>4. WindowStart >= received + PAD_SIZE => Length > received + PAD_SIZE
                BY <2>3 DEF PAD_SIZE
            <4> QED
                BY <2>3, <4>3, <4>4
        <3>2. \A p \in result : \E i \in 0..(Length - 1) : Stands(p, i)
            BY DEF Sound
        <3>3. \A p \in result' : \E i \in 0..(Length - 1) : Stands(p, i)
            BY <2>4, <3>1, <3>2
        <3> QED
            BY <2>6, <3>3 DEF Sound, OccursAt, input
    <2> QED
        BY <2>7, <2>8, <2>9
<1>7. CASE UNCHANGED vars
    BY <1>7 DEF vars, tables, input, TypeOK, HitsAreCovered, PosInv, Sound, OccursAt
<1> QED
    BY <1>1, <1>2, <1>4, <1>5, <1>6, <1>7 DEF Next, Rest

LEMMA Invariance == Spec => []IInv
BY InitInv, NextInv, PTL DEF Spec

-----------------------------------------------------------------------------
(* What holds in every order.                                                *)

\* TypeOK: the tables map blocks to moves within a window.
THEOREM TypeCorrect == Spec => []TypeOK
<1>1. IInv => TypeOK
    BY DEF IInv
<1> QED
    BY <1>1, Invariance, PTL

\* Sound: Search reports only patterns that stand in the packet, although it
\* compares without looking at the end of it, whatever the length; or, if the
\* length ends behind the pad bytes, patterns that stand behind them.
THEOREM SoundHolds == Spec => []Sound
<1>1. IInv => Sound
    BY DEF IInv
<1> QED
    BY <1>1, Invariance, PTL

\* HitsAreCovered: at() never throws, and after a hit the window moves on.
THEOREM HitsAreCoveredHolds == Spec => []HitsAreCovered
<1>1. IInv => HitsAreCovered
    BY DEF IInv
<1> QED
    BY <1>1, Invariance, PTL

\* StaysInBuffer: if the length ends in front of the pad bytes no byte behind
\* them is read, as one of them ends every comparison; and a length that leaves
\* room for every pattern does not leave the buffer.
THEOREM StaysInBufferHolds == Spec => []StaysInBuffer
<1>1. ASSUME IInv, Searching
      PROVE  StaysInBuffer
    <2>1. /\ pos \in Nat /\ pos < Length /\ Length \in Nat
          /\ received \in Int /\ Len(text) \in Nat
          /\ WindowStart \in Nat /\ WindowStart <= pos
        BY <1>1, WindowIs, InputIs DEF IInv, TypeOK, Searching
    <2>2. Hitting => hash[Block] \subseteq Pids
        BY <1>1 DEF IInv, TypeOK, HitsAreCovered, Hitting
    <2>3. \A p \in Pids : Size[p] \in Nat /\ Size[p] >= 3
        BY WmAssumption DEF BLOCK_SIZE
    <2>4. ASSUME Length + BLOCK_SIZE - 1 <= received + PAD_SIZE
          PROVE  ReadsBelow(received + PAD_SIZE)
        <3>1. /\ pos + BLOCK_SIZE <= received + PAD_SIZE
              /\ WindowStart < received + PAD_SIZE
            BY <2>1, <2>4 DEF BLOCK_SIZE, PAD_SIZE
        <3>2. ASSUME NEW p \in Pids
              PROVE  \/ WindowStart + Size[p] <= received + PAD_SIZE
                     \/ \E k \in 0..(Size[p] - 1) :
                           /\ WindowStart + k < received + PAD_SIZE
                           /\ At(WindowStart + k) # Ptn[p][k]
            <4>1. CASE WindowStart + Size[p] > received
                BY <1>1, <2>1, <3>1, <4>1, PadEnds DEF IInv
            <4>2. CASE WindowStart + Size[p] <= received
                BY <2>1, <2>3, <4>2 DEF PAD_SIZE
            <4> QED
                BY <2>1, <2>3, <4>1, <4>2
        <3> QED
            BY <2>2, <3>1, <3>2 DEF ReadsBelow
    <2>5. ASSUME \A p \in Pids : Length + Size[p] <= Len(text),
                 Length + BLOCK_SIZE <= Len(text)
          PROVE  ReadsBelow(Len(text))
        <3>1. ASSUME NEW p \in Pids
              PROVE  WindowStart + Size[p] <= Len(text)
            BY <2>1, <2>3, <2>5
        <3>3. pos + BLOCK_SIZE <= Len(text)
            BY <2>1, <2>5 DEF BLOCK_SIZE
        <3> QED
            BY <2>2, <3>1, <3>3 DEF ReadsBelow
    <2> QED
        BY <2>4, <2>5 DEF StaysInBuffer
<1>2. IInv => StaysInBuffer
    BY <1>1 DEF StaysInBuffer
<1> QED
    BY <1>2, Invariance, PTL

-----------------------------------------------------------------------------
(* What the order has to do with it.                                         *)

\* Every order is benign and has all patterns.
AllBenign ==
    \A o \in Orders : Benign(o) /\ \A p \in Pids : \E i \in 1..Len(o) : o[i] = p

\* The blocks that have been compiled when n patterns of o have been, and some
\* blocks of the next one.
Covered(n, i, d) == i <= n \/ (i = n + 1 /\ d > Last - ch)

\* The patterns still to be compiled are those behind the n-th.
Behind(o, n) ==
    /\ n <= Len(o) /\ Len(todo) = Len(o) - n
    /\ \A i \in 1..Len(todo) : todo[i] = o[n + i]
    /\ phase # "compile" => n = Len(o)

\* No block shifts the window past a pattern that has it; one that does not
\* shift it is the last one of a pattern, which is in the hash table.
ShiftsFit(o, n) ==
    /\ \A i \in 1..Len(o), d \in 0..Last :
          Covered(n, i, d) => /\ BlocksAt(o[i], d) \in DOMAIN shift
                              /\ shift[BlocksAt(o[i], d)] <= d
    /\ \A b \in DOMAIN shift :
          shift[b] = 0 => \E i \in 1..n : BlocksAt(o[i], 0) = b
    /\ \A i \in 1..n : /\ BlocksAt(o[i], 0) \in DOMAIN hash
                       /\ o[i] \in hash[BlocksAt(o[i], 0)]

\* Nor does a hit, not even past patterns that are still to be compiled.
HitsFit(o, n) ==
    \A i \in 1..n, k \in 1..Len(o), d \in 1..Last :
        BlocksAt(o[k], d) = BlocksAt(o[i], 0) =>
            /\ BlocksAt(o[i], 0) \in DOMAIN aux
            /\ aux[BlocksAt(o[i], 0)] <= d

OrderInv ==
    \E o \in Orders, n \in Nat : Behind(o, n) /\ ShiftsFit(o, n) /\ HitsFit(o, n)

LEMMA OrderStill ==
    ASSUME OrderInv, UNCHANGED <<todo, ch, tables>>,
           phase' # "compile" => phase # "compile" \/ todo = <<>>
    PROVE  OrderInv'
<1>1. PICK o \in Orders, n \in Nat : Behind(o, n) /\ ShiftsFit(o, n) /\ HitsFit(o, n)
    BY DEF OrderInv
<1>2. Len(o) \in Nat
    BY WmAssumption
<1>3. Behind(o, n)'
    <2>1. todo = <<>> => Len(todo) = 0
        OBVIOUS
    <2> QED
        BY <1>1, <1>2, <2>1 DEF Behind
<1>4. ShiftsFit(o, n)'
    BY <1>1 DEF ShiftsFit, Covered, tables
<1>5. HitsFit(o, n)'
    BY <1>1 DEF HitsFit, tables
<1> QED
    BY <1>3, <1>4, <1>5 DEF OrderInv

\* A benign order: wherever else a block stands that ends a window, one of the
\* patterns up to there has it at least as near to the end.
LEMMA BenignIs ==
    ASSUME AllBenign, NEW o \in Orders,
           NEW i \in 1..Len(o), NEW k \in 1..Len(o), NEW d \in 1..Last,
           BlocksAt(o[k], d) = BlocksAt(o[i], 0)
    PROVE  \E h \in 1..i : \E e \in 1..d : BlocksAt(o[h], e) = BlocksAt(o[i], 0)
<1>1. o \in Seq(Pids) /\ DOMAIN o = 1..Len(o) /\ Len(o) \in Nat
    BY WmAssumption
<1>2. Last \in Nat /\ d \in Nat /\ d >= 1
    BY WmAssumption DEF Last, BLOCK_SIZE
<1>3. CASE k <= i
    BY <1>1, <1>2, <1>3
<1>4. CASE i < k
    <2>1. Benign(o)
        BY DEF AllBenign
    <2> QED
        BY <1>1, <1>4, <2>1 DEF Benign, Last
<1> QED
    BY <1>1, <1>3, <1>4

LEMMA OrderCompile ==
    ASSUME AllBenign, TypeOK, HitsAreCovered, OrderInv, CompileBlock
    PROVE  OrderInv'
<1> USE WmAssumption
<1>0. PICK o \in Orders, n \in Nat : Behind(o, n) /\ ShiftsFit(o, n) /\ HitsFit(o, n)
    BY DEF OrderInv
<1> DEFINE p == Head(todo)
           block == PtnBlock(p, ch)
<1>0a. PICK d0 \in Int : d0 = BlockPos(ch)
    BY DEF TypeOK, BlockPos, BLOCK_SIZE
<1>1. /\ Len(o) \in Nat /\ Last \in Nat /\ ch \in 0..Last
      /\ d0 = Last - ch /\ d0 \in 0..Last
    BY <1>0a DEF TypeOK, BlockPos, Last, BLOCK_SIZE
<1>2. todo \in Seq(Pids) /\ todo # <<>> /\ phase = "compile" /\ phase' = phase
    BY DEF TypeOK, CompileBlock
<1>3. n + 1 \in 1..Len(o) /\ p = o[n + 1]
    BY <1>1, <1>2, <1>0 DEF Behind
<1>4. block = BlocksAt(o[n + 1], d0)
    <2>1. m_Min - BLOCK_SIZE - d0 = ch
        BY <1>1 DEF Last, BLOCK_SIZE
    <2> QED
        BY <1>3, <2>1 DEF BlocksAt
<1>5. Learnt(p, block, d0)
    BY <1>0a, LearnIs
<1>6. \/ /\ d0 # 0 /\ ch' = ch + 1 /\ todo' = todo
      \/ /\ d0 = 0 /\ ch' = 0 /\ todo' = Tail(todo)
    BY <1>1 DEF CompileBlock, Last
<1> HIDE DEF p, block
<1> USE DEF Learnt
<1>6a. PICK m \in Nat : m = IF d0 = 0 THEN n + 1 ELSE n
    OBVIOUS
<1>7. Behind(o, m)'
    <2>1. CASE d0 # 0
        BY <1>0, <1>2, <1>6, <1>6a, <2>1 DEF Behind
    <2>2. CASE d0 = 0
        <3>0. todo' = Tail(todo)
            BY <1>6, <2>2
        <3>1. /\ todo' \in Seq(Pids) /\ Len(todo') = Len(todo) - 1
              /\ \A i \in 1..Len(todo') : todo'[i] = todo[i + 1]
            BY <1>2, <3>0, HeadTailProperties
        <3>2. Len(todo') = Len(o) - (n + 1)
            <4>1. Len(todo) = Len(o) - n
                BY <1>0 DEF Behind
            <4> QED
                BY ONLY <1>1, <3>1, <4>1, n \in Nat
        <3>3. ASSUME NEW i \in 1..Len(todo')
              PROVE  todo'[i] = o[(n + 1) + i]
            <4>1. i + 1 \in 1..Len(todo) /\ todo'[i] = todo[i + 1]
                BY ONLY <1>2, <3>1
            <4>2. n + (i + 1) = (n + 1) + i
                OBVIOUS
            <4> QED
                BY <1>0, <4>1, <4>2 DEF Behind
        <3>4. m = n + 1 /\ m <= Len(o) /\ phase' = "compile"
            BY <1>1, <1>2, <1>3, <1>6a, <2>2
        <3> QED
            BY <3>2, <3>3, <3>4 DEF Behind
    <2> QED
        BY <2>1, <2>2
<1>8. ASSUME NEW i \in 1..Len(o), NEW d \in 0..Last, Covered(m, i, d)'
      PROVE  Covered(n, i, d) \/ (i = n + 1 /\ d = d0)
    <2>1. CASE d0 # 0
        BY <1>1, <1>6, <1>6a, <1>8, <2>1 DEF Covered
    <2>2. CASE d0 = 0
        BY <1>1, <1>6, <1>6a, <1>8, <2>2 DEF Covered
    <2> QED
        BY <2>1, <2>2
<1>9. \A b \in DOMAIN shift : /\ shift[b] \in 0..Last
                              /\ b \in DOMAIN shift' /\ shift'[b] <= shift[b]
    <2>1. \A b \in DOMAIN shift : shift[b] \in 0..Last
        BY DEF TypeOK, Last
    <2>2. block \in DOMAIN shift => shift'[block] <= shift[block]
        BY <1>1, <1>5, <2>1, LeastIs
    <2> QED
        BY <1>5, <2>1, <2>2
<1>10. block \in DOMAIN shift' /\ shift'[block] <= d0
       /\ (shift'[block] = 0 => d0 = 0 \/ (block \in DOMAIN shift /\ shift[block] = 0))
    <2>1. CASE block \in DOMAIN shift
        BY <1>1, <1>5, <1>9, <2>1, LeastIs
    <2>2. CASE block \notin DOMAIN shift
        BY <1>1, <1>5, <2>2
    <2> QED
        BY <2>1, <2>2
<1>11. ShiftsFit(o, m)'
    <2>1. ASSUME NEW i \in 1..Len(o), NEW d \in 0..Last, Covered(m, i, d)'
          PROVE  /\ BlocksAt(o[i], d) \in DOMAIN shift'
                 /\ shift'[BlocksAt(o[i], d)] <= d
        <3>1. CASE Covered(n, i, d)
            <4>1. /\ BlocksAt(o[i], d) \in DOMAIN shift
                  /\ shift[BlocksAt(o[i], d)] <= d
                BY <1>0, <3>1 DEF ShiftsFit
            <4> DEFINE b == BlocksAt(o[i], d)
            <4>2. shift[b] \in 0..Last /\ b \in DOMAIN shift' /\ shift'[b] <= shift[b]
                BY <1>9, <4>1
            <4>3. shift'[b] \in Nat
                <5>1. CASE b = block
                    <6>1. Least(shift[block], d0) \in {shift[block], d0}
                        BY <1>1, <4>2, <5>1, LeastIs
                    <6> QED
                        BY <1>1, <1>5, <4>1, <4>2, <5>1, <6>1
                <5>2. CASE b # block
                    BY <1>5, <4>1, <4>2, <5>2
                <5> QED
                    BY <5>1, <5>2
            <4> HIDE DEF b
            <4>4. shift[b] <= d
                BY <4>1 DEF b
            <4>5. shift'[b] <= d
                BY <4>2, <4>3, <4>4
            <4> QED
                BY <4>2, <4>5 DEF b
        <3>2. CASE i = n + 1 /\ d = d0
            BY <1>4, <1>10, <3>2
        <3> QED
            BY <1>8, <2>1, <3>1, <3>2
    <2>2. ASSUME NEW b \in DOMAIN shift', shift'[b] = 0
          PROVE  \E i \in 1..m : BlocksAt(o[i], 0) = b
        <3>1. CASE d0 = 0 /\ b = block
            BY <1>4, <1>6a, <3>1
        <3>2. CASE b \in DOMAIN shift /\ shift[b] = 0
            <4>1. PICK i \in 1..n : BlocksAt(o[i], 0) = b
                BY <1>0, <3>2 DEF ShiftsFit
            <4>2. i \in 1..m
                BY <1>6a
            <4> QED
                BY <4>1, <4>2
        <3> QED
            BY <1>5, <1>10, <2>2, <3>1, <3>2
    <2>3. ASSUME NEW i \in 1..m
          PROVE  /\ BlocksAt(o[i], 0) \in DOMAIN hash'
                 /\ o[i] \in hash'[BlocksAt(o[i], 0)]
        <3>1. CASE i \in 1..n
            <4>1. /\ BlocksAt(o[i], 0) \in DOMAIN hash
                  /\ o[i] \in hash[BlocksAt(o[i], 0)]
                BY <1>0, <3>1 DEF ShiftsFit
            <4> QED
                BY <1>5, <4>1
        <3>2. CASE d0 = 0 /\ i = n + 1
            BY <1>3, <1>4, <1>5, <3>2
        <3> QED
            BY <1>6a, <3>1, <3>2
    <2> QED
        BY <2>1, <2>2, <2>3 DEF ShiftsFit
<1>12. HitsFit(o, m)'
    <2> SUFFICES ASSUME NEW i \in 1..m, NEW k \in 1..Len(o), NEW d \in 1..Last,
                        BlocksAt(o[k], d) = BlocksAt(o[i], 0)
                 PROVE  /\ BlocksAt(o[i], 0) \in DOMAIN aux'
                        /\ aux'[BlocksAt(o[i], 0)] <= d
        BY DEF HitsFit
    \* A pattern compiled before: its entry stays, or is taken again as it is.
    <2>1. ASSUME NEW j \in 1..n, BlocksAt(o[j], 0) = BlocksAt(o[i], 0)
          PROVE  /\ BlocksAt(o[i], 0) \in DOMAIN aux'
                 /\ aux'[BlocksAt(o[i], 0)] <= d
        <3> DEFINE b == BlocksAt(o[i], 0)
        <3>1. b \in DOMAIN aux /\ aux[b] <= d
            BY <1>0, <2>1 DEF HitsFit
        <3>2. b \in DOMAIN shift /\ shift[b] = 0
            <4>1. j \in 1..Len(o) /\ Covered(n, j, 0) /\ 0 \in 0..Last
                BY <1>1, <1>3 DEF Covered
            <4>2. b \in DOMAIN shift /\ shift[b] <= 0
                BY <1>0, <2>1, <4>1 DEF ShiftsFit
            <4> QED
                BY <1>9, <4>2
        <3>3. CASE d0 = 0
            BY <1>5, <3>1, <3>2, <3>3
        <3>4. CASE d0 # 0
            BY <1>5, <3>1, <3>4
        <3> QED
            BY <3>3, <3>4
    <2>2. CASE i \in 1..n
        BY <2>1, <2>2
    <2>3. CASE d0 = 0 /\ i = n + 1
        <3>1. BlocksAt(o[i], 0) = block
            BY <1>4, <2>3
        <3>2. CASE block \in DOMAIN shift /\ shift[block] = 0
            <4>1. PICK j \in 1..n : BlocksAt(o[j], 0) = block
                BY <1>0, <3>2 DEF ShiftsFit
            <4> QED
                BY <2>1, <3>1, <4>1
        <3>3. CASE ~(block \in DOMAIN shift /\ shift[block] = 0)
            <4>1. i \in 1..Len(o)
                BY <1>3, <2>3
            <4>2. PICK h \in 1..i, e \in 1..d : BlocksAt(o[h], e) = BlocksAt(o[i], 0)
                BY <4>1, BenignIs
            <4>3. h \in 1..Len(o) /\ e \in 0..Last /\ Covered(n, h, e) /\ e <= d
                BY <1>1, <2>3, <4>1 DEF Covered
            <4>4. block \in DOMAIN shift /\ shift[block] <= e
                BY <1>0, <3>1, <4>2, <4>3 DEF ShiftsFit
            <4>5. aux'[block] <= shift[block] /\ aux'[block] \in 1..(Last + 1)
                  /\ block \in DOMAIN aux'
                BY <1>5, <2>3, <3>3, <4>4
            <4>6. shift[block] \in 0..Last
                BY <1>9, <4>4
            <4>7. aux'[block] <= d
                BY <1>1, <4>3, <4>4, <4>5, <4>6
            <4> QED
                BY <3>1, <4>5, <4>7
        <3> QED
            BY <3>2, <3>3
    <2> QED
        BY <1>6a, <2>2, <2>3
<1> QED
    BY <1>0, <1>7, <1>11, <1>12 DEF OrderInv

\* What that means for the search.
LEMMA TablesFit ==
    ASSUME AllBenign, OrderInv, phase # "compile", NEW p \in Pids
    PROVE  /\ \A d \in 0..Last : /\ BlocksAt(p, d) \in DOMAIN shift
                                 /\ shift[BlocksAt(p, d)] <= d
           /\ p \in hash[BlocksAt(p, 0)]
           /\ \A d \in 1..Last :
                 shift[BlocksAt(p, d)] = 0 => aux[BlocksAt(p, d)] <= d
<1>1. PICK o \in Orders, n \in Nat : Behind(o, n) /\ ShiftsFit(o, n) /\ HitsFit(o, n)
    BY DEF OrderInv
<1>2. n = Len(o)
    BY <1>1 DEF Behind
<1>3. PICK i \in 1..Len(o) : o[i] = p
    BY DEF AllBenign
<1>4. \A d \in 0..Last : Covered(n, i, d)
    BY <1>2 DEF Covered
<1>5. \A d \in 0..Last : /\ BlocksAt(p, d) \in DOMAIN shift
                         /\ shift[BlocksAt(p, d)] <= d
    BY <1>1, <1>3, <1>4 DEF ShiftsFit
<1>6. p \in hash[BlocksAt(p, 0)]
    BY <1>1, <1>2, <1>3 DEF ShiftsFit
<1>7. ASSUME NEW d \in 1..Last, shift[BlocksAt(p, d)] = 0
      PROVE  aux[BlocksAt(p, d)] <= d
    <2>1. d \in 0..Last
        BY WmAssumption DEF Last, BLOCK_SIZE
    <2>2. PICK j \in 1..n : BlocksAt(o[j], 0) = BlocksAt(p, d)
        BY <1>1, <1>5, <1>7, <2>1 DEF ShiftsFit
    <2> QED
        BY <1>1, <1>3, <2>2 DEF HitsFit
<1> QED
    BY <1>5, <1>6, <1>7

-----------------------------------------------------------------------------
(* Completeness.                                                             *)

\* Every occurrence that the window has passed has been reported.
PassedInv ==
    phase # "compile" =>
        \A p \in Pids : \A i \in 0..(WindowStart - 1) :
            OccursAt(p, i) => p \in result

\* The search has come to the end.
EndInv == phase = "done" => pos >= Length

\* A letter of a block lies in its pattern and in the text.
LEMMA BlockArith ==
    ASSUME NEW i \in Nat, NEW c \in Nat, NEW last \in Nat, NEW size \in Nat,
           NEW len \in Nat, NEW j \in 0..2,
           c <= last, last + 2 <= size - 1, i + size <= len
    PROVE  /\ c + j \in 0..(size - 1) /\ i + c + j < len
           /\ i + (c + j) + 1 = i + c + j + 1
OBVIOUS

\* A pattern that occurs d further on shows its block at distance d.
LEMMA BlockInWindow ==
    ASSUME TypeOK, PosInv, NEW p \in Pids, NEW d \in 0..Last,
           OccursAt(p, WindowStart + d)
    PROVE  Block = BlocksAt(p, d)
<1> USE WmAssumption DEF BLOCK_SIZE, Last
<1> DEFINE i == WindowStart + d
           c == Last - d
<1>1. /\ Len(text) \in Nat /\ WindowStart \in Nat /\ i \in Nat
      /\ c \in 0..Last /\ pos = i + c
    BY WindowIs, InputIs DEF TypeOK
<1>2. Size[p] \in Nat /\ Last + 2 <= Size[p] - 1 /\ i + Size[p] <= Len(text)
    BY DEF OccursAt
<1>3. ASSUME NEW j \in 0..2
      PROVE  At(pos + j) = Ptn[p][c + j]
    <2>1. /\ c + j \in 0..(Size[p] - 1)
          /\ i + (c + j) + 1 = pos + j + 1
        <3> HIDE DEF i, c
        <3>1. Last \in Nat /\ c \in Nat /\ c <= Last
            BY <1>1
        <3> QED
            BY <1>1, <1>2, <3>1, BlockArith
    <2>2. text[i + (c + j) + 1] = Ptn[p][c + j]
        BY <2>1 DEF OccursAt
    <2> QED
        BY <2>1, <2>2 DEF At
<1>4. /\ At(pos) = Ptn[p][c] /\ At(pos + 1) = Ptn[p][c + 1]
      /\ At(pos + 2) = Ptn[p][c + 2]
    <2>1. /\ At(pos + 0) = Ptn[p][c + 0] /\ At(pos + 1) = Ptn[p][c + 1]
          /\ At(pos + 2) = Ptn[p][c + 2]
        BY <1>3
    <2>2. pos + 0 = pos /\ c + 0 = c
        BY <1>1
    <2> QED
        BY <2>1, <2>2
<1> QED
    BY <1>4 DEF Block, BlocksAt, PtnBlock

\* An occurrence matches.
LEMMA OccurrenceMatches ==
    ASSUME TypeOK, NEW p \in Pids, NEW i \in Nat, OccursAt(p, i)
    PROVE  MatchesAt(p, i)
  BY DEF MatchesAt, OccursAt, At

\* A move that no block of a pattern forbids passes nothing unreported.
LEMMA MoveInv ==
    ASSUME TypeOK, PosInv, PassedInv, Searching,
           NEW n \in 0..(Last + 1), Move(n), UNCHANGED <<phase, text>>,
           result \subseteq result',
           \A p \in Pids : \A d \in 0..Last :
               Block = BlocksAt(p, d) /\ d < n =>
                   d = 0 /\ (OccursAt(p, WindowStart) => p \in result')
    PROVE  PassedInv'
<1> SUFFICES ASSUME NEW p \in Pids, NEW i \in 0..(WindowStart' - 1), OccursAt(p, i)
             PROVE  p \in result'
    BY DEF PassedInv, OccursAt
<1>1. /\ WindowStart \in Nat /\ Last \in Nat /\ WindowStart' = WindowStart + n
      /\ phase # "compile"
    <2>1. WindowStart \in Nat /\ phase # "compile"
        BY WindowIs DEF Searching
    <2>2. pos \in Nat /\ m_Min \in Nat /\ m_Min >= 3 /\ pos' = pos + n /\ n \in Int
        BY WmAssumption DEF Move, TypeOK, BLOCK_SIZE, Last
    <2>3. WindowStart' = WindowStart + n
        BY <2>2 DEF WindowStart, BLOCK_SIZE
    <2> QED
        BY <2>1, <2>2, <2>3 DEF Last, BLOCK_SIZE
<1>2. CASE i < WindowStart
    BY <1>1, <1>2 DEF PassedInv
<1>3. CASE i >= WindowStart
    <2> DEFINE d == i - WindowStart
    <2>1. d \in 0..Last /\ d < n /\ i = WindowStart + d
        BY <1>1, <1>3
    <2> HIDE DEF d
    <2>2. Block = BlocksAt(p, d)
        BY <2>1, BlockInWindow
    <2>3. d = 0 /\ (OccursAt(p, WindowStart) => p \in result')
        BY <2>1, <2>2
    <2>4. i = WindowStart
        BY <1>1, <2>1, <2>3
    <2> QED
        BY <2>3, <2>4
<1> QED
    BY <1>1, <1>2, <1>3

CInv == AllBenign /\ IInv /\ OrderInv /\ PassedInv /\ EndInv

LEMMA CompleteInit == AllBenign /\ Init => CInv
<1> SUFFICES ASSUME AllBenign, Init
             PROVE  OrderInv /\ PassedInv /\ EndInv
    BY InitInv DEF CInv
<1>1. PassedInv /\ EndInv
    BY DEF Init, PassedInv, EndInv
<1>2. todo \in Orders /\ Len(todo) \in Nat
    BY WmAssumption DEF Init
<1>3. PICK o \in Orders : o = todo
    BY <1>2
<1>4. Behind(o, 0)
    BY <1>2, <1>3 DEF Behind, Init
<1>5. ShiftsFit(o, 0)
    <2>1. \A i \in 1..Len(o), d \in 0..Last : ~Covered(0, i, d)
        BY <1>2, <1>3, WmAssumption DEF Covered, Init, Last, BLOCK_SIZE
    <2>2. DOMAIN shift = {}
        BY EmptyIs DEF Init
    <2> QED
        BY <2>1, <2>2 DEF ShiftsFit
<1>6. HitsFit(o, 0)
    BY DEF HitsFit
<1> QED
    BY <1>1, <1>4, <1>5, <1>6 DEF OrderInv

LEMMA CompleteNext == CInv /\ [Next]_vars => CInv'
<1> SUFFICES ASSUME CInv, [Next]_vars
             PROVE  OrderInv' /\ PassedInv' /\ EndInv'
    BY NextInv DEF CInv
<1> USE DEF CInv, IInv
<1>0. Last \in Nat /\ Last + 1 = m_Min - BLOCK_SIZE + 1
    BY WmAssumption DEF Last, BLOCK_SIZE
<1>1. CASE CompileBlock
    <2>1. OrderInv'
        BY <1>1, OrderCompile
    <2>2. phase' = "compile"
        BY <1>1 DEF CompileBlock
    <2> QED
        BY <2>1, <2>2 DEF PassedInv, EndInv
<1>2. CASE Compiled
    <2>1. OrderInv'
        BY <1>2, OrderStill DEF Compiled
    <2>2. WindowStart' = 0 /\ phase' = "search"
        BY <1>2, WmAssumption
        DEF Compiled, PosInv, WindowStart, Last, BLOCK_SIZE, TypeOK
    <2> QED
        BY <2>1, <2>2 DEF PassedInv, EndInv
<1>3. CASE Finish
    <2>1. OrderInv'
        BY <1>3, OrderStill DEF Finish
    <2>2. PassedInv' /\ EndInv'
        BY <1>3 DEF Finish, PassedInv, EndInv, WindowStart, OccursAt, input
    <2> QED
        BY <2>1, <2>2
<1>3a. CASE RunPast
    <2>1. OrderInv'
        BY <1>3a, OrderStill DEF RunPast, Searching
    <2>2. PassedInv' /\ EndInv'
        BY <1>3a DEF RunPast, Searching, PassedInv, EndInv, WindowStart, OccursAt, input
    <2> QED
        BY <2>1, <2>2
<1>4. ASSUME UNCHANGED <<phase, todo, ch, tables, input>>, phase = "search"
      PROVE  OrderInv' /\ EndInv'
    BY <1>4, OrderStill DEF EndInv, input
<1>5. CASE SkipUnknown
    <2>1. UNCHANGED <<phase, todo, ch, tables, input, result>> /\ Searching
          /\ Move(Last + 1) /\ text' = text
        BY <1>0, <1>5 DEF SkipUnknown, Reading, input
    <2>2. ASSUME NEW p \in Pids, NEW d \in 0..Last
          PROVE  Block # BlocksAt(p, d)
        BY <1>5, <2>1, TablesFit DEF SkipUnknown, Searching
    <2>3. PassedInv'
        <3>1. Last + 1 \in 0..(Last + 1)
            BY <1>0
        <3> QED
            BY <2>1, <2>2, <3>1, MoveInv
    <2> QED
        BY <1>4, <2>1, <2>3 DEF Searching
<1>6. CASE SkipKnown
    <2>1. UNCHANGED <<phase, todo, ch, tables, input, result>> /\ Searching
          /\ Move(shift[Block]) /\ text' = text
        BY <1>6 DEF SkipKnown, Reading, input
    <2>2. shift[Block] \in 0..(Last + 1)
        BY <1>0, <1>6 DEF SkipKnown, TypeOK, Last
    <2>3. ASSUME NEW p \in Pids, NEW d \in 0..Last, Block = BlocksAt(p, d)
          PROVE  ~(d < shift[Block])
        <3>1. shift[Block] <= d
            BY <2>1, <2>3, TablesFit DEF Searching
        <3> QED
            BY <2>2, <3>1
    <2>4. PassedInv'
        BY <2>1, <2>2, <2>3, MoveInv
    <2> QED
        BY <1>4, <2>1, <2>4 DEF Searching
<1>7. CASE Hit
    <2>1. /\ UNCHANGED <<phase, todo, ch, tables, input>> /\ Searching
          /\ text' = text
          /\ Move(aux[Block]) /\ Block \in DOMAIN shift /\ shift[Block] = 0
          /\ result' = result \cup {p \in hash[Block] : MatchesAt(p, WindowStart)}
        BY <1>7 DEF Hit, Hitting, Reading, input
    <2>2. aux[Block] \in 0..(Last + 1)
        <3>1. Block \in DOMAIN aux
            BY <2>1 DEF HitsAreCovered
        <3>2. aux[Block] \in 1..(m_Min - BLOCK_SIZE + 1)
            BY <3>1 DEF TypeOK
        <3> QED
            BY <1>0, <3>2
    <2>3. ASSUME NEW p \in Pids, NEW d \in 0..Last, Block = BlocksAt(p, d),
                 d < aux[Block]
          PROVE  d = 0 /\ (OccursAt(p, WindowStart) => p \in result')
        <3>1. d = 0
            <4> SUFFICES ASSUME d # 0
                         PROVE  FALSE
                OBVIOUS
            <4>1. d \in 1..Last
                BY <1>0
            <4>2. aux[Block] <= d
                BY <2>1, <2>3, <4>1, TablesFit DEF Searching
            <4> QED
                BY <2>2, <2>3, <4>2
        <3>2. p \in hash[Block]
            BY <2>1, <2>3, <3>1, TablesFit DEF Searching
        <3>3. WindowStart \in Nat
            BY WindowIs
        <3>4. OccursAt(p, WindowStart) => MatchesAt(p, WindowStart)
            BY <3>3, OccurrenceMatches
        <3> QED
            BY <2>1, <3>1, <3>2, <3>4
    <2>4. PassedInv'
        BY <2>1, <2>2, <2>3, MoveInv
    <2> QED
        BY <1>4, <2>1, <2>4 DEF Searching
<1>8. CASE UNCHANGED vars
    <2>1. OrderInv'
        BY <1>8, OrderStill DEF vars
    <2>2. PassedInv' /\ EndInv'
        BY <1>8 DEF vars, input, PassedInv, EndInv, WindowStart, OccursAt
    <2> QED
        BY <2>1, <2>2
<1> QED
    BY <1>1, <1>2, <1>3, <1>3a, <1>5, <1>6, <1>7, <1>8 DEF Next, Rest

\* Complete: in a benign order, Search finds every pattern that occurs, in any
\* payload, and reports it as soon as the window has passed it.
THEOREM CompleteWhenBenign == AllBenign /\ Spec => []Complete
<1>1. CInv => Complete
    <2> SUFFICES ASSUME CInv
                 PROVE  Complete
        OBVIOUS
    <2> USE WmAssumption DEF CInv, IInv
    <2>1. ASSUME phase = "done", NEW p \in OccurringIn(Length)
          PROVE  p \in result
        <3>1. p \in Pids
            BY DEF OccurringIn
        <3>2. PICK i \in 0..(Len(text) - 1) : OccursAt(p, i) /\ i + Size[p] <= Length
            BY DEF OccurringIn
        <3>3. /\ Len(text) \in Nat /\ Length \in Nat
              /\ Size[p] \in Nat /\ Size[p] >= m_Min /\ pos \in Nat /\ m_Min \in Nat
            BY <3>1, InputIs DEF TypeOK
        <3>4. i + Size[p] <= Length /\ Length <= pos
            BY <2>1, <3>2 DEF EndInv
        <3>5. i \in 0..(WindowStart - 1)
            BY <3>3, <3>4 DEF WindowStart, BLOCK_SIZE
        <3> QED
            BY <2>1, <3>1, <3>2, <3>5 DEF PassedInv
    <2>2. ASSUME Length = received, NEW p \in result
          PROVE  p \in OccurringIn(Length)
        <3>1. p \in Pids /\ Size[p] \in Nat
            BY DEF TypeOK
        <3>2. PICK i \in 0..(Length - 1) :
                  /\ OccursAt(p, i)
                  /\ \/ i + Size[p] <= received
                     \/ i >= received + PAD_SIZE /\ Length > received + PAD_SIZE
            BY DEF Sound
        <3>3. Length \in Nat /\ Len(text) \in Nat /\ Length + PAD_SIZE <= Len(text)
            BY <2>2, InputIs
        <3>4. i + Size[p] <= Length /\ i \in 0..(Len(text) - 1)
            BY <2>2, <3>1, <3>2, <3>3 DEF PAD_SIZE
        <3> QED
            BY <3>1, <3>2, <3>4 DEF OccurringIn
    <2> QED
        BY <2>1, <2>2 DEF PassedInv, Complete
<1> QED
    BY <1>1, CompleteInit, CompleteNext, PTL DEF Spec

-----------------------------------------------------------------------------
(* Every step brings the end nearer.                                         *)

Below == OpToRel(<, Nat)
Before == LexPairOrdering(Below, LexPairOrdering(Below, Below, Nat, Nat),
                          Nat, Nat \X Nat)

\* What is left: phases, then patterns to compile, then blocks of the pattern
\* or bytes of the payload.
Left ==
    CASE phase = "compile" -> <<2, <<Len(todo), Last - ch>>>>
      [] phase = "search" ->
             <<1, <<0, IF pos < Length THEN Length - pos ELSE 0>>>>
      [] OTHER -> <<0, <<0, 0>>>>

LEMMA BeforeIs ==
    ASSUME NEW a1 \in Nat, NEW b1 \in Nat, NEW c1 \in Nat,
           NEW a2 \in Nat, NEW b2 \in Nat, NEW c2 \in Nat,
           \/ a1 < a2
           \/ a1 = a2 /\ b1 < b2
           \/ a1 = a2 /\ b1 = b2 /\ c1 < c2
    PROVE  << <<a1, <<b1, c1>>>>, <<a2, <<b2, c2>>>> >> \in Before
<1>1. \A m, n \in Nat : m < n => <<m, n>> \in Below
    BY DEF Below, OpToRel
<1>2. \/ b1 < b2
      \/ b1 = b2 /\ c1 < c2
      => << <<b1, c1>>, <<b2, c2>> >>
            \in LexPairOrdering(Below, Below, Nat, Nat)
    BY <1>1 DEF LexPairOrdering
<1> QED
    BY <1>1, <1>2 DEF Before, LexPairOrdering

\* There is no infinite descent in what is left for Compile and Search to do ...
THEOREM LeftIsWellFounded == IsWellFoundedOn(Before, Nat \X (Nat \X Nat))
<1>1. IsWellFoundedOn(Below, Nat)
    BY NatLessThanWellFounded, Zenon DEF Below
<1>2. IsWellFoundedOn(LexPairOrdering(Below, Below, Nat, Nat), Nat \X Nat)
    BY <1>1, WFLexPairOrdering, Zenon
<1> QED
    BY <1>1, <1>2, WFLexPairOrdering, Zenon DEF Before

LEMMA Remaining ==
    ASSUME NEW m \in Nat, NEW c \in 0..(m - 3)
    PROVE  m - 3 - c \in Nat
<1> QED
    OBVIOUS

LEMMA LeftParts ==
    ASSUME IInv
    PROVE  /\ Last - ch \in Nat /\ Len(todo) \in Nat
           /\ pos \in Nat /\ Length \in Nat /\ ch \in Nat
BY InputIs, WmAssumption DEF IInv, TypeOK, Last, BLOCK_SIZE

LEMMA LeftType == IInv => Left \in Nat \X (Nat \X Nat)
BY LeftParts DEF Left

Advances == << Left', Left >> \in Before

\* ... and every step of Compile and Search descends: neither a hit, whose
\* shift is 0, nor an unknown block leaves the window where it is.
THEOREM SearchAdvances == Spec => [][Advances]_vars
<1>0. IInv => /\ Last - ch \in Nat /\ Len(todo) \in Nat
              /\ pos \in Nat /\ Length \in Nat /\ ch \in Nat
    BY LeftParts
<1>p. IInv' => Last - ch' \in Nat /\ Len(todo') \in Nat
    <2> SUFFICES ASSUME IInv' PROVE Last - ch' \in Nat /\ Len(todo') \in Nat
        OBVIOUS
    <2>1. ch' \in 0..(m_Min - BLOCK_SIZE) /\ todo' \in Seq(Pids)
        BY DEF IInv, TypeOK
    <2>2. Len(todo') \in Nat
        BY <2>1
    <2>3. m_Min \in Nat /\ m_Min >= 3
        BY WmAssumption DEF BLOCK_SIZE
    <2>4. 3 \in Nat /\ ch' \in 0..(m_Min - 3)
        BY <2>1 DEF BLOCK_SIZE
    <2>6. Last - ch' \in Nat
        BY <2>3, <2>4, Remaining DEF Last, BLOCK_SIZE
    <2> QED
        BY <2>2, <2>6
<1>1. IInv /\ IInv' /\ [Next]_vars => [Advances]_vars
    <2> SUFFICES ASSUME IInv, IInv', Next PROVE [Advances]_vars
        OBVIOUS
    <2>0. /\ Last - ch \in Nat /\ Len(todo) \in Nat /\ pos \in Nat
          /\ Last - ch' \in Nat /\ Len(todo') \in Nat
          /\ Length \in Nat /\ ch \in Nat
        BY <1>0, <1>p
    <2> USE WmAssumption DEF IInv, BLOCK_SIZE, Last
    <2>1. CASE CompileBlock
        <3>1. /\ Left = <<2, <<Len(todo), Last - ch>>>>
              /\ Left' = <<2, <<Len(todo'), Last - ch'>>>>
            BY <2>1 DEF CompileBlock, Left
        <3>2. \/ Len(todo') < Len(todo)
              \/ Len(todo') = Len(todo) /\ Last - ch' < Last - ch
            <4>1. CASE ch < m_Min - BLOCK_SIZE
                BY <2>0, <2>1, <4>1 DEF CompileBlock
            <4>2. CASE ~ (ch < m_Min - BLOCK_SIZE)
                <5>1. todo # <<>> /\ todo' = Tail(todo) /\ todo \in Seq(Pids)
                    BY <2>1, <4>2 DEF CompileBlock, TypeOK
                <5> QED
                    BY <5>1
            <4> QED
                BY <4>1, <4>2
        <3> DEFINE m1 == Len(todo')
                   m2 == Last - ch'
                   n1 == Len(todo)
                   n2 == Last - ch
        <3>3. /\ m1 \in Nat /\ m2 \in Nat /\ n1 \in Nat /\ n2 \in Nat
              /\ m1 < n1 \/ (m1 = n1 /\ m2 < n2)
            BY <2>0, <3>2
        <3> HIDE DEF m1, m2, n1, n2
        <3>4. << <<2, <<m1, m2>>>>, <<2, <<n1, n2>>>> >> \in Before
            BY <3>3, BeforeIs
        <3> QED
            BY <3>1, <3>4 DEF Advances, m1, m2, n1, n2
    <2>2. CASE Compiled
        <3>1. Left = <<2, <<Len(todo), Last - ch>>>>
            BY <2>2 DEF Compiled, Left
        <3>2. PICK k \in Nat : Left' = <<1, <<0, k>>>>
            BY <2>0, <2>2 DEF Compiled, Left, input
        <3> DEFINE rest == Last - ch
        <3>3. rest \in Nat /\ 1 < 2
            BY <2>0
        <3> HIDE DEF rest
        <3>4. << <<1, <<0, k>>>>, <<2, <<Len(todo), rest>>>> >> \in Before
            BY <2>0, <3>3, BeforeIs
        <3> QED
            BY <3>1, <3>2, <3>4 DEF Advances, rest
    <2>3. ASSUME NEW n \in Nat, n # 0, Searching, Move(n),
                 UNCHANGED <<phase, Length>>
          PROVE  Advances
        <3>1. /\ Left = <<1, <<0, Length - pos>>>>
              /\ Left' = <<1, <<0, IF pos' < Length
                                   THEN Length - pos' ELSE 0>>>>
              /\ pos < Length /\ pos' = pos + n
            BY <2>3 DEF Searching, Move, Left
        <3> DEFINE rest == IF pos' < Length THEN Length - pos' ELSE 0
        <3>2. rest \in Nat /\ Length - pos \in Nat /\ rest < Length - pos
            BY <2>0, <2>3, <3>1
        <3> HIDE DEF rest
        <3>3. << <<1, <<0, rest>>>>, <<1, <<0, Length - pos>>>> >> \in Before
            BY <3>2, BeforeIs
        <3> QED
            BY <3>1, <3>3 DEF rest, Advances
    <2>4. CASE SkipUnknown
        <3>1. m_Min - BLOCK_SIZE + 1 \in Nat \ {0}
            OBVIOUS
        <3> QED
            BY <2>3, <2>4, <3>1 DEF SkipUnknown, Reading, input
    <2>5. CASE SkipKnown
        <3>1. shift[Block] \in Nat
            BY <2>5 DEF SkipKnown, TypeOK
        <3> QED
            BY <2>3, <2>5, <3>1 DEF SkipKnown, Reading, input
    <2>6. CASE Hit
        <3>1. aux[Block] \in Nat \ {0}
            BY <2>6 DEF Hit, Hitting, TypeOK, HitsAreCovered
        <3> QED
            BY <2>3, <2>6, <3>1 DEF Hit, Reading, input
    <2>7. CASE Finish
        <3>1. Left = <<1, <<0, 0>>>> /\ Left' = <<0, <<0, 0>>>>
            BY <2>0, <2>7 DEF Finish, Left
        <3> QED
            BY <3>1, BeforeIs DEF Advances
    <2>8. CASE RunPast
        <3>1. PICK k \in Nat : Left = <<1, <<0, k>>>>
            BY <2>0, <2>8 DEF RunPast, Searching, Left
        <3>2. Left' = <<0, <<0, 0>>>>
            BY <2>8 DEF RunPast, Left
        <3> QED
            BY <3>1, <3>2, BeforeIs DEF Advances
    <2> QED
        BY <2>8, <2>1, <2>2, <2>4, <2>5, <2>6, <2>7 DEF Next, Rest
<1> QED
    BY <1>1, Invariance, PTL DEF Spec
=============================================================================
