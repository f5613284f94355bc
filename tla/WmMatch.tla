------------------------------- MODULE WmMatch -------------------------------
(* The multi-pattern search of the DPI library (Wu-Manber): Compile builds   *)
(* three tables from the patterns, Search slides a window of m_Min bytes     *)
(* over a payload and looks at the last block of three bytes in it.          *)
(*                                                                           *)
(* Positions count from 0, as in the code.  The patterns are compiled in the *)
(* iteration order of an unordered_map, which is a parameter.  One behaviour *)
(* is one compilation and one search.                                        *)
(*                                                                           *)
(* The length that Search is given need not end in front of the pad bytes:   *)
(* options in the TCP header make it shorter than what was received, options *)
(* in the IP header make it longer, and it may have wrapped (PacketParse).   *)
(* So the text is the packet buffer from m_Payload to its end: bytes that    *)
(* were received, the pad bytes, and what the memory held before.            *)
EXTENDS Integers, Sequences, FiniteSets

CONSTANTS
    Pids,       \* pattern ids
    Size,       \* Size[p]: length of pattern p
    Ptn,        \* Ptn[p][i]: byte i of pattern p
    m_Min,      \* length of the shortest pattern
    Byte,       \* bytes that occur in patterns and payloads
    Pad,        \* the byte 0xa3 that IpPacket writes behind the packet
    Payloads,   \* what Search may be called with, see WmAssumption
    Orders      \* orders in which the patterns may be compiled

BLOCK_SIZE == 3
PAD_SIZE == 4   \* pad bytes behind a packet

ASSUME WmAssumption ==
    /\ Pad \notin Byte
    /\ m_Min \in Nat /\ m_Min >= BLOCK_SIZE
    /\ Size \in [Pids -> Nat]
    /\ \A p \in Pids : Size[p] >= m_Min /\ Ptn[p] \in [0..(Size[p] - 1) -> Byte]
    /\ Payloads \subseteq
          [text : Seq(Byte \cup {Pad}), received : Int, length : Nat]
    /\ \A q \in Payloads :
          /\ q.received + PAD_SIZE <= Len(q.text)
          /\ \A k \in q.received..(q.received + PAD_SIZE - 1) :
                k >= 0 => q.text[k + 1] = Pad
    /\ Orders \subseteq Seq(Pids)

VARIABLES
    phase,      \* "compile", "search", "done", or "past" the buffer
    todo,       \* patterns still to be compiled, in order
    ch,         \* Ch: next block of the first of them
    shift,      \* m_ShiftTable: block -> how far the window may move
    aux,        \* m_AuxShiftTable: block -> how far after a hit
    hash,       \* m_HashTable: block -> patterns that may end here
    text,       \* Text: the buffer from m_Payload on
    Length,     \* m_PayloadLen
    received,   \* how many bytes of the text are of the packet; below 0 if
                \* m_Payload points behind it
    pos,        \* Pos: start of the block looked at
    result      \* m_Result

tables == <<shift, aux, hash>>
input == <<text, Length, received>>
vars == <<phase, todo, ch, tables, input, pos, result>>

Least(a, b) == IF a <= b THEN a ELSE b

\* Table[block] = value on an unordered_map.
Put(table, block, value) ==
    [b \in DOMAIN table \cup {block} |-> IF b = block THEN value ELSE table[b]]

Empty == [b \in {} |-> 0]

Init ==
    /\ phase = "compile"
    /\ todo \in Orders
    /\ ch = 0
    /\ shift = Empty /\ aux = Empty /\ hash = Empty
    /\ \E q \in Payloads :
          text = q.text /\ Length = q.length /\ received = q.received
    /\ pos = m_Min - BLOCK_SIZE
    /\ result = {}

-----------------------------------------------------------------------------
(* Compile                                                                   *)

PtnBlock(p, i) == <<Ptn[p][i], Ptn[p][i + 1], Ptn[p][i + 2]>>

\* Distance of block i from the end of the window.
BlockPos(i) == m_Min - i - BLOCK_SIZE

\* Mutant: a block first seen at the end of a window is not treated apart.
OldShiftPlain(block, i) ==
    IF block \in DOMAIN shift THEN shift[block] ELSE BlockPos(i)

\* What the auxiliary table is to learn: the shift that the block had, or the
\* one it would have if it were not at the end of this pattern.
OldShift(block, i) ==
    IF block \in DOMAIN shift THEN shift[block]
    ELSE IF BlockPos(i) = 0 THEN m_Min - BLOCK_SIZE + 1
    ELSE BlockPos(i)

\* Mutant: the first pattern compiled decides, not the shortest distance.
LearnShiftFirst(block, i) ==
    shift' = IF block \in DOMAIN shift THEN shift
             ELSE Put(shift, block, BlockPos(i))

LearnShift(block, i) ==
    shift' = Put(shift, block,
                 IF block \in DOMAIN shift
                 THEN Least(shift[block], BlockPos(i))
                 ELSE BlockPos(i))

\* Only the last block of the window enters the two other tables.
LearnHit(p, block, i) ==
    IF BlockPos(i) # 0
    THEN UNCHANGED <<hash, aux>>
    ELSE /\ hash' = Put(hash, block,
                        IF block \in DOMAIN hash THEN hash[block] \cup {p}
                        ELSE {p})
         /\ aux' = IF OldShift(block, i) = 0 THEN aux
                   ELSE Put(aux, block,
                            IF block \in DOMAIN aux
                            THEN Least(aux[block], OldShift(block, i))
                            ELSE OldShift(block, i))

CompileBlock ==
    /\ phase = "compile"
    /\ todo # <<>>
    /\ LET p == Head(todo)
           block == PtnBlock(p, ch)
       IN  LearnShift(block, ch) /\ LearnHit(p, block, ch)
    /\ IF ch < m_Min - BLOCK_SIZE
       THEN ch' = ch + 1 /\ UNCHANGED todo
       ELSE ch' = 0 /\ todo' = Tail(todo)
    /\ UNCHANGED <<phase, input, pos, result>>

Compiled ==
    /\ phase = "compile"
    /\ todo = <<>>
    /\ phase' = "search"
    /\ UNCHANGED <<todo, ch, tables, input, pos, result>>

-----------------------------------------------------------------------------
(* Search                                                                    *)

At(i) == text[i + 1]

Block == <<At(pos), At(pos + 1), At(pos + 2)>>
WindowStart == pos - m_Min + BLOCK_SIZE

\* The block is the last one of a pattern: patterns are compared.
Hitting == Block \in DOMAIN shift /\ shift[Block] = 0

\* What the next round of the loop reads lies in the first n bytes: a
\* comparison stops at the first difference.
ReadsBelow(n) ==
    /\ pos + BLOCK_SIZE <= n
    /\ Hitting => \A p \in hash[Block] :
          \/ WindowStart + Size[p] <= n
          \/ \E k \in 0..(Size[p] - 1) :
                WindowStart + k < n /\ At(WindowStart + k) # Ptn[p][k]

\* Mutant: the last character of the pattern is not compared.
MatchesButLast(p, i) == \A k \in 0..(Size[p] - 2) : At(i + k) = Ptn[p][k]

\* The comparison loop over the characters of a pattern.
MatchesAt(p, i) == \A k \in 0..(Size[p] - 1) : At(i + k) = Ptn[p][k]

\* Mutant: the pad bytes are searched as well.
SearchingPad == phase = "search" /\ pos < Length + PAD_SIZE

Searching == phase = "search" /\ pos < Length

\* The next round stays in the buffer.
Reading == Searching /\ ReadsBelow(Len(text))

Move(n) == pos' = pos + n

SkipUnknown ==
    /\ Reading
    /\ Block \notin DOMAIN shift
    /\ Move(m_Min - BLOCK_SIZE + 1)
    /\ UNCHANGED <<phase, todo, ch, tables, input, result>>

SkipKnown ==
    /\ Reading
    /\ Block \in DOMAIN shift
    /\ shift[Block] # 0
    /\ Move(shift[Block])
    /\ UNCHANGED <<phase, todo, ch, tables, input, result>>

\* Mutant: the window stays after a hit.
HitStays ==
    /\ Reading /\ Hitting
    /\ result' = result \cup {p \in hash[Block] : MatchesAt(p, WindowStart)}
    /\ UNCHANGED <<phase, todo, ch, tables, input, pos>>

\* The code reads both tables with at(), which throws on a missing block.
Hit ==
    /\ Reading /\ Hitting
    /\ result' = result \cup {p \in hash[Block] : MatchesAt(p, WindowStart)}
    /\ Move(aux[Block])
    /\ UNCHANGED <<phase, todo, ch, tables, input>>

Finish ==
    /\ phase = "search"
    /\ pos >= Length
    /\ phase' = "done"
    /\ UNCHANGED <<todo, ch, tables, input, pos, result>>

\* Search reads behind the buffer.  What it finds there, or whether it comes
\* back at all, the code does not determine.
RunPast ==
    /\ Searching
    /\ ~ReadsBelow(Len(text))
    /\ phase' = "past"
    /\ UNCHANGED <<todo, ch, tables, input, pos, result>>

\* The result has been returned, or anything may happen.
Rest == phase \in {"done", "past"} /\ UNCHANGED vars

Next ==
    \/ CompileBlock \/ Compiled
    \/ SkipUnknown \/ SkipKnown \/ Hit \/ Finish \/ RunPast
    \/ Rest

Spec == Init /\ [][Next]_vars

FairSpec == Spec /\ WF_vars(Next)

-----------------------------------------------------------------------------
(* Properties.                                                               *)

\* Reference: pattern p stands in the text at i.
OccursAt(p, i) ==
    /\ i + Size[p] <= Len(text)
    /\ \A k \in 0..(Size[p] - 1) : text[i + k + 1] = Ptn[p][k]

\* The patterns that stand in the first n bytes.
OccurringIn(n) ==
    {p \in Pids : \E i \in 0..(Len(text) - 1) : OccursAt(p, i) /\ i + Size[p] <= n}

\* The variables keep their types; in particular the tables map blocks.
TypeOK ==
    /\ phase \in {"compile", "search", "done", "past"}
    /\ todo \in Seq(Pids)
    /\ ch \in 0..(m_Min - BLOCK_SIZE)
    /\ [text |-> text, received |-> received, length |-> Length] \in Payloads
    /\ pos \in Nat
    /\ result \subseteq Pids
    /\ \A b \in DOMAIN shift : shift[b] \in 0..(m_Min - BLOCK_SIZE)
    /\ \A b \in DOMAIN aux : aux[b] \in 1..(m_Min - BLOCK_SIZE + 1)
    /\ \A b \in DOMAIN hash : hash[b] \subseteq Pids

\* Whatever is reported stands in the packet, although the comparison does not
\* look for the end of it: no match goes over the pad bytes.  Only a length that
\* ends behind the pad bytes too, so IP options of more than one word or a
\* wrapped length, can report what the memory held before, and then the match
\* lies behind the pad bytes as a whole.
Sound ==
    \A p \in result : \E i \in 0..(Length - 1) :
        /\ OccursAt(p, i)
        /\ \/ i + Size[p] <= received
           \/ i >= received + PAD_SIZE /\ Length > received + PAD_SIZE

\* A block with shift 0 is in the two tables that at() looks into, and the
\* window then moves by at least one: the search neither throws nor hangs.
HitsAreCovered ==
    \A b \in DOMAIN shift :
        shift[b] = 0 => b \in DOMAIN hash /\ b \in DOMAIN aux /\ aux[b] >= 1

\* A length that ends in front of the pad bytes, or up to two behind, has no
\* byte read behind them: four are enough for every block and every pattern.
\* A longer one stays in the buffer if every pattern fits behind it; so it is
\* the wrapped length, or a packet that fills the buffer, that leaves it.
StaysInBuffer ==
    Searching =>
        /\ Length + BLOCK_SIZE - 1 <= received + PAD_SIZE =>
              ReadsBelow(received + PAD_SIZE)
        /\ /\ Length + BLOCK_SIZE <= Len(text)
           /\ \A p \in Pids : Length + Size[p] <= Len(text)
           => ReadsBelow(Len(text))

\* The block of p at distance d from the end of its window.
BlocksAt(p, d) == PtnBlock(p, m_Min - BLOCK_SIZE - d)

\* An order in which no pattern has, away from the end of the window, a block
\* that an earlier pattern introduced as the last one of its window.
Benign(order) ==
    \A i, j \in DOMAIN order :
        i < j => \A d \in 1..(m_Min - BLOCK_SIZE) :
            BlocksAt(order[i], 0) = BlocksAt(order[j], d) =>
                \E k \in 1..i : \E e \in 1..d :
                    BlocksAt(order[k], e) = BlocksAt(order[i], 0)

\* Every pattern that the window has passed has been reported, and at the end
\* every one that stands before the length.  If the length ends in front of the
\* pad bytes the result is exactly the patterns of the payload.
Complete ==
    /\ phase # "compile" =>
          \A p \in Pids : \A i \in 0..(WindowStart - 1) :
              OccursAt(p, i) => p \in result
    /\ phase = "done" =>
          /\ OccurringIn(Length) \subseteq result
          /\ Length = received => result = OccurringIn(Length)

\* The search ends, or leaves the buffer.
Terminates == <>(phase \in {"done", "past"})
=============================================================================
