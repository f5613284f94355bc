------------------------------ MODULE MCWmMatch ------------------------------
(* Patterns over two letters, of length 5 and 6, so that a window has three  *)
(* blocks and patterns share blocks at different distances from its end.     *)
EXTENDS WmMatch, SequencesExt

CONSTANTS
    a, b,
    MaxLen,     \* longest payload of letters
    MaxMixed,   \* longest payload that may have pad bytes inside
    Wrapped     \* a length that has wrapped around

Str(s) == [i \in 0..(Len(s) - 1) |-> s[i + 1]]

MCPtn == << Str(<<a, b, a, b, b>>), Str(<<b, b, b, a, b, b>>), Str(<<a, a, a, b, a>>) >>
MCSize == [p \in DOMAIN MCPtn |-> Cardinality(DOMAIN MCPtn[p])]

Pads == [k \in 1..PAD_SIZE |-> Pad]
Received == UNION {[1..n -> Byte] : n \in 0..MaxLen}
                \cup UNION {[1..n -> Byte \cup {Pad}] : n \in 0..MaxMixed}

\* What the memory held: nothing, if the packet fills the buffer; a pattern;
\* the first letters of one.
Before == {<<>>, <<a, b, a, b, b, a, a, a>>, <<b, b, b, a>>}

\* No options, a word of TCP options, one and two words of IP options, and a
\* header length beyond the packet.
Lengths(n) == {n, n + 4, n + 8, Wrapped} \cup ({n - 4} \cap Nat)

Whole(s, t, l) == [text |-> s \o Pads \o t, received |-> Len(s), length |-> l]

\* m_Payload points c bytes behind the packet; two words of IP options.
Behind(c, t) ==
    [text |-> SubSeq(Pads \o t, c + 1, PAD_SIZE + Len(t)), received |-> 0 - c,
     length |-> 8 - c]

MCPayloads ==
    UNION {{Whole(s, t, l) : t \in Before, l \in Lengths(Len(s))} : s \in Received}
        \cup {Behind(c, t) : c \in {2, PAD_SIZE}, t \in Before \ {<<>>}}

AllOrders == {o \in [1..Cardinality(Pids) -> Pids] : IsInjective(o)}
BenignOrders == {o \in AllOrders : Benign(o)}
=============================================================================
