----------------------------- MODULE PacketParse -----------------------------
(* IpPacket: the constructor and Ipv4Parse, which decide to which flow a     *)
(* packet belongs and which of its bytes are searched.  One behaviour parses *)
(* the two directions of one conversation, in any order.                     *)
(*                                                                           *)
(* Lengths are in bytes, ihl and thl are the header lengths in words that    *)
(* the headers claim.  A field the code does not assign is Unset.  The code  *)
(* checks the length for headers without options only: with IP options it    *)
(* may look for ports behind the packet, in the four pad bytes or in what    *)
(* the memory of the object held before.                                     *)
EXTENDS Integers

CONSTANTS
    Ips,        \* addresses
    Users,      \* the addresses of ip.properties
    Port,       \* Port[h]: the port that host h uses, as two bytes
    Lens,       \* lengths of what recv returned
    Ihls, Thls, \* header lengths in words
    Versions,   \* first half of the first byte
    Stale,      \* bytes that m_PktData may hold behind the pads
    Width,      \* m_PayloadLen is a DWORD: 2^32, less in a model
    Unset

IPHDR_LEN == 20
TCPHDR_LEN == 20
UDPHDR_LEN == 8
PACKET_SIZE == 1500
PAD_SIZE == 4
PAD == 163      \* 0xa3
BYTE == 0..255
WORD == BYTE \X BYTE
NoIp == 0
Way == {"there", "back"}

ASSUME ParseAssumption ==
    /\ Ips \subseteq Nat
    /\ Users \subseteq Ips \ {NoIp}
    /\ Port \in [Ips -> WORD]
    /\ Stale \subseteq BYTE
    /\ Lens \subseteq 0..PACKET_SIZE
    /\ Ihls \subseteq 0..15 /\ Thls \subseteq 0..15 /\ Versions \subseteq 0..15
    /\ Width \in Nat /\ Width > PACKET_SIZE
    /\ Unset \notin Nat \cup WORD

VARIABLES
    pkt,        \* pkt[w]: the packet that travels in direction w
    at,         \* at[w]: "new", or "parsed" once its constructor returned
    ip          \* ip[w]: the fields of its IpPacket

vars == <<pkt, at, ip>>

Header == [len : Lens, ver : Versions, ihl : Ihls, thl : Thls]

Packet(h, src, dst, proto) ==
    [len |-> h.len, ver |-> h.ver, ihl |-> h.ihl, thl |-> h.thl,
     src |-> src, dst |-> dst, proto |-> proto]

\* The constructor sets the addresses to 0 and nothing else.
Fresh == [src |-> NoIp, dst |-> NoIp, sport |-> Unset, dport |-> Unset,
          start |-> Unset, plen |-> Unset]

Init ==
    /\ \E a, b \in Ips, proto \in {"tcp", "udp", "other"}, g, h \in Header :
          pkt = [w \in Way |-> IF w = "there" THEN Packet(g, a, b, proto)
                               ELSE Packet(h, b, a, proto)]
    /\ at = [w \in Way |-> "new"]
    /\ ip = [w \in Way |-> Fresh]

Parsed(w) == at' = [at EXCEPT ![w] = "parsed"] /\ UNCHANGED pkt

\* What m_PktData may hold at index i, where the sender had byte b in mind.
ByteAt(p, i, b) ==
    IF i < p.len THEN {b} ELSE IF i < p.len + PAD_SIZE THEN {PAD} ELSE Stale

WordAt(p, i, n) == ByteAt(p, i, n[1]) \X ByteAt(p, i + 1, n[2])

IpHdrLen(p) == 4 * p.ihl

\* bHdrLen is byte 12 of the TCP header.
LengthByte == 12
TcpHdrLens(p) == {4 * (b \div 16) : b \in ByteAt(p, IpHdrLen(p) + LengthByte, 16 * p.thl)}

SrcPorts(p) == WordAt(p, IpHdrLen(p), Port[p.src])
DstPorts(p) == WordAt(p, IpHdrLen(p) + 2, Port[p.dst])

\* The code tests one bit of the version, which 6 has as well as 4.
Ipv4(p) ==
    /\ p.len >= IPHDR_LEN
    /\ (p.ver \div 4) % 2 = 1
    /\ IpHdrLen(p) >= IPHDR_LEN

\* A packet that is cut, not IPv4 or of another protocol: nothing is set.
Ignore(w) ==
    /\ at[w] = "new"
    /\ \/ ~Ipv4(pkt[w])
       \/ pkt[w].proto = "other"
       \/ pkt[w].proto = "tcp" /\ pkt[w].len < IPHDR_LEN + TCPHDR_LEN
       \/ pkt[w].proto = "tcp" /\ \E t \in TcpHdrLens(pkt[w]) : t < TCPHDR_LEN
       \/ pkt[w].proto = "udp" /\ pkt[w].len < IPHDR_LEN + UDPHDR_LEN
    /\ Parsed(w)
    /\ UNCHANGED ip

\* Mutant: the ports of a packet towards a user are not exchanged.
EndsCrossed(p, sport, dport) ==
    IF p.src \in Users
    THEN [src |-> p.src, dst |-> p.dst, sport |-> sport, dport |-> dport]
    ELSE IF p.dst \in Users
    THEN [src |-> p.dst, dst |-> p.src, sport |-> sport, dport |-> dport]
    ELSE [src |-> NoIp, dst |-> NoIp, sport |-> Unset, dport |-> Unset]

\* The user comes first, whichever way the packet goes; if both ends are
\* users the sender does.
Ends(p, sport, dport) ==
    IF p.src \in Users
    THEN [src |-> p.src, dst |-> p.dst, sport |-> sport, dport |-> dport]
    ELSE IF p.dst \in Users
    THEN [src |-> p.dst, dst |-> p.src, sport |-> dport, dport |-> sport]
    ELSE [src |-> NoIp, dst |-> NoIp, sport |-> Unset, dport |-> Unset]

Fill(w, start, plen) ==
    \E sport \in SrcPorts(pkt[w]), dport \in DstPorts(pkt[w]) :
        LET e == Ends(pkt[w], sport, dport)
        IN  ip' = [ip EXCEPT ![w] =
                      [src |-> e.src, dst |-> e.dst, sport |-> e.sport,
                       dport |-> e.dport, start |-> start, plen |-> plen]]

\* Mutant: the length of the TCP header is not taken off.
TcpPayloadLenLong(p, hdr) == (p.len - IPHDR_LEN) % Width

\* The length takes the TCP header as long as it is, the start does not; for
\* the IP header it is the other way round.
TcpPayloadLen(p, hdr) == (p.len - (IPHDR_LEN + hdr)) % Width

Tcp(w) ==
    LET p == pkt[w]
    IN  /\ at[w] = "new"
        /\ Ipv4(p) /\ p.proto = "tcp"
        /\ p.len >= IPHDR_LEN + TCPHDR_LEN
        /\ \E hdr \in TcpHdrLens(p) :
              /\ hdr >= TCPHDR_LEN
              /\ Fill(w, IpHdrLen(p) + TCPHDR_LEN, TcpPayloadLen(p, hdr))
        /\ Parsed(w)

\* Mutant: the pointer to the payload is set for configured users only.
UdpLate(w) ==
    LET p == pkt[w]
    IN  /\ at[w] = "new"
        /\ Ipv4(p) /\ p.proto = "udp"
        /\ p.len >= IPHDR_LEN + UDPHDR_LEN
        /\ Fill(w, IF p.src \in Users THEN IpHdrLen(p) + UDPHDR_LEN ELSE Unset,
                p.len - (IPHDR_LEN + UDPHDR_LEN))
        /\ Parsed(w)

Udp(w) ==
    LET p == pkt[w]
    IN  /\ at[w] = "new"
        /\ Ipv4(p) /\ p.proto = "udp"
        /\ p.len >= IPHDR_LEN + UDPHDR_LEN
        /\ Fill(w, IpHdrLen(p) + UDPHDR_LEN, p.len - (IPHDR_LEN + UDPHDR_LEN))
        /\ Parsed(w)

\* Both packets have been parsed.
Rest == (\A w \in Way : at[w] = "parsed") /\ UNCHANGED vars

Next ==
    \/ \E w \in Way : Ignore(w) \/ Tcp(w) \/ Udp(w)
    \/ Rest

Spec == Init /\ [][Next]_vars

-----------------------------------------------------------------------------
(* Properties.                                                               *)

Key(w) == <<ip[w].src, ip[w].dst, ip[w].sport, ip[w].dport>>
Mirrored(w) == <<ip[w].dst, ip[w].src, ip[w].dport, ip[w].sport>>
Counted(w) == at[w] = "parsed" /\ ip[w].src # NoIp

\* The types of the fields, and: whatever the headers claim, every field of a
\* packet that belongs to a user is assigned, since the daemon uses all of
\* them.  What is assigned may still come from behind the packet.
TypeOK ==
    \A w \in Way :
        /\ at[w] \in {"new", "parsed"}
        /\ ip[w].src \in Users \cup {NoIp}
        /\ ip[w].dst \in Ips \cup {NoIp}
        /\ {ip[w].sport, ip[w].dport} \subseteq WORD \cup {Unset}
        /\ {ip[w].start, ip[w].plen} \subseteq Nat \cup {Unset}
        /\ ip[w].src # NoIp =>
              Unset \notin {ip[w].start, ip[w].plen, ip[w].sport, ip[w].dport}

\* The ports of p lie in what was received.  Without IP options they always
\* do, as the length is checked for that case.
PortsInside(p) == IpHdrLen(p) + 4 <= p.len

\* Both directions of a conversation with a user are one flow, so the patterns
\* of requests and answers count together, and its m_DstPort is the port of
\* the peer.  Between two users every direction is a flow of its own.  Only
\* ports that were not received, behind IP options, may tear a flow apart; the
\* addresses agree in any case.
OneConversation ==
    Counted("there") /\ Counted("back") =>
        LET there == IF {pkt["there"].src, pkt["there"].dst} \subseteq Users
                     THEN Mirrored("there") ELSE Key("there")
        IN  /\ ip["back"].src = there[1] /\ ip["back"].dst = there[2]
            /\ (\A w \in Way : pkt[w].ihl = 5 \/ PortsInside(pkt[w])) =>
                   Key("back") = there

\* How far the search looks behind the end of the packet.
Overrun(w) == ip[w].start + ip[w].plen - pkt[w].len

LongestOptions == 40

\* TCP options shift what the search gets: it begins with them, and as many
\* bytes at the end of the payload are left out.  IP options shift it the other
\* way, behind the packet.  If the length in the TCP header was received that
\* is all, unless the header claims to be longer than the packet: then the
\* length wraps around.  If it was not, the shift is that of some options.
SearchesPayload ==
    \A w \in Way :
        LET p == pkt[w]
            ipOptions == IpHdrLen(p) - IPHDR_LEN
            tcpOptions == 4 * p.thl - TCPHDR_LEN
            wrapped == IF p.len >= IPHDR_LEN + 4 * p.thl THEN 0 ELSE Width
        IN  Counted(w) =>
            /\ p.proto = "udp" => Overrun(w) = ipOptions
            /\ p.proto = "tcp" /\ IpHdrLen(p) + LengthByte < p.len =>
                   Overrun(w) = ipOptions - tcpOptions + wrapped
            /\ Overrun(w) \in (0 - LongestOptions)..LongestOptions
                  \/ Overrun(w) - Width \in (0 - LongestOptions)..LongestOptions
=============================================================================
