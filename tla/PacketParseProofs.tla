-------------------------- MODULE PacketParseProofs --------------------------
(* Proofs about PacketParse, for every choice of users, ports and lengths.   *)
EXTENDS PacketParse, TLAPS

Proto == {"tcp", "udp", "other"}
Packets == [len : Lens, ver : Versions, ihl : Ihls, thl : Thls,
            src : Ips, dst : Ips, proto : Proto]
Field == Nat \cup {Unset}
Port16 == WORD \cup {Unset}
Fields == [src : Users \cup {NoIp}, dst : Ips \cup {NoIp}, sport : Port16,
           dport : Port16, start : Field, plen : Field]

\* The two packets belong to one conversation.
Opposite ==
    /\ pkt \in [Way -> Packets]
    /\ pkt["back"].src = pkt["there"].dst
    /\ pkt["back"].dst = pkt["there"].src

\* What is set was set from the packet: the ends as Ends has them with the
\* ports that were read, and the start and the length as its protocol has them.
Lengths(w) ==
    LET p == pkt[w]
    IN  \/ /\ p.proto = "tcp"
           /\ \E hdr \in TcpHdrLens(p) :
                 /\ hdr >= TCPHDR_LEN
                 /\ ip[w].start = IpHdrLen(p) + TCPHDR_LEN
                 /\ ip[w].plen = TcpPayloadLen(p, hdr)
        \/ /\ p.proto = "udp"
           /\ p.len >= IPHDR_LEN + UDPHDR_LEN
           /\ ip[w].start = IpHdrLen(p) + UDPHDR_LEN
           /\ ip[w].plen = p.len - (IPHDR_LEN + UDPHDR_LEN)

Filled(w) ==
    /\ Ipv4(pkt[w]) /\ pkt[w].len >= IPHDR_LEN + UDPHDR_LEN
    /\ \E sport \in SrcPorts(pkt[w]), dport \in DstPorts(pkt[w]) :
          LET e == Ends(pkt[w], sport, dport)
          IN  /\ ip[w].src = e.src /\ ip[w].dst = e.dst
              /\ ip[w].sport = e.sport /\ ip[w].dport = e.dport
    /\ Lengths(w)

IInv ==
    /\ Opposite
    /\ at \in [Way -> {"new", "parsed"}]
    /\ ip \in [Way -> Fields]
    /\ \A w \in Way : ip[w].src # NoIp => Filled(w)

\* The remainder of a length is a natural number, and a small one is itself.
LEMMA Remainder ==
    ASSUME NEW x \in Int
    PROVE  /\ x % Width \in Nat
           /\ x \in 0..PACKET_SIZE => x % Width = x
<1>1. Width \in Nat /\ Width > 1500
  BY ParseAssumption DEF PACKET_SIZE
<1>2. x % Width \in 0..(Width - 1)
  BY <1>1
<1>3. ASSUME x \in 0..PACKET_SIZE PROVE x % Width = x
  BY <1>1, <1>3 DEF PACKET_SIZE
<1> QED  BY <1>1, <1>2, <1>3

\* The two bytes of a port lie inside n bytes if the second one does.
LEMMA Inside ==
    ASSUME NEW n \in 0..PACKET_SIZE, NEW i \in Nat
    PROVE  /\ i + 2 <= n => i < n /\ i + 1 < n
           /\ i + 4 <= n => i + 2 <= n /\ (i + 2) + 2 <= n
           /\ i = 20 /\ n >= IPHDR_LEN + UDPHDR_LEN => i + 4 <= n
           /\ n >= IPHDR_LEN + TCPHDR_LEN => n >= IPHDR_LEN + UDPHDR_LEN
  BY SMT DEF PACKET_SIZE, IPHDR_LEN, UDPHDR_LEN, TCPHDR_LEN

\* A byte read is a byte, and inside the packet it is the sender's.
LEMMA ByteRead ==
    ASSUME NEW p \in Packets, NEW i \in Nat, NEW b \in BYTE
    PROVE  /\ ByteAt(p, i, b) \subseteq BYTE
           /\ i < p.len => ByteAt(p, i, b) = {b}
<1>1. PAD \in BYTE
  BY SMT DEF PAD, BYTE
<1> QED  BY <1>1, ParseAssumption DEF ByteAt

LEMMA WordRead ==
    ASSUME NEW p \in Packets, NEW i \in Nat, NEW n \in WORD
    PROVE  /\ WordAt(p, i, n) \subseteq WORD
           /\ i + 2 <= p.len => WordAt(p, i, n) = {n}
<1>1. n[1] \in BYTE /\ n[2] \in BYTE /\ n = <<n[1], n[2]>> /\ i + 1 \in Nat
  BY DEF WORD
<1>2. ByteAt(p, i, n[1]) \subseteq BYTE /\ ByteAt(p, i + 1, n[2]) \subseteq BYTE
  BY <1>1, ByteRead
<1>3. WordAt(p, i, n) \subseteq WORD
  BY <1>2 DEF WordAt, WORD
<1>4. ASSUME i + 2 <= p.len PROVE WordAt(p, i, n) = {n}
  <2>1. p.len \in 0..PACKET_SIZE
    BY ParseAssumption DEF Packets
  <2>2. i < p.len /\ i + 1 < p.len
    BY <1>4, <2>1, Inside
  <2>3. ByteAt(p, i, n[1]) = {n[1]} /\ ByteAt(p, i + 1, n[2]) = {n[2]}
    BY <1>1, <2>2, ByteRead
  <2> QED  BY <1>1, <2>3 DEF WordAt
<1> QED  BY <1>3, <1>4

\* The ports read are words, and the sender's where they were received.
LEMMA PortsRead ==
    ASSUME NEW p \in Packets
    PROVE  /\ SrcPorts(p) \subseteq WORD /\ DstPorts(p) \subseteq WORD
           /\ PortsInside(p) => /\ SrcPorts(p) = {Port[p.src]}
                                /\ DstPorts(p) = {Port[p.dst]}
<1>1. p.ihl \in 0..15 /\ p.len \in 0..PACKET_SIZE
      /\ Port[p.src] \in WORD /\ Port[p.dst] \in WORD
  BY ParseAssumption DEF Packets
<1>2. IpHdrLen(p) \in Nat /\ IpHdrLen(p) + 2 \in Nat
  BY <1>1 DEF IpHdrLen
<1>3. SrcPorts(p) \subseteq WORD /\ DstPorts(p) \subseteq WORD
  BY <1>1, <1>2, WordRead DEF SrcPorts, DstPorts
<1>4. ASSUME PortsInside(p)
      PROVE  IpHdrLen(p) + 2 <= p.len /\ (IpHdrLen(p) + 2) + 2 <= p.len
  BY <1>1, <1>2, <1>4, Inside DEF PortsInside
<1> QED  BY <1>1, <1>2, <1>3, <1>4, WordRead DEF SrcPorts, DstPorts

\* The header length read is one that a TCP header can claim, and the sender's
\* where it was received.
LEMMA LengthRead ==
    ASSUME NEW p \in Packets
    PROVE  /\ TcpHdrLens(p) \subseteq 0..60
           /\ IpHdrLen(p) + LengthByte < p.len => TcpHdrLens(p) = {4 * p.thl}
<1> DEFINE i == IpHdrLen(p) + LengthByte
           b == 16 * p.thl
<1>1. p.thl \in 0..15 /\ p.ihl \in 0..15
  BY ParseAssumption DEF Packets
<1>2. i \in Nat
  BY <1>1 DEF IpHdrLen, LengthByte
<1>3. b \in BYTE
  BY <1>1, SMT DEF BYTE
<1>4. \A c \in BYTE : 4 * (c \div 16) \in 0..60
  BY SMT DEF BYTE
<1>5. b \div 16 = p.thl
  BY <1>1, SMT
<1> HIDE DEF b, i
<1>6. /\ ByteAt(p, i, b) \subseteq BYTE
      /\ i < p.len => ByteAt(p, i, b) = {b}
  BY <1>2, <1>3, ByteRead
<1>7. TcpHdrLens(p) = {4 * (c \div 16) : c \in ByteAt(p, i, b)}
  BY DEF TcpHdrLens, i, b
<1>8. TcpHdrLens(p) \subseteq 0..60
  BY <1>4, <1>6, <1>7
<1>9. ASSUME i < p.len PROVE TcpHdrLens(p) = {4 * p.thl}
  BY <1>5, <1>6, <1>7, <1>9
<1> QED  BY <1>8, <1>9 DEF i

\* The ends of a packet are addresses and ports, and complete for a user.
LEMMA EndsTyped ==
    ASSUME NEW p \in Packets, NEW sport \in WORD, NEW dport \in WORD
    PROVE  LET e == Ends(p, sport, dport)
           IN  /\ e.src \in Users \cup {NoIp} /\ e.dst \in Ips \cup {NoIp}
               /\ e.sport \in Port16 /\ e.dport \in Port16
               /\ e.src # NoIp => e.sport \in WORD /\ e.dport \in WORD
  BY ParseAssumption DEF Ends, Packets, Port16, NoIp

\* Arithmetic on lengths, free of records.
LEMMA Sums ==
    ASSUME NEW n \in 0..PACKET_SIZE, NEW t \in Nat
    PROVE  /\ n - (IPHDR_LEN + t) \in Int
           /\ n >= IPHDR_LEN + t =>
                 /\ n - (IPHDR_LEN + t) \in 0..PACKET_SIZE
                 /\ n - (IPHDR_LEN + t) \in Nat
<1>1. n \in Int /\ 0 <= n /\ n <= 1500 /\ t \in Int /\ 0 <= t
  BY DEF PACKET_SIZE
<1>2. n - (20 + t) \in Int
  BY <1>1
<1>3. ASSUME n >= 20 + t
      PROVE  n - (20 + t) \in 0..1500 /\ n - (20 + t) \in Nat
  BY <1>1, <1>3
<1> QED  BY <1>2, <1>3 DEF IPHDR_LEN, PACKET_SIZE

\* A length less the headers, as a number: it wraps if they are longer.
LEMMA Wrapped ==
    ASSUME NEW n \in 0..PACKET_SIZE, NEW t \in 0..60
    PROVE  (n - (IPHDR_LEN + t)) % Width =
               (n - (IPHDR_LEN + t)) + (IF n >= IPHDR_LEN + t THEN 0 ELSE Width)
<1> DEFINE x == n - (IPHDR_LEN + t)
<1>1. Width \in Nat /\ Width > 1500
  BY ParseAssumption DEF PACKET_SIZE
<1>2. x \in Int /\ 0 - 80 <= x /\ x <= 1500 /\ (n >= IPHDR_LEN + t <=> x >= 0)
  BY SMT DEF PACKET_SIZE, IPHDR_LEN
<1> HIDE DEF x
<1>3. ASSUME x >= 0 PROVE x % Width = x
  BY <1>1, <1>2, <1>3, SMT
<1>4. ASSUME x < 0 PROVE x % Width = x + Width
  BY <1>1, <1>2, <1>4, SMT
<1>5. x % Width = x + (IF x >= 0 THEN 0 ELSE Width)
  BY <1>1, <1>2, <1>3, <1>4, SMT
<1> QED  BY <1>2, <1>5 DEF x

LEMMA HeaderLengths ==
    IPHDR_LEN \in Nat /\ TCPHDR_LEN \in Nat /\ UDPHDR_LEN \in Nat
  BY DEF IPHDR_LEN, TCPHDR_LEN, UDPHDR_LEN

\* Lengths and header lengths are numbers.
LEMMA LengthsTyped ==
    ASSUME NEW p \in Packets
    PROVE  /\ p.len \in 0..PACKET_SIZE
           /\ IpHdrLen(p) \in Nat
           /\ \A hdr \in TcpHdrLens(p) : TcpPayloadLen(p, hdr) \in Nat
<1>1. p.len \in 0..PACKET_SIZE /\ p.ihl \in 0..15
  BY ParseAssumption DEF Packets
<1>2. IpHdrLen(p) \in Nat
  BY <1>1 DEF IpHdrLen
<1>3. ASSUME NEW hdr \in TcpHdrLens(p) PROVE TcpPayloadLen(p, hdr) \in Nat
  <2>1. hdr \in Nat
    BY LengthRead
  <2>2. p.len - (IPHDR_LEN + hdr) \in Int
    BY <1>1, <2>1, Sums
  <2> QED  BY <2>2, Remainder DEF TcpPayloadLen
<1> QED  BY <1>1, <1>2, <1>3

LEMMA InitInv == Init => IInv
<1> SUFFICES ASSUME Init PROVE IInv  OBVIOUS
<1>1. PICK a \in Ips, b \in Ips, proto \in Proto, g \in Header, h \in Header :
          pkt = [w \in Way |-> IF w = "there" THEN Packet(g, a, b, proto)
                               ELSE Packet(h, b, a, proto)]
  BY DEF Init, Proto
<1>2. Packet(g, a, b, proto) \in Packets /\ Packet(h, b, a, proto) \in Packets
  BY DEF Packet, Packets, Header
<1>3. Opposite
  BY <1>1, <1>2 DEF Opposite, Way, Packet
<1>4. at \in [Way -> {"new", "parsed"}]
  BY DEF Init
<1>5. Fresh \in Fields /\ Fresh.src = NoIp
  BY DEF Fresh, Fields, Field, Port16
<1>6. ip \in [Way -> Fields] /\ \A w \in Way : ip[w].src = NoIp
  BY <1>5 DEF Init
<1> QED  BY <1>3, <1>4, <1>6 DEF IInv

\* A packet that is parsed to the end fills the fields of its own object.
LEMMA FillInv ==
    ASSUME IInv, NEW w \in Way, NEW start \in Nat, NEW plen \in Nat,
           Fill(w, start, plen), Parsed(w), Ipv4(pkt[w]),
           pkt[w].len >= IPHDR_LEN + UDPHDR_LEN,
           LET p == pkt[w]
           IN  \/ /\ p.proto = "tcp"
                  /\ \E hdr \in TcpHdrLens(p) :
                        /\ hdr >= TCPHDR_LEN
                        /\ start = IpHdrLen(p) + TCPHDR_LEN
                        /\ plen = TcpPayloadLen(p, hdr)
               \/ /\ p.proto = "udp"
                  /\ start = IpHdrLen(p) + UDPHDR_LEN
                  /\ plen = p.len - (IPHDR_LEN + UDPHDR_LEN)
    PROVE  IInv'
<1>0. pkt' = pkt /\ at' = [at EXCEPT ![w] = "parsed"] /\ pkt[w] \in Packets
  BY DEF Parsed, IInv, Opposite
<1>p. PICK sport \in SrcPorts(pkt[w]), dport \in DstPorts(pkt[w]) :
          LET e == Ends(pkt[w], sport, dport)
          IN  ip' = [ip EXCEPT ![w] =
                  [src |-> e.src, dst |-> e.dst, sport |-> e.sport,
                   dport |-> e.dport, start |-> start, plen |-> plen]]
  BY DEF Fill
<1> DEFINE e == Ends(pkt[w], sport, dport)
           r == [src |-> e.src, dst |-> e.dst, sport |-> e.sport,
                 dport |-> e.dport, start |-> start, plen |-> plen]
<1>2. ip' = [ip EXCEPT ![w] = r]
  BY <1>p
<1>3. r \in Fields
  <2>1. sport \in WORD /\ dport \in WORD
    BY <1>0, PortsRead
  <2> QED  BY <1>0, <2>1, EndsTyped DEF Fields, Field, Port16
<1>4. ip' \in [Way -> Fields] /\ at' \in [Way -> {"new", "parsed"}]
  BY <1>0, <1>2, <1>3 DEF IInv
<1>5. Opposite'
  BY <1>0 DEF IInv, Opposite
<1>6. ASSUME NEW v \in Way, ip'[v].src # NoIp PROVE Filled(v)'
  <2>1. CASE v = w
    <3>1. ip'[v] = r
      BY <1>2, <2>1 DEF IInv
    <3>2. r.src = e.src /\ r.dst = e.dst /\ r.sport = e.sport
          /\ r.dport = e.dport /\ r.start = start /\ r.plen = plen
      OBVIOUS
    <3> HIDE DEF r
    <3>3. Lengths(v)'
      BY <1>0, <2>1, <3>1, <3>2 DEF Lengths
    <3> QED  BY <1>0, <1>p, <2>1, <3>1, <3>2, <3>3 DEF Filled
  <2>2. CASE v # w
    <3>1. ip'[v] = ip[v]
      BY <1>2, <2>2 DEF IInv
    <3> QED  BY <1>0, <1>6, <3>1 DEF IInv, Filled, Lengths
  <2> QED  BY <2>1, <2>2
<1> QED  BY <1>4, <1>5, <1>6 DEF IInv

LEMMA NextInv == IInv /\ [Next]_vars => IInv'
<1> SUFFICES ASSUME IInv, [Next]_vars PROVE IInv'  OBVIOUS
<1>1. ASSUME NEW w \in Way, Ignore(w) PROVE IInv'
  BY <1>1 DEF IInv, Ignore, Parsed, Opposite, Filled, Lengths
<1>2. ASSUME NEW w \in Way, Tcp(w) PROVE IInv'
  <2>1. pkt[w] \in Packets
    BY DEF IInv, Opposite
  <2>2. PICK hdr \in TcpHdrLens(pkt[w]) :
            /\ hdr >= TCPHDR_LEN
            /\ Fill(w, IpHdrLen(pkt[w]) + TCPHDR_LEN, TcpPayloadLen(pkt[w], hdr))
    BY <1>2 DEF Tcp
  <2>3. IpHdrLen(pkt[w]) + TCPHDR_LEN \in Nat /\ TcpPayloadLen(pkt[w], hdr) \in Nat
    BY <2>1, LengthsTyped DEF TCPHDR_LEN
  <2>4. pkt[w].len >= IPHDR_LEN + UDPHDR_LEN
    BY <1>2, <2>1, LengthsTyped, Inside DEF Tcp
  <2> QED  BY <1>2, <2>2, <2>3, <2>4, FillInv DEF Tcp
<1>3. ASSUME NEW w \in Way, Udp(w) PROVE IInv'
  <2>1. pkt[w] \in Packets
    BY DEF IInv, Opposite
  <2>2. IpHdrLen(pkt[w]) + UDPHDR_LEN \in Nat
    BY <2>1, LengthsTyped DEF UDPHDR_LEN
  <2>3. pkt[w].len - (IPHDR_LEN + UDPHDR_LEN) \in Nat
    BY <1>3, <2>1, LengthsTyped, Sums, HeaderLengths DEF Udp
  <2> QED  BY <1>3, <2>2, <2>3, FillInv DEF Udp
<1>4. CASE UNCHANGED vars
  BY <1>4 DEF vars, IInv, Opposite, Filled, Lengths
<1> QED  BY <1>1, <1>2, <1>3, <1>4 DEF Next, Rest

\* The invariant that the theorems below follow from.
THEOREM Invariance == Spec => []IInv
<1>1. Init => IInv  BY InitInv
<1>2. IInv /\ [Next]_vars => IInv'  BY NextInv
<1> QED  BY <1>1, <1>2, PTL DEF Spec

\* Every field of a packet that belongs to a user is assigned on every path
\* through the parser, for headers of any claimed length.
THEOREM TypeCorrect == Spec => []TypeOK
<1>1. IInv => TypeOK
  <2> SUFFICES ASSUME IInv, NEW w \in Way
               PROVE /\ at[w] \in {"new", "parsed"}
                     /\ ip[w].src \in Users \cup {NoIp}
                     /\ ip[w].dst \in Ips \cup {NoIp}
                     /\ {ip[w].sport, ip[w].dport} \subseteq WORD \cup {Unset}
                     /\ {ip[w].start, ip[w].plen} \subseteq Nat \cup {Unset}
                     /\ ip[w].src # NoIp =>
                           Unset \notin {ip[w].start, ip[w].plen,
                                         ip[w].sport, ip[w].dport}
    BY DEF TypeOK
  <2>1. ip[w] \in Fields /\ pkt[w] \in Packets /\ at[w] \in {"new", "parsed"}
    BY DEF IInv, Opposite
  <2>2. ASSUME ip[w].src # NoIp
        PROVE  ip[w].start \in Nat /\ ip[w].plen \in Nat
               /\ ip[w].sport \in WORD /\ ip[w].dport \in WORD
    <3>1. Filled(w) /\ Lengths(w)
      BY <2>2 DEF IInv, Filled
    <3>2. ip[w].sport \in WORD /\ ip[w].dport \in WORD
      BY <2>1, <2>2, <3>1, PortsRead, EndsTyped DEF Filled
    <3>3. IpHdrLen(pkt[w]) \in Nat /\ pkt[w].len \in 0..PACKET_SIZE
          /\ \A hdr \in TcpHdrLens(pkt[w]) : TcpPayloadLen(pkt[w], hdr) \in Nat
      BY <2>1, LengthsTyped
    <3>4. ip[w].start \in Nat
      BY <3>1, <3>3 DEF Lengths, TCPHDR_LEN, UDPHDR_LEN
    <3>5. ip[w].plen \in Nat
      BY <3>1, <3>3, Sums, HeaderLengths DEF Lengths
    <3> QED  BY <3>2, <3>4, <3>5
  <2> QED  BY <2>1, <2>2, ParseAssumption DEF Fields, Field, Port16
<1> QED  BY <1>1, Invariance, PTL

\* Both directions of a conversation with one user are one flow, unless a port
\* was read from behind a packet with IP options.
THEOREM OneConversationHolds == Spec => []OneConversation
<1>1. IInv => OneConversation
  <2> SUFFICES ASSUME IInv, Counted("there"), Counted("back")
               PROVE OneConversation
    BY DEF OneConversation
  <2> DEFINE p == pkt["there"]
             q == pkt["back"]
             inside == \A w \in Way : pkt[w].ihl = 5 \/ PortsInside(pkt[w])
             there == IF {p.src, p.dst} \subseteq Users
                      THEN Mirrored("there") ELSE Key("there")
  <2>1. /\ p \in Packets /\ q \in Packets
        /\ q.src = p.dst /\ q.dst = p.src
        /\ Filled("there") /\ Filled("back")
    BY DEF IInv, Opposite, Counted, Way
  <2>2. PICK s \in SrcPorts(p), d \in DstPorts(p) :
            LET e == Ends(p, s, d)
            IN  /\ ip["there"].src = e.src /\ ip["there"].dst = e.dst
                /\ ip["there"].sport = e.sport /\ ip["there"].dport = e.dport
    BY <2>1 DEF Filled
  <2>3. PICK t \in SrcPorts(q), f \in DstPorts(q) :
            LET e == Ends(q, t, f)
            IN  /\ ip["back"].src = e.src /\ ip["back"].dst = e.dst
                /\ ip["back"].sport = e.sport /\ ip["back"].dport = e.dport
    BY <2>1 DEF Filled
  <2>4. p.src \in Users \/ p.dst \in Users
    BY <2>2 DEF Counted, Ends
  <2>5. ip["back"].src = there[1] /\ ip["back"].dst = there[2]
    BY <2>1, <2>2, <2>3, <2>4 DEF Ends, Key, Mirrored
  <2>6. ASSUME inside PROVE Key("back") = there
    <3>1. ASSUME NEW w \in Way, pkt[w] \in Packets, Filled(w)
          PROVE  PortsInside(pkt[w])
      <4>1. CASE pkt[w].ihl = 5
        <5>1. /\ pkt[w].len \in 0..PACKET_SIZE
              /\ pkt[w].len >= IPHDR_LEN + UDPHDR_LEN
          BY <3>1, LengthsTyped DEF Filled
        <5>2. IpHdrLen(pkt[w]) = 20
          BY <4>1 DEF IpHdrLen
        <5> QED  BY <5>1, <5>2, Inside DEF PortsInside
      <4> QED  BY <2>6, <4>1
    <3>2. PortsInside(p) /\ PortsInside(q)
      BY <2>1, <3>1 DEF Way
    <3>3. s = Port[p.src] /\ d = Port[p.dst] /\ t = Port[p.dst] /\ f = Port[p.src]
      BY <2>1, <3>2, PortsRead
    <3> QED  BY <2>1, <2>2, <2>3, <2>4, <3>3 DEF Ends, Key, Mirrored
  <2> QED  BY <2>5, <2>6 DEF OneConversation
<1> QED  BY <1>1, Invariance, PTL

\* The length of a TCP payload as a number: wrapped if its header is too long.
LEMMA PayloadLenIs ==
    ASSUME NEW p \in Packets, NEW hdr \in 0..60
    PROVE  TcpPayloadLen(p, hdr) =
               (p.len - (IPHDR_LEN + hdr))
               + (IF p.len >= IPHDR_LEN + hdr THEN 0 ELSE Width)
<1>1. p.len \in 0..PACKET_SIZE
  BY LengthsTyped
<1> QED  BY <1>1, Wrapped DEF TcpPayloadLen

\* The search ends where the packet does, but for the options of either
\* header, and for a wrapped length.
THEOREM SearchesPayloadHolds == Spec => []SearchesPayload
<1>1. IInv => SearchesPayload
  <2> SUFFICES ASSUME IInv, NEW w \in Way, Counted(w)
               PROVE LET p == pkt[w]
                         ipOptions == IpHdrLen(p) - IPHDR_LEN
                         tcpOptions == 4 * p.thl - TCPHDR_LEN
                         wrapped == IF p.len >= IPHDR_LEN + 4 * p.thl THEN 0 ELSE Width
                     IN  /\ p.proto = "udp" => Overrun(w) = ipOptions
                         /\ p.proto = "tcp" /\ IpHdrLen(p) + LengthByte < p.len =>
                                Overrun(w) = ipOptions - tcpOptions + wrapped
                         /\ Overrun(w) \in (0 - LongestOptions)..LongestOptions
                            \/ Overrun(w) - Width \in (0 - LongestOptions)..LongestOptions
    BY DEF SearchesPayload
  <2> DEFINE p == pkt[w]
  <2>1. Filled(w) /\ Lengths(w) /\ p \in Packets
    BY DEF IInv, Counted, Opposite, Filled
  <2>2. /\ p.len \in 0..1500 /\ p.thl \in 0..15 /\ Width \in Nat
        /\ IpHdrLen(p) \in 20..60
    <3>1. p.len \in 0..1500
      BY <2>1, LengthsTyped DEF PACKET_SIZE
    <3>2. p.thl \in 0..15 /\ p.ihl \in 0..15 /\ Width \in Nat
      BY <2>1, ParseAssumption DEF Packets
    <3>3. IpHdrLen(p) >= 20
      BY <2>1 DEF Filled, Ipv4, IPHDR_LEN
    <3>4. IpHdrLen(p) = 4 * p.ihl
      BY DEF IpHdrLen
    <3> QED  BY <3>1, <3>2, <3>3, <3>4, SMT
  <2>5. p.len \in Int /\ IpHdrLen(p) \in Int /\ Width \in Int
    <3>1. p.len \in 0..PACKET_SIZE /\ p.ihl \in 0..15
      BY <2>1, ParseAssumption DEF Packets
    <3>2. p.len \in Int
      BY <3>1
    <3>3. IpHdrLen(p) \in Int
      BY <3>1 DEF IpHdrLen
    <3>4. Width \in Int
      BY ParseAssumption
    <3> QED  BY <3>2, <3>3, <3>4
  <2>3. CASE p.proto = "tcp"
    <3>1. PICK hdr \in TcpHdrLens(p) :
              /\ hdr >= TCPHDR_LEN
              /\ ip[w].start = IpHdrLen(p) + TCPHDR_LEN
              /\ ip[w].plen = TcpPayloadLen(p, hdr)
      BY <2>1, <2>3 DEF Lengths
    <3>2. hdr \in 20..60
      BY <2>1, <3>1, LengthRead DEF TCPHDR_LEN
    <3>3. ip[w].plen = (p.len - (20 + hdr))
                       + (IF p.len >= 20 + hdr THEN 0 ELSE Width)
      BY <2>1, <3>1, <3>2, PayloadLenIs DEF IPHDR_LEN
    <3>4. Overrun(w) = (IpHdrLen(p) - hdr) + (IF p.len >= 20 + hdr THEN 0 ELSE Width)
      <4> DEFINE o == IpHdrLen(p)
                 n == p.len
                 c == IF p.len >= 20 + hdr THEN 0 ELSE Width
      <4>1. ip[w].start = o + 20 /\ ip[w].plen = (n - (20 + hdr)) + c
        BY <3>1, <3>3 DEF TCPHDR_LEN
      <4>2. Overrun(w) = (o + 20) + ((n - (20 + hdr)) + c) - n
        BY <4>1 DEF Overrun
      <4>3. o \in Int /\ n \in Int /\ c \in Int /\ hdr \in Int
        BY <2>5, <3>2
      <4> HIDE DEF o, n, c
      <4>4. (o + 20) + ((n - (20 + hdr)) + c) - n = (o - hdr) + c
        BY <4>3
      <4>5. Overrun(w) = (o - hdr) + c
        BY <4>2, <4>4
      <4> QED  BY <4>5 DEF o, c
    <3>5. IpHdrLen(p) - hdr \in (0 - 40)..40
      BY <2>2, <3>2
    <3>6. \/ Overrun(w) \in (0 - 40)..40
          \/ Overrun(w) - Width \in (0 - 40)..40
      BY <2>2, <3>4, <3>5
    <3>7. ASSUME IpHdrLen(p) + LengthByte < p.len PROVE hdr = 4 * p.thl
      BY <2>1, <3>7, LengthRead
    <3>8. ASSUME hdr = 4 * p.thl
          PROVE  Overrun(w) = ((IpHdrLen(p) - 20) - (4 * p.thl - 20))
                     + (IF p.len >= 20 + 4 * p.thl THEN 0 ELSE Width)
      BY <2>2, <3>2, <3>4, <3>8
    <3> QED  BY <2>3, <3>6, <3>7, <3>8 DEF IPHDR_LEN, TCPHDR_LEN, LongestOptions
  <2>4. CASE p.proto = "udp"
    <3>1. /\ ip[w].start = IpHdrLen(p) + 8
          /\ ip[w].plen = p.len - 28
      BY <2>1, <2>4 DEF Lengths, IPHDR_LEN, UDPHDR_LEN
    <3>2. Overrun(w) = IpHdrLen(p) - 20
      <4> DEFINE o == IpHdrLen(p)
                 n == p.len
      <4>1. Overrun(w) = (o + 8) + (n - 28) - n
        BY <3>1 DEF Overrun
      <4>2. o \in Int /\ n \in Int
        BY <2>5
      <4> HIDE DEF o, n
      <4>3. (o + 8) + (n - 28) - n = o - 20
        BY <4>2
      <4>4. Overrun(w) = o - 20
        BY <4>1, <4>3
      <4> QED  BY <4>4 DEF o
    <3>3. Overrun(w) \in (0 - 40)..40
      BY <2>2, <3>2
    <3> QED  BY <2>4, <3>2, <3>3 DEF IPHDR_LEN, LongestOptions
  <2> QED  BY <2>1, <2>3, <2>4 DEF Lengths
<1> QED  BY <1>1, Invariance, PTL
=============================================================================
