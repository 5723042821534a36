------------------------------ MODULE Packets ------------------------------
(***************************************************************************)
(* The wire formats of src/game/core/packet_queue.py: a packet is a        *)
(* sequence of bytes, built and parsed field by field. An address is the   *)
(* sequence of its four octets. A parser that raises returns ShortPacket.  *)
(***************************************************************************)
EXTENDS Integers, Sequences, SequencesExt

Byte == 0..255

ShortPacket == [version |-> -1]

\* struct.pack('!H', n), struct.pack('!I', n) and their inverses.
U16(n) == <<n \div 256, n % 256>>
U32(n) == U16(n \div 65536) \o U16(n % 65536)
At16(b, i) == b[i] * 256 + b[i + 1]

\* data[n:], empty when the data is shorter.
From(b, n) == SubSeq(b, n + 1, Len(b))

-----------------------------------------------------------------------------
(* IP *)

BuildIp(src, dst, protocol, data) ==
    <<69, 0>> \o U16(20 + Len(data)) \o <<0, 0, 0, 0, 64, protocol, 0, 0>>
        \o src \o dst \o data

ParseIp(b) ==
    IF Len(b) < 20 THEN ShortPacket
    ELSE [version |-> b[1] \div 16, ttl |-> b[9], protocol |-> b[10],
          src |-> SubSeq(b, 13, 16), dst |-> SubSeq(b, 17, 20),
          data |-> From(b, (b[1] % 16) * 4)]

DecrementTtl(b) ==
    IF Len(b) < 9 THEN b
    ELSE [i \in DOMAIN b |-> CASE i = 9 /\ b[9] > 0 -> b[9] - 1
                               [] i \in {11, 12}    -> 0
                               [] OTHER             -> b[i]]

-----------------------------------------------------------------------------
(* ICMP *)

\* An odd number of bytes is followed by a zero.
Padded(b) == IF Len(b) % 2 = 1 THEN Append(b, 0) ELSE b

\* The sum of the 16-bit words of a padded message.
WordSum(b) ==
    LET words == Len(b) \div 2
        sum[k \in 0 .. words] == IF k = 0 THEN 0 ELSE sum[k - 1] + At16(b, 2 * k - 1)
    IN  sum[words]

ChecksumUncarried(b) == 65535 - (WordSum(b) % 65536)

\* The carries are added once, and the sum of that addition is cut to 16 bits.
Checksum(b) ==
    LET sum == WordSum(b) IN
    65535 - (((sum \div 65536) + (sum % 65536)) % 65536)

\* _calculate_checksum pads the buffer it is given, which is the caller's own:
\* the zero stays in the packet that is sent.
BuildIcmp(type, code, id, sequence, data) ==
    LET With(sum) == <<type, code>> \o U16(sum) \o U16(id) \o U16(sequence) \o Padded(data)
    IN  With(Checksum(With(0)))

ParseIcmp(b) ==
    IF Len(b) < 8 THEN ShortPacket
    ELSE [version |-> 0, type |-> b[1], code |-> b[2], checksum |-> At16(b, 3),
          id |-> At16(b, 5), sequence |-> At16(b, 7), data |-> From(b, 8)]

Icmp == 1
EchoRequest(src, dst, id, sequence, data) ==
    BuildIp(src, dst, Icmp, BuildIcmp(8, 0, id, sequence, data))
EchoReplySwapped(src, dst, id, sequence, data) ==
    BuildIp(src, dst, Icmp, BuildIcmp(0, 0, sequence, id, data))
EchoReply(src, dst, id, sequence, data) ==
    BuildIp(src, dst, Icmp, BuildIcmp(0, 0, id, sequence, data))

-----------------------------------------------------------------------------
(* TCP and UDP *)

Tcp == 6
Udp == 17

FlagBit == [FIN |-> 1, SYN |-> 2, RST |-> 4, PSH |-> 8, ACK |-> 16, URG |-> 32]
FlagByte(flags) ==
    LET Bit(f) == IF f \in flags THEN FlagBit[f] ELSE 0
    IN  Bit("FIN") + Bit("SYN") + Bit("RST") + Bit("PSH") + Bit("ACK") + Bit("URG")

BuildTcp(srcPort, dstPort, seq, ack, flags, data) ==
    U16(srcPort) \o U16(dstPort) \o U32(seq) \o U32(ack)
        \o <<80, FlagByte(flags)>> \o U16(65535) \o <<0, 0, 0, 0>> \o data

ParseTcp(b) ==
    IF Len(b) < 20 THEN ShortPacket
    ELSE [version |-> 0, src_port |-> At16(b, 1), dst_port |-> At16(b, 3),
          seq |-> <<At16(b, 5), At16(b, 7)>>, ack |-> <<At16(b, 9), At16(b, 11)>>,
          flags |-> {f \in DOMAIN FlagBit : (b[14] \div FlagBit[f]) % 2 = 1},
          window |-> At16(b, 15), data |-> From(b, (b[13] \div 16) * 4)]

\* The segments of a connection, by what they do: build_tcp_syn .. build_tcp_fin.
SegmentFlags ==
    [syn |-> {"SYN"}, synack |-> {"SYN", "ACK"}, ack |-> {"ACK"},
     data |-> {"PSH", "ACK"}, fin |-> {"FIN", "ACK"}]
TcpSegment(kind, src, dst, srcPort, dstPort, seq, ack, data) ==
    BuildIp(src, dst, Tcp,
            BuildTcp(srcPort, dstPort, seq, IF kind = "syn" THEN 0 ELSE ack,
                     SegmentFlags[kind], IF kind = "data" THEN data ELSE <<>>))

BuildUdp(srcPort, dstPort, data) ==
    U16(srcPort) \o U16(dstPort) \o U16(8 + Len(data)) \o <<0, 0>> \o data

ParseUdp(b) ==
    IF Len(b) < 8 THEN ShortPacket
    ELSE [version |-> 0, src_port |-> At16(b, 1), dst_port |-> At16(b, 3),
          length |-> At16(b, 5), data |-> From(b, 8)]

UdpDatagram(src, dst, srcPort, dstPort, data) ==
    BuildIp(src, dst, Udp, BuildUdp(srcPort, dstPort, data))
=============================================================================
