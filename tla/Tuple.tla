------------------------------- MODULE Tuple -------------------------------
(***************************************************************************)
(* The key under which the stages of a node recognise a packet.  Dec       *)
(* stores the NSH header under the 5-tuple get_tuple() takes from the      *)
(* packet that arrives, Enc looks it up under the 5-tuple of the packet    *)
(* the service function sends.  In between a function may leave the packet *)
(* as it is or, like chacha, put it behind an outer IP-in-IP header, which *)
(* the program remove-ipip takes off again behind the chain.               *)
(*                                                                         *)
(* A packet is what lies between ip_data and data_end: len bytes of an     *)
(* outer IP-in-IP header (if tunnel), an IP header, without options and    *)
(* not of a fragment, and an L4 header; echo says that an ICMP message is  *)
(* a ping request.                                                         *)
(***************************************************************************)
EXTENDS Integers

CONSTANTS
    Addrs,     \* IP addresses
    Ports,     \* values of a port field
    Lengths    \* numbers of bytes in a packet as it arrives

TupleAssumption == Lengths \subseteq Nat

IPHDR == 20
L4Size(proto) == IF proto = "tcp" THEN 20 ELSE 8

Arriving ==
    { p \in [ tunnel : BOOLEAN, len : Lengths, src : Addrs, dst : Addrs,
              proto : {"udp", "tcp", "icmp", "other"}, sport : Ports, dport : Ports,
              echo : BOOLEAN ] : p.echo => p.proto = "icmp" }

Fail == [ok |-> FALSE]

VARIABLES
    pkt,      \* the packet
    came,     \* the packet as it was when it came (history)
    pc,       \* where it is, or what became of it
    stored,   \* the key under which Dec stored the NSH header
    sought    \* the key under which Enc looks for it

vars == <<pkt, came, pc, stored, sought>>

-----------------------------------------------------------------------------
\* Where the IP header of the flow really is.
InnerOffset(p) == IF p.tunnel THEN IPHDR ELSE 0

\* The protocol field of the IP header at offset off.
ProtoAt(p, off) == IF off = InnerOffset(p) THEN p.proto ELSE "ipip"

\* The two 16-bit words at the start of a header: ports of an L4 header, but
\* version, IHL, TOS (0x4500) and the total length of an IP header.
WordsAt(p, off) ==
    IF off = InnerOffset(p) THEN <<17664, p.len - off>> ELSE <<p.sport, p.dport>>

\* Variant: the outer header is not skipped.
OuterOffset(p) == 0

\* The header the tuple is taken from: an outer IP-in-IP header is skipped.
IpOffset(p) == IF ProtoAt(p, 0) = "ipip" THEN IPHDR ELSE 0

\* The L4 header: its offset is computed from ip_data, not from the header found.
L4Offset(p) == IPHDR

Key(p, ports) ==
    [ok |-> TRUE, src |-> p.src, dst |-> p.dst, proto |-> p.proto, ports |-> ports]

\* Variant: no bounds check for the L4 header.
LenientGetTuple(p) ==
    CASE p.len < IpOffset(p) + IPHDR -> Fail
      [] p.len >= IpOffset(p) + IPHDR /\ p.proto = "icmp" -> Key(p, <<0, 0>>)
      [] OTHER -> Key(p, WordsAt(p, L4Offset(p)))

GetTuple(p) ==
    LET proto == ProtoAt(p, IpOffset(p)) IN
    IF p.len < IpOffset(p) + IPHDR THEN Fail
    ELSE CASE proto \in {"udp", "tcp"} ->
                 IF p.len < L4Offset(p) + L4Size(proto) THEN Fail
                 ELSE Key(p, WordsAt(p, L4Offset(p)))
           [] proto = "icmp" -> Key(p, <<0, 0>>)
           [] OTHER -> Fail

-----------------------------------------------------------------------------
Init ==
    /\ came \in Arriving
    /\ pkt = came
    /\ pc = "wire"
    /\ stored = Fail
    /\ sought = Fail

\* Dec: a packet without a 5-tuple is dropped.
Decap ==
    /\ pc = "wire"
    /\ stored' = GetTuple(pkt)
    /\ pc' = IF stored'.ok THEN "sf" ELSE "dropped"
    /\ UNCHANGED <<pkt, came, sought>>

\* A service function that does not touch the headers.
Forward ==
    /\ pc = "sf"
    /\ pc' = "egress"
    /\ UNCHANGED <<pkt, came, stored, sought>>

\* The headers chacha leaves as they are; in a ping request also a struct timeval.
ClearBytes(p) ==
    IPHDR + L4Size(p.proto) + (IF p.proto = "icmp" /\ p.echo THEN 16 ELSE 0)

\* chacha gives a packet that is tunnelled already to the stack, loses one that ends
\* before the bytes it would encrypt, or one for which bpf_skb_adjust_room fails, and
\* puts any other behind an outer header.
Chacha ==
    /\ pc = "sf"
    /\ \/ /\ ProtoAt(pkt, 0) = "ipip"
          /\ pc' = "stack"
          /\ UNCHANGED pkt
       \/ /\ ProtoAt(pkt, 0) # "ipip"
          /\ pc' = "dropped"
          /\ UNCHANGED pkt
       \/ /\ ProtoAt(pkt, 0) # "ipip" /\ pkt.len >= ClearBytes(pkt)
          /\ pkt' = [pkt EXCEPT !.tunnel = TRUE, !.len = @ + IPHDR]
          /\ pc' = "egress"
    /\ UNCHANGED <<came, stored, sought>>

\* Enc: the packet is sent whether or not it has a 5-tuple, but only a tuple that
\* Dec stored keeps it in the chain.
Encap ==
    /\ pc = "egress"
    /\ sought' = GetTuple(pkt)
    /\ pc' = "sent"
    /\ UNCHANGED <<pkt, came, stored>>

Stripped(p) == [p EXCEPT !.tunnel = FALSE, !.len = @ - IPHDR]

\* A ping request becomes its reply.
Reply(p) == [p EXCEPT !.src = p.dst, !.dst = p.src, !.echo = FALSE]

\* Variant: every ICMP message is answered.
AnsweringRemoveIpip ==
    /\ pc = "sent" /\ pkt.tunnel
    /\ pkt' = IF pkt.proto = "icmp" THEN Reply(Stripped(pkt)) ELSE Stripped(pkt)
    /\ pc' = IF pkt.proto = "icmp" THEN "answered" ELSE "delivered"
    /\ UNCHANGED <<came, stored, sought>>

\* remove-ipip, where the packet leaves the chain.
RemoveIpip ==
    /\ pc = "sent"
    /\ \/ /\ ProtoAt(pkt, 0) # "ipip"
          /\ pc' = "delivered"
          /\ UNCHANGED pkt
       \/ /\ ProtoAt(pkt, 0) = "ipip"
          /\ LET p == Stripped(pkt)
                 ping == p.proto = "icmp" /\ p.len >= IPHDR + L4Size("icmp") /\ p.echo
             IN  /\ pkt' = IF ping THEN Reply(p) ELSE p
                 /\ pc' = IF ping THEN "answered" ELSE "delivered"
    /\ UNCHANGED <<came, stored, sought>>

Next == Decap \/ Forward \/ Chacha \/ Encap \/ RemoveIpip

Spec == Init /\ [][Next]_vars

-----------------------------------------------------------------------------
\* Dec takes a packet that is not tunnelled exactly when its IP and L4 headers are
\* complete and the protocol is one of the three, and the key holds its own
\* addresses, protocol and ports: two flows never share a key.
PlainTupleExact ==
    (pc # "wire" /\ ~came.tunnel) =>
        /\ stored.ok <=>
              \/ came.proto \in {"udp", "tcp"} /\ came.len >= IPHDR + L4Size(came.proto)
              \/ came.proto = "icmp" /\ came.len >= IPHDR
        /\ stored.ok =>
              stored = Key(came, IF came.proto = "icmp" THEN <<0, 0>>
                                 ELSE <<came.sport, came.dport>>)

\* A ping that a function put behind an outer header is looked up under the key
\* Dec stored, whatever its size: it stays in the chain.
IcmpTunnelKeepsKey ==
    (pc = "sent" /\ pkt.proto = "icmp") => sought = stored

\* What remove-ipip delivers is the packet that came, without an outer header of its
\* own, and what it answers is a ping request, with the reply to it.
Restored ==
    LET inner == IF came.tunnel THEN Stripped(came) ELSE came IN
    /\ pc = "delivered" => pkt = inner
    /\ pc = "answered" => pkt = Reply(inner) /\ inner.echo /\ inner.proto = "icmp"

\* "If using IP-in-IP encapsulation, skip the first IP header": a packet that was
\* put behind an outer header keeps its key, so Enc finds what Dec stored.
TunnelKeepsKey == pc = "sent" => sought = stored
=============================================================================
