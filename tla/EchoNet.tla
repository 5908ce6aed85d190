------------------------------- MODULE EchoNet -------------------------------
(***************************************************************************)
(* The network between a ping engine and the pinged host, as the engine    *)
(* sees it through its ICMP datagram socket: a multiset of ICMP datagrams  *)
(* that may be delivered in any order, lost, duplicated, or joined by      *)
(* datagrams the engine never asked for (other sessions' replies, other    *)
(* ICMP types, corrupted or truncated echoes).  It is the environment of   *)
(* both engines (netutils/ping/icmp_ping.c and system/ping6/ping6.c), not  *)
(* code of the repository.                                                 *)
(*                                                                         *)
(* A datagram is abstracted to the fields the engines test:                *)
(*   type  the ICMP type: an echo reply or any other type;                 *)
(*   id    the 16-bit identifier: this session's or another one's;         *)
(*   seq   the 16-bit sequence number (only 0..Count can be told apart);   *)
(*   len   its length against the engine's buffer: shorter than an ICMP    *)
(*         header ("Runt"), a header but a short payload ("Short"), the    *)
(*         expected size ("Exact"), or larger ("Long", which recvfrom()    *)
(*         truncates to the buffer size);                                  *)
(*   data  whether the payload bytes follow the 0x20..0x7e pattern.        *)
(***************************************************************************)
EXTENDS Naturals

CONSTANTS
    Count,      \* number of echo requests of a session (info->count)
    Noise,      \* datagrams the environment may inject
    MaxExtra    \* bound on datagrams the environment adds (duplicates, noise)

VARIABLES
    net,        \* net[p]: copies of datagram p in flight to the engine
    extra       \* datagrams added by the environment so far

netVars == <<net, extra>>

Types   == {"EchoReply", "Other"}
Ids     == {"Mine", "Foreign"}
Lens    == {"Runt", "Short", "Exact", "Long"}
Payload == {"Good", "Bad"}

Packet == [type : Types, id : Ids, seq : 0..Count, len : Lens, data : Payload]

ASSUME NetAssumption ==
    /\ Count \in Nat \ {0}
    /\ Noise \subseteq Packet
    /\ MaxExtra \in Nat

\* The reply a well-behaved host returns to the request with sequence s.
EchoOf(s) == [type |-> "EchoReply", id |-> "Mine", seq |-> s,
              len |-> "Exact", data |-> "Good"]

\* A datagram is ready to be read.
Ready(p) == net[p] > 0

NetTypeOK ==
    /\ net \in [Packet -> Nat]
    /\ extra \in 0..MaxExtra

NetInit ==
    /\ net = [p \in Packet |-> 0]
    /\ extra = 0

\* The host answers a request: one more copy of its echo in flight.
Echo(s) == net' = [net EXCEPT ![EchoOf(s)] = @ + 1]

\* The engine reads datagram p from its socket.
Consume(p) == net' = [net EXCEPT ![p] = @ - 1]

\* The network duplicates a datagram in flight.
Duplicate(p) ==
    /\ Ready(p)
    /\ extra < MaxExtra
    /\ net' = [net EXCEPT ![p] = @ + 1]
    /\ extra' = extra + 1

\* A datagram of another host, session or ICMP type reaches the socket.
Inject(p) ==
    /\ p \in Noise
    /\ extra < MaxExtra
    /\ net' = [net EXCEPT ![p] = @ + 1]
    /\ extra' = extra + 1

\* The network loses a datagram.
Lose(p) ==
    /\ Ready(p)
    /\ Consume(p)
    /\ UNCHANGED extra

NetStep == \E p \in Packet : Duplicate(p) \/ Inject(p) \/ Lose(p)

=============================================================================
