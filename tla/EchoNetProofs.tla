---------------------------- MODULE EchoNetProofs ----------------------------
(***************************************************************************)
(* Facts about the network model that the proofs of both ping engines     *)
(* cite: the host's echo is a datagram, and the engine reading a datagram  *)
(* or the network acting keeps the multiset of datagrams in flight and the *)
(* count of added ones within their types.                                 *)
(***************************************************************************)
EXTENDS EchoNet, TLAPS

USE NetAssumption

\* The echo of a request of the session is a datagram.
LEMMA EchoType ==
    ASSUME NEW s \in 0..Count
    PROVE  EchoOf(s) \in Packet
BY DEF EchoOf, Packet, Types, Ids, Lens, Payload

\* The host's echo keeps `net` a multiset of datagrams.
LEMMA EchoNetType ==
    ASSUME NetTypeOK, NEW s \in 0..Count, Echo(s)
    PROVE  net' \in [Packet -> Nat]
BY EchoType DEF Echo, NetTypeOK

\* Reading a datagram that is ready keeps `net` a multiset of datagrams.
LEMMA ConsumeType ==
    ASSUME NetTypeOK, NEW p \in Packet, Ready(p), Consume(p)
    PROVE  net' \in [Packet -> Nat]
BY DEF Consume, Ready, NetTypeOK

\* A step of the network keeps its type.
LEMMA NetStepType ==
    ASSUME NetTypeOK, NEW p \in Packet, Duplicate(p) \/ Inject(p) \/ Lose(p)
    PROVE  net' \in [Packet -> Nat] /\ extra' \in 0..MaxExtra
<1>1. CASE Duplicate(p)
  <2>1. net' \in [Packet -> Nat]
    BY <1>1 DEF Duplicate, NetTypeOK
  <2>2. extra' \in 0..MaxExtra
    BY <1>1 DEF Duplicate, NetTypeOK
  <2>3. QED
    BY <2>1, <2>2
<1>2. CASE Inject(p)
  <2>1. net' \in [Packet -> Nat]
    BY <1>2 DEF Inject, NetTypeOK
  <2>2. extra' \in 0..MaxExtra
    BY <1>2 DEF Inject, NetTypeOK
  <2>3. QED
    BY <2>1, <2>2
<1>3. CASE Lose(p)
  BY <1>3, ConsumeType DEF Lose, NetTypeOK
<1>4. QED
  BY <1>1, <1>2, <1>3

=============================================================================
