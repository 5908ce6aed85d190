---------------------------- MODULE IcmpPingProofs ----------------------------
(***************************************************************************)
(* Proofs about icmp_ping() for every Count, Timeout, Delay, Noise and     *)
(* MaxExtra: the type invariant, and that a marker set on a request sent  *)
(* means that request had its round trip.                                  *)
(*                                                                         *)
(* TypeOK alone is not inductive: WaitEnd and PollTimeoutMatched step      *)
(* seqno past the last request only because, while the engine waits,      *)
(* seqno is the last request sent.  That relation is part of RoundTripInv, *)
(* so both are proved together as IInv.                                    *)
(***************************************************************************)
EXTENDS IcmpPing, EchoNetProofs

USE NetAssumption, PingAssumption

IInv == TypeOK /\ RoundTripInv

\* Every callback a step makes is an Event.
LEMMA EvType ==
    ASSUME NEW c \in Codes, NEW s \in 0..Count
    PROVE  Ev(c, s) \in Event
BY DEF Ev, Event

LEMMA ClkMaxType == ClkMax \in Nat /\ Timeout < ClkMax /\ Delay < ClkMax
BY DEF ClkMax

-----------------------------------------------------------------------------
LEMMA InitIInv == Init => IInv
BY DEF Init, IInv, TypeOK, RoundTripInv, NetInit, NetTypeOK, ClkMax, Seqs,
       PCs, Packet

(* Each step keeps IInv: one step per action of Next.                      *)
LEMMA NextIInv == IInv /\ [Next]_vars => IInv'
<1> SUFFICES ASSUME TypeOK, RoundTripInv, [Next]_vars PROVE TypeOK' /\ RoundTripInv'
  BY DEF IInv
<1> USE ClkMaxType, EvType DEF TypeOK, NetTypeOK, PCs, Seqs, netVars, Codes,
                                RoundTripInv
<1>1. CASE StartOk
  BY <1>1 DEF StartOk
<1>2. CASE StartFail
  BY <1>2 DEF StartFail
<1>3. CASE SendRequest
  <2>1. net' \in [Packet -> Nat]
    BY <1>3, EchoType DEF SendRequest, Echo
  <2>2. marker' \in [Seqs -> BOOLEAN]
    BY <1>3 DEF SendRequest
  <2>3. out' \in Seq(Event) /\ clk' \in 0..ClkMax /\ elapsed' \in 0..ClkMax
    BY <1>3 DEF SendRequest
  <2>4. RoundTripInv'
    BY <1>3 DEF SendRequest
  <2>5. QED
    BY <1>3, <2>1, <2>2, <2>3, <2>4 DEF SendRequest
<1>4. CASE SendFail
  <2>1. PICK c \in {"E_SENDTO", "E_SENDSMALL"} : out' = <<Ev(c, seqno)>>
    BY <1>4 DEF SendFail
  <2>2. out' \in Seq(Event)
    BY <2>1
  <2>3. marker' \in [Seqs -> BOOLEAN] /\ clk' \in 0..ClkMax
    BY <1>4 DEF SendFail
  <2>4. RoundTripInv'
    BY <1>4 DEF SendFail
  <2>5. QED
    BY <1>4, <2>2, <2>3, <2>4 DEF SendFail
<1>5. CASE LoopEnd
  BY <1>5 DEF LoopEnd
<1>6. CASE PollStart
  BY <1>6 DEF PollStart
<1>7. CASE WaitEnd
  BY <1>7 DEF WaitEnd
<1>8. CASE PollTimeoutMatched
  BY <1>8 DEF PollTimeoutMatched
<1>9. CASE PollTimeoutWarn
  BY <1>9 DEF PollTimeoutWarn
<1>10. CASE PollFail
  BY <1>10 DEF PollFail
<1>11. CASE RecvFail
  BY <1>11 DEF RecvFail
<1>12. ASSUME NEW p \in Packet, RecvSmall(p) PROVE TypeOK' /\ RoundTripInv'
  BY <1>12 DEF RecvSmall, Consume, Ready
<1>13. ASSUME NEW p \in Packet, RecvForeign(p) PROVE TypeOK' /\ RoundTripInv'
  <2>1. ForeignCode(p) \in Codes
    BY DEF ForeignCode
  <2>2. out' \in Seq(Event)
    BY <1>13, <2>1 DEF RecvForeign, Packet
  <2>3. net' \in [Packet -> Nat]
    BY <1>13 DEF RecvForeign, Consume, Ready
  <2>4. QED
    BY <1>13, <2>2, <2>3 DEF RecvForeign
<1>14. ASSUME NEW p \in Packet, RecvReply(p) PROVE TypeOK' /\ RoundTripInv'
  <2>1. p.seq \in Seqs /\ p.seq < nrequests
    BY <1>14 DEF RecvReply, Foreign, Packet
  <2>2. MatchEvents(p) \in Seq(Event)
    BY <2>1 DEF MatchEvents
  <2>3. VerifyEvents(p) \in Seq(Event)
    BY DEF VerifyEvents
  <2>4. out' \in Seq(Event)
    BY <1>14, <2>2, <2>3 DEF RecvReply
  <2>5. net' \in [Packet -> Nat]
    BY <1>14 DEF RecvReply, Consume, Ready
  <2>6. nrtt' \in [Seqs -> Nat] /\ marker' \in [Seqs -> BOOLEAN]
    <3>1. CASE marker[p.seq]
      BY <1>14, <2>1, <3>1 DEF RecvReply
    <3>2. CASE ~marker[p.seq]
      BY <1>14, <2>1, <3>2 DEF RecvReply
    <3>3. QED
      BY <3>1, <3>2
  <2>7. nreplies' \in Nat /\ timeout' \in {Timeout, Delay}
    BY <1>14 DEF RecvReply
  <2>8. TypeOK'
    BY <1>14, <2>4, <2>5, <2>6, <2>7 DEF RecvReply
  <2>9. RoundTripInv'
    BY <1>14, <2>1 DEF RecvReply
  <2>10. QED
    BY <2>8, <2>9
<1>15. CASE Finish
  BY <1>15 DEF Finish
<1>16. CASE Tick
  <2>1. clk' \in 0..ClkMax
    BY <1>16 DEF Tick
  <2>2. UNCHANGED <<pc, seqno, nrequests, nreplies, marker, timeout, elapsed,
                    pollEnd, out, nrtt, net, extra>>
    BY <1>16 DEF Tick
  <2>3. QED
    BY <2>1, <2>2
<1>17. CASE Network
  <2>1. PICK p \in Packet : Duplicate(p) \/ Inject(p) \/ Lose(p)
    BY <1>17 DEF Network, NetStep
  <2>2. net' \in [Packet -> Nat] /\ extra' \in 0..MaxExtra
    BY <2>1, NetStepType
  <2>3. QED
    BY <1>17, <2>2 DEF Network, engineVars
<1>18. CASE UNCHANGED vars
  BY <1>18 DEF vars, engineVars
<1>19. QED
  BY <1>1, <1>2, <1>3, <1>4, <1>5, <1>6, <1>7, <1>8, <1>9, <1>10, <1>11,
     <1>12, <1>13, <1>14, <1>15, <1>16, <1>17, <1>18
  DEF Next, Progress, Failure

-----------------------------------------------------------------------------
(* icmp_ping() keeps every variable within its type.                       *)
THEOREM TypeCorrect == Spec => []TypeOK
<1>1. Spec => []IInv
  BY InitIInv, NextIInv, PTL DEF Spec
<1>2. QED
  BY <1>1, PTL DEF IInv

\* A tally of at most one that is one only when b holds is zero without b.
LEMMA AtMostOnce ==
    ASSUME NEW n \in Nat, NEW b, n <= 1, n = 1 => b
    PROVE  ~b => n = 0
OBVIOUS

(* Each step keeps MarkerMeansRoundTrip, given IInv: a request clears its  *)
(* own marker as it is sent (seqno is then nrequests), a failed send       *)
(* clears one at nrequests, and a reply sets a marker only together with   *)
(* the one ROUNDTRIP, or on a sequence number that already had it.         *)
LEMMA NextMarker ==
    IInv /\ MarkerMeansRoundTrip /\ [Next]_vars => MarkerMeansRoundTrip'
<1> SUFFICES ASSUME TypeOK, RoundTripInv, MarkerMeansRoundTrip, [Next]_vars
             PROVE  MarkerMeansRoundTrip'
  BY DEF IInv
<1> USE DEF TypeOK, PCs, Seqs, MarkerMeansRoundTrip
<1>1. CASE SendRequest \/ SendFail
  \* At the loop head seqno is nrequests: the marker cleared is the next
  \* request's, so it is the new request under SendRequest and no request
  \* sent under SendFail.
  <2>1. pc = "loop" => seqno = nrequests
    BY DEF RoundTripInv
  <2>2. CASE SendRequest
    <3>1. /\ seqno = nrequests /\ nrequests' = nrequests + 1
          /\ marker' = [marker EXCEPT ![seqno] = FALSE] /\ nrtt' = nrtt
      BY <2>1, <2>2 DEF SendRequest
    <3>2. QED
      BY <3>1
  <2>3. CASE SendFail
    <3>1. /\ seqno = nrequests /\ nrequests' = nrequests
          /\ marker' = [marker EXCEPT ![seqno] = FALSE] /\ nrtt' = nrtt
      BY <2>1, <2>3 DEF SendFail
    <3>2. QED
      BY <3>1
  <2>4. QED
    BY <1>1, <2>2, <2>3
<1>2. ASSUME NEW p \in Packet, RecvReply(p) PROVE MarkerMeansRoundTrip'
  <2>1. p.seq \in Seqs /\ p.seq < nrequests
    BY <1>2 DEF RecvReply, Foreign, Packet, RoundTripInv
  <2>2. /\ nrtt[p.seq] \in Nat /\ nrtt[p.seq] <= 1
        /\ nrtt[p.seq] = 1 => marker[p.seq]
    BY <2>1 DEF RoundTripInv
  <2>3. ~marker[p.seq] => nrtt[p.seq] = 0
    BY <2>1, <2>2, AtMostOnce
  <2>4. QED
    BY <1>2, <2>1, <2>3 DEF RecvReply
<1>3. CASE UNCHANGED <<nrequests, marker, nrtt>>
  BY <1>3
<1>4. QED
  <2>1. CASE Next
    BY <2>1, <1>1, <1>2, <1>3
    DEF Next, Progress, Failure, StartOk, StartFail, LoopEnd, PollStart,
        WaitEnd, PollTimeoutMatched, PollTimeoutWarn, PollFail, RecvFail,
        RecvSmall, RecvForeign, Finish, Tick, Network, engineVars
  <2>2. CASE UNCHANGED vars
    BY <2>2, <1>3 DEF vars, engineVars
  <2>3. QED
    BY <2>1, <2>2

(* MarkerMeansRoundTrip, checked by icmp_safety: the marker of a request   *)
(* already sent is set only after its ROUNDTRIP, so the reset of line 266  *)
(* keeps a stale marker from hiding a round trip, for every Count, Timeout *)
(* and Delay and whatever the network duplicates or injects.               *)
THEOREM MarkerMeansRoundTripHolds == Spec => []MarkerMeansRoundTrip
<1>1. Init => MarkerMeansRoundTrip
  BY DEF Init, MarkerMeansRoundTrip
<1>2. QED
  BY <1>1, InitIInv, NextIInv, NextMarker, PTL DEF Spec

-----------------------------------------------------------------------------
(* Refinement: every step of icmp_ping() is a step of the session of the   *)
(* specification or leaves its phase, requests-sent and ROUNDTRIP tally    *)
(* alone.  The ROUNDTRIP step needs IInv: the reply's sequence number is   *)
(* below result.nrequests because seqno is the last request sent while     *)
(* the engine polls, and an unset marker means no ROUNDTRIP was made yet.  *)

\* The steps that leave the session's variables alone.
LEMMA SessionStutter ==
    ASSUME IInv,
           \/ PollStart \/ WaitEnd \/ PollTimeoutMatched \/ PollTimeoutWarn
           \/ \E p \in Packet : RecvForeign(p)
           \/ Tick \/ Network \/ UNCHANGED vars
    PROVE  UNCHANGED Session!vars
<1>1. /\ UNCHANGED <<nrequests, nrtt>>
      /\ \/ pc \in {"loop", "wait", "poll"} /\ pc' \in {"loop", "wait", "poll"}
         \/ pc' = pc
  BY DEF PollStart, WaitEnd, PollTimeoutMatched, PollTimeoutWarn, RecvForeign,
         Tick, Network, Active, vars, engineVars
<1>2. QED
  BY <1>1 DEF Session!vars, SessionPhase

(* A reply that makes a ROUNDTRIP callback is the session's RoundTrip.     *)
LEMMA ReplyRefines ==
    ASSUME IInv, NEW p \in Packet, RecvReply(p)
    PROVE  [Session!Next]_Session!vars
<1> HIDE DEF IInv
<1>0. TypeOK /\ RoundTripInv
  BY DEF IInv
<1>1. p.seq \in Seqs /\ p.seq < nrequests
  BY <1>0 DEF RecvReply, Foreign, Packet, TypeOK, RoundTripInv, Seqs, PCs
<1>2. SessionPhase = "run" /\ SessionPhase' = "run"
  BY DEF RecvReply, SessionPhase
<1>3. CASE marker[p.seq]
  BY <1>2, <1>3 DEF RecvReply, Session!vars
<1>4. CASE ~marker[p.seq]
  <2>1. nrtt[p.seq] = 0
    <3>1. nrtt[p.seq] \in Nat /\ nrtt[p.seq] <= 1
      BY <1>0, <1>1 DEF TypeOK, RoundTripInv
    <3>2. nrtt[p.seq] # 1
      BY <1>0, <1>1, <1>4 DEF RoundTripInv
    <3>3. QED
      BY <3>1, <3>2
  <2>2. nrtt' = [nrtt EXCEPT ![p.seq] = 1]
    BY <1>4, <2>1 DEF RecvReply
  <2>3. Session!RoundTrip(p.seq)
    BY <1>1, <1>2, <2>1, <2>2 DEF RecvReply, Session!RoundTrip
  <2>4. QED
    BY <1>1, <2>3 DEF Session!Next, Session!Seqs, Seqs
<1>5. QED
  BY <1>3, <1>4

(* icmp_ping() implements the session of the specification, for every     *)
(* Count, Timeout, Delay and network.                                      *)
THEOREM ImplementsPingSessionHolds == Spec => ImplementsPingSession
<1>1. Init => Session!Init
  BY DEF Init, Session!Init, SessionPhase, Seqs, Session!Seqs
<1>2. IInv /\ [Next]_vars => [Session!Next]_Session!vars
  <2> SUFFICES ASSUME IInv, [Next]_vars PROVE [Session!Next]_Session!vars
    OBVIOUS
  <2>1. CASE StartOk
    BY <2>1 DEF StartOk, Session!Next, Session!Begin, SessionPhase
  <2>2. CASE StartFail
    BY <2>2 DEF StartFail, Session!Next, Session!SetupFail, SessionPhase
  <2>3. CASE SendRequest
    BY <2>3 DEF SendRequest, Session!Next, Session!Send, SessionPhase
  <2>4. CASE SendFail \/ LoopEnd \/ PollFail \/ RecvFail
                \/ \E p \in Packet : RecvSmall(p)
    <3>1. SessionPhase = "run" /\ SessionPhase' = "ending"
          /\ UNCHANGED <<nrequests, nrtt>>
      BY <2>4 DEF SendFail, LoopEnd, PollFail, RecvFail, RecvSmall, SessionPhase
    <3>2. QED
      BY <3>1 DEF Session!Next, Session!End
  <2>5. CASE Finish
    BY <2>5 DEF Finish, Session!Next, Session!Finish, SessionPhase
  <2>6. CASE \E p \in Packet : RecvReply(p)
    BY <2>6, ReplyRefines
  <2>7. CASE \/ PollStart \/ WaitEnd \/ PollTimeoutMatched \/ PollTimeoutWarn
             \/ \E p \in Packet : RecvForeign(p)
             \/ Tick \/ Network \/ UNCHANGED vars
    BY <2>7, SessionStutter
  <2>8. QED
    BY <2>1, <2>2, <2>3, <2>4, <2>5, <2>6, <2>7 DEF Next, Progress, Failure
<1>3. QED
  BY <1>1, <1>2, InitIInv, NextIInv, PTL
  DEF Spec, ImplementsPingSession, Session!Spec


(* RoundTripInv itself, the invariant icmp_safety checks: each ROUNDTRIP   *)
(* leaves its marker set, unsent sequences have none, and while the engine *)
(* waits result.seqno is the last request sent.                            *)
THEOREM RoundTripInvHolds == Spec => []RoundTripInv
<1>1. IInv => RoundTripInv
  BY DEF IInv
<1>2. QED
  BY <1>1, InitIInv, NextIInv, PTL DEF Spec

-----------------------------------------------------------------------------
(* The clock bookkeeping, TimeoutInv, on top of IInv.                      *)

TInv == IInv /\ TimeoutInv

LEMMA InitTInv == Init => TInv
BY InitIInv DEF Init, TInv, TimeoutInv

\* In the wait loop the sequence waited for is one of Seqs.
LEMMA WaitSeq ==
    ASSUME IInv, pc \in {"wait", "poll"}
    PROVE  seqno \in Seqs
BY DEF IInv, TypeOK, RoundTripInv, Seqs

(* Each step keeps TimeoutInv: the steps that leave the wait loop make it  *)
(* hold vacuously; the others reread the clock or leave it alone.          *)
LEMMA NextTimeoutInv == TInv /\ [Next]_vars => TimeoutInv'
<1> SUFFICES ASSUME IInv, TimeoutInv, [Next]_vars PROVE TimeoutInv'
  BY DEF TInv
<1>1. CASE StartOk \/ StartFail \/ SendFail \/ LoopEnd \/ WaitEnd
           \/ PollTimeoutMatched \/ PollFail \/ RecvFail \/ Finish
           \/ \E p \in Packet : RecvSmall(p)
  <2>1. pc' \notin {"wait", "poll"}
    BY <1>1 DEF StartOk, StartFail, SendFail, LoopEnd, WaitEnd,
                PollTimeoutMatched, PollFail, RecvFail, Finish, RecvSmall
  <2>2. QED
    BY <2>1 DEF TimeoutInv
<1>2. CASE SendRequest
  BY <1>2 DEF SendRequest, TimeoutInv, IInv, TypeOK, RoundTripInv, Seqs
<1>3. CASE PollStart
  <2>1. elapsed <= clk /\ clk \in Nat /\ elapsed \in Nat /\ timeout \in Nat
    BY <1>3, PingAssumption, ClkMaxType
    DEF PollStart, TimeoutInv, IInv, TypeOK
  <2>2. QED
    BY <1>3, <2>1 DEF PollStart, TimeoutInv
<1>4. CASE PollTimeoutWarn
  BY <1>4, ClkMaxType DEF PollTimeoutWarn, TimeoutInv, IInv, TypeOK
<1>5. ASSUME NEW p \in Packet, RecvForeign(p) PROVE TimeoutInv'
  BY <1>5, ClkMaxType DEF RecvForeign, TimeoutInv, IInv, TypeOK
<1>6. ASSUME NEW p \in Packet, RecvReply(p) PROVE TimeoutInv'
  <2>1. seqno \in Seqs /\ p.seq \in Seqs
    BY <1>6, WaitSeq DEF RecvReply, Foreign, Packet, IInv, TypeOK, Seqs
  <2>2. ~marker'[seqno] => ~marker[seqno] /\ p.seq # seqno
    BY <1>6, <2>1 DEF RecvReply, IInv, TypeOK
  <2>3. ~marker'[seqno] => timeout' = Timeout
    BY <1>6, <2>2 DEF RecvReply, TimeoutInv
  <2>4. elapsed' <= clk'
    BY <1>6, ClkMaxType DEF RecvReply, IInv, TypeOK
  <2>5. QED
    BY <1>6, <2>3, <2>4 DEF RecvReply, TimeoutInv
<1>7. CASE Tick
  BY <1>7, ClkMaxType DEF Tick, TimeoutInv, IInv, TypeOK
<1>8. CASE Network \/ UNCHANGED vars
  BY <1>8 DEF Network, vars, engineVars, TimeoutInv
<1>9. QED
  BY <1>1, <1>2, <1>3, <1>4, <1>5, <1>6, <1>7, <1>8
  DEF Next, Progress, Failure

LEMMA NextTInv == TInv /\ [Next]_vars => TInv'
BY NextIInv, NextTimeoutInv DEF TInv

(* TimeoutInv, checked by icmp_safety, holds for every Count, Timeout,     *)
(* Delay and network.                                                      *)
THEOREM TimeoutInvHolds == Spec => []TimeoutInv
<1>1. TInv => TimeoutInv
  BY DEF TInv
<1>2. QED
  BY <1>1, InitTInv, NextTInv, PTL DEF Spec


-----------------------------------------------------------------------------
(* The TIMEOUT callbacks.  Only PollTimeoutWarn makes one; Tick, Network   *)
(* and stutters keep the callbacks of the last step; every other step      *)
(* makes callbacks of other codes.  TimeoutOut says that a TIMEOUT among   *)
(* the last callbacks was made late enough and before any round trip of    *)
(* its sequence; it is needed because Tick and Network keep `out`.         *)

NonTimeout == {e \in Event : e.code # "W_TIMEOUT"}

TimeoutOut ==
    \A i \in DOMAIN out : out[i].code = "W_TIMEOUT" =>
        clk >= Timeout /\ out[i].seq \in Seqs /\ nrtt[out[i].seq] = 0

LEMMA NonTimeoutEv ==
    ASSUME NEW c \in Codes \ {"W_TIMEOUT"}, NEW s \in 0..Count
    PROVE  Ev(c, s) \in NonTimeout
BY DEF Ev, Event, NonTimeout

\* Which callbacks a step makes.
LEMMA OutOfStep ==
    ASSUME IInv, [Next]_vars
    PROVE  \/ PollTimeoutWarn
           \/ out' = out /\ nrtt' = nrtt /\ clk <= clk'
           \/ out' \in Seq(NonTimeout)
<1> USE DEF IInv, TypeOK
<1>1. ASSUME StartOk PROVE out' \in Seq(NonTimeout)
  BY <1>1, NonTimeoutEv DEF StartOk, Codes
<1>2. ASSUME StartFail PROVE out' \in Seq(NonTimeout)
  BY <1>2, NonTimeoutEv DEF StartFail, Codes
<1>3. ASSUME SendFail PROVE out' \in Seq(NonTimeout)
  BY <1>3, NonTimeoutEv DEF SendFail, Codes
<1>4. ASSUME PollFail PROVE out' \in Seq(NonTimeout)
  BY <1>4, NonTimeoutEv DEF PollFail, Codes
<1>13. ASSUME RecvFail PROVE out' \in Seq(NonTimeout)
  BY <1>13, NonTimeoutEv DEF RecvFail, Codes
<1>5. ASSUME Finish PROVE out' \in Seq(NonTimeout)
  BY <1>5, NonTimeoutEv DEF Finish, Codes
<1>6. ASSUME NEW p \in Packet, RecvSmall(p) PROVE out' \in Seq(NonTimeout)
  BY <1>6, NonTimeoutEv DEF RecvSmall, Codes
<1>7. ASSUME NEW p \in Packet, RecvForeign(p) PROVE out' \in Seq(NonTimeout)
  <2>1. ForeignCode(p) \in Codes \ {"W_TIMEOUT"} /\ p.seq \in 0..Count
    BY DEF ForeignCode, Codes, Packet
  <2>2. QED
    BY <1>7, <2>1, NonTimeoutEv DEF RecvForeign
<1>8. ASSUME NEW p \in Packet, RecvReply(p) PROVE out' \in Seq(NonTimeout)
  <2>1. p.seq \in 0..Count
    BY DEF Packet
  <2>2. MatchEvents(p) \in Seq(NonTimeout)
    BY <2>1, NonTimeoutEv DEF MatchEvents, Codes
  <2>3. VerifyEvents(p) \in Seq(NonTimeout)
    BY NonTimeoutEv DEF VerifyEvents, Codes
  <2>4. QED
    BY <1>8, <2>2, <2>3 DEF RecvReply
<1>9. ASSUME SendRequest \/ LoopEnd \/ PollStart \/ WaitEnd \/ PollTimeoutMatched
      PROVE  out' \in Seq(NonTimeout)
  <2>1. out' = << >>
    BY <1>9, Zenon DEF SendRequest, LoopEnd, PollStart, WaitEnd, PollTimeoutMatched
  <2>2. QED
    BY <2>1
<1>10. CASE Tick
  BY <1>10, ClkMaxType DEF Tick
<1>11. CASE Network \/ UNCHANGED vars
  BY <1>11, ClkMaxType DEF Network, vars, engineVars
<1>12. QED
  BY <1>1, <1>2, <1>3, <1>4, <1>13, <1>5, <1>6, <1>7, <1>8, <1>9, <1>10, <1>11
  DEF Next, Progress, Failure

\* A TIMEOUT is made only after info->timeout, and before any round trip.
LEMMA WarnLate ==
    ASSUME TInv, PollTimeoutWarn
    PROVE  clk >= Timeout /\ seqno \in Seqs /\ nrtt[seqno] = 0
<1>1. seqno \in Seqs
  BY WaitSeq DEF TInv, PollTimeoutWarn
<1>2. clk >= Timeout
  BY ClkMaxType DEF TInv, PollTimeoutWarn, PollExpired, TimeoutInv, IInv, TypeOK
<1>3. nrtt[seqno] = 0
  <2>1. nrtt[seqno] \in Nat /\ nrtt[seqno] <= 1
    BY <1>1 DEF TInv, IInv, TypeOK, RoundTripInv
  <2>2. nrtt[seqno] # 1
    BY <1>1 DEF TInv, IInv, RoundTripInv, PollTimeoutWarn
  <2>3. QED
    BY <2>1, <2>2
<1>4. QED
  BY <1>1, <1>2, <1>3

LEMMA InitTimeoutOut == Init => TimeoutOut
BY DEF Init, TimeoutOut

LEMMA NextTimeoutOut == TInv /\ TimeoutOut /\ [Next]_vars => TimeoutOut'
<1> SUFFICES ASSUME TInv, TimeoutOut, [Next]_vars PROVE TimeoutOut'
  OBVIOUS
<1>1. CASE PollTimeoutWarn
  BY <1>1, WarnLate DEF PollTimeoutWarn, TimeoutOut, Ev
<1>2. CASE out' = out /\ nrtt' = nrtt /\ clk <= clk'
  <2>1. clk \in Nat /\ clk' \in Nat
    BY NextIInv, ClkMaxType DEF TInv, IInv, TypeOK
  <2>2. QED
    BY <1>2, <2>1, PingAssumption DEF TimeoutOut
<1>3. CASE out' \in Seq(NonTimeout)
  BY <1>3 DEF TimeoutOut, NonTimeout
<1>4. QED
  BY <1>1, <1>2, <1>3, OutOfStep DEF TInv

OInv == TInv /\ TimeoutOut

LEMMA OInvHolds == Spec => []OInv
BY InitTInv, InitTimeoutOut, NextTInv, NextTimeoutOut, PTL DEF Spec, OInv

(* A TIMEOUT callback is made only once info->timeout has passed since the *)
(* request was sent: poll() gets timeout - elapsed with elapsed read after *)
(* every poll(), and the timeout stays info->timeout until the reply.      *)
THEOREM NoEarlyTimeoutHolds == Spec => NoEarlyTimeout
<1>1. OInv /\ [Next]_vars =>
        [\A i \in DOMAIN out' : out'[i].code = "W_TIMEOUT" => clk >= Timeout]_vars
  <2> SUFFICES ASSUME OInv, [Next]_vars
               PROVE  \A i \in DOMAIN out' : out'[i].code = "W_TIMEOUT" => clk >= Timeout
    OBVIOUS
  <2>1. CASE PollTimeoutWarn
    BY <2>1, WarnLate DEF OInv
  <2>2. CASE out' = out /\ nrtt' = nrtt /\ clk <= clk'
    BY <2>2 DEF OInv, TimeoutOut
  <2>3. CASE out' \in Seq(NonTimeout)
    BY <2>3 DEF NonTimeout
  <2>4. QED
    BY <2>1, <2>2, <2>3, OutOfStep DEF OInv, TInv
<1>2. QED
  BY <1>1, OInvHolds, PTL DEF Spec, NoEarlyTimeout

(* No TIMEOUT callback is made for a sequence that already had its         *)
(* ROUNDTRIP: the timeout branch tests maps[seqno].marker, which every     *)
(* ROUNDTRIP sets and only the next send clears.                           *)
THEOREM NoTimeoutAfterRoundTripHolds == Spec => NoTimeoutAfterRoundTrip
<1>1. OInv /\ [Next]_vars =>
        [\A i \in DOMAIN out' :
            out'[i].code = "W_TIMEOUT" => nrtt[out'[i].seq] = 0]_vars
  <2> SUFFICES ASSUME OInv, [Next]_vars
               PROVE  \A i \in DOMAIN out' :
                          out'[i].code = "W_TIMEOUT" => nrtt[out'[i].seq] = 0
    OBVIOUS
  <2>1. CASE PollTimeoutWarn
    BY <2>1, WarnLate DEF OInv, PollTimeoutWarn, Ev
  <2>2. CASE out' = out /\ nrtt' = nrtt /\ clk <= clk'
    BY <2>2 DEF OInv, TimeoutOut
  <2>3. CASE out' \in Seq(NonTimeout)
    BY <2>3 DEF NonTimeout
  <2>4. QED
    BY <2>1, <2>2, <2>3, OutOfStep DEF OInv, TInv
<1>2. QED
  BY <1>1, OInvHolds, PTL DEF Spec, NoTimeoutAfterRoundTrip

=============================================================================
