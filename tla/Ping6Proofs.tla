------------------------------ MODULE Ping6Proofs ------------------------------
(***************************************************************************)
(* Proofs about icmpv6_ping() for every Count, Timeout, Delay, Noise and   *)
(* MaxExtra allowed by the assumptions: the type invariant, WaitInv (which *)
(* includes the pacing of requests) and NoEarlyNoResponse.                 *)
(*                                                                         *)
(* TypeOK is not inductive alone: Pace and Wake step seqno and stay in     *)
(* 0..Count only because nrequests = seqno + 1 while a request is          *)
(* outstanding.  WaitInv holds that relation and the clock facts the two   *)
(* properties need, and IInv == TypeOK /\ WaitInv is inductive.            *)
(***************************************************************************)
EXTENDS Ping6, EchoNetProofs

USE NetAssumption, Ping6Assumption

IInv == TypeOK /\ WaitInv

LEMMA ClkMaxType ==
    ClkMax \in Nat /\ Timeout < ClkMax /\ Delay < ClkMax
BY DEF ClkMax

\* Every line a step prints is a Line.
LEMMA LnType ==
    ASSUME NEW c \in Lines, NEW s \in 0..Count
    PROVE  Ln(c, s) \in Line
BY DEF Ln, Line

\* The classification prints Lines.
LEMMA ClassifyType ==
    ASSUME NEW p \in Packet
    PROVE  ClassifyLines(p) \in Seq(Line)
<1>1. p.seq \in 0..Count
  BY DEF Packet
<1>2. (IF p.seq < seqno THEN <<Ln("W_LATE", p.seq)>> ELSE << >>) \in Seq(Line)
  BY <1>1, LnType DEF Lines
<1>3. (IF p.len = "Short" THEN <<Ln("W_SIZE", p.seq)>>
       ELSE IF p.data = "Bad" THEN <<Ln("W_DATA", p.seq)>>
       ELSE << >>) \in Seq(Line)
  BY <1>1, LnType DEF Lines
<1>4. <<Ln("REPLY", p.seq)>> \in Seq(Line)
  BY <1>1, LnType DEF Lines
<1>5. QED
  BY <1>1, <1>2, <1>3, <1>4, LnType DEF ClassifyLines, Lines

\* The loss percentage is computed in int.
LEMMA LossPctType ==
    ASSUME NEW n \in 1..Count, NEW r \in Int
    PROVE  LossPct(n, r) \in Int
BY DEF LossPct, CDiv

-----------------------------------------------------------------------------
LEMMA InitIInv == Init => IInv
BY ClkMaxType DEF Init, IInv, TypeOK, WaitInv, NetInit, NetTypeOK, PCs, U16

(* Each step keeps IInv: one step per action of Next.                      *)
LEMMA NextIInv == IInv /\ [Next]_vars => IInv'
<1> SUFFICES ASSUME TypeOK, WaitInv, [Next]_vars PROVE TypeOK' /\ WaitInv'
  BY DEF IInv
<1> USE ClkMaxType, LnType DEF TypeOK, NetTypeOK, PCs, netVars, Lines, WaitInv
<1>1. CASE StartOk
  <2>1. out' \in Seq(Line)
    BY <1>1 DEF StartOk
  <2>2. QED
    BY <1>1, <2>1 DEF StartOk
<1>2. CASE StartFail
  BY <1>2 DEF StartFail
<1>3. CASE SendRequest
  <2>1. net' \in [Packet -> Nat]
    BY <1>3, EchoNetType DEF SendRequest
  <2>2. QED
    BY <1>3, <2>1 DEF SendRequest
<1>4. CASE SendFail
  <2>1. PICK c \in {"E_SENDTO", "E_SENDSIZE"} : out' = <<Ln(c, seqno)>>
    BY <1>4 DEF SendFail
  <2>2. out' \in Seq(Line)
    BY <2>1
  <2>3. QED
    BY <1>4, <2>2 DEF SendFail
<1>5. CASE LoopEnd
  BY <1>5 DEF LoopEnd
<1>6. CASE PollStart
  BY <1>6 DEF PollStart
<1>7. CASE PollTimeout
  BY <1>7 DEF PollTimeout
<1>8. CASE PollFail
  <2>1. out' = <<Ln("E_POLL", seqno)>>
    BY <1>8 DEF PollFail
  <2>2. out' \in Seq(Line)
    BY <2>1
  <2>3. QED
    BY <1>8, <2>2 DEF PollFail
<1>18. CASE RecvFail
  <2>1. out' = <<Ln("E_RECVFROM", seqno)>>
    BY <1>18 DEF RecvFail
  <2>2. out' \in Seq(Line)
    BY <2>1
  <2>3. QED
    BY <1>18, <2>2 DEF RecvFail
<1>9. ASSUME NEW p \in Packet, RecvShort(p) PROVE TypeOK' /\ WaitInv'
  <2>1. net' \in [Packet -> Nat]
    BY <1>9, ConsumeType DEF RecvShort
  <2>2. QED
    BY <1>9, <2>1 DEF RecvShort
<1>10. ASSUME NEW p \in Packet, RecvReply(p) PROVE TypeOK' /\ WaitInv'
  <2>1. net' \in [Packet -> Nat]
    BY <1>10, ConsumeType DEF RecvReply
  <2>2. out' \in Seq(Line)
    BY <1>10, ClassifyType DEF RecvReply
  <2>3. nreplies' \in Nat /\ nreplies' < U16
    BY <1>10 DEF RecvReply, U16
  <2>4. pc' \in {"wait", "pace"} /\ elapsed' = clk
    BY <1>10 DEF RecvReply
  <2>5. QED
    BY <1>10, <2>1, <2>2, <2>3, <2>4 DEF RecvReply
<1>11. CASE Pace
  <2>1. CASE clk < Delay
    BY <1>11, <2>1 DEF Pace
  <2>2. CASE ~(clk < Delay)
    BY <1>11, <2>2 DEF Pace
  <2>3. QED
    BY <2>1, <2>2
<1>12. CASE Wake
  BY <1>12 DEF Wake
<1>13. CASE Finish
  <2>1. CASE nrequests > 0
    <3>1. loss' \in Int
      BY <1>13, <2>1, LossPctType DEF Finish
    <3>2. out' \in Seq(Line)
      <4>1. out' = <<Ln("STATS", 0)>>
        BY <1>13, <2>1 DEF Finish
      <4>2. QED
        BY <4>1
    <3>3. QED
      BY <1>13, <3>1, <3>2 DEF Finish
  <2>2. CASE ~(nrequests > 0)
    BY <1>13, <2>2 DEF Finish
  <2>3. QED
    BY <2>1, <2>2
<1>14. CASE Tick
  <2>1. clk' = clk + 1 /\ clk' \in 0..ClkMax
    BY <1>14 DEF Tick
  <2>2. UNCHANGED <<pc, seqno, nrequests, nreplies, elapsed, pollEnd, loss,
                    out, net, extra>>
    BY <1>14 DEF Tick
  <2>3. QED
    BY <2>1, <2>2
<1>15. CASE Network
  <2>1. PICK p \in Packet : Duplicate(p) \/ Inject(p) \/ Lose(p)
    BY <1>15 DEF Network, NetStep
  <2>2. net' \in [Packet -> Nat] /\ extra' \in 0..MaxExtra
    BY <2>1, NetStepType
  <2>3. QED
    BY <1>15, <2>2 DEF Network, engineVars
<1>16. CASE UNCHANGED vars
  BY <1>16 DEF vars, engineVars
<1>17. QED
  BY <1>1, <1>2, <1>3, <1>4, <1>5, <1>6, <1>7, <1>8, <1>18, <1>9, <1>10,
     <1>11, <1>12, <1>13, <1>14, <1>15, <1>16
  DEF Next, Progress, Failure

-----------------------------------------------------------------------------
(* icmpv6_ping() keeps every variable within its type: seqno and the       *)
(* request count stay in 0..Count, and nreplies is a uint16_t.             *)
THEOREM TypeCorrect == Spec => []TypeOK
<1>1. IInv => TypeOK
  BY DEF IInv
<1>2. QED
  BY <1>1, InitIInv, NextIInv, PTL DEF Spec

(* WaitInv, checked by ping6_safety, holds for every Count, Timeout,       *)
(* Delay and network: in particular the loop head, where a request is     *)
(* sent, follows a request only once info->delay has passed.              *)
THEOREM WaitInvHolds == Spec => []WaitInv
<1>1. IInv => WaitInv
  BY DEF IInv
<1>2. QED
  BY <1>1, InitIInv, NextIInv, PTL DEF Spec


-----------------------------------------------------------------------------
(* "No response".  Only PollTimeout prints it; Tick, Network and stutters  *)
(* keep the lines of the last step; every other step prints other lines.   *)
(* NoResponseOut says a "No response" among the last lines was printed     *)
(* late enough; it is needed because Tick and Network keep `out`.          *)

QuietLine == {l \in Line : l.code # "NO_RESPONSE"}

NoResponseOut ==
    \A i \in DOMAIN out : out[i].code = "NO_RESPONSE" => clk >= Timeout

LEMMA QuietLn ==
    ASSUME NEW c \in Lines \ {"NO_RESPONSE"}, NEW s \in 0..Count
    PROVE  Ln(c, s) \in QuietLine
BY DEF Ln, Line, QuietLine

LEMMA ClassifyQuiet ==
    ASSUME NEW p \in Packet
    PROVE  ClassifyLines(p) \in Seq(QuietLine)
<1>1. p.seq \in 0..Count
  BY DEF Packet
<1>2. (IF p.seq < seqno THEN <<Ln("W_LATE", p.seq)>> ELSE << >>) \in Seq(QuietLine)
  BY <1>1, QuietLn DEF Lines
<1>3. (IF p.len = "Short" THEN <<Ln("W_SIZE", p.seq)>>
       ELSE IF p.data = "Bad" THEN <<Ln("W_DATA", p.seq)>>
       ELSE << >>) \in Seq(QuietLine)
  BY <1>1, QuietLn DEF Lines
<1>4. <<Ln("REPLY", p.seq)>> \in Seq(QuietLine)
  BY <1>1, QuietLn DEF Lines
<1>5. QED
  BY <1>1, <1>2, <1>3, <1>4, QuietLn DEF ClassifyLines, Lines

\* Which lines a step prints.
LEMMA OutOfStep ==
    ASSUME IInv, [Next]_vars
    PROVE  \/ PollTimeout
           \/ out' = out /\ clk <= clk'
           \/ out' \in Seq(QuietLine)
<1> USE DEF IInv, TypeOK
<1>1. ASSUME StartOk PROVE out' \in Seq(QuietLine)
  BY <1>1, QuietLn DEF StartOk, Lines
<1>2. ASSUME StartFail PROVE out' \in Seq(QuietLine)
  BY <1>2, QuietLn DEF StartFail, Lines
<1>3. ASSUME SendFail PROVE out' \in Seq(QuietLine)
  BY <1>3, QuietLn DEF SendFail, Lines
<1>4. ASSUME PollFail PROVE out' \in Seq(QuietLine)
  BY <1>4, QuietLn DEF PollFail, Lines
<1>5. ASSUME RecvFail PROVE out' \in Seq(QuietLine)
  BY <1>5, QuietLn DEF RecvFail, Lines
<1>6. ASSUME NEW p \in Packet, RecvShort(p) PROVE out' \in Seq(QuietLine)
  BY <1>6, QuietLn DEF RecvShort, Lines
<1>7. ASSUME NEW p \in Packet, RecvReply(p) PROVE out' \in Seq(QuietLine)
  BY <1>7, ClassifyQuiet DEF RecvReply
<1>8. ASSUME Finish PROVE out' \in Seq(QuietLine)
  <2>1. CASE nrequests > 0
    <3>1. out' = <<Ln("STATS", 0)>>
      BY <1>8, <2>1 DEF Finish
    <3>2. QED
      BY <3>1, QuietLn DEF Lines
  <2>2. CASE ~(nrequests > 0)
    BY <1>8, <2>2 DEF Finish
  <2>3. QED
    BY <2>1, <2>2
<1>9. ASSUME SendRequest \/ LoopEnd \/ PollStart \/ Pace \/ Wake
      PROVE  out' \in Seq(QuietLine)
  <2>1. out' = << >>
    BY <1>9 DEF SendRequest, LoopEnd, PollStart, Pace, Wake
  <2>2. QED
    BY <2>1
<1>10. CASE Tick
  BY <1>10, ClkMaxType DEF Tick
<1>11. CASE Network \/ UNCHANGED vars
  BY <1>11, ClkMaxType DEF Network, vars, engineVars
<1>12. QED
  BY <1>1, <1>2, <1>3, <1>4, <1>5, <1>6, <1>7, <1>8, <1>9, <1>10, <1>11
  DEF Next, Progress, Failure

\* poll() times out no earlier than info->timeout after the send.
LEMMA TimeoutLate ==
    ASSUME IInv, PollTimeout
    PROVE  clk >= Timeout
BY ClkMaxType DEF IInv, TypeOK, WaitInv, PollTimeout, PollExpired

LEMMA NextNoResponseOut ==
    IInv /\ NoResponseOut /\ [Next]_vars => NoResponseOut'
<1> SUFFICES ASSUME IInv, NoResponseOut, [Next]_vars PROVE NoResponseOut'
  OBVIOUS
<1>1. CASE PollTimeout
  BY <1>1, TimeoutLate DEF PollTimeout, NoResponseOut, Ln
<1>2. CASE out' = out /\ clk <= clk'
  <2>1. clk \in Nat /\ clk' \in Nat
    BY NextIInv, ClkMaxType DEF IInv, TypeOK
  <2>2. QED
    BY <1>2, <2>1 DEF NoResponseOut
<1>3. CASE out' \in Seq(QuietLine)
  BY <1>3 DEF NoResponseOut, QuietLine
<1>4. QED
  BY <1>1, <1>2, <1>3, OutOfStep

OInv == IInv /\ NoResponseOut

LEMMA OInvHolds == Spec => []OInv
<1>1. Init => OInv
  BY InitIInv DEF Init, OInv, NoResponseOut
<1>2. OInv /\ [Next]_vars => OInv'
  BY NextIInv, NextNoResponseOut DEF OInv
<1>3. QED
  BY <1>1, <1>2, PTL DEF Spec

(* "No response" is printed only once info->timeout has passed since the   *)
(* request was sent: poll() is given timeout - elapsed, with elapsed reset *)
(* at the send and read again at every recvfrom().                         *)
THEOREM NoEarlyNoResponseHolds == Spec => NoEarlyNoResponse
<1>1. OInv /\ [Next]_vars =>
        [\A i \in DOMAIN out' : out'[i].code = "NO_RESPONSE" => clk >= Timeout]_vars
  <2> SUFFICES ASSUME OInv, [Next]_vars
               PROVE  \A i \in DOMAIN out' :
                          out'[i].code = "NO_RESPONSE" => clk >= Timeout
    OBVIOUS
  <2>1. CASE PollTimeout
    BY <2>1, TimeoutLate DEF OInv
  <2>2. CASE out' = out /\ clk <= clk'
    BY <2>2 DEF OInv, NoResponseOut
  <2>3. CASE out' \in Seq(QuietLine)
    BY <2>3 DEF QuietLine
  <2>4. QED
    BY <2>1, <2>2, <2>3, OutOfStep DEF OInv
<1>2. QED
  BY <1>1, OInvHolds, PTL DEF Spec, NoEarlyNoResponse

=============================================================================
