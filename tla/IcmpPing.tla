------------------------------- MODULE IcmpPing ------------------------------
(***************************************************************************)
(* icmp_ping() of apps/netutils/ping/icmp_ping.c: the IPv4 echo engine     *)
(* that reports every outcome through the caller's callback.               *)
(*                                                                         *)
(* One session: set-up (address, buffers, socket), then for each sequence  *)
(* number a send and a wait loop `while (timeout >= elapsed)` around       *)
(* poll()/recvfrom() that classifies each datagram, then the FINISH        *)
(* callback.  The array maps[] of struct rcvdmap_s becomes marker[] (its   *)
(* send clocks are folded into clk, the time since the current send).      *)
(* Time advances by Tick, interleaved with every engine step; clk          *)
(* saturates at ClkMax, which is beyond every bound the code compares it   *)
(* with.  `out` is the list of callbacks a step makes and nrtt the number  *)
(* of ROUNDTRIP callbacks per sequence number seen by the event sink.      *)
(***************************************************************************)
EXTENDS EchoNet, Sequences

CONSTANTS
    Timeout,    \* info->timeout, milliseconds
    Delay       \* info->delay, milliseconds

ASSUME PingAssumption ==
    /\ Timeout \in Nat
    /\ Delay \in Nat

VARIABLES
    pc,         \* where icmp_ping() is
    seqno,      \* result.seqno, the sequence number being sent or waited for
    nrequests,  \* result.nrequests
    nreplies,   \* result.nreplies
    marker,     \* maps[s].marker
    timeout,    \* the local `timeout`: info->timeout, then info->delay
    elapsed,    \* the local `elapsed`, ms since the send, read after poll()
    pollEnd,    \* clk at which the pending poll() times out
    clk,        \* ms since maps[seqno].clock was taken for the current send
    out,        \* the callbacks made by the last step
    nrtt        \* nrtt[s]: ROUNDTRIP callbacks made for sequence s

engineVars == <<pc, seqno, nrequests, nreplies, marker, timeout, elapsed,
                pollEnd, clk, out, nrtt>>
vars == <<engineVars, netVars>>

Seqs == 0..Count-1

\* clk is only ever compared with Timeout, Delay and values below them.
ClkMax == IF Timeout >= Delay THEN Timeout + 1 ELSE Delay + 1

Codes == {"I_BEGIN", "I_ROUNDTRIP", "I_PKTDUP", "I_FINISH",
          "W_TIMEOUT", "W_IDDIFF", "W_SEQNOBIG", "W_SEQNOSMALL",
          "W_RECVBIG", "W_DATADIFF", "W_TYPE",
          "E_HOSTIP", "E_MEMORY", "E_SOCKET", "E_SENDTO", "E_SENDSMALL",
          "E_POLL", "E_RECVFROM", "E_RECVSMALL"}

\* icmp_callback(&result or &reply, code, extra), with the seqno it carries.
Event == [code : Codes, seq : 0..Count]
Ev(c, s) == [code |-> c, seq |-> s]

PCs == {"start", "loop", "wait", "poll", "finish", "closed", "exit"}

TypeOK ==
    /\ pc \in PCs
    /\ seqno \in 0..Count
    /\ nrequests \in 0..Count
    /\ nreplies \in Nat
    /\ marker \in [Seqs -> BOOLEAN]
    /\ timeout \in {Timeout, Delay}
    /\ elapsed \in 0..ClkMax
    /\ pollEnd \in Nat
    /\ clk \in 0..ClkMax
    /\ out \in Seq(Event)
    /\ nrtt \in [Seqs -> Nat]
    /\ NetTypeOK

\* maps[] comes from malloc(): its markers hold whatever the heap held.
Init ==
    /\ pc = "start"
    /\ seqno = 0
    /\ nrequests = 0
    /\ nreplies = 0
    /\ marker \in [Seqs -> BOOLEAN]
    /\ timeout = Timeout
    /\ elapsed = 0
    /\ pollEnd = 0
    /\ clk = 0
    /\ out = <<>>
    /\ nrtt = [s \in Seqs |-> 0]
    /\ NetInit

-----------------------------------------------------------------------------
(* Set-up: ping_gethostip(), the two malloc()s and socket() succeed, and   *)
(* the BEGIN callback is made.                                             *)
StartOk ==
    /\ pc = "start"
    /\ pc' = "loop"
    /\ out' = <<Ev("I_BEGIN", 0)>>
    /\ UNCHANGED <<seqno, nrequests, nreplies, marker, timeout, elapsed,
                   pollEnd, clk, nrtt, netVars>>

(* Set-up fails: an error callback and a return without FINISH.            *)
StartFail ==
    /\ pc = "start"
    /\ \E c \in {"E_HOSTIP", "E_MEMORY", "E_SOCKET"} : out' = <<Ev(c, 0)>>
    /\ pc' = "exit"
    /\ UNCHANGED <<seqno, nrequests, nreplies, marker, timeout, elapsed,
                   pollEnd, clk, nrtt, netVars>>

\* Mutant of SendRequest: `elapsed` is not reset for the new request.
SendRequestStaleElapsed ==
    /\ pc = "loop"
    /\ nrequests < Count
    /\ marker' = [marker EXCEPT ![seqno] = FALSE]
    /\ clk' = 0
    /\ nrequests' = nrequests + 1
    /\ timeout' = Timeout
    /\ Echo(seqno)
    /\ pc' = "wait"
    /\ out' = <<>>
    /\ UNCHANGED <<seqno, nreplies, elapsed, pollEnd, nrtt, extra>>

\* Mutant of SendRequest: the marker of the new request is not reset.
SendRequestNoMarkerReset ==
    /\ pc = "loop"
    /\ nrequests < Count
    /\ clk' = 0
    /\ nrequests' = nrequests + 1
    /\ elapsed' = 0
    /\ timeout' = Timeout
    /\ Echo(seqno)
    /\ pc' = "wait"
    /\ out' = <<>>
    /\ UNCHANGED <<seqno, nreplies, marker, pollEnd, nrtt, extra>>

\* Mutant of SendRequest: the loop bound is `seqno <= info->count`.
SendRequestOffByOne ==
    /\ pc = "loop"
    /\ nrequests <= Count
    /\ marker' = [marker EXCEPT ![seqno] = FALSE]
    /\ clk' = 0
    /\ nrequests' = nrequests + 1
    /\ elapsed' = 0
    /\ timeout' = Timeout
    /\ Echo(seqno)
    /\ pc' = "wait"
    /\ out' = <<>>
    /\ UNCHANGED <<seqno, nreplies, pollEnd, nrtt, extra>>

(* Loop head with requests left: build the request, take the send clock,   *)
(* clear the marker, sendto() the whole datagram; the host echoes it.      *)
SendRequest ==
    /\ pc = "loop"
    /\ nrequests < Count
    /\ marker' = [marker EXCEPT ![seqno] = FALSE]
    /\ clk' = 0
    /\ nrequests' = nrequests + 1
    /\ elapsed' = 0
    /\ timeout' = Timeout
    /\ Echo(seqno)
    /\ pc' = "wait"
    /\ out' = <<>>
    /\ UNCHANGED <<seqno, nreplies, pollEnd, nrtt, extra>>

(* sendto() fails or sends a short datagram: fatal, goto done.             *)
SendFail ==
    /\ pc = "loop"
    /\ nrequests < Count
    /\ marker' = [marker EXCEPT ![seqno] = FALSE]
    /\ clk' = 0
    /\ \E c \in {"E_SENDTO", "E_SENDSMALL"} : out' = <<Ev(c, seqno)>>
    /\ pc' = "finish"
    /\ UNCHANGED <<seqno, nrequests, nreplies, timeout, elapsed, pollEnd,
                   nrtt, netVars>>

(* Loop head with every request sent: leave the loop.                      *)
LoopEnd ==
    /\ pc = "loop"
    /\ nrequests >= Count
    /\ pc' = "finish"
    /\ out' = <<>>
    /\ UNCHANGED <<seqno, nrequests, nreplies, marker, timeout, elapsed,
                   pollEnd, clk, nrtt, netVars>>

(* `while (timeout >= elapsed)` holds: poll(timeout - elapsed).            *)
PollStart ==
    /\ pc = "wait"
    /\ timeout >= elapsed
    /\ pollEnd' = clk + (timeout - elapsed)
    /\ pc' = "poll"
    /\ out' = <<>>
    /\ UNCHANGED <<seqno, nrequests, nreplies, marker, timeout, elapsed,
                   clk, nrtt, netVars>>

(* The wait loop ends: next sequence number.                               *)
WaitEnd ==
    /\ pc = "wait"
    /\ timeout < elapsed
    /\ seqno' = seqno + 1
    /\ pc' = "loop"
    /\ out' = <<>>
    /\ UNCHANGED <<nrequests, nreplies, marker, timeout, elapsed, pollEnd,
                   clk, nrtt, netVars>>

\* poll() has timed out: its deadline has passed.
PollExpired == clk >= pollEnd \/ clk = ClkMax

(* poll() returns 0 and this sequence already had its reply: break.        *)
PollTimeoutMatched ==
    /\ pc = "poll"
    /\ PollExpired
    /\ elapsed' = clk
    /\ marker[seqno]
    /\ seqno' = seqno + 1
    /\ pc' = "loop"
    /\ out' = <<>>
    /\ UNCHANGED <<nrequests, nreplies, marker, timeout, pollEnd, clk, nrtt,
                   netVars>>

\* Mutant of PollTimeoutWarn: the marker test before the TIMEOUT is lost.
PollTimeoutWarnUnguarded ==
    /\ pc = "poll"
    /\ PollExpired
    /\ elapsed' = clk
    /\ out' = <<Ev("W_TIMEOUT", seqno)>>
    /\ pc' = "wait"
    /\ UNCHANGED <<seqno, nrequests, nreplies, marker, timeout, pollEnd,
                   clk, nrtt, netVars>>

\* Mutant of PollTimeoutWarn: `elapsed` is not read again after poll().
PollTimeoutWarnStale ==
    /\ pc = "poll"
    /\ PollExpired
    /\ ~marker[seqno]
    /\ out' = <<Ev("W_TIMEOUT", seqno)>>
    /\ pc' = "wait"
    /\ UNCHANGED <<seqno, nrequests, nreplies, marker, timeout, elapsed,
                   pollEnd, clk, nrtt, netVars>>

(* poll() returns 0 and no reply yet: TIMEOUT callback, continue.          *)
PollTimeoutWarn ==
    /\ pc = "poll"
    /\ PollExpired
    /\ elapsed' = clk
    /\ ~marker[seqno]
    /\ out' = <<Ev("W_TIMEOUT", seqno)>>
    /\ pc' = "wait"
    /\ UNCHANGED <<seqno, nrequests, nreplies, marker, timeout, pollEnd,
                   clk, nrtt, netVars>>

(* poll() fails: fatal.                                                    *)
PollFail ==
    /\ pc = "poll"
    /\ elapsed' = clk
    /\ out' = <<Ev("E_POLL", seqno)>>
    /\ pc' = "finish"
    /\ UNCHANGED <<seqno, nrequests, nreplies, marker, timeout, pollEnd,
                   clk, nrtt, netVars>>

(* Data is ready but recvfrom() fails: fatal.                              *)
RecvFail ==
    /\ pc = "poll"
    /\ \E p \in Packet : Ready(p)
    /\ elapsed' = clk
    /\ out' = <<Ev("E_RECVFROM", seqno)>>
    /\ pc' = "finish"
    /\ UNCHANGED <<seqno, nrequests, nreplies, marker, timeout, pollEnd,
                   clk, nrtt, netVars>>

(* recvfrom() returns less than an ICMP header: fatal.                     *)
RecvSmall(p) ==
    /\ pc = "poll"
    /\ Ready(p)
    /\ p.len = "Runt"
    /\ elapsed' = clk
    /\ Consume(p)
    /\ out' = <<Ev("E_RECVSMALL", seqno)>>
    /\ pc' = "finish"
    /\ UNCHANGED <<seqno, nrequests, nreplies, marker, timeout, pollEnd,
                   clk, nrtt, extra>>

\* The datagram is not an echo reply of this session to a request sent.
\* Mutant of Foreign: the sequence test is `seqno > result.seqno + 1`.
ForeignSeqOffByOne(p) ==
    p.type # "EchoReply" \/ p.id # "Mine" \/ p.seq > seqno + 1

Foreign(p) == p.type # "EchoReply" \/ p.id # "Mine" \/ p.seq > seqno

ForeignCode(p) ==
    IF p.type # "EchoReply" THEN "W_TYPE"
    ELSE IF p.id # "Mine" THEN "W_IDDIFF"
    ELSE "W_SEQNOBIG"

(* A foreign datagram: one warning, back to the wait loop.                 *)
RecvForeign(p) ==
    /\ pc = "poll"
    /\ Ready(p)
    /\ p.len # "Runt"
    /\ Foreign(p)
    /\ elapsed' = clk
    /\ Consume(p)
    /\ out' = <<Ev(ForeignCode(p), p.seq)>>
    /\ pc' = "wait"
    /\ UNCHANGED <<seqno, nrequests, nreplies, marker, timeout, pollEnd,
                   clk, nrtt, extra>>

\* The callbacks of the three branches on maps[seq].marker and seq.
MatchEvents(p) ==
    IF marker[p.seq] THEN <<Ev("I_PKTDUP", p.seq)>>
    ELSE IF p.seq < seqno
         THEN <<Ev("W_SEQNOSMALL", p.seq), Ev("I_ROUNDTRIP", p.seq)>>
    ELSE <<Ev("I_ROUNDTRIP", seqno)>>

\* The payload check: recvfrom() truncates a longer datagram to outsize.
Verified(p) == p.len \in {"Exact", "Long"} /\ p.data = "Good"

VerifyEvents(p) ==
    IF p.len = "Short" THEN <<Ev("W_RECVBIG", seqno)>>
    ELSE IF p.data = "Bad" THEN <<Ev("W_DATADIFF", seqno)>>
    ELSE <<>>

\* Mutant of RecvReply: the duplicate test reads maps[result.seqno]
\* instead of the marker of the reply's own sequence number.
RecvReplyWrongMarker(p) ==
    /\ pc = "poll"
    /\ Ready(p)
    /\ p.len # "Runt"
    /\ ~Foreign(p)
    /\ elapsed' = clk
    /\ Consume(p)
    /\ timeout' = IF ~marker[seqno] /\ p.seq = seqno THEN Delay ELSE timeout
    /\ nrtt' = IF marker[seqno] THEN nrtt
               ELSE [nrtt EXCEPT ![p.seq] = @ + 1]
    /\ marker' = [marker EXCEPT ![p.seq] = TRUE]
    /\ out' = IF marker[seqno] THEN <<Ev("I_PKTDUP", p.seq)>>
              ELSE <<Ev("I_ROUNDTRIP", p.seq)>>
    /\ nreplies' = IF Verified(p) THEN nreplies + 1 ELSE nreplies
    /\ pc' = "wait"
    /\ UNCHANGED <<seqno, nrequests, pollEnd, clk, extra>>

(* An echo reply of this session to a request already sent: PKTDUP, or a  *)
(* late ROUNDTRIP, or the expected ROUNDTRIP that cuts the wait to the    *)
(* delay; then the marker is set, the payload verified and a verified      *)
(* reply counted.                                                          *)
RecvReply(p) ==
    /\ pc = "poll"
    /\ Ready(p)
    /\ p.len # "Runt"
    /\ ~Foreign(p)
    /\ elapsed' = clk
    /\ Consume(p)
    /\ timeout' = IF ~marker[p.seq] /\ p.seq = seqno THEN Delay ELSE timeout
    /\ nrtt' = IF marker[p.seq] THEN nrtt
               ELSE [nrtt EXCEPT ![p.seq] = @ + 1]
    /\ marker' = [marker EXCEPT ![p.seq] = TRUE]
    /\ out' = MatchEvents(p) \o VerifyEvents(p)
    /\ nreplies' = IF Verified(p) THEN nreplies + 1 ELSE nreplies
    /\ pc' = "wait"
    /\ UNCHANGED <<seqno, nrequests, pollEnd, clk, extra>>

(* done: FINISH callback, close the socket, free the buffers.              *)
Finish ==
    /\ pc = "finish"
    /\ out' = <<Ev("I_FINISH", seqno)>>
    /\ pc' = "closed"
    /\ UNCHANGED <<seqno, nrequests, nreplies, marker, timeout, elapsed,
                   pollEnd, clk, nrtt, netVars>>

-----------------------------------------------------------------------------
\* The socket is open: datagrams reach it and time matters.
Active == pc \in {"loop", "wait", "poll", "finish"}

(* One millisecond passes.                                                 *)
Tick ==
    /\ Active
    /\ clk < ClkMax
    /\ clk' = clk + 1
    /\ UNCHANGED <<pc, seqno, nrequests, nreplies, marker, timeout, elapsed,
                   pollEnd, out, nrtt, netVars>>

(* The network acts on the open socket.                                    *)
Network ==
    /\ Active
    /\ NetStep
    /\ UNCHANGED engineVars

\* The steps the engine is sure to take when they are enabled.
Progress ==
    \/ StartOk
    \/ SendRequest \/ LoopEnd
    \/ PollStart \/ WaitEnd
    \/ PollTimeoutMatched \/ PollTimeoutWarn
    \/ \E p \in Packet : RecvSmall(p) \/ RecvForeign(p) \/ RecvReply(p)
    \/ Finish

\* The steps that happen only if the system fails.
Failure == StartFail \/ SendFail \/ PollFail \/ RecvFail

Next == Progress \/ Failure \/ Tick \/ Network

Spec == Init /\ [][Next]_vars

(* The engine thread keeps running, poll() returns once its timeout has   *)
(* passed or data is there, and the clock keeps ticking.                   *)
FairSpec == Spec /\ WF_vars(Progress) /\ WF_vars(Tick)

-----------------------------------------------------------------------------
(* Properties.                                                             *)

(* The bookkeeping behind the ROUNDTRIP callbacks: a sequence number gets *)
(* at most one, only once it was sent, and after it the marker of that     *)
(* sequence stays set; while the engine waits, result.seqno is the last    *)
(* request sent.  Duplicated echoes, late echoes of an earlier request and *)
(* the expected echo all go through the marker.  It is inductive, so it    *)
(* holds for every Count, Timeout and Delay (IcmpPingProofs).              *)
RoundTripInv ==
    /\ \A s \in Seqs : nrtt[s] <= 1
    /\ \A s \in Seqs : nrtt[s] = 1 => marker[s]
    /\ \A s \in Seqs : s >= nrequests => nrtt[s] = 0
    /\ pc \in {"start", "loop"} => nrequests = seqno
    /\ pc \in {"wait", "poll"} => nrequests = seqno + 1

(* The converse for the requests sent: a marker set on a sent sequence     *)
(* means its ROUNDTRIP callback was made.  maps[] comes from malloc() and  *)
(* its markers hold heap garbage; only the reset before each sendto()     *)
(* (line 266) keeps a stale marker from turning the first echo of a        *)
(* request into a PKTDUP with no round trip.                               *)
MarkerMeansRoundTrip ==
    \A s \in Seqs : s < nrequests /\ marker[s] => nrtt[s] = 1

(* The timeout branch of the wait loop breaks out when the current         *)
(* sequence has been matched: no TIMEOUT callback is ever made for a       *)
(* sequence number that already had its ROUNDTRIP callback.                *)
NoTimeoutAfterRoundTrip ==
    [][\A i \in DOMAIN out' :
          out'[i].code = "W_TIMEOUT" => nrtt[out'[i].seq] = 0]_vars

(* The clock bookkeeping NoEarlyTimeout rests on: in the wait loop        *)
(* `elapsed` is a past reading of the clock since the send, the pending    *)
(* poll() ends no earlier than the current timeout, and the timeout is     *)
(* still info->timeout while the sequence waited for has no reply.  A      *)
(* stale `elapsed` or a poll() given more than the remaining budget        *)
(* breaks it.                                                              *)
TimeoutInv ==
    /\ pc \in {"wait", "poll"} => elapsed <= clk
    /\ pc = "poll" => pollEnd >= timeout
    /\ pc \in {"wait", "poll"} /\ ~marker[seqno] => timeout = Timeout

(* poll() is given timeout - elapsed, with `elapsed` read after the last   *)
(* poll() returned: a TIMEOUT callback is made only once the whole         *)
(* info->timeout has passed since the request was sent.                    *)
NoEarlyTimeout ==
    [][\A i \in DOMAIN out' : out'[i].code = "W_TIMEOUT" => clk >= Timeout]_vars

(* The wait loop ends only because `elapsed` is read again after each      *)
(* poll() and time passes: every session that is started returns.          *)
Termination == <>(pc \in {"closed", "exit"})

(* Spec section 8: a session never counts more verified replies than it    *)
(* sent requests (duplicates never increment verified-replies).            *)
VerifiedLeRequests == nreplies <= nrequests

(* Spec section 4.1, step 6: after the wait for a sequence ends, the       *)
(* engine blocks until info->delay has passed since that send, so two      *)
(* requests are never sent less than Delay apart.                          *)
PacedSends ==
    [][(nrequests' = nrequests + 1 /\ nrequests > 0) => clk >= Delay]_vars


-----------------------------------------------------------------------------
(* Refinement of the session's promise.                                    *)

\* Where icmp_ping() is, in the terms of the session's phases: the wait
\* loop is "run", the `done:` label "ending", the return after FINISH
\* "done" and the early returns of set-up "failed".
SessionPhase ==
    IF pc = "start" THEN "init"
    ELSE IF pc \in {"loop", "wait", "poll"} THEN "run"
    ELSE IF pc = "finish" THEN "ending"
    ELSE IF pc = "closed" THEN "done"
    ELSE "failed"

Session == INSTANCE PingSession WITH
    phase <- SessionPhase, sent <- nrequests, rt <- nrtt

(* icmp_ping() implements the session of the specification: result.       *)
(* nrequests counts one request per step up to info->count, a ROUNDTRIP    *)
(* callback goes only to a sequence number already sent and never twice   *)
(* to one, whatever the network injects or repeats, and FINISH follows     *)
(* every start that got past set-up.  A send failure, a timeout or a       *)
(* foreign datagram is a stutter of the session.                           *)
ImplementsPingSession == Session!Spec

=============================================================================
