-------------------------------- MODULE Ping6 --------------------------------
(***************************************************************************)
(* icmpv6_ping() of apps/system/ping6/ping6.c: the IPv6 echo engine of the *)
(* ping6 command, which prints every outcome itself.                       *)
(*                                                                         *)
(* One session: set-up (address, buffer, socket), then for each request a  *)
(* send, a `do { poll(); recvfrom(); classify } while (retry && delay >    *)
(* elapsed && timeout > elapsed)` wait, and a nanosleep() that keeps the    *)
(* rate at one request per info->delay, then the statistics line.  There   *)
(* is no per-sequence table: every echo that passes the checks is counted. *)
(* As in IcmpPing, clk is the time since the current send (`start`),       *)
(* advanced by Tick and saturated at ClkMax; `out` holds the lines a step  *)
(* prints, tagged with the sequence number they are about.                 *)
(***************************************************************************)
EXTENDS EchoNet, Integers, Sequences

CONSTANTS
    Timeout,    \* info->timeout (-W), milliseconds
    Delay       \* info->delay (-i), milliseconds

\* ping6_main() accepts -i and -W only in 1..INT16_MAX.
ASSUME Ping6Assumption ==
    /\ Timeout \in Nat /\ 1 <= Timeout /\ Timeout <= 32767
    /\ Delay \in Nat /\ 1 <= Delay /\ Delay <= 32767

VARIABLES
    pc,         \* where icmpv6_ping() is
    seqno,      \* ntohs(outhdr.seqno)
    nrequests,  \* info->nrequests (uint16_t)
    nreplies,   \* info->nreplies (uint16_t)
    elapsed,    \* the local `elapsed`, ms since `start`, read after recvfrom()
    pollEnd,    \* clk at which the pending poll() times out
    clk,        \* ms since `start` was taken for the current send
    loss,       \* the `tmp` of the statistics line, as the int it is computed in
    out         \* the lines printed by the last step

engineVars == <<pc, seqno, nrequests, nreplies, elapsed, pollEnd, clk, loss,
                out>>
vars == <<engineVars, netVars>>

ClkMax == IF Timeout >= Delay THEN Timeout + 1 ELSE Delay + 1

\* The lines icmpv6_ping() prints to stdout or stderr.
Lines == {"PING6", "E_GETHOSTIP", "E_MEMORY", "E_SOCKET", "E_SENDTO",
          "E_SENDSIZE", "E_POLL", "E_RECVFROM", "E_SHORT", "NO_RESPONSE",
          "W_ID", "W_SEQ", "W_LATE", "REPLY", "W_SIZE", "W_DATA", "W_TYPE",
          "STATS"}

Line == [code : Lines, seq : 0..Count]
Ln(c, s) == [code |-> c, seq |-> s]

PCs == {"start", "loop", "wait", "poll", "pace", "sleep", "finish",
        "closed", "exit"}

\* uint16_t wrap-around.
U16 == 65536

\* C division of ints truncates toward zero.
CDiv(a, b) == IF a >= 0 THEN a \div b ELSE -((-a) \div b)

(* tmp = (100 * (nrequests - nreplies) + (nrequests >> 1)) / nrequests,   *)
(* computed in int (the uint16_t operands are promoted).  It is stored in  *)
(* an unsigned int and printed with %u, so a negative value v prints as    *)
(* 2^32 + v: the value printed lies in 0..100 exactly when this one does.  *)
LossPct(nreq, nrep) == CDiv(100 * (nreq - nrep) + nreq \div 2, nreq)

TypeOK ==
    /\ pc \in PCs
    /\ seqno \in 0..Count
    /\ nrequests \in 0..Count
    /\ nreplies \in Nat /\ nreplies < U16
    /\ elapsed \in 0..ClkMax
    /\ pollEnd \in Nat
    /\ clk \in 0..ClkMax
    /\ loss \in Int
    /\ out \in Seq(Line)
    /\ NetTypeOK

\* ping6_main() starts with nrequests = nreplies = 0.
Init ==
    /\ pc = "start"
    /\ seqno = 0
    /\ nrequests = 0
    /\ nreplies = 0
    /\ elapsed = 0
    /\ pollEnd = 0
    /\ clk = 0
    /\ loss = 0
    /\ out = <<>>
    /\ NetInit

(* Address, buffer and socket are set up; outhdr gets ping6_newid().       *)
StartOk ==
    /\ pc = "start"
    /\ out' = <<Ln("PING6", 0)>>
    /\ pc' = "loop"
    /\ UNCHANGED <<seqno, nrequests, nreplies, elapsed, pollEnd, clk, loss,
                   netVars>>

(* ping6_gethostip(), malloc() or socket() fails: return at once.          *)
StartFail ==
    /\ pc = "start"
    /\ \E c \in {"E_GETHOSTIP", "E_MEMORY", "E_SOCKET"} : out' = <<Ln(c, 0)>>
    /\ pc' = "exit"
    /\ UNCHANGED <<seqno, nrequests, nreplies, elapsed, pollEnd, clk, loss,
                   netVars>>

\* Mutant of SendRequest: `elapsed = 0` before the wait is lost.
SendRequestStaleElapsed ==
    /\ pc = "loop"
    /\ nrequests < Count
    /\ clk' = 0
    /\ nrequests' = nrequests + 1
    /\ Echo(seqno)
    /\ pc' = "wait"
    /\ out' = <<>>
    /\ UNCHANGED <<seqno, nreplies, elapsed, pollEnd, loss, extra>>

\* Mutant of SendRequest: the loop test is `nrequests <= count`.
SendRequestOffByOne ==
    /\ pc = "loop"
    /\ nrequests <= Count
    /\ clk' = 0
    /\ nrequests' = nrequests + 1
    /\ elapsed' = 0
    /\ Echo(seqno)
    /\ pc' = "wait"
    /\ out' = <<>>
    /\ UNCHANGED <<seqno, nreplies, pollEnd, loss, extra>>

(* Requests left: take `start`, sendto() the whole datagram, count it,    *)
(* elapsed = 0; the host echoes the request.                               *)
SendRequest ==
    /\ pc = "loop"
    /\ nrequests < Count
    /\ clk' = 0
    /\ nrequests' = nrequests + 1
    /\ elapsed' = 0
    /\ Echo(seqno)
    /\ pc' = "wait"
    /\ out' = <<>>
    /\ UNCHANGED <<seqno, nreplies, pollEnd, loss, extra>>

(* sendto() fails or is short: goto done.                                  *)
SendFail ==
    /\ pc = "loop"
    /\ nrequests < Count
    /\ clk' = 0
    /\ \E c \in {"E_SENDTO", "E_SENDSIZE"} : out' = <<Ln(c, seqno)>>
    /\ pc' = "finish"
    /\ UNCHANGED <<seqno, nrequests, nreplies, elapsed, pollEnd, loss, netVars>>

(* Every request sent: leave the loop.                                     *)
LoopEnd ==
    /\ pc = "loop"
    /\ nrequests >= Count
    /\ pc' = "finish"
    /\ out' = <<>>
    /\ UNCHANGED <<seqno, nrequests, nreplies, elapsed, pollEnd, clk, loss,
                   netVars>>

(* Top of the do-body: poll(info->timeout - elapsed).                      *)
PollStart ==
    /\ pc = "wait"
    /\ pollEnd' = clk + (Timeout - elapsed)
    /\ pc' = "poll"
    /\ out' = <<>>
    /\ UNCHANGED <<seqno, nrequests, nreplies, elapsed, clk, loss, netVars>>

\* poll() has timed out: its deadline has passed.
PollExpired == clk >= pollEnd \/ clk = ClkMax

\* Mutant of PollTimeout: a timeout is retried (retry left true), so the
\* loop polls again with the same stale `elapsed`.
PollTimeoutRetry ==
    /\ pc = "poll"
    /\ PollExpired
    /\ out' = <<Ln("NO_RESPONSE", seqno)>>
    /\ pc' = "wait"
    /\ UNCHANGED <<seqno, nrequests, nreplies, elapsed, pollEnd, clk, loss,
                   netVars>>

(* poll() returns 0: "No response", and `continue` tests the loop         *)
(* condition with retry false, which ends the wait.                        *)
PollTimeout ==
    /\ pc = "poll"
    /\ PollExpired
    /\ out' = <<Ln("NO_RESPONSE", seqno)>>
    /\ pc' = "pace"
    /\ UNCHANGED <<seqno, nrequests, nreplies, elapsed, pollEnd, clk, loss,
                   netVars>>

(* poll() fails: goto done.                                                *)
PollFail ==
    /\ pc = "poll"
    /\ out' = <<Ln("E_POLL", seqno)>>
    /\ pc' = "finish"
    /\ UNCHANGED <<seqno, nrequests, nreplies, elapsed, pollEnd, clk, loss,
                   netVars>>

(* recvfrom() fails: goto done.                                            *)
RecvFail ==
    /\ pc = "poll"
    /\ out' = <<Ln("E_RECVFROM", seqno)>>
    /\ pc' = "finish"
    /\ UNCHANGED <<seqno, nrequests, nreplies, elapsed, pollEnd, clk, loss,
                   netVars>>

(* recvfrom() returns less than an ICMPv6 header: goto done.               *)
RecvShort(p) ==
    /\ pc = "poll"
    /\ Ready(p)
    /\ p.len = "Runt"
    /\ Consume(p)
    /\ out' = <<Ln("E_SHORT", seqno)>>
    /\ pc' = "finish"
    /\ UNCHANGED <<seqno, nrequests, nreplies, elapsed, pollEnd, clk, loss,
                   extra>>

\* The datagram is an echo reply to this session with a sequence number
\* already sent: it is printed, checked and maybe counted.
Accepted(p) ==
    /\ p.type = "EchoReply"
    /\ p.id = "Mine"
    /\ p.seq <= seqno

\* `retry` as the classification leaves it.
Retry(p) ==
    /\ p.type = "EchoReply"
    /\ (p.id = "Foreign" \/ p.seq /= seqno)

\* The lines the classification prints for a datagram.
ClassifyLines(p) ==
    IF p.type /= "EchoReply" THEN <<Ln("W_TYPE", p.seq)>>
    ELSE IF p.id = "Foreign" THEN <<Ln("W_ID", p.seq)>>
    ELSE IF p.seq > seqno THEN <<Ln("W_SEQ", p.seq)>>
    ELSE (IF p.seq < seqno THEN <<Ln("W_LATE", p.seq)>> ELSE <<>>)
         \o <<Ln("REPLY", p.seq)>>
         \o (IF p.len = "Short" THEN <<Ln("W_SIZE", p.seq)>>
             ELSE IF p.data = "Bad" THEN <<Ln("W_DATA", p.seq)>>
             ELSE <<>>)

\* The payload passes the size check (a Long datagram is truncated by
\* recvfrom() to outsize bytes) and the 0x20..0x7e pattern check.
Verified(p) == p.len \in {"Exact", "Long"} /\ p.data = "Good"

(* recvfrom() returns a datagram with a header: elapsed is read, the       *)
(* datagram classified, a verified reply counted, and the do/while         *)
(* condition decides whether to poll again.                                *)
RecvReply(p) ==
    /\ pc = "poll"
    /\ Ready(p)
    /\ p.len /= "Runt"
    /\ Consume(p)
    /\ elapsed' = clk
    /\ out' = ClassifyLines(p)
    /\ nreplies' = IF Accepted(p) /\ Verified(p)
                   THEN (nreplies + 1) % U16 ELSE nreplies
    /\ pc' = IF Retry(p) /\ Delay > clk /\ Timeout > clk
             THEN "wait" ELSE "pace"
    /\ UNCHANGED <<seqno, nrequests, pollEnd, clk, loss, extra>>

\* Mutant of Pace: the nanosleep() is left out.
PaceNoSleep ==
    /\ pc = "pace"
    /\ elapsed' = clk
    /\ seqno' = seqno + 1
    /\ pc' = "loop"
    /\ out' = <<>>
    /\ UNCHANGED <<nrequests, nreplies, pollEnd, clk, loss, netVars>>

(* After the wait: elapsed is read again; below info->delay the engine     *)
(* nanosleep()s for the rest, otherwise it moves to the next seqno.        *)
Pace ==
    /\ pc = "pace"
    /\ elapsed' = clk
    /\ IF clk < Delay
       THEN pc' = "sleep" /\ UNCHANGED seqno
       ELSE pc' = "loop" /\ seqno' = seqno + 1
    /\ out' = <<>>
    /\ UNCHANGED <<nrequests, nreplies, pollEnd, clk, loss, netVars>>

(* nanosleep(delay - elapsed) returns: next seqno.                         *)
Wake ==
    /\ pc = "sleep"
    /\ clk >= Delay
    /\ seqno' = seqno + 1
    /\ pc' = "loop"
    /\ out' = <<>>
    /\ UNCHANGED <<nrequests, nreplies, elapsed, pollEnd, clk, loss, netVars>>

(* done: with a request sent, the loss percentage is printed; then the     *)
(* socket and the buffer are released.                                     *)
Finish ==
    /\ pc = "finish"
    /\ IF nrequests > 0
       THEN /\ loss' = LossPct(nrequests, nreplies)
            /\ out' = <<Ln("STATS", 0)>>
       ELSE UNCHANGED loss /\ out' = <<>>
    /\ pc' = "closed"
    /\ UNCHANGED <<seqno, nrequests, nreplies, elapsed, pollEnd, clk, netVars>>

\* The socket is open and clock() matters.
Active == pc \in {"loop", "wait", "poll", "pace", "sleep", "finish"}

(* One millisecond passes.                                                 *)
Tick ==
    /\ Active
    /\ clk < ClkMax
    /\ clk' = clk + 1
    /\ UNCHANGED <<pc, seqno, nrequests, nreplies, elapsed, pollEnd, loss,
                   out, netVars>>

(* The network acts on the open socket.                                    *)
Network ==
    /\ Active
    /\ NetStep
    /\ UNCHANGED engineVars

\* The steps the engine is sure to take when they are enabled.
Progress ==
    \/ StartOk
    \/ SendRequest \/ LoopEnd
    \/ PollStart \/ PollTimeout
    \/ \E p \in Packet : RecvReply(p)
    \/ Pace \/ Wake
    \/ Finish

\* The steps that happen only if the system fails.
Failure ==
    \/ StartFail \/ SendFail \/ PollFail \/ RecvFail
    \/ \E p \in Packet : RecvShort(p)

Next == Progress \/ Failure \/ Tick \/ Network

Spec == Init /\ [][Next]_vars

(* One engine thread, poll() and nanosleep() return once their time has    *)
(* passed, and the clock keeps ticking.                                    *)
FairSpec == Spec /\ WF_vars(Progress) /\ WF_vars(Tick)

-----------------------------------------------------------------------------
(* Properties.                                                             *)

(* The request rate and the bookkeeping behind the timeouts: while a     *)
(* request is outstanding the outhdr seqno is the last one sent; in the    *)
(* wait `elapsed` is a past reading of the clock, so a pending poll() ends *)
(* no earlier than info->timeout after the send; and the loop head, where  *)
(* the next request is sent, is reached after a request only once          *)
(* info->delay has passed, whatever ended the wait (the nanosleep() of     *)
(* line 408).  It is inductive together with TypeOK (Ping6Proofs).         *)
WaitInv ==
    /\ pc = "start" => nrequests = 0
    /\ pc \in {"start", "loop"} => nrequests = seqno
    /\ pc \in {"wait", "poll", "pace", "sleep"} => nrequests = seqno + 1
    /\ pc \in {"wait", "poll"} => elapsed <= clk
    /\ pc = "poll" => pollEnd >= Timeout
    /\ pc = "loop" /\ nrequests > 0 => clk >= Delay

(* poll() is given timeout - elapsed with `elapsed` reset at the send and  *)
(* read at each recvfrom(): "No response" is printed only once the whole   *)
(* info->timeout has passed since the request was sent.                    *)
NoEarlyNoResponse ==
    [][\A i \in DOMAIN out' : out'[i].code = "NO_RESPONSE" => clk >= Timeout]_vars

(* The do/while ends on a poll() timeout, a reply, or once elapsed reaches *)
(* delay or timeout: every started ping6 session prints its statistics     *)
(* and returns.                                                            *)
Termination == <>(pc \in {"closed", "exit"})

(* Spec section 4.1 step 5: a datagram of another ICMP type is warned     *)
(* about and the engine keeps waiting.  The wait for a request ends only  *)
(* with its reply, or once info->timeout has passed.                       *)
WaitEndsOnReplyOrTimeout ==
    [][(pc = "poll" /\ pc' = "pace") =>
         \/ \E i \in DOMAIN out' : out'[i] = Ln("REPLY", seqno)
         \/ clk >= Timeout]_vars

(* Spec section 4.1: the loss percentage printed is a percentage,         *)
(* round(100 * lost / sent), in 0..100.                                    *)
LossInRange == (pc = "closed" /\ nrequests > 0) => loss \in 0..100

=============================================================================
