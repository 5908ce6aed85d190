----------------------------- MODULE PingSession -----------------------------
(***************************************************************************)
(* What a ping session promises its caller, from the specification of the *)
(* echo engine (spec sections 3, 4.1 and 8), with no transport, clock or   *)
(* payload: the session runs INIT -> per-sequence SEND/ROUNDTRIP -> FINISH,*)
(* or fails at set-up with no FINISH; requests-sent never passes `count`;  *)
(* a ROUNDTRIP event is made only for a sequence already sent, and at most *)
(* once per sequence, however many replies arrive for it.                  *)
(*                                                                         *)
(* IcmpPing implements it under the mapping in that module.                *)
(***************************************************************************)
EXTENDS Naturals

CONSTANT Count      \* session.count, the number of sequences

VARIABLES
    phase,  \* "init", "run", "ending" (FINISH due), "done", "failed"
    sent,   \* Stats.requests-sent
    rt      \* rt[s]: ROUNDTRIP events made for sequence s

vars == <<phase, sent, rt>>

Seqs == 0..Count-1

Init ==
    /\ phase = "init"
    /\ sent = 0
    /\ rt = [s \in Seqs |-> 0]

\* Address and socket acquired: BEGIN.
Begin ==
    /\ phase = "init"
    /\ phase' = "run"
    /\ UNCHANGED <<sent, rt>>

\* Address resolution or socket acquisition fails: fatal, no FINISH.
SetupFail ==
    /\ phase = "init"
    /\ phase' = "failed"
    /\ UNCHANGED <<sent, rt>>

\* A request of the next sequence is transmitted and counted.
Send ==
    /\ phase = "run"
    /\ sent < Count
    /\ sent' = sent + 1
    /\ UNCHANGED <<phase, rt>>

\* The first matching reply of a sequence already sent: ROUNDTRIP.
RoundTrip(s) ==
    /\ phase = "run"
    /\ s < sent
    /\ rt[s] = 0
    /\ rt' = [rt EXCEPT ![s] = 1]
    /\ UNCHANGED <<phase, sent>>

\* The last sequence is done, or a fatal transport error aborts the loop.
End ==
    /\ phase = "run"
    /\ phase' = "ending"
    /\ UNCHANGED <<sent, rt>>

\* FINISH with the statistics; the transport is released.
Finish ==
    /\ phase = "ending"
    /\ phase' = "done"
    /\ UNCHANGED <<sent, rt>>

Next ==
    \/ Begin \/ SetupFail \/ Send \/ End \/ Finish
    \/ \E s \in Seqs : RoundTrip(s)

Spec == Init /\ [][Next]_vars

=============================================================================
