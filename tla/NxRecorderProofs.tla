---------------------------- MODULE NxRecorderProofs ----------------------------
(***************************************************************************)
(* Proofs about the nxrecorder shell for every console input and every    *)
(* buffer size: the type invariant, and that the recorder is never        *)
(* released while it records (StoppedOnRelease).                          *)
(*                                                                         *)
(* StoppedOnRelease rests on QuitInv: once the loop has been told to stop *)
(* the recorder is idle.  QuitInv is not inductive alone: a handler run   *)
(* with `running` clear could start a recording.  Dispatching says that   *)
(* cannot happen.                                                          *)
(* TypeOK /\ QuitInv is not enough for StoppedOnRelease: the handlers that *)
(* keep rec would repeat rec' = "released" from a released recorder.  The  *)
(* strengthening says a released recorder belongs to a returned program,   *)
(* where no action is enabled.                                             *)
(***************************************************************************)
EXTENDS NxRecorder, TLAPS

USE NxRecorderAssumption

\* Once the quit handler has cleared `running`, the recorder is idle: it
\* stops the recording before it clears the flag.
QuitInv == pc \in {"loop", "cmd"} /\ ~running => rec = "idle"

\* nxrecorder_release() is the last thing nxrecorder_main() does.
ReleasedLast == rec = "released" => pc = "returned"

\* A handler runs only for a line read while `running` was set.
Dispatching == pc = "cmd" => running

IInv == TypeOK /\ QuitInv /\ ReleasedLast /\ Dispatching

LEMMA InitIInv == Init => IInv
<1> SUFFICES ASSUME Init PROVE IInv
  OBVIOUS
<1>1. input \in Seq(Line)
  BY DEF Init
<1>2. Len(input) \in Nat
  BY <1>1
<1>3. [cmd |-> "blank", words |-> 0] \in Line
  BY DEF Line
<1>4. pos \in 1..Len(input)+1
  BY <1>2 DEF Init
<1>5. cur \in Line
  BY <1>3 DEF Init
<1>6. stores = {} /\ uninit = {}
  BY DEF Init
<1>7. QED
  BY <1>1, <1>4, <1>5, <1>6 DEF Init, IInv, TypeOK, QuitInv, ReleasedLast,
                                Dispatching

(* Each step keeps IInv: one step per action of Next.                      *)
LEMMA NextIInv == IInv /\ [Next]_vars => IInv'
<1> SUFFICES ASSUME TypeOK, QuitInv, ReleasedLast, Dispatching, [Next]_vars
             PROVE  TypeOK' /\ QuitInv' /\ ReleasedLast' /\ Dispatching'
  BY DEF IInv
<1> USE DEF TypeOK, QuitInv, ReleasedLast, Dispatching
<1>1. CASE Create
  BY <1>1 DEF Create
<1>2. CASE ReadLine
  <2>1. CASE pos > Len(input)
    BY <1>2, <2>1 DEF ReadLine, EOF
  <2>2. CASE ~(pos > Len(input))
    <3>1. pos \in 1..Len(input) /\ input[pos] \in Line
      BY <2>2
    <3>2. QED
      BY <1>2, <2>2, <3>1 DEF ReadLine
  <2>3. QED
    BY <2>1, <2>2
<1>3. CASE Release
  BY <1>3 DEF Release
<1>4. CASE CmdDevice \/ CmdHelp \/ CmdPause \/ CmdResume \/ CmdStop \/ Unknown
  BY <1>4 DEF CmdDevice, CmdHelp, CmdPause, CmdResume, CmdStop, Unknown,
              Handler
<1>5. CASE CmdMw
  <2>1. MwArgc(cur.words) \in 1..4
    BY DEF MwArgc, Line
  <2>2. {<<"argv", k>> : k \in 1..MwArgc(cur.words)-1}
          \subseteq {"argv"} \X (0..3)
    BY <2>1
  <2>3. MemParseUnset(MwArgc(cur.words)) \subseteq {"argv[1]", "filename"}
    BY DEF MemParseUnset
  <2>4. stores' \subseteq ({"buffer"} \X (-1..BufLen)) \cup ({"argv"} \X (0..3))
    BY <1>5, <2>2 DEF CmdMw
  <2>5. uninit' \subseteq {"argv[1]", "filename"}
    BY <1>5, <2>3 DEF CmdMw
  <2>6. QED
    BY <1>5, <2>4, <2>5 DEF CmdMw, Handler
<1>6. CASE CmdRecordraw
  \* At the handler the recorder is not released, so the library leaves
  \* it in one of idle, recording, paused.
  <2>1. rec \in {"none", "idle", "recording", "paused"}
    BY <1>6 DEF CmdRecordraw, Handler
  <2>2. rec' \in {"none", "idle", "recording", "paused"}
    BY <1>6, <2>1 DEF CmdRecordraw
  <2>3. uninit' \subseteq {"argv[1]", "filename"}
    BY <1>6 DEF CmdRecordraw
  <2>4. TypeOK'
    <3>1. /\ pc' = "loop" /\ input' = input /\ pos' = pos /\ cur' = cur
          /\ running' = running /\ device' = device /\ stores' = stores
      BY <1>6 DEF CmdRecordraw, Handler
    <3>2. QED
      BY <2>2, <2>3, <3>1
  <2>5. QuitInv' /\ ReleasedLast' /\ Dispatching'
    BY <1>6, <2>2 DEF CmdRecordraw, Handler
  <2>6. QED
    BY <2>4, <2>5
<1>7. CASE CmdQuit
  BY <1>7 DEF CmdQuit
<1>8. CASE UNCHANGED vars
  BY <1>8 DEF vars
<1>9. QED
  BY <1>1, <1>2, <1>3, <1>4, <1>5, <1>6, <1>7, <1>8 DEF Next

-----------------------------------------------------------------------------
(* The shell keeps every variable within its type: the read position      *)
(* stays within the input, and the stack accesses it records are those of *)
(* buffer[-1..BufLen] and argv[0..3].                                      *)
THEOREM TypeCorrect == Spec => []TypeOK
<1>1. IInv => TypeOK
  BY DEF IInv
<1>2. QED
  BY <1>1, InitIInv, NextIInv, PTL DEF Spec

(* StoppedOnRelease, checked by nxrecorder_safety: nxrecorder_release() is *)
(* called only on an idle recorder, for every input, because the quit      *)
(* handler, the only way out of the loop, stops the recording first.       *)
THEOREM StoppedOnReleaseHolds == Spec => StoppedOnRelease
<1>1. IInv /\ [Next]_vars => [rec' = "released" => rec = "idle"]_vars
  <2> SUFFICES ASSUME IInv, [Next]_vars, rec' = "released"
               PROVE  rec = "idle" \/ UNCHANGED vars
    OBVIOUS
  <2>1. CASE Release
    BY <2>1 DEF Release, IInv, QuitInv
  <2>2. CASE UNCHANGED vars
    BY <2>2
  <2>3. CASE Next /\ ~Release
    \* Every other action starts below "returned", so rec # "released",
    \* and none of them sets rec to "released".
    <3>1. pc # "returned"
      BY <2>3 DEF Next, Create, ReadLine, CmdDevice, CmdHelp, CmdMw,
                  CmdRecordraw, CmdPause, CmdResume, CmdStop, CmdQuit,
                  Unknown, Handler
    <3>2. rec # "released"
      BY <3>1 DEF IInv, ReleasedLast
    <3>3. FALSE
      BY <2>3, <3>2 DEF Next, Create, ReadLine, CmdDevice, CmdHelp, CmdMw,
                  CmdRecordraw, CmdPause, CmdResume, CmdStop, CmdQuit,
                  Unknown, Handler
    <3>4. QED
      BY <3>3
  <2>4. QED
    BY <2>1, <2>2, <2>3
<1>2. QED
  BY <1>1, InitIInv, NextIInv, PTL DEF Spec, StoppedOnRelease

=============================================================================
