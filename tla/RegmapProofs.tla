------------------------------ MODULE RegmapProofs ------------------------------
(***************************************************************************)
(* Proofs about one run of the regmap command, for every bound MaxRegs,    *)
(* every set of hex values, command lines and file contents allowed by     *)
(* RegmapAssumption: the type invariant and DevClosedOnReturn.             *)
(*                                                                         *)
(* TypeOK is not inductive alone.  The parse loops index offsets[] and     *)
(* values[] by `i` and read the file by `rd`, so the proof needs the file  *)
(* to stay within MaxRegs lines, the stream a batch function reads to be   *)
(* the one it opened "r" and still holding the original lines, and `i` to  *)
(* be non-negative in batch()'s loop (FileInv, LoopInv).  DevInv says the  *)
(* device is never open on the way to the usage exit.                      *)
(***************************************************************************)
EXTENDS Regmap, TLAPS

USE RegmapAssumption

\* The statements of batch() and batch_num(), from the line count to the
\* frees.
BatchPc == {"batch", "allocOff", "allocVal", "nomem", "fill", "loadLoop",
            "parse", "adjust", "get", "write", "set", "done1", "done2"}

\* The FILE a batch function works on is the one regmap_main() opened for
\* it, "w" for a store and "r" for a load; a stream opened "r" still holds
\* the original lines; and only a store reads the registers into the file.
FileInv ==
    /\ Len(file) <= MaxRegs
    /\ pc \in BatchPc => fn /= "none" /\ fmode = IF store THEN "w" ELSE "r"
    /\ fmode = "r" => file = orig
    /\ pc \in {"fill", "get", "write"} => store
    /\ pc = "loadLoop" => ~store
    /\ pc \in {"start", "dispatch"} => fmode = "none" /\ file = orig

\* batch()'s loop counter starts at 0 and only grows.
LoopInv == pc = "parse" => i >= 0

\* The device is not open before open() or on the way out through usage.
DevInv ==
    /\ pc = "start" => dev = "none"
    /\ pc \in {"usage", "returned"} => dev /= "open"

\* TypeOK in three parts, each proved in a step of its own: the control
\* state, the file and its reader, and the heap blocks and loop counters.
TypeCtl ==
    /\ pc \in {"start", "dispatch", "error", "usage", "single", "batch",
               "allocOff", "allocVal", "nomem", "fill", "loadLoop", "parse",
               "adjust", "get", "write", "set", "done1", "done2", "returned"}
    /\ arg \in Arg
    /\ fmode \in {"none", "r", "w", "closed"}
    /\ dev \in {"none", "open", "closed"}
    /\ fn \in {"none", "batch", "batch_num"}
    /\ store \in BOOLEAN
    /\ offPtr \in Ptr /\ valPtr \in Ptr
    /\ ret \in {"none", "ok", "err", "enomem", "einval"}
    /\ freed \subseteq Ptr

TypeFile ==
    /\ orig \in Seq(Line) /\ file \in Seq(Line) \cup Seq(Written)
    /\ rd \in 1..MaxRegs+1
    /\ pair \in Line \cup {Garbage}

TypeMem ==
    /\ regNum \in 0..MaxRegs
    /\ offCap \in 0..MaxRegs /\ valCap \in 0..MaxRegs
    /\ offsets \in [Idx -> Entry] /\ values \in [Idx -> Entry]
    /\ i \in -1..MaxRegs
    /\ sent \subseteq Seq(Entry \X Entry)
    /\ access \subseteq ({"off", "val"} \X Idx)

LEMMA TypeParts == TypeOK <=> TypeCtl /\ TypeFile /\ TypeMem
BY DEF TypeOK, TypeCtl, TypeFile, TypeMem

\* malloc(reg_num) holds reg_num / sizeof(uint32_t) elements, no more than
\* reg_num itself.
LEMMA CapBound == ASSUME NEW n \in 0..MaxRegs PROVE n \div WordSize \in 0..MaxRegs
BY DEF WordSize

IInv == TypeCtl /\ TypeFile /\ TypeMem /\ FileInv /\ LoopInv /\ DevInv

\* Initial states: the file is one of Files, so at most MaxRegs lines.
LEMMA InitIInv == Init => IInv
<1> SUFFICES ASSUME Init PROVE IInv
  OBVIOUS
<1>1. arg \in Arg /\ file \in Seq(Line) /\ Len(file) <= MaxRegs
  BY DEF Init
<1>2. TypeCtl
  BY <1>1 DEF Init, TypeCtl, Ptr
<1>3. TypeFile
  BY <1>1 DEF Init, TypeFile, Garbage
<1>4. TypeMem
  BY DEF Init, TypeMem, Entry
<1>5. FileInv /\ LoopInv /\ DevInv
  BY <1>1 DEF Init, FileInv, LoopInv, DevInv, BatchPc
<1>6. QED
  BY <1>2, <1>3, <1>4, <1>5 DEF IInv

(* Each step keeps IInv: one step per statement of the command, and under  *)
(* it one per part of the invariant.                                       *)
LEMMA NextIInv == IInv /\ [Next]_vars => IInv'
<1> SUFFICES ASSUME TypeCtl, TypeFile, TypeMem, FileInv, LoopInv, DevInv,
                    [Next]_vars
             PROVE  IInv'
  BY DEF IInv
<1>1. CASE ArgcShort
  <2>1. TypeCtl'
    BY <1>1 DEF ArgcShort, TypeCtl, memVars
  <2>2. TypeFile'
    BY <1>1 DEF ArgcShort, TypeFile
  <2>3. TypeMem'
    BY <1>1 DEF ArgcShort, TypeMem, memVars
  <2>4. FileInv'
    BY <1>1 DEF ArgcShort, FileInv, BatchPc
  <2>5. LoopInv' /\ DevInv'
    BY <1>1 DEF ArgcShort, LoopInv, DevInv
  <2>6. QED
    BY <2>1, <2>2, <2>3, <2>4, <2>5 DEF IInv
<1>2. CASE OpenDev
  <2>1. TypeCtl'
    BY <1>2 DEF OpenDev, TypeCtl, memVars
  <2>2. TypeFile'
    BY <1>2 DEF OpenDev, TypeFile
  <2>3. TypeMem'
    BY <1>2 DEF OpenDev, TypeMem, memVars
  <2>4. FileInv'
    BY <1>2 DEF OpenDev, FileInv, BatchPc
  <2>5. LoopInv' /\ DevInv'
    BY <1>2 DEF OpenDev, LoopInv, DevInv
  <2>6. QED
    BY <2>1, <2>2, <2>3, <2>4, <2>5 DEF IInv
<1>3. CASE DispatchFile
  <2>1. TypeCtl'
    BY <1>3 DEF DispatchFile, TypeCtl, memVars
  <2>2. TypeFile'
    <3>1. file' \in {<< >>, file} /\ UNCHANGED <<orig, rd, pair>>
      BY <1>3 DEF DispatchFile
    <3>2. << >> \in Seq(Line)
      OBVIOUS
    <3>3. QED
      BY <3>1, <3>2 DEF TypeFile
  <2>3. TypeMem'
    <3>1. arg.a4 \in 0..MaxRegs
      BY DEF TypeCtl, Arg
    <3>2. regNum' \in {regNum, arg.a4}
      BY <1>3 DEF DispatchFile
    <3>3. UNCHANGED <<memVars, i, sent, access>>
      BY <1>3 DEF DispatchFile
    <3>4. QED
      BY <3>1, <3>2, <3>3 DEF TypeMem, memVars
  <2>4. FileInv'
    <3>1. fmode = "none" /\ file = orig /\ Len(file) <= MaxRegs
      BY <1>3 DEF DispatchFile, FileInv
    <3>2. store' = (arg.cmd = "store") /\ UNCHANGED orig
      BY <1>3 DEF DispatchFile
    <3>3. CASE pc' = "error"
      BY <1>3, <3>1, <3>3 DEF DispatchFile, FileInv, BatchPc
    <3>4. CASE pc' # "error"
      <4>1. /\ fmode' = IF arg.cmd = "store" THEN "w" ELSE "r"
            /\ file' = IF arg.cmd = "store" THEN <<>> ELSE file
            /\ pc' \in {"batch", "allocOff"} /\ fn' # "none"
        BY <1>3, <3>4 DEF DispatchFile
      <4>2. CASE arg.cmd = "store"
        <5>1. fmode' = "w" /\ file' = << >> /\ store'
          BY <3>2, <4>1, <4>2
        <5>2. QED
          BY <4>1, <5>1 DEF FileInv, BatchPc
      <4>3. CASE arg.cmd # "store"
        <5>1. fmode' = "r" /\ file' = file /\ ~store'
          BY <3>2, <4>1, <4>3
        <5>2. QED
          BY <3>1, <3>2, <4>1, <5>1 DEF FileInv, BatchPc
      <4>4. QED
        BY <4>2, <4>3
    <3>5. QED
      BY <3>3, <3>4
  <2>5. LoopInv' /\ DevInv'
    BY <1>3 DEF DispatchFile, LoopInv, DevInv
  <2>6. QED
    BY <2>1, <2>2, <2>3, <2>4, <2>5 DEF IInv
<1>4. CASE DispatchSingle
  <2>1. TypeCtl'
    BY <1>4 DEF DispatchSingle, TypeCtl, memVars
  <2>2. TypeFile'
    BY <1>4 DEF DispatchSingle, TypeFile
  <2>3. TypeMem'
    BY <1>4 DEF DispatchSingle, TypeMem, memVars
  <2>4. FileInv'
    BY <1>4 DEF DispatchSingle, FileInv, BatchPc
  <2>5. LoopInv' /\ DevInv'
    BY <1>4 DEF DispatchSingle, LoopInv, DevInv
  <2>6. QED
    BY <2>1, <2>2, <2>3, <2>4, <2>5 DEF IInv
<1>5. CASE Error
  <2>1. TypeCtl'
    BY <1>5 DEF Error, TypeCtl, memVars
  <2>2. TypeFile'
    BY <1>5 DEF Error, TypeFile
  <2>3. TypeMem'
    BY <1>5 DEF Error, TypeMem, memVars
  <2>4. FileInv'
    BY <1>5 DEF Error, FileInv, BatchPc
  <2>5. LoopInv' /\ DevInv'
    BY <1>5 DEF Error, LoopInv, DevInv
  <2>6. QED
    BY <2>1, <2>2, <2>3, <2>4, <2>5 DEF IInv
<1>6. CASE Usage
  <2>1. TypeCtl'
    BY <1>6 DEF Usage, TypeCtl, memVars
  <2>2. TypeFile'
    BY <1>6 DEF Usage, TypeFile
  <2>3. TypeMem'
    BY <1>6 DEF Usage, TypeMem, memVars
  <2>4. FileInv'
    BY <1>6 DEF Usage, FileInv, BatchPc
  <2>5. LoopInv' /\ DevInv'
    BY <1>6 DEF Usage, LoopInv, DevInv
  <2>6. QED
    BY <2>1, <2>2, <2>3, <2>4, <2>5 DEF IInv
<1>7. CASE Single
  <2>1. TypeCtl'
    BY <1>7 DEF Single, TypeCtl, memVars
  <2>2. TypeFile'
    BY <1>7 DEF Single, TypeFile
  <2>3. TypeMem'
    BY <1>7 DEF Single, TypeMem, memVars
  <2>4. FileInv'
    BY <1>7 DEF Single, FileInv, BatchPc
  <2>5. LoopInv' /\ DevInv'
    BY <1>7 DEF Single, LoopInv, DevInv
  <2>6. QED
    BY <2>1, <2>2, <2>3, <2>4, <2>5 DEF IInv
<1>8. CASE CountLines
  <2>1. TypeCtl'
    BY <1>8 DEF CountLines, TypeCtl, memVars
  <2>2. TypeFile'
    BY <1>8 DEF CountLines, TypeFile, FileInv, BatchPc
  <2>3. TypeMem'
    BY <1>8 DEF CountLines, TypeMem, memVars, TypeCtl, TypeFile, FileInv, BatchPc
  <2>4. FileInv'
    BY <1>8 DEF CountLines, FileInv, BatchPc, TypeCtl
  <2>5. LoopInv' /\ DevInv'
    BY <1>8 DEF CountLines, LoopInv, DevInv
  <2>6. QED
    BY <2>1, <2>2, <2>3, <2>4, <2>5 DEF IInv
<1>9. CASE AllocOffsets
  <2>1. TypeCtl'
    <3>1. pc' \in {"allocVal", "nomem"} /\ offPtr' \in Ptr
      BY <1>9 DEF AllocOffsets, Ptr
    <3>2. QED
      BY <1>9, <3>1 DEF AllocOffsets, TypeCtl
  <2>2. TypeFile'
    BY <1>9 DEF AllocOffsets, TypeFile
  <2>3. TypeMem'
    <3>1. regNum \div WordSize \in 0..MaxRegs
      BY CapBound DEF TypeMem
    <3>2. QED
      BY <1>9, <3>1 DEF AllocOffsets, TypeMem, memVars
  <2>4. FileInv'
    BY <1>9 DEF AllocOffsets, FileInv, BatchPc
  <2>5. LoopInv' /\ DevInv'
    BY <1>9 DEF AllocOffsets, LoopInv, DevInv
  <2>6. QED
    BY <2>1, <2>2, <2>3, <2>4, <2>5 DEF IInv
<1>10. CASE AllocValues
  <2>1. TypeCtl'
    <3>1. pc' \in {"parse", "fill", "loadLoop", "nomem"} /\ valPtr' \in Ptr
      BY <1>10 DEF AllocValues, Ptr
    <3>2. QED
      BY <1>10, <3>1 DEF AllocValues, TypeCtl
  <2>2. TypeFile'
    BY <1>10 DEF AllocValues, TypeFile, TypeMem
  <2>3. TypeMem'
    <3>1. regNum \div WordSize \in 0..MaxRegs
      BY CapBound DEF TypeMem
    <3>2. QED
      BY <1>10, <3>1 DEF AllocValues, TypeMem, memVars
  <2>4. FileInv'
    BY <1>10 DEF AllocValues, FileInv, BatchPc
  <2>5. LoopInv' /\ DevInv'
    BY <1>10 DEF AllocValues, LoopInv, DevInv
  <2>6. QED
    BY <2>1, <2>2, <2>3, <2>4, <2>5 DEF IInv
<1>11. CASE NoMem
  <2>1. TypeCtl'
    BY <1>11 DEF NoMem, TypeCtl, memVars
  <2>2. TypeFile'
    BY <1>11 DEF NoMem, TypeFile
  <2>3. TypeMem'
    BY <1>11 DEF NoMem, TypeMem, memVars
  <2>4. FileInv'
    BY <1>11 DEF NoMem, FileInv, BatchPc
  <2>5. LoopInv' /\ DevInv'
    BY <1>11 DEF NoMem, LoopInv, DevInv
  <2>6. QED
    BY <2>1, <2>2, <2>3, <2>4, <2>5 DEF IInv
<1>12. CASE FillOffsets
  <2>1. TypeCtl'
    BY <1>12 DEF FillOffsets, TypeCtl, memVars
  <2>2. TypeFile'
    BY <1>12 DEF FillOffsets, TypeFile
  <2>3. TypeMem'
    \* offsets[i] = i for i < reg_num: indices are entries.
    <3>1. regNum \in Nat /\ regNum <= MaxRegs
      BY DEF TypeMem
    <3>2. offsets' \in [Idx -> Entry]
      BY <1>12, <3>1 DEF FillOffsets, TypeMem, Entry, Idx
    <3>3. access' \subseteq ({"off", "val"} \X Idx)
      BY <1>12, <3>1 DEF FillOffsets, TypeMem, Idx
    <3>4. QED
      BY <1>12, <3>2, <3>3 DEF FillOffsets, TypeMem, memVars
  <2>4. FileInv'
    BY <1>12 DEF FillOffsets, FileInv, BatchPc
  <2>5. LoopInv' /\ DevInv'
    BY <1>12 DEF FillOffsets, LoopInv, DevInv
  <2>6. QED
    BY <2>1, <2>2, <2>3, <2>4, <2>5 DEF IInv
<1>13. CASE LoadLine
  <2>1. TypeCtl'
    BY <1>13 DEF LoadLine, UnsignedLt, TypeCtl, memVars
  \* The load reads the stream opened "r", which holds the original lines,
  \* into entry i of both blocks.
  <2>a. i \in Idx /\ i < regNum
    BY <1>13 DEF LoadLine, UnsignedLt, TypeMem, Idx
  <2>b. file = orig /\ orig \in Seq(Line) /\ Len(file) <= MaxRegs
    BY <1>13 DEF LoadLine, FileInv, BatchPc, TypeFile
  <2>c. rd <= Len(file) => file[rd] \in Line
    BY <2>b DEF TypeFile
  <2>2. TypeFile'
    BY <1>13, <2>b, <2>c DEF LoadLine, TypeFile
  <2>3. TypeMem'
    <3>1. CASE rd > Len(file)
      <4>1. ~(rd <= Len(file))
        BY <3>1, <2>b DEF TypeFile
      <4>2. UNCHANGED <<offsets, values, i, access, regNum, offPtr, valPtr,
                        offCap, valCap, sent>>
        BY <1>13, <4>1 DEF LoadLine
      <4>3. QED
        BY <4>2 DEF TypeMem
    <3>2. CASE rd <= Len(file)
      <4> DEFINE l == file[rd]
      <4>1. l \in Line
        BY <2>c, <3>2
      <4>2. Fields(l) >= 1 => l.off \in Entry
        BY <4>1 DEF Fields, Line, Entry
      <4>3. Fields(l) = 2 => l.val \in Entry
        BY <4>1 DEF Fields, Line, Entry
      <4>4. Fields(l) \in 0..2
        BY DEF Fields
      <4>9. offsets' \in [Idx -> Entry]
        BY <1>13, <3>2, <2>a, <4>2 DEF LoadLine, TypeMem
      <4>10. values' \in [Idx -> Entry]
        BY <1>13, <3>2, <2>a, <4>3 DEF LoadLine, TypeMem
      <4>5. offsets' \in [Idx -> Entry] /\ values' \in [Idx -> Entry]
        BY <4>9, <4>10
      <4>6. access' \subseteq ({"off", "val"} \X Idx)
        BY <1>13, <3>2, <2>a, <4>4 DEF LoadLine, TypeMem
      <4>7. i' \in -1..MaxRegs
        BY <1>13, <3>2, <2>a DEF LoadLine, Idx
      <4>8. QED
        BY <1>13, <3>2, <4>5, <4>6, <4>7 DEF LoadLine, TypeMem, memVars
    <3>3. QED
      BY <3>1, <3>2 DEF TypeFile
  <2>4. FileInv'
    BY <1>13 DEF LoadLine, UnsignedLt, FileInv, BatchPc
  <2>5. LoopInv' /\ DevInv'
    BY <1>13 DEF LoadLine, UnsignedLt, LoopInv, DevInv
  <2>6. QED
    BY <2>1, <2>2, <2>3, <2>4, <2>5 DEF IInv
<1>14. CASE LoadEnd
  <2>1. TypeCtl'
    BY <1>14 DEF LoadEnd, UnsignedLt, TypeCtl, memVars
  <2>2. TypeFile'
    BY <1>14 DEF LoadEnd, UnsignedLt, TypeFile
  <2>3. TypeMem'
    BY <1>14 DEF LoadEnd, UnsignedLt, TypeMem, memVars
  <2>4. FileInv'
    BY <1>14 DEF LoadEnd, UnsignedLt, FileInv, BatchPc
  <2>5. LoopInv' /\ DevInv'
    BY <1>14 DEF LoadEnd, UnsignedLt, LoopInv, DevInv
  <2>6. QED
    BY <2>1, <2>2, <2>3, <2>4, <2>5 DEF IInv
<1>15. CASE ParseLine
  <2>1. TypeCtl'
    BY <1>15 DEF ParseLine, TypeCtl, memVars
  <2>2. TypeFile'
    BY <1>15 DEF ParseLine, TypeFile
  <2>3. TypeMem'
    \* sscanf() stores into offsets[i], values[i] with i inside the block
    \* of reg_num entries, and only the fields it found.
    <3>1. i \in Idx /\ i < regNum
      BY <1>15 DEF ParseLine, TypeMem, LoopInv, Idx
    <3>2. Fields(pair) >= 1 => pair.off \in Entry
      BY DEF TypeFile, Fields, Line, Garbage, Entry
    <3>3. Fields(pair) = 2 => pair.val \in Entry
      BY DEF TypeFile, Fields, Line, Garbage, Entry
    <3>4. offsets' \in [Idx -> Entry] /\ values' \in [Idx -> Entry]
      BY <1>15, <3>1, <3>2, <3>3 DEF ParseLine, TypeMem
    <3>5. access' \subseteq ({"off", "val"} \X Idx)
      BY <1>15, <3>1 DEF ParseLine, TypeMem
    <3>6. i' \in -1..MaxRegs
      BY <1>15, <3>1 DEF ParseLine, TypeMem, Idx
    <3>7. QED
      BY <1>15, <3>4, <3>5, <3>6 DEF ParseLine, TypeMem, memVars
  <2>4. FileInv'
    BY <1>15 DEF ParseLine, FileInv, BatchPc
  <2>5. LoopInv' /\ DevInv'
    BY <1>15 DEF ParseLine, LoopInv, DevInv, TypeMem
  <2>6. QED
    BY <2>1, <2>2, <2>3, <2>4, <2>5 DEF IInv
<1>16. CASE ParseEnd
  <2>1. TypeCtl'
    BY <1>16 DEF ParseEnd, TypeCtl, memVars
  <2>2. TypeFile'
    BY <1>16 DEF ParseEnd, TypeFile
  <2>3. TypeMem'
    BY <1>16 DEF ParseEnd, TypeMem, memVars
  <2>4. FileInv'
    BY <1>16 DEF ParseEnd, FileInv, BatchPc
  <2>5. LoopInv' /\ DevInv'
    BY <1>16 DEF ParseEnd, LoopInv, DevInv
  <2>6. QED
    BY <2>1, <2>2, <2>3, <2>4, <2>5 DEF IInv
<1>17. CASE Adjust
  <2>1. TypeCtl'
    BY <1>17 DEF Adjust, UnsignedLt, TypeCtl, memVars
  <2>2. TypeFile'
    BY <1>17 DEF Adjust, UnsignedLt, TypeFile
  <2>3. TypeMem'
    BY <1>17 DEF Adjust, UnsignedLt, TypeMem, memVars
  <2>4. FileInv'
    BY <1>17 DEF Adjust, UnsignedLt, FileInv, BatchPc
  <2>5. LoopInv' /\ DevInv'
    BY <1>17 DEF Adjust, UnsignedLt, LoopInv, DevInv
  <2>6. QED
    BY <2>1, <2>2, <2>3, <2>4, <2>5 DEF IInv
<1>18. CASE GetIoctl
  <2>1. TypeCtl'
    BY <1>18 DEF GetIoctl, TypeCtl, memVars
  <2>2. TypeFile'
    BY <1>18 DEF GetIoctl, TypeFile
  <2>3. TypeMem'
    <3>1. regNum \in Nat /\ regNum <= MaxRegs
      BY DEF TypeMem
    <3>2. access' \subseteq ({"off", "val"} \X Idx)
      BY <1>18, <3>1 DEF GetIoctl, TypeMem, Regs, Idx
    <3>3. values' \in [Idx -> Entry]
      BY <1>18 DEF GetIoctl, TypeMem, Entry
    <3>4. QED
      BY <1>18, <3>2, <3>3 DEF GetIoctl, TypeMem, memVars
  <2>4. FileInv'
    BY <1>18 DEF GetIoctl, FileInv, BatchPc
  <2>5. LoopInv' /\ DevInv'
    BY <1>18 DEF GetIoctl, LoopInv, DevInv
  <2>6. QED
    BY <2>1, <2>2, <2>3, <2>4, <2>5 DEF IInv
<1>19. CASE WriteFile
  <2>1. TypeCtl'
    BY <1>19 DEF WriteFile, TypeCtl, memVars
  <2>a. regNum \in Nat /\ regNum <= MaxRegs
    BY DEF TypeMem
  <2>b. file' \in Seq(Written) /\ Len(file') = regNum
    <3>1. \A j \in 1..regNum : [off |-> offsets[j-1], val |-> values[j-1]]
                                \in Written
      BY <2>a DEF TypeMem, Idx, Written
    <3>2. QED
      BY <1>19, <2>a, <3>1 DEF WriteFile
  <2>2. TypeFile'
    BY <1>19, <2>b DEF WriteFile, TypeFile
  <2>3. TypeMem'
    <3>1. access' \subseteq ({"off", "val"} \X Idx)
      BY <1>19, <2>a DEF WriteFile, TypeMem, Regs, Idx
    <3>2. QED
      BY <1>19, <2>a, <3>1 DEF WriteFile, TypeMem, memVars
  <2>4. FileInv'
    <3>1. store /\ fmode = "w"
      BY <1>19 DEF WriteFile, FileInv, BatchPc
    <3>2. QED
      BY <1>19, <2>a, <2>b, <3>1 DEF WriteFile, FileInv, BatchPc
  <2>5. LoopInv' /\ DevInv'
    BY <1>19 DEF WriteFile, LoopInv, DevInv
  <2>6. QED
    BY <2>1, <2>2, <2>3, <2>4, <2>5 DEF IInv
<1>20. CASE SetIoctl
  <2>1. TypeCtl'
    BY <1>20 DEF SetIoctl, TypeCtl, memVars
  <2>2. TypeFile'
    BY <1>20 DEF SetIoctl, TypeFile
  <2>3. TypeMem'
    \* The ioctl is given the first reg_num pairs, a sequence of entries.
    <3>1. regNum \in Nat /\ regNum <= MaxRegs
      BY DEF TypeMem
    <3>2. \A j \in 1..regNum : <<offsets[j-1], values[j-1]>> \in Entry \X Entry
      BY <3>1 DEF TypeMem, Idx
    <3>3. [j \in 1..regNum |-> <<offsets[j-1], values[j-1]>>]
            \in Seq(Entry \X Entry)
      BY <3>1, <3>2
    <3>4. sent' \subseteq Seq(Entry \X Entry)
      BY <1>20, <3>3 DEF SetIoctl
    <3>5. access' \subseteq ({"off", "val"} \X Idx)
      BY <1>20, <3>1 DEF SetIoctl, TypeMem, Regs, Idx
    <3>6. QED
      BY <1>20, <3>4, <3>5 DEF SetIoctl, TypeMem, memVars
  <2>4. FileInv'
    BY <1>20 DEF SetIoctl, FileInv, BatchPc
  <2>5. LoopInv' /\ DevInv'
    BY <1>20 DEF SetIoctl, LoopInv, DevInv
  <2>6. QED
    BY <2>1, <2>2, <2>3, <2>4, <2>5 DEF IInv
<1>21. CASE Done1
  <2>1. TypeCtl'
    BY <1>21 DEF Done1, TypeCtl, memVars
  <2>2. TypeFile'
    BY <1>21 DEF Done1, TypeFile
  <2>3. TypeMem'
    BY <1>21 DEF Done1, TypeMem, memVars
  <2>4. FileInv'
    BY <1>21 DEF Done1, FileInv, BatchPc
  <2>5. LoopInv' /\ DevInv'
    BY <1>21 DEF Done1, LoopInv, DevInv
  <2>6. QED
    BY <2>1, <2>2, <2>3, <2>4, <2>5 DEF IInv
<1>22. CASE Done2
  <2>1. TypeCtl'
    BY <1>22 DEF Done2, TypeCtl, memVars
  <2>2. TypeFile'
    BY <1>22 DEF Done2, TypeFile
  <2>3. TypeMem'
    BY <1>22 DEF Done2, TypeMem, memVars
  <2>4. FileInv'
    BY <1>22 DEF Done2, FileInv, BatchPc
  <2>5. LoopInv' /\ DevInv'
    BY <1>22 DEF Done2, LoopInv, DevInv
  <2>6. QED
    BY <2>1, <2>2, <2>3, <2>4, <2>5 DEF IInv
<1>23. CASE UNCHANGED vars
  BY <1>23 DEF vars, IInv, TypeCtl, TypeFile, TypeMem, FileInv, LoopInv,
                DevInv
<1>24. QED
  BY <1>1, <1>2, <1>3, <1>4, <1>5, <1>6, <1>7, <1>8, <1>9, <1>10, <1>11, <1>12, <1>13, <1>14, <1>15, <1>16, <1>17, <1>18, <1>19, <1>20, <1>21, <1>22, <1>23 DEF Next

-----------------------------------------------------------------------------
(* Every variable of the command keeps its type on every path, for every   *)
(* bound and every file: in particular the parse loops index offsets[] and *)
(* values[] only inside 0..MaxRegs-1 and the file stays within MaxRegs     *)
(* lines.                                                                  *)
THEOREM TypeCorrect == Spec => []TypeOK
<1>1. IInv => TypeOK
  BY TypeParts DEF IInv
<1>2. QED
  BY <1>1, InitIInv, NextIInv, PTL DEF Spec

(* DevClosedOnReturn, checked by regmap_safety: regmap_main() returns with *)
(* the device close()d, or never opened, on every path: the usage errors   *)
(* before and after open(), single(), and both batch functions.            *)
THEOREM DevClosedOnReturnHolds == Spec => []DevClosedOnReturn
<1>1. IInv => DevClosedOnReturn
  BY DEF IInv, DevInv, DevClosedOnReturn
<1>2. QED
  BY <1>1, InitIInv, NextIInv, PTL DEF Spec

=============================================================================
