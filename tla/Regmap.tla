------------------------------- MODULE Regmap -------------------------------
(***************************************************************************)
(* The regmap command of apps/system/regmap/regmap_main.c: regmap_main()    *)
(* dispatches on argv to single() (set/get one register), batch_num()      *)
(* (store/load a given number of registers) or batch() (store/load as many *)
(* registers as the file has lines); each issues one REGMAPIOC ioctl with  *)
(* a struct regmap_arg_s {reg_num, offsets[], values[]}.                   *)
(*                                                                         *)
(* One run of the command.  The input is the argument vector `arg` and the *)
(* file's lines; a line is abstracted to the fields sscanf() finds in it.  *)
(* Heap blocks are tracked by their size in elements; `access` records     *)
(* every element of offsets[]/values[] the code or the driver touches, and *)
(* `freed` every pointer given to free(), so that the memory errors of the *)
(* code can be stated.  The driver's ioctl and the C library calls that    *)
(* can fail (open, fopen, malloc, ioctl) are nondeterministic.             *)
(***************************************************************************)
EXTENDS Integers, Sequences

CONSTANTS
    MaxRegs,    \* bound on reg_num and on the lines of the file
    Vals,       \* the hex numbers a line may hold
    Args,       \* the command lines regmap may be given
    Files,      \* the contents the named file may have
    None,       \* a field sscanf() did not find
    Undef,      \* what a fresh malloc() block holds
    RegVal      \* a value the driver read from a register

\* NuttX targets are 32-bit: sizeof(uintptr_t) = sizeof(uint32_t) = 4.
WordSize == 4

Idx == 0..MaxRegs-1

\* A line holds an offset and a value, only an offset, or neither.
Line == [off : Vals \cup {None}, val : Vals \cup {None}]

\* argv[1], argc, whether sscanf() finds a number in argv[3] and in
\* argv[4], and the number argv[4] holds.
Arg == [cmd : {"store", "load", "set", "get", "other"}, argc : 1..6,
        a3 : BOOLEAN, a4ok : BOOLEAN, a4 : 0..MaxRegs]

ASSUME RegmapAssumption ==
    /\ MaxRegs \in Nat \ {0}
    /\ Args \subseteq Arg
    /\ Files \subseteq Seq(Line)
    /\ \A f \in Files : Len(f) <= MaxRegs

VARIABLES
    pc,         \* where the command is
    arg,        \* the command line
    orig,       \* the file as it was before the command ran
    file,       \* the file's lines
    fmode,      \* the FILE: "none", opened "r" or "w", or "closed"
    rd,         \* the next line fgets() reads
    dev,        \* dev_fd: "none", "open" or "closed"
    fn,         \* the batch function running: "batch" or "batch_num"
    store,      \* its `store` argument
    regNum,     \* regmap_arg.reg_num
    offPtr,     \* regmap_arg.offsets: "unset", "null" or a "block"
    valPtr,     \* regmap_arg.values
    offCap,     \* elements that fit in the offsets block
    valCap,     \* elements that fit in the values block
    offsets,    \* contents of the offsets block
    values,     \* contents of the values block
    i,          \* the loop counter `i` (an int)
    pair,       \* char pair[20]: the last line fgets() read, or garbage
    ret,        \* the ioctl's or the error's return
    sent,       \* {the (offset, value) pairs REGMAPIOC_SETREGVALUE was given}
    freed,      \* pointers passed to free()
    access      \* <<array, index>> of every element read or written

vars == <<pc, arg, orig, file, fmode, rd, dev, fn, store, regNum, offPtr,
          valPtr, offCap, valCap, offsets, values, i, pair, ret, sent, freed,
          access>>

Ptr == {"unset", "null", "block"}
Entry == Vals \cup Idx \cup {RegVal, Undef}

\* The uninitialised char pair[20].
Garbage == [off |-> Undef, val |-> Undef]

\* A line sprintf() wrote from an element of each array.
Written == [off : Entry, val : Entry]

\* How many fields sscanf(pair, "%lx %lx") converts.
Fields(l) == IF l.off = None THEN 0 ELSE IF l.val = None THEN 1 ELSE 2

\* `i < reg_num` with int i and uint32_t reg_num: i is converted to
\* unsigned, so i = -1 becomes 2^32 - 1, which no reg_num exceeds.
UnsignedLt(a, n) == a >= 0 /\ a < n

\* The elements of the block of `arr` an access can reach safely.
Cap(arr) == IF arr = "off" THEN offCap ELSE valCap

TypeOK ==
    /\ pc \in {"start", "dispatch", "error", "usage", "single", "batch",
               "allocOff", "allocVal", "nomem", "fill", "loadLoop", "parse",
               "adjust", "get", "write", "set", "done1", "done2", "returned"}
    /\ arg \in Arg
    /\ orig \in Seq(Line) /\ file \in Seq(Line) \cup Seq(Written)
    /\ fmode \in {"none", "r", "w", "closed"}
    /\ rd \in 1..MaxRegs+1
    /\ dev \in {"none", "open", "closed"}
    /\ fn \in {"none", "batch", "batch_num"}
    /\ store \in BOOLEAN
    /\ regNum \in 0..MaxRegs
    /\ offPtr \in Ptr /\ valPtr \in Ptr
    /\ offCap \in 0..MaxRegs /\ valCap \in 0..MaxRegs
    /\ offsets \in [Idx -> Entry] /\ values \in [Idx -> Entry]
    /\ i \in -1..MaxRegs
    /\ pair \in Line \cup {Garbage}
    /\ ret \in {"none", "ok", "err", "enomem", "einval"}
    /\ sent \subseteq Seq(Entry \X Entry)
    /\ freed \subseteq Ptr
    /\ access \subseteq ({"off", "val"} \X Idx)

Init ==
    /\ pc = "start"
    /\ arg \in Args
    /\ file \in Files
    /\ orig = file
    /\ fmode = "none"
    /\ rd = 1
    /\ dev = "none"
    /\ fn = "none"
    /\ store = FALSE
    /\ regNum = 0
    /\ offPtr = "unset" /\ valPtr = "unset"
    /\ offCap = 0 /\ valCap = 0
    /\ offsets = [k \in Idx |-> Undef] /\ values = [k \in Idx |-> Undef]
    /\ i = 0
    /\ pair = Garbage
    /\ ret = "none"
    /\ sent = {}
    /\ freed = {}
    /\ access = {}

memVars == <<offPtr, valPtr, offCap, valCap, offsets, values>>

-----------------------------------------------------------------------------
(* regmap_main()                                                           *)

(* Fewer than four arguments: show the usage and fail.                     *)
ArgcShort ==
    /\ pc = "start"
    /\ arg.argc < 4
    /\ pc' = "usage"
    /\ UNCHANGED <<arg, orig, file, fmode, rd, dev, fn, store, regNum,
                   memVars, i, pair, ret, sent, freed, access>>

(* open("/dev/audio/<dev>") or else open("<dev>"): both fail, or one       *)
(* gives dev_fd.                                                           *)
OpenDev ==
    /\ pc = "start"
    /\ arg.argc >= 4
    /\ \/ pc' = "usage" /\ UNCHANGED dev
       \/ pc' = "dispatch" /\ dev' = "open"
    /\ UNCHANGED <<arg, orig, file, fmode, rd, fn, store, regNum, memVars,
                   i, pair, ret, sent, freed, access>>

(* "store" or "load": fopen() the file ("w" truncates it); four arguments *)
(* run batch(), five run batch_num() with sscanf(argv[4]) as reg_num; a    *)
(* failed fopen() or sscanf(), or more arguments, end at `error` (a store  *)
(* or load with six arguments falls through the later strcmp() tests).    *)
DispatchFile ==
    /\ pc = "dispatch"
    /\ arg.cmd \in {"store", "load"}
    /\ store' = (arg.cmd = "store")
    /\ \/ /\ pc' = "error"
          /\ UNCHANGED <<file, fmode, fn, regNum>>
       \/ /\ fmode' = IF arg.cmd = "store" THEN "w" ELSE "r"
          /\ file' = IF arg.cmd = "store" THEN <<>> ELSE file
          /\ \/ arg.argc = 4 /\ fn' = "batch" /\ pc' = "batch"
                /\ UNCHANGED regNum
             \/ arg.argc = 5 /\ ~arg.a4ok /\ pc' = "error"
                /\ UNCHANGED <<fn, regNum>>
             \/ arg.argc = 5 /\ arg.a4ok /\ fn' = "batch_num"
                /\ regNum' = arg.a4 /\ pc' = "allocOff"
             \/ arg.argc >= 6 /\ pc' = "error" /\ UNCHANGED <<fn, regNum>>
    /\ UNCHANGED <<arg, orig, rd, dev, memVars, i, pair, ret, sent, freed,
                   access>>

(* "set" needs five arguments and hex argv[3], argv[4]; "get" four and a   *)
(* hex argv[3]; anything else ends at `error`.                             *)
DispatchSingle ==
    /\ pc = "dispatch"
    /\ arg.cmd \in {"set", "get", "other"}
    /\ store' = (arg.cmd = "set")
    /\ pc' = IF \/ arg.cmd = "set" /\ arg.argc = 5 /\ arg.a3 /\ arg.a4ok
                \/ arg.cmd = "get" /\ arg.argc = 4 /\ arg.a3
             THEN "single" ELSE "error"
    /\ UNCHANGED <<arg, orig, file, fmode, rd, dev, fn, regNum, memVars, i,
                   pair, ret, sent, freed, access>>

\* Mutant of Error: the branch jumps to error_arg and skips close().
ErrorNoClose ==
    /\ pc = "error"
    /\ pc' = "usage"
    /\ UNCHANGED <<arg, orig, file, fmode, rd, dev, fn, store, regNum,
                   memVars, i, pair, ret, sent, freed, access>>

(* error: close(dev_fd), then the usage.                                   *)
Error ==
    /\ pc = "error"
    /\ dev' = "closed"
    /\ pc' = "usage"
    /\ UNCHANGED <<arg, orig, file, fmode, rd, fn, store, regNum, memVars,
                   i, pair, ret, sent, freed, access>>

(* error_arg: show_usage(), return -EINVAL.                                *)
Usage ==
    /\ pc = "usage"
    /\ ret' = "einval"
    /\ pc' = "returned"
    /\ UNCHANGED <<arg, orig, file, fmode, rd, dev, fn, store, regNum,
                   memVars, i, pair, sent, freed, access>>

(* single(): one ioctl on the caller's offset and value, close(dev_fd).    *)
Single ==
    /\ pc = "single"
    /\ ret' \in {"ok", "err"}
    /\ dev' = "closed"
    /\ pc' = "returned"
    /\ UNCHANGED <<arg, orig, file, fmode, rd, fn, store, regNum, memVars,
                   i, pair, sent, freed, access>>

-----------------------------------------------------------------------------
(* batch() and batch_num()                                                 *)

(* batch(): count the lines with fgets() (none on a stream opened "w");   *)
(* pair keeps the last line read.                                          *)
CountLines ==
    /\ pc = "batch"
    /\ regNum' = IF fmode = "r" THEN Len(file) ELSE 0
    /\ pair' = IF fmode = "r" /\ Len(file) > 0 THEN file[Len(file)] ELSE pair
    /\ rd' = IF fmode = "r" THEN Len(file) + 1 ELSE rd
    /\ pc' = "allocOff"
    /\ UNCHANGED <<arg, orig, file, fmode, dev, fn, store, memVars, i, ret,
                   sent, freed, access>>

(* offsets = malloc(reg_num): reg_num bytes, or NULL.                      *)
AllocOffsets ==
    /\ pc = "allocOff"
    /\ \/ offPtr' = "block" /\ offCap' = regNum \div WordSize
          /\ pc' = "allocVal"
       \/ offPtr' = "null" /\ pc' = "nomem" /\ UNCHANGED offCap
    /\ UNCHANGED <<arg, orig, file, fmode, rd, dev, fn, store, regNum, valPtr,
                   valCap, offsets, values, i, pair, ret, sent, freed, access>>

(* values = malloc(reg_num); on success batch_num() fills or reads, and    *)
(* batch() rewinds the file and parses.                                    *)
AllocValues ==
    /\ pc = "allocVal"
    /\ \/ /\ valPtr' = "block" /\ valCap' = regNum \div WordSize
          /\ i' = 0
          /\ rd' = 1
          /\ pc' = IF fn = "batch" THEN "parse"
                   ELSE IF store THEN "fill" ELSE "loadLoop"
       \/ valPtr' = "null" /\ pc' = "nomem" /\ UNCHANGED <<valCap, i, rd>>
    /\ UNCHANGED <<arg, orig, file, fmode, dev, fn, store, regNum, offPtr,
                   offCap, offsets, values, pair, ret, sent, freed, access>>

(* A malloc() failed: ret = -ENOMEM, then done_batch_num2 (batch_num) or   *)
(* done_batch1 (batch).                                                    *)
NoMem ==
    /\ pc = "nomem"
    /\ ret' = "enomem"
    /\ pc' = IF fn = "batch_num" THEN "done2" ELSE "done1"
    /\ UNCHANGED <<arg, orig, file, fmode, rd, dev, fn, store, regNum,
                   memVars, i, pair, sent, freed, access>>

(* batch_num() store: offsets[i] = i for every register.                   *)
FillOffsets ==
    /\ pc = "fill"
    /\ offsets' = [k \in Idx |-> IF k < regNum THEN k ELSE offsets[k]]
    /\ access' = access \cup {<<"off", k>> : k \in 0..regNum-1}
    /\ pc' = "get"
    /\ UNCHANGED <<arg, orig, file, fmode, rd, dev, fn, store, regNum, offPtr,
                   valPtr, offCap, valCap, values, i, pair, ret, sent, freed>>

(* batch_num() load, one iteration: fgets() a line (EOF ends the loop),    *)
(* sscanf() it into offsets[i], values[i]; a line without two fields does  *)
(* i-- and ends the loop.                                                  *)
LoadLine ==
    /\ pc = "loadLoop"
    /\ UnsignedLt(i, regNum)
    /\ \/ /\ rd > Len(file)
          /\ pc' = "adjust"
          /\ UNCHANGED <<rd, offsets, values, i, pair, access>>
       \/ /\ rd <= Len(file)
          /\ LET l == file[rd] IN
             /\ pair' = l
             /\ offsets' = IF Fields(l) >= 1 THEN [offsets EXCEPT ![i] = l.off]
                           ELSE offsets
             /\ values' = IF Fields(l) = 2 THEN [values EXCEPT ![i] = l.val]
                          ELSE values
             /\ access' = access \cup
                    {<<"off", i>> : x \in 1..Fields(l)} \cup
                    {<<"val", i>> : x \in 2..Fields(l)}
             /\ i' = IF Fields(l) = 2 THEN i + 1 ELSE i - 1
             /\ pc' = IF Fields(l) = 2 THEN "loadLoop" ELSE "adjust"
          /\ rd' = rd + 1
    /\ UNCHANGED <<arg, orig, file, fmode, dev, fn, store, regNum, offPtr,
                   valPtr, offCap, valCap, ret, sent, freed>>

(* The loop condition `i < reg_num` fails.                                 *)
LoadEnd ==
    /\ pc = "loadLoop"
    /\ ~UnsignedLt(i, regNum)
    /\ pc' = "adjust"
    /\ UNCHANGED <<arg, orig, file, fmode, rd, dev, fn, store, regNum,
                   memVars, i, pair, ret, sent, freed, access>>

\* Mutant of ParseLine: the loop body forgets the ++i of the for loop.
ParseLineNoIncrement ==
    /\ pc = "parse"
    /\ i < regNum
    /\ Fields(pair) >= IF store THEN 1 ELSE 2
    /\ offsets' = [offsets EXCEPT ![i] = pair.off]
    /\ values' = IF store THEN values ELSE [values EXCEPT ![i] = pair.val]
    /\ access' = access \cup {<<"off", i>>} \cup
                 (IF store THEN {} ELSE {<<"val", i>>})
    /\ UNCHANGED <<pc, arg, orig, file, fmode, rd, dev, fn, store, regNum,
                   offPtr, valPtr, offCap, valCap, i, pair, ret, sent, freed>>

(* batch(), one iteration: sscanf() the buffer `pair` (no fgets() since    *)
(* the fseek(), so it still holds the last line counted) into offsets[i]   *)
(* (store) or offsets[i] and values[i] (load); too few fields break.       *)
ParseLine ==
    /\ pc = "parse"
    /\ i < regNum
    /\ LET n == Fields(pair)
           ok == n >= IF store THEN 1 ELSE 2
       IN /\ offsets' = IF n >= 1 THEN [offsets EXCEPT ![i] = pair.off]
                        ELSE offsets
          /\ values' = IF ~store /\ n = 2 THEN [values EXCEPT ![i] = pair.val]
                       ELSE values
          /\ access' = access \cup {<<"off", i>> : x \in 1..n} \cup
                       (IF store THEN {} ELSE {<<"val", i>> : x \in 2..n})
          /\ i' = IF ok THEN i + 1 ELSE i
          /\ pc' = IF ok THEN "parse" ELSE "adjust"
    /\ UNCHANGED <<arg, orig, file, fmode, rd, dev, fn, store, regNum, offPtr,
                   valPtr, offCap, valCap, pair, ret, sent, freed>>

ParseEnd ==
    /\ pc = "parse"
    /\ i >= regNum
    /\ pc' = "adjust"
    /\ UNCHANGED <<arg, orig, file, fmode, rd, dev, fn, store, regNum,
                   memVars, i, pair, ret, sent, freed, access>>

\* Mutant of Adjust: reg_num = i without the `i < reg_num` test.
AdjustUnguarded ==
    /\ pc = "adjust"
    /\ regNum' = i
    /\ pc' = IF store THEN "get" ELSE "set"
    /\ UNCHANGED <<arg, orig, file, fmode, rd, dev, fn, store, memVars, i,
                   pair, ret, sent, freed, access>>

(* if (i < reg_num) reg_num = i, compared as uint32_t; then the ioctl.     *)
Adjust ==
    /\ pc = "adjust"
    /\ regNum' = IF UnsignedLt(i, regNum) THEN i ELSE regNum
    /\ pc' = IF store THEN "get" ELSE "set"
    /\ UNCHANGED <<arg, orig, file, fmode, rd, dev, fn, store, memVars, i,
                   pair, ret, sent, freed, access>>

\* The elements 0..reg_num-1 of both arrays.
Regs == {"off", "val"} \X (0..regNum-1)

(* REGMAPIOC_GETREGVALUE: the driver reads offsets[0..reg_num-1] and fills *)
(* values[]; on failure the batch skips the file and goes to the frees.    *)
GetIoctl ==
    /\ pc = "get"
    /\ access' = access \cup Regs
    /\ \/ /\ ret' = "ok" /\ pc' = "write"
          /\ values' = [k \in Idx |-> IF k < regNum THEN RegVal ELSE values[k]]
       \/ ret' = "err" /\ pc' = "done2" /\ UNCHANGED values
    /\ UNCHANGED <<arg, orig, file, fmode, rd, dev, fn, store, regNum, offPtr,
                   valPtr, offCap, valCap, offsets, i, pair, sent, freed>>

(* fseek() to the start and fwrite() one "offset value" line per register. *)
WriteFile ==
    /\ pc = "write"
    /\ file' = [j \in 1..regNum |-> [off |-> offsets[j-1], val |-> values[j-1]]]
    /\ access' = access \cup Regs
    /\ i' = regNum
    /\ pc' = "done1"
    /\ UNCHANGED <<arg, orig, fmode, rd, dev, fn, store, regNum, memVars,
                   pair, ret, sent, freed>>

(* REGMAPIOC_SETREGVALUE with the first reg_num (offset, value) pairs.     *)
SetIoctl ==
    /\ pc = "set"
    /\ sent' = {[j \in 1..regNum |-> <<offsets[j-1], values[j-1]>>]}
    /\ access' = access \cup Regs
    /\ ret' \in {"ok", "err"}
    /\ pc' = "done1"
    /\ UNCHANGED <<arg, orig, file, fmode, rd, dev, fn, store, regNum,
                   memVars, i, pair, freed>>

(* done_batch1 / done_batch_num1: report the result.                       *)
Done1 ==
    /\ pc = "done1"
    /\ pc' = "done2"
    /\ UNCHANGED <<arg, orig, file, fmode, rd, dev, fn, store, regNum,
                   memVars, i, pair, ret, sent, freed, access>>

(* done_batch2 / done_batch_num2: free both arrays, fclose(), close().     *)
Done2 ==
    /\ pc = "done2"
    /\ freed' = freed \cup {offPtr, valPtr}
    /\ fmode' = "closed"
    /\ dev' = "closed"
    /\ pc' = "returned"
    /\ UNCHANGED <<arg, orig, file, rd, fn, store, regNum, memVars, i, pair,
                   ret, sent, access>>

Next ==
    \/ ArgcShort \/ OpenDev \/ DispatchFile \/ DispatchSingle
    \/ Error \/ Usage \/ Single
    \/ CountLines \/ AllocOffsets \/ AllocValues \/ NoMem \/ FillOffsets
    \/ LoadLine \/ LoadEnd \/ ParseLine \/ ParseEnd \/ Adjust
    \/ GetIoctl \/ WriteFile \/ SetIoctl \/ Done1 \/ Done2

Spec == Init /\ [][Next]_vars

\* Every step is a statement of one sequential process: nothing else runs.
FairSpec == Spec /\ WF_vars(Next)

-----------------------------------------------------------------------------
(* Properties                                                              *)

\* The number of registers the command was asked for: argv[4] for
\* batch_num(), the file's lines for batch().
Requested == IF fn = "batch_num" THEN arg.a4 ELSE Len(orig)

\* The longest prefix of the file, at most n lines, whose lines all hold
\* an offset and a value.
GoodPrefix(n) ==
    LET L == IF n < Len(orig) THEN n ELSE Len(orig)
        Good(m) == \A j \in 1..m : Fields(orig[j]) = 2
    IN  CHOOSE m \in 0..L : Good(m) /\ (m = L \/ ~Good(m + 1))

\* offsets[] and values[] hold reg_num elements each: every element the
\* batch loops, sscanf() or the driver reads or writes lies inside the
\* block malloc() gave (malloc(reg_num) allocates bytes, not elements).
InAllocation == \A a \in access : a[2] < Cap(a[1])

\* free() is only given pointers that malloc() returned, or NULL.
FreeOnlyAllocated == "unset" \notin freed

\* When the command returns, the FILE it opened has been fclose()d.
FileClosedOnReturn == pc = "returned" => fmode \in {"none", "closed"}

(* The command uses its resources safely on every path: heap accesses stay *)
(* inside the malloc()ed blocks, the -ENOMEM paths free nothing that was   *)
(* not allocated, and no error path returns with the FILE still open.      *)
ResourcesSafe == InAllocation /\ FreeOnlyAllocated /\ FileClosedOnReturn

(* A load sends the driver exactly the leading well-formed lines of the    *)
(* file, as many as were requested: no line is dropped, repeated or made   *)
(* up.                                                                     *)
LoadSendsFile ==
    \A s \in sent :
        s = [j \in 1..GoodPrefix(Requested) |->
                    <<orig[j].off, orig[j].val>>]

(* When the command returns, the device it opened has been close()d, on    *)
(* every path: usage errors, single(), and both batch functions.           *)
DevClosedOnReturn == pc = "returned" => dev /= "open"

(* A successful store leaves one line in the file per register requested.  *)
StoreSavesRequested ==
    (pc = "returned" /\ fn /= "none" /\ store /\ ret = "ok")
        => Len(file) = Requested

(* Every run of the command returns.                                       *)
Termination == <>(pc = "returned")

=============================================================================
