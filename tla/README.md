# TLA+ models of FishsemiCode/apps

This directory holds TLA+ models of the programs under `src/`, the TLC
configurations that check them, and TLAPS proofs about them. Every
definition that models code is listed with its source lines in
`PROJECT.json` ("map").

## 1. The system

| Part | Source | What it does |
|---|---|---|
| IPv4 ping engine | `src/netutils/ping/icmp_ping.c` (`icmp_ping`, `icmp_callback`) | Sends `info->count` ICMP echo requests one at a time. After each send it waits on `poll()` for replies until `info->timeout` ms have passed. It classifies every datagram it reads: runt, foreign type, foreign id, sequence number too large, duplicate, late, or current. For each it reports an event to `info->callback`, then reports FINISH. |
| IPv6 ping engine | `src/system/ping6/ping6.c` (`icmpv6_ping`) | The same loop over ICMPv6. It has no per-sequence table. Retrying is a `do ... while` over `retry`. It sleeps (`nanosleep`) to pace requests. At the end it prints the loss percentage. |
| ping6 command line | `src/system/ping6/ping6.c` (`ping6_main`) | Parses `-c -i -W -s` with range checks, resolves the host and runs the engine. |
| regmap | `src/system/regmap/regmap_main.c` | Reads or writes registers through an ioctl, for one register or for a batch file of `offset[,value]` lines. |
| nxrecorder | `src/system/nxrecorder/nxrecorder_main.c` | An interactive shell: `readline`, then a table dispatch to recorder commands. |
| cs1237, ili9486 | `src/examples/...` | Device examples: a read/print/sleep loop, and an LCD test pattern. |

The two ping engines talk to the network only through their ICMP socket. They
talk to their user only through the event callback (IPv4) or `printf` (IPv6).
Nothing else in the repository interacts: each program is a separate command
with its own process state.

What makes the ping engines hard:

- the network may lose, duplicate, reorder or delay datagrams;
- other sessions' replies and other ICMP types reach the same socket;
- a reply may arrive after its request timed out, during the wait for a later
  request;
- the remaining wait is computed from a clock that is read between `poll()`
  calls;
- the per-sequence markers come from `malloc()` and are never zeroed.

## 2. Modules

### EchoNet: the environment

EchoNet is the socket and the network as an engine sees them. It is not code of
this repository.

- `net` is a bag of datagrams in flight.
- A datagram is a record of the fields the engines test:
  - `type`: EchoReply or Other;
  - `id`: Mine or Foreign;
  - `seq`: 0..Count;
  - `len`: Runt, Short, Exact or Long;
  - `data`: Good or Bad.
- The network can `Duplicate`, `Inject` (from the constant set `Noise`) and
  `Lose` datagrams.
- Duplicate and Inject together are bounded by `MaxExtra`.
- The engine's `sendto()` is `Echo(s)`: the host's reply is put in flight.
- `recvfrom()` is `Consume(p)`.

### IcmpPing: `icmp_ping()` of `src/netutils/ping/icmp_ping.c`

IcmpPing EXTENDS EchoNet. Its variables and what they stand for in the code:

| Variable | Code |
|---|---|
| `pc` | where the function is: start, loop (the `for` head), wait (the `while (timeout >= elapsed)` head), poll (in `poll()`), finish (label `done`), closed or exit (returned) |
| `seqno`, `nrequests`, `nreplies`, `timeout`, `elapsed` | the locals and `result` fields of the same names |
| `marker` | `maps[].marker` |
| `clk` | `clock() - maps[seqno].clock`, saturated at `ClkMax = max(Timeout, Delay) + 1`, where nothing tells larger values apart |
| `pollEnd` | the value of `clk` at which the pending `poll()` times out |
| `out` | the callbacks the last step made, in order |
| `nrtt` | per sequence number, the ROUNDTRIP events reported so far; it is a tally kept by the event sink |

There is one action per branch of the code, each covering the whole branch:

- start: `StartOk` and `StartFail`;
- `SendRequest` and `SendFail`;
- `LoopEnd`, `PollStart` and `WaitEnd`;
- `PollTimeoutMatched` and `PollTimeoutWarn`;
- `PollFail`, `RecvFail`, `RecvSmall`, `RecvForeign` and `RecvReply`;
- `Finish`.

Time passes in `Tick`, which is interleaved with every step. The network moves
in `Network`. `Init` leaves the markers arbitrary, as `malloc()` does.

Abstractions:

- RTT values, the text of messages, and the byte-level payload codec are left
  out. The payload is Good or Bad.
- A Long datagram is what `recvfrom()` truncates to the buffer size, so it
  passes the size check (line 314).

### PingSession: what a session promises

PingSession is the abstract specification of a ping session. It is written from
spec §3, §4.1 and §8, not from code, and has no transport, clock or payload.

- Variables: `phase` (init, run, ending, done, failed), `sent` (requests-sent)
  and `rt` (ROUNDTRIP events per sequence).
- Actions: `Begin`, `SetupFail`, `Send` (only while `sent < Count`),
  `RoundTrip(s)` (only for `s < sent` and only once), `End` (last sequence or
  fatal error) and `Finish`.

IcmpPing defines `Session == INSTANCE PingSession WITH phase <- SessionPhase,
sent <- nrequests, rt <- nrtt`. `SessionPhase` maps `pc`:

- start maps to init;
- loop, wait and poll map to run;
- finish (label `done`) maps to ending;
- closed maps to done;
- exit maps to failed.

The property `ImplementsPingSession == Session!Spec` says icmp_ping() implements
the session. Timeouts, foreign datagrams, duplicates and clock ticks are
stutters of the session.

### Ping6: `icmpv6_ping()` of `src/system/ping6/ping6.c`

Ping6 EXTENDS EchoNet and uses the same clock abstraction as IcmpPing.

Its variables:

| Variable | Code |
|---|---|
| `pc` | start, loop (`while`), wait (top of the `do` body), poll, pace (after the `do/while`), sleep (in `nanosleep`), finish (`done`), closed, exit |
| `seqno` | `ntohs(outhdr.seqno)` |
| `nrequests`, `nreplies` | the `info->` fields; `nreplies` wraps as `uint16_t` |
| `elapsed` | the local `elapsed` |
| `loss` | the `tmp` of the statistics line |
| `out` | the lines the last step printed |

Actions:

- `StartOk`, `StartFail`, `SendRequest`, `SendFail` and `LoopEnd`.
- `PollStart`: `poll(info->timeout - elapsed)`.
- `PollTimeout`, `PollFail`, `RecvFail` and `RecvShort`.
- `RecvReply`: the whole classification. It takes the `elapsed` read, the
  lines printed (`ClassifyLines`), the count, and the do/while condition
  computed from `Retry`.
- `Pace` and `Wake`: the `nanosleep`.
- `Finish`: `LossPct`, in C int arithmetic where division truncates toward
  zero (`CDiv`). The code stores it in an unsigned int and prints it with
  `%u`. That value lies in 0..100 exactly when the int does. TLC's integers
  stop at 2^31, so the model keeps the int.

`Init` takes its values from `ping6_main()`. `Ping6Assumption` gives the
ranges `ping6_main()` accepts for `-i` and `-W`.

### Regmap: `regmap_main()` of `src/system/regmap/regmap_main.c`

Regmap models one run of the command. The command line `arg` is a record of
what the code tests:
- `argv[1]`;
- `argc`;
- whether `sscanf()` finds a number in `argv[3]` and in `argv[4]`;
- that number.

The file is a sequence of lines. Each line is abstracted to the fields
`sscanf(pair, "%lx %lx")` finds in it: both, only an offset, or none.

| Variable | Code |
|---|---|
| `pc` | the statement or label the function is at |
| `file`, `fmode`, `rd` | the file's lines, the `FILE` (opened "r"/"w", closed), the next line `fgets()` returns |
| `dev` | `dev_fd` |
| `fn`, `store` | which of `batch()`/`batch_num()` runs, and its `store` argument |
| `regNum`, `i`, `pair` | `regmap_arg.reg_num`, the int `i`, the buffer `pair[20]` |
| `offPtr`, `valPtr`, `offCap`, `valCap` | the two `malloc()` results and how many 4-byte elements fit in them |
| `offsets`, `values` | the blocks' contents (`Undef` until written) |
| `sent`, `ret` | what `REGMAPIOC_SETREGVALUE` was given, and the return value |
| `access`, `freed` | every array element touched, and every pointer given to `free()` |

There is one action per statement group of the code, with every `goto`:
- `ArgcShort`, `OpenDev`, `DispatchFile` (store/load), `DispatchSingle`
  (set/get/other), `Error`, `Usage` and `Single`;
- `CountLines`: the `fgets()` count of `batch()`;
- `AllocOffsets`, `AllocValues` and `NoMem`;
- `FillOffsets`;
- `LoadLine` and `LoadEnd`: the read loop of `batch_num()`;
- `ParseLine` and `ParseEnd`: the parse loop of `batch()`;
- `Adjust`: `if (i < reg_num) reg_num = i`;
- `GetIoctl`, `WriteFile` and `SetIoctl`;
- `Done1` and `Done2`: the labels.

`malloc(reg_num)` gives `reg_num` bytes (`WordSize` = 4 on the 32-bit NuttX
targets). The test `i < reg_num` compares an int with a `uint32_t`
(`UnsignedLt`). `open`, `fopen`, `malloc` and the ioctls may each fail.

### NxRecorder: the shell of `src/system/nxrecorder/nxrecorder_main.c`

The console input is a constant sequence of lines. Each line is its command
word and, for `mw` and `recordraw`, how many words follow. After the last
line, `readline()` returns EOF (-1), as the function's header says.

| Variable | Code |
|---|---|
| `pc` | start, loop (the `while (running)` head), cmd (a handler is running), returned |
| `input`, `pos`, `cur` | the console, the next line, the line being dispatched |
| `running` | the local `running` |
| `rec`, `device` | the recorder library's state (none, idle, recording, paused, released) and the preferred device |
| `stores`, `uninit` | stack writes through an index, and stack variables read before being set |

Actions:
- `Create`, `ReadLine` (readline, the NUL, strtok_r and the table lookup) and
  `Release`;
- one per handler of `g_nxrecorder_cmds[]`: `CmdDevice`, `CmdHelp`,
  `CmdMw` (the splitter `MwArgc` and `mem_parse()`'s reads `MemParseUnset`),
  `CmdRecordraw`, `CmdPause`, `CmdResume`, `CmdStop`, `CmdQuit` and
  `Unknown`.

The recorder library is not in this repository. It is an environment:
- `recordraw` may start recording only when the recorder is idle (the comment
  lists -EBUSY);
- `pause`, `resume` and `stop` move between idle, recording and paused;
- `setdevice` may succeed or fail.

`mw`'s loop of reads and writes at the address the user typed is left out.

### MCIcmpPing, MCPing6, MCRegmap, MCNxRecorder

MCIcmpPing and MCPing6 fix `Noise`. It holds one datagram of each kind the
classification tells apart:

- a foreign id;
- another type;
- bad data;
- a short, a runt and a long length;
- an echo of a sequence not yet sent.

MCRegmap runs every command line against six files. The files hold good
lines, a line with only an offset, and a blank line; one file has four lines.
`MaxRegs` = 4 is the smallest bound at which a block holds a whole element
(4 bytes), so the overflow is one of elements, not just of an empty block.

MCNxRecorder runs three sets of inputs:
- every input of up to two lines (all 12 kinds of line, with `mw` followed by
  0 to 4 words);
- every sequence of three recording commands;
- every sequence of two non-quit lines followed by `q` or `quit`.

### The proof modules

`EchoNetProofs`, `IcmpPingProofs`, `Ping6Proofs`, `RegmapProofs` and
`NxRecorderProofs` hold the TLAPS proofs (section 5). Each extends the module
it proves things about. `EchoNetProofs` holds the network lemmas the two ping
engines share.

## 3. Runs

All cfgs set `CHECK_DEADLOCK FALSE`. Each program returns, so its final states
have no successor, and that is intended. Termination is checked as a liveness
property instead. Each passing run checks its safety properties and
termination together, under `FairSpec`.

| Run | cfg | Bounds | Checks | Result |
|---|---|---|---|---|
| icmp_safety | `MCIcmpPing_safety.cfg` | Count 2, Timeout 2, Delay 1, MaxExtra 2 | TypeOK, MarkerMeansRoundTrip, RoundTripInv, TimeoutInv, NoTimeoutAfterRoundTrip, NoEarlyTimeout, Termination, ImplementsPingSession | pass |
| icmp_dup_counted | `MCIcmpPing_dup.cfg` | Count 1, MaxExtra 1 | VerifiedLeRequests | violation (finding) |
| icmp_pacing | `MCIcmpPing_pacing.cfg` | Count 2, Timeout 1, Delay 3, no extra datagrams | PacedSends | violation (finding) |
| ping6_safety | `MCPing6_safety.cfg` | Count 2, Timeout 2, Delay 3, MaxExtra 2 | TypeOK, WaitInv, NoEarlyNoResponse, Termination | pass |
| ping6_loss_wraps | `MCPing6_loss.cfg` | Count 2, MaxExtra 1 | LossInRange | violation (finding) |
| ping6_foreign_type | `MCPing6_type.cfg` | Count 1, Timeout = Delay = 2, MaxExtra 1 | WaitEndsOnReplyOrTimeout | violation (finding) |
| regmap_safety | `MCRegmap_safety.cfg` | every command line, six files, MaxRegs 4 | TypeOK, DevClosedOnReturn, Termination | pass |
| regmap_resources | `MCRegmap_resources.cfg` | as regmap_safety | ResourcesSafe | violation (finding) |
| regmap_load | `MCRegmap_load.cfg` | the load command lines | LoadSendsFile | violation (finding) |
| regmap_store_truncates | `MCRegmap_store.cfg` | as regmap_safety | StoreSavesRequested | violation (finding) |
| nxrecorder_safety | `MCNxRecorder_safety.cfg` | the three input sets | TypeOK, StoppedOnRelease, QuitEndsSession | pass |
| nxrecorder_stack | `MCNxRecorder_stack.cfg` | inputs of up to two lines | StackSafe | violation (finding) |

Why these bounds are enough:

- **Count 2.** A late reply needs a second sequence number. Two sequences show
  late replies, replies for sequences not yet sent, and stale markers of the
  never-sent sequence.
- **MaxExtra 2.** This lets a reply be duplicated and then duplicated again, or
  a duplicate be combined with one noise datagram.
- **Timeout 2 > Delay 1.** A matched reply shortens the wait. The case
  `elapsed == timeout`, which makes the loop call `poll(0)`, occurs at both
  values.

The properties:

- **RoundTripInv**: no sequence gets two ROUNDTRIP events, a sequence gets
  one only once it was sent, and then its marker is set. It needs the marker
  set in every reply branch and the test on `maps[inhdr->seqno]` rather than
  on the current sequence (mutant `RecvReplyWrongMarker`).
- **MarkerMeansRoundTrip**: the converse for the requests sent. A marker set on
  a sequence already sent means its ROUNDTRIP was reported. `maps[]` comes from
  `malloc()` and holds heap garbage, so this rests on the reset before each
  `sendto()` (line 266). Without that reset, a stale marker makes the first
  reply a PKTDUP and its round trip is never reported (mutant
  `SendRequestNoMarkerReset`).
- **TimeoutInv**: the invariant behind NoEarlyTimeout. During a wait,
  `elapsed` never runs ahead of the clock. A `poll()` never ends before the
  timeout. Until the reply is matched, the wait's end is `info->timeout`.
  SendFail resets the clock but not `elapsed`, so the first conjunct holds
  only while the engine waits.
- **NoTimeoutAfterRoundTrip**: no TIMEOUT warning is reported for a sequence
  after its round trip.
- **NoEarlyTimeout**: TIMEOUT is never reported before `info->timeout` has
  passed since the send.
- **Termination**: every started session reaches FINISH or a fatal return.
- **ImplementsPingSession**: icmp_ping() refines PingSession. Requests-sent
  grows by one per send up to `info->count`. A ROUNDTRIP goes only to a
  sequence already sent, and only once. FINISH follows a session that passed
  set-up. The mutant `ForeignSeqOffByOne` accepts a reply one sequence ahead,
  as a test `seqno > result.seqno + 1` would. Then a round trip is reported for
  a request never sent, and TLC finds it in a few steps.
- **VerifiedLeRequests**: verified replies never exceed requests. This is what
  spec §3 requires. The code breaks it: duplicates are counted (line 395).
- **PacedSends**: two requests are at least `info->delay` apart. This is spec
  §4.1 step 6. The IPv4 code breaks it when no reply arrives and Timeout <
  Delay (run icmp_pacing).
- **NoEarlyNoResponse** (Ping6): this is NoEarlyTimeout for ping6.
- **WaitInv** (Ping6): `nrequests` is `seqno` at the loop head and
  `seqno + 1` from the send to the sleep. A wait has `elapsed <= clk` and a
  poll end no earlier than the timeout. The loop head after a request is
  reached only once `info->delay` has passed. So ping6 keeps the pacing that
  IPv4 breaks: its `nanosleep` covers every path out of the wait. Ping6 is
  checked with Timeout < Delay, so the sleep is needed on every one of those
  paths (mutant `PaceNoSleep`). NoEarlyNoResponse rests on WaitInv.
- **WaitEndsOnReplyOrTimeout** (Ping6): a wait ends only with its reply or
  after the timeout. This is spec §4.1 step 5. The run uses Delay = Timeout, so
  that the retry budget `delay > elapsed` cannot end the wait first. What ends
  the wait is then the foreign ICMPv6 type alone.
- **LossInRange** (Ping6): the printed loss lies in 0..100.

- **DevClosedOnReturn** (Regmap): every return path has closed `dev_fd`.
  The paths are the usage errors, `single()`, the `-ENOMEM` and ioctl-error
  gotos of both batch functions, and the normal end.
- **ResourcesSafe** (Regmap) has three conjuncts:
  - every heap element touched lies inside its block;
  - `free()` only gets pointers `malloc()` returned;
  - no path returns with the `FILE` open.

  TLC's shortest counterexample is the `FILE` leak. Each conjunct alone is
  violated too (`InAllocation`, `FreeOnlyAllocated`, `FileClosedOnReturn`).
- **LoadSendsFile** (Regmap): a load sends exactly the leading well-formed
  lines of the file, as many as requested (`GoodPrefix`).
- **StoreSavesRequested** (Regmap): a successful store leaves one line per
  register requested.
- **TypeOK** (NxRecorder) also bounds the stack writes to `buffer[-1..BufLen]`
  and `argv[0..3]`. The inputs include `mw` with four words, one more than the
  splitter stores. A splitter bound one higher (`argc <= 4`, mutant
  `MwArgcOffByOne`) would write `argv[4]`, and TLC finds that.
- **StoppedOnRelease** (NxRecorder): an action property. The recorder is idle
  at the step that releases it. The quit handler is the only one that clears
  `running`, and it stops the recording first.
- **QuitEndsSession** (NxRecorder): an input that holds `q` or `quit` ends the
  session. Inputs without one never do (finding 8).
- **StackSafe** (NxRecorder) has three parts:
  - `buffer[len]` stays in `buffer[0..63]`;
  - the `mw` splitter writes only `argv[0..2]`;
  - no unset variable is read.

Ping6's checks need two sequences: a duplicate of the first echo is only read
during the wait for the second.

Each property of a passing run has a mutant in `PROJECT.json`: an operator
written just before the definition it replaces, which TLC shows breaks the
property.

| Mutant | Bug it stands for |
|---|---|
| `SendRequestOffByOne` | loop bound `<=` |
| `SendRequestStaleElapsed` | `elapsed` not reset |
| `SendRequestNoMarkerReset` | no `maps[seqno] = 0` before `sendto()` |
| `RecvReplyWrongMarker` | tests `maps[seqno]` |
| `ForeignSeqOffByOne` | accepts `seqno == result.seqno + 1` |
| `PollTimeoutWarnUnguarded` | warns even when matched |
| `PollTimeoutWarnStale` | the clock is not re-read after `poll()` |
| `PaceNoSleep` (Ping6) | no `nanosleep` |
| `PollTimeoutRetry` (Ping6) | retry left true on a timeout |
| `AdjustUnguarded` (Regmap) | `reg_num = i` without the `i < reg_num` test |
| `ErrorNoClose` (Regmap) | the `error` label jumps straight to `error_arg` |
| `ParseLineNoIncrement` (Regmap) | the parse loop without `++i` |
| `MwArgcOffByOne` (NxRecorder) | splitter bound `argc <= 4` |
| `CmdQuitNoStop` (NxRecorder) | `quit` without `nxrecorder_stop()` |
| `CmdQuitKeepRunning` (NxRecorder) | the loop does not see the quit handler |

### Fairness

`FairSpec` assumes weak fairness of `Progress` (the engine's non-failing steps)
and of `Tick`:

- the engine is a single thread that keeps running while it is enabled;
- `clock()` keeps advancing.

Fatal I/O errors and the network's actions carry no fairness. Termination
therefore holds whatever the network does.

Regmap and NxRecorder assume weak fairness of `Next`. Each is one thread with
no other actor, so a step that is enabled is taken.

## 4. Findings

1. **Duplicates are counted** (`icmp_ping.c:395`). A duplicate reply takes the
   PKTDUP branch and then falls through to the payload check and
   `nreplies++`. Run: icmp_dup_counted.
2. **No pacing in the IPv4 engine** (`icmp_ping.c:286`). `info->delay` only
   replaces the timeout after a matched reply. When no reply arrives, requests
   go out every `timeout` ms. Run: icmp_pacing.
3. **ping6 loss wraps** (`ping6.c:439`, with the count at line 393). Late and
   duplicated echoes are all counted. Once `nreplies > nrequests`, the loss is
   negative as an int and enormous as unsigned. Run: ping6_loss_wraps.
4. **ping6 stops waiting on a foreign ICMPv6 type** (`ping6.c:397`). The else
   branch leaves `retry` false, and this ends the wait. Run:
   ping6_foreign_type.

5. **regmap leaks and overruns** (`regmap_main.c:269`, `:77`, `:132`). Run:
   regmap_resources. Three bugs:
   - A store or load whose reg_num does not parse, or that has six
     arguments, goes to `error` with the `FILE` open.
   - `malloc(reg_num)` allocates bytes for 4-byte elements.
   - A failed first `malloc()` frees the unset `regmap_arg.values`.
6. **regmap load sends the wrong registers** (`regmap_main.c:116`, `:173`).
   Run: regmap_load. Two bugs:
   - In `batch_num()`, the `i--` before `break` drops the last good line. At
     line 0 it makes i = -1, which the unsigned test ignores, so
     uninitialised pairs are sent.
   - `batch()` parses the last line it counted for every entry.
7. **regmap store saves nothing** (`regmap_main.c:264`). The file is opened
   with "w", so `batch()` counts zero lines. Run: regmap_store_truncates.
8. **nxrecorder at end of input** (`nxrecorder_main.c:552`). Run:
   nxrecorder_stack. Several bugs:
   - `readline()` returns EOF, and `buffer[-1]` is written.
   - The loop then reads again forever.
   - The `mw` splitter writes `argv[3]` of `char *argv[3]` (line 204), and
     reads an unset `argv[1]` (line 147).
   - `recordraw` without a file name passes an unset `filename[]`
     (line 265).

## 5. Proofs

Every safety property of a passing run is proved with TLAPS, for every value
of the constants that satisfies the module's assumptions. TLC shows each one
on a small instance. The theorems:

| Module | Theorem | Statement |
|---|---|---|
| IcmpPingProofs | `TypeCorrect` | `Spec => []TypeOK` |
| IcmpPingProofs | `RoundTripInvHolds`, `MarkerMeansRoundTripHolds` | `Spec => []RoundTripInv`, `Spec => []MarkerMeansRoundTrip` |
| IcmpPingProofs | `TimeoutInvHolds` | `Spec => []TimeoutInv` |
| IcmpPingProofs | `NoEarlyTimeoutHolds`, `NoTimeoutAfterRoundTripHolds` | the two action properties |
| IcmpPingProofs | `ImplementsPingSessionHolds` | `Spec => ImplementsPingSession` (refinement) |
| Ping6Proofs | `TypeCorrect`, `WaitInvHolds` | `Spec => []TypeOK`, `Spec => []WaitInv` |
| Ping6Proofs | `NoEarlyNoResponseHolds` | the action property |
| RegmapProofs | `TypeCorrect`, `DevClosedOnReturnHolds` | `Spec => []TypeOK`, `Spec => []DevClosedOnReturn` |
| NxRecorderProofs | `TypeCorrect` | `Spec => []TypeOK` |
| NxRecorderProofs | `StoppedOnReleaseHolds` | the action property |

Assumptions used:

- `NetAssumption`: `Count >= 1`, `Noise` is a set of packets, `MaxExtra` is
  a natural number.
- `PingAssumption`: `Timeout` and `Delay` are natural numbers.
- `Ping6Assumption`: `Timeout` and `Delay` lie in 1..32767, the range
  `ping6_main()` accepts. It is written with comparisons, not as a range
  literal: with `x \in 1..32767` among its facts, tlapm's preprocessing times
  out on every obligation.
- `RegmapAssumption`: `MaxRegs >= 1`, and the files have at most `MaxRegs`
  lines.
- `NxRecorderAssumption`: inputs are sequences of lines, and `BufLen >= 1`.

Every proof has the same shape:

1. Find an inductive invariant.
2. Check it with TLC.
3. Prove `Init => Inv` and `Inv /\ [Next]_vars => Inv'`, with one step per
   action.
4. Derive the theorem by PTL.

An action property `[][A]_vars` follows from `Inv /\ [Next]_vars => [A]_vars`.
`EchoNetProofs` proves once that every network action keeps the network's
variables typed. Both ping engines cite it.

### IcmpPing

`IInv == TypeOK /\ RoundTripInv` is inductive. Neither conjunct is inductive
by itself:

- `WaitEnd` and `PollTimeoutMatched` advance `seqno`. This stays within
  `0..Count` only because, while the engine waits, `nrequests = seqno + 1 <=
  Count`.
- `RecvReply` could add a second ROUNDTRIP only if a sequence with a round trip
  had its marker cleared. Only `SendRequest` clears a marker, and it clears one
  whose sequence was never sent (`nrtt = 0`).

`MarkerMeansRoundTrip` is not inductive alone either. Lemma `NextMarker`
proves that each step keeps it, given IInv:

- `SendRequest` clears the marker of `seqno`, which is `nrequests` at the loop
  head. That is the request just sent.
- `SendFail` clears the marker of `nrequests`, which is not a request sent.
- `RecvReply` with an unset marker has `nrtt = 0` by RoundTripInv, and it
  adds the one ROUNDTRIP as it sets the marker.

The timing proofs use `TInv == IInv /\ TimeoutInv`:

- The poll timeout branch compares `elapsed` against the wait's end.
  Bounding `elapsed` by the clock needs `pc`, since SendFail resets the clock
  and leaves `elapsed`.

The action properties are about the events a step appends to `out`. `Tick`
and the network keep `out`, so a TIMEOUT event queued earlier is still there
in later states. `OInv == TInv /\ TimeoutOut` adds `TimeoutOut`: every TIMEOUT
already in `out` was made at a clock of at least `Timeout`, for a sequence
with no round trip. Lemma `OutOfStep` sorts every step into three kinds:

- the warning step itself (lemma `WarnLate`);
- a step that keeps `out`;
- a step that makes `out` a sequence of non-TIMEOUT events.

The refinement proof has two parts:

- `Init` maps to `Session!Init`.
- `IInv /\ [Next]_vars` implies `[Session!Next]_Session!vars`.

The step proof has one case for each group of actions:

- `StartOk` is `Begin`, and `StartFail` is `SetupFail`.
- `SendRequest` is `Send`.
- The fatal steps, `LoopEnd` and `RecvSmall` are `End`.
- `Finish` is `Finish`.
- The wait-loop steps, `Tick` and `Network` are stutters (lemma
  `SessionStutter`).
- `RecvReply` is a stutter when the marker is set, and `RoundTrip(p.seq)`
  otherwise (lemma `ReplyRefines`). This needs `p.seq < nrequests` and
  `nrtt[p.seq] = 0`, which come from IInv.

### Ping6

`IInv == TypeOK /\ WaitInv`:

- `nreplies` is a `uint16_t` that every verified echo, duplicates included,
  increments modulo 2^16. TypeOK states `nreplies < U16`, which the `% U16`
  keeps.
- `Pace` and `Sleep` set the clock to the pacing deadline. `WaitInv` records
  that the loop head is reached after a request only once `clk >= Delay`.
- `NoEarlyNoResponse` uses `OInv == IInv /\ NoResponseOut`, the counterpart
  of TimeoutOut for "No response" lines.

### Regmap

`IInv == TypeCtl /\ TypeFile /\ TypeMem /\ FileInv /\ LoopInv /\ DevInv`.
The three `Type*` parts are TypeOK split for the provers (lemma
`TypeParts`). TypeOK is not inductive alone:

- `CountLines` sets `reg_num` to the file's line count. That count stays
  within `MaxRegs` only because the file never grows past `MaxRegs` lines.
  This is `FileInv`'s first conjunct: `WriteFile` writes `reg_num` lines.
- `LoadLine` stores the line it reads into `offsets`/`values` and `pair`.
  That line has the type of an input line only because a load reads the
  stream it opened `"r"`, which still holds the original lines.
  This takes the rest of `FileInv`:
  - the stream a batch function uses is `"w"` for a store and `"r"` for a
    load;
  - `fill`/`get`/`write` are reached only by a store, and the `batch_num`
    load loop only by a load;
  - the file is untouched before dispatch.
- `ParseLine` indexes by `i`, which is non-negative in `batch()`'s loop
  (`LoopInv`). `LoadLine` gets the same fact from its unsigned guard.

`DevInv` says the device is not open before `open()` or on the way out
through the usage exit. `DevClosedOnReturn` follows.

### NxRecorder

`IInv == TypeOK /\ QuitInv /\ ReleasedLast /\ Dispatching`, where `QuitInv`
(defined in the proof module) says that once `running` is clear the recorder is
idle:

- `QuitInv` is not inductive alone. `CmdRecordraw` from an idle recorder may
  start recording, so `~running` at the handler must be excluded.
  `Dispatching == pc = "cmd" => running` does that: a line is dispatched only
  while `running` holds.
- `StoppedOnRelease` needs `ReleasedLast == rec = "released" => pc =
  "returned"`. Without it, a handler that keeps `rec` would repeat
  `rec' = "released"` from a recorder that was not idle.

### What stays with TLC

- **Termination** (IcmpPing, Ping6, Regmap) and **QuitEndsSession**
  (NxRecorder). They are liveness under fairness, and TLAPS does not prove
  liveness or ENABLED.
- **The violated properties.** They are findings. TLC's counterexamples are
  the evidence, and there is nothing to prove.
- **Refinement of the other components.** So far only IcmpPing has an
  abstract specification.
- **Recursion and induction over data.** This covers everything about
  recursive definitions, and induction over data. The provers cannot
  instantiate the library's induction schemes. A module that reaches a
  RECURSIVE operator loses the SMT backend. No proof module reaches one.

## 6. Not modelled yet, and the plan

Done: IcmpPing (with proofs and the PingSession refinement), Ping6, Regmap
and NxRecorder, each with its safety properties proved. What remains, in
order:

1. An abstract specification for ping6's session, with the same refinement
   as IcmpPing.
2. **PayloadCodec**: a pure operator checked against its closed form
   `0x20 + i % 95`.
3. A two-session composition for the unsynchronised `g_ping6_id`
   (ping6.c:109).

Left out:

- cs1237 and ili9486 are pure device I/O with no state to check. `set_color`
  is the only candidate operator.
- Host resolution and socket creation are not code of this repository.
- The recorder library behind `nxrecorder_*()` is not in this repository
  either. NxRecorder models it as an environment.
