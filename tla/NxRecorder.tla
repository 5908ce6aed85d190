------------------------------ MODULE NxRecorder ------------------------------
(***************************************************************************)
(* The interactive shell of apps/system/nxrecorder/nxrecorder_main.c:      *)
(* nxrecorder_main() creates a recorder context, reads lines with          *)
(* readline() until a quit command, looks each command up in               *)
(* g_nxrecorder_cmds[] and calls its handler, then releases the context.   *)
(*                                                                         *)
(* The console input is a constant sequence of lines, each abstracted to   *)
(* its command word and, for "mw", the number of words after it.  After    *)
(* the last line readline() returns EOF (-1), as its header documents.     *)
(* The recorder library (nxrecorder_create/recordraw/pause/resume/stop/    *)
(* setdevice/release) is not part of this file: it is an environment with *)
(* a state idle/recording/paused and nondeterministic results.  Stack      *)
(* accesses the code makes out of bounds, or to uninitialised variables,   *)
(* are recorded so that they can be stated.                                *)
(***************************************************************************)
EXTENDS Integers, Sequences

CONSTANTS
    Inputs,     \* the console inputs: sequences of Line
    BufLen      \* sizeof(buffer) in nxrecorder_main()

\* The commands of g_nxrecorder_cmds[] (help and pause/resume configured in).
Commands == {"device", "h", "help", "mw", "recordraw", "pause", "resume",
             "stop", "q", "quit"}

\* A line: its first word (none for a blank line, or an unknown word) and
\* the number of words after it.
Line == [cmd : Commands \cup {"blank", "unknown"}, words : 0..4]

ASSUME NxRecorderAssumption ==
    /\ Inputs \subseteq Seq(Line)
    /\ BufLen \in Nat \ {0}

\* readline()'s result at end of input.
EOF == -1

VARIABLES
    pc,         \* "start", "loop" (the while test), "cmd", or "returned"
    input,      \* the console's lines
    pos,        \* the next line readline() returns
    cur,        \* the line being dispatched
    running,    \* the loop flag `running`
    rec,        \* the recorder library's state
    device,     \* whether a preferred device has been set
    stores,     \* <<array, index>> of every stack write through an index
    uninit      \* the stack variables read before being written

vars == <<pc, input, pos, cur, running, rec, device, stores, uninit>>

TypeOK ==
    /\ pc \in {"start", "loop", "cmd", "returned"}
    /\ input \in Seq(Line)
    /\ pos \in 1..Len(input)+1
    /\ cur \in Line
    /\ running \in BOOLEAN
    /\ rec \in {"none", "idle", "recording", "paused", "released"}
    /\ device \in BOOLEAN
    /\ stores \subseteq ({"buffer"} \X (-1..BufLen)) \cup ({"argv"} \X (0..3))
    /\ uninit \subseteq {"argv[1]", "filename"}

Init ==
    /\ pc = "start"
    /\ input \in Inputs
    /\ pos = 1
    /\ cur = [cmd |-> "blank", words |-> 0]
    /\ running = FALSE
    /\ rec = "none"
    /\ device = FALSE
    /\ stores = {}
    /\ uninit = {}

-----------------------------------------------------------------------------
(* nxrecorder_main()                                                       *)

(* nxrecorder_create(): NULL ends the program with -ENOMEM; otherwise the  *)
(* loop starts with running = TRUE.                                        *)
Create ==
    /\ pc = "start"
    /\ \/ rec' = "idle" /\ running' = TRUE /\ pc' = "loop"
       \/ pc' = "returned" /\ UNCHANGED <<rec, running>>
    /\ UNCHANGED <<input, pos, cur, device, stores, uninit>>

(* One pass of the loop: readline(), buffer[len] = '\0', and, for a line   *)
(* with a command word, the dispatch.  At end of input len = EOF: the NUL  *)
(* goes to buffer[-1] and the loop reads again.  A blank line (strtok_r()  *)
(* finds no word) continues the loop.                                      *)
ReadLine ==
    /\ pc = "loop"
    /\ running
    /\ IF pos > Len(input)
       THEN /\ stores' = stores \cup {<<"buffer", EOF>>}
            /\ UNCHANGED <<pos, cur, pc>>
       ELSE /\ stores' = stores \cup {<<"buffer", 1>>}
            /\ pos' = pos + 1
            /\ cur' = input[pos]
            /\ pc' = IF input[pos].cmd = "blank" THEN "loop" ELSE "cmd"
    /\ UNCHANGED <<input, running, rec, device, uninit>>

(* running is FALSE: nxrecorder_release() and return OK.                   *)
Release ==
    /\ pc = "loop"
    /\ ~running
    /\ rec' = "released"
    /\ pc' = "returned"
    /\ UNCHANGED <<input, pos, cur, running, device, stores, uninit>>

-----------------------------------------------------------------------------
(* The command handlers; each returns to the loop.                         *)

Handler(c) == pc = "cmd" /\ cur.cmd = c /\ pc' = "loop"

(* nxrecorder_cmd_device(): nxrecorder_setdevice(parg), and on -ENOENT     *)
(* again with "/dev/audio/<parg>"; either call may set the device.         *)
CmdDevice ==
    /\ Handler("device")
    /\ device' \in {device, TRUE}
    /\ UNCHANGED <<input, pos, cur, running, rec, stores, uninit>>

(* nxrecorder_cmd_help() prints the table; "h" and "help" share it.        *)
CmdHelp ==
    /\ pc = "cmd" /\ cur.cmd \in {"h", "help"} /\ pc' = "loop"
    /\ UNCHANGED <<input, pos, cur, running, rec, device, stores, uninit>>

\* Mutant of MwArgc: a splitter bound of argc <= 4, which stores argv[4].
MwArgcOffByOne(w) == 1 + (IF w < 4 THEN w ELSE 4)

\* The splitter of nxrecorder_cmd_mw(): argv[argc] = the next word while
\* argc <= 3, so the argc it ends with for a line of w words.
MwArgc(w) == 1 + (IF w < 3 THEN w ELSE 3)

\* mem_parse() reads argv[1] (strchr, strtoul) whatever argc is, and
\* argv[2] only when argc > 2: the reads of unset entries.
MemParseUnset(argc) == IF argc = 1 THEN {"argv[1]"} ELSE {}

(* nxrecorder_cmd_mw(): split parg into argv[1..], which for three words   *)
(* writes argv[3] of char *argv[3], then mem_parse() (the access loop at   *)
(* the parsed address is outside the model).                               *)
CmdMw ==
    /\ Handler("mw")
    /\ LET argc == MwArgc(cur.words)
       IN /\ stores' = stores \cup {<<"argv", k>> : k \in 1..argc-1}
          /\ uninit' = uninit \cup MemParseUnset(argc)
    /\ UNCHANGED <<input, pos, cur, running, rec, device>>

(* nxrecorder_cmd_recordraw(): sscanf(parg, "%s ...", filename) leaves     *)
(* filename unset when parg is empty, and nxrecorder_recordraw() is called *)
(* with it anyway; the library starts recording only when idle (else       *)
(* -EBUSY), and may fail with -ENODEV, -ENOENT or -ENOSYS.                 *)
CmdRecordraw ==
    /\ Handler("recordraw")
    /\ uninit' = IF cur.words = 0 THEN uninit \cup {"filename"} ELSE uninit
    /\ rec' \in IF rec = "idle" THEN {"idle", "recording"} ELSE {rec}
    /\ UNCHANGED <<input, pos, cur, running, device, stores>>

(* nxrecorder_cmd_pause() / nxrecorder_cmd_resume().                       *)
CmdPause ==
    /\ Handler("pause")
    /\ rec' = IF rec = "recording" THEN "paused" ELSE rec
    /\ UNCHANGED <<input, pos, cur, running, device, stores, uninit>>

CmdResume ==
    /\ Handler("resume")
    /\ rec' = IF rec = "paused" THEN "recording" ELSE rec
    /\ UNCHANGED <<input, pos, cur, running, device, stores, uninit>>

(* nxrecorder_cmd_stop(): nxrecorder_stop().                               *)
CmdStop ==
    /\ Handler("stop")
    /\ rec' = "idle"
    /\ UNCHANGED <<input, pos, cur, running, device, stores, uninit>>

\* Mutant of CmdQuit: the handler returns without nxrecorder_stop().
CmdQuitNoStop ==
    /\ pc = "cmd" /\ cur.cmd \in {"q", "quit"} /\ pc' = "loop"
    /\ running' = FALSE
    /\ UNCHANGED <<input, pos, cur, rec, device, stores, uninit>>

\* Mutant of CmdQuit: the loop misses that the handler is the quit one.
CmdQuitKeepRunning ==
    /\ pc = "cmd" /\ cur.cmd \in {"q", "quit"} /\ pc' = "loop"
    /\ rec' = "idle"
    /\ UNCHANGED <<input, pos, cur, running, device, stores, uninit>>

(* "q" or "quit": nxrecorder_cmd_quit() stops the recording, and the loop  *)
(* sees the quit handler and clears running.                               *)
CmdQuit ==
    /\ pc = "cmd" /\ cur.cmd \in {"q", "quit"} /\ pc' = "loop"
    /\ rec' = "idle"
    /\ running' = FALSE
    /\ UNCHANGED <<input, pos, cur, device, stores, uninit>>

(* No entry of the table matches: "unknown nxrecorder command".            *)
Unknown ==
    /\ Handler("unknown")
    /\ UNCHANGED <<input, pos, cur, running, rec, device, stores, uninit>>

Next ==
    \/ Create \/ ReadLine \/ Release
    \/ CmdDevice \/ CmdHelp \/ CmdMw \/ CmdRecordraw \/ CmdPause
    \/ CmdResume \/ CmdStop \/ CmdQuit \/ Unknown

Spec == Init /\ [][Next]_vars

\* One thread runs the shell; it is never starved.
FairSpec == Spec /\ WF_vars(Next)

-----------------------------------------------------------------------------
(* Properties                                                              *)

(* The recorder is never released while it records or is paused: every    *)
(* way out of the loop stops the recording first.                          *)
StoppedOnRelease == [][rec' = "released" => rec = "idle"]_vars

\* buffer[len] = '\0' writes inside char buffer[64].
BufferInBounds == \A s \in stores : s[1] = "buffer" => s[2] \in 0..BufLen-1

\* The mw handler writes only argv[0..2].
ArgvInBounds == \A s \in stores : s[1] = "argv" => s[2] \in 0..2

(* The shell's stack accesses are safe: the NUL after each line and the mw *)
(* splitter write inside their arrays, and neither mem_parse() nor         *)
(* nxrecorder_recordraw() is given a variable that was never set.          *)
StackSafe == BufferInBounds /\ ArgvInBounds /\ uninit = {}

(* A session whose input holds q or quit returns, whatever commands come   *)
(* before it: the quit handler ends the loop and release follows.          *)
QuitEndsSession ==
    (\E k \in 1..Len(input) : input[k].cmd \in {"q", "quit"})
        => <>(pc = "returned")

=============================================================================
