----------------------------- MODULE MCNxRecorder -----------------------------
(* The shell on every console input of up to three lines.                  *)
EXTENDS NxRecorder

\* Every kind of line once; mw with 0 to 4 words (four is one more than the
\* splitter stores).
MCLines ==
    {[cmd |-> c, words |-> 0] : c \in Commands \cup {"blank", "unknown"}}
    \cup {[cmd |-> "mw", words |-> w] : w \in 1..4}
    \cup {[cmd |-> "recordraw", words |-> 1]}

\* The recording commands, and the lines that end the session.
MCRecLines == {l \in MCLines : l.cmd \in {"recordraw", "pause", "resume", "stop"}}
MCQuit == {[cmd |-> "q", words |-> 0], [cmd |-> "quit", words |-> 0]}

\* Inputs of at most two lines, and recording sessions of up to three
\* recording commands.
MCInputs ==
    UNION {[1..n -> MCLines] : n \in 0..2}
    \cup UNION {[1..n -> MCRecLines] : n \in 3..3}

\* Sessions that end with a quit command after two other lines.
MCQuitInputs ==
    {s \o <<q>> : s \in UNION {[1..n -> MCLines \ MCQuit] : n \in 0..2},
                  q \in MCQuit}

\* Both kinds of input.
MCAllInputs == MCInputs \cup MCQuitInputs

=============================================================================
