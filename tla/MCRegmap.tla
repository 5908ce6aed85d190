------------------------------- MODULE MCRegmap -------------------------------
(* regmap on every command line, against files that exercise each parse    *)
(* outcome: well-formed lines, a line with only an offset, a blank line.   *)
EXTENDS Regmap

\* Two hex numbers (Vals = {a, b}) are enough to tell lines apart.
MCLineA == [off |-> CHOOSE v \in Vals : TRUE, val |-> CHOOSE v \in Vals : TRUE]
MCLineB == [off |-> CHOOSE v \in Vals : v /= MCLineA.off,
            val |-> CHOOSE v \in Vals : v /= MCLineA.off]
MCHalf  == [off |-> MCLineA.off, val |-> None]
MCBlank == [off |-> None, val |-> None]

MCFiles ==
    { <<>>, <<MCLineA>>, <<MCLineA, MCLineB>>, <<MCLineA, MCHalf>>,
      <<MCBlank, MCLineB>>, <<MCLineA, MCLineB, MCLineA, MCLineB>> }

\* Every command line.
MCArgs == Arg

\* The loads of batch() (four arguments) and of batch_num() (five).
MCLoads == {a \in Arg : a.cmd = "load" /\ a.argc \in {4, 5}}

=============================================================================
