------------------------------ MODULE MCPasChan ------------------------------
(* Small programs over PasChan: which activations, channels and selects.   *)
EXTENDS PasChan, TLC

CONSTANTS main, task1, task2, chanA, chanB, val1, val2, none, junk

CapOne == [c \in Chan |-> 1]
CapTwo == [c \in Chan |-> 2]

\* The tasks are not told apart.
TaskSymmetry == Permutations({task1, task2})

R(c) == [kind |-> "receive", chan |-> c, val |-> val1]
S(c) == [kind |-> "send", chan |-> c, val |-> val1]

\* A receive and a send arm on two channels, a bounded select, and the error.
TwoChannels == {[arms |-> <<R(chanA), S(chanB)>>, wait |-> "forever"],
                [arms |-> <<R(chanA)>>, wait |-> "deadline"],
                [arms |-> <<R(chanA)>>, wait |-> "negative"]}
=============================================================================
