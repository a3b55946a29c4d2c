-------------------------- MODULE MCOpticalReceive --------------------------
(* An instance of OpticalReceive for TLC: a transfer and a standalone file. *)
EXTENDS OpticalReceive

CONSTANT w1

Part(id, i, name) == [id |-> id, index |-> i, name |-> name]
MCStreams == {Part("a", i, "f") : i \in 0 .. Count - 1} \cup {Part("b", Standalone, "g")}
MCWorkers == {w1}
=============================================================================
