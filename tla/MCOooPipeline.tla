---------------------------- MODULE MCOooPipeline ----------------------------
(***************************************************************************)
(* The pipeline for TLC: arrays of up to four index_t whose ts differ in   *)
(* the first, second and third byte (1, 256, 257, 65536), with repeats,   *)
(* so that three radix passes decide the order and ties occur; each row   *)
(* has a variable-length value of 0 to MaxVarLen bytes.                    *)
(***************************************************************************)
EXTENDS OooPipeline

\* Uninitialised memory: some ts, and a row that no input has.
MCNoElem == <<0, -1>>

MCTs == {1, 256, 257, 65536}

\* index_t arrays of length 0 .. 4: the ts from MCTs, i the row's position.
MCArrays ==
    UNION {{[x \in 0..n-1 |-> <<f[x], x>>] : f \in [0..n-1 -> MCTs]} : n \in 0..4}
=============================================================================
