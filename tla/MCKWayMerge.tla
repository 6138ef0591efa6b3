---------------------------- MODULE MCKWayMerge ----------------------------
(***************************************************************************)
(* KWayMerge for TLC: timestamps {1, 2} so that inputs interleave and tie, *)
(* L_MAX = 3 above every timestamp, and up to four inputs, so that three   *)
(* inputs are padded to four entries and four are not.                     *)
(***************************************************************************)
EXTENDS KWayMerge

MCTs == {1, 2}

\* Whatever a read past an index's end returns: below, equal to, between
\* and above the timestamps, or L_MAX itself.
MCGarbage == {0, 1, 2, 3}

\* An index as the caller hands it over: ascending by ts.
Ascending(s) == \A i \in 1..Len(s) - 1 : s[i] <= s[i + 1]

\* The entry arrays of count 0 .. MaxCount, each index of length minLen .. 2.
IndexArrays(minLen, maxCount) ==
    UNION {[1..c -> {s \in BoundedSeq(MCTs, 2) : Len(s) >= minLen /\ Ascending(s)}] : c \in 0..maxCount}

MCNonEmptyInputs == IndexArrays(1, 4)
MCAnyInputs == IndexArrays(0, 3)
=============================================================================
