----------------------------- MODULE MCFastMap -----------------------------
(***************************************************************************)
(* FastMap instantiated for TLC.  Three keys whose hashes all fall in the  *)
(* last bucket of 2 and 4 buckets and, with 8 buckets, k1 and k2 in the    *)
(* last one (k2 wraps to bucket 0) and k3 in bucket 0 (where it meets k2   *)
(* and probes on); one int and one long key, a 4-byte value block, and a   *)
(* 16-byte first page so that the first keys already make the arena grow  *)
(* and move between the two base addresses.                                *)
(***************************************************************************)
EXTENDS FastMap, TLC

CONSTANTS k1, k2, k3

MCKeys == {k1, k2, k3}

MCHash == k1 :> 7 @@ k2 :> 15 @@ k3 :> 8

MCKeyWidth == k1 :> 4 @@ k2 :> 8 @@ k3 :> 4

MCBases == {1024, 4096}

\* one view for the runs about the map itself; two for the run about views
\* held at the same time (createValue and createValue2)
MCOneView == {"value"}

MCTwoViews == {"value", "value2"}
=============================================================================
