------------------------- MODULE MCTriggerDecision -------------------------
(* DUs 1, 2 and 4 are close; the file of distances lacks pair 2, 4 and     *)
(* whatever has to do with DU 5.                                           *)
(* With the filter for repeats on, buckets hold one event of three DUs,    *)
(* which begins at 0 and may have two hits of one DU.  Without it they     *)
(* hold hits of four DUs over more than one window, so that windows        *)
(* compete for them; or enough hits in one window for sets of compatible   *)
(* hits to compete; or five DUs, which the causal filter lets through.     *)
EXTENDS TriggerDecision

MCDelay ==
  ({1, 2} :> 0) @@ ({2, 3} :> 1) @@ ({1, 3} :> 1) @@ ({1, 4} :> 0) @@ ({3, 4} :> 2)

HitsOf(dus, times, n) == kSubset(n, [du : dus, t : times])

MCBuckets(c) ==
  IF c.duplicate
  THEN {b \in HitsOf(1..3, 0..2, 3) \cup HitsOf(1..3, 0..2, 4) :
          {h.du : h \in b} = 1..3 /\ \E h \in b : h.t = 0}
  ELSE UNION {HitsOf(1..4, 0..3, 4), HitsOf(1..4, 0..2, 6), HitsOf(1..5, 0..1, 5)}

MCConfigs ==
  {[trigger_type |-> 0, causal |-> FALSE, template |-> FALSE, duplicate |-> FALSE],
   [trigger_type |-> 1, causal |-> FALSE, template |-> FALSE, duplicate |-> TRUE],
   [trigger_type |-> 2, causal |-> TRUE, template |-> TRUE, duplicate |-> FALSE],
   [trigger_type |-> 2, causal |-> TRUE, template |-> FALSE, duplicate |-> TRUE]}
=============================================================================
