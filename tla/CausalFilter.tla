---------------------------- MODULE CausalFilter ----------------------------
(***************************************************************************)
(* The causal filter of the central station (grand-daq/include             *)
(* t3_filter.h): of the hits in a window it keeps a largest set of hits    *)
(* that one wave front can have caused, each two of them at most as far    *)
(* apart in time as light needs from one antenna to the other.  The code   *)
(* searches it by branch and bound (Bron-Kerbosch with a pivot).           *)
(*                                                                         *)
(* A window is a sequence of hits [du, t]; a vertex of the graph is an     *)
(* index of it.  Times are those within a second.                          *)
(***************************************************************************)
EXTENDS Integers, SequencesExt

CONSTANTS
  Delay,      \* light's delay between two antennas: [{{d, e}, ...} -> Nat]
  Tolerance   \* causal_tolerance_ns

Hit == [du : Nat, t : Int]

(* areDetectorsCausallyCompatible; a pair that the file of distances does  *)
(* not have is not compatible.                                             *)
Compatible(a, b) ==
  /\ a.du # b.du
  /\ {a.du, b.du} \in DOMAIN Delay
  /\ LET apart == IF a.t >= b.t THEN a.t - b.t ELSE b.t - a.t
     IN apart <= Delay[{a.du, b.du}] + Tolerance

Neighbours(window) ==
  [v \in DOMAIN window |->
     {u \in DOMAIN window : Compatible(window[u], window[v])}]

(* The members of a finite set in order: the k-th has k - 1 before it.     *)
Ordered(S, before(_, _)) ==
  [k \in 1..Cardinality(S) |->
     CHOOSE e \in S : Cardinality({d \in S : before(d, e)}) = k - 1]

(* What is in S of a sequence, in the order of the sequence.               *)
Keep(s, S) ==
  FoldLeft(LAMBDA kept, e : IF e \in S THEN Append(kept, e) ELSE kept, <<>>, s)

(* Candidates with most neighbours first, then by time, DU and index.      *)
Candidates(window, near) ==
  LET degree == [v \in DOMAIN window |-> Cardinality(near[v])]
      key(v) == <<-degree[v], window[v].t, window[v].du, v>>
      before(u, v) == \E k \in 1..4 : /\ key(u)[k] < key(v)[k]
                                      /\ \A l \in 1..(k - 1) : key(u)[l] = key(v)[l]
  IN  Ordered(DOMAIN window, before)

(* The first node that has most neighbours among those still to be added.  *)
Pivot(near, p, x) ==
  LET nodes == p \o x
      score(v) == Cardinality(near[v] \cap ToSet(p))
  IN  nodes[CHOOSE i \in DOMAIN nodes :
              /\ \A j \in DOMAIN nodes : score(nodes[j]) <= score(nodes[i])
              /\ \A j \in 1..(i - 1) : score(nodes[j]) < score(nodes[i])]

Meet(nodes, near, v) == Keep(nodes, near[v])

BranchNodes(near, p, x) ==
  LET away == Keep(p, ToSet(p) \ near[Pivot(near, p, x)])
  IN  IF away = <<>> THEN p ELSE away

(* Where the search may be: in the loop over the branch nodes of one call  *)
(* of bron_kerbosch.                                                       *)
Loops(V) ==
  [current : SUBSET V, nodes : Seq(V), p : Seq(V), x : Seq(V), best : SUBSET V]

(* Mutant: the bound is off by one.                 *)
SearchTooShort(branch, near, current, p, x, best) ==
  CASE Cardinality(current) + Len(p) <= Cardinality(best) + 1 -> best
    [] Cardinality(current) + Len(p) > Cardinality(best) + 1 /\ p \o x = <<>> -> current
    [] OTHER -> branch[[current |-> current, nodes |-> BranchNodes(near, p, x),
                        p |-> p, x |-> x, best |-> best]]

(* bron_kerbosch(p, x) with current and best: the best set afterwards.     *)
(* branch is the loop, as a function of its state.  The order in which two *)
(* sets of one size are preferred is dead code: the first test has cut off *)
(* what is not larger than the best.                                       *)
Search(branch, near, current, p, x, best) ==
  CASE Cardinality(current) + Len(p) <= Cardinality(best) -> best
    [] Cardinality(current) + Len(p) > Cardinality(best) /\ p \o x = <<>> -> current
    [] OTHER -> branch[[current |-> current, nodes |-> BranchNodes(near, p, x),
                        p |-> p, x |-> x, best |-> best]]

(* The loop: a node that is still to be added moves from p to x.           *)
Branch(branch, near, loop) ==
  LET v     == Head(loop.nodes)
      found == Search(branch, near, loop.current \cup {v},
                      Meet(loop.p, near, v), Meet(loop.x, near, v), loop.best)
      rest  == Keep(loop.p, ToSet(loop.p) \ {v})
  IN  CASE loop.nodes = <<>> -> loop.best
        [] loop.nodes # <<>> /\ v \notin ToSet(loop.p) ->
             branch[[loop EXCEPT !.nodes = Tail(@)]]
        [] OTHER ->
             IF Cardinality(loop.current) + Len(rest) <= Cardinality(found) THEN found
             ELSE branch[[current |-> loop.current, nodes |-> Tail(loop.nodes),
                          p |-> rest, x |-> Append(loop.x, v), best |-> found]]

(* findMaximumCausalSubsetIndices                                          *)
MaximumCausalSubset(window) ==
  LET near == Neighbours(window)
      branch[loop \in Loops(DOMAIN window)] == Branch(branch, near, loop)
  IN  Search(branch, near, {}, Candidates(window, near), <<>>, {})

(* What the search is for: no set of hits, each two of them compatible, is *)
(* larger than the one found, and the one found is such a set.             *)
PairwiseCompatible(window, s) ==
  \A u, v \in s : u # v => Compatible(window[u], window[v])
IsLargestCompatible(window, s) ==
  /\ s \subseteq DOMAIN window /\ PairwiseCompatible(window, s)
  /\ \A r \in SUBSET DOMAIN window :
       PairwiseCompatible(window, r) => Cardinality(r) <= Cardinality(s)

=============================================================================
