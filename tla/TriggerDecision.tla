--------------------------- MODULE TriggerDecision ---------------------------
(***************************************************************************)
(* How the trigger thread decides on a bucket the gate has let go          *)
(* (grand-daq/src/trigger_processor_pipeline.cpp processBucket and         *)
(* collectTriggerResults, include/t3_filter.h).  A window slides over the  *)
(* hits of one second; where it holds hits of enough DUs it is a           *)
(* candidate, which the T3 filter accepts, thins out or rejects.  Whatever *)
(* the filter says, the candidate's hits are consumed.                     *)
(*                                                                         *)
(* Abstractions.  A bucket is a set of hits, a hit a DU and a time within  *)
(* the second.  related_value is left out: the template match is a         *)
(* nondeterministic answer.  Counters, logs and the switch that stops      *)
(* after the first match, which only tests use, are left out, and so are   *)
(* the calls that reset and seed the filter, which the program never makes.*)
(* config.causal says that the causal window is enabled and the file of    *)
(* distances was read.                                                     *)
(***************************************************************************)
EXTENDS CausalFilter

CONSTANTS
  Configs,       \* records of trigger_type, causal, template, duplicate
  Buckets(_),    \* the sets of hits a bucket may hold, for a configuration
  Nhit,          \* nhit_threshold
  Window,        \* time_window_ns
  Bypass,        \* kHighMultiplicityBypassUniqueDuThreshold, 20 in the code
  MinPair,       \* duplicate_min_pair
  DiffLimit,     \* duplicate_time_diff_ns
  HistorySize,   \* duplicate_history_size
  MaxBuckets     \* bound: buckets that come one after the other

ASSUME DecisionConstants ==
  /\ Nhit \in Nat \ {0} /\ {Window, Bypass, MinPair, DiffLimit} \subseteq Nat
  /\ HistorySize \in Nat /\ MaxBuckets \in Nat
  /\ \A c \in Configs : \A b \in Buckets(c) : IsFiniteSet(b) /\ b \subseteq Hit

VARIABLES
  config,   \* chosen once
  hits,     \* sorted_hits of the bucket in hand
  i, jEnd,  \* indices of the scan
  window,   \* window_hits
  counts,   \* du_counts, for the DUs it has an entry of
  uniqueDu, \* unique_du
  prev,     \* prev_pairs_ of the filter
  past,     \* history_ of the filter
  taken,    \* buckets taken so far
  judged,   \* history: the candidates of this bucket and what became of them
  accepted, \* history: the selection of the last candidate accepted
  repelled  \* history: the selections of the last candidates rejected as repeats

scan    == <<hits, i, jEnd, window, counts, uniqueDu>>
filter  == <<prev, past>>
history == <<judged, accepted, repelled>>
vars == <<config, scan, filter, taken, history>>

DUs(s) == {s[k].du : k \in DOMAIN s}

Sorted(b) == Ordered(b, LAMBDA g, h : g.t < h.t \/ (g.t = h.t /\ g.du < h.du))

Init ==
  /\ config \in Configs
  /\ hits = <<>> /\ i = 1 /\ jEnd = 1
  /\ window = <<>> /\ counts = <<>> /\ uniqueDu = 0
  /\ prev = <<>> /\ past = <<>>
  /\ taken = 0 /\ judged = <<>> /\ accepted = <<>> /\ repelled = <<>>

Scanned == i > Len(hits)

TakeBucket ==
  /\ hits = <<>> /\ taken < MaxBuckets
  /\ taken' = taken + 1
  /\ \E b \in Buckets(config) : hits' = Sorted(b)
  /\ i' = 1 /\ jEnd' = 1
  /\ window' = <<>> /\ counts' = <<>> /\ uniqueDu' = 0
  /\ UNCHANGED <<config, filter, history>>

(* The results go to the callback; nothing but the filter outlasts them.   *)
ReturnResults ==
  /\ hits # <<>> /\ Scanned
  /\ hits' = <<>> /\ judged' = <<>>
  /\ i' = 1 /\ jEnd' = 1
  /\ window' = <<>> /\ counts' = <<>> /\ uniqueDu' = 0
  /\ UNCHANGED <<config, filter, taken, accepted, repelled>>

(* trigger_type 0: everything in the bucket is one trigger.                *)
PassThrough ==
  /\ ~Scanned /\ config.trigger_type = 0
  /\ i' = Len(hits) + 1
  /\ judged' = <<[window |-> hits, kept |-> DOMAIN hits, outcome |-> "accepted"]>>
  /\ UNCHANGED <<config, hits, jEnd, window, counts, uniqueDu, filter, taken,
                 accepted, repelled>>

-----------------------------------------------------------------------------
(* The window.  w, c and u stand for window, counts and uniqueDu.          *)

Count(c, d) == IF d \in DOMAIN c THEN c[d] ELSE 0

AddHit(s, h) ==
  [w |-> Append(s.w, h),
   c |-> [d \in DOMAIN s.c \cup {h.du} |->
            IF d = h.du THEN Count(s.c, d) + 1 ELSE s.c[d]],
   u |-> IF Count(s.c, h.du) = 0 THEN s.u + 1 ELSE s.u]

(* removeHitFromWindowFront: of the counts; the window itself is the       *)
(* caller's.                                                               *)
RemoveHit(s, h) ==
  CASE Count(s.c, h.du) = 0 -> s
    [] Count(s.c, h.du) = 1 ->
         [s EXCEPT !.c = Restrict(s.c, DOMAIN s.c \ {h.du}), !.u = @ - 1]
    [] OTHER -> [s EXCEPT !.c[h.du] = @ - 1]

(* First hit, from index j on, that is too late for a window that begins   *)
(* with hit i.                                                             *)
WindowEnd(j) ==
  CHOOSE e \in j..(Len(hits) + 1) :
    /\ \A k \in j..(e - 1) : hits[k].t - hits[i].t <= Window
    /\ e <= Len(hits) => hits[e].t - hits[i].t > Window

(* j_end may not lag behind i; then everything within reach is added.      *)
Filled ==
  LET lag   == jEnd < i
      begin == IF lag THEN i ELSE jEnd
      s0    == IF lag THEN [w |-> <<>>, c |-> <<>>, u |-> 0]
               ELSE [w |-> window, c |-> counts, u |-> uniqueDu]
  IN  [s |-> FoldLeft(AddHit, s0, SubSeq(hits, begin, WindowEnd(begin) - 1)),
       j |-> WindowEnd(begin)]

KeepWindow(s) == window' = s.w /\ counts' = s.c /\ uniqueDu' = s.u

(* Mutant: the window is emptied, its counts stay.  *)
ConsumedUncounted(s, j) == [s EXCEPT !.w = <<>>]

(* What is in the window belongs to one candidate only.                    *)
Consumed(s, j) ==
  [FoldLeft(RemoveHit, s, SubSeq(hits, i, j - 1)) EXCEPT !.w = <<>>]

-----------------------------------------------------------------------------
(* The filter for repeated events.                                         *)

(* calculatePairDifferences: the last two hits of a pair of DUs count.     *)
PairDiffs(s) ==
  LET pairs  == {p \in (DOMAIN s) \X (DOMAIN s) : p[1] < p[2]}
      key(p) == {s[p[1]].du, s[p[2]].du}
      later(p, q) == p[1] > q[1] \/ (p[1] = q[1] /\ p[2] >= q[2])
  IN  [k \in {key(p) : p \in pairs} |->
         LET p == CHOOSE q \in pairs :
                    key(q) = k /\ \A r \in pairs : key(r) = k => later(q, r)
         IN  s[p[1]].t - s[p[2]].t]

Near(a, b) == a - b < DiffLimit /\ b - a < DiffLimit

(* checkDuplicate's match_count; the count is compared after a match only. *)
Similar(cur, base) ==
  LET same == {k \in DOMAIN cur \cap DOMAIN base : Near(cur[k], base[k])}
  IN  same # {} /\ Cardinality(same) >= MinPair

IsDuplicate(cur) ==
  \/ \E k \in DOMAIN past : Similar(cur, past[k])
  \/ Similar(cur, prev)

Bounded(q) == IF Len(q) > HistorySize THEN Tail(q) ELSE q

(* Mutant: only rejected repeats are remembered.    *)
RememberRejected(cur) ==
  /\ IF IsDuplicate(cur) THEN past' = Bounded(Append(past, cur)) ELSE past' = past
  /\ prev' = prev

(* isDuplicateEventWithPairs: what the filter keeps of a candidate.        *)
Remember(cur) ==
  IF IsDuplicate(cur) THEN prev' = prev /\ past' = Bounded(Append(past, cur))
                      ELSE prev' = cur /\ past' = past

-----------------------------------------------------------------------------
(* filterDecision: the candidate's hits that are kept.                     *)

CausalFilters == config.trigger_type = 2 /\ config.causal

Selected(w) ==
  IF CausalFilters /\ Cardinality(DUs(w)) < Bypass
  THEN MaximumCausalSubset(w)
  ELSE DOMAIN w

Selection(w, kept) ==
  LET indices == Keep([k \in DOMAIN w |-> k], kept)
  IN  [k \in DOMAIN indices |-> w[indices[k]]]

(* Where in its second an event lies does not matter to the history.       *)
FromZero(s) == [k \in DOMAIN s |-> [s[k] EXCEPT !.t = @ - s[1].t]]

Slide ==
  /\ ~Scanned /\ config.trigger_type # 0
  /\ Filled.s.u < Nhit
  /\ LET s == RemoveHit(Filled.s, hits[i])
     IN  KeepWindow([s EXCEPT !.w = IF @ = <<>> THEN @ ELSE Tail(@)])
  /\ i' = i + 1 /\ jEnd' = Filled.j
  /\ UNCHANGED <<config, hits, filter, taken, history>>

Verdict(w, kept, outcome) ==
  judged' = Append(judged, [window |-> w, kept |-> kept, outcome |-> outcome])

TooFew(w) == CausalFilters /\ Cardinality(Selected(w)) < Nhit

(* Too few hits are compatible, or the template does not match: the filter *)
(* for repeats does not see the candidate.                                 *)
RejectUnseen(w) ==
  /\ \/ TooFew(w) /\ Verdict(w, {}, "causal")
     \/ ~TooFew(w) /\ config.template /\ Verdict(w, {}, "template")
  /\ UNCHANGED <<filter, accepted, repelled>>

PassFilters(w) ==
  LET selection == Selection(w, Selected(w))
      repeat    == config.duplicate /\ IsDuplicate(PairDiffs(selection))
  IN  /\ ~TooFew(w)
      /\ IF config.duplicate THEN Remember(PairDiffs(selection)) ELSE UNCHANGED filter
      /\ IF repeat
         THEN /\ Verdict(w, {}, "repeat")
              /\ repelled' = Bounded(Append(repelled, FromZero(selection)))
              /\ UNCHANGED accepted
         ELSE /\ Verdict(w, Selected(w), "accepted")
              /\ accepted' = IF config.duplicate THEN FromZero(selection) ELSE <<>>
              /\ UNCHANGED repelled

Judge ==
  /\ ~Scanned /\ config.trigger_type # 0
  /\ Filled.s.u >= Nhit
  /\ RejectUnseen(Filled.s.w) \/ PassFilters(Filled.s.w)
  /\ KeepWindow(Consumed(Filled.s, Filled.j))
  /\ i' = Filled.j /\ jEnd' = Filled.j
  /\ UNCHANGED <<config, hits, taken>>

Next == TakeBucket \/ ReturnResults \/ PassThrough \/ Slide \/ Judge

Spec == Init /\ [][Next]_vars

-----------------------------------------------------------------------------
(* Properties                                                              *)

Hits == {hits[k] : k \in DOMAIN hits}
Judged(k) == {judged[k].window[j] : j \in DOMAIN judged[k].window}
Coincident(S) ==
  /\ \A g, h \in S : g.t - h.t <= Window
  /\ Cardinality({h.du : h \in S}) >= Nhit

(* The window that slides with running counts sees every coincidence: of   *)
(* any set of hits of enough DUs that fit into one window, the filter was  *)
(* asked about one at least.  It is asked about coincidences only, and     *)
(* about no hit twice.                                                     *)
FindsEveryCoincidence ==
  config.trigger_type # 0 =>
    /\ \A k \in DOMAIN judged : Coincident(Judged(k)) /\ Judged(k) \subseteq Hits
    /\ \A k, l \in DOMAIN judged : k # l => Judged(k) \cap Judged(l) = {}
    /\ Scanned => \A S \in SUBSET Hits :
                 Coincident(S) => \E k \in DOMAIN judged : Judged(k) \cap S # {}

(* An accepted candidate that went through the causal filter is a largest  *)
(* set of compatible hits of its window, and one that the filter rejected  *)
(* for causality has no compatible set of enough hits: the pruned search   *)
(* of the code overlooks none.                                             *)
SelectsLargestCompatible ==
  (config.trigger_type = 2 /\ config.causal) =>
    \A k \in DOMAIN judged :
      LET w == judged[k].window
      IN  Cardinality(DUs(w)) < Bypass =>
            /\ judged[k].outcome = "accepted" => IsLargestCompatible(w, judged[k].kept)
            /\ judged[k].outcome = "causal" =>
                 \A s \in SUBSET DOMAIN w :
                   PairwiseCompatible(w, s) => Cardinality(s) < Nhit

(* Two selections show the same wave front: each has one hit of a DU, and  *)
(* enough pairs of DUs lie apart in both by nearly the same signed time.   *)
TimeOf(s, d) == s[CHOOSE k \in DOMAIN s : s[k].du = d].t
OncePerDu(s) == Cardinality(DUs(s)) = Len(s)
SameFront(s, r) ==
  LET pairs == {p \in SUBSET (DUs(s) \cap DUs(r)) : Cardinality(p) = 2}
      alike(p) == \A d, e \in p : Near(TimeOf(s, d) - TimeOf(s, e),
                                       TimeOf(r, d) - TimeOf(r, e))
      same  == {p \in pairs : alike(p)}
  IN  /\ OncePerDu(s) /\ OncePerDu(r)
      /\ same # {} /\ Cardinality(same) >= MinPair

(* A verdict is added, and it accepts the candidate.                       *)
Accepts ==
  Len(judged') > Len(judged) /\ judged'[Len(judged')].outcome = "accepted"

(* A candidate is not accepted if it shows the same wave front as the one  *)
(* accepted before it, to the hit or nearly, or as one of the last rejected*)
(* repeats, however the buckets divide them and in whatever order its hits *)
(* arrived.  (With trigger_type 0 nothing is filtered.)                    *)
RepeatsAreRejected ==
  [][Accepts /\ config.duplicate /\ config.trigger_type # 0 =>
       /\ ~SameFront(accepted', accepted)
       /\ \A k \in DOMAIN repelled : ~SameFront(accepted', repelled[k])]_vars
=============================================================================
