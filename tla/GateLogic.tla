------------------------------ MODULE GateLogic ------------------------------
(***************************************************************************)
(* The gate of the central trigger: GateLogic in grand-daq/include/        *)
(* gate_logic.h and src/trigger_processor_gate_logic.cpp.                  *)
(*                                                                         *)
(* Hits of the detection units (DUs) are collected per time window, the    *)
(* bucket of a tm_id.  A bucket closes at a deadline its hits may push     *)
(* back; hits that come later are dropped, and for a retention time the    *)
(* window stays guarded so that stragglers do not open it again.  When too *)
(* many buckets are pending the oldest is marked for an early pop.  Every  *)
(* method runs under one mutex: an action is one call.                     *)
(*                                                                         *)
(* Abstractions.  The hits of a DU are a set of time stamps: the caller    *)
(* sorts them.  The steady clock never reads 0 and never saturates.  The   *)
(* statistics are left out: no decision reads them.                        *)
(***************************************************************************)
EXTENDS Naturals, FiniteSets

CONSTANTS
  TmId,                 \* time windows
  DU,                   \* detection units
  Stamp,                \* time stamps a hit may have within its window
  Timeout,              \* config_.timeout_ns
  TimeoutCap,           \* config_.timeout_cap_ns, before the clamp
  IdleGap,              \* config_.idle_gap_ns
  GuardRetention,       \* config_.closed_bucket_retention_ns, after the clamp
  DeadlineMode,         \* config_.deadline_mode
  ExtendOnProgressOnly, \* config_.extend_on_progress_only
  ExpectedDU,           \* config_.expected_du_ids
  ShadowOnly,           \* advance_completion_mode is ShadowOnly
  MaxBuckets,           \* config_.max_pending_buckets
  MaxTime,              \* bound of the model: the clock stops here
  MaxOpened             \* bound of the model: buckets opened

ASSUME GateConstants ==
  /\ TmId \subseteq Nat /\ IsFiniteSet(TmId) /\ ExpectedDU \subseteq DU
  /\ Timeout \in Nat /\ TimeoutCap \in Nat /\ IdleGap \in Nat
  /\ GuardRetention \in Nat \ {0}
  /\ DeadlineMode \in {"FirstArrivalFixed", "FirstArrivalBoundedSliding",
                       "LastArrivalLegacy"}
  /\ ExtendOnProgressOnly \in BOOLEAN /\ ShadowOnly \in BOOLEAN
  /\ MaxBuckets \in Nat
  /\ MaxTime \in Nat /\ MaxOpened \in Nat

VARIABLES
  now,      \* nowNs()
  pending,  \* pending_: tm_id -> bucket
  ready,    \* ready_tm_ids_
  forced,   \* forced_ready_tm_ids_
  guard,    \* timeout_closed_guard_expires_ns_
  lastTm,   \* expected_du_last_tm_id_
  opened,   \* history: buckets opened so far
  closedAt  \* history: tm_id -> deadline of its last bucket that timed out

gateVars == <<now, pending, ready, forced, guard, lastTm, opened, closedAt>>

-----------------------------------------------------------------------------
(***************************************************************************)
(* Deadlines                                                               *)
(***************************************************************************)
Smaller(a, b) == IF a <= b THEN a ELSE b
Larger(a, b)  == IF a <= b THEN b ELSE a

\* The constructor does not let the cap lie before the timeout.
HardCap == Larger(TimeoutCap, Timeout)

\* Mutant: the idle gap extends the deadline without a cap.
CloseAtUncapped(first, progress) == Larger(first + Timeout, progress + IdleGap)

\* recomputeCloseDeadlineLocked
CloseAt(first, progress) ==
  CASE DeadlineMode = "LastArrivalLegacy" -> progress + Timeout
    [] DeadlineMode = "FirstArrivalFixed" -> first + Timeout
    [] DeadlineMode = "FirstArrivalBoundedSliding" ->
         Smaller(first + HardCap, Larger(first + Timeout, progress + IdleGap))

\* initializeBucketTimingLocked
NewBucket ==
  [id |-> opened, hits |-> [d \in DU |-> {}], seen |-> [d \in DU |-> {}],
   first |-> now, progress |-> now, close |-> CloseAt(now, now), shadow |-> FALSE]

IsReady(b) == now >= b.close
TimedOut == {tm \in DOMAIN pending : IsReady(pending[tm])}

\* What a progress at this moment leaves of bucket b
Moved(b, progress) ==
  IF DeadlineMode = "LastArrivalLegacy" \/ ~ExtendOnProgressOnly \/ progress
    THEN [b EXCEPT !.progress = now, !.close = CloseAt(b.first, now)]
    ELSE b

-----------------------------------------------------------------------------
(***************************************************************************)
(* The guard of closed windows                                             *)
(***************************************************************************)

\* cleanupClosedGuardLocked
Cleaned(g) == [tm \in {w \in DOMAIN g : g[w] > now} |-> g[tm]]

\* Mutant: the guard ends with the deadline.
RememberUntilClose(W) ==
  [tm \in DOMAIN guard \cup W |->
     IF tm \in W THEN pending[tm].close ELSE guard[tm]]

\* rememberTimeoutClosedBucketLocked, for the buckets of W
Remember(W) ==
  [tm \in DOMAIN guard \cup W |->
     IF tm \in W THEN pending[tm].close + GuardRetention ELSE guard[tm]]

Guarded(tm) == tm \in DOMAIN Cleaned(guard)

-----------------------------------------------------------------------------
(***************************************************************************)
(* Shadow completion: an observation, it does not close anything           *)
(***************************************************************************)

\* observeDuTmIdLocked
Observed(d, tm) ==
  IF ShadowOnly /\ d \in ExpectedDU /\ (d \in DOMAIN lastTm => tm > lastTm[d])
    THEN [x \in DOMAIN lastTm \cup {d} |-> IF x = d THEN tm ELSE lastTm[x]]
    ELSE lastTm

\* wouldCompleteByAdvanceLocked
WouldComplete(tm, last) ==
  ShadowOnly /\ ExpectedDU # {}
  /\ \A d \in ExpectedDU : d \in DOMAIN last /\ last[d] > tm

\* maybeMarkShadowCompletionLocked
Marked(buckets, last) ==
  [tm \in DOMAIN buckets |->
     [buckets[tm] EXCEPT !.shadow = @ \/ WouldComplete(tm, last)]]

-----------------------------------------------------------------------------
\* Candidates of the search for the oldest bucket (map order breaks ties)
Oldest(buckets) ==
  {tm \in DOMAIN buckets :
     \A w \in DOMAIN buckets : buckets[tm].first <= buckets[w].first}

\* ensureCapacityLocked: what it marks
Overflow(buckets) ==
  IF Cardinality(DOMAIN buckets) <= MaxBuckets
    THEN {{}} ELSE {{tm} : tm \in Oldest(buckets)}

Init ==
  /\ now = 1
  /\ pending = <<>> /\ ready = {} /\ forced = {} /\ guard = <<>> /\ lastTm = <<>>
  /\ opened = 0 /\ closedAt = <<>>

Tick ==
  /\ now < MaxTime
  /\ now' = now + 1
  /\ UNCHANGED <<pending, ready, forced, guard, lastTm, opened, closedAt>>

-----------------------------------------------------------------------------
(***************************************************************************)
(* Ingress: the checks setT2Hits and addT2Timestamp share                  *)
(***************************************************************************)

\* The window was closed lately: the hits are dropped.
LateAtGuard(tm) ==
  /\ Guarded(tm)
  /\ guard' = Cleaned(guard)
  /\ UNCHANGED <<now, pending, ready, forced, lastTm, opened, closedAt>>

\* closeBucketIfTimedOutForIngressLocked: the bucket waits to be popped but
\* its deadline has passed.  The hits are dropped.
LateAtBucket(tm) ==
  /\ ~Guarded(tm) /\ tm \in TimedOut
  /\ ready' = ready \cup {tm}
  /\ guard' = [w \in DOMAIN Cleaned(guard) \cup {tm} |-> Remember({tm})[w]]
  /\ UNCHANGED <<now, pending, forced, lastTm, opened, closedAt>>

\* The hits are taken: DU d now has `hits', of which (and of earlier ones)
\* the bucket has seen `seen'.
Admit(tm, d, hits, seen) ==
  LET isNew == tm \notin DOMAIN pending
      old   == IF isNew THEN NewBucket ELSE pending[tm]
      b     == [Moved(old, seen # old.seen[d]) EXCEPT !.hits[d] = hits, !.seen[d] = seen]
      last  == Observed(d, tm)
      all   == Marked([w \in DOMAIN pending \cup {tm} |->
                         IF w = tm THEN b ELSE pending[w]], last)
  IN  /\ isNew => opened < MaxOpened
      /\ opened' = IF isNew THEN opened + 1 ELSE opened
      /\ lastTm' = last
      /\ pending' = all
      /\ guard' = Cleaned(guard)
      /\ \E over \in Overflow(all) :
           /\ ready' = ready \cup {w \in {tm} : IsReady(b)} \cup over
           /\ forced' = forced \cup over
      /\ UNCHANGED <<now, closedAt>>

SeenBy(tm, d) == IF tm \in DOMAIN pending THEN pending[tm].seen[d] ELSE {}
HitsOf(tm, d) == IF tm \in DOMAIN pending THEN pending[tm].hits[d] ELSE {}

\* Mutants: the guard is not looked up; the deadline is not looked at.
AcceptingGuarded(tm) == tm \notin TimedOut
AcceptingLate(tm)    == ~Guarded(tm)

Accepting(tm) == ~Guarded(tm) /\ tm \notin TimedOut

\* setT2Hits: a batch replaces what the DU sent for this window before.
SetT2Hits(tm, d, batch) ==
  \/ LateAtGuard(tm)
  \/ LateAtBucket(tm)
  \/ Accepting(tm) /\ Admit(tm, d, batch, SeenBy(tm, d) \cup batch)

\* addT2Timestamp: one hit, added unless the DU sent it before.
AddT2Timestamp(tm, d, s) ==
  \/ LateAtGuard(tm)
  \/ LateAtBucket(tm)
  \/ /\ Accepting(tm)
     /\ Admit(tm, d, IF s \in SeenBy(tm, d) THEN HitsOf(tm, d) ELSE HitsOf(tm, d) \cup {s},
              SeenBy(tm, d) \cup {s})

-----------------------------------------------------------------------------
(***************************************************************************)
(* Egress                                                                  *)
(***************************************************************************)

\* pollReady
PollReady ==
  /\ pending' = Marked(pending, lastTm)
  /\ ready' = ready \cup TimedOut
  /\ guard' = Cleaned(guard)
  /\ UNCHANGED <<now, forced, lastTm, opened, closedAt>>

\* What popAllReadySorted takes: marks on windows that are gone, or that are
\* neither forced nor timed out, are skipped.
Popped == {tm \in (ready \cup TimedOut) \cap DOMAIN pending : tm \in forced \cup TimedOut}

TimeoutsSeen(W) ==
  [tm \in DOMAIN closedAt \cup W |->
     IF tm \in W THEN pending[tm].close ELSE closedAt[tm]]

\* popAllReadySorted
PopAllReady ==
  LET late == Popped \cap TimedOut
  IN  /\ pending' = [tm \in DOMAIN pending \ Popped |-> Marked(pending, lastTm)[tm]]
      /\ forced' = forced \ (ready \cup TimedOut)
      /\ ready' = {}
      /\ guard' = Cleaned(Remember(late))
      /\ closedAt' = TimeoutsSeen(late)
      /\ UNCHANGED <<now, lastTm, opened>>

\* Mutant: the mark of the bucket stays behind.
ForcePopKeepsMark(tm) ==
  LET late == {tm} \cap TimedOut
  IN  /\ tm \in Oldest(pending)
      /\ pending' = [w \in DOMAIN pending \ {tm} |-> pending[w]]
      /\ forced' = forced \ {tm}
      /\ guard' = Remember(late)
      /\ closedAt' = TimeoutsSeen(late)
      /\ UNCHANGED <<now, ready, lastTm, opened>>

\* forcePopOldest, of a pending bucket
ForcePop(tm) ==
  LET late == {tm} \cap TimedOut
  IN  /\ tm \in Oldest(pending)
      /\ pending' = [w \in DOMAIN pending \ {tm} |-> pending[w]]
      /\ ready' = ready \ {tm} /\ forced' = forced \ {tm}
      /\ guard' = Remember(late)
      /\ closedAt' = TimeoutsSeen(late)
      /\ UNCHANGED <<now, lastTm, opened>>

\* nextDeadlineNs: 0 for "at once", {} for none
NextDeadline ==
  IF ready # {} THEN {0}
  ELSE {pending[tm].close : tm \in
          {w \in DOMAIN pending : \A x \in DOMAIN pending : pending[w].close <= pending[x].close}}

Next ==
  \/ Tick
  \/ \E tm \in TmId, d \in DU, batch \in (SUBSET Stamp) \ {{}} : SetT2Hits(tm, d, batch)
  \/ \E tm \in TmId, d \in DU, s \in Stamp : AddT2Timestamp(tm, d, s)
  \/ PollReady
  \/ PopAllReady
  \/ \E tm \in DOMAIN pending : ForcePop(tm)

Spec == Init /\ [][Next]_gateVars

-----------------------------------------------------------------------------
(***************************************************************************)
(* Properties                                                              *)
(***************************************************************************)
Bucket == [id : Nat, hits : [DU -> SUBSET Stamp], seen : [DU -> SUBSET Stamp],
           first : Nat, progress : Nat, close : Nat, shadow : BOOLEAN]

TypeOK ==
  /\ now \in Nat
  /\ DOMAIN pending \subseteq TmId
  /\ \A tm \in DOMAIN pending : pending[tm] \in Bucket
  /\ ready \subseteq TmId /\ forced \subseteq TmId
  /\ DOMAIN guard \subseteq TmId /\ \A tm \in DOMAIN guard : guard[tm] \in Nat
  /\ DOMAIN lastTm \subseteq ExpectedDU /\ \A d \in DOMAIN lastTm : lastTm[d] \in TmId
  /\ opened \in Nat
  /\ DOMAIN closedAt \subseteq TmId /\ \A tm \in DOMAIN closedAt : closedAt[tm] \in Nat

(***************************************************************************)
(* A mark in ready_tm_ids_ is never stale: the window is pending and is    *)
(* either past its deadline or marked for an early pop.  So the branches   *)
(* of popAllReadySorted that drop a mark are never taken, and no mark      *)
(* keeps the processing thread polling every millisecond for nothing.      *)
(***************************************************************************)
ReadyIsDue ==
  /\ ready \subseteq DOMAIN pending /\ forced \subseteq ready
  /\ ready \subseteq forced \cup TimedOut

(***************************************************************************)
(* While a bucket is still taking hits its window is not guarded: a guard  *)
(* left by an earlier bucket, or set by a straggler, never makes it lose   *)
(* hits that came in time.                                                 *)
(***************************************************************************)
OpenIsUnguarded ==
  \A tm \in DOMAIN pending : Guarded(tm) => tm \in TimedOut

(***************************************************************************)
(* A straggler does not change the hits of a bucket past its deadline,     *)
(* nor moves the deadline, however late the bucket is popped.              *)
(***************************************************************************)
ClosedIsFrozen ==
  [][\A tm \in TimedOut \cap DOMAIN pending' :
       /\ pending'[tm].hits = pending[tm].hits
       /\ pending'[tm].close = pending[tm].close]_gateVars

(***************************************************************************)
(* gate_logic.h:58: a window whose bucket timed out is not opened again    *)
(* before the retention has passed, so it is not judged twice.             *)
(***************************************************************************)
TimedOutStaysClosed ==
  [][\A tm \in DOMAIN closedAt :
       tm \in DOMAIN pending' \ DOMAIN pending
         => now >= closedAt[tm] + GuardRetention]_gateVars

(***************************************************************************)
(* A bucket carries the shadow mark exactly when every expected DU has     *)
(* sent a hit of a later window.                                           *)
(***************************************************************************)
ShadowExact ==
  \A tm \in DOMAIN pending : pending[tm].shadow <=> WouldComplete(tm, lastTm)

(***************************************************************************)
(* gate_logic.h:56: a bucket never closes later than the cap after its     *)
(* first hit.  True of the modes based on the first arrival.               *)
(***************************************************************************)
CloseWithinCap ==
  \A tm \in DOMAIN pending : pending[tm].close <= pending[tm].first + HardCap
=============================================================================
