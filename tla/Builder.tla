------------------------------- MODULE Builder -------------------------------
(***************************************************************************)
(* The event builder of the central station: Builder in                    *)
(* grand-daq/src/builder.cpp and include/builder.h.                        *)
(*                                                                         *)
(* The dispatcher registers an event under a tag with the detection units  *)
(* (DUs) it asked for a waveform (beginEvent); the DAQ threads hand in the *)
(* fragments those DUs send back (addFragment).  An event leaves the       *)
(* Builder complete when the last awaited fragment arrives, partial when   *)
(* its deadline passes or the run stops, or not at all when it has no      *)
(* fragment by then.  Every method runs under one mutex, so every action   *)
(* is one method call.                                                     *)
(*                                                                         *)
(* Deadlines are kept twice: in the event and in a heap that is never      *)
(* cleaned when an event completes.  Every public call first harvests the  *)
(* heap; nothing else does, so a timeout fires only on the next call.      *)
(*                                                                         *)
(* Abstractions.  The steady clock and the wall clock are one clock `now'. *)
(* Diagnostics are log lines and are left out.  Of the ring of recent loss *)
(* events only the length is kept, of a loss bucket only its totals.       *)
(***************************************************************************)
EXTENDS Naturals, Sequences, FiniteSets

CONSTANTS
  DU,            \* DU ids that may appear in a fragment header
  ChannelTags,   \* the DUs of the configuration
  Tags,          \* event tags
  EventTimeout,  \* event_timeout_, after the constructor's clamp
  MaxPending,    \* max_pending_events_, after the clamp
  RecentLimit,   \* loss_recent_event_limit_, after the clamp
  BucketLen,     \* kLossBucketSec
  Retention,     \* kLossRetentionSec
  MaxTime,       \* bound of the model: the clock stops here
  MaxRegistered, \* bound of the model: events registered
  MaxUnmatched   \* bound of the model: fragments counted unmatched

ASSUME BuilderConstants ==
  /\ IsFiniteSet(DU) /\ ChannelTags \subseteq DU
  /\ IsFiniteSet(Tags)
  /\ EventTimeout \in Nat \ {0} /\ MaxPending \in Nat \ {0}
  /\ RecentLimit \in Nat \ {0} /\ BucketLen \in Nat \ {0}
  /\ Retention \in Nat
  /\ MaxTime \in Nat /\ MaxRegistered \in Nat /\ MaxUnmatched \in Nat

VARIABLES
  now,        \* the clock
  stopped,    \* is_stop_
  pending,    \* pending_events_: tag -> event
  heap,       \* deadline_heap_
  completed,  \* completed_events_
  stat,       \* the stat_* counters: never reset
  run,        \* counters start() resets
  perDu,      \* stat_missing_on_timeout_per_du_
  loss,       \* loss_totals_, length of loss_recent_events_, telemetry_dropped
  buckets,    \* loss_buckets_
  drained,    \* history: registrations whose output the caller has taken
  abandoned   \* history: events and awaited fragments flushed by stop()

vars == <<now, stopped, pending, heap, completed, stat, run, perDu, loss,
          buckets, drained, abandoned>>

Least(a, b) == IF a <= b THEN a ELSE b

(***************************************************************************)
(* Events.  `id' is the number of the registration (history): tags may be  *)
(* used again, registrations are unique.                                   *)
(***************************************************************************)
Event == [id : Nat, exp : SUBSET DU, frags : Seq(DU), att : SUBSET DU,
          deadline : Nat, bucket : Nat]

Output == [id : Nat, tag : Tags, exp : SUBSET DU, act : SUBSET DU,
           frags : Seq(DU), partial : BOOLEAN]

\* makeCompletedEvent: fragments keep their order of arrival
CompletedEvent(t, e, partial) ==
  [id |-> e.id, tag |-> t, exp |-> e.exp, act |-> e.att,
   frags |-> e.frags, partial |-> partial]

\* isEventCompleted
IsEventCompleted(e) == e.att = e.exp

WithFragments(T) == {t \in T : pending[t].frags # <<>>}

\* The fragments the events of T still wait for
Awaited(T) == {p \in T \X DU : p[2] \in pending[p[1]].exp \ pending[p[1]].att}

\* The orders in which T can leave: any, and by deadline
AnyOrder(T) ==
  {s \in [1..Cardinality(T) -> T] :
     \A i, j \in DOMAIN s : i # j => s[i] # s[j]}
DeadlineOrder(T) ==
  {s \in AnyOrder(T) :
     \A i, j \in DOMAIN s :
        i < j => pending[s[i]].deadline <= pending[s[j]].deadline}

Partials(s) ==
  [i \in DOMAIN s |-> CompletedEvent(s[i], pending[s[i]], TRUE)]

-----------------------------------------------------------------------------
(***************************************************************************)
(* harvestExpiredFromHeapLocked: pop every entry that is due; an entry     *)
(* whose event is gone, or has another deadline, is stale and ignored.     *)
(***************************************************************************)
Due == {h \in heap : h.deadline <= now}

\* Mutant: any due entry of the tag expires the event, stale or not.
ExpiredByTag == {t \in DOMAIN pending : \E h \in Due : h.tag = t}

Expired ==
  {t \in DOMAIN pending : [deadline |-> pending[t].deadline, tag |-> t] \in Due}

Live == DOMAIN pending \ Expired

\* Mutant: a timed out event is emitted and not erased.
HarvestedPendingKept == pending
HarvestedPending == [t \in Live |-> pending[t]]

\* Mutant: the entries of a tag are erased together, the live one included.
HarvestedHeapByTag == {h \in heap : \A x \in Due : x.tag # h.tag}
HarvestedHeap == heap \ Due

\* Mutant: an event without fragments returns before it is counted.
HarvestedStatLate ==
  LET E == WithFragments(Expired)
  IN  [stat EXCEPT !.timeout = @ + Cardinality(E),
                   !.missing = @ + Cardinality(Awaited(E)),
                   !.partial = @ + Cardinality(E),
                   !.partialMissing = @ + Cardinality(Awaited(E))]

\* emitTimeoutLocked, for all expired events
HarvestedStat ==
  LET E == WithFragments(Expired)
  IN  [stat EXCEPT !.timeout = @ + Cardinality(Expired),
                   !.missing = @ + Cardinality(Awaited(Expired)),
                   !.partial = @ + Cardinality(E),
                   !.partialMissing = @ + Cardinality(Awaited(E))]
HarvestedRun == [run EXCEPT !.timeouts = @ + Cardinality(Expired)]
HarvestedPerDu ==
  [d \in DU |-> perDu[d] + Cardinality({t \in Expired : <<t, d>> \in Awaited(Expired)})]

\* recordLossTimeoutLocked, for all expired events
Missed == {t \in Expired : pending[t].exp # pending[t].att}

\* Mutant: the ring of recent loss events is not bounded.
HarvestedLossUnbounded ==
  [loss EXCEPT !.missing = @ + Cardinality(Awaited(Missed)),
               !.timeouts = @ + Cardinality(Missed),
               !.recent = @ + Cardinality(Missed)]
HarvestedLoss ==
  LET n == loss.recent + Cardinality(Missed)
  IN  [loss EXCEPT !.missing = @ + Cardinality(Awaited(Missed)),
                   !.timeouts = @ + Cardinality(Missed),
                   !.recent = Least(n, RecentLimit),
                   !.dropped = @ + (n - Least(n, RecentLimit))]

EmptyBucket == [expected |-> 0, missing |-> 0, timeouts |-> 0]
BucketOf(b, bs) == IF b \in DOMAIN bs THEN bs[b] ELSE EmptyBucket

\* pruneLossBucketsLocked, as the set of bucket starts it keeps
Kept(starts, newest) == {b \in starts : newest <= b + Retention}

\* lossBucketStartUnixMs
BucketStart(time) == (time \div BucketLen) * BucketLen

\* Mutant: a timeout is booked on the bucket of the moment it is noticed.
HarvestedBucketsNow ==
  LET b    == BucketStart(now)
      used == DOMAIN buckets \cup {x \in {b} : Missed # {}}
  IN  [x \in Kept(used, IF Missed = {} THEN 0 ELSE b) |->
         IF x = b
           THEN [BucketOf(b, buckets) EXCEPT !.missing = @ + Cardinality(Awaited(Missed)),
                                             !.timeouts = @ + Cardinality(Missed)]
           ELSE buckets[x]]

\* Expired events come in the order of their buckets, so pruning for the
\* last of them prunes for all
HarvestedBuckets ==
  LET in(b) == {t \in Missed : pending[t].bucket = b}
      used  == DOMAIN buckets \cup {pending[t].bucket : t \in Missed}
      kept  == {b \in used : \A t \in Missed : b \in Kept(used, pending[t].bucket)}
  IN  [b \in kept |->
         [BucketOf(b, buckets) EXCEPT
            !.missing = @ + Cardinality(Awaited(in(b))),
            !.timeouts = @ + Cardinality(in(b))]]

-----------------------------------------------------------------------------
ZeroRun  == [completed |-> 0, unmatched |-> 0, timeouts |-> 0]
ZeroLoss == [expected |-> 0, missing |-> 0, timeouts |-> 0, recent |-> 0,
             dropped |-> 0]

Init ==
  /\ now = 0 /\ stopped = TRUE
  /\ pending = <<>> /\ heap = {} /\ completed = <<>>
  /\ stat = [registered |-> 0, expected |-> 0, received |-> 0, complete |-> 0,
             timeout |-> 0, missing |-> 0, partial |-> 0, partialMissing |-> 0]
  /\ run = ZeroRun /\ perDu = [d \in DU |-> 0]
  /\ loss = ZeroLoss /\ buckets = <<>>
  /\ drained = {} /\ abandoned = [events |-> 0, awaited |-> 0]

Tick ==
  /\ now < MaxTime
  /\ now' = now + 1
  /\ UNCHANGED <<stopped, pending, heap, completed, stat, run, perDu, loss,
                 buckets, drained, abandoned>>

\* App::start calls start() only on a Builder that was never started or was
\* stopped by App::stop, terminate or the rollback.
Start ==
  /\ stopped
  /\ stopped' = FALSE
  /\ pending' = <<>> /\ heap' = {} /\ completed' = <<>>
  /\ run' = ZeroRun /\ perDu' = [d \in DU |-> 0]
  /\ loss' = ZeroLoss /\ buckets' = <<>>
  /\ UNCHANGED <<now, stat, drained, abandoned>>

Stop ==
  /\ ~stopped
  /\ stopped' = TRUE
  /\ \E due \in DeadlineOrder(WithFragments(Expired)),
        rest \in AnyOrder(WithFragments(Live)) :
       completed' = completed \o Partials(due) \o Partials(rest)
  /\ LET L == WithFragments(Live)
     IN  stat' = [HarvestedStat EXCEPT
                    !.partial = @ + Cardinality(L),
                    !.partialMissing = @ + Cardinality(Awaited(L))]
  /\ pending' = <<>> /\ heap' = {}
  /\ run' = HarvestedRun /\ perDu' = HarvestedPerDu
  /\ loss' = HarvestedLoss /\ buckets' = HarvestedBuckets
  /\ abandoned' = [events |-> abandoned.events + Cardinality(Live),
                   awaited |-> abandoned.awaited + Cardinality(Awaited(Live))]
  /\ UNCHANGED <<now, drained>>

-----------------------------------------------------------------------------
\* What every call on a running Builder does before its own work.
HarvestOutput ==
  \E due \in DeadlineOrder(WithFragments(Expired)) :
    completed' = completed \o Partials(due)

\* recordLossExpectedLocked
LossExpected(b, dus) ==
  /\ loss' = [HarvestedLoss EXCEPT !.expected = @ + Cardinality(dus)]
  /\ LET hb == HarvestedBuckets
         starts == Kept(DOMAIN hb, b) \cup {b}
     IN  buckets' = [s \in starts |->
           IF s = b
             THEN [BucketOf(s, hb) EXCEPT !.expected = @ + Cardinality(dus)]
             ELSE hb[s]]

\* beginEvent that registers the event
BeginEvent(t, dus) ==
  /\ ~stopped
  /\ stat.registered < MaxRegistered /\ now + EventTimeout <= MaxTime
  /\ dus # {} /\ t \notin Live /\ Cardinality(Live) < MaxPending
  /\ LET e == [id |-> stat.registered, exp |-> dus, frags |-> <<>>, att |-> {},
               deadline |-> now + EventTimeout, bucket |-> BucketStart(now)]
     IN  /\ pending' = [x \in Live \cup {t} |-> IF x = t THEN e ELSE pending[x]]
         /\ heap' = HarvestedHeap \cup {[deadline |-> e.deadline, tag |-> t]}
         /\ LossExpected(e.bucket, dus)
  /\ HarvestOutput
  /\ stat' = [HarvestedStat EXCEPT !.registered = @ + 1,
                                   !.expected = @ + Cardinality(dus)]
  /\ run' = HarvestedRun /\ perDu' = HarvestedPerDu
  /\ UNCHANGED <<now, stopped, drained, abandoned>>

\* A call that only harvests: beginEvent that returns early (no DU, a tag in
\* use, MaxPending reached), drainDiagnostics
HarvestOnly ==
  /\ ~stopped
  /\ HarvestOutput
  /\ pending' = HarvestedPending /\ heap' = HarvestedHeap
  /\ stat' = HarvestedStat /\ run' = HarvestedRun
  /\ perDu' = HarvestedPerDu
  /\ loss' = HarvestedLoss /\ buckets' = HarvestedBuckets
  /\ UNCHANGED <<now, stopped, drained, abandoned>>

\* Mutants: a DU is heard twice; a DU is heard that was not asked.
AcceptsTwice(t, d, payload) ==
  payload /\ d \in ChannelTags /\ t \in Live /\ d \in pending[t].exp
AcceptsUnasked(t, d, payload) ==
  payload /\ d \in ChannelTags /\ t \in Live /\ d \notin pending[t].att

\* addFragment accepts: a payload from a configured DU that the event of this
\* tag expects and has not yet heard from.
Accepts(t, d, payload) ==
  /\ payload /\ d \in ChannelTags
  /\ t \in Live
  /\ d \in pending[t].exp /\ d \notin pending[t].att

Attached(e, d) == [e EXCEPT !.frags = Append(@, d), !.att = @ \cup {d}]

\* addFragment: a fragment that leaves the event incomplete
AttachFragment(t, d) ==
  /\ ~stopped /\ Accepts(t, d, TRUE)
  /\ ~IsEventCompleted(Attached(pending[t], d))
  /\ pending' = [HarvestedPending EXCEPT ![t] = Attached(@, d)]
  /\ heap' = HarvestedHeap
  /\ HarvestOutput
  /\ stat' = [HarvestedStat EXCEPT !.received = @ + 1]
  /\ run' = HarvestedRun /\ perDu' = HarvestedPerDu
  /\ loss' = HarvestedLoss /\ buckets' = HarvestedBuckets
  /\ UNCHANGED <<now, stopped, drained, abandoned>>

\* addFragment: the last awaited fragment.  The heap entry stays behind.
CompleteEvent(t, d) ==
  LET e == Attached(pending[t], d)
  IN  /\ ~stopped /\ Accepts(t, d, TRUE)
      /\ IsEventCompleted(e)
      /\ pending' = [x \in Live \ {t} |-> pending[x]]
      /\ heap' = HarvestedHeap
      /\ \E due \in DeadlineOrder(WithFragments(Expired)) :
           completed' = completed \o Partials(due)
                                  \o <<CompletedEvent(t, e, FALSE)>>
      /\ stat' = [HarvestedStat EXCEPT !.received = @ + 1, !.complete = @ + 1]
      /\ run' = [HarvestedRun EXCEPT !.completed = @ + 1]
      /\ perDu' = HarvestedPerDu
      /\ loss' = HarvestedLoss /\ buckets' = HarvestedBuckets
      /\ UNCHANGED <<now, stopped, drained, abandoned>>

\* addFragment that counts the fragment unmatched
RejectFragment(t, d, payload) ==
  /\ ~stopped /\ ~Accepts(t, d, payload)
  /\ run.unmatched < MaxUnmatched
  /\ HarvestOutput
  /\ pending' = HarvestedPending /\ heap' = HarvestedHeap
  /\ stat' = HarvestedStat
  /\ run' = [HarvestedRun EXCEPT !.unmatched = @ + 1]
  /\ perDu' = HarvestedPerDu
  /\ loss' = HarvestedLoss /\ buckets' = HarvestedBuckets
  /\ UNCHANGED <<now, stopped, drained, abandoned>>

Ids(s) == {s[i].id : i \in DOMAIN s}

\* drainCompleted on a running Builder: harvest, then swap the outputs out
DrainRunning ==
  /\ ~stopped
  /\ completed' = <<>>
  /\ drained' = drained \cup Ids(completed)
                        \cup {pending[t].id : t \in WithFragments(Expired)}
  /\ pending' = HarvestedPending /\ heap' = HarvestedHeap
  /\ stat' = HarvestedStat /\ run' = HarvestedRun
  /\ perDu' = HarvestedPerDu
  /\ loss' = HarvestedLoss /\ buckets' = HarvestedBuckets
  /\ UNCHANGED <<now, stopped, abandoned>>

\* drainCompleted after stop()
DrainStopped ==
  /\ stopped
  /\ completed' = <<>>
  /\ drained' = drained \cup Ids(completed)
  /\ UNCHANGED <<now, stopped, pending, heap, stat, run, perDu, loss, buckets,
                 abandoned>>

Next ==
  \/ Tick
  \/ Start
  \/ Stop
  \/ \E t \in Tags, dus \in SUBSET ChannelTags : BeginEvent(t, dus)
  \/ HarvestOnly
  \/ \E t \in Tags, d \in DU : AttachFragment(t, d)
  \/ \E t \in Tags, d \in DU : CompleteEvent(t, d)
  \/ \E t \in Tags, d \in DU, payload \in BOOLEAN : RejectFragment(t, d, payload)
  \/ DrainRunning
  \/ DrainStopped

Spec == Init /\ [][Next]_vars

(***************************************************************************)
(* Time passes, and while a run lasts some call reaches the Builder again  *)
(* and again: DAQ threads call drainCompleted after every fragment.        *)
(***************************************************************************)
FairSpec == Spec /\ WF_vars(Tick) /\ WF_vars(DrainRunning \/ HarvestOnly)

-----------------------------------------------------------------------------
(***************************************************************************)
(* Properties                                                              *)
(***************************************************************************)
Counters   == [registered : Nat, expected : Nat, received : Nat, complete : Nat,
               timeout : Nat, missing : Nat, partial : Nat, partialMissing : Nat]
RunCounters == [completed : Nat, unmatched : Nat, timeouts : Nat]
LossTotals == [expected : Nat, missing : Nat, timeouts : Nat,
               recent : 0..RecentLimit, dropped : Nat]
LossBucket == [expected : Nat, missing : Nat, timeouts : Nat]

TypeOK ==
  /\ now \in Nat /\ stopped \in BOOLEAN
  /\ DOMAIN pending \subseteq Tags
  /\ \A t \in DOMAIN pending : pending[t] \in Event
  /\ heap \subseteq [deadline : Nat, tag : Tags]
  /\ completed \in Seq(Output)
  /\ stat \in Counters
  /\ run \in RunCounters
  /\ perDu \in [DU -> Nat]
  /\ loss \in LossTotals
  /\ DOMAIN buckets \subseteq Nat
  /\ \A b \in DOMAIN buckets : buckets[b] \in LossBucket
  /\ drained \subseteq Nat
  /\ abandoned \in [events : Nat, awaited : Nat]

(***************************************************************************)
(* The event and the heap agree: a pending event always has an entry with  *)
(* its own deadline, whatever stale entries completed events and reused    *)
(* tags left behind.  Otherwise harvesting could never time it out.        *)
(***************************************************************************)
DeadlineCovered ==
  \A t \in DOMAIN pending :
    [deadline |-> pending[t].deadline, tag |-> t] \in heap

(***************************************************************************)
(* What is handed to the writer: one fragment per DU, only from DUs that   *)
(* were asked, never an event without a fragment, and is_partial is set    *)
(* exactly when a DU is missing.                                           *)
(***************************************************************************)
ExactOutput(c) ==
  /\ c.frags # <<>>
  /\ \A j, k \in DOMAIN c.frags : c.frags[j] = c.frags[k] => j = k
  /\ c.act = {c.frags[j] : j \in DOMAIN c.frags}
  /\ c.act \subseteq c.exp
  /\ c.partial <=> c.act # c.exp

OutputExact == \A i \in DOMAIN completed : ExactOutput(completed[i])

(***************************************************************************)
(* A registration is output at most once: no two outputs waiting to be     *)
(* drained belong to it, none of it was drained before, and it is not      *)
(* pending any more (builder.cpp erases the event on every way out).       *)
(***************************************************************************)
EmittedOnce ==
  /\ \A i, j \in DOMAIN completed : completed[i].id = completed[j].id => i = j
  /\ \A t, u \in DOMAIN pending : pending[t].id = pending[u].id => t = u
  /\ Ids(completed) \cap drained = {}
  /\ \A t \in DOMAIN pending : pending[t].id \notin Ids(completed) \cup drained

(***************************************************************************)
(* Nothing is lost from the books: an event that was registered is pending,*)
(* complete, timed out, or was flushed by stop().                          *)
(***************************************************************************)
EventConservation ==
  stat.registered = stat.complete + stat.timeout + Cardinality(DOMAIN pending)
                    + abandoned.events

(***************************************************************************)
(* A fragment that was asked for was received, is still awaited, was given *)
(* up at a timeout, or was flushed by stop().  fragment_receive_rate and   *)
(* the loss figures of the health report rest on this.                     *)
(***************************************************************************)
FragmentConservation ==
  stat.expected = stat.received + stat.missing
                  + Cardinality(Awaited(DOMAIN pending)) + abandoned.awaited

(***************************************************************************)
(* The books balance: the counters of events and of fragments account for  *)
(* everything that was asked for, through harvests, refusals, stop() with  *)
(* events pending, and the next start(), which keeps the counters.         *)
(***************************************************************************)
Balanced == EventConservation /\ FragmentConservation

(***************************************************************************)
(* The loss telemetry agrees with the timeout counter: every timeout has a *)
(* missing fragment, is in the bounded ring or counted dropped from it.    *)
(* No bucket reports more missing than expected fragments: a timeout is    *)
(* booked on the bucket its registration was booked on, which pruning has  *)
(* not removed meanwhile, however late the timeout is harvested.           *)
(***************************************************************************)
LossMatchesTimeouts ==
  /\ loss.timeouts = run.timeouts
  /\ loss.recent + loss.dropped = loss.timeouts
  /\ loss.missing <= loss.expected
  /\ \A b \in DOMAIN buckets : buckets[b].missing <= buckets[b].expected

(***************************************************************************)
(* While the run lasts an event leaves only complete, or after its own     *)
(* deadline: the stale heap entry of an earlier event under the same tag   *)
(* does not time it out early.                                             *)
(***************************************************************************)
Remains(t) == t \in DOMAIN pending' /\ pending'[t].id = pending[t].id

NoEarlyTimeout ==
  [][\A t \in DOMAIN pending :
       \/ Remains(t)
       \/ stopped'
       \/ now >= pending[t].deadline
       \/ \E i \in DOMAIN completed' :
            completed'[i].id = pending[t].id /\ ~completed'[i].partial]_vars

(***************************************************************************)
(* Every registered event leaves the Builder.  Needs further calls: see    *)
(* FairSpec.                                                               *)
(***************************************************************************)
Pending(i) == \E t \in DOMAIN pending : pending[t].id = i

EventLeaves ==
  \A i \in 0..MaxRegistered - 1 : Pending(i) ~> ~Pending(i)

(***************************************************************************)
(* The Builder as an event assembly: tags, deadlines, fragments and the    *)
(* order of outputs are forgotten.                                         *)
(***************************************************************************)
OpenIds == {pending[t].id : t \in DOMAIN pending}
EventOf(i) == pending[CHOOSE t \in DOMAIN pending : pending[t].id = i]

OpenEvents  == [i \in OpenIds |-> [asked |-> EventOf(i).exp, heard |-> EventOf(i).att]]
ReadyEvents == {[id |-> completed[i].id, asked |-> completed[i].exp,
                 heard |-> completed[i].act] : i \in DOMAIN completed}

Promise == INSTANCE EventAssembly WITH
  DU <- ChannelTags, MaxOpen <- MaxPending, next <- stat.registered,
  open <- OpenEvents, ready <- ReadyEvents, taken <- drained

(***************************************************************************)
(* Whatever calls arrive in whatever order, the Builder is an event        *)
(* assembly: it opens, hears, closes and hands out each event once.        *)
(***************************************************************************)
ImplementsAssembly == Promise!Spec
=============================================================================
