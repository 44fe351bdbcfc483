---------------------------- MODULE BuilderProofs ----------------------------
(***************************************************************************)
(* Proofs about Builder, for every set of DUs, tags and every limit.       *)
(***************************************************************************)
EXTENDS Builder, FiniteSetTheorems, SequenceTheorems, TLAPS

-----------------------------------------------------------------------------
(***************************************************************************)
(* Counting                                                                *)
(***************************************************************************)

\* A finite set of events, and the fragments it waits for, can be counted.
LEMMA CountableAwaited ==
  ASSUME BuilderConstants, DOMAIN pending \subseteq Tags,
         NEW T \in SUBSET DOMAIN pending
  PROVE  /\ IsFiniteSet(T) /\ Cardinality(T) \in Nat
         /\ IsFiniteSet(Awaited(T)) /\ Cardinality(Awaited(T)) \in Nat
<1>1. IsFiniteSet(T)
  BY FS_Subset DEF BuilderConstants
<1>2. IsFiniteSet(T \X DU)
  BY <1>1, FS_Product DEF BuilderConstants
<1>3. IsFiniteSet(Awaited(T))
  BY <1>2, FS_Subset, Awaited(T) \in SUBSET (T \X DU) DEF Awaited
<1> QED
  BY <1>1, <1>3, FS_CardinalityType

\* Every set of events an action counts is a set of pending events.
LEMMA SubsetsOfPending ==
  /\ Expired \subseteq DOMAIN pending
  /\ Live \subseteq DOMAIN pending
  /\ Missed \subseteq Expired
  /\ \A T : WithFragments(T) \subseteq T
  BY DEF Expired, Live, Missed, WithFragments

\* Harvesting keeps every variable's type.
LEMMA HarvestTypes ==
  ASSUME BuilderConstants, TypeOK
  PROVE  /\ HarvestedStat \in Counters
         /\ HarvestedRun \in RunCounters
         /\ HarvestedPerDu \in [DU -> Nat]
         /\ HarvestedLoss \in LossTotals
         /\ DOMAIN HarvestedBuckets \subseteq Nat
         /\ \A b \in DOMAIN HarvestedBuckets : HarvestedBuckets[b] \in LossBucket
         /\ DOMAIN HarvestedPending = Live
         /\ \A t \in Live : HarvestedPending[t] = pending[t] /\ pending[t] \in Event
         /\ HarvestedHeap \subseteq [deadline : Nat, tag : Tags]
<1>0. DOMAIN pending \subseteq Tags
  BY DEF TypeOK
<1>1. \A T \in SUBSET DOMAIN pending :
        Cardinality(T) \in Nat /\ Cardinality(Awaited(T)) \in Nat
  BY <1>0, CountableAwaited
<1>2. HarvestedStat \in Counters
  <2>1. Cardinality(Expired) \in Nat /\ Cardinality(Awaited(Expired)) \in Nat
    BY <1>1, SubsetsOfPending
  <2>2. /\ Cardinality(WithFragments(Expired)) \in Nat
        /\ Cardinality(Awaited(WithFragments(Expired))) \in Nat
    BY <1>1, SubsetsOfPending
  <2>3. stat \in Counters
    BY DEF TypeOK
  <2>4. /\ stat.timeout + Cardinality(Expired) \in Nat
        /\ stat.missing + Cardinality(Awaited(Expired)) \in Nat
        /\ stat.partial + Cardinality(WithFragments(Expired)) \in Nat
        /\ stat.partialMissing + Cardinality(Awaited(WithFragments(Expired))) \in Nat
    BY <2>1, <2>2, <2>3 DEF Counters
  <2> QED
    BY <2>3, <2>4, Zenon DEF HarvestedStat, Counters
<1>3. HarvestedRun \in RunCounters
  <2>1. run \in RunCounters /\ Cardinality(Expired) \in Nat
    BY <1>1, SubsetsOfPending DEF TypeOK
  <2> QED
    BY <2>1 DEF HarvestedRun, RunCounters
<1>4. HarvestedPerDu \in [DU -> Nat]
  <2>1. \A d : {t \in Expired : <<t, d>> \in Awaited(Expired)} \in SUBSET DOMAIN pending
    BY SubsetsOfPending
  <2> DEFINE missing(d) == Cardinality({t \in Expired : <<t, d>> \in Awaited(Expired)})
  <2>2. \A d : missing(d) \in Nat
    BY <1>1, <2>1
  <2>3. HarvestedPerDu = [d \in DU |-> perDu[d] + missing(d)]
    BY Zenon DEF HarvestedPerDu
  <2>4. perDu \in [DU -> Nat]
    BY DEF TypeOK
  <2> HIDE DEF missing
  <2> QED
    BY <2>2, <2>3, <2>4
<1>5. HarvestedLoss \in LossTotals
  <2>1. Cardinality(Missed) \in Nat /\ Cardinality(Awaited(Missed)) \in Nat
    BY <1>1, SubsetsOfPending
  <2>2. loss \in LossTotals /\ RecentLimit \in Nat
    BY DEF TypeOK, BuilderConstants
  <2> DEFINE n == loss.recent + Cardinality(Missed)
  <2>3. /\ loss.missing + Cardinality(Awaited(Missed)) \in Nat
        /\ loss.timeouts + Cardinality(Missed) \in Nat
        /\ Least(n, RecentLimit) \in 0..RecentLimit
        /\ loss.dropped + (n - Least(n, RecentLimit)) \in Nat
    BY <2>1, <2>2 DEF LossTotals, Least
  <2> QED
    BY <2>2, <2>3, Zenon DEF HarvestedLoss, LossTotals
<1>6. /\ DOMAIN HarvestedBuckets \subseteq Nat
      /\ \A b \in DOMAIN HarvestedBuckets : HarvestedBuckets[b] \in LossBucket
  <2> DEFINE in(b) == {t \in Missed : pending[t].bucket = b}
  <2>1. \A b : Cardinality(in(b)) \in Nat /\ Cardinality(Awaited(in(b))) \in Nat
    <3>1. \A b : in(b) \in SUBSET DOMAIN pending
      BY SubsetsOfPending
    <3> QED
      BY <1>1, <3>1
  <2>2. \A b : b \in DOMAIN HarvestedBuckets => b \in Nat
    BY SubsetsOfPending DEF HarvestedBuckets, TypeOK, Event
  <2>3. \A b \in DOMAIN HarvestedBuckets :
          HarvestedBuckets[b] = [BucketOf(b, buckets) EXCEPT
                                   !.missing = @ + Cardinality(Awaited(in(b))),
                                   !.timeouts = @ + Cardinality(in(b))]
    BY DEF HarvestedBuckets
  <2>4. \A b : BucketOf(b, buckets) \in LossBucket
    BY DEF BucketOf, EmptyBucket, TypeOK, LossBucket
  <2> HIDE DEF in
  <2>5. \A b : /\ BucketOf(b, buckets).missing + Cardinality(Awaited(in(b))) \in Nat
               /\ BucketOf(b, buckets).timeouts + Cardinality(in(b)) \in Nat
    BY <2>1, <2>4 DEF LossBucket
  <2>6. ASSUME NEW b \in DOMAIN HarvestedBuckets
        PROVE  HarvestedBuckets[b] \in LossBucket
    <3> DEFINE old == BucketOf(b, buckets)
    <3>1. /\ old \in LossBucket
          /\ old.missing + Cardinality(Awaited(in(b))) \in Nat
          /\ old.timeouts + Cardinality(in(b)) \in Nat
      BY <2>4, <2>5
    <3>2. HarvestedBuckets[b] = [old EXCEPT !.missing = @ + Cardinality(Awaited(in(b))),
                                            !.timeouts = @ + Cardinality(in(b))]
      BY <2>3
    <3> HIDE DEF old
    <3> QED
      BY <3>1, <3>2, Zenon DEF LossBucket
  <2> QED
    BY <2>2, <2>6
<1>7. /\ DOMAIN HarvestedPending = Live
      /\ \A t \in Live : HarvestedPending[t] = pending[t] /\ pending[t] \in Event
      /\ HarvestedHeap \subseteq [deadline : Nat, tag : Tags]
  BY DEF HarvestedPending, HarvestedHeap, Live, TypeOK
<1> QED
  BY <1>2, <1>3, <1>4, <1>5, <1>6, <1>7

-----------------------------------------------------------------------------
(***************************************************************************)
(* The inductive invariant.                                                *)
(***************************************************************************)

\* A pending event waits for something, knows its DUs from its fragments,
\* and carries a registration number already given out.
PendingEventOK(e) ==
  /\ e.att \subseteq e.exp /\ e.att # e.exp
  /\ \A j, k \in DOMAIN e.frags : e.frags[j] = e.frags[k] => j = k
  /\ e.att = {e.frags[j] : j \in DOMAIN e.frags}
  /\ e.id < stat.registered /\ e.id \notin drained

PendingOK ==
  /\ \A t \in DOMAIN pending : PendingEventOK(pending[t])
  /\ \A t, u \in DOMAIN pending : pending[t].id = pending[u].id => t = u

\* c can be the outputs while the events of T are pending.
OutputsOK(c, T) ==
  /\ c \in Seq(Output)
  /\ \A i \in DOMAIN c : /\ ExactOutput(c[i])
                        /\ c[i].id < stat.registered /\ c[i].id \notin drained
  /\ \A i, j \in DOMAIN c : c[i].id = c[j].id => i = j
  /\ \A i \in DOMAIN c, t \in T : c[i].id # pending[t].id

IInv ==
  /\ TypeOK
  /\ PendingOK
  /\ DeadlineCovered
  /\ OutputsOK(completed, DOMAIN pending)
  /\ \A i \in drained : i < stat.registered
  /\ stopped => DOMAIN pending = {}

(***************************************************************************)
(* Outputs                                                                 *)
(***************************************************************************)

\* An order of T lists each event of T once.
LEMMA OrderProperties ==
  ASSUME BuilderConstants, DOMAIN pending \subseteq Tags,
         NEW T \in SUBSET DOMAIN pending, NEW s \in AnyOrder(T)
  PROVE  /\ Cardinality(T) \in Nat
         /\ DOMAIN s = 1..Cardinality(T)
         /\ \A i \in DOMAIN s : s[i] \in T
         /\ \A i, j \in DOMAIN s : s[i] = s[j] => i = j
  BY CountableAwaited DEF AnyOrder

\* What a pending event with a fragment looks like as a partial output.
LEMMA PartialOutput ==
  ASSUME TypeOK, PendingOK, NEW t \in DOMAIN pending, pending[t].frags # <<>>
  PROVE  /\ CompletedEvent(t, pending[t], TRUE) \in Output
         /\ ExactOutput(CompletedEvent(t, pending[t], TRUE))
         /\ CompletedEvent(t, pending[t], TRUE).id = pending[t].id
  BY DEF TypeOK, PendingOK, PendingEventOK, CompletedEvent, Output, Event, ExactOutput

\* Appending the partial outputs of the events of T leaves good outputs for
\* the events U that stay.
LEMMA AppendPartials ==
  ASSUME BuilderConstants, TypeOK, PendingOK,
         NEW T \in SUBSET DOMAIN pending, NEW U \in SUBSET DOMAIN pending,
         T \cap U = {},
         NEW c, OutputsOK(c, T \cup U),
         NEW s \in AnyOrder(WithFragments(T))
  PROVE  /\ OutputsOK(c \o Partials(s), U)
         /\ Len(c \o Partials(s)) = Len(c) + Cardinality(WithFragments(T))
<1> DEFINE W == WithFragments(T)
           n == Cardinality(W)
           p == Partials(s)
           r == c \o p
<1>0. DOMAIN pending \subseteq Tags /\ W \in SUBSET DOMAIN pending /\ W \subseteq T
  BY DEF TypeOK, WithFragments
<1>1. /\ n \in Nat /\ DOMAIN s = 1..n
      /\ \A i \in 1..n : s[i] \in W
      /\ \A i, j \in 1..n : s[i] = s[j] => i = j
  BY <1>0, OrderProperties
<1>2. p = [i \in 1..n |-> CompletedEvent(s[i], pending[s[i]], TRUE)]
  BY <1>1 DEF Partials
<1>3. \A t \in W : pending[t].frags # <<>>
  BY DEF WithFragments
<1>4. \A i \in 1..n : /\ p[i] \in Output /\ ExactOutput(p[i])
                      /\ s[i] \in T
                      /\ p[i].id = pending[s[i]].id
  <2> SUFFICES ASSUME NEW i \in 1..n
               PROVE  /\ p[i] \in Output /\ ExactOutput(p[i])
                      /\ s[i] \in T
                      /\ p[i].id = pending[s[i]].id
    OBVIOUS
  <2>1. s[i] \in W /\ p[i] = CompletedEvent(s[i], pending[s[i]], TRUE)
    BY <1>1, <1>2
  <2>2. s[i] \in DOMAIN pending /\ pending[s[i]].frags # <<>>
    BY <2>1, <1>0, <1>3
  <2> HIDE DEF p, W
  <2> QED
    BY <2>1, <2>2, <1>0, PartialOutput
<1> HIDE DEF W, n
<1>5. p \in [1..n -> Output]
  BY <1>2, <1>4
<1> HIDE DEF p
<1>6. p \in Seq(Output) /\ Len(p) = n
  <2>1. p \in Seq(Output)
    BY <1>1, <1>5, SeqDef
  <2> QED
    BY <2>1, <1>1, <1>5, LenProperties
<1>7. /\ c \in Seq(Output) /\ Len(c) \in Nat /\ DOMAIN c = 1..Len(c)
      /\ r \in Seq(Output) /\ Len(r) = Len(c) + n /\ DOMAIN r = 1..Len(c) + n
      /\ \A i \in 1..Len(c) : r[i] = c[i]
      /\ \A i \in Len(c) + 1..Len(c) + n : r[i] = p[i - Len(c)] /\ i - Len(c) \in 1..n
  <2>1. c \in Seq(Output)
    BY DEF OutputsOK
  <2>2. Len(c) \in Nat /\ DOMAIN c = 1..Len(c)
    BY <2>1, LenProperties
  <2>3. /\ r \in Seq(Output) /\ Len(r) = Len(c) + n
        /\ \A i \in 1..Len(c) + n : r[i] = IF i <= Len(c) THEN c[i] ELSE p[i - Len(c)]
    BY <2>1, <1>6, ConcatProperties
  <2>4. DOMAIN r = 1..Len(c) + n
    BY <2>3, LenProperties
  <2> HIDE DEF r
  <2> QED
    BY <2>1, <2>2, <2>3, <2>4, <1>1
<1> HIDE DEF r
<1>8. ASSUME NEW i \in DOMAIN r
      PROVE  ExactOutput(r[i]) /\ r[i].id < stat.registered /\ r[i].id \notin drained
  <2>1. CASE i \in 1..Len(c)
    BY <2>1, <1>7 DEF OutputsOK
  <2>2. CASE i \in Len(c) + 1..Len(c) + n
    BY <2>2, <1>7, <1>4 DEF PendingOK, PendingEventOK
  <2> QED
    BY <2>1, <2>2, <1>7, <1>1
<1>9. ASSUME NEW i \in DOMAIN r, NEW t \in U
      PROVE  r[i].id # pending[t].id
  <2>1. CASE i \in 1..Len(c)
    BY <2>1, <1>7 DEF OutputsOK
  <2>2. CASE i \in Len(c) + 1..Len(c) + n
    BY <2>2, <1>7, <1>4 DEF PendingOK
  <2> QED
    BY <2>1, <2>2, <1>7, <1>1
<1>10. ASSUME NEW i \in DOMAIN r, NEW j \in DOMAIN r, r[i].id = r[j].id
       PROVE  i = j
  <2>1. ASSUME NEW k \in 1..Len(c), NEW l \in Len(c) + 1..Len(c) + n
        PROVE  r[k].id # r[l].id
    BY <2>1, <1>7, <1>4 DEF OutputsOK
  <2>2. CASE i \in 1..Len(c) /\ j \in 1..Len(c)
    BY <2>2, <1>7, <1>10 DEF OutputsOK
  <2>3. CASE i \in Len(c) + 1..Len(c) + n /\ j \in Len(c) + 1..Len(c) + n
    <3>1. s[i - Len(c)] = s[j - Len(c)]
      BY <2>3, <1>7, <1>4, <1>10 DEF PendingOK
    <3> QED
      BY <3>1, <2>3, <1>7, <1>1
  <2> QED
    BY <2>1, <2>2, <2>3, <1>7, <1>1, <1>10
<1> QED
  BY <1>7, <1>8, <1>9, <1>10 DEF OutputsOK, r, n, W, p

-----------------------------------------------------------------------------
(***************************************************************************)
(* Every step preserves the invariant.                                     *)
(***************************************************************************)

\* What a harvest leaves behind: the live events keep their heap entries,
\* the counters only grow, the outputs are good for the live events.
LEMMA HarvestFacts ==
  ASSUME BuilderConstants, IInv
  PROVE  /\ HarvestedStat.registered = stat.registered
         /\ \A t \in Live :
               [deadline |-> pending[t].deadline, tag |-> t] \in HarvestedHeap
         /\ \A due \in DeadlineOrder(WithFragments(Expired)) :
               OutputsOK(completed \o Partials(due), Live)
<1>1. HarvestedStat.registered = stat.registered
  BY Zenon DEF HarvestedStat, IInv, TypeOK, Counters
<1>2. \A t \in Live :
        [deadline |-> pending[t].deadline, tag |-> t] \in HarvestedHeap
  BY DEF IInv, DeadlineCovered, Live, Expired, HarvestedHeap
<1>3. Expired \cup Live = DOMAIN pending /\ Expired \cap Live = {}
  BY DEF Expired, Live
<1>4. ASSUME NEW due \in DeadlineOrder(WithFragments(Expired))
      PROVE  OutputsOK(completed \o Partials(due), Live)
  <2>1. due \in AnyOrder(WithFragments(Expired))
    BY DEF DeadlineOrder
  <2>2. TypeOK /\ PendingOK /\ OutputsOK(completed, Expired \cup Live)
    BY <1>3 DEF IInv
  <2>3. Expired \in SUBSET DOMAIN pending /\ Live \in SUBSET DOMAIN pending
    BY <1>3
  <2> QED
    BY <2>1, <2>2, <2>3, <1>3, AppendPartials
<1> QED
  BY <1>1, <1>2, <1>4

\* A call that does no more than harvest.
LEMMA HarvestStep ==
  ASSUME BuilderConstants, IInv, ~stopped,
         UNCHANGED <<now, stopped, drained, abandoned>>,
         HarvestOutput,
         pending' = HarvestedPending, heap' = HarvestedHeap,
         stat' = HarvestedStat, run' \in RunCounters, perDu' = HarvestedPerDu,
         loss' = HarvestedLoss, buckets' = HarvestedBuckets
  PROVE  IInv'
<1> USE DEF IInv
<1>1. PICK due \in DeadlineOrder(WithFragments(Expired)) :
        completed' = completed \o Partials(due)
  BY DEF HarvestOutput
<1>2. OutputsOK(completed', Live) /\ stat'.registered = stat.registered
  BY <1>1, HarvestFacts
<1>3. DOMAIN pending' = Live /\ \A t \in Live : pending'[t] = pending[t]
  BY HarvestTypes
<1>4. Live \subseteq DOMAIN pending
  BY SubsetsOfPending
<1>5. TypeOK'
  BY <1>2, <1>3, <1>4, HarvestTypes DEF TypeOK, OutputsOK
<1>6. PendingOK'
  BY <1>2, <1>3, <1>4 DEF PendingOK, PendingEventOK
<1>7. DeadlineCovered'
  BY <1>3, HarvestFacts DEF DeadlineCovered
<1>8. OutputsOK(completed, DOMAIN pending)'
  BY <1>2, <1>3 DEF OutputsOK
<1> QED
  BY <1>2, <1>5, <1>6, <1>7, <1>8

LEMMA InitIInv ==
  ASSUME BuilderConstants
  PROVE  Init => IInv
<1> SUFFICES ASSUME Init PROVE IInv
  OBVIOUS
<1>1. DOMAIN pending = {} /\ DOMAIN completed = {} /\ DOMAIN buckets = {}
      /\ completed \in Seq(Output)
  BY DEF Init
<1>2. TypeOK
  BY <1>1 DEF Init, TypeOK, Counters, RunCounters, LossTotals, ZeroRun, ZeroLoss,
              BuilderConstants
<1> QED
  BY <1>1, <1>2 DEF Init, IInv, PendingOK, DeadlineCovered, OutputsOK

LEMMA TickStep ==
  ASSUME IInv, Tick
  PROVE  IInv'
  BY DEF IInv, Tick, TypeOK, PendingOK, PendingEventOK, DeadlineCovered, OutputsOK

LEMMA StartStep ==
  ASSUME BuilderConstants, IInv, Start
  PROVE  IInv'
<1>1. /\ DOMAIN pending' = {} /\ DOMAIN completed' = {} /\ DOMAIN buckets' = {}
      /\ completed' \in Seq(Output)
  BY DEF Start
<1>2. TypeOK'
  <2>1. run' \in RunCounters /\ loss' \in LossTotals
    BY DEF Start, RunCounters, LossTotals, ZeroRun, ZeroLoss, BuilderConstants
  <2>2. TypeOK
    BY DEF IInv
  <2> QED
    BY <1>1, <2>1, <2>2 DEF Start, TypeOK
<1>3. stat' = stat /\ drained' = drained
  BY DEF Start
<1>4. OutputsOK(completed, DOMAIN pending)' /\ PendingOK' /\ DeadlineCovered'
  BY <1>1 DEF PendingOK, DeadlineCovered, OutputsOK
<1> QED
  BY <1>1, <1>2, <1>3, <1>4 DEF IInv

LEMMA StopStep ==
  ASSUME BuilderConstants, IInv, Stop
  PROVE  IInv'
<1> USE DEF IInv
<1>1. PICK due \in DeadlineOrder(WithFragments(Expired)),
           rest \in AnyOrder(WithFragments(Live)) :
        completed' = completed \o Partials(due) \o Partials(rest)
  BY DEF Stop
<1> DEFINE c == completed \o Partials(due)
<1>2. OutputsOK(c, Live)
  BY HarvestFacts
<1> HIDE DEF c
<1>3. OutputsOK(c \o Partials(rest), {})
  <2>1. Live \in SUBSET DOMAIN pending /\ Live \cup {} = Live /\ Live \cap {} = {}
        /\ {} \in SUBSET DOMAIN pending
    BY SubsetsOfPending
  <2> QED
    BY <1>2, <2>1, AppendPartials
<1>4. OutputsOK(completed', {})
  BY <1>1, <1>3 DEF c
<1>5. DOMAIN pending' = {} /\ drained' = drained
  BY DEF Stop
<1>6. stat' \in Counters /\ stat'.registered = stat.registered
  <2> DEFINE L == WithFragments(Live)
  <2>1. L \in SUBSET DOMAIN pending
    BY SubsetsOfPending
  <2>2. Cardinality(L) \in Nat /\ Cardinality(Awaited(L)) \in Nat
    BY <2>1, CountableAwaited DEF TypeOK
  <2>3. stat' = [HarvestedStat EXCEPT !.partial = @ + Cardinality(L),
                                      !.partialMissing = @ + Cardinality(Awaited(L))]
    BY DEF Stop
  <2>4. HarvestedStat \in Counters /\ HarvestedStat.registered = stat.registered
    BY HarvestTypes, HarvestFacts
  <2> HIDE DEF L
  <2>5. /\ HarvestedStat.partial + Cardinality(L) \in Nat
        /\ HarvestedStat.partialMissing + Cardinality(Awaited(L)) \in Nat
    BY <2>2, <2>4 DEF Counters
  <2> QED
    BY <2>3, <2>4, <2>5, Zenon DEF Counters
<1>7. abandoned' \in [events : Nat, awaited : Nat]
  <2>1. Cardinality(Live) \in Nat /\ Cardinality(Awaited(Live)) \in Nat
    BY SubsetsOfPending, CountableAwaited DEF TypeOK
  <2> QED
    BY <2>1 DEF Stop, TypeOK
<1>8. TypeOK'
  BY <1>4, <1>5, <1>6, <1>7, HarvestTypes DEF Stop, TypeOK, OutputsOK
<1>9. OutputsOK(completed, DOMAIN pending)'
  BY <1>4, <1>5, <1>6 DEF OutputsOK
<1> QED
  BY <1>5, <1>6, <1>8, <1>9 DEF PendingOK, DeadlineCovered

LEMMA BeginEventStep ==
  ASSUME BuilderConstants, IInv, NEW t \in Tags, NEW dus \in SUBSET ChannelTags,
         BeginEvent(t, dus)
  PROVE  IInv'
<1> USE DEF IInv
<1> DEFINE e == [id |-> stat.registered, exp |-> dus, frags |-> <<>>, att |-> {},
                 deadline |-> now + EventTimeout, bucket |-> BucketStart(now)]
<1>1. /\ dus # {} /\ t \notin Live
      /\ pending' = [x \in Live \cup {t} |-> IF x = t THEN e ELSE pending[x]]
      /\ heap' = HarvestedHeap \cup {[deadline |-> e.deadline, tag |-> t]}
      /\ UNCHANGED <<now, stopped, drained, abandoned>>
  BY DEF BeginEvent
<1>2. PICK due \in DeadlineOrder(WithFragments(Expired)) :
        completed' = completed \o Partials(due)
  BY DEF BeginEvent, HarvestOutput
<1>3. OutputsOK(completed', Live)
  BY <1>2, HarvestFacts
<1>4. Cardinality(dus) \in Nat
  BY FS_Subset, FS_CardinalityType DEF BuilderConstants
<1>5. stat' \in Counters /\ stat'.registered = stat.registered + 1
  <2>1. HarvestedStat \in Counters /\ HarvestedStat.registered = stat.registered
    BY HarvestTypes, HarvestFacts
  <2>2. /\ HarvestedStat.registered + 1 \in Nat
        /\ HarvestedStat.expected + Cardinality(dus) \in Nat
    BY <2>1, <1>4 DEF Counters
  <2>3. stat' = [HarvestedStat EXCEPT !.registered = @ + 1,
                                      !.expected = @ + Cardinality(dus)]
    BY DEF BeginEvent
  <2> QED
    BY <2>1, <2>2, <2>3, Zenon DEF Counters
<1>6. stat.registered \in Nat /\ now \in Nat
  BY DEF TypeOK, Counters
<1>7. BucketStart(now) \in Nat
  <2>1. now \div BucketLen \in Nat /\ BucketLen \in Nat
    BY <1>6 DEF BuilderConstants
  <2> QED
    BY <2>1 DEF BucketStart
<1>8. e \in Event
  <2>1. <<>> \in Seq(DU) /\ dus \in SUBSET DU /\ now + EventTimeout \in Nat
    BY <1>6 DEF BuilderConstants
  <2> QED
    BY <2>1, <1>6, <1>7 DEF Event
<1>9. /\ e.id = stat.registered /\ e.exp = dus /\ e.att = {} /\ DOMAIN e.frags = {}
  OBVIOUS
<1>10. /\ loss' \in LossTotals /\ DOMAIN buckets' \subseteq Nat
       /\ \A b \in DOMAIN buckets' : buckets'[b] \in LossBucket
  <2>1. LossExpected(BucketStart(now), dus)
    BY DEF BeginEvent
  <2>2. loss' \in LossTotals
    <3>1. HarvestedLoss \in LossTotals
      BY HarvestTypes
    <3> QED
      BY <2>1, <3>1, <1>4 DEF LossExpected, LossTotals
  <2> DEFINE hb == HarvestedBuckets
  <2>3. DOMAIN hb \subseteq Nat /\ \A b \in DOMAIN hb : hb[b] \in LossBucket
    BY HarvestTypes
  <2> HIDE DEF hb
  <2>4. buckets' = [x \in Kept(DOMAIN hb, BucketStart(now)) \cup {BucketStart(now)} |->
                      IF x = BucketStart(now)
                        THEN [BucketOf(x, hb) EXCEPT !.expected = @ + Cardinality(dus)]
                        ELSE hb[x]]
    BY <2>1, Zenon DEF LossExpected, hb
  <2>5. BucketOf(BucketStart(now), hb) \in LossBucket
    BY <2>3 DEF BucketOf, EmptyBucket, LossBucket
  <2>6. [BucketOf(BucketStart(now), hb) EXCEPT !.expected = @ + Cardinality(dus)]
          \in LossBucket
    BY <2>5, <1>4 DEF LossBucket
  <2>7. Kept(DOMAIN hb, BucketStart(now)) \subseteq DOMAIN hb
    BY DEF Kept
  <2> QED
    BY <2>2, <2>3, <2>4, <2>6, <2>7, <1>7
<1> HIDE DEF e
<1>11. /\ DOMAIN pending' = Live \cup {t} /\ pending'[t] = e
       /\ \A x \in Live : pending'[x] = pending[x]
  BY <1>1
<1>12. Live \subseteq DOMAIN pending
  BY SubsetsOfPending
<1>13. TypeOK'
  <2>1. DOMAIN pending' \subseteq Tags /\ \A x \in DOMAIN pending' : pending'[x] \in Event
    BY <1>8, <1>11, <1>12 DEF TypeOK
  <2>2. heap' \subseteq [deadline : Nat, tag : Tags]
    BY <1>1, <1>8, HarvestTypes DEF Event
  <2>3. run' \in RunCounters /\ perDu' \in [DU -> Nat]
    BY HarvestTypes DEF BeginEvent
  <2>4. completed' \in Seq(Output)
    BY <1>3 DEF OutputsOK
  <2> QED
    BY <2>1, <2>2, <2>3, <2>4, <1>1, <1>5, <1>10 DEF TypeOK
<1>14. PendingOK'
  <2>1. e.id \notin drained /\ \A x \in Live : pending[x].id # e.id
    BY <1>6, <1>9, <1>12 DEF PendingOK, PendingEventOK, TypeOK, Event
  <2>2. drained' = drained /\ stat.registered < stat'.registered
    BY <1>1, <1>5, <1>6
  <2>3. \A x \in Live : PendingEventOK(pending[x])'
    <3> SUFFICES ASSUME NEW x \in Live PROVE PendingEventOK(pending[x])'
      OBVIOUS
    <3>1. PendingEventOK(pending[x]) /\ pending[x].id \in Nat /\ pending'[x] = pending[x]
      BY <1>11, <1>12 DEF PendingOK, TypeOK, Event
    <3>2. pending[x].id < stat'.registered
      BY <3>1, <2>2, <1>5, <1>6 DEF PendingEventOK
    <3> QED
      BY <3>1, <3>2, <2>2 DEF PendingEventOK
  <2>4. PendingEventOK(pending[t])'
    BY <2>1, <2>2, <1>1, <1>9, <1>11 DEF PendingEventOK
  <2>5. \A x, y \in DOMAIN pending' : pending'[x].id = pending'[y].id => x = y
    BY <2>1, <1>9, <1>11, <1>12 DEF PendingOK
  <2> QED
    BY <2>3, <2>4, <2>5, <1>11 DEF PendingOK
<1>15. DeadlineCovered'
  BY <1>1, <1>11, HarvestFacts DEF DeadlineCovered
<1>16. OutputsOK(completed, DOMAIN pending)'
  <2>1. \A i \in DOMAIN completed' : completed'[i].id # e.id
    BY <1>3, <1>9, <1>6 DEF OutputsOK
  <2>2. \A i \in DOMAIN completed' : completed'[i].id < stat'.registered
    <3>0. completed' \in Seq(Output)
      BY <1>3 DEF OutputsOK
    <3>1. \A i \in DOMAIN completed' : completed'[i].id \in Nat
      <4>1. \A i \in DOMAIN completed' : completed'[i] \in Output
        BY <3>0, LenProperties
      <4> QED
        BY <4>1 DEF Output
    <3> QED
      BY <3>1, <1>3, <1>5, <1>6 DEF OutputsOK
  <2> QED
    BY <2>1, <2>2, <1>1, <1>3, <1>11 DEF OutputsOK
<1>17. \A i \in drained' : i < stat'.registered
  BY <1>1, <1>5, <1>6 DEF TypeOK
<1>18. ~stopped'
  BY <1>1 DEF BeginEvent
<1> QED
  BY <1>13, <1>14, <1>15, <1>16, <1>17, <1>18

\* An accepted fragment keeps a pending event's DUs and fragments in step.
LEMMA AttachedOK ==
  ASSUME BuilderConstants, IInv, NEW t \in Tags, NEW d \in DU, Accepts(t, d, TRUE)
  PROVE  LET a == Attached(pending[t], d)
         IN  /\ t \in Live
             /\ a \in Event
             /\ a.id = pending[t].id /\ a.exp = pending[t].exp
             /\ a.deadline = pending[t].deadline
             /\ a.att \subseteq a.exp
             /\ a.frags # <<>>
             /\ \A j, k \in DOMAIN a.frags : a.frags[j] = a.frags[k] => j = k
             /\ a.att = {a.frags[j] : j \in DOMAIN a.frags}
<1> DEFINE e == pending[t]
           a == Attached(e, d)
           f == e.frags
           n == Len(f)
<1>1. t \in Live /\ d \in e.exp /\ d \notin e.att /\ t \in DOMAIN pending
  BY SubsetsOfPending DEF Accepts
<1>2. e \in Event /\ PendingEventOK(e)
  BY <1>1 DEF IInv, TypeOK, PendingOK
<1> HIDE DEF e
<1>3. f \in Seq(DU) /\ Len(f) \in Nat /\ DOMAIN f = 1..n
  BY <1>2, LenProperties DEF Event
<1>4. /\ a.frags = Append(f, d) /\ a.att = e.att \cup {d} /\ a \in Event
      /\ a.id = e.id /\ a.exp = e.exp /\ a.deadline = e.deadline
  <2>1. Append(f, d) \in Seq(DU) /\ e.att \cup {d} \in SUBSET DU
    BY <1>2, <1>3 DEF Event
  <2> QED
    BY <1>2, <2>1, Zenon DEF Attached, Event
<1>5. /\ DOMAIN a.frags = 1..n + 1
      /\ \A j \in 1..n : a.frags[j] = f[j]
      /\ a.frags[n + 1] = d
  BY <1>3, <1>4
<1>6. \A j \in 1..n : f[j] # d
  BY <1>1, <1>2, <1>3 DEF PendingEventOK
<1>7. \A j, k \in DOMAIN a.frags : a.frags[j] = a.frags[k] => j = k
  <2>1. \A j \in 1..n + 1 : j \in 1..n \/ j = n + 1
    BY <1>3
  <2> QED
    BY <2>1, <1>2, <1>3, <1>5, <1>6 DEF PendingEventOK
<1>8. a.att = {a.frags[j] : j \in DOMAIN a.frags}
  <2>1. e.att = {f[j] : j \in 1..n}
    BY <1>2, <1>3 DEF PendingEventOK
  <2>2. 1..n + 1 = 1..n \cup {n + 1}
    BY <1>3
  <2> QED
    BY <2>1, <2>2, <1>4, <1>5
<1>9. a.att \subseteq a.exp
  BY <1>1, <1>2, <1>4 DEF PendingEventOK
<1>10. a.frags # <<>>
  BY <1>3, <1>5
<1> QED
  BY <1>1, <1>4, <1>7, <1>8, <1>9, <1>10 DEF e

LEMMA AttachFragmentStep ==
  ASSUME BuilderConstants, IInv, NEW t \in Tags, NEW d \in DU, AttachFragment(t, d)
  PROVE  IInv'
<1> USE DEF IInv
<1> DEFINE a == Attached(pending[t], d)
<1>0. Accepts(t, d, TRUE) /\ a.att # a.exp
  BY DEF AttachFragment, IsEventCompleted
<1>1. /\ t \in Live /\ a \in Event
      /\ a.id = pending[t].id /\ a.deadline = pending[t].deadline
      /\ a.att \subseteq a.exp
      /\ \A j, k \in DOMAIN a.frags : a.frags[j] = a.frags[k] => j = k
      /\ a.att = {a.frags[j] : j \in DOMAIN a.frags}
  BY <1>0, AttachedOK
<1>2. PICK due \in DeadlineOrder(WithFragments(Expired)) :
        completed' = completed \o Partials(due)
  BY DEF AttachFragment, HarvestOutput
<1>3. OutputsOK(completed', Live)
  BY <1>2, HarvestFacts
<1>4. /\ DOMAIN pending' = Live /\ pending'[t] = a
      /\ \A x \in Live \ {t} : pending'[x] = pending[x]
  BY <1>1, HarvestTypes DEF AttachFragment
<1>5. stat' \in Counters /\ stat'.registered = stat.registered
  <2>1. HarvestedStat \in Counters /\ HarvestedStat.registered = stat.registered
    BY HarvestTypes, HarvestFacts
  <2>2. HarvestedStat.received + 1 \in Nat
    BY <2>1 DEF Counters
  <2>3. stat' = [HarvestedStat EXCEPT !.received = @ + 1]
    BY DEF AttachFragment
  <2> QED
    BY <2>1, <2>2, <2>3, Zenon DEF Counters
<1> HIDE DEF a
<1>6. Live \subseteq DOMAIN pending
  BY SubsetsOfPending
<1>7. UNCHANGED <<now, stopped, drained, abandoned>> /\ heap' = HarvestedHeap
  BY DEF AttachFragment
<1>8. TypeOK'
  <2>1. DOMAIN pending' \subseteq Tags /\ \A x \in DOMAIN pending' : pending'[x] \in Event
    BY <1>1, <1>4, <1>6 DEF TypeOK
  <2>2. completed' \in Seq(Output)
    BY <1>3 DEF OutputsOK
  <2> QED
    BY <2>1, <2>2, <1>5, <1>7, HarvestTypes DEF AttachFragment, TypeOK
<1>9. PendingOK'
  BY <1>0, <1>1, <1>4, <1>5, <1>6, <1>7 DEF PendingOK, PendingEventOK, a
<1>10. DeadlineCovered'
  BY <1>1, <1>4, <1>7, HarvestFacts DEF DeadlineCovered
<1>11. OutputsOK(completed, DOMAIN pending)'
  BY <1>1, <1>3, <1>4, <1>5, <1>7 DEF OutputsOK
<1> QED
  BY <1>5, <1>7, <1>8, <1>9, <1>10, <1>11 DEF AttachFragment

\* Appending the output of one event leaves good outputs for the others.
LEMMA AppendOutput ==
  ASSUME PendingOK, NEW U \in SUBSET DOMAIN pending, NEW t \in DOMAIN pending \ U,
         NEW c, OutputsOK(c, U \cup {t}),
         NEW o \in Output, ExactOutput(o), o.id = pending[t].id
  PROVE  OutputsOK(c \o <<o>>, U)
<1> DEFINE r == c \o <<o>>
           n == Len(c)
<1>1. c \in Seq(Output) /\ n \in Nat /\ DOMAIN c = 1..n
  BY LenProperties DEF OutputsOK
<1>2. r \in Seq(Output) /\ DOMAIN r = 1..n + 1
      /\ (\A i \in 1..n : r[i] = c[i]) /\ r[n + 1] = o
  <2>1. <<o>> \in Seq(Output) /\ Len(<<o>>) = 1 /\ <<o>>[1] = o
    OBVIOUS
  <2>2. /\ r \in Seq(Output) /\ Len(r) = n + 1
        /\ \A i \in 1..n + 1 : r[i] = IF i <= n THEN c[i] ELSE <<o>>[i - n]
    BY <1>1, <2>1, ConcatProperties
  <2>3. DOMAIN r = 1..n + 1
    BY <2>2, LenProperties
  <2> HIDE DEF r
  <2> QED
    BY <1>1, <2>1, <2>2, <2>3
<1>3. \A i \in 1..n + 1 : i \in 1..n \/ i = n + 1
  BY <1>1
<1> HIDE DEF r, n
<1>4. \A i \in 1..n : /\ ExactOutput(c[i]) /\ c[i].id < stat.registered
                      /\ c[i].id \notin drained /\ c[i].id # o.id
                      /\ \A u \in U : c[i].id # pending[u].id
  BY <1>1 DEF OutputsOK
<1>5. /\ o.id < stat.registered /\ o.id \notin drained
      /\ \A u \in U : o.id # pending[u].id
  BY DEF PendingOK, PendingEventOK
<1>6. \A i, j \in DOMAIN r : r[i].id = r[j].id => i = j
  BY <1>1, <1>2, <1>3, <1>4 DEF OutputsOK
<1>7. \A i \in DOMAIN r : /\ ExactOutput(r[i]) /\ r[i].id < stat.registered
                         /\ r[i].id \notin drained
                         /\ \A u \in U : r[i].id # pending[u].id
  BY <1>2, <1>3, <1>4, <1>5
<1> QED
  BY <1>2, <1>6, <1>7 DEF OutputsOK, r

LEMMA CompleteEventStep ==
  ASSUME BuilderConstants, IInv, NEW t \in Tags, NEW d \in DU, CompleteEvent(t, d)
  PROVE  IInv'
<1> USE DEF IInv
<1> DEFINE a == Attached(pending[t], d)
           o == CompletedEvent(t, a, FALSE)
           U == Live \ {t}
<1>0. Accepts(t, d, TRUE) /\ a.att = a.exp
  BY DEF CompleteEvent, IsEventCompleted
<1>1. /\ t \in Live /\ a \in Event
      /\ a.id = pending[t].id
      /\ a.frags # <<>>
      /\ \A j, k \in DOMAIN a.frags : a.frags[j] = a.frags[k] => j = k
      /\ a.att = {a.frags[j] : j \in DOMAIN a.frags}
  BY <1>0, AttachedOK
<1> HIDE DEF a
<1>2. o \in Output /\ ExactOutput(o) /\ o.id = pending[t].id
  BY <1>0, <1>1 DEF CompletedEvent, Event, Output, ExactOutput
<1> HIDE DEF o
<1>3. PICK due \in DeadlineOrder(WithFragments(Expired)) :
        completed' = completed \o Partials(due) \o <<o>>
  BY DEF CompleteEvent, a, o
<1>4. OutputsOK(completed \o Partials(due), Live)
  BY <1>3, HarvestFacts
<1>5. Live \subseteq DOMAIN pending /\ U \cup {t} = Live /\ U \in SUBSET DOMAIN pending
      /\ t \in DOMAIN pending \ U
  BY <1>1, SubsetsOfPending
<1>6. OutputsOK(completed', U)
  BY <1>2, <1>3, <1>4, <1>5, AppendOutput
<1>7. DOMAIN pending' = U /\ \A x \in U : pending'[x] = pending[x]
  BY DEF CompleteEvent
<1>8. stat' \in Counters /\ stat'.registered = stat.registered
  <2>1. HarvestedStat \in Counters /\ HarvestedStat.registered = stat.registered
    BY HarvestTypes, HarvestFacts
  <2>2. HarvestedStat.received + 1 \in Nat /\ HarvestedStat.complete + 1 \in Nat
    BY <2>1 DEF Counters
  <2>3. stat' = [HarvestedStat EXCEPT !.received = @ + 1, !.complete = @ + 1]
    BY DEF CompleteEvent
  <2> QED
    BY <2>1, <2>2, <2>3, Zenon DEF Counters
<1>9. run' \in RunCounters
  <2>1. HarvestedRun \in RunCounters
    BY HarvestTypes
  <2> QED
    BY <2>1 DEF CompleteEvent, RunCounters
<1>10. UNCHANGED <<now, stopped, drained, abandoned>> /\ heap' = HarvestedHeap
  BY DEF CompleteEvent
<1>11. TypeOK'
  <2>1. DOMAIN pending' \subseteq Tags /\ \A x \in DOMAIN pending' : pending'[x] \in Event
    BY <1>5, <1>7 DEF TypeOK
  <2>2. completed' \in Seq(Output)
    BY <1>6 DEF OutputsOK
  <2> QED
    BY <2>1, <2>2, <1>8, <1>9, <1>10, HarvestTypes DEF CompleteEvent, TypeOK
<1> HIDE DEF U
<1>12. PendingOK'
  BY <1>5, <1>7, <1>8, <1>10 DEF PendingOK, PendingEventOK
<1>13. DeadlineCovered'
  BY <1>5, <1>7, <1>10, HarvestFacts DEF DeadlineCovered
<1>14. OutputsOK(completed, DOMAIN pending)'
  BY <1>6, <1>7, <1>8, <1>10 DEF OutputsOK
<1>15. stopped' = stopped /\ ~stopped
  BY DEF CompleteEvent
<1> QED
  BY <1>8, <1>10, <1>11, <1>12, <1>13, <1>14, <1>15

LEMMA DrainRunningStep ==
  ASSUME BuilderConstants, IInv, DrainRunning
  PROVE  IInv'
<1> USE DEF IInv
<1>1. DOMAIN pending' = Live /\ \A t \in Live : pending'[t] = pending[t]
  BY HarvestTypes DEF DrainRunning
<1>2. Live \subseteq DOMAIN pending /\ Expired \subseteq DOMAIN pending
      /\ Live \cap Expired = {}
  BY SubsetsOfPending DEF Live
<1>3. stat'.registered = stat.registered /\ heap' = HarvestedHeap
      /\ UNCHANGED <<now, stopped, abandoned>> /\ ~stopped
  BY HarvestFacts DEF DrainRunning
<1>4. \A t \in DOMAIN pending : pending[t].id \in Nat /\ pending[t].id < stat.registered
  BY DEF TypeOK, Event, PendingOK, PendingEventOK
<1>5. \A i \in DOMAIN completed : completed[i].id \in Nat /\ completed[i].id < stat.registered
  <2>1. \A i \in DOMAIN completed : completed[i] \in Output
    BY LenProperties DEF TypeOK
  <2> QED
    BY <2>1 DEF Output, OutputsOK
<1>6. drained' = drained \cup Ids(completed)
                         \cup {pending[t].id : t \in WithFragments(Expired)}
  BY DEF DrainRunning
<1>7. drained' \subseteq Nat /\ \A i \in drained' : i < stat.registered
  BY <1>2, <1>4, <1>5, <1>6, SubsetsOfPending DEF Ids, TypeOK
<1>8. \A t \in Live : pending[t].id \notin drained'
  <2>1. \A t \in Live : pending[t].id \notin Ids(completed) \cup drained
    BY <1>2 DEF Ids, OutputsOK, PendingOK, PendingEventOK
  <2>2. \A t \in Live, u \in WithFragments(Expired) : pending[t].id # pending[u].id
    BY <1>2, SubsetsOfPending DEF PendingOK
  <2> QED
    BY <2>1, <2>2, <1>6
<1>9. DOMAIN completed' = {} /\ completed' \in Seq(Output)
  BY DEF DrainRunning
<1>10. TypeOK'
  BY <1>1, <1>2, <1>3, <1>7, <1>9, HarvestTypes DEF DrainRunning, TypeOK
<1>11. PendingOK'
  BY <1>1, <1>2, <1>3, <1>8 DEF PendingOK, PendingEventOK
<1>12. DeadlineCovered'
  BY <1>1, <1>3, HarvestFacts DEF DeadlineCovered
<1>13. OutputsOK(completed, DOMAIN pending)'
  BY <1>9 DEF OutputsOK
<1> QED
  BY <1>3, <1>7, <1>10, <1>11, <1>12, <1>13

LEMMA DrainStoppedStep ==
  ASSUME IInv, DrainStopped
  PROVE  IInv'
<1> USE DEF IInv
<1>1. DOMAIN pending = {} /\ drained' = drained \cup Ids(completed)
      /\ DOMAIN completed' = {} /\ completed' \in Seq(Output)
      /\ UNCHANGED <<now, stopped, pending, heap, stat, run, perDu, loss, buckets, abandoned>>
  BY DEF DrainStopped
<1>2. \A i \in DOMAIN completed : completed[i].id \in Nat /\ completed[i].id < stat.registered
  <2>1. \A i \in DOMAIN completed : completed[i] \in Output
    BY LenProperties DEF TypeOK
  <2> QED
    BY <2>1 DEF Output, OutputsOK
<1>3. drained' \subseteq Nat /\ \A i \in drained' : i < stat.registered
  BY <1>1, <1>2 DEF Ids, TypeOK
<1>4. TypeOK'
  BY <1>1, <1>3 DEF TypeOK
<1>5. PendingOK' /\ DeadlineCovered' /\ OutputsOK(completed, DOMAIN pending)'
  BY <1>1 DEF PendingOK, DeadlineCovered, OutputsOK
<1> QED
  BY <1>1, <1>3, <1>4, <1>5

-----------------------------------------------------------------------------
(***************************************************************************)
(* The theorems                                                            *)
(***************************************************************************)

LEMMA Invariance == BuilderConstants /\ Spec => []IInv
<1> SUFFICES ASSUME BuilderConstants PROVE Spec => []IInv
  OBVIOUS
<1>1. Init => IInv
  BY InitIInv
<1>2. IInv /\ [Next]_vars => IInv'
  <2> SUFFICES ASSUME IInv, [Next]_vars PROVE IInv'
    OBVIOUS
  <2>1. CASE Tick
    BY <2>1, TickStep
  <2>2. CASE Start
    BY <2>2, StartStep
  <2>3. CASE Stop
    BY <2>3, StopStep
  <2>4. ASSUME NEW t \in Tags, NEW dus \in SUBSET ChannelTags, BeginEvent(t, dus)
        PROVE  IInv'
    BY <2>4, BeginEventStep
  <2>5. CASE HarvestOnly
    <3>1. run' \in RunCounters
      BY <2>5, HarvestTypes DEF HarvestOnly, IInv
    <3> QED
      BY <2>5, <3>1, HarvestStep DEF HarvestOnly
  <2>6. ASSUME NEW t \in Tags, NEW d \in DU, AttachFragment(t, d)
        PROVE  IInv'
    BY <2>6, AttachFragmentStep
  <2>7. ASSUME NEW t \in Tags, NEW d \in DU, CompleteEvent(t, d)
        PROVE  IInv'
    BY <2>7, CompleteEventStep
  <2>8. ASSUME NEW t \in Tags, NEW d \in DU, NEW payload \in BOOLEAN,
               RejectFragment(t, d, payload)
        PROVE  IInv'
    <3>1. HarvestedRun \in RunCounters
      BY HarvestTypes DEF IInv
    <3>2. run' \in RunCounters
      BY <2>8, <3>1 DEF RejectFragment, RunCounters
    <3> QED
      BY <2>8, <3>2, HarvestStep DEF RejectFragment
  <2>9. CASE DrainRunning
    BY <2>9, DrainRunningStep
  <2>10. CASE DrainStopped
    BY <2>10, DrainStoppedStep
  <2>11. CASE UNCHANGED vars
    BY <2>11 DEF vars, IInv, TypeOK, PendingOK, PendingEventOK, DeadlineCovered, OutputsOK
  <2> QED
    BY <2>1, <2>2, <2>3, <2>4, <2>5, <2>6, <2>7, <2>8, <2>9, <2>10, <2>11 DEF Next
<1> QED
  BY <1>1, <1>2, PTL DEF Spec

(***************************************************************************)
(* Every variable of the Builder keeps its type.                           *)
(***************************************************************************)
THEOREM TypeCorrect == BuilderConstants /\ Spec => []TypeOK
<1>1. IInv => TypeOK
  BY DEF IInv
<1> QED
  BY <1>1, Invariance, PTL

(***************************************************************************)
(* A pending event always has its own entry in the deadline heap, so a     *)
(* harvest after its deadline times it out.                                *)
(***************************************************************************)
THEOREM DeadlinesNeverLost == BuilderConstants /\ Spec => []DeadlineCovered
<1>1. IInv => DeadlineCovered
  BY DEF IInv
<1> QED
  BY <1>1, Invariance, PTL

(***************************************************************************)
(* What the Builder hands to the writer is exact: one fragment per asked   *)
(* DU, partial if and only if a DU is missing.                             *)
(***************************************************************************)
THEOREM OutputsAreExact == BuilderConstants /\ Spec => []OutputExact
<1>1. IInv => OutputExact
  BY DEF IInv, OutputsOK, OutputExact
<1> QED
  BY <1>1, Invariance, PTL

(***************************************************************************)
(* A registration is output at most once over the life of the Builder.     *)
(***************************************************************************)
THEOREM OutputsAreUnique == BuilderConstants /\ Spec => []EmittedOnce
<1>1. IInv => EmittedOnce
  BY DEF IInv, OutputsOK, PendingOK, PendingEventOK, EmittedOnce, Ids
<1> QED
  BY <1>1, Invariance, PTL

-----------------------------------------------------------------------------
(***************************************************************************)
(* The books balance, and no event times out early.                        *)
(***************************************************************************)

\* The counters a harvest does not touch, and those it raises.
LEMMA HarvestCounters ==
  ASSUME BuilderConstants, TypeOK
  PROVE  /\ HarvestedStat \in Counters /\ stat \in Counters
         /\ HarvestedStat.registered = stat.registered
         /\ HarvestedStat.expected = stat.expected
         /\ HarvestedStat.received = stat.received
         /\ HarvestedStat.complete = stat.complete
         /\ HarvestedStat.timeout = stat.timeout + Cardinality(Expired)
         /\ HarvestedStat.missing = stat.missing + Cardinality(Awaited(Expired))
<1>1. stat \in Counters /\ HarvestedStat \in Counters
  BY HarvestTypes DEF TypeOK
<1> QED
  BY <1>1, Zenon DEF HarvestedStat, Counters

\* Disjoint sets add up.
LEMMA DisjointUnion ==
  ASSUME NEW S, NEW T, IsFiniteSet(S), IsFiniteSet(T), S \cap T = {}
  PROVE  Cardinality(S \cup T) = Cardinality(S) + Cardinality(T)
<1>1. Cardinality(S \cup T) = Cardinality(S) + Cardinality(T) - Cardinality(S \cap T)
  BY FS_Union
<1>2. Cardinality(S \cap T) = 0
  BY FS_EmptySet
<1>3. Cardinality(S) \in Nat /\ Cardinality(T) \in Nat
  BY FS_CardinalityType
<1> QED
  BY <1>1, <1>2, <1>3

\* Splitting the pending events splits the counts.
LEMMA HarvestSplits ==
  ASSUME BuilderConstants, TypeOK
  PROVE  /\ Cardinality(Live) \in Nat /\ Cardinality(Expired) \in Nat
         /\ Cardinality(DOMAIN pending) = Cardinality(Live) + Cardinality(Expired)
         /\ Cardinality(Awaited(Live)) \in Nat /\ Cardinality(Awaited(Expired)) \in Nat
         /\ Cardinality(Awaited(DOMAIN pending))
              = Cardinality(Awaited(Live)) + Cardinality(Awaited(Expired))
<1>1. Live \in SUBSET DOMAIN pending /\ Expired \in SUBSET DOMAIN pending
      /\ Live \cup Expired = DOMAIN pending /\ Live \cap Expired = {}
  BY SubsetsOfPending DEF Live
<1>2. Awaited(Live) \cup Awaited(Expired) = Awaited(DOMAIN pending)
      /\ Awaited(Live) \cap Awaited(Expired) = {}
  BY <1>1 DEF Awaited
<1>3. \A T \in SUBSET DOMAIN pending :
        /\ IsFiniteSet(T) /\ Cardinality(T) \in Nat
        /\ IsFiniteSet(Awaited(T)) /\ Cardinality(Awaited(T)) \in Nat
  BY CountableAwaited DEF TypeOK
<1>4. Cardinality(DOMAIN pending) = Cardinality(Live) + Cardinality(Expired)
  BY <1>1, <1>3, DisjointUnion
<1>5. Cardinality(Awaited(DOMAIN pending))
        = Cardinality(Awaited(Live)) + Cardinality(Awaited(Expired))
  <2>1. IsFiniteSet(Awaited(Live)) /\ IsFiniteSet(Awaited(Expired))
    BY <1>1, <1>3
  <2> QED
    BY <2>1, <1>2, DisjointUnion
<1> QED
  BY <1>1, <1>3, <1>4, <1>5

\* After a harvest the books balance over the live events.
LEMMA HarvestBalances ==
  ASSUME BuilderConstants, TypeOK, Balanced
  PROVE  /\ HarvestedStat.registered
              = HarvestedStat.complete + HarvestedStat.timeout
                + Cardinality(Live) + abandoned.events
         /\ HarvestedStat.expected
              = HarvestedStat.received + HarvestedStat.missing
                + Cardinality(Awaited(Live)) + abandoned.awaited
<1>1. abandoned.events \in Nat /\ abandoned.awaited \in Nat
  BY DEF TypeOK
<1>2. /\ stat.registered \in Nat /\ stat.complete \in Nat /\ stat.timeout \in Nat
      /\ stat.expected \in Nat /\ stat.received \in Nat /\ stat.missing \in Nat
  BY DEF TypeOK, Counters
<1>3. /\ stat.registered = stat.complete + stat.timeout + Cardinality(DOMAIN pending)
                           + abandoned.events
      /\ stat.expected = stat.received + stat.missing
                         + Cardinality(Awaited(DOMAIN pending)) + abandoned.awaited
  BY DEF Balanced, EventConservation, FragmentConservation
<1> QED
  BY <1>1, <1>2, <1>3, HarvestCounters, HarvestSplits

\* What is pending after a step decides what is awaited after it.
LEMMA HarvestOnlyBalances ==
  ASSUME BuilderConstants, TypeOK, Balanced,
         pending' = HarvestedPending, stat' = HarvestedStat, UNCHANGED abandoned
  PROVE  Balanced'
<1>1. DOMAIN pending' = Live /\ \A t \in Live : pending'[t] = pending[t]
  BY HarvestTypes
<1>2. Awaited(DOMAIN pending)' = Awaited(Live)
  BY <1>1 DEF Awaited
<1> QED
  BY <1>1, <1>2, HarvestBalances DEF Balanced, EventConservation, FragmentConservation

LEMMA BeginEventBalances ==
  ASSUME BuilderConstants, TypeOK, Balanced,
         NEW t \in Tags, NEW dus \in SUBSET ChannelTags, BeginEvent(t, dus)
  PROVE  Balanced'
<1> DEFINE asked == {t} \X dus
<1>1. /\ t \notin Live
      /\ DOMAIN pending' = Live \cup {t}
      /\ \A x \in Live : pending'[x] = pending[x]
      /\ pending'[t].exp = dus /\ pending'[t].att = {}
      /\ UNCHANGED abandoned
  BY DEF BeginEvent
<1>2. Awaited(DOMAIN pending)' = Awaited(Live) \cup asked
  BY <1>1 DEF Awaited, BuilderConstants
<1>3. Awaited(Live) \cap asked = {}
  BY <1>1 DEF Awaited
<1>4. IsFiniteSet(dus) /\ Cardinality(dus) \in Nat
      /\ IsFiniteSet(asked) /\ Cardinality(asked) = Cardinality(dus)
  <2>1. IsFiniteSet(ChannelTags) /\ IsFiniteSet(dus)
    BY FS_Subset DEF BuilderConstants
  <2>2. Cardinality(dus) \in Nat
    BY <2>1, FS_CardinalityType
  <2>3. IsFiniteSet({t}) /\ Cardinality({t}) = 1
    BY FS_Singleton
  <2>4. IsFiniteSet(asked) /\ Cardinality(asked) = 1 * Cardinality(dus)
    BY <2>1, <2>3, FS_Product
  <2> QED
    BY <2>1, <2>2, <2>4
<1> HIDE DEF asked
<1>5. IsFiniteSet(Live) /\ IsFiniteSet(Awaited(Live))
  BY SubsetsOfPending, CountableAwaited DEF TypeOK
<1>6. Cardinality(Awaited(DOMAIN pending))' = Cardinality(Awaited(Live)) + Cardinality(dus)
  <2>1. Cardinality(Awaited(Live) \cup asked)
          = Cardinality(Awaited(Live)) + Cardinality(asked)
    BY <1>3, <1>4, <1>5, DisjointUnion
  <2> QED
    BY <1>2, <1>4, <2>1
<1>7. Cardinality(DOMAIN pending)' = Cardinality(Live) + 1
  BY <1>1, <1>5, FS_AddElement
<1>8. /\ stat'.registered = HarvestedStat.registered + 1
      /\ stat'.expected = HarvestedStat.expected + Cardinality(dus)
      /\ stat'.complete = HarvestedStat.complete
      /\ stat'.timeout = HarvestedStat.timeout
      /\ stat'.received = HarvestedStat.received
      /\ stat'.missing = HarvestedStat.missing
  <2>1. stat' = [HarvestedStat EXCEPT !.registered = @ + 1,
                                      !.expected = @ + Cardinality(dus)]
    BY DEF BeginEvent
  <2> QED
    BY <2>1, HarvestCounters, Zenon DEF Counters
<1>9. abandoned.events \in Nat /\ abandoned.awaited \in Nat /\ HarvestedStat \in Counters
  BY HarvestTypes DEF TypeOK
<1>10. EventConservation'
  BY <1>1, <1>7, <1>8, <1>9, HarvestBalances, HarvestSplits DEF EventConservation, Counters
<1>11. FragmentConservation'
  BY <1>1, <1>4, <1>6, <1>8, <1>9, HarvestBalances, HarvestSplits
     DEF FragmentConservation, Counters
<1> QED
  BY <1>10, <1>11 DEF Balanced

\* A fragment that is accepted stops being awaited.
LEMMA AttachBalances ==
  ASSUME BuilderConstants, TypeOK, NEW t \in Tags, NEW d \in DU, Accepts(t, d, TRUE)
  PROVE  /\ <<t, d>> \in Awaited(Live)
         /\ Cardinality(Awaited(Live) \ {<<t, d>>}) = Cardinality(Awaited(Live)) - 1
<1>1. <<t, d>> \in Awaited(Live)
  BY DEF Accepts, Awaited
<1>2. IsFiniteSet(Awaited(Live))
  BY SubsetsOfPending, CountableAwaited DEF TypeOK
<1> QED
  BY <1>1, <1>2, FS_RemoveElement

LEMMA AttachFragmentBalances ==
  ASSUME BuilderConstants, TypeOK, Balanced,
         NEW t \in Tags, NEW d \in DU, AttachFragment(t, d)
  PROVE  Balanced'
<1>1. /\ Accepts(t, d, TRUE) /\ t \in Live
      /\ pending' = [HarvestedPending EXCEPT ![t] = Attached(@, d)]
      /\ stat' = [HarvestedStat EXCEPT !.received = @ + 1]
      /\ UNCHANGED abandoned
  BY DEF AttachFragment, Accepts
<1>2. pending[t] \in Event /\ \A x \in Live : HarvestedPending[x] = pending[x]
      /\ DOMAIN HarvestedPending = Live
  BY <1>1, HarvestTypes
<1>3. DOMAIN pending' = Live
      /\ (\A x \in Live \ {t} : pending'[x] = pending[x])
      /\ pending'[t] = Attached(pending[t], d)
  BY <1>1, <1>2
<1>4. pending'[t].exp = pending[t].exp /\ pending'[t].att = pending[t].att \cup {d}
  BY <1>2, <1>3 DEF Attached, Event
<1>5. Awaited(DOMAIN pending)' = Awaited(Live) \ {<<t, d>>}
  BY <1>1, <1>3, <1>4 DEF Awaited
<1>6. Cardinality(Awaited(DOMAIN pending))' = Cardinality(Awaited(Live)) - 1
  BY <1>1, <1>5, AttachBalances
<1>7. /\ stat'.registered = HarvestedStat.registered
      /\ stat'.expected = HarvestedStat.expected
      /\ stat'.complete = HarvestedStat.complete
      /\ stat'.timeout = HarvestedStat.timeout
      /\ stat'.received = HarvestedStat.received + 1
      /\ stat'.missing = HarvestedStat.missing
  BY <1>1, HarvestCounters, Zenon DEF Counters
<1>8. abandoned.events \in Nat /\ abandoned.awaited \in Nat /\ HarvestedStat \in Counters
  BY HarvestTypes DEF TypeOK
<1>9. EventConservation'
  BY <1>1, <1>3, <1>7, HarvestBalances DEF EventConservation
<1>10. FragmentConservation'
  BY <1>1, <1>6, <1>7, <1>8, HarvestBalances, HarvestSplits DEF FragmentConservation, Counters
<1> QED
  BY <1>9, <1>10 DEF Balanced

LEMMA CompleteEventBalances ==
  ASSUME BuilderConstants, TypeOK, Balanced,
         NEW t \in Tags, NEW d \in DU, CompleteEvent(t, d)
  PROVE  Balanced'
<1>1. /\ Accepts(t, d, TRUE) /\ t \in Live
      /\ DOMAIN pending' = Live \ {t}
      /\ \A x \in Live \ {t} : pending'[x] = pending[x]
      /\ UNCHANGED abandoned
  BY DEF CompleteEvent, Accepts
<1>2. pending[t].att \cup {d} = pending[t].exp
  <2>1. Attached(pending[t], d).att = Attached(pending[t], d).exp
    BY DEF CompleteEvent, IsEventCompleted
  <2>2. pending[t] \in Event
    BY <1>1, HarvestTypes
  <2> QED
    BY <2>1, <2>2 DEF Attached, Event
<1>3. Awaited(DOMAIN pending)' = Awaited(Live) \ {<<t, d>>}
  <2>1. Awaited(DOMAIN pending)' = Awaited(Live \ {t})
    BY <1>1 DEF Awaited
  <2>2. pending[t].exp \ pending[t].att = {d}
    BY <1>1, <1>2 DEF Accepts
  <2> QED
    BY <2>1, <2>2 DEF Awaited
<1>4. Cardinality(Awaited(DOMAIN pending))' = Cardinality(Awaited(Live)) - 1
  BY <1>1, <1>3, AttachBalances
<1>5. Cardinality(DOMAIN pending)' = Cardinality(Live) - 1
  <2>1. IsFiniteSet(Live)
    BY SubsetsOfPending, CountableAwaited DEF TypeOK
  <2> QED
    BY <2>1, <1>1, FS_RemoveElement
<1>6. /\ stat'.registered = HarvestedStat.registered
      /\ stat'.expected = HarvestedStat.expected
      /\ stat'.complete = HarvestedStat.complete + 1
      /\ stat'.timeout = HarvestedStat.timeout
      /\ stat'.received = HarvestedStat.received + 1
      /\ stat'.missing = HarvestedStat.missing
  <2>1. stat' = [HarvestedStat EXCEPT !.received = @ + 1, !.complete = @ + 1]
    BY DEF CompleteEvent
  <2> QED
    BY <2>1, HarvestCounters, Zenon DEF Counters
<1>7. abandoned.events \in Nat /\ abandoned.awaited \in Nat /\ HarvestedStat \in Counters
  BY HarvestTypes DEF TypeOK
<1>8. EventConservation'
  BY <1>1, <1>5, <1>6, <1>7, HarvestBalances, HarvestSplits DEF EventConservation, Counters
<1>9. FragmentConservation'
  BY <1>1, <1>4, <1>6, <1>7, HarvestBalances, HarvestSplits DEF FragmentConservation, Counters
<1> QED
  BY <1>8, <1>9 DEF Balanced

\* stop() moves every live event to the history of abandoned ones.
LEMMA StopBalances ==
  ASSUME BuilderConstants, TypeOK, Balanced, Stop
  PROVE  Balanced'
<1> DEFINE L == WithFragments(Live)
<1>1. /\ pending' = <<>>
      /\ abandoned' = [events |-> abandoned.events + Cardinality(Live),
                       awaited |-> abandoned.awaited + Cardinality(Awaited(Live))]
      /\ stat' = [HarvestedStat EXCEPT !.partial = @ + Cardinality(L),
                                       !.partialMissing = @ + Cardinality(Awaited(L))]
  BY DEF Stop
<1>2. DOMAIN pending' = {} /\ Awaited(DOMAIN pending)' = {}
  BY <1>1 DEF Awaited
<1>3. Cardinality(DOMAIN pending)' = 0 /\ Cardinality(Awaited(DOMAIN pending))' = 0
  BY <1>2, FS_EmptySet
<1>4. /\ stat'.registered = HarvestedStat.registered
      /\ stat'.expected = HarvestedStat.expected
      /\ stat'.complete = HarvestedStat.complete
      /\ stat'.timeout = HarvestedStat.timeout
      /\ stat'.received = HarvestedStat.received
      /\ stat'.missing = HarvestedStat.missing
  BY <1>1, HarvestCounters, Zenon DEF Counters
<1>5. abandoned.events \in Nat /\ abandoned.awaited \in Nat /\ HarvestedStat \in Counters
  BY HarvestTypes DEF TypeOK
<1>6. abandoned'.events = abandoned.events + Cardinality(Live)
      /\ abandoned'.awaited = abandoned.awaited + Cardinality(Awaited(Live))
  BY <1>1
<1>7. EventConservation'
  BY <1>3, <1>4, <1>5, <1>6, HarvestBalances, HarvestSplits DEF EventConservation, Counters
<1>8. FragmentConservation'
  BY <1>3, <1>4, <1>5, <1>6, HarvestBalances, HarvestSplits DEF FragmentConservation, Counters
<1> QED
  BY <1>7, <1>8 DEF Balanced

\* start() finds no pending event: the Builder was stopped.
LEMMA StartBalances ==
  ASSUME IInv, Balanced, Start
  PROVE  Balanced'
<1>1. DOMAIN pending = {} /\ DOMAIN pending' = {} /\ UNCHANGED <<stat, abandoned>>
  BY DEF Start, IInv
<1>2. Awaited(DOMAIN pending) = {} /\ Awaited(DOMAIN pending)' = {}
  BY <1>1 DEF Awaited
<1>3. /\ Cardinality(DOMAIN pending)' = Cardinality(DOMAIN pending)
      /\ Cardinality(Awaited(DOMAIN pending))' = Cardinality(Awaited(DOMAIN pending))
  BY <1>1, <1>2
<1> QED
  BY <1>1, <1>3 DEF Balanced, EventConservation, FragmentConservation

LEMMA InitBalanced == Init => Balanced
<1> SUFFICES ASSUME Init PROVE Balanced
  OBVIOUS
<1>1. DOMAIN pending = {} /\ Awaited(DOMAIN pending) = {}
  BY DEF Init, Awaited
<1>2. Cardinality(DOMAIN pending) = 0 /\ Cardinality(Awaited(DOMAIN pending)) = 0
  BY <1>1, FS_EmptySet
<1>3. /\ stat.registered = 0 /\ stat.complete = 0 /\ stat.timeout = 0
      /\ stat.expected = 0 /\ stat.received = 0 /\ stat.missing = 0
      /\ abandoned.events = 0 /\ abandoned.awaited = 0
  BY DEF Init
<1> QED
  BY <1>2, <1>3 DEF Balanced, EventConservation, FragmentConservation

(***************************************************************************)
(* The counters account for every registered event and every fragment that *)
(* was asked for.                                                          *)
(***************************************************************************)
THEOREM BooksBalance == BuilderConstants /\ Spec => []Balanced
<1> SUFFICES ASSUME BuilderConstants PROVE Spec => []Balanced
  OBVIOUS
<1>1. Spec => []IInv
  BY Invariance
<1>2. IInv /\ Balanced /\ [Next]_vars => Balanced'
  <2> SUFFICES ASSUME IInv, Balanced, [Next]_vars PROVE Balanced'
    OBVIOUS
  <2> USE DEF IInv
  <2>1. ASSUME UNCHANGED <<pending, stat, abandoned>> PROVE Balanced'
    BY <2>1 DEF Balanced, EventConservation, FragmentConservation, Awaited
  <2>2. CASE Tick \/ DrainStopped \/ UNCHANGED vars
    BY <2>1, <2>2 DEF Tick, DrainStopped, vars
  <2>3. CASE Start
    BY <2>3, StartBalances
  <2>4. CASE Stop
    BY <2>4, StopBalances
  <2>5. ASSUME NEW t \in Tags, NEW dus \in SUBSET ChannelTags, BeginEvent(t, dus)
        PROVE  Balanced'
    BY <2>5, BeginEventBalances
  <2>6. ASSUME NEW t \in Tags, NEW d \in DU, AttachFragment(t, d)
        PROVE  Balanced'
    BY <2>6, AttachFragmentBalances
  <2>7. ASSUME NEW t \in Tags, NEW d \in DU, CompleteEvent(t, d)
        PROVE  Balanced'
    BY <2>7, CompleteEventBalances
  <2>8. CASE HarvestOnly \/ DrainRunning
                \/ \E t \in Tags, d \in DU, payload \in BOOLEAN : RejectFragment(t, d, payload)
    BY <2>8, HarvestOnlyBalances DEF HarvestOnly, DrainRunning, RejectFragment
  <2> QED
    BY <2>2, <2>3, <2>4, <2>5, <2>6, <2>7, <2>8 DEF Next
<1> QED
  BY <1>1, <1>2, InitBalanced, PTL DEF Spec

-----------------------------------------------------------------------------
(***************************************************************************)
(* No early timeout                                                        *)
(***************************************************************************)

\* What is not live has passed its own deadline.
LEMMA ExpiredIsDue ==
  ASSUME NEW t \in DOMAIN pending, t \notin Live
  PROVE  now >= pending[t].deadline
  BY DEF Live, Expired, Due

\* t stays, or leaves for a reason NoEarlyTimeout allows.
Leaves(t) ==
  \/ Remains(t)
  \/ stopped'
  \/ now >= pending[t].deadline
  \/ \E i \in DOMAIN completed' :
       completed'[i].id = pending[t].id /\ ~completed'[i].partial

\* A step that keeps every live event times out nothing early.
LEMMA KeepsLive ==
  ASSUME TypeOK, NEW t \in DOMAIN pending, now \in Nat,
         t \in Live => Remains(t)
  PROVE  Leaves(t)
  BY ExpiredIsDue DEF Leaves

\* The event that completes is the last output.
LEMMA CompleteEventLeaves ==
  ASSUME BuilderConstants, IInv, NEW t \in Tags, NEW d \in DU, CompleteEvent(t, d),
         NEW x \in DOMAIN pending
  PROVE  Leaves(x)
<1> USE DEF IInv
<1>1. t \in Live /\ pending[t] \in Event
  BY HarvestTypes DEF CompleteEvent, Accepts
<1> DEFINE a == Attached(pending[t], d)
           o == CompletedEvent(t, a, FALSE)
<1>2. PICK due \in DeadlineOrder(WithFragments(Expired)) :
        completed' = completed \o Partials(due) \o <<o>>
  BY DEF CompleteEvent
<1>3. a.id = pending[t].id
  BY <1>1 DEF Attached, Event
<1> HIDE DEF a
<1>4. o.id = pending[t].id /\ o.partial = FALSE
  BY <1>3 DEF CompletedEvent
<1> HIDE DEF o
<1> DEFINE c == completed \o Partials(due)
<1>5. c \in Seq(Output)
  BY HarvestFacts DEF OutputsOK
<1>6. completed' = c \o <<o>>
  BY <1>2
<1>7. completed' = Append(c, o)
  BY <1>5, <1>6
<1>8. Len(c) \in Nat /\ DOMAIN c = 1..Len(c)
  BY <1>5, LenProperties
<1> HIDE DEF c
<1>9. Len(c) + 1 \in DOMAIN completed' /\ completed'[Len(c) + 1] = o
  BY <1>7, <1>8
<1>10. CASE x = t
  BY <1>4, <1>9, <1>10 DEF Leaves
<1>11. CASE x # t
  <2>1. x \in Live => Remains(x)
    BY <1>11 DEF CompleteEvent, Remains
  <2> QED
    BY <2>1, KeepsLive DEF TypeOK
<1> QED
  BY <1>10, <1>11

(***************************************************************************)
(* While a run lasts, an event leaves only complete or after its own       *)
(* deadline: stale heap entries never time it out.                         *)
(***************************************************************************)
THEOREM NeverEarly == BuilderConstants /\ Spec => NoEarlyTimeout
<1> SUFFICES ASSUME BuilderConstants PROVE Spec => NoEarlyTimeout
  OBVIOUS
<1>1. Spec => []IInv
  BY Invariance
<1>2. IInv /\ [Next]_vars => [\A t \in DOMAIN pending : Leaves(t)]_vars
  <2> SUFFICES ASSUME IInv, Next, NEW t \in DOMAIN pending PROVE Leaves(t)
    BY DEF vars
  <2> USE DEF IInv
  <2>0. now \in Nat
    BY DEF TypeOK
  <2>1. CASE Tick
    BY <2>1 DEF Tick, Leaves, Remains
  <2>2. CASE Start
    BY <2>2 DEF Start
  <2>3. CASE Stop
    BY <2>3 DEF Stop, Leaves
  <2>4. ASSUME NEW u \in Tags, NEW dus \in SUBSET ChannelTags, BeginEvent(u, dus)
        PROVE  Leaves(t)
    <3>1. t \in Live => Remains(t)
      BY <2>4 DEF BeginEvent, Remains
    <3> QED
      BY <2>0, <3>1, KeepsLive
  <2>5. CASE HarvestOnly \/ DrainRunning
                \/ \E u \in Tags, d \in DU, payload \in BOOLEAN : RejectFragment(u, d, payload)
    <3>1. pending' = HarvestedPending
      BY <2>5 DEF HarvestOnly, DrainRunning, RejectFragment
    <3>2. t \in Live => Remains(t)
      BY <3>1, HarvestTypes DEF Remains
    <3> QED
      BY <2>0, <3>2, KeepsLive
  <2>6. ASSUME NEW u \in Tags, NEW d \in DU, AttachFragment(u, d)
        PROVE  Leaves(t)
    <3>1. pending' = [HarvestedPending EXCEPT ![u] = Attached(@, d)]
      BY <2>6 DEF AttachFragment
    <3>2. DOMAIN HarvestedPending = Live
          /\ \A x \in Live : HarvestedPending[x] = pending[x] /\ pending[x] \in Event
      BY HarvestTypes
    <3>3. \A x \in Live : Attached(pending[x], d).id = pending[x].id
      BY <3>2 DEF Attached, Event
    <3>4. t \in Live => Remains(t)
      BY <3>1, <3>2, <3>3 DEF Remains
    <3> QED
      BY <2>0, <3>4, KeepsLive
  <2>7. ASSUME NEW u \in Tags, NEW d \in DU, CompleteEvent(u, d)
        PROVE  Leaves(t)
    BY <2>7, CompleteEventLeaves
  <2>8. CASE DrainStopped
    BY <2>8 DEF DrainStopped
  <2> QED
    BY <2>1, <2>2, <2>3, <2>4, <2>5, <2>6, <2>7, <2>8 DEF Next
<1> QED
  BY <1>1, <1>2, PTL DEF Spec, NoEarlyTimeout, Leaves

-----------------------------------------------------------------------------
(***************************************************************************)
(* The loss telemetry                                                      *)
(***************************************************************************)

\* An event times out before the pruning of the loss buckets reaches its own:
\* 15 s, buckets of 300 s and 48 h in the code (app.cpp:460, builder.cpp:6).
RetentionCovers == EventTimeout + BucketLen <= Retention + 2

InBucket(T, b) == {t \in T : pending[t].bucket = b}

\* A pending event is booked on the bucket of its registration.
BookedOK(e) ==
  \E since \in Nat : /\ since <= now
                     /\ e.deadline = since + EventTimeout
                     /\ e.bucket = BucketStart(since)

\* The awaited fragments of what is pending can still all be counted missing.
LossInv ==
  /\ loss.timeouts = run.timeouts
  /\ loss.recent + loss.dropped = loss.timeouts
  /\ loss.missing + Cardinality(Awaited(DOMAIN pending)) <= loss.expected
  /\ \A t \in DOMAIN pending : BookedOK(pending[t]) /\ pending[t].bucket \in DOMAIN buckets
  /\ \A b \in DOMAIN buckets :
       buckets[b].missing + Cardinality(Awaited(InBucket(DOMAIN pending, b)))
         <= buckets[b].expected

LEMMA BucketStartOf ==
  ASSUME BucketLen \in Nat \ {0}, NEW t \in Nat
  PROVE  BucketStart(t) \in Nat /\ BucketStart(t) <= t /\ t < BucketStart(t) + BucketLen
<1> DEFINE p == BucketLen * (t \div BucketLen)
           m == t % BucketLen
<1>1. t \div BucketLen \in Nat /\ t = p + m
  OBVIOUS
<1>2. m \in 0..BucketLen - 1
  OBVIOUS
<1>3. BucketStart(t) = p /\ p \in Nat
  BY <1>1 DEF BucketStart
<1> HIDE DEF p, m
<1> QED
  BY <1>1, <1>2, <1>3

LEMMA BucketStartRises ==
  ASSUME BucketLen \in Nat \ {0}, NEW t \in Nat, NEW u \in Nat, t <= u
  PROVE  BucketStart(t) <= BucketStart(u)
<1> DEFINE p == t \div BucketLen
           q == u \div BucketLen
<1>1. p \in Nat /\ q \in Nat
  OBVIOUS
<1>2. p <= q
  OBVIOUS
<1> HIDE DEF p, q
<1>3. \A a, b \in Nat : a <= b => a * BucketLen <= b * BucketLen
  OBVIOUS
<1>4. BucketStart(t) = p * BucketLen /\ BucketStart(u) = q * BucketLen
  BY DEF BucketStart, p, q
<1> QED
  BY <1>1, <1>2, <1>3, <1>4

\* Every expired event has missed somebody.
LEMMA MissedAreExpired == ASSUME IInv PROVE Missed = Expired
BY SubsetsOfPending DEF IInv, PendingOK, PendingEventOK, Missed

\* What is awaited of a smaller set of events, or later, is not more.
LEMMA AwaitedFewer ==
  ASSUME BuilderConstants, TypeOK,
         NEW T \in SUBSET DOMAIN pending, NEW A, A \subseteq Awaited(T)
  PROVE  /\ Cardinality(A) \in Nat /\ Cardinality(Awaited(T)) \in Nat
         /\ Cardinality(A) <= Cardinality(Awaited(T))
<1>1. IsFiniteSet(Awaited(T)) /\ Cardinality(Awaited(T)) \in Nat
  BY CountableAwaited DEF TypeOK
<1> QED
  BY <1>1, FS_Subset, FS_CardinalityType

LEMMA AwaitedSplits ==
  ASSUME BuilderConstants, TypeOK,
         NEW S \in SUBSET DOMAIN pending, NEW T \in SUBSET DOMAIN pending, S \cap T = {}
  PROVE  /\ Cardinality(Awaited(S)) \in Nat /\ Cardinality(Awaited(T)) \in Nat
         /\ Cardinality(Awaited(S \cup T)) = Cardinality(Awaited(S)) + Cardinality(Awaited(T))
<1>1. /\ IsFiniteSet(Awaited(S)) /\ Cardinality(Awaited(S)) \in Nat
      /\ IsFiniteSet(Awaited(T)) /\ Cardinality(Awaited(T)) \in Nat
  BY CountableAwaited DEF TypeOK
<1>2. Awaited(S) \cup Awaited(T) = Awaited(S \cup T) /\ Awaited(S) \cap Awaited(T) = {}
  BY DEF Awaited
<1> QED
  BY <1>1, <1>2, DisjointUnion

\* An event that is still live was registered after every one that is due, and
\* not long before now.
LEMMA LiveIsYounger ==
  ASSUME BuilderConstants, IInv, LossInv, NEW u \in Live
  PROVE  /\ pending[u].bucket \in Nat /\ pending[u].bucket \in DOMAIN buckets
         /\ now < pending[u].bucket + BucketLen + EventTimeout - 1
         /\ \A t \in Expired : pending[t].bucket \in Nat /\ pending[t].bucket <= pending[u].bucket
<1> USE DEF IInv
<1>1. /\ EventTimeout \in Nat /\ BucketLen \in Nat \ {0} /\ now \in Nat
      /\ \A t \in DOMAIN pending : pending[t].bucket \in Nat /\ pending[t].deadline \in Nat
  BY DEF BuilderConstants, TypeOK, Event
<1>2. u \in DOMAIN pending /\ pending[u].bucket \in DOMAIN buckets
  BY SubsetsOfPending DEF LossInv
<1>3. now < pending[u].deadline
  <2>1. [deadline |-> pending[u].deadline, tag |-> u] \in heap
    BY <1>2 DEF DeadlineCovered
  <2>2. ~(pending[u].deadline <= now)
    BY <1>2, <2>1 DEF Live, Expired, Due
  <2> QED
    BY <1>1, <1>2, <2>2
<1>4. PICK since \in Nat : /\ since <= now
                           /\ pending[u].deadline = since + EventTimeout
                           /\ pending[u].bucket = BucketStart(since)
  BY <1>2 DEF LossInv, BookedOK
<1>5. since < BucketStart(since) + BucketLen
  BY <1>1, BucketStartOf
<1>6. now < pending[u].bucket + BucketLen + EventTimeout - 1
  BY <1>1, <1>2, <1>3, <1>4, <1>5
<1>7. ASSUME NEW t \in Expired
      PROVE  pending[t].bucket \in Nat /\ pending[t].bucket <= pending[u].bucket
  <2>1. t \in DOMAIN pending /\ t \notin Live
    BY SubsetsOfPending DEF Live
  <2>2. pending[t].deadline <= now
    BY <1>1, <2>1, ExpiredIsDue
  <2>3. PICK before \in Nat : /\ pending[t].deadline = before + EventTimeout
                              /\ pending[t].bucket = BucketStart(before)
    BY <2>1 DEF LossInv, BookedOK
  <2>4. before <= since
    BY <1>1, <1>3, <1>4, <2>1, <2>2, <2>3
  <2> QED
    BY <1>1, <1>4, <2>1, <2>3, <2>4, BucketStartRises
<1> QED
  BY <1>1, <1>2, <1>6, <1>7

\* After a harvest the telemetry agrees over the live events.
LEMMA HarvestLoss ==
  ASSUME BuilderConstants, IInv, LossInv
  PROVE  /\ HarvestedLoss \in LossTotals /\ HarvestedRun.timeouts \in Nat
         /\ HarvestedLoss.timeouts = HarvestedRun.timeouts
         /\ HarvestedLoss.recent + HarvestedLoss.dropped = HarvestedLoss.timeouts
         /\ Cardinality(Awaited(Live)) \in Nat
         /\ HarvestedLoss.missing + Cardinality(Awaited(Live)) <= HarvestedLoss.expected
<1> USE DEF IInv
<1> DEFINE n == Cardinality(Expired)
           a == Cardinality(Awaited(Expired))
<1>1. Missed = Expired
  BY MissedAreExpired
<1>2. /\ n \in Nat /\ a \in Nat /\ Cardinality(Awaited(Live)) \in Nat
      /\ Cardinality(Awaited(DOMAIN pending)) = Cardinality(Awaited(Live)) + a
  BY HarvestSplits
<1> HIDE DEF n, a
<1>3. /\ loss.expected \in Nat /\ loss.missing \in Nat /\ loss.timeouts \in Nat
      /\ loss.recent \in Nat /\ loss.recent <= RecentLimit /\ loss.dropped \in Nat
      /\ RecentLimit \in Nat /\ loss \in LossTotals
      /\ run.timeouts \in Nat /\ run \in RunCounters
  BY DEF TypeOK, LossTotals, RunCounters, BuilderConstants
<1>4. HarvestedLoss \in LossTotals /\ HarvestedRun \in RunCounters
  BY HarvestTypes
<1> DEFINE r == Least(loss.recent + n, RecentLimit)
<1>5. /\ HarvestedLoss.expected = loss.expected
      /\ HarvestedLoss.missing = loss.missing + a
      /\ HarvestedLoss.timeouts = loss.timeouts + n
      /\ HarvestedLoss.recent = r
      /\ HarvestedLoss.dropped = loss.dropped + ((loss.recent + n) - r)
  BY <1>1, <1>3, Zenon DEF HarvestedLoss, LossTotals, n, a
<1>6. HarvestedRun.timeouts = run.timeouts + n
  BY <1>3, Zenon DEF HarvestedRun, RunCounters, n
<1>7. r \in Nat /\ r <= loss.recent + n
  BY <1>2, <1>3 DEF Least
<1> HIDE DEF r
<1>8. /\ loss.timeouts = run.timeouts
      /\ loss.recent + loss.dropped = loss.timeouts
      /\ loss.missing + Cardinality(Awaited(DOMAIN pending)) <= loss.expected
  BY DEF LossInv
<1>9. HarvestedRun.timeouts \in Nat /\ HarvestedLoss.timeouts = HarvestedRun.timeouts
  BY <1>2, <1>3, <1>5, <1>6, <1>8
<1>10. HarvestedLoss.recent + HarvestedLoss.dropped = HarvestedLoss.timeouts
  BY <1>2, <1>3, <1>5, <1>7, <1>8
<1>11. HarvestedLoss.missing + Cardinality(Awaited(Live)) <= HarvestedLoss.expected
  BY <1>2, <1>3, <1>5, <1>8
<1> QED
  BY <1>2, <1>4, <1>9, <1>10, <1>11

\* ... in every bucket.
LEMMA HarvestLossBuckets ==
  ASSUME BuilderConstants, RetentionCovers, IInv, LossInv
  PROVE  /\ \A t \in Live : pending[t].bucket \in DOMAIN HarvestedBuckets
         /\ \A b \in DOMAIN HarvestedBuckets :
              /\ HarvestedBuckets[b].missing \in Nat /\ HarvestedBuckets[b].expected \in Nat
              /\ Cardinality(Awaited(InBucket(Live, b))) \in Nat
              /\ HarvestedBuckets[b].missing + Cardinality(Awaited(InBucket(Live, b)))
                   <= HarvestedBuckets[b].expected
<1> USE DEF IInv
<1>1. Missed = Expired /\ Expired \subseteq DOMAIN pending /\ Live \subseteq DOMAIN pending
      /\ Expired \cup Live = DOMAIN pending /\ Expired \cap Live = {}
  BY MissedAreExpired, SubsetsOfPending DEF Live
<1> DEFINE in(b) == {t \in Missed : pending[t].bucket = b}
           used  == DOMAIN buckets \cup {pending[t].bucket : t \in Missed}
           kept  == {b \in used : \A t \in Missed : b \in Kept(used, pending[t].bucket)}
<1>2. HarvestedBuckets = [b \in kept |->
         [BucketOf(b, buckets) EXCEPT
            !.missing = @ + Cardinality(Awaited(in(b))),
            !.timeouts = @ + Cardinality(in(b))]]
  BY DEF HarvestedBuckets
<1>3. used = DOMAIN buckets
  BY <1>1 DEF LossInv
<1>4. ASSUME NEW t \in Live
      PROVE  pending[t].bucket \in DOMAIN HarvestedBuckets
  <2> DEFINE b == pending[t].bucket
  <2>1. b \in Nat /\ b \in DOMAIN buckets
        /\ \A x \in Expired : pending[x].bucket \in Nat /\ pending[x].bucket <= b
    BY LiveIsYounger
  <2>2. Retention \in Nat
    BY DEF BuilderConstants
  <2> HIDE DEF b
  <2>3. \A x \in Expired : pending[x].bucket <= b + Retention
    BY <2>1, <2>2
  <2> HIDE DEF used
  <2>4. \A x \in Missed : b \in Kept(used, pending[x].bucket)
    BY <1>1, <1>3, <2>1, <2>3 DEF Kept
  <2>5. b \in kept
    BY <1>3, <2>1, <2>4
  <2> HIDE DEF kept, in
  <2> QED
    BY <1>2, <2>5 DEF b
<1>5. ASSUME NEW b \in DOMAIN HarvestedBuckets
      PROVE  /\ HarvestedBuckets[b].missing \in Nat /\ HarvestedBuckets[b].expected \in Nat
             /\ Cardinality(Awaited(InBucket(Live, b))) \in Nat
             /\ HarvestedBuckets[b].missing + Cardinality(Awaited(InBucket(Live, b)))
                  <= HarvestedBuckets[b].expected
  <2> DEFINE I == InBucket(Expired, b)
             L == InBucket(Live, b)
             a == Cardinality(Awaited(I))
             l == Cardinality(Awaited(L))
  <2>1. in(b) = I
    BY <1>1 DEF InBucket
  <2>2. b \in kept /\ b \in DOMAIN buckets
    BY <1>2, <1>3
  <2>3. buckets[b] \in LossBucket /\ BucketOf(b, buckets) = buckets[b]
    BY <2>2 DEF TypeOK, BucketOf
  <2>4. HarvestedBuckets[b] = [buckets[b] EXCEPT !.missing = @ + a,
                                                 !.timeouts = @ + Cardinality(I)]
    <3> HIDE DEF kept, in, I
    <3> QED
      BY <1>2, <2>1, <2>2, <2>3
  <2>5. HarvestedBuckets[b].missing = buckets[b].missing + a
        /\ HarvestedBuckets[b].expected = buckets[b].expected
    <3> HIDE DEF a, I
    <3> QED
      BY <2>3, <2>4, Zenon DEF LossBucket
  <2>6. I \in SUBSET DOMAIN pending /\ L \in SUBSET DOMAIN pending /\ I \cap L = {}
        /\ I \cup L = InBucket(DOMAIN pending, b)
    BY <1>1 DEF InBucket
  <2>7. a \in Nat /\ l \in Nat
        /\ Cardinality(Awaited(InBucket(DOMAIN pending, b))) = a + l
    <3> HIDE DEF I, L
    <3> QED
      BY <2>6, AwaitedSplits
  <2>8. buckets[b].missing + Cardinality(Awaited(InBucket(DOMAIN pending, b)))
          <= buckets[b].expected
    BY <2>2 DEF LossInv
  <2>9. buckets[b].missing \in Nat /\ buckets[b].expected \in Nat
    BY <2>3 DEF LossBucket
  <2> HIDE DEF a, l
  <2>10. HarvestedBuckets[b].missing \in Nat /\ HarvestedBuckets[b].expected \in Nat
         /\ HarvestedBuckets[b].missing + l <= HarvestedBuckets[b].expected
    BY <2>5, <2>7, <2>8, <2>9
  <2> QED
    BY <2>7, <2>10 DEF l
<1> QED
  BY <1>4, <1>5

\* A call that harvests, and registers nothing: of the live events fewer may
\* stay, and they wait for no more than before.
LEMMA LossKept ==
  ASSUME BuilderConstants, RetentionCovers, IInv, LossInv,
         DOMAIN pending' \subseteq Live,
         \A t \in DOMAIN pending' :
           /\ pending'[t].exp = pending[t].exp /\ pending[t].att \subseteq pending'[t].att
           /\ pending'[t].deadline = pending[t].deadline
           /\ pending'[t].bucket = pending[t].bucket,
         now' = now, loss' = HarvestedLoss, run'.timeouts = HarvestedRun.timeouts,
         buckets' = HarvestedBuckets
  PROVE  LossInv'
<1> USE DEF IInv
<1>1. Live \subseteq DOMAIN pending
  BY SubsetsOfPending
<1>2. loss'.timeouts = run'.timeouts /\ loss'.recent + loss'.dropped = loss'.timeouts
  BY HarvestLoss
<1>3. loss'.missing + Cardinality(Awaited(DOMAIN pending))' <= loss'.expected
  <2> DEFINE A == Awaited(DOMAIN pending)'
  <2>1. A \subseteq Awaited(Live)
    BY <1>1 DEF Awaited
  <2> HIDE DEF A
  <2>2. Cardinality(A) \in Nat /\ Cardinality(Awaited(Live)) \in Nat
        /\ Cardinality(A) <= Cardinality(Awaited(Live))
    BY <1>1, <2>1, AwaitedFewer
  <2>3. HarvestedLoss.missing \in Nat /\ HarvestedLoss.expected \in Nat
        /\ HarvestedLoss.missing + Cardinality(Awaited(Live)) <= HarvestedLoss.expected
    BY HarvestLoss DEF LossTotals
  <2>4. loss'.missing + Cardinality(A) <= loss'.expected
    BY <2>2, <2>3
  <2> QED
    BY <2>4 DEF A
<1>4. ASSUME NEW t \in DOMAIN pending'
      PROVE  BookedOK(pending[t])' /\ pending'[t].bucket \in DOMAIN buckets'
  <2>1. t \in DOMAIN pending /\ BookedOK(pending[t])
    BY <1>1 DEF LossInv
  <2> QED
    BY <2>1, HarvestLossBuckets DEF BookedOK
<1>5. ASSUME NEW b \in DOMAIN buckets'
      PROVE  buckets'[b].missing + Cardinality(Awaited(InBucket(DOMAIN pending, b)))'
               <= buckets'[b].expected
  <2> DEFINE A == Awaited(InBucket(DOMAIN pending, b))'
             L == InBucket(Live, b)
  <2>1. A \subseteq Awaited(L)
    BY <1>1 DEF Awaited, InBucket
  <2>2. L \in SUBSET DOMAIN pending
    BY <1>1 DEF InBucket
  <2>3. /\ HarvestedBuckets[b].missing \in Nat /\ HarvestedBuckets[b].expected \in Nat
        /\ HarvestedBuckets[b].missing + Cardinality(Awaited(L)) <= HarvestedBuckets[b].expected
    BY HarvestLossBuckets
  <2> HIDE DEF A, L
  <2>4. Cardinality(A) \in Nat /\ Cardinality(Awaited(L)) \in Nat
        /\ Cardinality(A) <= Cardinality(Awaited(L))
    BY <2>1, <2>2, AwaitedFewer
  <2>5. buckets'[b].missing + Cardinality(A) <= buckets'[b].expected
    BY <2>3, <2>4
  <2> QED
    BY <2>5 DEF A
<1> QED
  BY <1>2, <1>3, <1>4, <1>5 DEF LossInv

\* beginEvent books what it asks on the bucket of now, which prunes no bucket
\* of a live event.
LEMMA BeginEventBooks ==
  ASSUME BuilderConstants, RetentionCovers, IInv, LossInv,
         NEW t \in Tags, NEW dus \in SUBSET ChannelTags, BeginEvent(t, dus)
  PROVE  LossInv'
<1> USE DEF IInv
<1> DEFINE here  == BucketStart(now)
           k     == Cardinality(dus)
           asked == {t} \X dus
<1>1. /\ t \notin Live /\ now' = now
      /\ DOMAIN pending' = Live \cup {t}
      /\ \A x \in Live : pending'[x] = pending[x]
      /\ pending'[t].exp = dus /\ pending'[t].att = {}
      /\ pending'[t].deadline = now + EventTimeout /\ pending'[t].bucket = here
  BY DEF BeginEvent
<1>2. LossExpected(here, dus) /\ run' = HarvestedRun
  BY DEF BeginEvent
<1>3. /\ BucketLen \in Nat \ {0} /\ EventTimeout \in Nat /\ Retention \in Nat /\ now \in Nat
  BY DEF BuilderConstants, TypeOK
<1>4. here \in Nat /\ here <= now
  BY <1>3, BucketStartOf
<1>5. IsFiniteSet(dus) /\ k \in Nat /\ IsFiniteSet(asked) /\ Cardinality(asked) = k
  <2>1. IsFiniteSet(ChannelTags) /\ IsFiniteSet(dus)
    BY FS_Subset DEF BuilderConstants
  <2>2. k \in Nat
    BY <2>1, FS_CardinalityType
  <2>3. IsFiniteSet({t}) /\ Cardinality({t}) = 1
    BY FS_Singleton
  <2>4. IsFiniteSet(asked) /\ Cardinality(asked) = 1 * k
    BY <2>1, <2>3, FS_Product
  <2> QED
    BY <2>1, <2>2, <2>4
<1>6. Live \subseteq DOMAIN pending /\ dus \subseteq DU
  BY SubsetsOfPending DEF BuilderConstants
<1> HIDE DEF k, asked, here
<1>7. HarvestedLoss \in LossTotals /\ HarvestedRun.timeouts \in Nat
  BY HarvestLoss
<1>8. /\ loss'.timeouts = HarvestedLoss.timeouts /\ loss'.recent = HarvestedLoss.recent
      /\ loss'.dropped = HarvestedLoss.dropped /\ loss'.missing = HarvestedLoss.missing
      /\ loss'.expected = HarvestedLoss.expected + k
  <2>1. loss' = [HarvestedLoss EXCEPT !.expected = @ + k]
    BY <1>2 DEF LossExpected, k
  <2> QED
    BY <1>7, <2>1, Zenon DEF LossTotals
<1>9. loss'.timeouts = run'.timeouts /\ loss'.recent + loss'.dropped = loss'.timeouts
  BY <1>2, <1>8, HarvestLoss
<1>10. loss'.missing + Cardinality(Awaited(DOMAIN pending))' <= loss'.expected
  <2> DEFINE A == Awaited(DOMAIN pending)'
  <2>1. A = Awaited(Live) \cup asked
    BY <1>1, <1>6 DEF Awaited, asked
  <2>2. Awaited(Live) \cap asked = {}
    BY <1>1 DEF Awaited, asked
  <2>3. IsFiniteSet(Awaited(Live)) /\ Cardinality(Awaited(Live)) \in Nat
    BY <1>6, CountableAwaited DEF TypeOK
  <2> HIDE DEF A
  <2>4. Cardinality(A) = Cardinality(Awaited(Live)) + k
    BY <1>5, <2>1, <2>2, <2>3, DisjointUnion
  <2>5. HarvestedLoss.missing \in Nat /\ HarvestedLoss.expected \in Nat
    BY <1>7 DEF LossTotals
  <2>6. HarvestedLoss.missing + Cardinality(Awaited(Live)) <= HarvestedLoss.expected
    BY HarvestLoss
  <2>7. loss'.missing + Cardinality(A) <= loss'.expected
    BY <1>5, <1>8, <2>3, <2>4, <2>5, <2>6
  <2> QED
    BY <2>7 DEF A
<1> DEFINE hb == HarvestedBuckets
<1>11. buckets' = [s \in Kept(DOMAIN hb, here) \cup {here} |->
                     IF s = here
                       THEN [BucketOf(s, hb) EXCEPT !.expected = @ + k]
                       ELSE hb[s]]
  BY <1>2, Zenon DEF LossExpected, k
<1>12. /\ \A x \in Live : pending[x].bucket \in DOMAIN hb
       /\ \A b \in DOMAIN hb : /\ hb[b].missing \in Nat /\ hb[b].expected \in Nat
                               /\ Cardinality(Awaited(InBucket(Live, b))) \in Nat
                               /\ hb[b].missing + Cardinality(Awaited(InBucket(Live, b)))
                                    <= hb[b].expected
  BY HarvestLossBuckets
<1>13. DOMAIN hb \subseteq Nat /\ \A b \in DOMAIN hb : hb[b] \in LossBucket
  BY HarvestTypes
<1> HIDE DEF hb
<1>14. ASSUME NEW x \in DOMAIN pending'
       PROVE  BookedOK(pending[x])' /\ pending'[x].bucket \in DOMAIN buckets'
  <2>1. CASE x = t
    <3>1. BookedOK(pending[x])'
      BY <1>1, <1>3, <2>1 DEF BookedOK, here
    <3>2. pending'[x].bucket \in DOMAIN buckets'
      BY <1>1, <1>11, <2>1
    <3> QED
      BY <3>1, <3>2
  <2>2. CASE x # t
    <3>1. x \in Live /\ pending'[x] = pending[x]
      BY <1>1, <2>2
    <3>2. BookedOK(pending[x])'
      BY <1>1, <1>6, <3>1 DEF LossInv, BookedOK
    <3>3. now < pending[x].bucket + BucketLen + EventTimeout - 1 /\ pending[x].bucket \in Nat
      BY <3>1, LiveIsYounger
    <3>4. here <= pending[x].bucket + Retention
      BY <1>3, <1>4, <3>3 DEF RetentionCovers
    <3>5. pending[x].bucket \in DOMAIN hb
      BY <1>12, <3>1
    <3>6. pending[x].bucket \in Kept(DOMAIN hb, here)
      BY <3>4, <3>5 DEF Kept
    <3> QED
      BY <1>11, <3>1, <3>2, <3>6
  <2> QED
    BY <2>1, <2>2
<1>15. ASSUME NEW b \in DOMAIN buckets'
       PROVE  buckets'[b].missing + Cardinality(Awaited(InBucket(DOMAIN pending, b)))'
                <= buckets'[b].expected
  <2> DEFINE A == Awaited(InBucket(DOMAIN pending, b))'
             L == InBucket(Live, b)
  <2>1. b \in Kept(DOMAIN hb, here) \cup {here} /\ Kept(DOMAIN hb, here) \subseteq DOMAIN hb
    BY <1>11 DEF Kept
  <2>2. L \in SUBSET DOMAIN pending /\ L \subseteq Live
    BY <1>6 DEF InBucket
  <2>3. IsFiniteSet(Awaited(L)) /\ Cardinality(Awaited(L)) \in Nat
    <3> HIDE DEF L
    <3> QED
      BY <2>2, CountableAwaited DEF TypeOK
  <2>4. CASE b # here
    <3>1. b \in DOMAIN hb /\ buckets'[b] = hb[b]
      BY <1>11, <2>1, <2>4
    <3>2. A = Awaited(L)
      BY <1>1, <1>6, <2>4 DEF Awaited, InBucket
    <3>3. hb[b].missing + Cardinality(Awaited(L)) <= hb[b].expected
      BY <1>12, <3>1
    <3> HIDE DEF A, L
    <3>4. buckets'[b].missing + Cardinality(A) <= buckets'[b].expected
      BY <3>1, <3>2, <3>3
    <3> QED
      BY <3>4 DEF A
  <2>5. CASE b = here
    <3>1. A = Awaited(L) \cup asked
      BY <1>1, <1>6, <2>5 DEF Awaited, InBucket, asked
    <3>2. Awaited(L) \cap asked = {}
      BY <1>1, <2>2 DEF Awaited, asked
    <3> DEFINE old == BucketOf(b, hb)
    <3>3. buckets'[b] = [old EXCEPT !.expected = @ + k]
      BY <1>11, <2>5
    <3>4. old \in LossBucket /\ old.missing \in Nat /\ old.expected \in Nat
      BY <1>13 DEF BucketOf, EmptyBucket, LossBucket
    <3>5. old.missing + Cardinality(Awaited(L)) <= old.expected
      <4>1. CASE b \in DOMAIN hb
        <5>1. old = hb[b]
          BY <4>1 DEF BucketOf
        <5> QED
          BY <1>12, <4>1, <5>1
      <4>2. CASE b \notin DOMAIN hb
        <5>1. old.missing = 0 /\ old.expected = 0
          BY <4>2 DEF BucketOf, EmptyBucket
        <5>2. Awaited(L) = {}
          BY <1>12, <4>2 DEF InBucket, Awaited
        <5>3. Cardinality(Awaited(L)) = 0
          BY <5>2, FS_EmptySet
        <5> HIDE DEF old, L
        <5> QED
          BY <5>1, <5>3
      <4> QED
        BY <4>1, <4>2
    <3> HIDE DEF old
    <3>6. buckets'[b].missing = old.missing /\ buckets'[b].expected = old.expected + k
      BY <3>3, <3>4, Zenon DEF LossBucket
    <3> HIDE DEF A, L
    <3>7. Cardinality(A) = Cardinality(Awaited(L)) + k
      BY <1>5, <2>3, <3>1, <3>2, DisjointUnion
    <3>8. buckets'[b].missing + Cardinality(A) <= buckets'[b].expected
      BY <1>5, <2>3, <3>4, <3>5, <3>6, <3>7
    <3> QED
      BY <3>8 DEF A
  <2> QED
    BY <2>4, <2>5
<1> QED
  BY <1>9, <1>10, <1>14, <1>15 DEF LossInv

LEMMA EmptyBooks ==
  pending = <<>> /\ loss = ZeroLoss /\ run = ZeroRun /\ buckets = <<>> => LossInv
<1> SUFFICES ASSUME pending = <<>>, loss = ZeroLoss, run = ZeroRun, buckets = <<>>
             PROVE  LossInv
  OBVIOUS
<1>1. DOMAIN pending = {} /\ DOMAIN buckets = {}
  OBVIOUS
<1>2. Awaited(DOMAIN pending) = {}
  BY <1>1 DEF Awaited
<1>3. Cardinality(Awaited(DOMAIN pending)) = 0
  BY <1>2, FS_EmptySet
<1> QED
  BY <1>1, <1>3 DEF LossInv, ZeroLoss, ZeroRun

LEMMA LossStep ==
  ASSUME BuilderConstants, RetentionCovers, IInv, LossInv, [Next]_vars
  PROVE  LossInv'
<1> USE DEF IInv
<1>0. /\ HarvestedRun \in RunCounters
      /\ DOMAIN HarvestedPending = Live
      /\ \A t \in Live : HarvestedPending[t] = pending[t] /\ pending[t] \in Event
  BY HarvestTypes
<1>1. ASSUME UNCHANGED <<pending, run, loss, buckets>>, now' = now \/ now' = now + 1
      PROVE  LossInv'
  <2>1. \A t \in DOMAIN pending : BookedOK(pending[t])'
    <3>1. now \in Nat
      BY DEF TypeOK
    <3>2. ASSUME NEW t \in DOMAIN pending
          PROVE  BookedOK(pending[t])'
      <4>1. PICK since \in Nat : /\ since <= now
                                 /\ pending[t].deadline = since + EventTimeout
                                 /\ pending[t].bucket = BucketStart(since)
        BY DEF LossInv, BookedOK
      <4>2. since <= now'
        BY <1>1, <3>1, <4>1
      <4> QED
        BY <1>1, <4>1, <4>2 DEF BookedOK
    <3> QED
      BY <3>2
  <2>2. \A T : Awaited(T)' = Awaited(T') /\ \A b : InBucket(T, b)' = InBucket(T', b)
    BY <1>1 DEF Awaited, InBucket
  <2>3. Awaited(DOMAIN pending)' = Awaited(DOMAIN pending)
        /\ \A b : Awaited(InBucket(DOMAIN pending, b))' = Awaited(InBucket(DOMAIN pending, b))
    BY <1>1 DEF Awaited, InBucket
  <2> QED
    BY <1>1, <2>1, <2>3 DEF LossInv
<1>2. CASE Tick \/ DrainStopped \/ UNCHANGED vars
  BY <1>1, <1>2 DEF Tick, DrainStopped, vars
<1>3. CASE Start
  <2>1. (pending = <<>> /\ loss = ZeroLoss /\ run = ZeroRun /\ buckets = <<>>)'
    BY <1>3 DEF Start
  <2> QED
    BY <2>1, EmptyBooks, PTL
<1>4. CASE Stop
  <2>1. /\ DOMAIN pending' = {} /\ now' = now /\ loss' = HarvestedLoss
        /\ run' = HarvestedRun /\ buckets' = HarvestedBuckets
    BY <1>4 DEF Stop
  <2> QED
    BY <2>1, LossKept
<1>5. ASSUME NEW t \in Tags, NEW dus \in SUBSET ChannelTags, BeginEvent(t, dus)
      PROVE  LossInv'
  BY <1>5, BeginEventBooks
<1>6. CASE HarvestOnly \/ DrainRunning
             \/ \E t \in Tags, d \in DU, payload \in BOOLEAN : RejectFragment(t, d, payload)
  <2>1. /\ pending' = HarvestedPending /\ now' = now /\ loss' = HarvestedLoss
        /\ run' = HarvestedRun \/ run' = [HarvestedRun EXCEPT !.unmatched = @ + 1]
        /\ buckets' = HarvestedBuckets
    BY <1>6 DEF HarvestOnly, DrainRunning, RejectFragment
  <2>2. run'.timeouts = HarvestedRun.timeouts
    BY <1>0, <2>1, Zenon DEF RunCounters
  <2> QED
    BY <1>0, <2>1, <2>2, LossKept
<1>7. ASSUME NEW t \in Tags, NEW d \in DU, AttachFragment(t, d)
      PROVE  LossInv'
  <2>1. /\ t \in Live /\ pending' = [HarvestedPending EXCEPT ![t] = Attached(@, d)]
        /\ now' = now /\ loss' = HarvestedLoss
        /\ run' = HarvestedRun /\ buckets' = HarvestedBuckets
    BY <1>7 DEF AttachFragment, Accepts
  <2>2. DOMAIN pending' = Live
        /\ (\A x \in Live \ {t} : pending'[x] = pending[x])
        /\ pending'[t] = Attached(pending[t], d)
    BY <1>0, <2>1
  <2>3. /\ pending'[t].exp = pending[t].exp /\ pending'[t].att = pending[t].att \cup {d}
        /\ pending'[t].deadline = pending[t].deadline
        /\ pending'[t].bucket = pending[t].bucket
    BY <1>0, <2>1, <2>2 DEF Attached, Event
  <2> QED
    BY <2>1, <2>2, <2>3, LossKept
<1>8. ASSUME NEW t \in Tags, NEW d \in DU, CompleteEvent(t, d)
      PROVE  LossInv'
  <2>1. /\ DOMAIN pending' = Live \ {t} /\ \A x \in Live \ {t} : pending'[x] = pending[x]
        /\ now' = now /\ loss' = HarvestedLoss
        /\ run' = [HarvestedRun EXCEPT !.completed = @ + 1] /\ buckets' = HarvestedBuckets
    BY <1>8 DEF CompleteEvent
  <2>2. run'.timeouts = HarvestedRun.timeouts
    BY <1>0, <2>1, Zenon DEF RunCounters
  <2> QED
    BY <2>1, <2>2, LossKept
<1> QED
  BY <1>2, <1>3, <1>4, <1>5, <1>6, <1>7, <1>8 DEF Next

(***************************************************************************)
(* The telemetry agrees with the counters, and no loss bucket reports more *)
(* missing than expected fragments, if the buckets outlive the events: the *)
(* pruning then never takes a bucket on which an event is still to be      *)
(* booked.  Without RetentionCovers it may.                                *)
(***************************************************************************)
THEOREM TelemetryAgrees ==
  ASSUME BuilderConstants, RetentionCovers
  PROVE  Spec => []LossMatchesTimeouts
<1>1. Init => LossInv
  BY EmptyBooks DEF Init
<1>2. IInv /\ LossInv /\ [Next]_vars => LossInv'
  BY LossStep
<1>3. IInv /\ LossInv => LossMatchesTimeouts
  <2> SUFFICES ASSUME IInv, LossInv PROVE LossMatchesTimeouts
    OBVIOUS
  <2> USE DEF IInv
  <2>1. loss.missing <= loss.expected
    <3>1. Cardinality(Awaited(DOMAIN pending)) \in Nat
      BY CountableAwaited DEF TypeOK
    <3>2. loss.missing \in Nat /\ loss.expected \in Nat
      BY DEF TypeOK, LossTotals
    <3>3. loss.missing + Cardinality(Awaited(DOMAIN pending)) <= loss.expected
      BY DEF LossInv
    <3> QED
      BY <3>1, <3>2, <3>3
  <2>2. ASSUME NEW b \in DOMAIN buckets
        PROVE  buckets[b].missing <= buckets[b].expected
    <3> DEFINE L == InBucket(DOMAIN pending, b)
    <3>1. L \in SUBSET DOMAIN pending
      BY DEF InBucket
    <3>2. buckets[b].missing + Cardinality(Awaited(L)) <= buckets[b].expected
      BY DEF LossInv
    <3> HIDE DEF L
    <3>3. Cardinality(Awaited(L)) \in Nat
      BY <3>1, CountableAwaited DEF TypeOK
    <3>4. buckets[b].missing \in Nat /\ buckets[b].expected \in Nat
      BY DEF TypeOK, LossBucket
    <3> QED
      BY <3>2, <3>3, <3>4
  <2> QED
    BY <2>1, <2>2 DEF LossInv, LossMatchesTimeouts
<1>4. Spec => []IInv
  BY Invariance
<1> QED
  BY <1>1, <1>2, <1>3, <1>4, PTL DEF Spec

-----------------------------------------------------------------------------
(***************************************************************************)
(* The Builder implements EventAssembly                                    *)
(***************************************************************************)
View(e) == [asked |-> e.exp, heard |-> e.att]

ResultOf(t) == [id |-> pending[t].id, asked |-> pending[t].exp, heard |-> pending[t].att]

IdsOf(T) == {pending[t].id : t \in T}

ReadyOf(c) == {[id |-> c[i].id, asked |-> c[i].exp, heard |-> c[i].act] : i \in DOMAIN c}

\* An order of T lists every event of T: as many places as events, and no
\* event in two of them.
LEMMA OrderListsAll ==
  ASSUME NEW T, IsFiniteSet(T), NEW s \in AnyOrder(T)
  PROVE  /\ \A t \in T : \E i \in DOMAIN s : s[i] = t
         /\ \A i \in DOMAIN s : s[i] \in T
<1> DEFINE n == Cardinality(T)
<1>1. n \in Nat
  BY FS_CardinalityType
<1>2. s \in Injection(1..n, T) /\ DOMAIN s = 1..n
  BY DEF AnyOrder, Injection, IsInjective
<1>3. IsFiniteSet(1..n) /\ Cardinality(1..n) = n
  BY <1>1, FS_Interval
<1> HIDE DEF n
<1>4. Cardinality(1..n) = Cardinality(T)
  BY <1>3 DEF n
<1>5. s \in Surjection(1..n, T)
  BY <1>2, <1>4, FS_Injection
<1> QED
  BY <1>2, <1>5 DEF Surjection, Injection

\* The outputs of the events of T, put behind c, make their results ready.
LEMMA ReadyOfPartials ==
  ASSUME BuilderConstants, TypeOK, NEW c \in Seq(Output),
         NEW T \in SUBSET DOMAIN pending, NEW s \in AnyOrder(T)
  PROVE  ReadyOf(c \o Partials(s)) = ReadyOf(c) \cup {ResultOf(t) : t \in T}
<1> DEFINE p == Partials(s)
           n == Cardinality(T)
<1>1. n \in Nat /\ DOMAIN s = 1..n
  BY OrderProperties DEF TypeOK
<1>2. p = [i \in 1..n |-> CompletedEvent(s[i], pending[s[i]], TRUE)]
  BY <1>1 DEF Partials
<1>3. IsFiniteSet(T)
  BY CountableAwaited DEF TypeOK
<1>4. (\A t \in T : \E i \in 1..n : s[i] = t) /\ \A i \in 1..n : s[i] \in T
  BY <1>1, <1>3, OrderListsAll
<1> HIDE DEF n
<1>5. \A i \in 1..n : /\ p[i].id = pending[s[i]].id /\ p[i].exp = pending[s[i]].exp
                      /\ p[i].act = pending[s[i]].att
  BY <1>2 DEF CompletedEvent
<1>6. Len(p) = n /\ DOMAIN p = 1..n
  BY <1>1, <1>2
<1> HIDE DEF p
<1>7. /\ Len(c) \in Nat /\ DOMAIN c = 1..Len(c)
      /\ DOMAIN (c \o p) = 1..Len(c) + n
      /\ \A i \in 1..Len(c) : (c \o p)[i] = c[i]
      /\ \A i \in 1..n : (c \o p)[Len(c) + i] = p[i]
  <2>1. \A t \in DOMAIN pending : CompletedEvent(t, pending[t], TRUE) \in Output
    BY DEF TypeOK, Event, Output, CompletedEvent
  <2>2. p \in [1..n -> Output]
    BY <1>2, <1>4, <2>1
  <2>3. p \in Seq(Output)
    BY <1>1, <2>2, SeqDef
  <2>4. Len(c) \in Nat /\ DOMAIN c = 1..Len(c)
    BY LenProperties
  <2>5. /\ c \o p \in Seq(Output) /\ Len(c \o p) = Len(c) + n
        /\ \A i \in 1..Len(c) + n : (c \o p)[i] = IF i <= Len(c) THEN c[i] ELSE p[i - Len(c)]
    BY <1>6, <2>3, ConcatProperties
  <2>6. DOMAIN (c \o p) = 1..Len(c) + n
    BY <2>5, LenProperties
  <2>7. ASSUME NEW i \in 1..n
        PROVE  (c \o p)[Len(c) + i] = p[i]
    <3>1. Len(c) + i \in 1..Len(c) + n /\ ~(Len(c) + i <= Len(c)) /\ (Len(c) + i) - Len(c) = i
      BY <1>1, <2>4
    <3> QED
      BY <2>5, <3>1
  <2>8. ASSUME NEW i \in 1..Len(c)
        PROVE  (c \o p)[i] = c[i]
    <3>1. i \in 1..Len(c) + n /\ i <= Len(c)
      BY <1>1, <2>4
    <3> QED
      BY <2>5, <3>1
  <2> QED
    BY <2>4, <2>6, <2>7, <2>8
<1> DEFINE r == c \o p
<1> HIDE DEF r
<1>8. /\ DOMAIN r = 1..Len(c) + n
      /\ \A i \in 1..Len(c) : r[i] = c[i]
      /\ \A i \in 1..n : r[Len(c) + i] = p[i]
  BY <1>7 DEF r
<1> DEFINE W(o) == [id |-> o.id, asked |-> o.exp, heard |-> o.act]
<1>9. ASSUME NEW i \in 1..n
      PROVE  W(r[Len(c) + i]) = ResultOf(s[i])
  BY <1>5, <1>8 DEF ResultOf
<1>10. 1..Len(c) + n = 1..Len(c) \cup {Len(c) + i : i \in 1..n}
  <2>1. ASSUME NEW i \in 1..Len(c) + n, i \notin 1..Len(c)
        PROVE  i - Len(c) \in 1..n /\ i = Len(c) + (i - Len(c))
    BY <1>1, <1>7, <2>1
  <2>2. ASSUME NEW i \in 1..n
        PROVE  Len(c) + i \in 1..Len(c) + n
    BY <1>1, <1>7
  <2>3. 1..Len(c) \subseteq 1..Len(c) + n
    BY <1>1, <1>7
  <2> QED
    BY <2>1, <2>2, <2>3
<1>11. ReadyOf(r) = {W(r[i]) : i \in 1..Len(c) + n}
  BY <1>8 DEF ReadyOf
<1>12. ReadyOf(c) = {W(c[i]) : i \in 1..Len(c)}
  BY <1>7 DEF ReadyOf
<1> HIDE DEF W
<1>13. ReadyOf(r) = {W(r[i]) : i \in 1..Len(c)} \cup {W(r[Len(c) + i]) : i \in 1..n}
  BY <1>10, <1>11
<1>14. {W(r[i]) : i \in 1..Len(c)} = ReadyOf(c)
  BY <1>8, <1>12
<1>15. {W(r[Len(c) + i]) : i \in 1..n} = {ResultOf(t) : t \in T}
  BY <1>4, <1>9
<1> QED
  BY <1>13, <1>14, <1>15 DEF r, p

\* Seen as an assembly: the open events, and what closing some of them leaves.
LEMMA OpenEventsAre ==
  PendingOK => /\ DOMAIN OpenEvents = OpenIds /\ OpenIds = IdsOf(DOMAIN pending)
               /\ \A t \in DOMAIN pending : OpenEvents[pending[t].id] = View(pending[t])
<1> SUFFICES ASSUME PendingOK
             PROVE  /\ DOMAIN OpenEvents = OpenIds /\ OpenIds = IdsOf(DOMAIN pending)
                    /\ \A t \in DOMAIN pending : OpenEvents[pending[t].id] = View(pending[t])
  OBVIOUS
<1>1. DOMAIN OpenEvents = OpenIds /\ OpenIds = IdsOf(DOMAIN pending)
  BY DEF OpenEvents, OpenIds, IdsOf
<1>2. ASSUME NEW t \in DOMAIN pending
      PROVE  OpenEvents[pending[t].id] = View(pending[t])
  <2> DEFINE i == pending[t].id
             u == CHOOSE x \in DOMAIN pending : pending[x].id = i
  <2>1. u \in DOMAIN pending /\ pending[u].id = i
    OBVIOUS
  <2>2. u = t
    BY <2>1 DEF PendingOK
  <2>3. EventOf(i) = pending[t]
    BY <2>2 DEF EventOf
  <2>4. i \in OpenIds
    BY DEF OpenIds
  <2> QED
    BY <2>3, <2>4 DEF OpenEvents, View
<1> QED
  BY <1>1, <1>2

LEMMA ClosingIs ==
  ASSUME IInv, NEW T \in SUBSET DOMAIN pending
  PROVE  /\ IdsOf(T) \in SUBSET OpenIds
         /\ OpenIds \ IdsOf(T) = IdsOf(DOMAIN pending \ T)
         /\ DOMAIN Promise!Without(IdsOf(T)) = IdsOf(DOMAIN pending \ T)
         /\ \A t \in DOMAIN pending \ T :
              Promise!Without(IdsOf(T))[pending[t].id] = View(pending[t])
         /\ Promise!Closed(IdsOf(T)) = {ResultOf(t) : t \in WithFragments(T)}
<1> USE DEF IInv
<1>1. /\ DOMAIN OpenEvents = OpenIds /\ OpenIds = IdsOf(DOMAIN pending)
      /\ \A t \in DOMAIN pending : OpenEvents[pending[t].id] = View(pending[t])
  BY OpenEventsAre
<1>2. \A t, u \in DOMAIN pending : pending[t].id = pending[u].id => t = u
  BY DEF PendingOK
<1>3. IdsOf(T) \in SUBSET OpenIds /\ OpenIds \ IdsOf(T) = IdsOf(DOMAIN pending \ T)
  BY <1>1, <1>2 DEF IdsOf
<1>4. DOMAIN Promise!Without(IdsOf(T)) = IdsOf(DOMAIN pending \ T)
  BY <1>1, <1>3 DEF Promise!Without
<1>5. ASSUME NEW t \in DOMAIN pending \ T
      PROVE  Promise!Without(IdsOf(T))[pending[t].id] = View(pending[t])
  <2>1. pending[t].id \in IdsOf(DOMAIN pending \ T)
    BY DEF IdsOf
  <2> QED
    BY <1>1, <1>3, <2>1 DEF Promise!Without
<1>6. ASSUME NEW t \in T
      PROVE  /\ Promise!Result(pending[t].id) = ResultOf(t)
             /\ OpenEvents[pending[t].id].heard # {} <=> t \in WithFragments(T)
  <2>1. OpenEvents[pending[t].id] = View(pending[t])
    BY <1>1
  <2>2. Promise!Result(pending[t].id) = ResultOf(t)
    BY <2>1 DEF Promise!Result, ResultOf, View
  <2>3. pending[t].frags \in Seq(DU)
    BY DEF TypeOK, Event
  <2>4. pending[t].att = {pending[t].frags[j] : j \in DOMAIN pending[t].frags}
    BY DEF PendingOK, PendingEventOK
  <2>5. pending[t].att # {} <=> pending[t].frags # <<>>
    <3>1. \A f \in Seq(DU) : DOMAIN f = {} <=> f = <<>>
      OBVIOUS
    <3> QED
      BY <2>3, <2>4, <3>1
  <2> QED
    BY <2>1, <2>2, <2>5 DEF View, WithFragments
<1>7. Promise!Closed(IdsOf(T))
        = {Promise!Result(i) : i \in {j \in IdsOf(T) : OpenEvents[j].heard # {}}}
  BY DEF Promise!Closed
<1>8. {j \in IdsOf(T) : OpenEvents[j].heard # {}} = IdsOf(WithFragments(T))
  BY <1>6 DEF IdsOf, WithFragments
<1>9. Promise!Closed(IdsOf(T)) = {ResultOf(t) : t \in WithFragments(T)}
  <2>1. WithFragments(T) \subseteq T
    BY DEF WithFragments
  <2> QED
    BY <1>6, <1>7, <1>8, <2>1 DEF IdsOf
<1> QED
  BY <1>3, <1>4, <1>5, <1>9

\* As many open events as pending ones
LEMMA IdsCount ==
  ASSUME BuilderConstants, TypeOK, PendingOK, NEW T \in SUBSET DOMAIN pending
  PROVE  Cardinality(IdsOf(T)) = Cardinality(T)
<1> DEFINE f == [t \in T |-> pending[t].id]
<1>1. f \in Bijection(T, IdsOf(T))
  BY DEF PendingOK, IdsOf, Bijection, Injection, Surjection, IsInjective
<1>2. IsFiniteSet(T)
  BY CountableAwaited DEF TypeOK
<1> HIDE DEF f
<1>3. ExistsBijection(T, IdsOf(T))
  BY <1>1 DEF ExistsBijection
<1> QED
  BY <1>2, <1>3, FS_Bijection

\* What is open after a step is decided by what is pending.
LEMMA OpenAfter ==
  ASSUME PendingOK', NEW g, g = [i \in DOMAIN g |-> g[i]],
         DOMAIN g = {pending'[t].id : t \in DOMAIN pending'},
         \A t \in DOMAIN pending' : g[pending'[t].id] = View(pending'[t])
  PROVE  OpenEvents' = g
<1>1. (/\ DOMAIN OpenEvents = OpenIds /\ OpenIds = IdsOf(DOMAIN pending)
       /\ \A t \in DOMAIN pending : OpenEvents[pending[t].id] = View(pending[t]))'
  BY OpenEventsAre, PTL
<1>2. OpenEvents' = [i \in DOMAIN OpenEvents' |-> OpenEvents'[i]]
  BY DEF OpenEvents
<1>3. DOMAIN OpenEvents' = {pending'[t].id : t \in DOMAIN pending'}
  BY <1>1 DEF IdsOf
<1>4. ASSUME NEW i \in DOMAIN g PROVE OpenEvents'[i] = g[i]
  <2>1. PICK t \in DOMAIN pending' : i = pending'[t].id
    OBVIOUS
  <2>2. OpenEvents'[pending'[t].id] = View(pending'[t])
    BY <1>1
  <2> QED
    BY <2>1, <2>2
<1> QED
  BY <1>2, <1>3, <1>4

LEMMA OpenAfterClosing ==
  ASSUME IInv, PendingOK', NEW T \in SUBSET DOMAIN pending,
         DOMAIN pending' = DOMAIN pending \ T,
         \A t \in DOMAIN pending \ T : pending'[t] = pending[t]
  PROVE  OpenEvents' = Promise!Without(IdsOf(T))
<1> DEFINE g == Promise!Without(IdsOf(T))
<1>1. g = [i \in DOMAIN g |-> g[i]]
  BY DEF Promise!Without
<1>2. DOMAIN g = IdsOf(DOMAIN pending \ T)
      /\ \A t \in DOMAIN pending \ T : g[pending[t].id] = View(pending[t])
  BY ClosingIs
<1> HIDE DEF g
<1>3. DOMAIN g = {pending'[t].id : t \in DOMAIN pending'}
  BY <1>2 DEF IdsOf
<1>4. \A t \in DOMAIN pending' : g[pending'[t].id] = View(pending'[t])
  BY <1>2
<1>5. OpenEvents' = g
  BY <1>1, <1>3, <1>4, OpenAfter
<1> QED
  BY <1>5 DEF g

LEMMA ReadyIs == ReadyEvents = ReadyOf(completed) /\ Ids(completed) = {r.id : r \in ReadyEvents}
<1>1. ReadyEvents = ReadyOf(completed)
  BY DEF ReadyEvents, ReadyOf
<1>2. ASSUME NEW x PROVE x \in Ids(completed) <=> x \in {r.id : r \in ReadyEvents}
  <2>1. x \in Ids(completed) <=> \E i \in DOMAIN completed : x = completed[i].id
    BY DEF Ids
  <2> DEFINE W(i) == [id |-> completed[i].id, asked |-> completed[i].exp,
                      heard |-> completed[i].act]
  <2>2. \A i : W(i).id = completed[i].id
    OBVIOUS
  <2>3. ReadyEvents = {W(i) : i \in DOMAIN completed}
    BY DEF ReadyEvents
  <2> HIDE DEF W
  <2> QED
    BY <2>1, <2>2, <2>3
<1> QED
  BY <1>1, <1>2

LEMMA ReadyAfterHarvest ==
  ASSUME BuilderConstants, IInv, NEW due \in DeadlineOrder(WithFragments(Expired))
  PROVE  /\ completed \o Partials(due) \in Seq(Output)
         /\ ReadyOf(completed \o Partials(due))
              = ReadyEvents \cup Promise!Closed(IdsOf(Expired))
<1> USE DEF IInv
<1>1. completed \in Seq(Output) /\ Expired \in SUBSET DOMAIN pending
      /\ WithFragments(Expired) \in SUBSET DOMAIN pending
  BY SubsetsOfPending DEF TypeOK
<1>2. due \in AnyOrder(WithFragments(Expired))
  BY DEF DeadlineOrder
<1>3. ReadyOf(completed \o Partials(due))
        = ReadyOf(completed) \cup {ResultOf(t) : t \in WithFragments(Expired)}
  BY <1>1, <1>2, ReadyOfPartials
<1>4. Promise!Closed(IdsOf(Expired)) = {ResultOf(t) : t \in WithFragments(Expired)}
  BY <1>1, ClosingIs
<1>5. completed \o Partials(due) \in Seq(Output)
  BY HarvestFacts DEF OutputsOK
<1> QED
  BY <1>3, <1>4, <1>5, ReadyIs

LEMMA ExpiredGo ==
  ASSUME IInv
  PROVE  /\ Expired \in SUBSET DOMAIN pending /\ DOMAIN pending \ Expired = Live
         /\ IdsOf(Expired) \in SUBSET DOMAIN OpenEvents
         /\ DOMAIN OpenEvents = OpenIds
         /\ DOMAIN OpenEvents \ IdsOf(Expired) = IdsOf(Live)
<1>1. Expired \in SUBSET DOMAIN pending /\ DOMAIN pending \ Expired = Live
  BY SubsetsOfPending DEF Live
<1>2. DOMAIN OpenEvents = OpenIds
  BY DEF OpenEvents
<1> QED
  BY <1>1, <1>2, ClosingIs

\* Calls that only harvest close what has expired.
LEMMA HarvestingCloses ==
  ASSUME BuilderConstants, IInv, PendingOK',
         HarvestOutput, pending' = HarvestedPending, stat' = HarvestedStat, UNCHANGED drained
  PROVE  Promise!Close(IdsOf(Expired))
<1> USE DEF IInv
<1>1. DOMAIN pending' = Live /\ \A t \in Live : pending'[t] = pending[t]
  BY HarvestTypes
<1>2. Expired \in SUBSET DOMAIN pending /\ DOMAIN pending \ Expired = Live
  BY ExpiredGo
<1>3. OpenEvents' = Promise!Without(IdsOf(Expired))
  BY <1>1, <1>2, OpenAfterClosing
<1>4. ReadyEvents' = ReadyEvents \cup Promise!Closed(IdsOf(Expired))
  <2>1. PICK due \in DeadlineOrder(WithFragments(Expired)) :
          completed' = completed \o Partials(due)
    BY DEF HarvestOutput
  <2>2. ReadyEvents' = ReadyOf(completed')
    BY DEF ReadyEvents, ReadyOf
  <2> QED
    BY <2>1, <2>2, ReadyAfterHarvest
<1>5. stat'.registered = stat.registered
  BY HarvestFacts
<1> QED
  BY <1>3, <1>4, <1>5 DEF Promise!Close

LEMMA StopCloses ==
  ASSUME BuilderConstants, IInv, PendingOK', Stop
  PROVE  Promise!Close(IdsOf(DOMAIN pending))
<1> USE DEF IInv
<1> DEFINE D == DOMAIN pending
<1>1. OpenEvents' = Promise!Without(IdsOf(D))
  <2>1. DOMAIN pending' = {}
    BY DEF Stop
  <2> QED
    BY <2>1, OpenAfterClosing
<1>2. PICK due \in DeadlineOrder(WithFragments(Expired)), rest \in AnyOrder(WithFragments(Live)) :
        completed' = completed \o Partials(due) \o Partials(rest)
  BY DEF Stop
<1>3. ReadyEvents' = ReadyOf(completed')
  BY DEF ReadyEvents, ReadyOf
<1> DEFINE c == completed \o Partials(due)
<1>4. c \in Seq(Output) /\ ReadyOf(c) = ReadyEvents \cup Promise!Closed(IdsOf(Expired))
  BY ReadyAfterHarvest
<1>5. completed' = c \o Partials(rest)
  BY <1>2
<1> HIDE DEF c
<1>6. WithFragments(Live) \in SUBSET DOMAIN pending
  BY SubsetsOfPending
<1>7. ReadyOf(c \o Partials(rest)) = ReadyOf(c) \cup {ResultOf(t) : t \in WithFragments(Live)}
  BY <1>4, <1>6, ReadyOfPartials
<1>8. /\ Promise!Closed(IdsOf(Expired)) = {ResultOf(t) : t \in WithFragments(Expired)}
      /\ Promise!Closed(IdsOf(D)) = {ResultOf(t) : t \in WithFragments(D)}
  BY ExpiredGo, ClosingIs
<1>9. WithFragments(D) = WithFragments(Expired) \cup WithFragments(Live)
  BY ExpiredGo DEF WithFragments
<1>10. ReadyEvents' = ReadyEvents \cup Promise!Closed(IdsOf(D))
  BY <1>3, <1>4, <1>5, <1>7, <1>8, <1>9
<1>11. stat'.registered = stat.registered /\ drained' = drained
  <2>1. HarvestedStat \in Counters /\ HarvestedStat.registered = stat.registered
    BY HarvestTypes, HarvestFacts
  <2>2. stat' = [HarvestedStat EXCEPT
                    !.partial = @ + Cardinality(WithFragments(Live)),
                    !.partialMissing = @ + Cardinality(Awaited(WithFragments(Live)))]
    BY DEF Stop
  <2>3. stat'.registered = HarvestedStat.registered
    BY <2>1, <2>2, Zenon DEF Counters
  <2> QED
    BY <2>1, <2>3 DEF Stop
<1> QED
  BY <1>1, <1>10, <1>11 DEF Promise!Close

LEMMA BeginEventOpens ==
  ASSUME BuilderConstants, IInv, PendingOK',
         NEW t \in Tags, NEW dus \in SUBSET ChannelTags, BeginEvent(t, dus)
  PROVE  Promise!Open(IdsOf(Expired), dus)
<1> USE DEF IInv
<1> DEFINE n == stat.registered
           g == [i \in (DOMAIN OpenEvents \ IdsOf(Expired)) \cup {n} |->
                   IF i = n THEN [asked |-> dus, heard |-> {}] ELSE OpenEvents[i]]
<1>1. /\ t \notin Live /\ dus # {} /\ Cardinality(Live) < MaxPending
      /\ DOMAIN pending' = Live \cup {t}
      /\ \A x \in Live : pending'[x] = pending[x]
      /\ pending'[t].exp = dus /\ pending'[t].att = {} /\ pending'[t].id = n
      /\ drained' = drained
  BY DEF BeginEvent
<1>2. /\ Expired \in SUBSET DOMAIN pending /\ DOMAIN pending \ Expired = Live
      /\ DOMAIN OpenEvents \ IdsOf(Expired) = IdsOf(Live)
      /\ Live \in SUBSET DOMAIN pending
  BY ExpiredGo, SubsetsOfPending
<1>3. \A x \in DOMAIN pending : /\ OpenEvents[pending[x].id] = View(pending[x])
                                /\ pending[x].id # n
  <2>1. \A x \in DOMAIN pending : pending[x].id < n /\ pending[x].id \in Nat
    BY DEF PendingOK, PendingEventOK, TypeOK, Event
  <2>2. \A x \in DOMAIN pending : pending[x].id # n
    BY <2>1
  <2> QED
    BY <2>2, OpenEventsAre
<1>4. Cardinality(DOMAIN OpenEvents \ IdsOf(Expired)) < MaxPending
  <2>1. Cardinality(IdsOf(Live)) = Cardinality(Live)
    BY <1>2, IdsCount
  <2> QED
    BY <1>1, <1>2, <2>1
<1>5. OpenEvents' = g
  <2>1. g = [i \in DOMAIN g |-> g[i]]
    OBVIOUS
  <2>2. DOMAIN g = IdsOf(Live) \cup {n}
    BY <1>2
  <2>3. \A x \in Live : g[pending[x].id] = View(pending[x])
    BY <1>2, <1>3 DEF IdsOf
  <2>4. g[n] = [asked |-> dus, heard |-> {}]
    OBVIOUS
  <2> HIDE DEF g
  <2>5. DOMAIN g = {pending'[x].id : x \in DOMAIN pending'}
    BY <1>1, <2>2 DEF IdsOf
  <2>6. ASSUME NEW x \in DOMAIN pending'
        PROVE  g[pending'[x].id] = View(pending'[x])
    <3>1. CASE x = t
      <4>1. View(pending'[x]) = [asked |-> dus, heard |-> {}]
        BY <1>1, <3>1 DEF View
      <4> QED
        BY <1>1, <2>4, <3>1, <4>1
    <3>2. CASE x # t
      BY <1>1, <2>3, <3>2
    <3> QED
      BY <3>1, <3>2
  <2> QED
    BY <2>1, <2>5, <2>6, OpenAfter
<1>6. ReadyEvents' = ReadyEvents \cup Promise!Closed(IdsOf(Expired))
  <2>1. PICK due \in DeadlineOrder(WithFragments(Expired)) :
          completed' = completed \o Partials(due)
    BY DEF BeginEvent, HarvestOutput
  <2>2. ReadyEvents' = ReadyOf(completed')
    BY DEF ReadyEvents, ReadyOf
  <2> QED
    BY <2>1, <2>2, ReadyAfterHarvest
<1>7. stat'.registered = n + 1
  <2>1. HarvestedStat \in Counters /\ HarvestedStat.registered = n
    BY HarvestTypes, HarvestFacts
  <2>2. stat' = [HarvestedStat EXCEPT !.registered = @ + 1,
                                      !.expected = @ + Cardinality(dus)]
    BY DEF BeginEvent
  <2> QED
    BY <2>1, <2>2, Zenon DEF Counters
<1> HIDE DEF IInv
<1>8. dus # {} /\ drained' = drained
  BY <1>1
<1>9. OpenEvents' = [i \in (DOMAIN OpenEvents \ IdsOf(Expired)) \cup {stat.registered} |->
                       IF i = stat.registered THEN [asked |-> dus, heard |-> {}]
                                              ELSE OpenEvents[i]]
  BY <1>5
<1>10. Promise!Cardinality(DOMAIN OpenEvents \ IdsOf(Expired)) < MaxPending
  BY <1>4 DEF Promise!Cardinality, Cardinality
<1> QED
  BY <1>6, <1>7, <1>8, <1>9, <1>10 DEF Promise!Open

\* The event a fragment reaches, as the assembly sees it
LEMMA AcceptsHears ==
  ASSUME BuilderConstants, IInv, NEW t \in Tags, NEW d \in DU, Accepts(t, d, TRUE)
  PROVE  /\ t \in Live /\ t \in DOMAIN pending /\ d \in ChannelTags
         /\ pending[t] \in Event /\ pending[t].id \in DOMAIN OpenEvents
         /\ pending[t].id \notin IdsOf(Expired)
         /\ OpenEvents[pending[t].id] = View(pending[t])
         /\ Promise!Waits(pending[t].id, d)
         /\ Promise!Heard(pending[t].id, d) = pending[t].att \cup {d}
         /\ Attached(pending[t], d).att = pending[t].att \cup {d}
         /\ Attached(pending[t], d).exp = pending[t].exp
         /\ Attached(pending[t], d).id = pending[t].id
<1> USE DEF IInv
<1>1. /\ t \in Live /\ d \in ChannelTags /\ d \in pending[t].exp /\ d \notin pending[t].att
  BY DEF Accepts
<1>2. t \in DOMAIN pending /\ t \notin Expired /\ Expired \subseteq DOMAIN pending
  BY <1>1 DEF Live, Expired
<1>3. pending[t] \in Event
  BY <1>2 DEF TypeOK
<1>4. /\ pending[t].id \in DOMAIN OpenEvents
      /\ OpenEvents[pending[t].id] = View(pending[t])
  BY <1>2, OpenEventsAre DEF IdsOf
<1>5. pending[t].id \notin IdsOf(Expired)
  BY <1>2 DEF PendingOK, IdsOf
<1>6. Promise!Waits(pending[t].id, d) /\ Promise!Heard(pending[t].id, d) = pending[t].att \cup {d}
  BY <1>1, <1>4 DEF Promise!Waits, Promise!Heard, View
<1>7. /\ Attached(pending[t], d).att = pending[t].att \cup {d}
      /\ Attached(pending[t], d).exp = pending[t].exp
      /\ Attached(pending[t], d).id = pending[t].id
  BY <1>3 DEF Attached, Event
<1> QED
  BY <1>1, <1>2, <1>3, <1>4, <1>5, <1>6, <1>7

\* Setting what the event of i has heard leaves whom it asked.
LEMMA SetHeard ==
  ASSUME NEW w, NEW i \in DOMAIN w, NEW asked, NEW heard, NEW h,
         w[i] = [asked |-> asked, heard |-> heard]
  PROVE  [w EXCEPT ![i].heard = h][i] = [asked |-> asked, heard |-> h]
<1>1. [w EXCEPT ![i].heard = h] = [w EXCEPT ![i] = [w[i] EXCEPT !.heard = h]]
  OBVIOUS
<1>2. [w EXCEPT ![i] = [w[i] EXCEPT !.heard = h]][i] = [w[i] EXCEPT !.heard = h]
  OBVIOUS
<1>3. [[asked |-> asked, heard |-> heard] EXCEPT !.heard = h] = [asked |-> asked, heard |-> h]
  OBVIOUS
<1> QED
  BY <1>1, <1>2, <1>3

LEMMA AttachFragmentHears ==
  ASSUME BuilderConstants, IInv, PendingOK',
         NEW t \in Tags, NEW d \in DU, AttachFragment(t, d)
  PROVE  Promise!Hear(IdsOf(Expired), pending[t].id, d)
<1> USE DEF IInv
<1> DEFINE i == pending[t].id
           S == IdsOf(Expired)
           w == Promise!Without(S)
           g == [w EXCEPT ![i].heard = Promise!Heard(i, d)]
<1>1. /\ Accepts(t, d, TRUE) /\ ~IsEventCompleted(Attached(pending[t], d))
      /\ pending' = [HarvestedPending EXCEPT ![t] = Attached(@, d)]
      /\ HarvestOutput /\ drained' = drained
      /\ stat' = [HarvestedStat EXCEPT !.received = @ + 1]
  BY DEF AttachFragment
<1>2. /\ t \in Live /\ t \in DOMAIN pending /\ i \notin S /\ i \in DOMAIN OpenEvents
      /\ OpenEvents[i] = View(pending[t])
      /\ Promise!Waits(i, d) /\ Promise!Heard(i, d) = pending[t].att \cup {d}
      /\ Attached(pending[t], d).att = pending[t].att \cup {d}
      /\ Attached(pending[t], d).exp = pending[t].exp
      /\ Attached(pending[t], d).id = i
  BY <1>1, AcceptsHears
<1>3. /\ DOMAIN pending' = Live /\ pending'[t] = Attached(pending[t], d)
      /\ \A x \in Live \ {t} : pending'[x] = pending[x]
  BY <1>1, <1>2, HarvestTypes
<1>4. /\ w = [j \in DOMAIN w |-> w[j]] /\ DOMAIN w = IdsOf(Live)
      /\ \A x \in Live : w[pending[x].id] = View(pending[x])
  <2>1. w = [j \in DOMAIN w |-> w[j]]
    BY DEF Promise!Without
  <2> HIDE DEF w
  <2>2. DOMAIN w = IdsOf(Live) /\ \A x \in Live : w[pending[x].id] = View(pending[x])
    BY ExpiredGo, ClosingIs DEF w
  <2> QED
    BY <2>1, <2>2
<1>5. Promise!Heard(i, d) # OpenEvents[i].asked
  BY <1>1, <1>2 DEF IsEventCompleted, View
<1> HIDE DEF w, S
<1>6. OpenEvents' = g
  <2>1. i \in DOMAIN w /\ w[i] = [asked |-> pending[t].exp, heard |-> pending[t].att]
    BY <1>2, <1>4 DEF IdsOf, View
  <2>2. DOMAIN g = DOMAIN w /\ g = [j \in DOMAIN g |-> g[j]]
        /\ \A j \in DOMAIN w \ {i} : g[j] = w[j]
    OBVIOUS
  <2>3. g[i] = [asked |-> pending[t].exp, heard |-> pending[t].att \cup {d}]
    <3> DEFINE h == Promise!Heard(i, d)
    <3>1. h = pending[t].att \cup {d}
      BY <1>2
    <3> HIDE DEF h, i
    <3>2. [w EXCEPT ![i].heard = h][i] = [asked |-> pending[t].exp, heard |-> h]
      BY <2>1, SetHeard
    <3> QED
      BY <3>1, <3>2 DEF h
  <2> HIDE DEF g
  <2>4. \A x \in Live : pending'[x].id = pending[x].id
    BY <1>2, <1>3
  <2>5. DOMAIN g = {pending'[x].id : x \in DOMAIN pending'}
    BY <1>3, <1>4, <2>2, <2>4 DEF IdsOf
  <2>6. ASSUME NEW x \in DOMAIN pending'
        PROVE  g[pending'[x].id] = View(pending'[x])
    <3>1. CASE x = t
      <4>1. View(pending'[x]) = [asked |-> pending[t].exp, heard |-> pending[t].att \cup {d}]
        BY <1>2, <1>3, <3>1 DEF View
      <4> QED
        BY <1>2, <1>3, <2>3, <3>1, <4>1
    <3>2. CASE x # t
      <4>1. x \in Live /\ x \in DOMAIN pending /\ pending'[x] = pending[x]
        BY <1>3, <3>2, SubsetsOfPending
      <4>2. pending[x].id # i
        BY <1>2, <3>2, <4>1 DEF PendingOK
      <4>3. pending[x].id \in DOMAIN w \ {i}
        BY <1>4, <4>1, <4>2 DEF IdsOf
      <4> QED
        BY <1>4, <2>2, <4>1, <4>3
    <3> QED
      BY <3>1, <3>2
  <2> QED
    BY <2>2, <2>5, <2>6, OpenAfter
<1>7. ReadyEvents' = ReadyEvents \cup Promise!Closed(S)
  <2>1. PICK due \in DeadlineOrder(WithFragments(Expired)) :
          completed' = completed \o Partials(due)
    BY <1>1 DEF HarvestOutput
  <2>2. ReadyEvents' = ReadyOf(completed')
    BY DEF ReadyEvents, ReadyOf
  <2> QED
    BY <2>1, <2>2, ReadyAfterHarvest DEF S
<1>8. stat'.registered = stat.registered
  BY <1>1, HarvestTypes, HarvestFacts, Zenon DEF Counters
<1>9. Promise!Hear(S, i, d)
  BY <1>1, <1>2, <1>5, <1>6, <1>7, <1>8 DEF Promise!Hear, w
<1> QED
  BY <1>9 DEF S

LEMMA CompleteEventHears ==
  ASSUME BuilderConstants, IInv, PendingOK',
         NEW t \in Tags, NEW d \in DU, CompleteEvent(t, d)
  PROVE  Promise!HearLast(IdsOf(Expired), pending[t].id, d)
<1> USE DEF IInv
<1> DEFINE i == pending[t].id
           S == IdsOf(Expired)
           e == Attached(pending[t], d)
           last == [id |-> i, asked |-> pending[t].exp, heard |-> pending[t].exp]
<1>1. /\ Accepts(t, d, TRUE) /\ IsEventCompleted(e)
      /\ pending' = [x \in Live \ {t} |-> pending[x]]
      /\ drained' = drained
      /\ stat' = [HarvestedStat EXCEPT !.received = @ + 1, !.complete = @ + 1]
  BY DEF CompleteEvent
<1>2. /\ t \in Live /\ t \in DOMAIN pending /\ i \notin S /\ i \in DOMAIN OpenEvents
      /\ OpenEvents[i] = View(pending[t])
      /\ Promise!Waits(i, d) /\ Promise!Heard(i, d) = pending[t].att \cup {d}
      /\ e.att = pending[t].att \cup {d} /\ e.exp = pending[t].exp /\ e.id = i
  BY <1>1, AcceptsHears
<1>3. e.att = e.exp /\ Promise!Heard(i, d) = OpenEvents[i].asked
      /\ OpenEvents[i].asked = pending[t].exp
  <2>1. pending[t].exp = OpenEvents[i].asked
    BY <1>2 DEF View
  <2> HIDE DEF e, i
  <2>2. e.att = e.exp
    BY <1>1 DEF IsEventCompleted
  <2> QED
    BY <1>2, <2>1, <2>2
<1> HIDE DEF e
<1>4. OpenEvents' = Promise!Without(S \cup {i})
  <2>1. S \cup {i} = IdsOf(Expired \cup {t})
    BY DEF IdsOf
  <2>2. Expired \cup {t} \in SUBSET DOMAIN pending
        /\ DOMAIN pending \ (Expired \cup {t}) = Live \ {t}
    BY <1>2, ExpiredGo
  <2>3. DOMAIN pending' = Live \ {t} /\ \A x \in Live \ {t} : pending'[x] = pending[x]
    BY <1>1
  <2> HIDE DEF S, i
  <2> QED
    BY <2>1, <2>2, <2>3, OpenAfterClosing
<1>5. ReadyEvents' = ReadyEvents \cup Promise!Closed(S) \cup {last}
  <2>1. PICK due \in DeadlineOrder(WithFragments(Expired)) :
          completed' = completed \o Partials(due) \o <<CompletedEvent(t, e, FALSE)>>
    BY DEF CompleteEvent, e
  <2> DEFINE c == completed \o Partials(due)
             o == CompletedEvent(t, e, FALSE)
             W(x) == [id |-> x.id, asked |-> x.exp, heard |-> x.act]
  <2>2. c \in Seq(Output) /\ ReadyOf(c) = ReadyEvents \cup Promise!Closed(S)
    BY ReadyAfterHarvest
  <2>3. completed' = c \o <<o>>
    BY <2>1
  <2>4. ReadyEvents' = ReadyOf(completed')
    BY DEF ReadyEvents, ReadyOf
  <2>5. W(o) = last
    BY <1>2, <1>3 DEF CompletedEvent
  <2> HIDE DEF c, o
  <2>6. /\ Len(c) \in Nat /\ DOMAIN c = 1..Len(c)
        /\ DOMAIN (c \o <<o>>) = 1..Len(c) + 1
        /\ \A k \in 1..Len(c) : (c \o <<o>>)[k] = c[k]
        /\ (c \o <<o>>)[Len(c) + 1] = o
    BY <2>2
  <2>7. ReadyOf(c) = {W(c[k]) : k \in 1..Len(c)}
    BY <2>6 DEF ReadyOf
  <2>8. ReadyOf(c \o <<o>>) = {W((c \o <<o>>)[k]) : k \in 1..Len(c) + 1}
    BY <2>6 DEF ReadyOf
  <2> HIDE DEF W, last
  <2>9. 1..Len(c) + 1 = 1..Len(c) \cup {Len(c) + 1}
    BY <2>6
  <2> DEFINE q == c \o <<o>>
  <2> HIDE DEF q
  <2>10. /\ \A k \in 1..Len(c) : q[k] = c[k]
         /\ q[Len(c) + 1] = o
         /\ ReadyOf(q) = {W(q[k]) : k \in 1..Len(c) + 1}
    BY <2>6, <2>8 DEF q
  <2>11. ReadyOf(q) = {W(c[k]) : k \in 1..Len(c)} \cup {W(o)}
    BY <2>9, <2>10
  <2> QED
    BY <2>2, <2>3, <2>4, <2>5, <2>7, <2>11 DEF q
<1>6. stat'.registered = stat.registered
  BY <1>1, HarvestTypes, HarvestFacts, Zenon DEF Counters
<1> HIDE DEF S
<1>7. Promise!HearLast(S, i, d)
  BY <1>1, <1>2, <1>3, <1>4, <1>5, <1>6 DEF Promise!HearLast
<1> QED
  BY <1>7 DEF S

\* drainCompleted takes what is ready and what the harvest closes.
LEMMA DrainTakes ==
  ASSUME BuilderConstants, IInv, PendingOK', DrainRunning \/ DrainStopped
  PROVE  \E S \in SUBSET DOMAIN OpenEvents : Promise!Take(S)
<1> USE DEF IInv
<1>0. ASSUME completed' = <<>> PROVE ReadyEvents' = {}
  BY <1>0 DEF ReadyEvents
<1>1. CASE DrainRunning
  <2> DEFINE S == IdsOf(Expired)
  <2>1. /\ completed' = <<>> /\ pending' = HarvestedPending /\ stat' = HarvestedStat
        /\ drained' = drained \cup Ids(completed) \cup IdsOf(WithFragments(Expired))
    BY <1>1 DEF DrainRunning, IdsOf
  <2>2. DOMAIN pending' = Live /\ \A t \in Live : pending'[t] = pending[t]
    BY <2>1, HarvestTypes
  <2>3. OpenEvents' = Promise!Without(S)
    BY <2>2, ExpiredGo, OpenAfterClosing
  <2>4. stat'.registered = stat.registered
    BY <2>1, HarvestFacts
  <2>5. Promise!Closed(S) = {ResultOf(t) : t \in WithFragments(Expired)}
    BY ExpiredGo, ClosingIs
  <2>6. \A t : ResultOf(t).id = pending[t].id
    BY DEF ResultOf
  <2>7. {r.id : r \in Promise!Closed(S)} = IdsOf(WithFragments(Expired))
    BY <2>5, <2>6 DEF IdsOf
  <2> HIDE DEF S
  <2>8. drained' = drained \cup {r.id : r \in ReadyEvents \cup Promise!Closed(S)}
    <3>1. {r.id : r \in ReadyEvents \cup Promise!Closed(S)}
            = {r.id : r \in ReadyEvents} \cup {r.id : r \in Promise!Closed(S)}
      OBVIOUS
    <3> QED
      BY <2>1, <2>7, <3>1, ReadyIs
  <2>9. Promise!Take(S)
    BY <1>0, <2>1, <2>3, <2>4, <2>8 DEF Promise!Take
  <2> QED
    BY <2>9, ExpiredGo DEF S
<1>2. CASE DrainStopped
  <2>1. /\ completed' = <<>> /\ pending' = pending /\ stat' = stat
        /\ drained' = drained \cup Ids(completed)
    BY <1>2 DEF DrainStopped
  <2>2. OpenEvents' = Promise!Without(IdsOf({}))
    BY <2>1, OpenAfterClosing
  <2>3. IdsOf({}) = {} /\ Promise!Closed({}) = {}
    BY DEF IdsOf, Promise!Closed
  <2>4. Promise!Take({})
    BY <1>0, <2>1, <2>2, <2>3, ReadyIs DEF Promise!Take
  <2> QED
    BY <2>4
<1> QED
  BY <1>1, <1>2

LEMMA StartResets ==
  ASSUME IInv, PendingOK', Start
  PROVE  Promise!Reset
<1> USE DEF IInv
<1>1. DOMAIN pending = {} /\ DOMAIN pending' = {} /\ completed' = <<>>
      /\ stat' = stat /\ drained' = drained
  BY DEF Start
<1>2. OpenEvents = <<>> /\ OpenEvents' = <<>>
  BY <1>1 DEF OpenEvents, OpenIds
<1>3. ReadyEvents' = {}
  BY <1>1 DEF ReadyEvents
<1> QED
  BY <1>1, <1>2, <1>3 DEF Promise!Reset

LEMMA RefinesStep ==
  ASSUME BuilderConstants, IInv, PendingOK', [Next]_vars
  PROVE  [Promise!Next]_(Promise!vars)
<1> USE DEF IInv
<1>1. DOMAIN pending \in SUBSET DOMAIN pending /\ IdsOf(DOMAIN pending) \in SUBSET DOMAIN OpenEvents
      /\ IdsOf(Expired) \in SUBSET DOMAIN OpenEvents
  BY ExpiredGo, OpenEventsAre
<1>2. CASE Tick \/ UNCHANGED vars
  <2>1. UNCHANGED <<pending, completed, stat, drained>>
    BY <1>2 DEF Tick, vars
  <2>2. OpenEvents' = OpenEvents /\ ReadyEvents' = ReadyEvents
    BY <2>1 DEF OpenEvents, OpenIds, EventOf, ReadyEvents
  <2> QED
    BY <2>1, <2>2 DEF Promise!vars
<1>3. CASE Start
  BY <1>3, StartResets DEF Promise!Next
<1>4. CASE Stop
  BY <1>1, <1>4, StopCloses DEF Promise!Next
<1>5. ASSUME NEW t \in Tags, NEW dus \in SUBSET ChannelTags, BeginEvent(t, dus)
      PROVE  Promise!Next
  BY <1>1, <1>5, BeginEventOpens DEF Promise!Next
<1>6. CASE HarvestOnly \/ \E t \in Tags, d \in DU, payload \in BOOLEAN : RejectFragment(t, d, payload)
  <2>1. /\ HarvestOutput /\ pending' = HarvestedPending /\ stat' = HarvestedStat
        /\ UNCHANGED drained
    BY <1>6 DEF HarvestOnly, RejectFragment
  <2>2. Promise!Close(IdsOf(Expired))
    BY <2>1, HarvestingCloses
  <2> QED
    BY <1>1, <2>2 DEF Promise!Next
<1>7. ASSUME NEW t \in Tags, NEW d \in DU, AttachFragment(t, d) \/ CompleteEvent(t, d)
      PROVE  Promise!Next
  <2>1. Accepts(t, d, TRUE)
    BY <1>7 DEF AttachFragment, CompleteEvent
  <2>2. d \in ChannelTags /\ pending[t].id \in DOMAIN OpenEvents
    BY <2>1, AcceptsHears
  <2>3. \/ Promise!Hear(IdsOf(Expired), pending[t].id, d)
        \/ Promise!HearLast(IdsOf(Expired), pending[t].id, d)
    BY <1>7, AttachFragmentHears, CompleteEventHears
  <2> QED
    BY <1>1, <2>2, <2>3 DEF Promise!Next
<1>8. CASE DrainRunning \/ DrainStopped
  BY <1>8, DrainTakes DEF Promise!Next
<1> QED
  BY <1>2, <1>3, <1>4, <1>5, <1>6, <1>7, <1>8 DEF Next

(***************************************************************************)
(* Whatever calls reach the Builder in whatever order, what it does with   *)
(* tags, deadlines and a heap full of stale entries is what an event       *)
(* assembly does: every event is opened once, hears each DU it asked at    *)
(* most once, is closed once and handed out once.                          *)
(***************************************************************************)
THEOREM BuilderImplementsAssembly == BuilderConstants /\ Spec => ImplementsAssembly
<1> SUFFICES ASSUME BuilderConstants PROVE Spec => Promise!Spec
  BY DEF ImplementsAssembly
<1>1. Init => Promise!Init
  <2> SUFFICES ASSUME Init PROVE Promise!Init
    OBVIOUS
  <2>1. DOMAIN pending = {} /\ DOMAIN completed = {} /\ stat.registered = 0 /\ drained = {}
    BY DEF Init
  <2>2. OpenEvents = <<>>
    BY <2>1 DEF OpenEvents, OpenIds
  <2>3. ReadyEvents = {}
    BY <2>1 DEF ReadyEvents
  <2> QED
    BY <2>1, <2>2, <2>3 DEF Promise!Init
<1>2. IInv /\ IInv' /\ [Next]_vars => [Promise!Next]_(Promise!vars)
  BY RefinesStep DEF IInv
<1>3. Spec => []IInv
  BY Invariance
<1> QED
  BY <1>1, <1>2, <1>3, PTL DEF Spec, Promise!Spec
=============================================================================
