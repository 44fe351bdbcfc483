------------------------------ MODULE GateProofs ------------------------------
(***************************************************************************)
(* Proofs about GateLogic, for every set of windows, DUs and stamps, every *)
(* deadline mode, capacity and retention; and about TriggerPipeline, which *)
(* composes it with the threads, for every number of batches.              *)
(***************************************************************************)
EXTENDS TriggerPipeline, TLAPS

-----------------------------------------------------------------------------
(***************************************************************************)
(* The inductive invariant.  The state properties are not enough for       *)
(* TimedOutStaysClosed: the guard must also be known to last as long as    *)
(* the retention of every window that timed out, although its entry is     *)
(* written by stragglers as well as by the pops.                           *)
(***************************************************************************)
GuardLasts ==
  \A tm \in DOMAIN closedAt :
    now < closedAt[tm] + GuardRetention =>
      tm \in DOMAIN guard /\ guard[tm] >= closedAt[tm] + GuardRetention

GInv == TypeOK /\ ReadyIsDue /\ OpenIsUnguarded /\ ShadowExact /\ GuardLasts

-----------------------------------------------------------------------------
(***************************************************************************)
(* The operators                                                           *)
(***************************************************************************)

\* A deadline is a time, and no later than the cap unless the mode is legacy.
LEMMA CloseAtProperties ==
  ASSUME GateConstants, NEW first \in Nat, NEW progress \in Nat
  PROVE  /\ CloseAt(first, progress) \in Nat
         /\ DeadlineMode # "LastArrivalLegacy" => CloseAt(first, progress) <= first + HardCap
  BY DEF GateConstants, CloseAt, HardCap, Smaller, Larger

\* Marking changes nothing but the shadow mark.
LEMMA MarkedProperties ==
  ASSUME NEW B, NEW last, NEW tm \in DOMAIN B, B[tm] \in Bucket
  PROVE  /\ Marked(B, last)[tm] \in Bucket
         /\ Marked(B, last)[tm].id = B[tm].id
         /\ Marked(B, last)[tm].hits = B[tm].hits
         /\ Marked(B, last)[tm].first = B[tm].first
         /\ Marked(B, last)[tm].close = B[tm].close
         /\ Marked(B, last)[tm].shadow = (B[tm].shadow \/ WouldComplete(tm, last))
<1>1. Marked(B, last)[tm] = [B[tm] EXCEPT !.shadow = B[tm].shadow \/ WouldComplete(tm, last)]
  BY DEF Marked
<1> QED
  BY <1>1 DEF Bucket

LEMMA MarkedDomain == \A B, last : DOMAIN Marked(B, last) = DOMAIN B
  BY DEF Marked

\* What a DU has been seen at only moves forward.
LEMMA ObservedProperties ==
  ASSUME GateConstants, TypeOK, NEW tm \in TmId, NEW d
  PROVE  /\ DOMAIN Observed(d, tm) \subseteq ExpectedDU
         /\ \A x \in DOMAIN Observed(d, tm) : Observed(d, tm)[x] \in TmId
         /\ \A w \in TmId : WouldComplete(w, lastTm) => WouldComplete(w, Observed(d, tm))
<1> DEFINE O == Observed(d, tm)
<1>0. /\ DOMAIN lastTm \subseteq ExpectedDU
      /\ \A x \in DOMAIN lastTm : lastTm[x] \in TmId
      /\ TmId \subseteq Nat
  BY DEF TypeOK, GateConstants
<1>1. CASE O = lastTm
  BY <1>0, <1>1
<1>2. CASE /\ d \in ExpectedDU /\ (d \in DOMAIN lastTm => tm > lastTm[d])
           /\ O = [x \in DOMAIN lastTm \cup {d} |-> IF x = d THEN tm ELSE lastTm[x]]
  <2> HIDE DEF O
  <2>1. DOMAIN O = DOMAIN lastTm \cup {d}
    BY <1>2
  <2>2. \A x \in DOMAIN O : O[x] = IF x = d THEN tm ELSE lastTm[x]
    BY <1>2
  <2>3. \A x \in DOMAIN O : O[x] \in TmId
    BY <1>0, <2>1, <2>2
  <2>4. \A x \in DOMAIN lastTm : O[x] >= lastTm[x]
    <3> SUFFICES ASSUME NEW x \in DOMAIN lastTm PROVE O[x] >= lastTm[x]
      OBVIOUS
    <3>1. lastTm[x] \in Nat /\ tm \in Nat
      BY <1>0
    <3>2. CASE x = d
      BY <1>2, <2>1, <2>2, <3>1, <3>2
    <3>3. CASE x # d
      BY <2>1, <2>2, <3>1, <3>3
    <3> QED
      BY <3>2, <3>3
  <2>5. ASSUME NEW w \in TmId, WouldComplete(w, lastTm)
        PROVE  WouldComplete(w, O)
    <3>1. \A x \in ExpectedDU : x \in DOMAIN O /\ lastTm[x] \in Nat /\ O[x] \in Nat
      BY <1>0, <2>1, <2>3, <2>5 DEF WouldComplete
    <3>2. \A x \in ExpectedDU : x \in DOMAIN lastTm /\ lastTm[x] > w
      BY <2>5, Zenon DEF WouldComplete
    <3>3. ASSUME NEW x \in ExpectedDU PROVE O[x] > w
      <4>1. O[x] >= lastTm[x] /\ lastTm[x] > w
        BY <2>4, <3>2
      <4>2. O[x] \in Nat /\ lastTm[x] \in Nat /\ w \in Nat
        BY <1>0, <3>1
      <4> QED
        BY <4>1, <4>2
    <3> QED
      BY <2>5, <3>1, <3>3, Zenon DEF WouldComplete
  <2>6. DOMAIN O \subseteq ExpectedDU
    BY <1>0, <1>2, <2>1
  <2> QED
    BY <2>3, <2>5, <2>6, Zenon DEF O
<1> QED
  BY <1>1, <1>2 DEF Observed

\* A bucket that has just opened, and one whose deadline was moved
LEMMA NewBucketProperties ==
  ASSUME GateConstants, TypeOK
  PROVE  NewBucket \in Bucket /\ NewBucket.shadow = FALSE /\ NewBucket.first = now
         /\ NewBucket.id = opened
  BY CloseAtProperties DEF NewBucket, Bucket, TypeOK

LEMMA MovedProperties ==
  ASSUME GateConstants, now \in Nat, NEW b \in Bucket, NEW progress
  PROVE  /\ Moved(b, progress) \in Bucket
         /\ Moved(b, progress).id = b.id
         /\ Moved(b, progress).hits = b.hits
         /\ Moved(b, progress).seen = b.seen
         /\ Moved(b, progress).first = b.first
         /\ Moved(b, progress).shadow = b.shadow
         /\ Moved(b, progress).close = b.close \/ Moved(b, progress).close = CloseAt(b.first, now)
<1>1. b.first \in Nat /\ CloseAt(b.first, now) \in Nat
  BY CloseAtProperties DEF Bucket
<1> QED
  BY <1>1 DEF Moved, Bucket

\* The hits of both ways in are dropped or admitted; nothing else.
Take(tm) == \E d \in DU, hits \in SUBSET Stamp, seen \in SUBSET Stamp :
              Accepting(tm) /\ Admit(tm, d, hits, seen)

LEMMA SeenAndHits ==
  ASSUME TypeOK, NEW tm \in TmId, NEW d \in DU
  PROVE  SeenBy(tm, d) \subseteq Stamp /\ HitsOf(tm, d) \subseteq Stamp
  BY DEF TypeOK, Bucket, SeenBy, HitsOf

LEMMA SetT2HitsTakes ==
  ASSUME TypeOK, NEW tm \in TmId, NEW d \in DU, NEW batch \in SUBSET Stamp,
         SetT2Hits(tm, d, batch)
  PROVE  LateAtGuard(tm) \/ LateAtBucket(tm) \/ Take(tm)
<1>1. SeenBy(tm, d) \cup batch \in SUBSET Stamp
  BY SeenAndHits
<1> QED
  BY <1>1, Zenon DEF SetT2Hits, Take

LEMMA AddT2TimestampTakes ==
  ASSUME TypeOK, NEW tm \in TmId, NEW d \in DU, NEW s \in Stamp,
         AddT2Timestamp(tm, d, s)
  PROVE  LateAtGuard(tm) \/ LateAtBucket(tm) \/ Take(tm)
<1> DEFINE hits == IF s \in SeenBy(tm, d) THEN HitsOf(tm, d) ELSE HitsOf(tm, d) \cup {s}
<1>1. hits \in SUBSET Stamp /\ SeenBy(tm, d) \cup {s} \in SUBSET Stamp
  BY SeenAndHits
<1> HIDE DEF hits
<1>2. LateAtGuard(tm) \/ LateAtBucket(tm)
        \/ (Accepting(tm) /\ Admit(tm, d, hits, SeenBy(tm, d) \cup {s}))
  BY Zenon DEF AddT2Timestamp, hits
<1> QED
  BY <1>1, <1>2, Zenon DEF Take

\* What a step of the gate can be
LEMMA NextCases ==
  ASSUME TypeOK, Next
  PROVE  \/ Tick \/ PollReady \/ PopAllReady
         \/ \E tm \in TmId : LateAtGuard(tm) \/ LateAtBucket(tm) \/ Take(tm)
         \/ \E tm \in DOMAIN pending : ForcePop(tm)
<1>1. CASE \E tm \in TmId, d \in DU, batch \in (SUBSET Stamp) \ {{}} : SetT2Hits(tm, d, batch)
  <2>1. PICK tm \in TmId, d \in DU, batch \in (SUBSET Stamp) \ {{}} : SetT2Hits(tm, d, batch)
    BY <1>1
  <2>2. LateAtGuard(tm) \/ LateAtBucket(tm) \/ Take(tm)
    BY <2>1, SetT2HitsTakes
  <2> QED
    BY <2>2
<1>2. CASE \E tm \in TmId, d \in DU, s \in Stamp : AddT2Timestamp(tm, d, s)
  <2>1. PICK tm \in TmId, d \in DU, s \in Stamp : AddT2Timestamp(tm, d, s)
    BY <1>2
  <2>2. LateAtGuard(tm) \/ LateAtBucket(tm) \/ Take(tm)
    BY <2>1, AddT2TimestampTakes
  <2> QED
    BY <2>2
<1> QED
  BY <1>1, <1>2, Zenon DEF Next

-----------------------------------------------------------------------------
(***************************************************************************)
(* What admitting hits does to the buckets                                 *)
(***************************************************************************)
LEMMA AdmitBuckets ==
  ASSUME GateConstants, TypeOK, NEW tm \in TmId, NEW d \in DU,
         NEW hits \in SUBSET Stamp, NEW seen \in SUBSET Stamp,
         Admit(tm, d, hits, seen)
  PROVE  /\ DOMAIN pending' = DOMAIN pending \cup {tm}
         /\ \A w \in DOMAIN pending' : pending'[w] \in Bucket
         /\ \A w \in DOMAIN pending \ {tm} :
              /\ pending'[w].id = pending[w].id
              /\ pending'[w].hits = pending[w].hits
              /\ pending'[w].first = pending[w].first
              /\ pending'[w].close = pending[w].close
              /\ pending'[w].shadow = (pending[w].shadow \/ WouldComplete(w, lastTm'))
         /\ pending'[tm].id = IF tm \in DOMAIN pending THEN pending[tm].id ELSE opened
         /\ pending'[tm].first = IF tm \in DOMAIN pending THEN pending[tm].first ELSE now
         /\ \/ pending'[tm].close = CloseAt(pending'[tm].first, now)
            \/ tm \in DOMAIN pending /\ pending'[tm].close = pending[tm].close
         /\ pending'[tm].shadow =
              ((tm \in DOMAIN pending /\ pending[tm].shadow) \/ WouldComplete(tm, lastTm'))
<1> DEFINE isNew == tm \notin DOMAIN pending
           old   == IF isNew THEN NewBucket ELSE pending[tm]
           m     == Moved(old, seen # old.seen[d])
           b     == [m EXCEPT !.hits[d] = hits, !.seen[d] = seen]
           last  == Observed(d, tm)
           raw   == [w \in DOMAIN pending \cup {tm} |-> IF w = tm THEN b ELSE pending[w]]
<1>1. pending' = Marked(raw, last) /\ lastTm' = last
  BY Zenon DEF Admit
<1>2. old \in Bucket /\ now \in Nat
  BY NewBucketProperties DEF TypeOK
<1>3. /\ old.first = (IF isNew THEN now ELSE pending[tm].first)
      /\ old.id = (IF isNew THEN opened ELSE pending[tm].id)
  BY NewBucketProperties
<1>4. old.shadow = (tm \in DOMAIN pending /\ pending[tm].shadow)
  BY NewBucketProperties DEF TypeOK, Bucket
<1>5. isNew => old.close = CloseAt(old.first, now)
  BY DEF NewBucket
<1>6. ~isNew => old.close = pending[tm].close
  OBVIOUS
<1> HIDE DEF old
<1>7. /\ m \in Bucket /\ m.id = old.id /\ m.first = old.first /\ m.shadow = old.shadow
      /\ m.close = old.close \/ m.close = CloseAt(old.first, now)
  BY <1>2, MovedProperties
<1> HIDE DEF m
<1>8. b \in Bucket /\ b.id = m.id /\ b.first = m.first /\ b.shadow = m.shadow /\ b.close = m.close
  BY <1>7 DEF Bucket
<1> HIDE DEF b, last
<1>9. DOMAIN raw = DOMAIN pending \cup {tm} /\ raw[tm] = b
      /\ \A w \in DOMAIN pending \ {tm} : raw[w] = pending[w]
  OBVIOUS
<1>10. \A w \in DOMAIN raw : raw[w] \in Bucket
  BY <1>8 DEF TypeOK
<1> HIDE DEF raw
<1>11. DOMAIN pending' = DOMAIN raw
  BY <1>1, MarkedDomain
<1>12. \A w \in DOMAIN raw :
         /\ pending'[w] \in Bucket
         /\ pending'[w].id = raw[w].id
         /\ pending'[w].hits = raw[w].hits
         /\ pending'[w].first = raw[w].first
         /\ pending'[w].close = raw[w].close
         /\ pending'[w].shadow = (raw[w].shadow \/ WouldComplete(w, lastTm'))
  BY <1>1, <1>10, MarkedProperties
<1>13. /\ pending'[tm].first = old.first
       /\ pending'[tm].id = old.id
       /\ pending'[tm].close = m.close
       /\ pending'[tm].shadow = (old.shadow \/ WouldComplete(tm, lastTm'))
  BY <1>7, <1>8, <1>9, <1>12
<1>14. /\ pending'[tm].first = IF tm \in DOMAIN pending THEN pending[tm].first ELSE now
       /\ pending'[tm].id = IF tm \in DOMAIN pending THEN pending[tm].id ELSE opened
  BY <1>3, <1>13
<1>15. \/ pending'[tm].close = CloseAt(pending'[tm].first, now)
       \/ tm \in DOMAIN pending /\ pending'[tm].close = pending[tm].close
  BY <1>5, <1>6, <1>7, <1>13
<1>16. pending'[tm].shadow =
         ((tm \in DOMAIN pending /\ pending[tm].shadow) \/ WouldComplete(tm, lastTm'))
  BY <1>4, <1>13
<1>17. \A w \in DOMAIN pending \ {tm} :
         /\ pending'[w].id = pending[w].id
         /\ pending'[w].hits = pending[w].hits
         /\ pending'[w].first = pending[w].first
         /\ pending'[w].close = pending[w].close
         /\ pending'[w].shadow = (pending[w].shadow \/ WouldComplete(w, lastTm'))
  BY <1>9, <1>12
<1>18. \A w \in DOMAIN pending' : pending'[w] \in Bucket
  BY <1>11, <1>12
<1> QED
  BY <1>9, <1>11, <1>14, <1>15, <1>16, <1>17, <1>18

\* The marks it sets
LEMMA AdmitMarks ==
  ASSUME GateConstants, TypeOK, NEW tm \in TmId, NEW d \in DU,
         NEW hits \in SUBSET Stamp, NEW seen \in SUBSET Stamp,
         Admit(tm, d, hits, seen)
  PROVE  \E over \in SUBSET DOMAIN pending' :
           /\ forced' = forced \cup over
           /\ \A w \in ready' : w \in ready \cup over \/ (w = tm /\ now >= pending'[tm].close)
           /\ ready \cup over \subseteq ready'
<1> DEFINE isNew == tm \notin DOMAIN pending
           old   == IF isNew THEN NewBucket ELSE pending[tm]
           b     == [Moved(old, seen # old.seen[d]) EXCEPT !.hits[d] = hits, !.seen[d] = seen]
           last  == Observed(d, tm)
           raw   == [w \in DOMAIN pending \cup {tm} |-> IF w = tm THEN b ELSE pending[w]]
           all   == Marked(raw, last)
<1>1. /\ pending' = all
      /\ \E over \in Overflow(all) :
           /\ ready' = ready \cup {w \in {tm} : IsReady(b)} \cup over
           /\ forced' = forced \cup over
  BY Zenon DEF Admit
<1>2. all[tm].close = b.close
  <2>1. old \in Bucket /\ now \in Nat
    BY NewBucketProperties DEF TypeOK
  <2>2. Moved(old, seen # old.seen[d]) \in Bucket
    BY <2>1, MovedProperties
  <2>3. b \in Bucket
    BY <2>2 DEF Bucket
  <2> HIDE DEF b
  <2>4. tm \in DOMAIN raw /\ raw[tm] = b
    OBVIOUS
  <2> QED
    BY <2>3, <2>4, MarkedProperties
<1> HIDE DEF all, b
<1>3. PICK over \in Overflow(all) :
        /\ ready' = ready \cup {w \in {tm} : IsReady(b)} \cup over
        /\ forced' = forced \cup over
  BY <1>1
<1>4. over \subseteq DOMAIN pending'
  BY <1>1, <1>3 DEF Overflow, Oldest
<1>5. \A w \in ready' : w \in ready \cup over \/ (w = tm /\ now >= pending'[tm].close)
  BY <1>1, <1>2, <1>3 DEF IsReady
<1> QED
  BY <1>3, <1>4, <1>5

-----------------------------------------------------------------------------
(***************************************************************************)
(* GInv holds initially and is kept by every kind of step                  *)
(***************************************************************************)
LEMMA GateInit == GateConstants /\ Init => GInv
  BY DEF GateConstants, Init, GInv, TypeOK, ReadyIsDue, OpenIsUnguarded, ShadowExact,
         GuardLasts, TimedOut, Guarded, Cleaned

LEMMA GateStutter ==
  ASSUME GInv, UNCHANGED gateVars
  PROVE  GInv'
  BY Zenon DEF gateVars, GInv, TypeOK, ReadyIsDue, OpenIsUnguarded, ShadowExact, GuardLasts,
         TimedOut, IsReady, Guarded, Cleaned

\* What a clean-up of the guard keeps
LEMMA CleanedProperties ==
  /\ DOMAIN Cleaned(guard) = {w \in DOMAIN guard : guard[w] > now}
  /\ \A w \in DOMAIN Cleaned(guard) : Cleaned(guard)[w] = guard[w]
  BY DEF Cleaned

LEMMA TickStep ==
  ASSUME GateConstants, GInv, Tick
  PROVE  GInv'
<1>1. /\ now \in Nat /\ now' = now + 1
      /\ UNCHANGED <<pending, ready, forced, guard, lastTm, opened, closedAt>>
  BY DEF Tick, GInv, TypeOK
<1>2. TypeOK'
  BY <1>1 DEF GInv, TypeOK
<1>3. TimedOut \subseteq TimedOut'
  BY <1>1 DEF GInv, TypeOK, TimedOut, IsReady, Bucket
<1>4. ReadyIsDue'
  BY <1>1, <1>3 DEF GInv, ReadyIsDue
<1>5. \A tm \in TmId : Guarded(tm)' => Guarded(tm)
  BY <1>1 DEF GInv, TypeOK, Guarded, Cleaned
<1>6. OpenIsUnguarded'
  BY <1>1, <1>3, <1>5 DEF GInv, TypeOK, OpenIsUnguarded
<1>7. ShadowExact'
  BY <1>1 DEF GInv, ShadowExact
<1>8. GuardLasts'
  BY <1>1 DEF GInv, TypeOK, GuardLasts, GateConstants
<1> QED
  BY <1>2, <1>4, <1>6, <1>7, <1>8 DEF GInv

LEMMA LateAtGuardStep ==
  ASSUME GateConstants, GInv, NEW tm \in TmId, LateAtGuard(tm)
  PROVE  GInv'
<1>1. /\ guard' = Cleaned(guard)
      /\ UNCHANGED <<now, pending, ready, forced, lastTm, opened, closedAt>>
  BY DEF LateAtGuard
<1>2. TypeOK'
  BY <1>1, CleanedProperties DEF GInv, TypeOK
<1>3. ReadyIsDue' /\ ShadowExact'
  BY <1>1 DEF GInv, ReadyIsDue, ShadowExact, TimedOut, IsReady
<1>4. OpenIsUnguarded'
  BY <1>1 DEF GInv, OpenIsUnguarded, TimedOut, IsReady, Guarded, Cleaned
<1>5. GuardLasts'
  BY <1>1, CleanedProperties DEF GInv, TypeOK, GuardLasts, GateConstants
<1> QED
  BY <1>2, <1>3, <1>4, <1>5 DEF GInv

LEMMA LateAtBucketStep ==
  ASSUME GateConstants, GInv, NEW tm \in TmId, LateAtBucket(tm)
  PROVE  GInv'
<1>1. /\ ~Guarded(tm) /\ tm \in TimedOut
      /\ ready' = ready \cup {tm}
      /\ UNCHANGED <<now, pending, forced, lastTm, opened, closedAt>>
  BY DEF LateAtBucket
<1>2. /\ tm \in DOMAIN pending /\ pending[tm] \in Bucket
      /\ GuardRetention \in Nat /\ now \in Nat
  BY <1>1 DEF GInv, TypeOK, TimedOut, GateConstants
<1>3. /\ DOMAIN guard' = {w \in DOMAIN guard : guard[w] > now} \cup {tm}
      /\ guard'[tm] = pending[tm].close + GuardRetention
      /\ \A w \in DOMAIN guard' \ {tm} : guard'[w] = guard[w]
  BY CleanedProperties DEF LateAtBucket, Remember
<1>4. TypeOK'
  <2>1. pending[tm].close + GuardRetention \in Nat
    BY <1>2 DEF Bucket
  <2>2. DOMAIN guard' \subseteq TmId /\ \A w \in DOMAIN guard' : guard'[w] \in Nat
    BY <1>3, <2>1 DEF GInv, TypeOK
  <2>3. now' \in Nat /\ ready' \subseteq TmId /\ forced' \subseteq TmId /\ opened' \in Nat
    BY <1>1 DEF GInv, TypeOK
  <2> QED
    BY <1>1, <2>2, <2>3, Zenon DEF GInv, TypeOK
<1>5. ReadyIsDue' /\ ShadowExact'
  BY <1>1, <1>2 DEF GInv, ReadyIsDue, ShadowExact, TimedOut, IsReady
<1>6. TimedOut' = TimedOut
  BY <1>1 DEF TimedOut, IsReady
<1>7. OpenIsUnguarded'
  <2>1. \A w \in DOMAIN pending : w # tm => (Guarded(w)' => Guarded(w))
    BY <1>1, <1>3 DEF Guarded, Cleaned
  <2> QED
    BY <1>1, <1>6, <2>1 DEF GInv, OpenIsUnguarded
<1>8. GuardLasts'
  \* tm is not guarded, so its retention has passed
  <2>1. ~(tm \in DOMAIN guard /\ guard[tm] > now)
    BY <1>1 DEF Guarded, Cleaned
  <2>2. \A w \in DOMAIN closedAt : closedAt[w] \in Nat
    BY DEF GInv, TypeOK
  <2>3. \A w \in DOMAIN guard : guard[w] \in Nat
    BY DEF GInv, TypeOK
  <2> SUFFICES ASSUME NEW w \in DOMAIN closedAt, now < closedAt[w] + GuardRetention
               PROVE  w \in DOMAIN guard' /\ guard'[w] >= closedAt[w] + GuardRetention
    BY <1>1 DEF GuardLasts
  <2>4. w \in DOMAIN guard /\ guard[w] >= closedAt[w] + GuardRetention
    BY DEF GInv, GuardLasts
  <2>5. guard[w] > now
    BY <1>2, <2>2, <2>3, <2>4
  <2> QED
    BY <1>3, <2>1, <2>4, <2>5
<1> QED
  BY <1>4, <1>5, <1>7, <1>8 DEF GInv

LEMMA TakeStep ==
  ASSUME GateConstants, GInv, NEW tm \in TmId, Take(tm)
  PROVE  GInv'
<1>1. PICK d \in DU, hits \in SUBSET Stamp, seen \in SUBSET Stamp :
        Accepting(tm) /\ Admit(tm, d, hits, seen)
  BY DEF Take
<1>2. TypeOK /\ ~Guarded(tm) /\ tm \notin TimedOut
  BY <1>1 DEF GInv, Accepting
<1>3. /\ DOMAIN pending' = DOMAIN pending \cup {tm}
      /\ \A w \in DOMAIN pending' : pending'[w] \in Bucket
      /\ \A w \in DOMAIN pending \ {tm} :
           /\ pending'[w].close = pending[w].close
           /\ pending'[w].shadow = (pending[w].shadow \/ WouldComplete(w, lastTm'))
      /\ pending'[tm].shadow =
           ((tm \in DOMAIN pending /\ pending[tm].shadow) \/ WouldComplete(tm, lastTm'))
  BY <1>1, <1>2, AdmitBuckets
<1>4. PICK over \in SUBSET DOMAIN pending' :
        /\ forced' = forced \cup over
        /\ \A w \in ready' : w \in ready \cup over \/ (w = tm /\ now >= pending'[tm].close)
        /\ ready \cup over \subseteq ready'
  BY <1>1, <1>2, AdmitMarks
<1>5. /\ guard' = Cleaned(guard) /\ UNCHANGED <<now, closedAt>>
      /\ opened' = opened + 1 \/ opened' = opened
  BY <1>1, Zenon DEF Admit
<1>6. /\ DOMAIN lastTm' \subseteq ExpectedDU
      /\ \A x \in DOMAIN lastTm' : lastTm'[x] \in TmId
      /\ \A w \in TmId : WouldComplete(w, lastTm) => WouldComplete(w, lastTm')
  <2>1. lastTm' = Observed(d, tm)
    BY <1>1, Zenon DEF Admit
  <2> QED
    BY <1>2, <2>1, ObservedProperties
<1>7. TypeOK'
  <2>1. DOMAIN guard' \subseteq TmId /\ \A w \in DOMAIN guard' : guard'[w] \in Nat
    BY <1>2, <1>5, CleanedProperties DEF TypeOK
  <2>2. DOMAIN pending' \subseteq TmId
    BY <1>2, <1>3 DEF TypeOK
  <2>3. ready' \subseteq TmId /\ forced' \subseteq TmId
    BY <1>2, <1>4, <2>2 DEF TypeOK
  <2>4. opened' \in Nat /\ now' \in Nat
    BY <1>2, <1>5 DEF TypeOK
  <2>5. DOMAIN closedAt' \subseteq TmId /\ \A w \in DOMAIN closedAt' : closedAt'[w] \in Nat
    BY <1>2, <1>5 DEF TypeOK
  <2> QED
    BY <1>3, <1>6, <2>1, <2>2, <2>3, <2>4, <2>5, Zenon DEF TypeOK
<1>8. /\ \A w \in TimedOut : w \in TimedOut'
      /\ now >= pending'[tm].close => tm \in TimedOut'
  BY <1>2, <1>3, <1>5 DEF TimedOut, IsReady
<1>9. ReadyIsDue'
  <2>1. ready \subseteq DOMAIN pending /\ forced \subseteq ready
        /\ ready \subseteq forced \cup TimedOut
    BY DEF GInv, ReadyIsDue
  <2> QED
    BY <1>3, <1>4, <1>8, <2>1 DEF ReadyIsDue
<1>10. OpenIsUnguarded'
  <2>1. \A w : Guarded(w)' => Guarded(w)
    BY <1>5 DEF Guarded, Cleaned
  <2> QED
    BY <1>2, <1>3, <1>8, <2>1 DEF GInv, OpenIsUnguarded
<1>11. ShadowExact'
  <2>1. ASSUME NEW w \in DOMAIN pending'
        PROVE  pending'[w].shadow = WouldComplete(w, lastTm')
    <3>1. w \in TmId /\ (w \in DOMAIN pending => (pending[w].shadow <=> WouldComplete(w, lastTm)))
      BY <1>2, <1>3 DEF GInv, TypeOK, ShadowExact
    <3>2. w \in DOMAIN pending /\ pending[w].shadow => WouldComplete(w, lastTm')
      BY <1>6, <3>1
    <3>3. WouldComplete(w, lastTm') \in BOOLEAN
      BY DEF WouldComplete
    <3>4. CASE w = tm
      BY <1>3, <3>2, <3>3, <3>4
    <3>5. CASE w # tm
      BY <1>3, <2>1, <3>2, <3>3, <3>5
    <3> QED
      BY <3>4, <3>5
  <2> QED
    BY <2>1 DEF ShadowExact
<1>12. GuardLasts'
  BY <1>2, <1>5, CleanedProperties DEF GInv, TypeOK, GuardLasts, GateConstants
<1> QED
  BY <1>7, <1>9, <1>10, <1>11, <1>12 DEF GInv

\* Marking all buckets against what is known anyway changes none of them.
LEMMA MarkedPending ==
  ASSUME TypeOK
  PROVE  /\ DOMAIN Marked(pending, lastTm) = DOMAIN pending
         /\ \A w \in DOMAIN pending :
              /\ Marked(pending, lastTm)[w] \in Bucket
              /\ Marked(pending, lastTm)[w].id = pending[w].id
              /\ Marked(pending, lastTm)[w].hits = pending[w].hits
              /\ Marked(pending, lastTm)[w].first = pending[w].first
              /\ Marked(pending, lastTm)[w].close = pending[w].close
              /\ Marked(pending, lastTm)[w].shadow =
                   (pending[w].shadow \/ WouldComplete(w, lastTm))
  BY MarkedDomain, MarkedProperties DEF TypeOK

LEMMA PollReadyStep ==
  ASSUME GateConstants, GInv, PollReady
  PROVE  GInv'
<1>1. /\ pending' = Marked(pending, lastTm) /\ ready' = ready \cup TimedOut
      /\ guard' = Cleaned(guard)
      /\ UNCHANGED <<now, forced, lastTm, opened, closedAt>>
  BY DEF PollReady
<1>2. TypeOK
  BY DEF GInv
<1>3. /\ DOMAIN pending' = DOMAIN pending
      /\ \A w \in DOMAIN pending :
           /\ pending'[w] \in Bucket
           /\ pending'[w].close = pending[w].close
           /\ pending'[w].shadow = (pending[w].shadow \/ WouldComplete(w, lastTm))
  BY <1>1, <1>2, MarkedPending
<1>4. TimedOut \subseteq DOMAIN pending /\ TimedOut' = TimedOut
  BY <1>1, <1>3 DEF TimedOut, IsReady
<1>5. TypeOK'
  <2>1. DOMAIN guard' \subseteq TmId /\ \A w \in DOMAIN guard' : guard'[w] \in Nat
    BY <1>1, <1>2, CleanedProperties DEF TypeOK
  <2>2. ready' \subseteq TmId /\ DOMAIN pending' \subseteq TmId
    BY <1>1, <1>2, <1>3, <1>4 DEF TypeOK
  <2> QED
    BY <1>1, <1>2, <1>3, <2>1, <2>2, Zenon DEF TypeOK
<1>6. ReadyIsDue'
  BY <1>1, <1>3, <1>4 DEF GInv, ReadyIsDue
<1>7. OpenIsUnguarded'
  <2>1. \A w : Guarded(w)' => Guarded(w)
    BY <1>1 DEF Guarded, Cleaned
  <2> QED
    BY <1>3, <1>4, <2>1 DEF GInv, OpenIsUnguarded
<1>8. ShadowExact'
  <2>1. \A w \in DOMAIN pending : pending[w].shadow <=> WouldComplete(w, lastTm)
    BY DEF GInv, ShadowExact
  <2> QED
    BY <1>1, <1>3, <2>1, Zenon DEF ShadowExact
<1>9. GuardLasts'
  BY <1>1, <1>2, CleanedProperties DEF GInv, TypeOK, GuardLasts, GateConstants
<1> QED
  BY <1>5, <1>6, <1>7, <1>8, <1>9 DEF GInv

\* What both ways of popping do to the guard and the history: windows W leave,
\* those past their deadline are remembered.
LEMMA PopGuard ==
  ASSUME GateConstants, GInv, NEW W \in SUBSET DOMAIN pending,
         guard' = Remember(W \cap TimedOut) \/ guard' = Cleaned(Remember(W \cap TimedOut)),
         closedAt' = TimeoutsSeen(W \cap TimedOut),
         DOMAIN pending' = DOMAIN pending \ W,
         \A w \in DOMAIN pending' : pending'[w].close = pending[w].close,
         now' = now
  PROVE  /\ DOMAIN guard' \subseteq TmId /\ \A w \in DOMAIN guard' : guard'[w] \in Nat
         /\ DOMAIN closedAt' \subseteq TmId
         /\ \A w \in DOMAIN closedAt' : closedAt'[w] \in Nat
         /\ TimedOut' = TimedOut \ W
         /\ OpenIsUnguarded' /\ GuardLasts'
<1> DEFINE late == W \cap TimedOut
           R    == Remember(late)
<1>1. /\ now \in Nat /\ GuardRetention \in Nat
      /\ DOMAIN pending \subseteq TmId
      /\ \A w \in DOMAIN pending : pending[w].close \in Nat
      /\ DOMAIN guard \subseteq TmId /\ \A w \in DOMAIN guard : guard[w] \in Nat
      /\ DOMAIN closedAt \subseteq TmId /\ \A w \in DOMAIN closedAt : closedAt[w] \in Nat
  BY DEF GInv, TypeOK, Bucket, GateConstants
<1>2. /\ DOMAIN R = DOMAIN guard \cup late
      /\ \A w \in late : R[w] = pending[w].close + GuardRetention
      /\ \A w \in DOMAIN guard \ late : R[w] = guard[w]
  BY DEF Remember
<1>3. \A w \in late : /\ w \in DOMAIN pending /\ w \in TmId
                      /\ pending[w].close \in Nat
                      /\ pending[w].close + GuardRetention \in Nat
  BY <1>1
<1>4. /\ DOMAIN closedAt' = DOMAIN closedAt \cup late
      /\ \A w \in late : closedAt'[w] = pending[w].close
      /\ \A w \in DOMAIN closedAt \ late : closedAt'[w] = closedAt[w]
  BY DEF TimeoutsSeen
<1> HIDE DEF late, R
<1>5. \A w \in DOMAIN R : w \in TmId /\ R[w] \in Nat
  BY <1>1, <1>2, <1>3
<1>6. /\ DOMAIN guard' \subseteq DOMAIN R
      /\ \A w \in DOMAIN guard' : guard'[w] = R[w]
      /\ \A w \in DOMAIN R : R[w] > now => w \in DOMAIN guard'
  BY DEF R, Cleaned, late
<1>7. TimedOut' = TimedOut \ W
  BY DEF TimedOut, IsReady
<1>8. OpenIsUnguarded'
  <2>1. ASSUME NEW w \in DOMAIN pending', Guarded(w)'
        PROVE  w \in TimedOut'
    <3>1. w \in DOMAIN pending /\ w \notin W
      OBVIOUS
    <3>2. w \in DOMAIN guard' /\ guard'[w] > now
      BY <2>1 DEF Guarded, Cleaned
    <3>3. w \in DOMAIN guard /\ guard[w] > now
      BY <1>2, <1>6, <3>1, <3>2 DEF late
    <3>4. Guarded(w)
      BY <3>3 DEF Guarded, Cleaned
    <3> QED
      BY <1>7, <3>1, <3>4 DEF GInv, OpenIsUnguarded
  <2> QED
    BY <2>1 DEF OpenIsUnguarded
<1>9. GuardLasts'
  <2>1. ASSUME NEW w \in DOMAIN closedAt', now < closedAt'[w] + GuardRetention
        PROVE  w \in DOMAIN guard' /\ guard'[w] >= closedAt'[w] + GuardRetention
    <3>1. w \in DOMAIN R /\ R[w] >= closedAt'[w] + GuardRetention
      <4>1. CASE w \in late
        <5>1. /\ R[w] = pending[w].close + GuardRetention
              /\ closedAt'[w] = pending[w].close
          BY <1>2, <1>4, <4>1
        <5>2. pending[w].close + GuardRetention \in Nat
          BY <1>3, <4>1
        <5> QED
          BY <1>2, <4>1, <5>1, <5>2
      <4>2. CASE w \notin late
        BY <1>2, <1>4, <2>1, <4>2 DEF GInv, GuardLasts
      <4> QED
        BY <4>1, <4>2
    <3>2. closedAt'[w] \in Nat /\ R[w] \in Nat
      BY <1>1, <1>3, <1>4, <1>5, <3>1
    <3> QED
      BY <1>1, <1>6, <2>1, <3>1, <3>2
  <2> QED
    BY <2>1 DEF GuardLasts
<1>10. DOMAIN closedAt' \subseteq TmId /\ \A w \in DOMAIN closedAt' : closedAt'[w] \in Nat
  BY <1>1, <1>3, <1>4
<1>11. DOMAIN guard' \subseteq TmId /\ \A w \in DOMAIN guard' : guard'[w] \in Nat
  BY <1>5, <1>6
<1> QED
  BY <1>7, <1>8, <1>9, <1>10, <1>11

LEMMA PopAllReadyStep ==
  ASSUME GateConstants, GInv, PopAllReady
  PROVE  GInv'
<1>1. /\ pending' = [w \in DOMAIN pending \ Popped |-> Marked(pending, lastTm)[w]]
      /\ forced' = forced \ (ready \cup TimedOut) /\ ready' = {}
      /\ guard' = Cleaned(Remember(Popped \cap TimedOut))
      /\ closedAt' = TimeoutsSeen(Popped \cap TimedOut)
      /\ UNCHANGED <<now, lastTm, opened>>
  BY Zenon DEF PopAllReady
<1>2. TypeOK /\ Popped \in SUBSET DOMAIN pending
  BY DEF GInv, Popped
<1>3. /\ DOMAIN pending' = DOMAIN pending \ Popped
      /\ \A w \in DOMAIN pending' :
           /\ pending'[w] \in Bucket
           /\ pending'[w].close = pending[w].close
           /\ pending'[w].shadow = (pending[w].shadow \/ WouldComplete(w, lastTm))
  BY <1>1, <1>2, MarkedPending
<1>4. /\ DOMAIN guard' \subseteq TmId /\ \A w \in DOMAIN guard' : guard'[w] \in Nat
      /\ DOMAIN closedAt' \subseteq TmId
      /\ \A w \in DOMAIN closedAt' : closedAt'[w] \in Nat
      /\ OpenIsUnguarded' /\ GuardLasts'
  BY <1>1, <1>2, <1>3, PopGuard
<1>5. ready' = {} /\ forced' = {}
  BY <1>1 DEF GInv, ReadyIsDue
<1>6. TypeOK'
  <2>1. ready' \subseteq TmId /\ forced' \subseteq TmId /\ DOMAIN pending' \subseteq TmId
    BY <1>2, <1>3, <1>5 DEF TypeOK
  <2> QED
    BY <1>1, <1>2, <1>3, <1>4, <2>1, Zenon DEF TypeOK
<1>7. ReadyIsDue'
  BY <1>5 DEF ReadyIsDue
<1>8. ShadowExact'
  <2>1. \A w \in DOMAIN pending : pending[w].shadow <=> WouldComplete(w, lastTm)
    BY DEF GInv, ShadowExact
  <2>2. \A w \in DOMAIN pending' : w \in DOMAIN pending
    BY <1>3
  <2> QED
    BY <1>1, <1>3, <2>1, <2>2, Zenon DEF ShadowExact
<1> QED
  BY <1>4, <1>6, <1>7, <1>8 DEF GInv

LEMMA ForcePopStep ==
  ASSUME GateConstants, GInv, NEW tm \in DOMAIN pending, ForcePop(tm)
  PROVE  GInv'
<1>1. /\ pending' = [w \in DOMAIN pending \ {tm} |-> pending[w]]
      /\ ready' = ready \ {tm} /\ forced' = forced \ {tm}
      /\ guard' = Remember({tm} \cap TimedOut)
      /\ closedAt' = TimeoutsSeen({tm} \cap TimedOut)
      /\ UNCHANGED <<now, lastTm, opened>>
  BY Zenon DEF ForcePop
<1>2. TypeOK /\ {tm} \in SUBSET DOMAIN pending
  BY DEF GInv
<1>3. /\ DOMAIN pending' = DOMAIN pending \ {tm}
      /\ \A w \in DOMAIN pending' : pending'[w] = pending[w]
  BY <1>1
<1>4. /\ DOMAIN guard' \subseteq TmId /\ \A w \in DOMAIN guard' : guard'[w] \in Nat
      /\ DOMAIN closedAt' \subseteq TmId
      /\ \A w \in DOMAIN closedAt' : closedAt'[w] \in Nat
      /\ TimedOut' = TimedOut \ {tm}
      /\ OpenIsUnguarded' /\ GuardLasts'
  BY <1>1, <1>2, <1>3, PopGuard
<1>5. TypeOK'
  <2>1. ready' \subseteq TmId /\ forced' \subseteq TmId /\ DOMAIN pending' \subseteq TmId
        /\ \A w \in DOMAIN pending' : pending'[w] \in Bucket
    BY <1>1, <1>2, <1>3 DEF TypeOK
  <2> QED
    BY <1>1, <1>2, <1>4, <2>1, Zenon DEF TypeOK
<1>6. ReadyIsDue'
  BY <1>1, <1>3, <1>4 DEF GInv, ReadyIsDue
<1>7. ShadowExact'
  BY <1>1, <1>3 DEF GInv, ShadowExact
<1> QED
  BY <1>4, <1>5, <1>6, <1>7 DEF GInv

-----------------------------------------------------------------------------
(***************************************************************************)
(* Theorems                                                                *)
(***************************************************************************)
LEMMA GateStep ==
  ASSUME GateConstants, GInv, [Next]_gateVars
  PROVE  GInv'
<1>1. CASE Next
  <2>1. TypeOK
    BY DEF GInv
  <2>2. CASE Tick
    BY <2>2, TickStep
  <2>3. CASE PollReady
    BY <2>3, PollReadyStep
  <2>4. CASE PopAllReady
    BY <2>4, PopAllReadyStep
  <2>5. CASE \E tm \in TmId : LateAtGuard(tm) \/ LateAtBucket(tm) \/ Take(tm)
    BY <2>5, LateAtGuardStep, LateAtBucketStep, TakeStep
  <2>6. CASE \E tm \in DOMAIN pending : ForcePop(tm)
    BY <2>6, ForcePopStep
  <2> QED
    BY <1>1, <2>1, <2>2, <2>3, <2>4, <2>5, <2>6, NextCases
<1> QED
  BY <1>1, GateStutter

LEMMA GateInvariance == GateConstants /\ Spec => []GInv
<1> SUFFICES ASSUME GateConstants PROVE Spec => []GInv
  OBVIOUS
<1>1. Init => GInv
  BY GateInit
<1>2. GInv /\ [Next]_gateVars => GInv'
  BY GateStep
<1> QED
  BY <1>1, <1>2, PTL DEF Spec

(***************************************************************************)
(* The gate's variables keep their types, in every mode.                   *)
(***************************************************************************)
THEOREM GateTypeCorrect == GateConstants /\ Spec => []TypeOK
<1>1. GInv => TypeOK
  BY DEF GInv
<1> QED
  BY <1>1, GateInvariance, PTL

(***************************************************************************)
(* A mark in ready_tm_ids_ is never stale: pollReady never reports a       *)
(* window popAllReadySorted would have to skip.                            *)
(***************************************************************************)
THEOREM MarksAreDue == GateConstants /\ Spec => []ReadyIsDue
<1>1. GInv => ReadyIsDue
  BY DEF GInv
<1> QED
  BY <1>1, GateInvariance, PTL

(***************************************************************************)
(* A window that still takes hits is not guarded.                          *)
(***************************************************************************)
THEOREM OpenWindowsTakeHits == GateConstants /\ Spec => []OpenIsUnguarded
<1>1. GInv => OpenIsUnguarded
  BY DEF GInv
<1> QED
  BY <1>1, GateInvariance, PTL

(***************************************************************************)
(* The shadow mark is exact, although it is set at three places and only   *)
(* on the buckets present there.                                           *)
(***************************************************************************)
THEOREM ShadowMarksAreExact == GateConstants /\ Spec => []ShadowExact
<1>1. GInv => ShadowExact
  BY DEF GInv
<1> QED
  BY <1>1, GateInvariance, PTL

(***************************************************************************)
(* A window whose bucket timed out opens again only after the retention:   *)
(* its guard has lasted until then, whatever stragglers and pops did to it.*)
(***************************************************************************)
THEOREM StaysClosed == GateConstants /\ Spec => TimedOutStaysClosed
<1> SUFFICES ASSUME GateConstants PROVE Spec => TimedOutStaysClosed
  OBVIOUS
<1>1. ASSUME GInv, Next, NEW tm \in DOMAIN closedAt, tm \in DOMAIN pending' \ DOMAIN pending
      PROVE  now >= closedAt[tm] + GuardRetention
  <2>1. TypeOK /\ ~Tick
    BY <1>1 DEF GInv, Tick
  <2>2. PICK w \in TmId : Take(w)
    <3>1. ~PollReady /\ ~PopAllReady /\ ~(\E w \in DOMAIN pending : ForcePop(w))
      BY <1>1, MarkedDomain, Zenon DEF PollReady, PopAllReady, ForcePop
    <3>2. \A w \in TmId : ~LateAtGuard(w) /\ ~LateAtBucket(w)
      BY <1>1, Zenon DEF LateAtGuard, LateAtBucket
    <3> QED
      BY <1>1, <2>1, <3>1, <3>2, NextCases
  <2>3. PICK d \in DU, hits \in SUBSET Stamp, seen \in SUBSET Stamp :
          Accepting(w) /\ Admit(w, d, hits, seen)
    BY <2>2 DEF Take
  <2>4. tm = w
    BY <1>1, <2>1, <2>3, AdmitBuckets
  <2>5. ~(tm \in DOMAIN guard /\ guard[tm] > now)
    BY <2>3, <2>4 DEF Accepting, Guarded, Cleaned
  <2>6. /\ now \in Nat /\ closedAt[tm] \in Nat /\ GuardRetention \in Nat
        /\ tm \in DOMAIN guard => guard[tm] \in Nat
    BY <1>1, <2>1 DEF TypeOK, GateConstants
  <2>7. now < closedAt[tm] + GuardRetention =>
          tm \in DOMAIN guard /\ guard[tm] >= closedAt[tm] + GuardRetention
    BY <1>1 DEF GInv, GuardLasts
  <2> QED
    BY <2>5, <2>6, <2>7
<1>2. GInv /\ [Next]_gateVars =>
        [\A tm \in DOMAIN closedAt :
           tm \in DOMAIN pending' \ DOMAIN pending
             => now >= closedAt[tm] + GuardRetention]_gateVars
  BY <1>1
<1> QED
  BY <1>2, GateInvariance, PTL DEF Spec, TimedOutStaysClosed

(***************************************************************************)
(* Once its deadline has passed, hits and deadline of a bucket are frozen  *)
(* until it is popped.                                                     *)
(***************************************************************************)
THEOREM Frozen == GateConstants /\ Spec => ClosedIsFrozen
<1> SUFFICES ASSUME GateConstants PROVE Spec => ClosedIsFrozen
  OBVIOUS
<1>1. ASSUME GInv, Next, NEW tm \in TimedOut \cap DOMAIN pending'
      PROVE  pending'[tm].hits = pending[tm].hits /\ pending'[tm].close = pending[tm].close
  <2>1. TypeOK /\ tm \in DOMAIN pending
    BY <1>1 DEF GInv, TimedOut
  <2>2. CASE Tick \/ \E w \in TmId : LateAtGuard(w) \/ LateAtBucket(w)
    BY <2>2, Zenon DEF Tick, LateAtGuard, LateAtBucket
  <2>3. CASE PollReady
    BY <2>1, <2>3, MarkedPending DEF PollReady
  <2>4. CASE PopAllReady
    BY <1>1, <2>1, <2>4, MarkedPending DEF PopAllReady
  <2>5. CASE \E w \in DOMAIN pending : ForcePop(w)
    BY <1>1, <2>1, <2>5 DEF ForcePop
  <2>6. ASSUME NEW w \in TmId, Take(w)
        PROVE  pending'[tm].hits = pending[tm].hits /\ pending'[tm].close = pending[tm].close
    <3>1. PICK d \in DU, hits \in SUBSET Stamp, seen \in SUBSET Stamp :
            Accepting(w) /\ Admit(w, d, hits, seen)
      BY <2>6 DEF Take
    <3>2. tm # w
      BY <3>1 DEF Accepting
    <3> QED
      BY <2>1, <3>1, <3>2, AdmitBuckets
  <2> QED
    BY <1>1, <2>1, <2>2, <2>3, <2>4, <2>5, <2>6, NextCases
<1>2. GInv /\ [Next]_gateVars =>
        [\A tm \in TimedOut \cap DOMAIN pending' :
           /\ pending'[tm].hits = pending[tm].hits
           /\ pending'[tm].close = pending[tm].close]_gateVars
  BY <1>1
<1> QED
  BY <1>2, GateInvariance, PTL DEF Spec, ClosedIsFrozen

(***************************************************************************)
(* In the modes based on the first arrival no progress pushes a deadline   *)
(* past the cap.  In the legacy mode this is false.                        *)
(***************************************************************************)
THEOREM ClosesWithinCap ==
  GateConstants /\ DeadlineMode # "LastArrivalLegacy" /\ Spec => []CloseWithinCap
<1> SUFFICES ASSUME GateConstants, DeadlineMode # "LastArrivalLegacy"
             PROVE  Spec => []CloseWithinCap
  OBVIOUS
<1>1. Init => CloseWithinCap
  BY DEF Init, CloseWithinCap
<1>2. GInv /\ CloseWithinCap /\ [Next]_gateVars => CloseWithinCap'
  <2> SUFFICES ASSUME GInv, CloseWithinCap, [Next]_gateVars PROVE CloseWithinCap'
    OBVIOUS
  <2>1. TypeOK
    BY DEF GInv
  <2>2. CASE Tick \/ UNCHANGED gateVars \/ \E w \in TmId : LateAtGuard(w) \/ LateAtBucket(w)
    <3>1. pending' = pending
      BY <2>2, Zenon DEF Tick, LateAtGuard, LateAtBucket, gateVars
    <3> QED
      BY <3>1 DEF CloseWithinCap
  <2>3. CASE PollReady
    BY <2>1, <2>3, MarkedPending DEF PollReady, CloseWithinCap
  <2>4. CASE PopAllReady
    BY <2>1, <2>4, MarkedPending DEF PopAllReady, CloseWithinCap
  <2>5. CASE \E w \in DOMAIN pending : ForcePop(w)
    BY <2>5 DEF ForcePop, CloseWithinCap
  <2>6. ASSUME NEW w \in TmId, Take(w) PROVE CloseWithinCap'
    <3>1. PICK d \in DU, hits \in SUBSET Stamp, seen \in SUBSET Stamp : Admit(w, d, hits, seen)
      BY <2>6 DEF Take
    <3>2. /\ DOMAIN pending' = DOMAIN pending \cup {w}
          /\ \A x \in DOMAIN pending \ {w} :
               pending'[x].first = pending[x].first /\ pending'[x].close = pending[x].close
          /\ pending'[w] \in Bucket
          /\ pending'[w].first = IF w \in DOMAIN pending THEN pending[w].first ELSE now
          /\ \/ pending'[w].close = CloseAt(pending'[w].first, now)
             \/ w \in DOMAIN pending /\ pending'[w].close = pending[w].close
      BY <2>1, <3>1, AdmitBuckets
    <3>3. pending'[w].close <= pending'[w].first + HardCap
      <4>1. pending'[w].first \in Nat /\ now \in Nat
        BY <2>1, <3>2 DEF TypeOK, Bucket
      <4>2. CASE pending'[w].close = CloseAt(pending'[w].first, now)
        BY <4>1, <4>2, CloseAtProperties
      <4>3. CASE w \in DOMAIN pending /\ pending'[w].close = pending[w].close
        BY <3>2, <4>3 DEF CloseWithinCap
      <4> QED
        BY <3>2, <4>2, <4>3
    <3> QED
      BY <3>2, <3>3 DEF CloseWithinCap
  <2> QED
    BY <2>1, <2>2, <2>3, <2>4, <2>5, <2>6, NextCases
<1> QED
  BY <1>1, <1>2, GateInvariance, PTL DEF Spec

-----------------------------------------------------------------------------
(***************************************************************************)
(* The pipeline.  A bucket is told apart by its number, so the numbers     *)
(* must be distinct wherever buckets are kept; and popping overwrites what *)
(* the processing thread holds, so it must hold nothing whenever it pops.  *)
(***************************************************************************)
IdsOf(f) == {f[x].id : x \in DOMAIN f}
IdsDiffer(f) == \A x, y \in DOMAIN f : f[x].id = f[y].id => x = y

Numbered ==
  /\ opened <= MaxOpened
  /\ IdsDiffer(pending) /\ IdsDiffer(hand)
  /\ \A x \in DOMAIN hand : hand[x] \in Bucket
  /\ PendingIds \cup HandIds \cup handled = {i \in 0..MaxOpened : i < opened}
  /\ PendingIds \cap HandIds = {}
  /\ (PendingIds \cup HandIds) \cap handled = {}

ThreadOrder ==
  /\ \A d \in DU : feeder[d].pc = "set" => feeder[d].batch # {}
  /\ DOMAIN hand # {} => proc.pc = "handle"
  /\ stopper # "no" => \A d \in DU : feeder[d].pc = "idle"
  /\ stopper \in {"drain", "done"} => proc.pc = "done"
  /\ stopper = "done" => DOMAIN pending = {}

Feeders == [pc : {"idle", "set", "bump", "notify"}, left : SUBSET TmId, batch : SUBSET Stamp]
Procs   == [pc : {"top", "poll", "deadline", "check", "block", "asleep", "pop", "handle", "done"},
            prev : Nat, wait : SUBSET Nat, missed : BOOLEAN]

PInv == GInv /\ PipeTypeOK /\ proc \in Procs /\ Numbered /\ ThreadOrder

-----------------------------------------------------------------------------
(***************************************************************************)
(* Numbers of buckets                                                      *)
(***************************************************************************)
LEMMA IdsAre == PendingIds = IdsOf(pending) /\ HandIds = IdsOf(hand)
  BY DEF PendingIds, HandIds, IdsOf

LEMMA IdsBecome == PendingIds' = IdsOf(pending') /\ HandIds' = IdsOf(hand')
  BY DEF PendingIds, HandIds, IdsOf

\* On the windows of W, g has the numbers of f.
Agree(f, g, W) == \A x \in W : g[x].id = f[x].id

\* Buckets keep their numbers.
LEMMA SameIds ==
  ASSUME NEW f, NEW g, DOMAIN g = DOMAIN f, Agree(f, g, DOMAIN f)
  PROVE  IdsOf(g) = IdsOf(f) /\ (IdsDiffer(f) => IdsDiffer(g))
  BY DEF IdsOf, IdsDiffer, Agree

\* Buckets are divided into those of W and the others.
LEMMA SplitIds ==
  ASSUME NEW f, IdsDiffer(f), NEW W \in SUBSET DOMAIN f,
         NEW g, DOMAIN g = DOMAIN f \ W, Agree(f, g, DOMAIN g),
         NEW h, DOMAIN h = W, Agree(f, h, W)
  PROVE  /\ IdsOf(g) \cup IdsOf(h) = IdsOf(f)
         /\ IdsOf(g) \cap IdsOf(h) = {}
         /\ IdsDiffer(g) /\ IdsDiffer(h)
  BY DEF IdsOf, IdsDiffer, Agree

\* One bucket leaves.
LEMMA RemoveId ==
  ASSUME NEW f, IdsDiffer(f), NEW tm \in DOMAIN f,
         NEW g, DOMAIN g = DOMAIN f \ {tm}, Agree(f, g, DOMAIN g)
  PROVE  /\ IdsOf(g) = IdsOf(f) \ {f[tm].id}
         /\ f[tm].id \in IdsOf(f)
         /\ IdsDiffer(g)
  BY DEF IdsOf, IdsDiffer, Agree

\* One bucket is added.
LEMMA AddId ==
  ASSUME NEW f, IdsDiffer(f), NEW tm, tm \notin DOMAIN f,
         NEW g, DOMAIN g = DOMAIN f \cup {tm}, Agree(f, g, DOMAIN f),
         g[tm].id \notin IdsOf(f)
  PROVE  /\ IdsOf(g) = IdsOf(f) \cup {g[tm].id}
         /\ IdsDiffer(g)
  BY DEF IdsOf, IdsDiffer, Agree

-----------------------------------------------------------------------------
(***************************************************************************)
(* What the steps of the gate do to them                                   *)
(***************************************************************************)
KeepsBuckets ==
  /\ opened' = opened /\ DOMAIN pending' = DOMAIN pending
  /\ \A w \in DOMAIN pending : pending'[w].id = pending[w].id

Opens(tm) ==
  /\ opened < MaxOpened /\ opened' = opened + 1
  /\ tm \notin DOMAIN pending /\ DOMAIN pending' = DOMAIN pending \cup {tm}
  /\ \A w \in DOMAIN pending : pending'[w].id = pending[w].id
  /\ pending'[tm].id = opened

LEMMA HitsKeepOrOpen ==
  ASSUME GateConstants, TypeOK, NEW tm \in TmId, NEW d \in DU,
         NEW batch \in SUBSET Stamp, SetT2Hits(tm, d, batch)
  PROVE  KeepsBuckets \/ Opens(tm)
<1>1. CASE LateAtGuard(tm) \/ LateAtBucket(tm)
  BY <1>1, Zenon DEF LateAtGuard, LateAtBucket, KeepsBuckets
<1>2. CASE Accepting(tm) /\ Admit(tm, d, batch, SeenBy(tm, d) \cup batch)
  <2>1. SeenBy(tm, d) \cup batch \in SUBSET Stamp
    BY SeenAndHits
  <2>2. /\ DOMAIN pending' = DOMAIN pending \cup {tm}
        /\ \A w \in DOMAIN pending \ {tm} : pending'[w].id = pending[w].id
        /\ pending'[tm].id = IF tm \in DOMAIN pending THEN pending[tm].id ELSE opened
    BY <1>2, <2>1, AdmitBuckets
  <2>3. /\ tm \notin DOMAIN pending => opened < MaxOpened
        /\ opened' = IF tm \notin DOMAIN pending THEN opened + 1 ELSE opened
    BY <1>2, Zenon DEF Admit
  <2> QED
    BY <2>2, <2>3 DEF KeepsBuckets, Opens
<1> QED
  BY <1>1, <1>2, Zenon DEF SetT2Hits

LEMMA KeepNumbers ==
  ASSUME Numbered, KeepsBuckets, UNCHANGED <<hand, handled>>
  PROVE  Numbered'
<1>1. PendingIds' = PendingIds /\ IdsDiffer(pending')
  BY SameIds, IdsAre, IdsBecome DEF Numbered, KeepsBuckets, Agree
<1>2. HandIds' = HandIds
  BY IdsAre, IdsBecome
<1> QED
  BY <1>1, <1>2 DEF Numbered, KeepsBuckets

LEMMA OpenNumbers ==
  ASSUME GateConstants, TypeOK, Numbered, NEW tm, Opens(tm), UNCHANGED <<hand, handled>>
  PROVE  Numbered'
<1>1. opened \in Nat /\ MaxOpened \in Nat
  BY DEF TypeOK, GateConstants
<1>2. opened \notin PendingIds \cup HandIds \cup handled
  BY <1>1 DEF Numbered
<1>3. PendingIds' = PendingIds \cup {opened} /\ IdsDiffer(pending')
  <2>1. /\ IdsDiffer(pending) /\ tm \notin DOMAIN pending
        /\ DOMAIN pending' = DOMAIN pending \cup {tm}
        /\ Agree(pending, pending', DOMAIN pending)
        /\ pending'[tm].id = opened /\ opened \notin IdsOf(pending)
    BY <1>2, IdsAre DEF Numbered, Opens, Agree
  <2>2. IdsOf(pending') = IdsOf(pending) \cup {pending'[tm].id} /\ IdsDiffer(pending')
    BY <2>1, AddId
  <2> QED
    BY <2>1, <2>2, IdsAre, IdsBecome
<1>4. HandIds' = HandIds
  BY IdsAre, IdsBecome
<1>5. {i \in 0..MaxOpened : i < opened'} = {i \in 0..MaxOpened : i < opened} \cup {opened}
  BY <1>1 DEF Opens
<1>6. opened' <= MaxOpened
  BY <1>1 DEF Opens
<1> QED
  BY <1>2, <1>3, <1>4, <1>5, <1>6 DEF Numbered

\* The buckets popped go into the hands of the thread, which were empty.
LEMMA PopNumbers ==
  ASSUME TypeOK, Numbered, DOMAIN hand = {}, PopAllReady,
         hand' = [tm \in Popped |-> pending[tm]], handled' = handled
  PROVE  Numbered'
<1>1. Popped \in SUBSET DOMAIN pending
  BY DEF Popped
<1>2. /\ DOMAIN pending' = DOMAIN pending \ Popped
      /\ Agree(pending, pending', DOMAIN pending') /\ opened' = opened
  BY <1>1, MarkedPending DEF PopAllReady, Agree
<1>3. /\ DOMAIN hand' = Popped /\ \A w \in Popped : hand'[w] = pending[w]
  OBVIOUS
<1>4. /\ PendingIds' \cup HandIds' = PendingIds /\ PendingIds' \cap HandIds' = {}
      /\ IdsDiffer(pending') /\ IdsDiffer(hand')
  <2>1. IdsDiffer(pending) /\ Agree(pending, hand', Popped)
    BY <1>3 DEF Numbered, Agree
  <2>2. /\ IdsOf(pending') \cup IdsOf(hand') = IdsOf(pending)
        /\ IdsOf(pending') \cap IdsOf(hand') = {}
        /\ IdsDiffer(pending') /\ IdsDiffer(hand')
    BY <1>1, <1>2, <1>3, <2>1, SplitIds
  <2> QED
    BY <2>2, IdsAre, IdsBecome
<1>5. HandIds = {}
  BY DEF HandIds
<1>6. \A x \in DOMAIN hand' : hand'[x] \in Bucket
  BY <1>1, <1>3 DEF TypeOK
<1> QED
  BY <1>2, <1>4, <1>5, <1>6 DEF Numbered

LEMMA HandleNumbers ==
  ASSUME Numbered, NEW tm \in DOMAIN hand, hand' = [w \in DOMAIN hand \ {tm} |-> hand[w]],
         handled' = handled \cup {hand[tm].id}, UNCHANGED gateVars
  PROVE  Numbered'
<1>1. /\ DOMAIN hand' = DOMAIN hand \ {tm} /\ \A w \in DOMAIN hand' : hand'[w] = hand[w]
  OBVIOUS
<1>2. /\ HandIds' = HandIds \ {hand[tm].id} /\ hand[tm].id \in HandIds /\ IdsDiffer(hand')
  BY <1>1, RemoveId, IdsAre, IdsBecome DEF Numbered, Agree
<1>3. PendingIds' = PendingIds
  BY IdsAre, IdsBecome DEF gateVars
<1> QED
  BY <1>1, <1>2, <1>3 DEF Numbered, gateVars

LEMMA DrainNumbers ==
  ASSUME Numbered, NEW tm \in DOMAIN pending, ForcePop(tm),
         handled' = handled \cup {pending[tm].id}, UNCHANGED hand
  PROVE  Numbered'
<1>1. /\ DOMAIN pending' = DOMAIN pending \ {tm}
      /\ \A w \in DOMAIN pending' : pending'[w] = pending[w]
      /\ opened' = opened
  BY Zenon DEF ForcePop
<1>2. /\ PendingIds' = PendingIds \ {pending[tm].id} /\ pending[tm].id \in PendingIds
      /\ IdsDiffer(pending')
  BY <1>1, RemoveId, IdsAre, IdsBecome DEF Numbered, Agree
<1>3. HandIds' = HandIds
  BY IdsAre, IdsBecome
<1> QED
  BY <1>1, <1>2, <1>3 DEF Numbered

-----------------------------------------------------------------------------
(***************************************************************************)
(* The steps of the threads                                                *)
(***************************************************************************)
LEMMA PipeInitInv == GateConstants /\ PipeInit => PInv
<1> SUFFICES ASSUME GateConstants, PipeInit PROVE PInv
  OBVIOUS
<1>1. GInv
  BY GateInit DEF PipeInit
<1>2. PipeTypeOK
  <2>1. feeder \in [DU -> Feeders]
    BY DEF PipeInit, Idle, Feeders
  <2> QED
    BY <1>1, <2>1 DEF PipeInit, PipeTypeOK, GInv, Feeders
<1>3. Numbered
  BY DEF GateConstants, PipeInit, Init, Numbered, PendingIds, HandIds, IdsDiffer
<1>4. ThreadOrder
  BY DEF PipeInit, Init, ThreadOrder, Idle
<1> QED
  BY <1>1, <1>2, <1>3, <1>4 DEF PInv, PipeInit, Procs

\* Every step of the pipeline is a step of the gate or leaves it alone.
LEMMA PipeIsGateStep ==
  ASSUME GateConstants, PInv, [PipeNext]_vars
  PROVE  [Next]_gateVars
<1>1. CASE Time \/ UNCHANGED vars
  BY <1>1 DEF Time, Next, vars
<1>2. ASSUME NEW d \in DU, Feed(d) PROVE [Next]_gateVars
  <2>1. CASE FeedWindow(d)
    <3>1. PICK tm \in Earliest(feeder[d].left) : SetT2Hits(tm, d, feeder[d].batch)
      BY <2>1 DEF FeedWindow
    <3>2. feeder[d] \in Feeders /\ feeder[d].batch # {}
      BY <2>1 DEF FeedWindow, PInv, PipeTypeOK, ThreadOrder, Feeders
    <3>3. tm \in TmId /\ feeder[d].batch \in (SUBSET Stamp) \ {{}}
      BY <3>1, <3>2 DEF Earliest, Feeders
    <3> QED
      BY <3>1, <3>3, Zenon DEF Next
  <2> QED
    BY <1>2, <2>1 DEF Feed, FeedBatch, FeedBump, FeedNotify
<1>3. CASE ProcStep
  <2>1. CASE ProcPoll
    BY <2>1 DEF ProcPoll, Next
  <2>2. CASE ProcPop
    BY <2>2 DEF ProcPop, Next
  <2> QED
    BY <1>3, <2>1, <2>2 DEF ProcStep, ProcTop, ProcDeadline, ProcCheck, ProcBlock,
         ProcTimesOut, ProcHandle, ProcHandled
<1>4. CASE ProcSpuriousWakeup \/ StopBegin
  BY <1>4 DEF ProcSpuriousWakeup, StopBegin
<1>5. CASE StopStep
  <2>1. CASE StopDrainOne
    BY <2>1 DEF StopDrainOne, Next
  <2> QED
    BY <1>5, <2>1 DEF StopStep, StopBump, StopNotify, StopJoined, StopReturn
<1> QED
  BY <1>1, <1>2, <1>3, <1>4, <1>5 DEF PipeNext

LEMMA NumberedStep ==
  ASSUME GateConstants, PInv, [PipeNext]_vars
  PROVE  Numbered'
<1>0. GInv /\ TypeOK /\ Numbered
  BY DEF PInv, GInv
<1>1. CASE UNCHANGED <<gateVars, hand, handled>>
  BY <1>0, <1>1, KeepNumbers DEF KeepsBuckets, gateVars
<1>2. CASE Time
  BY <1>0, <1>2, KeepNumbers DEF KeepsBuckets, Time, Tick, pipeVars
<1>3. ASSUME NEW d \in DU, Feed(d) PROVE Numbered'
  <2>1. CASE FeedWindow(d)
    <3>1. PICK tm \in Earliest(feeder[d].left) : SetT2Hits(tm, d, feeder[d].batch)
      BY <2>1 DEF FeedWindow
    <3>2. feeder[d] \in Feeders
      BY DEF PInv, PipeTypeOK, Feeders
    <3>3. tm \in TmId /\ feeder[d].batch \in SUBSET Stamp
      BY <3>1, <3>2 DEF Earliest, Feeders
    <3>4. KeepsBuckets \/ Opens(tm)
      BY <1>0, <3>1, <3>3, HitsKeepOrOpen
    <3>5. UNCHANGED <<hand, handled>>
      BY <2>1 DEF FeedWindow
    <3> QED
      BY <1>0, <3>4, <3>5, KeepNumbers, OpenNumbers
  <2> QED
    BY <1>1, <1>3, <2>1 DEF Feed, FeedBatch, FeedBump, FeedNotify
<1>4. CASE ProcStep
  <2>1. CASE ProcPoll
    <3>1. KeepsBuckets
      BY <1>0, <2>1, MarkedPending DEF ProcPoll, PollReady, KeepsBuckets
    <3> QED
      BY <1>0, <2>1, <3>1, KeepNumbers DEF ProcPoll
  <2>2. CASE ProcPop
    <3>1. DOMAIN hand = {}
      BY <2>2 DEF ProcPop, PInv, ThreadOrder
    <3> QED
      BY <1>0, <2>2, <3>1, PopNumbers DEF ProcPop
  <2>3. CASE ProcHandle
    <3>1. PICK tm \in Earliest(DOMAIN hand) :
            /\ handled' = handled \cup {hand[tm].id}
            /\ hand' = [w \in DOMAIN hand \ {tm} |-> hand[w]]
      BY <2>3 DEF ProcHandle
    <3>2. tm \in DOMAIN hand /\ UNCHANGED gateVars
      BY <2>3 DEF Earliest, ProcHandle
    <3> QED
      BY <1>0, <3>1, <3>2, HandleNumbers
  <2> QED
    BY <1>1, <1>4, <2>1, <2>2, <2>3 DEF ProcStep, ProcTop, ProcDeadline, ProcCheck,
         ProcBlock, ProcTimesOut, ProcHandled
<1>5. CASE ProcSpuriousWakeup \/ StopBegin \/ UNCHANGED vars
  BY <1>1, <1>5 DEF ProcSpuriousWakeup, StopBegin, vars, pipeVars
<1>6. CASE StopStep
  <2>1. CASE StopDrainOne
    BY <1>0, <2>1, DrainNumbers DEF StopDrainOne
  <2> QED
    BY <1>1, <1>6, <2>1 DEF StopStep, StopBump, StopNotify, StopJoined, StopReturn
<1> QED
  BY <1>2, <1>3, <1>4, <1>5, <1>6 DEF PipeNext

LEMMA PipeTypeStep ==
  ASSUME GateConstants, PInv, TypeOK', [PipeNext]_vars
  PROVE  PipeTypeOK' /\ proc' \in Procs
<1>0. /\ PipeTypeOK /\ TypeOK /\ proc \in Procs /\ feeder \in [DU -> Feeders]
      /\ \A x \in DOMAIN hand : hand[x] \in Bucket
  BY DEF PInv, PipeTypeOK, Numbered, Feeders
<1>1. \A pc \in {"top", "poll", "deadline", "check", "block", "asleep", "pop", "handle", "done"} :
        [proc EXCEPT !.pc = pc] \in Procs
  BY <1>0 DEF Procs
<1>2. Notified \in Procs
  <2>1. [proc EXCEPT !.missed = TRUE] \in Procs
    BY <1>0 DEF Procs
  <2> QED
    BY <1>0, <1>1, <2>1 DEF Notified
<1>3. SUFFICES /\ running' \in BOOLEAN /\ epoch' \in Nat
               /\ feeder' \in [DU -> Feeders]
               /\ proc' \in Procs
               /\ DOMAIN hand' \subseteq TmId
               /\ stopper' \in {"no", "bump", "notify", "join", "drain", "done"}
               /\ handled' \subseteq Nat
  BY DEF PipeTypeOK, Feeders, Procs
<1>4. CASE Time \/ UNCHANGED vars
  BY <1>0, <1>4 DEF Time, vars, pipeVars, PipeTypeOK
<1>5. ASSUME NEW d \in DU, Feed(d)
      PROVE  /\ UNCHANGED <<running, hand, stopper, handled>> /\ epoch' \in Nat
             /\ feeder' \in [DU -> Feeders] /\ proc' \in Procs
  <2>1. feeder[d] \in Feeders
    BY <1>0
  <2>2. CASE FeedBatch(d)
    <3>1. PICK W \in (SUBSET TmId) \ {{}}, batch \in (SUBSET Stamp) \ {{}} :
            feeder' = [feeder EXCEPT ![d] = [pc |-> "set", left |-> W, batch |-> batch]]
      BY <2>2 DEF FeedBatch
    <3>2. [pc |-> "set", left |-> W, batch |-> batch] \in Feeders
      BY DEF Feeders
    <3> QED
      BY <1>0, <2>2, <3>1, <3>2 DEF FeedBatch, PipeTypeOK
  <2>3. CASE FeedWindow(d)
    <3>1. PICK tm \in Earliest(feeder[d].left) :
            feeder' = [feeder EXCEPT ![d].left = @ \ {tm},
                         ![d].pc = IF feeder[d].left = {tm} THEN "bump" ELSE "set"]
      BY <2>3 DEF FeedWindow
    <3>2. [feeder[d] EXCEPT !.left = @ \ {tm},
             !.pc = IF feeder[d].left = {tm} THEN "bump" ELSE "set"] \in Feeders
      BY <2>1 DEF Feeders
    <3> QED
      BY <1>0, <2>3, <3>1, <3>2 DEF FeedWindow, PipeTypeOK
  <2>4. CASE FeedBump(d)
    <3>1. [feeder[d] EXCEPT !.pc = "notify"] \in Feeders
      BY <2>1 DEF Feeders
    <3> QED
      BY <1>0, <2>4, <3>1 DEF FeedBump, PipeTypeOK
  <2>5. CASE FeedNotify(d)
    <3>1. Idle \in Feeders
      BY DEF Idle, Feeders
    <3> QED
      BY <1>0, <1>2, <2>5, <3>1 DEF FeedNotify, PipeTypeOK
  <2> QED
    BY <1>5, <2>2, <2>3, <2>4, <2>5 DEF Feed
<1>6. CASE ProcStep
  <2>1. UNCHANGED <<running, epoch, feeder, stopper>>
    BY <1>6 DEF ProcStep, ProcTop, ProcPoll, ProcDeadline, ProcCheck, ProcBlock,
         ProcTimesOut, ProcPop, ProcHandle, ProcHandled
  <2>2. proc' \in Procs
    <3>1. CASE ProcTop
      <4>1. epoch \in Nat
        BY <1>0 DEF PipeTypeOK
      <4> QED
        BY <1>0, <3>1, <4>1 DEF ProcTop, Procs
    <3>2. CASE ProcDeadline
      <4>1. NextDeadline \in SUBSET Nat
        BY <1>0 DEF NextDeadline, TypeOK, Bucket
      <4> QED
        BY <1>0, <3>2, <4>1 DEF ProcDeadline, Procs
    <3> QED
      BY <1>0, <1>1, <1>6, <3>1, <3>2 DEF ProcStep, ProcPoll, ProcCheck, ProcBlock,
           ProcTimesOut, ProcPop, ProcHandle, ProcHandled
  <2>3. DOMAIN hand' \subseteq TmId /\ handled' \subseteq Nat
    <3>1. CASE ProcPop
      BY <1>0, <3>1 DEF ProcPop, Popped, TypeOK, PipeTypeOK
    <3>2. CASE ProcHandle
      <4>1. PICK tm \in Earliest(DOMAIN hand) :
              /\ handled' = handled \cup {hand[tm].id}
              /\ hand' = [w \in DOMAIN hand \ {tm} |-> hand[w]]
        BY <3>2 DEF ProcHandle
      <4>2. tm \in DOMAIN hand /\ hand[tm].id \in Nat
        BY <1>0 DEF Earliest, Bucket
      <4> QED
        BY <1>0, <4>1, <4>2 DEF PipeTypeOK
    <3>3. CASE UNCHANGED <<hand, handled>>
      BY <1>0, <3>3 DEF PipeTypeOK
    <3> QED
      BY <1>6, <3>1, <3>2, <3>3 DEF ProcStep, ProcTop, ProcPoll, ProcDeadline, ProcCheck,
           ProcBlock, ProcTimesOut, ProcHandled
  <2> QED
    BY <1>0, <2>1, <2>2, <2>3 DEF PipeTypeOK
<1>7. CASE ProcSpuriousWakeup \/ StopBegin
  BY <1>0, <1>1, <1>7 DEF ProcSpuriousWakeup, StopBegin, PipeTypeOK
<1>8. CASE StopStep
  <2>1. CASE StopDrainOne
    BY <1>0, <2>1 DEF StopDrainOne, PipeTypeOK, TypeOK, Bucket
  <2>2. CASE StopNotify
    BY <1>0, <1>2, <2>2 DEF StopNotify, PipeTypeOK
  <2>3. CASE StopBump \/ StopJoined
    <3>1. epoch' \in Nat
      BY <1>0, <2>3 DEF StopBump, StopJoined, PipeTypeOK
    <3>2. UNCHANGED <<running, feeder, proc, hand, handled>> /\ stopper' \in {"notify", "drain"}
      BY <2>3 DEF StopBump, StopJoined
    <3> QED
      BY <1>0, <3>1, <3>2 DEF PipeTypeOK
  <2>4. CASE StopReturn
    BY <1>0, <2>4 DEF StopReturn, PipeTypeOK
  <2> QED
    BY <1>8, <2>1, <2>2, <2>3, <2>4 DEF StopStep
<1> QED
  BY <1>0, <1>4, <1>5, <1>6, <1>7, <1>8 DEF PipeNext, PipeTypeOK

LEMMA ThreadOrderStep ==
  ASSUME GateConstants, PInv, [PipeNext]_vars
  PROVE  ThreadOrder'
<1>0. /\ ThreadOrder /\ proc \in Procs /\ feeder \in [DU -> Feeders]
      /\ stopper \in {"no", "bump", "notify", "join", "drain", "done"}
  BY DEF PInv, PipeTypeOK, Feeders
<1>1. /\ Notified \in Procs
      /\ Notified.pc = IF proc.pc = "asleep" THEN "check" ELSE proc.pc
  BY <1>0 DEF Notified, Procs
<1>2. CASE Time \/ UNCHANGED vars
  <2>1. UNCHANGED <<feeder, hand, proc, stopper, pending>>
    BY <1>2 DEF Time, Tick, vars, gateVars, pipeVars
  <2> QED
    BY <1>0, <2>1 DEF ThreadOrder
<1>3. ASSUME NEW d \in DU, Feed(d) PROVE ThreadOrder'
  <2>1. /\ UNCHANGED <<hand, stopper>> /\ stopper = "no"
        /\ \A x \in DU \ {d} : feeder'[x] = feeder[x]
        /\ feeder'[d].pc = "set" => feeder'[d].batch # {}
    <3>1. UNCHANGED <<hand, stopper>>
      BY <1>3 DEF Feed, FeedBatch, FeedWindow, FeedBump, FeedNotify
    <3>2. stopper = "no"
      BY <1>0, <1>3 DEF Feed, FeedBatch, FeedWindow, FeedBump, FeedNotify, ThreadOrder
    <3>3. \A x \in DU \ {d} : feeder'[x] = feeder[x]
      BY <1>0, <1>3 DEF Feed, FeedBatch, FeedWindow, FeedBump, FeedNotify
    <3>4. feeder'[d].pc = "set" => feeder'[d].batch # {}
      <4>1. CASE FeedBatch(d)
        BY <1>0, <4>1 DEF FeedBatch
      <4>2. CASE FeedWindow(d)
        <5>1. feeder'[d].batch = feeder[d].batch /\ feeder[d].pc = "set"
          BY <1>0, <4>2 DEF FeedWindow, Feeders
        <5> QED
          BY <1>0, <5>1 DEF ThreadOrder
      <4>3. CASE FeedBump(d) \/ FeedNotify(d)
        BY <1>0, <4>3 DEF FeedBump, FeedNotify, Idle, Feeders
      <4> QED
        BY <1>3, <4>1, <4>2, <4>3 DEF Feed
    <3> QED
      BY <3>1, <3>2, <3>3, <3>4
  <2>2. DOMAIN hand # {} => proc'.pc = "handle"
    <3>1. proc' = proc \/ proc' = Notified
      BY <1>3 DEF Feed, FeedBatch, FeedWindow, FeedBump, FeedNotify
    <3> QED
      BY <1>0, <1>1, <3>1 DEF ThreadOrder
  <2> QED
    BY <1>0, <2>1, <2>2 DEF ThreadOrder
<1>4. CASE ProcStep
  <2>1. UNCHANGED <<feeder, stopper>> /\ proc.pc # "done"
    BY <1>4 DEF ProcStep, ProcTop, ProcPoll, ProcDeadline, ProcCheck, ProcBlock,
         ProcTimesOut, ProcPop, ProcHandle, ProcHandled
  <2>2. DOMAIN hand' # {} => proc'.pc = "handle"
    <3>1. CASE ProcPop
      BY <1>0, <3>1 DEF ProcPop, Procs
    <3>2. CASE ProcHandle
      BY <1>0, <3>2 DEF ProcHandle
    <3>3. CASE ProcHandled
      BY <1>0, <3>3 DEF ProcHandled
    <3>4. CASE ~(ProcPop \/ ProcHandle \/ ProcHandled)
      <4>1. hand' = hand /\ proc.pc # "handle"
        BY <1>4, <3>4 DEF ProcStep, ProcTop, ProcPoll, ProcDeadline, ProcCheck,
             ProcBlock, ProcTimesOut
      <4> QED
        BY <1>0, <4>1 DEF ThreadOrder
    <3> QED
      BY <3>1, <3>2, <3>3, <3>4
  <2> QED
    BY <1>0, <2>1, <2>2 DEF ThreadOrder
<1>5. CASE ProcSpuriousWakeup
  BY <1>0, <1>5 DEF ProcSpuriousWakeup, ThreadOrder, Procs
<1>6. CASE StopBegin
  BY <1>0, <1>6 DEF StopBegin, ThreadOrder
<1>7. CASE StopStep
  <2>1. CASE StopBump \/ StopJoined
    BY <1>0, <2>1 DEF StopBump, StopJoined, ThreadOrder
  <2>2. CASE StopNotify
    BY <1>0, <1>1, <2>2 DEF StopNotify, ThreadOrder
  <2>3. CASE StopDrainOne
    BY <1>0, <2>3 DEF StopDrainOne, ThreadOrder
  <2>4. CASE StopReturn
    BY <1>0, <2>4 DEF StopReturn, ThreadOrder, gateVars
  <2> QED
    BY <1>7, <2>1, <2>2, <2>3, <2>4 DEF StopStep
<1> QED
  BY <1>2, <1>3, <1>4, <1>5, <1>6, <1>7 DEF PipeNext

LEMMA PipeStep ==
  ASSUME GateConstants, PInv, [PipeNext]_vars
  PROVE  PInv'
<1>1. GInv'
  <2>1. GInv
    BY DEF PInv
  <2> QED
    BY <2>1, PipeIsGateStep, GateStep
<1>2. TypeOK'
  BY <1>1 DEF GInv
<1> QED
  BY <1>1, <1>2, NumberedStep, PipeTypeStep, ThreadOrderStep DEF PInv

-----------------------------------------------------------------------------
(***************************************************************************)
(* Theorems                                                                *)
(***************************************************************************)
LEMMA PipeInvariance == GateConstants /\ PipeSpec => []PInv
<1> SUFFICES ASSUME GateConstants PROVE PipeSpec => []PInv
  OBVIOUS
<1>1. PipeInit => PInv
  BY PipeInitInv
<1>2. PInv /\ [PipeNext]_vars => PInv'
  BY PipeStep
<1> QED
  BY <1>1, <1>2, PTL DEF PipeSpec

(***************************************************************************)
(* The threads of the pipeline use the gate as its specification says: a   *)
(* behaviour of the pipeline, seen at the gate, is one of the gate.  So    *)
(* what is proved of the gate alone holds when DAQ threads, the processing *)
(* thread and stop() share it.                                             *)
(***************************************************************************)
THEOREM PipelineImplementsGate == GateConstants /\ PipeSpec => Spec
<1> SUFFICES ASSUME GateConstants PROVE PipeSpec => Spec
  OBVIOUS
<1>1. PipeInit => Init
  BY DEF PipeInit
<1>2. PInv /\ [PipeNext]_vars => [Next]_gateVars
  BY PipeIsGateStep
<1> QED
  BY <1>1, <1>2, PipeInvariance, PTL DEF PipeSpec, Spec

(***************************************************************************)
(* Under the threads too, a window whose bucket timed out is not opened    *)
(* again, and so not judged again, before the retention has passed.        *)
(***************************************************************************)
THEOREM PipelineJudgesAWindowOnce == GateConstants /\ PipeSpec => TimedOutStaysClosed
  BY PipelineImplementsGate, StaysClosed

(***************************************************************************)
(* Every bucket opened is pending, popped or handled, and only one of      *)
(* them; when stop() has returned, all have been handled.                  *)
(***************************************************************************)
THEOREM NoBucketLost == GateConstants /\ PipeSpec => []BucketsAccounted
<1>1. PInv => BucketsAccounted
  <2>1. ASSUME PInv, stopper = "done" PROVE PendingIds \cup HandIds = {}
    <3>1. DOMAIN pending = {} /\ DOMAIN hand = {}
      BY <2>1 DEF PInv, ThreadOrder
    <3> QED
      BY <3>1 DEF PendingIds, HandIds
  <2> QED
    BY <2>1 DEF PInv, Numbered, BucketsAccounted
<1> QED
  BY <1>1, PipeInvariance, PTL
=============================================================================
