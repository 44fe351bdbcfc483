--------------------------- MODULE CdWriterProofs ---------------------------
(***************************************************************************)
(* Proofs about CdWriter, for every set of DAQ threads and of events, every *)
(* capacity of the queue and all settings of the store: first about the    *)
(* threads and what they owe, then about what is left on disk, for every   *)
(* limit of a shard, every way in which the system's functions may fail    *)
(* and every crash.                                                        *)
(***************************************************************************)
EXTENDS CdWriter, FiniteSetTheorems, SequenceTheorems, WellFoundedInduction, TLAPS

-----------------------------------------------------------------------------
(***************************************************************************)
(* The inductive invariant.  That nothing is owed once the store is closed *)
(* rests on where every completed event is, and on the order in which a    *)
(* stop empties those places.  That no wakeup is missed rests on the same  *)
(* order: the threads that wait for different things are never asleep at   *)
(* the same time, so that notify_one cannot wake the wrong one.            *)
(***************************************************************************)
FrontendAt == {"off", "loop", "drain", "push"}
WorkerAt   == {"off", "loop", "write", "written", "done"}
MainAt     == {"idle", "opened", "started", "frontends", "drain", "push", "quiesce", "wait",
               "join", "notify", "joining", "close"}

QueueTypeOK ==
  /\ is_open \in BOOLEAN /\ shutdown \in BOOLEAN /\ next \in Nat
  /\ completed \in Seq(Events)
  /\ queue \in Seq(Events) /\ Len(queue) <= Capacity
  /\ hand \in [Threads -> Seq(Events)]
  /\ DOMAIN at = Threads
  /\ at["main"] \in MainAt /\ at["worker"] \in WorkerAt
  /\ \A f \in Frontends : at[f] \in FrontendAt
  /\ owed \subseteq Events

Among(e, s) == \E i \in DOMAIN s : s[i] = e

\* An event that is owed can be stored, and somebody has it.
OwedIsHeld ==
  \A e \in owed :
    /\ Fragments[e] > 0
    /\ Among(e, completed) \/ Among(e, queue) \/ \E t \in Threads : Among(e, hand[t])

HandsWhileAt ==
  /\ \A p \in Producers : hand[p] # <<>> <=> at[p] = "push"
  /\ at["worker"] # "write" => hand["worker"] = <<>>
  /\ at["worker"] = "write" => Len(hand["worker"]) = 1

\* What has ended, and what is empty, at each step of start and stop
StopOrder ==
  /\ at["main"] \notin {"started", "frontends"} => \A f \in Frontends : at[f] = "off"
  /\ at["main"] \notin {"started", "frontends", "drain"} => completed = <<>>
  /\ at["main"] \in {"idle", "opened", "close"} => at["worker"] = "off"
  /\ at["main"] = "started" => at["worker"] \notin {"off", "done"}
  /\ at["worker"] = "off" =>
       /\ \A f \in Frontends : at[f] = "off"
       /\ queue = <<>> /\ completed = <<>>
       /\ at["main"] # "push"
  /\ at["worker"] = "done" => shutdown /\ queue = <<>>
  /\ shutdown => at["main"] \in {"notify", "joining"}
  /\ at["worker"] # "off" \/ at["main"] \in {"opened", "started"} => is_open

AsleepWhere ==
  \A t \in sleeping :
    \/ t = "worker" /\ at[t] = "loop"
    \/ t \in Producers /\ at[t] = "push"
    \/ t = "main" /\ at[t] = "wait"

QInv ==
  /\ QueueTypeOK /\ OwedIsHeld /\ HandsWhileAt /\ StopOrder /\ AsleepWhere /\ NoMissedWakeup

-----------------------------------------------------------------------------
(***************************************************************************)
(* What the store does to the queue's state: it opens and closes.          *)
(***************************************************************************)
LEMMA StoreOpens ==
  /\ OpenSucceeds => is_open' = TRUE
  /\ OpenFails => is_open' = FALSE
  /\ CloseStore => is_open' = FALSE
  /\ CrashStore => is_open' = FALSE
  BY DEF OpenSucceeds, OpenFails, OpenFindsNoDirectory, OpenFailsAt, CloseStore, CrashStore

LEMMA StoreStaysOpen ==
  /\ WriteRawRecord => is_open' = is_open
  /\ \A e : WriteCdEvent(e) => is_open' = is_open
<1>1. WriteRawRecord => is_open' = is_open
  BY DEF WriteRawRecord, RawSaved, RawTorn, RawRotationFails, RawAccepted
<1>2. ASSUME NEW e, WriteCdEvent(e) PROVE is_open' = is_open
  BY <1>2 DEF WriteCdEvent, CdSaved, CdTorn, CdRotationFails, CdTooLarge, CdNoFile, Refused
<1> QED
  BY <1>1, <1>2

LEMMA ThreadsDiffer ==
  /\ Frontends \subseteq Threads /\ "main" \in Threads /\ "worker" \in Threads
  /\ "main" \notin Frontends /\ "worker" \notin Frontends /\ "worker" \notin Producers
  /\ Producers \subseteq Threads /\ Frontends \subseteq Producers /\ "main" \in Producers
  /\ Capacity \in Nat \ {0}
  /\ \A t \in Threads : t \in Frontends \/ t = "main" \/ t = "worker"
  /\ \A t \in Producers : t \in Frontends \/ t = "main"
  BY WriterConstants DEF Threads, Producers

LEMMA Start ==
  Init => QInv
<1> SUFFICES ASSUME Init PROVE QInv
  OBVIOUS
<1>1. /\ is_open = FALSE /\ completed = <<>> /\ queue = <<>> /\ shutdown = FALSE /\ sleeping = {}
      /\ next = 1 /\ owed = {}
      /\ \A t \in Threads : at[t] = (IF t = "main" THEN "idle" ELSE "off") /\ hand[t] = <<>>
      /\ DOMAIN at = Threads /\ hand \in [Threads -> {<<>>}]
  BY DEF Init, StoreInit
<1>2. /\ at["main"] = "idle" /\ at["worker"] = "off"
      /\ \A f \in Frontends : at[f] = "off"
  BY <1>1, ThreadsDiffer
<1>3. QueueTypeOK
  <2>1. <<>> \in Seq(Events) /\ Len(<<>>) = 0
    OBVIOUS
  <2>2. hand \in [Threads -> Seq(Events)]
    BY <1>1, <2>1
  <2> QED
    <3>1. completed \in Seq(Events) /\ queue \in Seq(Events) /\ Len(queue) <= Capacity
      BY <1>1, <2>1, ThreadsDiffer
    <3>2. is_open \in BOOLEAN /\ shutdown \in BOOLEAN /\ next \in Nat /\ owed \subseteq Events
      BY <1>1 DEF QInv, QueueTypeOK
    <3> QED
      BY <1>1, <1>2, <2>2, <3>1, <3>2 DEF QueueTypeOK, MainAt, WorkerAt, FrontendAt
<1>4. HandsWhileAt
  BY <1>1, <1>2, ThreadsDiffer DEF HandsWhileAt
<1> QED
  BY <1>1, <1>2, <1>3, <1>4 DEF QInv, OwedIsHeld, StopOrder, AsleepWhere, NoMissedWakeup

-----------------------------------------------------------------------------
(***************************************************************************)
(* Steps that only go from one place to the next                           *)
(***************************************************************************)
\* Owed events stay where they are.
LEMMA HeldStays ==
  ASSUME OwedIsHeld, UNCHANGED <<completed, queue, hand, owed>>
  PROVE  OwedIsHeld'
  BY DEF OwedIsHeld, Among

LEMMA RawStep ==
  ASSUME QInv, NEW f \in Frontends, RawRecord(f)
  PROVE  QInv'
<1>1. UNCHANGED <<is_open, completed, queue, shutdown, sleeping, at, hand, next, owed>>
  BY StoreStaysOpen DEF RawRecord, queueVars
<1> QED
  BY <1>1 DEF QInv, QueueTypeOK, OwedIsHeld, Among, HandsWhileAt, StopOrder,
     AsleepWhere, NoMissedWakeup, WaitsFor, Drained, Inflight

LEMMA StartOpenStep ==
  ASSUME QInv, StartOpen
  PROVE  QInv'
  BY StoreOpens, HeldStays, ThreadsDiffer
     DEF StartOpen, Goto, AppUnchanged, queueVars, QInv, QueueTypeOK, MainAt, WorkerAt, FrontendAt,
         HandsWhileAt, StopOrder, AsleepWhere, NoMissedWakeup, WaitsFor, Drained, Inflight

LEMMA StartFrontendStep ==
  ASSUME QInv, NEW f \in Frontends, StartFrontend(f)
  PROVE  QInv'
  BY HeldStays, ThreadsDiffer
     DEF StartFrontend, AppUnchanged, queueVars, storeVars, QInv, QueueTypeOK, MainAt, WorkerAt, FrontendAt,
         HandsWhileAt, StopOrder, AsleepWhere, NoMissedWakeup, WaitsFor, Drained, Inflight

LEMMA StopFrontendStep ==
  ASSUME QInv, NEW f \in Frontends, StopFrontend(f)
  PROVE  QInv'
  BY HeldStays, ThreadsDiffer
     DEF StopFrontend, AppUnchanged, queueVars, storeVars, QInv, QueueTypeOK, MainAt, WorkerAt, FrontendAt,
         HandsWhileAt, StopOrder, AsleepWhere, NoMissedWakeup, WaitsFor, Drained, Inflight

LEMMA MainStep ==
  ASSUME QInv, StopBegin \/ Quiesce \/ WaitDrain \/ WaitTimesOut
               \/ ShutdownWorker \/ NotifyShutdown \/ SpuriousWakeup
  PROVE  QInv'
<1> USE HeldStays, ThreadsDiffer
    DEF Goto, AppUnchanged, queueVars, storeVars, QInv, QueueTypeOK, MainAt, WorkerAt, FrontendAt,
        HandsWhileAt, StopOrder, AsleepWhere, NoMissedWakeup, WaitsFor, Drained, Inflight, Awake
<1>1. CASE StopBegin
  BY <1>1 DEF StopBegin
<1>2. CASE Quiesce
  BY <1>2 DEF Quiesce
<1>3. CASE WaitDrain
  BY <1>3 DEF WaitDrain
<1>4. CASE WaitTimesOut
  BY <1>4 DEF WaitTimesOut
<1>5. CASE ShutdownWorker
  BY <1>5 DEF ShutdownWorker
<1>6. CASE NotifyShutdown
  BY <1>6 DEF NotifyShutdown
<1>7. CASE SpuriousWakeup
  BY <1>7 DEF SpuriousWakeup
<1> QED
  BY <1>1, <1>2, <1>3, <1>4, <1>5, <1>6, <1>7

\* The worker, and with it the store's last writer, has ended.
LEMMA JoinStep ==
  ASSUME QInv, JoinWorker
  PROVE  QInv'
<1>1. /\ queue' = <<>> /\ queue = <<>> /\ shutdown' = FALSE
      /\ UNCHANGED <<is_open, sleeping, completed, hand, next, owed>>
      /\ at["main"] = "joining" /\ at["worker"] \in {"off", "done"}
      /\ at' = [at EXCEPT !["main"] = "close", !["worker"] = "off"]
  BY DEF JoinWorker, AppUnchanged, storeVars, QInv, StopOrder
<1>2. /\ DOMAIN at = Threads /\ at'["main"] = "close" /\ at'["worker"] = "off"
      /\ \A f \in Frontends : at'[f] = at[f] /\ at[f] = "off"
      /\ \A t \in Threads \ {"main", "worker"} : at'[t] = at[t]
  BY <1>1, ThreadsDiffer DEF QInv, QueueTypeOK, StopOrder
<1>3. sleeping = {}
  BY <1>1, <1>2, ThreadsDiffer DEF QInv, AsleepWhere
<1>4. QueueTypeOK' /\ OwedIsHeld'
  BY <1>1, <1>2, ThreadsDiffer, HeldStays DEF QInv, QueueTypeOK, MainAt, WorkerAt, FrontendAt
<1>5. HandsWhileAt' /\ StopOrder'
  BY <1>1, <1>2, ThreadsDiffer DEF QInv, HandsWhileAt, StopOrder
<1> QED
  BY <1>1, <1>3, <1>4, <1>5 DEF QInv, AsleepWhere, NoMissedWakeup

LEMMA CloseStep ==
  ASSUME QInv, CloseAndReturn
  PROVE  QInv'
  BY StoreOpens, HeldStays, ThreadsDiffer
     DEF CloseAndReturn, Goto, AppUnchanged, queueVars, QInv, QueueTypeOK, MainAt, WorkerAt, FrontendAt,
         HandsWhileAt, StopOrder, AsleepWhere, NoMissedWakeup, WaitsFor, Drained, Inflight

LEMMA StartWorkerStep ==
  ASSUME QInv, StartWorker
  PROVE  QInv'
<1>1. /\ queue' = <<>> /\ queue = <<>> /\ shutdown' = FALSE /\ completed' = completed /\ is_open
      /\ UNCHANGED <<is_open, sleeping, hand, next, owed>>
      /\ at["main"] = "opened" /\ at["worker"] = "off"
      /\ at' = [at EXCEPT !["main"] = "started", !["worker"] = "loop"]
  BY DEF StartWorker, storeVars, QInv, StopOrder
<1>2. /\ DOMAIN at = Threads /\ at'["main"] = "started" /\ at'["worker"] = "loop"
      /\ \A f \in Frontends : at'[f] = at[f] /\ at[f] = "off"
      /\ \A t \in Threads \ {"main", "worker"} : at'[t] = at[t]
  BY <1>1, ThreadsDiffer DEF QInv, QueueTypeOK, StopOrder
<1>3. sleeping = {}
  BY <1>1, <1>2, ThreadsDiffer DEF QInv, AsleepWhere
<1>4. QueueTypeOK' /\ OwedIsHeld'
  BY <1>1, <1>2, ThreadsDiffer, HeldStays DEF QInv, QueueTypeOK, MainAt, WorkerAt, FrontendAt
<1>5. HandsWhileAt' /\ StopOrder'
  BY <1>1, <1>2, ThreadsDiffer DEF QInv, HandsWhileAt, StopOrder
<1> QED
  BY <1>1, <1>3, <1>4, <1>5 DEF QInv, AsleepWhere, NoMissedWakeup

LEMMA CrashStep ==
  ASSUME QInv, Crash
  PROVE  QInv'
<1>1. /\ is_open' = FALSE /\ completed' = <<>> /\ queue' = <<>> /\ shutdown' = FALSE
      /\ sleeping' = {} /\ next' = next /\ owed' = {}
      /\ \A t \in Threads : at'[t] = (IF t = "main" THEN "idle" ELSE "off") /\ hand'[t] = <<>>
      /\ DOMAIN at' = Threads /\ hand' \in [Threads -> {<<>>}]
  BY StoreOpens DEF Crash
<1>2. /\ at'["main"] = "idle" /\ at'["worker"] = "off"
      /\ \A f \in Frontends : at'[f] = "off"
  BY <1>1, ThreadsDiffer
<1>3. QueueTypeOK'
  <2>1. <<>> \in Seq(Events) /\ Len(<<>>) = 0
    OBVIOUS
  <2>2. hand' \in [Threads -> Seq(Events)]
    BY <1>1, <2>1
  <2> QED
    <3>1. completed' \in Seq(Events) /\ queue' \in Seq(Events) /\ Len(queue') <= Capacity
      BY <1>1, <2>1, ThreadsDiffer
    <3>2. is_open' \in BOOLEAN /\ shutdown' \in BOOLEAN /\ next' \in Nat /\ owed' \subseteq Events
      BY <1>1 DEF QInv, QueueTypeOK
    <3> QED
      BY <1>1, <1>2, <2>2, <3>1, <3>2 DEF QueueTypeOK, MainAt, WorkerAt, FrontendAt
<1>4. HandsWhileAt'
  BY <1>1, <1>2, ThreadsDiffer DEF HandsWhileAt
<1> QED
  BY <1>1, <1>2, <1>3, <1>4 DEF QInv, OwedIsHeld, StopOrder, AsleepWhere, NoMissedWakeup

-----------------------------------------------------------------------------
(***************************************************************************)
(* Steps of the events                                                     *)
(***************************************************************************)
\* What the Builder completes is added at the end, and owed if it can be
\* stored.
LEMMA CompletedGrows ==
  ASSUME QInv, NEW n \in Nat, Completes(n)
  PROVE  /\ completed' \in Seq(Events) /\ next' \in Nat /\ owed' \subseteq Events
         /\ n = 0 => completed' = completed
         /\ \A e \in owed' \ owed : Fragments[e] > 0 /\ Among(e, completed')
         /\ \A e : Among(e, completed) => Among(e, completed')
<1> DEFINE events == [i \in 1..n |-> next + i - 1]
<1>1. /\ completed' = completed \o events /\ next' = next + n
      /\ \A i \in 1..n : next + i - 1 \in Events
      /\ owed' = owed \cup {e \in {next + i - 1 : i \in 1..n} : Fragments[e] > 0}
  BY DEF Completes
<1>2. events \in Seq(Events) /\ Len(events) = n
  BY <1>1
<1>3. /\ completed \in Seq(Events) /\ next \in Nat /\ owed \subseteq Events
  BY DEF QInv, QueueTypeOK
<1> HIDE DEF events
<1>4. /\ completed' \in Seq(Events)
      /\ \A i \in 1..Len(completed) : i \in 1..Len(completed') /\ completed'[i] = completed[i]
      /\ \A i \in 1..n : /\ Len(completed) + i \in 1..Len(completed')
                         /\ completed'[Len(completed) + i] = events[i]
  BY <1>1, <1>2, <1>3
<1>5. n = 0 => completed' = completed
  BY <1>1, <1>2, <1>3
<1>6. ASSUME NEW e, Among(e, completed) PROVE Among(e, completed')
  BY <1>3, <1>4, <1>6 DEF Among
<1>7. ASSUME NEW e \in owed' \ owed PROVE Fragments[e] > 0 /\ Among(e, completed')
  <2>1. PICK i \in 1..n : e = next + i - 1
    BY <1>1
  <2>2. e = events[i]
    BY <2>1 DEF events
  <2>3. DOMAIN completed' = 1..Len(completed')
    BY <1>4
  <2>4. /\ Len(completed) + i \in DOMAIN completed'
        /\ completed'[Len(completed) + i] = e
    BY <1>4, <2>2, <2>3
  <2>5. Among(e, completed')
    BY <2>4 DEF Among
  <2> QED
    BY <1>1, <2>5
<1>8. next' \in Nat
  BY <1>1, <1>3
<1>9. ASSUME NEW e \in owed' PROVE e \in Events
  BY <1>1, <1>3
<1> QED
  BY <1>4, <1>5, <1>6, <1>7, <1>8, <1>9, Zenon

LEMMA AddFragmentStep ==
  ASSUME QInv, NEW f \in Frontends, NEW n \in MostAtOnce, AddFragment(f, n)
  PROVE  QInv'
<1>1. /\ at[f] = "loop" /\ at' = [at EXCEPT ![f] = "drain"] /\ Completes(n) /\ n \in Nat
      /\ UNCHANGED <<is_open, queue, shutdown, sleeping, hand>>
  BY DEF AddFragment, queueVars, storeVars, MostAtOnce
<1>2. /\ completed' \in Seq(Events) /\ next' \in Nat /\ owed' \subseteq Events
      /\ \A e \in owed' \ owed : Fragments[e] > 0 /\ Among(e, completed')
      /\ \A e : Among(e, completed) => Among(e, completed')
  BY <1>1, CompletedGrows
<1>3. OwedIsHeld'
  BY <1>1, <1>2 DEF QInv, OwedIsHeld
<1>4. /\ DOMAIN at' = Threads /\ at'[f] = "drain" /\ at'["main"] = at["main"]
      /\ at'["worker"] = at["worker"] /\ \A t \in Threads \ {f} : at'[t] = at[t]
  BY <1>1, ThreadsDiffer DEF QInv, QueueTypeOK
<1>5. QueueTypeOK'
  BY <1>1, <1>2, <1>4, ThreadsDiffer DEF QInv, QueueTypeOK, FrontendAt
<1>6. HandsWhileAt' /\ StopOrder'
  BY <1>1, <1>4, ThreadsDiffer DEF QInv, QueueTypeOK, HandsWhileAt, StopOrder
<1>7. AsleepWhere' /\ NoMissedWakeup'
  BY <1>1, <1>4, ThreadsDiffer
     DEF QInv, QueueTypeOK, AsleepWhere, NoMissedWakeup, WaitsFor, Drained, Inflight
<1> QED
  BY <1>3, <1>5, <1>6, <1>7 DEF QInv

LEMMA StopBuilderStep ==
  ASSUME QInv, NEW n \in MostAtOnce, StopBuilder(n)
  PROVE  QInv'
<1>1. /\ at["main"] = "frontends" /\ at' = [at EXCEPT !["main"] = "drain"]
      /\ \A f \in Frontends : at[f] = "off"
      /\ Completes(n) /\ n \in Nat /\ (at["worker"] = "off" => n = 0)
      /\ UNCHANGED <<is_open, queue, shutdown, sleeping, hand>>
  BY DEF StopBuilder, Goto, queueVars, storeVars, MostAtOnce
<1>2. /\ completed' \in Seq(Events) /\ next' \in Nat /\ owed' \subseteq Events
      /\ n = 0 => completed' = completed
      /\ \A e \in owed' \ owed : Fragments[e] > 0 /\ Among(e, completed')
      /\ \A e : Among(e, completed) => Among(e, completed')
  BY <1>1, CompletedGrows
<1>3. OwedIsHeld'
  BY <1>1, <1>2 DEF QInv, OwedIsHeld
<1>4. /\ DOMAIN at' = Threads /\ at'["main"] = "drain"
      /\ at'["worker"] = at["worker"] /\ \A t \in Threads \ {"main"} : at'[t] = at[t]
  BY <1>1, ThreadsDiffer DEF QInv, QueueTypeOK
<1>5. QueueTypeOK'
  BY <1>1, <1>2, <1>4, ThreadsDiffer DEF QInv, QueueTypeOK, MainAt
<1>6. HandsWhileAt' /\ StopOrder'
  BY <1>1, <1>2, <1>4, ThreadsDiffer DEF QInv, QueueTypeOK, HandsWhileAt, StopOrder
<1>7. AsleepWhere' /\ NoMissedWakeup'
  BY <1>1, <1>4, ThreadsDiffer
     DEF QInv, QueueTypeOK, AsleepWhere, NoMissedWakeup, WaitsFor, Drained, Inflight
<1> QED
  BY <1>3, <1>5, <1>6, <1>7 DEF QInv

\* The events in a producer's hands, after it has taken those completed:
\* all that can be stored.
LEMMA DrainTakes ==
  ASSUME QInv, NEW p \in Producers, DrainCompleted(p)
  PROVE  /\ hand' \in [Threads -> Seq(Events)]
         /\ \A t \in Threads \ {p} : hand'[t] = hand[t]
         /\ hand'[p] # <<>> <=> Storable # {}
         /\ \A e : Among(e, completed) /\ Fragments[e] > 0 => Among(e, hand'[p])
<1>1. completed \in Seq(Events) /\ hand \in [Threads -> Seq(Events)] /\ p \in Threads
  BY ThreadsDiffer DEF QInv, QueueTypeOK
<1>2. Storable \subseteq 1..Len(completed) /\ IsFiniteSet(Storable) /\ Cardinality(Storable) \in Nat
  <2>1. Storable \subseteq 1..Len(completed) /\ Len(completed) \in Nat
    BY <1>1 DEF Storable
  <2>2. IsFiniteSet(1..Len(completed))
    BY <2>1, FS_Interval
  <2>3. IsFiniteSet(Storable)
    BY <2>1, <2>2, FS_Subset
  <2> QED
    BY <2>1, <2>3, FS_CardinalityType
<1> DEFINE n == Cardinality(Storable)
<1>3. PICK places \in InOrder(Storable) :
        hand' = [hand EXCEPT ![p] = [i \in DOMAIN places |-> completed[places[i]]]]
  BY DEF DrainCompleted
<1>4. /\ places \in [1..n -> Storable]
      /\ \A k \in Storable : \E i \in 1..n : places[i] = k
  BY <1>3 DEF InOrder
<1>5. n \in Nat
  BY <1>2
<1> HIDE DEF n
<1> DEFINE h == [i \in 1..n |-> completed[places[i]]]
<1>6. h \in Seq(Events) /\ Len(h) = n
  <2>1. ASSUME NEW i \in 1..n PROVE completed[places[i]] \in Events
    <3>1. places[i] \in 1..Len(completed)
      BY <1>2, <1>4
    <3> QED
      BY <1>1, <3>1
  <2> QED
    BY <1>5, <2>1
<1>7. hand' = [hand EXCEPT ![p] = h]
  BY <1>3, <1>4
<1>8. ASSUME NEW e, Among(e, completed), Fragments[e] > 0
      PROVE  Among(e, h)
  <2>1. PICK k \in DOMAIN completed : completed[k] = e
    BY <1>8 DEF Among
  <2>2. k \in Storable
    BY <1>8, <2>1 DEF Storable
  <2>3. PICK i \in 1..n : places[i] = k
    BY <1>4, <2>2
  <2> QED
    BY <1>6, <2>1, <2>3 DEF Among
<1>9. h # <<>> <=> Storable # {}
  <2>1. CASE Storable = {}
    <3>1. 1..n = {}
      BY <1>4, <2>1
    <3> QED
      BY <1>5, <1>6, <2>1, <3>1
  <2>2. CASE Storable # {}
    <3>1. \E i \in 1..n : TRUE
      BY <1>4, <2>2
    <3> QED
      BY <1>5, <1>6, <2>2, <3>1
  <2> QED
    BY <2>1, <2>2
<1> HIDE DEF h
<1> QED
  BY <1>1, <1>6, <1>7, <1>8, <1>9

LEMMA DrainStep ==
  ASSUME QInv, NEW p \in Producers, DrainCompleted(p)
  PROVE  QInv'
<1>1. /\ at[p] = "drain" /\ completed' = <<>>
      /\ at' = [at EXCEPT ![p] = IF Storable = {} THEN Back(p) ELSE "push"]
      /\ UNCHANGED <<is_open, queue, shutdown, sleeping, next, owed>>
  BY DEF DrainCompleted, queueVars, storeVars
<1>2. /\ hand' \in [Threads -> Seq(Events)]
      /\ \A t \in Threads \ {p} : hand'[t] = hand[t]
      /\ hand'[p] # <<>> <=> Storable # {}
      /\ \A e : Among(e, completed) /\ Fragments[e] > 0 => Among(e, hand'[p])
  BY DrainTakes
<1>3. /\ DOMAIN at' = Threads /\ p \in Threads
      /\ at'[p] = (IF Storable = {} THEN Back(p) ELSE "push")
      /\ \A t \in Threads \ {p} : at'[t] = at[t]
  BY <1>1, ThreadsDiffer DEF QInv, QueueTypeOK
<1>4. hand[p] = <<>>
  BY <1>1 DEF QInv, HandsWhileAt
<1>5. Storable # {} => completed # <<>>
  BY DEF Storable
<1>6. OwedIsHeld'
  <2>1. ASSUME NEW e \in owed
        PROVE  Fragments[e] > 0 /\ (Among(e, queue) \/ \E t \in Threads : Among(e, hand'[t]))
    <3>1. CASE Among(e, completed)
      BY <1>2, <1>3, <3>1 DEF QInv, OwedIsHeld
    <3>2. CASE Among(e, queue)
      BY <3>2 DEF QInv, OwedIsHeld
    <3>3. ASSUME NEW t \in Threads, Among(e, hand[t])
          PROVE  \E u \in Threads : Among(e, hand'[u])
      <4>1. ~Among(e, <<>>)
        BY DEF Among
      <4> QED
        BY <1>2, <1>4, <3>3, <4>1
    <3> QED
      BY <3>1, <3>2, <3>3 DEF QInv, OwedIsHeld
  <2> QED
    BY <1>1, <2>1 DEF OwedIsHeld
<1>7. QueueTypeOK'
  <2>1. <<>> \in Seq(Events)
    OBVIOUS
  <2>2. at'["main"] \in MainAt /\ at'["worker"] \in WorkerAt /\ \A f \in Frontends : at'[f] \in FrontendAt
    BY <1>1, <1>3, ThreadsDiffer DEF QInv, QueueTypeOK, Back, MainAt, WorkerAt, FrontendAt
  <2> QED
    BY <1>1, <1>2, <1>3, <2>1, <2>2 DEF QInv, QueueTypeOK
<1>8. HandsWhileAt'
  BY <1>1, <1>2, <1>3, <1>4, ThreadsDiffer DEF QInv, HandsWhileAt, Back
<1>9. StopOrder'
  <2>1. CASE p = "main"
    BY <1>1, <1>3, <1>5, <2>1, ThreadsDiffer DEF QInv, StopOrder, Back
  <2>2. CASE p \in Frontends
    BY <1>1, <1>3, <2>2, ThreadsDiffer DEF QInv, StopOrder, Back
  <2> QED
    BY <2>1, <2>2, ThreadsDiffer
<1>10. AsleepWhere' /\ NoMissedWakeup'
  BY <1>1, <1>3, ThreadsDiffer
     DEF QInv, QueueTypeOK, AsleepWhere, NoMissedWakeup, WaitsFor, Drained, Inflight, Back
<1> QED
  BY <1>6, <1>7, <1>8, <1>9, <1>10 DEF QInv

\* What is handed over is in the queue, what is not stays in the hands.
LEMMA EnqueueMoves ==
  ASSUME QInv, NEW p \in Producers, Enqueue(p)
  PROVE  /\ queue' \in Seq(Events) /\ Len(queue') <= Capacity /\ Len(queue') >= Len(queue)
         /\ hand' \in [Threads -> Seq(Events)]
         /\ \A t \in Threads \ {p} : hand'[t] = hand[t]
         /\ at' = [at EXCEPT ![p] = IF hand'[p] = <<>> THEN Back(p) ELSE "push"]
         /\ Len(queue) < Capacity => queue' # <<>>
         /\ hand'[p] # <<>> => Len(queue') = Capacity
         /\ \A e : Among(e, queue) => Among(e, queue')
         /\ \A e : Among(e, hand[p]) => Among(e, queue') \/ Among(e, hand'[p])
         /\ sleeping' \subseteq sleeping \cup (IF hand'[p] = <<>> THEN {} ELSE {p})
         /\ Len(queue) < Capacity => \E s \in AfterNotifyOne(Len(queue') - Len(queue)) :
              sleeping' = s \cup (IF hand'[p] = <<>> THEN {} ELSE {p})
<1>1. /\ queue \in Seq(Events) /\ Len(queue) <= Capacity /\ Capacity \in Nat \ {0}
      /\ hand \in [Threads -> Seq(Events)] /\ p \in Threads
  BY ThreadsDiffer DEF QInv, QueueTypeOK
<1>2. hand[p] \in Seq(Events) /\ hand[p] # <<>>
  BY <1>1 DEF QInv, HandsWhileAt, Enqueue
<1> DEFINE n == Lesser(Len(hand[p]), Capacity - Len(queue))
           rest == SubSeq(hand[p], n + 1, Len(hand[p]))
           first == SubSeq(hand[p], 1, n)
<1>3. /\ queue' = queue \o first
      /\ hand' = [hand EXCEPT ![p] = rest]
      /\ at' = [at EXCEPT ![p] = IF rest = <<>> THEN Back(p) ELSE "push"]
      /\ \E s \in AfterNotifyOne(n) : sleeping' = s \cup (IF rest = <<>> THEN {} ELSE {p})
  BY DEF Enqueue
<1>4. /\ n \in Nat /\ n <= Len(hand[p]) /\ n <= Capacity - Len(queue)
      /\ n = Len(hand[p]) \/ n = Capacity - Len(queue)
      /\ Len(hand[p]) > 0
  BY <1>1, <1>2 DEF Lesser
<1> HIDE DEF n
<1>5. /\ first \in Seq(Events) /\ Len(first) = n /\ \A i \in 1..n : first[i] = hand[p][i]
      /\ rest \in Seq(Events) /\ Len(rest) = Len(hand[p]) - n
      /\ \A i \in 1..Len(hand[p]) : i > n => rest[i - n] = hand[p][i]
  BY <1>2, <1>4
<1> HIDE DEF first, rest
<1>6. hand'[p] = rest /\ hand' \in [Threads -> Seq(Events)] /\ \A t \in Threads \ {p} : hand'[t] = hand[t]
  BY <1>1, <1>3, <1>5
<1>7. /\ queue' \in Seq(Events) /\ Len(queue') = Len(queue) + n
      /\ \A i \in 1..Len(queue) : queue'[i] = queue[i]
      /\ \A i \in 1..n : queue'[Len(queue) + i] = hand[p][i]
  <2>1. /\ queue' = queue \o first /\ queue \in Seq(Events) /\ first \in Seq(Events)
        /\ n \in Nat /\ Len(first) = n
    BY <1>1, <1>3, <1>4, <1>5
  <2>2. /\ queue \o first \in Seq(Events) /\ Len(queue \o first) = Len(queue) + Len(first)
        /\ \A i \in 1..Len(queue) : (queue \o first)[i] = queue[i]
        /\ \A i \in 1..Len(first) : (queue \o first)[Len(queue) + i] = first[i]
    <3>1. ASSUME NEW s \in Seq(Events), NEW r \in Seq(Events)
          PROVE  /\ s \o r \in Seq(Events) /\ Len(s \o r) = Len(s) + Len(r)
                 /\ \A i \in 1..Len(s) : (s \o r)[i] = s[i]
                 /\ \A i \in 1..Len(r) : (s \o r)[Len(s) + i] = r[i]
      OBVIOUS
    <3> QED
      BY <2>1, <3>1, Zenon
  <2> QED
    BY <1>5, <2>1, <2>2
<1>8. /\ Len(queue') <= Capacity /\ Len(queue') >= Len(queue) /\ Len(queue') - Len(queue) = n
      /\ Len(queue) < Capacity => queue' # <<>>
  BY <1>1, <1>4, <1>7
<1>9. rest # <<>> => Len(queue') = Capacity
  BY <1>1, <1>2, <1>4, <1>5, <1>7
<1>10. ASSUME NEW e, Among(e, queue) PROVE Among(e, queue')
  BY <1>1, <1>4, <1>7, <1>10 DEF Among
<1>11. ASSUME NEW e, Among(e, hand[p]) PROVE Among(e, queue') \/ Among(e, rest)
  <2>1. PICK i \in 1..Len(hand[p]) : hand[p][i] = e
    BY <1>2, <1>11 DEF Among
  <2>2. CASE i <= n
    <3>1. Len(queue) + i \in 1..Len(queue') /\ queue'[Len(queue) + i] = e
      BY <1>1, <1>4, <1>7, <2>1, <2>2
    <3> QED
      BY <1>7, <3>1 DEF Among
  <2>3. CASE i > n
    <3>1. i - n \in 1..Len(rest) /\ rest[i - n] = e
      BY <1>2, <1>4, <1>5, <2>1, <2>3
    <3> QED
      BY <1>5, <3>1 DEF Among
  <2> QED
    BY <1>2, <1>4, <2>2, <2>3
<1>12. sleeping' \subseteq sleeping \cup (IF rest = <<>> THEN {} ELSE {p})
  BY <1>3 DEF AfterNotifyOne
<1> QED
  BY <1>3, <1>6, <1>7, <1>8, <1>9, <1>10, <1>11, <1>12

\* While a producer pushes and there is room, only the worker can be
\* asleep, and with an empty queue.
LEMMA AsleepWhilePushing ==
  ASSUME QInv, NEW p \in Producers, at[p] = "push", Len(queue) < Capacity
  PROVE  sleeping = {} \/ (sleeping = {"worker"} /\ queue = <<>>)
<1>1. \A t \in sleeping : t = "worker" /\ queue = <<>>
  BY ThreadsDiffer DEF QInv, AsleepWhere, NoMissedWakeup, WaitsFor, StopOrder
<1> QED
  BY <1>1

\* notify_one wakes a thread that is alone.
LEMMA NotifyOneWakes ==
  ASSUME sleeping = {} \/ sleeping = {"worker"}, NEW n \in Nat, n > 0, NEW s \in AfterNotifyOne(n)
  PROVE  s = {}
<1>1. s \subseteq sleeping /\ Cardinality(s) = Cardinality(sleeping) - Lesser(n, Cardinality(sleeping))
  BY DEF AfterNotifyOne
<1>2. /\ IsFiniteSet({}) /\ Cardinality({}) = 0
      /\ IsFiniteSet({"worker"}) /\ Cardinality({"worker"}) = 1
  BY FS_EmptySet, FS_Singleton
<1>3. CASE sleeping = {}
  BY <1>1, <1>3
<1>4. CASE sleeping = {"worker"}
  <2>1. Cardinality(s) = 0
    BY <1>1, <1>2, <1>4 DEF Lesser
  <2>2. s # {"worker"}
    BY <1>2, <2>1
  <2> QED
    BY <1>1, <1>4, <2>2
<1> QED
  BY <1>3, <1>4

LEMMA EnqueueStep ==
  ASSUME QInv, NEW p \in Producers, Enqueue(p)
  PROVE  QInv'
<1>1. /\ at[p] = "push" /\ p \notin sleeping
      /\ UNCHANGED <<is_open, completed, shutdown, next, owed>>
  BY DEF Enqueue, Awake, storeVars
<1>2. /\ queue' \in Seq(Events) /\ Len(queue') <= Capacity /\ Len(queue') >= Len(queue)
      /\ hand' \in [Threads -> Seq(Events)]
      /\ \A t \in Threads \ {p} : hand'[t] = hand[t]
      /\ at' = [at EXCEPT ![p] = IF hand'[p] = <<>> THEN Back(p) ELSE "push"]
      /\ Len(queue) < Capacity => queue' # <<>>
      /\ hand'[p] # <<>> => Len(queue') = Capacity
      /\ \A e : Among(e, queue) => Among(e, queue')
      /\ \A e : Among(e, hand[p]) => Among(e, queue') \/ Among(e, hand'[p])
      /\ sleeping' \subseteq sleeping \cup (IF hand'[p] = <<>> THEN {} ELSE {p})
      /\ Len(queue) < Capacity => \E s \in AfterNotifyOne(Len(queue') - Len(queue)) :
           sleeping' = s \cup (IF hand'[p] = <<>> THEN {} ELSE {p})
  BY EnqueueMoves
<1>3. /\ DOMAIN at' = Threads /\ p \in Threads
      /\ at'[p] = (IF hand'[p] = <<>> THEN Back(p) ELSE "push")
      /\ \A t \in Threads \ {p} : at'[t] = at[t]
  BY <1>1, <1>2, ThreadsDiffer DEF QInv, QueueTypeOK
<1>4. /\ queue \in Seq(Events) /\ Len(queue) <= Capacity /\ Capacity \in Nat \ {0}
      /\ sleeping \subseteq Threads
  BY ThreadsDiffer DEF QInv, QueueTypeOK, AsleepWhere
<1>5. OwedIsHeld'
  <2>1. ASSUME NEW e \in owed
        PROVE  /\ Fragments[e] > 0
               /\ Among(e, completed) \/ Among(e, queue') \/ \E t \in Threads : Among(e, hand'[t])
    <3>1. Fragments[e] > 0 /\ (Among(e, completed) \/ Among(e, queue) \/ \E t \in Threads : Among(e, hand[t]))
      BY DEF QInv, OwedIsHeld
    <3>2. ASSUME NEW t \in Threads, Among(e, hand[t])
          PROVE  Among(e, queue') \/ \E u \in Threads : Among(e, hand'[u])
      BY <1>2, <1>3, <3>2
    <3> QED
      BY <1>2, <3>1, <3>2
  <2> QED
    BY <1>1, <2>1 DEF OwedIsHeld
<1>6. QueueTypeOK'
  <2>1. at'["main"] \in MainAt /\ at'["worker"] \in WorkerAt /\ \A f \in Frontends : at'[f] \in FrontendAt
    BY <1>1, <1>3, ThreadsDiffer DEF QInv, QueueTypeOK, Back, MainAt, WorkerAt, FrontendAt
  <2> QED
    BY <1>1, <1>2, <1>3, <2>1 DEF QInv, QueueTypeOK
<1>7. HandsWhileAt'
  BY <1>1, <1>2, <1>3, ThreadsDiffer DEF QInv, HandsWhileAt, Back
<1>8. at["worker"] \notin {"off", "done"} /\ at'["worker"] = at["worker"] /\ ~shutdown
  BY <1>1, <1>3, ThreadsDiffer DEF QInv, StopOrder
<1>9. StopOrder'
  <2>1. CASE p = "main"
    BY <1>1, <1>3, <1>8, <2>1, ThreadsDiffer DEF QInv, StopOrder, Back
  <2>2. CASE p \in Frontends
    BY <1>1, <1>3, <1>8, <2>2, ThreadsDiffer DEF QInv, StopOrder, Back
  <2> QED
    BY <2>1, <2>2, ThreadsDiffer
<1>10. CASE Len(queue) < Capacity
  \* only the worker may have slept, and it has been woken
  <2>1. sleeping = {} \/ (sleeping = {"worker"} /\ queue = <<>>)
    BY <1>1, <1>10, AsleepWhilePushing
  <2>2. sleeping' \subseteq IF hand'[p] = <<>> THEN {} ELSE {p}
    <3>1. PICK s \in AfterNotifyOne(Len(queue') - Len(queue)) :
            sleeping' = s \cup (IF hand'[p] = <<>> THEN {} ELSE {p})
      BY <1>2, <1>10
    <3>2. Len(queue') - Len(queue) \in Nat
      BY <1>2, <1>4
    <3>3. CASE Len(queue') - Len(queue) > 0
      <4>1. s = {}
        BY <2>1, <3>2, <3>3, NotifyOneWakes
      <4> QED
        BY <3>1, <4>1
    <3>4. CASE Len(queue') = Len(queue)
      <4>1. queue # <<>>
        BY <1>2, <1>4, <1>10, <3>4
      <4> QED
        BY <1>2, <2>1, <4>1
    <3> QED
      BY <1>2, <1>4, <3>3, <3>4
  <2>3. \A t \in sleeping' : t = p /\ hand'[p] # <<>>
    BY <2>2
  <2> QED
    BY <1>2, <1>3, <1>5, <1>6, <1>7, <1>9, <2>3, ThreadsDiffer
       DEF QInv, AsleepWhere, NoMissedWakeup, WaitsFor
<1>11. CASE Len(queue) = Capacity
  <2>1. Len(queue') = Capacity /\ queue # <<>> /\ queue' # <<>>
    BY <1>2, <1>4, <1>11
  <2>2. \A t \in sleeping : t \in Producers /\ at[t] = "push" /\ t # p
    BY <1>1, <2>1, ThreadsDiffer DEF QInv, AsleepWhere, NoMissedWakeup, WaitsFor, StopOrder
  <2>3. \A t \in sleeping' : t \in Producers /\ at'[t] = "push"
    BY <1>2, <1>3, <2>2, ThreadsDiffer
  <2>4. AsleepWhere' /\ NoMissedWakeup'
    BY <1>4, <2>1, <2>3, ThreadsDiffer DEF AsleepWhere, NoMissedWakeup, WaitsFor
  <2> QED
    BY <1>5, <1>6, <1>7, <1>9, <2>4 DEF QInv
<1> QED
  BY <1>4, <1>10, <1>11

-----------------------------------------------------------------------------
(***************************************************************************)
(* The worker                                                              *)
(***************************************************************************)
LEMMA WorkerTakesStep ==
  ASSUME QInv, WorkerTurn, TakesNext
  PROVE  QInv'
<1>1. /\ at["worker"] \in {"loop", "written"} /\ queue # <<>>
      /\ queue' = Tail(queue) /\ hand' = [hand EXCEPT !["worker"] = <<Head(queue)>>]
      /\ at' = [at EXCEPT !["worker"] = "write"] /\ sleeping' = {}
      /\ UNCHANGED <<is_open, completed, shutdown, next, owed>>
  BY DEF WorkerTurn, TakesNext, AfterTake, storeVars
<1>2. /\ queue \in Seq(Events) /\ Len(queue) <= Capacity /\ Capacity \in Nat
      /\ hand \in [Threads -> Seq(Events)]
  BY ThreadsDiffer DEF QInv, QueueTypeOK
<1>3. /\ Head(queue) \in Events /\ queue' \in Seq(Events) /\ Len(queue') <= Capacity
      /\ \A e : Among(e, queue) => e = Head(queue) \/ Among(e, queue')
  <2>1. /\ Head(queue) = queue[1] /\ Len(queue) > 0 /\ queue' \in Seq(Events)
        /\ Len(queue') = Len(queue) - 1 /\ \A i \in 1..Len(queue') : queue'[i] = queue[i + 1]
    BY <1>1, <1>2
  <2>2. ASSUME NEW e, Among(e, queue) PROVE e = Head(queue) \/ Among(e, queue')
    <3>1. PICK i \in 1..Len(queue) : queue[i] = e
      BY <1>2, <2>2 DEF Among
    <3>2. CASE i = 1
      BY <2>1, <3>1, <3>2
    <3>3. CASE i > 1
      <4>1. i - 1 \in 1..Len(queue') /\ queue'[i - 1] = e
        BY <1>2, <2>1, <3>1, <3>3
      <4> QED
        BY <2>1, <4>1 DEF Among
    <3> QED
      BY <1>2, <3>2, <3>3
  <2> QED
    BY <1>2, <2>1, <2>2
<1>4. /\ DOMAIN at' = Threads /\ at'["worker"] = "write" /\ \A t \in Threads \ {"worker"} : at'[t] = at[t]
      /\ hand'["worker"] = <<Head(queue)>> /\ \A t \in Threads \ {"worker"} : hand'[t] = hand[t]
      /\ hand["worker"] = <<>>
  BY <1>1, <1>2, ThreadsDiffer DEF QInv, QueueTypeOK, HandsWhileAt
<1>5. hand' \in [Threads -> Seq(Events)] /\ Len(hand'["worker"]) = 1 /\ Among(Head(queue), hand'["worker"])
  <2>1. <<Head(queue)>> \in Seq(Events) /\ Len(<<Head(queue)>>) = 1
    BY <1>3
  <2>2. Among(Head(queue), <<Head(queue)>>)
    BY DEF Among
  <2> QED
    BY <1>1, <1>2, <1>4, <2>1, <2>2
<1>6. OwedIsHeld'
  <2>1. ASSUME NEW e \in owed
        PROVE  /\ Fragments[e] > 0
               /\ Among(e, completed) \/ Among(e, queue') \/ \E t \in Threads : Among(e, hand'[t])
    <3>1. Fragments[e] > 0 /\ (Among(e, completed) \/ Among(e, queue) \/ \E t \in Threads : Among(e, hand[t]))
      BY DEF QInv, OwedIsHeld
    <3>2. ASSUME NEW t \in Threads, Among(e, hand[t])
          PROVE  \E u \in Threads : Among(e, hand'[u])
      <4>1. ~Among(e, <<>>)
        BY DEF Among
      <4> QED
        BY <1>4, <3>2, <4>1
    <3> QED
      BY <1>3, <1>5, <3>1, <3>2, ThreadsDiffer
  <2> QED
    BY <1>1, <2>1 DEF OwedIsHeld
<1>7. QueueTypeOK'
  BY <1>1, <1>3, <1>4, <1>5, ThreadsDiffer DEF QInv, QueueTypeOK, WorkerAt
<1>8. HandsWhileAt' /\ StopOrder'
  BY <1>1, <1>4, <1>5, ThreadsDiffer DEF QInv, HandsWhileAt, StopOrder
<1> QED
  BY <1>1, <1>6, <1>7, <1>8 DEF QInv, AsleepWhere, NoMissedWakeup

LEMMA WorkerWaitsStep ==
  ASSUME QInv, WorkerTurn, ~TakesNext
  PROVE  QInv'
<1>1. /\ at["worker"] \in {"loop", "written"} /\ "worker" \notin sleeping /\ queue = <<>>
      /\ at' = [at EXCEPT !["worker"] = IF shutdown THEN "done" ELSE "loop"]
      /\ sleeping' = IF shutdown THEN AfterItem ELSE AfterItem \cup {"worker"}
      /\ UNCHANGED <<is_open, completed, queue, shutdown, hand, next, owed>>
  BY DEF WorkerTurn, TakesNext, storeVars, Awake
<1>2. /\ DOMAIN at' = Threads /\ at'["worker"] = (IF shutdown THEN "done" ELSE "loop")
      /\ \A t \in Threads \ {"worker"} : at'[t] = at[t]
  BY <1>1, ThreadsDiffer DEF QInv, QueueTypeOK
<1>3. AfterItem \subseteq sleeping /\ (at["worker"] = "written" => AfterItem = {})
  BY DEF AfterItem, Inflight
<1>4. QueueTypeOK' /\ OwedIsHeld'
  BY <1>1, <1>2, HeldStays, ThreadsDiffer DEF QInv, QueueTypeOK, WorkerAt
<1>5. HandsWhileAt' /\ StopOrder'
  BY <1>1, <1>2, ThreadsDiffer DEF QInv, HandsWhileAt, StopOrder
<1>6. AsleepWhere' /\ NoMissedWakeup'
  <2>1. ASSUME NEW t \in sleeping', t # "worker"
        PROVE  /\ t \in sleeping /\ at["worker"] = "loop" /\ at'[t] = at[t]
               /\ (t \in Producers /\ at[t] = "push") \/ (t = "main" /\ at[t] = "wait")
    <3>1. t \in AfterItem
      BY <1>1, <2>1
    <3>2. t \in sleeping /\ at["worker"] = "loop"
      BY <1>1, <1>3, <3>1
    <3> QED
      BY <1>2, <2>1, <3>2, ThreadsDiffer DEF QInv, AsleepWhere
  <2>2. ASSUME NEW t \in sleeping', t # "worker" PROVE FALSE
    BY <1>1, <1>2, <2>1, <2>2, ThreadsDiffer DEF QInv, NoMissedWakeup, WaitsFor, Drained, Inflight
  <2>3. ASSUME "worker" \in sleeping' PROVE ~shutdown
    BY <1>1, <1>3, <2>3
  <2> QED
    BY <1>1, <1>2, <2>2, <2>3, ThreadsDiffer DEF AsleepWhere, NoMissedWakeup, WaitsFor
<1> QED
  BY <1>4, <1>5, <1>6 DEF QInv

LEMMA WorkerWriteStep ==
  ASSUME QInv, WorkerWrite
  PROVE  QInv'
<1>1. /\ at["worker"] = "write" /\ at' = [at EXCEPT !["worker"] = "written"]
      /\ owed' = owed \ {Head(hand["worker"])} /\ hand' = [hand EXCEPT !["worker"] = <<>>]
      /\ UNCHANGED <<is_open, completed, queue, shutdown, sleeping, next>>
  BY StoreStaysOpen DEF WorkerWrite, queueVars
<1>2. /\ hand \in [Threads -> Seq(Events)] /\ hand["worker"] \in Seq(Events) /\ Len(hand["worker"]) = 1
  BY <1>1, ThreadsDiffer DEF QInv, QueueTypeOK, HandsWhileAt
<1>3. /\ DOMAIN at' = Threads /\ at'["worker"] = "written" /\ \A t \in Threads \ {"worker"} : at'[t] = at[t]
      /\ hand'["worker"] = <<>> /\ \A t \in Threads \ {"worker"} : hand'[t] = hand[t]
  BY <1>1, <1>2, ThreadsDiffer DEF QInv, QueueTypeOK
<1>4. \A e : Among(e, hand["worker"]) => e = Head(hand["worker"])
  BY <1>2 DEF Among
<1>5. OwedIsHeld'
  BY <1>1, <1>3, <1>4 DEF QInv, OwedIsHeld
<1>6. QueueTypeOK'
  <2>1. <<>> \in Seq(Events)
    OBVIOUS
  <2>2. hand' \in [Threads -> Seq(Events)]
    BY <1>1, <1>2, <2>1
  <2> QED
    BY <1>1, <1>3, <2>2, ThreadsDiffer DEF QInv, QueueTypeOK, WorkerAt
<1>7. HandsWhileAt' /\ StopOrder'
  BY <1>1, <1>3, ThreadsDiffer DEF QInv, HandsWhileAt, StopOrder
<1>8. AsleepWhere' /\ NoMissedWakeup'
  BY <1>1, <1>3, ThreadsDiffer DEF QInv, AsleepWhere, NoMissedWakeup, WaitsFor, Drained, Inflight
<1> QED
  BY <1>5, <1>6, <1>7, <1>8 DEF QInv

-----------------------------------------------------------------------------
(***************************************************************************)
(* The theorems                                                            *)
(***************************************************************************)
LEMMA Step ==
  QInv /\ [Next]_vars => QInv'
<1> SUFFICES ASSUME QInv, [Next]_vars PROVE QInv'
  OBVIOUS
<1>1. ASSUME NEW f \in Frontends, NEW n \in MostAtOnce, AddFragment(f, n) PROVE QInv'
  BY <1>1, AddFragmentStep
<1>2. ASSUME NEW f \in Frontends, RawRecord(f) PROVE QInv'
  BY <1>2, RawStep
<1>3. ASSUME NEW p \in Producers, DrainCompleted(p) PROVE QInv'
  BY <1>3, DrainStep
<1>4. ASSUME NEW p \in Producers, Enqueue(p) PROVE QInv'
  BY <1>4, EnqueueStep
<1>5. ASSUME WorkerTurn PROVE QInv'
  BY <1>5, WorkerTakesStep, WorkerWaitsStep
<1>6. ASSUME WorkerWrite PROVE QInv'
  BY <1>6, WorkerWriteStep
<1>7. ASSUME StartOpen \/ StartWorker PROVE QInv'
  BY <1>7, StartOpenStep, StartWorkerStep
<1>8. ASSUME NEW f \in Frontends, StartFrontend(f) \/ StopFrontend(f) PROVE QInv'
  BY <1>8, StartFrontendStep, StopFrontendStep
<1>9. ASSUME NEW n \in MostAtOnce, StopBuilder(n) PROVE QInv'
  BY <1>9, StopBuilderStep
<1>10. ASSUME StopBegin \/ Quiesce \/ WaitDrain \/ WaitTimesOut \/ ShutdownWorker \/ NotifyShutdown
              \/ SpuriousWakeup
       PROVE  QInv'
  BY <1>10, MainStep
<1>11. ASSUME JoinWorker \/ CloseAndReturn \/ Crash PROVE QInv'
  BY <1>11, JoinStep, CloseStep, CrashStep
<1>12. ASSUME UNCHANGED vars PROVE QInv'
  BY <1>12 DEF vars, storeVars, queueVars, QInv, QueueTypeOK, OwedIsHeld, Among, HandsWhileAt, StopOrder,
     AsleepWhere, NoMissedWakeup, WaitsFor, Drained, Inflight
<1> QED
  BY <1>1, <1>2, <1>3, <1>4, <1>5, <1>6, <1>7, <1>8, <1>9, <1>10, <1>11, <1>12
     DEF Next, Feed, StopStep

\* Where the completed events are, and what has ended, at every moment
THEOREM QueueInvariance == Spec => []QInv
  BY Start, Step, PTL DEF Spec

\* The store is closed only when every completed event has been handed to
\* writeCdEvent, for any number of DAQ threads and any capacity, whether or
\* not the wait of 30 s has ended in time.
THEOREM ClosedWithNothingOwed == Spec => []NothingOwedWhenClosed
<1>1. QInv => NothingOwedWhenClosed
  <2> SUFFICES ASSUME QInv, ~is_open, NEW e \in owed PROVE FALSE
    BY DEF NothingOwedWhenClosed
  <2>1. /\ at["worker"] = "off" /\ at["main"] \notin {"opened", "started"}
        /\ completed = <<>> /\ queue = <<>>
        /\ \A t \in Threads : hand[t] = <<>>
    BY ThreadsDiffer DEF QInv, StopOrder, HandsWhileAt
  <2>2. ~Among(e, <<>>)
    BY DEF Among
  <2> QED
    BY <2>1, <2>2 DEF QInv, OwedIsHeld
<1> QED
  BY <1>1, QueueInvariance, PTL

\* Nobody sleeps through what it waits for, although all threads wait on
\* one condition variable and notify_one may wake any of them.
THEOREM NoWakeupIsMissed == Spec => []NoMissedWakeup
<1>1. QInv => NoMissedWakeup
  BY DEF QInv
<1> QED
  BY <1>1, QueueInvariance, PTL

-----------------------------------------------------------------------------
(***************************************************************************)
(* What is on disk: the inductive invariant                                *)
(***************************************************************************)
KeySet == {EventKey[e] : e \in Events}
ShardType ==
  [kind : Streams, run : Nat, id : Nat, recs : Seq(Int), bytes : Nat, torn : Nat,
   stamped : BOOLEAN]

\* The bytes of a shard that its stream has counted: those of a record whose
\* write failed are in the file all the same.
Counted(s) == s.bytes - s.torn

StreamType == [file : Nat, id : Nat, written : Nat, keys : SUBSET KeySet]

StoreTypeOK ==
  /\ is_open \in BOOLEAN
  /\ run_number \in [Streams -> Nat]
  /\ fs \in [Streams -> StreamType]
  /\ disk \in Seq(ShardType)
  /\ saved \subseteq Events

\* A stream counts the bytes of the shard it has open.
OpenShards ==
  \A k \in Streams : fs[k].file # 0 =>
    /\ is_open
    /\ fs[k].file \in DOMAIN disk
    /\ disk[fs[k].file].kind = k
    /\ fs[k].written = Counted(disk[fs[k].file])

-----------------------------------------------------------------------------
(***************************************************************************)
(* Disks: what may happen to the shards                                    *)
(***************************************************************************)
Disks == Seq(ShardType)

\* No record is written: shards are stamped, or created.
Grows(d, d2) ==
  /\ d2 \in Disks /\ Len(d2) >= Len(d)
  /\ \A i \in 1..Len(d) : /\ d2[i].kind = d[i].kind /\ d2[i].run = d[i].run
                          /\ d2[i].recs = d[i].recs /\ Counted(d2[i]) = Counted(d[i])
  /\ \A i \in 1..Len(d2) : i > Len(d) => d2[i].recs = <<>> /\ Counted(d2[i]) <= HeadSize

NewShard(s) == s \in ShardType /\ s.recs = <<>> /\ Counted(s) <= HeadSize

LEMMA GrowsStays ==
  ASSUME NEW d \in Disks
  PROVE  Grows(d, d)
  BY DEF Grows, Disks

LEMMA StampedIs ==
  ASSUME NEW d \in Disks, NEW files
  PROVE  /\ Stamped(d, files) \in Disks /\ Len(Stamped(d, files)) = Len(d)
         /\ Grows(d, Stamped(d, files))
<1> DEFINE t(i) == IF i \in files THEN [d[i] EXCEPT !.stamped = TRUE] ELSE d[i]
<1>1. Stamped(d, files) = [i \in 1..Len(d) |-> t(i)] /\ Len(d) \in Nat
  BY DEF Stamped, Disks
<1>2. ASSUME NEW i \in 1..Len(d)
      PROVE  /\ t(i) \in ShardType
             /\ t(i).kind = d[i].kind /\ t(i).run = d[i].run
             /\ t(i).recs = d[i].recs /\ Counted(t(i)) = Counted(d[i])
  <2>1. d[i] \in ShardType
    BY DEF Disks
  <2>2. t(i) = d[i] \/ t(i) = [d[i] EXCEPT !.stamped = TRUE]
    OBVIOUS
  <2> HIDE DEF t
  <2>3. /\ t(i) \in ShardType /\ t(i).kind = d[i].kind /\ t(i).run = d[i].run
        /\ t(i).recs = d[i].recs /\ t(i).bytes = d[i].bytes /\ t(i).torn = d[i].torn
    BY <2>1, <2>2 DEF ShardType
  <2> QED
    BY <2>3 DEF Counted
<1> HIDE DEF t
<1>3. Stamped(d, files) \in Disks /\ Len(Stamped(d, files)) = Len(d)
  BY <1>1, <1>2 DEF Disks
<1>4. \A i \in 1..Len(d) : Stamped(d, files)[i] = t(i)
  BY <1>1
<1> QED
  BY <1>1, <1>2, <1>3, <1>4 DEF Grows

LEMMA AppendGrows ==
  ASSUME NEW d \in Disks, NEW d2 \in Disks, Grows(d, d2), NEW s, NewShard(s)
  PROVE  /\ Grows(d, Append(d2, s)) /\ Len(Append(d2, s)) = Len(d2) + 1
         /\ Append(d2, s)[Len(d2) + 1] = s
<1>1. /\ Append(d2, s) \in Disks /\ Len(Append(d2, s)) = Len(d2) + 1
      /\ \A i \in 1..Len(d2) : Append(d2, s)[i] = d2[i]
      /\ Append(d2, s)[Len(d2) + 1] = s
      /\ Len(d) \in Nat /\ Len(d2) \in Nat
  BY DEF NewShard, Disks
<1> HIDE DEF NewShard
<1>2. \A i \in 1..Len(Append(d2, s)) : i > Len(d2) => Append(d2, s)[i] = s
  BY <1>1
<1> QED
  BY <1>1, <1>2 DEF Grows, NewShard

LEMMA ShardsAreNew ==
  ASSUME NEW k \in Streams, NEW run \in Nat, NEW id \in Nat
  PROVE  /\ NewShard(Shard(k, run, id)) /\ NewShard(Headless(k, run, id))
         /\ Shard(k, run, id).kind = k /\ Counted(Shard(k, run, id)) = HeadSize
         /\ Shard(k, run, id).run = run
         /\ Headless(k, run, id).kind = k /\ Headless(k, run, id).run = run
<1>1. HeadSize \in Nat
  BY StoreConstants
<1>2. <<>> \in Seq(Int)
  OBVIOUS
<1>3. /\ Shard(k, run, id) \in ShardType /\ Shard(k, run, id).recs = <<>>
      /\ Shard(k, run, id).kind = k /\ Counted(Shard(k, run, id)) = HeadSize
      /\ Shard(k, run, id).run = run
  <2>1. /\ Shard(k, run, id) \in ShardType /\ Shard(k, run, id).recs = <<>>
        /\ Shard(k, run, id).kind = k /\ Shard(k, run, id).run = run
        /\ Shard(k, run, id).bytes = HeadSize /\ Shard(k, run, id).torn = 0
    BY <1>1, <1>2 DEF Shard, ShardType
  <2> QED
    BY <1>1, <2>1 DEF Counted
<1>4. /\ Headless(k, run, id) \in ShardType /\ Headless(k, run, id).recs = <<>>
      /\ Headless(k, run, id).kind = k /\ Counted(Headless(k, run, id)) = 0
      /\ Headless(k, run, id).run = run
  <2>1. Shard(k, run, id).torn = 0
    BY DEF Shard
  <2>2. /\ Headless(k, run, id) \in ShardType /\ Headless(k, run, id).recs = <<>>
        /\ Headless(k, run, id).kind = k /\ Headless(k, run, id).run = run
        /\ Headless(k, run, id).bytes = 0 /\ Headless(k, run, id).torn = 0
    BY <1>3, <2>1 DEF Headless, ShardType
  <2> QED
    BY <2>2 DEF Counted
<1> QED
  BY <1>1, <1>3, <1>4 DEF NewShard

\* From d to d2, shard i gets the records r, which count b bytes.
Adds(d, i, r, b, d2) ==
  /\ d2 \in Disks /\ Len(d2) = Len(d)
  /\ \A l \in 1..Len(d) : d2[l].kind = d[l].kind /\ d2[l].run = d[l].run
  /\ \A l \in 1..Len(d) : l # i => d2[l] = d[l]
  /\ d2[i].recs = d[i].recs \o r /\ Counted(d2[i]) = Counted(d[i]) + b

LEMMA WithRecordsIs ==
  ASSUME NEW d \in Disks, NEW i \in 1..Len(d), NEW r \in Seq(Int), NEW b \in Nat
  PROVE  Adds(d, i, r, b, WithRecords(d, i, r, b))
<1> DEFINE s == [d[i] EXCEPT !.recs = @ \o r, !.bytes = @ + b]
<1>1. d[i] \in ShardType
  BY DEF Disks
<1>2. d[i].recs \o r \in Seq(Int) /\ d[i].bytes + b \in Nat
  BY <1>1 DEF ShardType
<1>3. /\ s \in ShardType /\ s.recs = d[i].recs \o r
      /\ s.bytes = d[i].bytes + b /\ s.torn = d[i].torn
      /\ s.kind = d[i].kind /\ s.run = d[i].run
  BY <1>1, <1>2 DEF ShardType
<1>4. Counted(s) = Counted(d[i]) + b
  BY <1>1, <1>3 DEF Counted, ShardType
<1>5. WithRecords(d, i, r, b) = [d EXCEPT ![i] = s]
  BY DEF WithRecords, Disks
<1> HIDE DEF s
<1> QED
  BY <1>3, <1>4, <1>5 DEF Disks, Adds

\* The torn record is the last of the shard.
LEMMA TornBehind ==
  ASSUME NEW x \in Seq(Int), NEW r \in Seq(Int)
  PROVE  /\ Append(x \o r, Torn) \in Seq(Int) /\ x \o r \in Seq(Int)
         /\ Append(x \o r, Torn) = x \o (r \o <<Torn>>)
         /\ x \o r = x \o (r \o <<>>)
<1> DEFINE t == Torn
<1>1. t \in Int
  BY DEF Torn
<1> HIDE DEF t
<1>2. <<t>> \in Seq(Int) /\ x \o r \in Seq(Int) /\ Append(x \o r, t) \in Seq(Int)
  BY <1>1
<1>3. Append(x \o r, t) = (x \o r) \o <<t>>
  BY <1>1, <1>2, AppendIsConcat
<1>4. (x \o r) \o <<t>> = x \o (r \o <<t>>)
  BY <1>2, ConcatAssociative
<1>5. r = r \o <<>>
  BY ConcatEmptySeq
<1> QED
  BY <1>2, <1>3, <1>4, <1>5 DEF t

\* A shard with such a part behind its records
Tears(x, recs, part) == [x EXCEPT !.recs = recs, !.bytes = @ + part, !.torn = @ + part]

LEMMA TornShard ==
  ASSUME NEW x \in ShardType, NEW recs \in Seq(Int), NEW part \in Nat
  PROVE  /\ Tears(x, recs, part) \in ShardType /\ Tears(x, recs, part).recs = recs
         /\ Tears(x, recs, part).kind = x.kind /\ Tears(x, recs, part).run = x.run
         /\ Counted(Tears(x, recs, part)) = Counted(x)
<1> DEFINE s == Tears(x, recs, part)
<1>1. x.bytes \in Nat /\ x.torn \in Nat
  BY DEF ShardType
<1>2. x.bytes + part \in Nat /\ x.torn + part \in Nat
  BY <1>1
<1>3. /\ s \in ShardType /\ s.recs = recs /\ s.kind = x.kind /\ s.run = x.run
      /\ s.bytes = x.bytes + part /\ s.torn = x.torn + part
  BY <1>2 DEF ShardType, Tears
<1> HIDE DEF s
<1>4. Counted(s) = Counted(x)
  BY <1>1, <1>3 DEF Counted
<1> QED
  BY <1>3, <1>4 DEF s

\* A record of which a part is written counts nothing.
LEMMA WithTornIs ==
  ASSUME NEW d \in Disks, NEW i \in 1..Len(d), NEW r \in Seq(Int), NEW b \in Nat,
         NEW d2, Adds(d, i, r, b, d2), NEW part \in Nat
  PROVE  \E t \in {<<>>, <<Torn>>} : Adds(d, i, r \o t, b, WithTorn(d2, i, part))
<1> DEFINE t == IF part = 0 THEN <<>> ELSE <<Torn>>
           recs == IF part = 0 THEN d2[i].recs ELSE Append(d2[i].recs, Torn)
           s == Tears(d2[i], recs, part)
<1>1. /\ d2 \in Seq(ShardType) /\ i \in 1..Len(d2) /\ Len(d2) = Len(d)
      /\ d2[i] \in ShardType /\ d[i] \in ShardType
      /\ d2[i].recs = d[i].recs \o r
  BY DEF Adds, Disks
<1>2. recs \in Seq(Int) /\ recs = d[i].recs \o (r \o t)
  <2>1. d[i].recs \in Seq(Int) /\ d2[i].recs \in Seq(Int) /\ Torn \in Int
    BY <1>1 DEF ShardType, Torn
  <2> DEFINE x == d[i].recs
  <2>2. x \in Seq(Int) /\ d2[i].recs = x \o r
    BY <1>1, <2>1
  <2> HIDE DEF x
  <2>3. /\ Append(x \o r, Torn) \in Seq(Int) /\ x \o r \in Seq(Int)
        /\ Append(x \o r, Torn) = x \o (r \o <<Torn>>)
        /\ x \o r = x \o (r \o <<>>)
    BY <2>2, TornBehind
  <2>4. recs \in Seq(Int) /\ recs = x \o (r \o t)
    <3>1. CASE part = 0
      BY <2>2, <2>3, <3>1
    <3>2. CASE part # 0
      BY <2>2, <2>3, <3>2, Zenon
    <3> QED
      BY <3>1, <3>2
  <2> QED
    BY <2>4 DEF x
<1>3. WithTorn(d2, i, part) = [d2 EXCEPT ![i] = s]
  BY <1>1 DEF WithTorn, Tears
<1> HIDE DEF recs
<1>4. /\ s \in ShardType /\ s.recs = recs /\ s.kind = d2[i].kind /\ s.run = d2[i].run
      /\ Counted(s) = Counted(d2[i])
  <2> DEFINE x == d2[i]
  <2>1. x \in ShardType /\ recs \in Seq(Int) /\ part \in Nat
    BY <1>1, <1>2
  <2> HIDE DEF x, t
  <2>2. /\ Tears(x, recs, part) \in ShardType /\ Tears(x, recs, part).recs = recs
        /\ Tears(x, recs, part).kind = x.kind /\ Tears(x, recs, part).run = x.run
        /\ Counted(Tears(x, recs, part)) = Counted(x)
    BY <2>1, TornShard
  <2> QED
    BY <2>2 DEF x
<1> HIDE DEF s
<1>5. Adds(d, i, r \o t, b, [d2 EXCEPT ![i] = s])
  <2>1. /\ [d2 EXCEPT ![i] = s] \in Seq(ShardType) /\ Len([d2 EXCEPT ![i] = s]) = Len(d2)
        /\ \A l \in 1..Len(d2) : [d2 EXCEPT ![i] = s][l] = IF l = i THEN s ELSE d2[l]
    BY <1>1, <1>4
  <2> HIDE DEF t
  <2> QED
    BY <1>1, <1>2, <1>4, <2>1 DEF Adds, Disks
<1> QED
  BY <1>3, <1>5

-----------------------------------------------------------------------------
(***************************************************************************)
(* Numbers of runs                                                         *)
(***************************************************************************)
LEMMA LeastNumber ==
  ASSUME NEW S \in SUBSET Nat, S # {}
  PROVE  \E m \in S : \A n \in S : m <= n
<1>1. IsWellFoundedOn(OpToRel(<, Nat), Nat)
  BY NatLessThanWellFounded
<1>2. PICK m \in S : \A n \in S : ~(<<n, m>> \in OpToRel(<, Nat))
  BY <1>1, WFMin
<1>3. \A n \in S : ~(n < m)
  BY <1>2 DEF OpToRel
<1> QED
  BY <1>3

\* A set of numbers with an upper bound has a largest one: its least bound.
LEMMA LargestNumber ==
  ASSUME NEW S \in SUBSET Nat, S # {}, NEW b \in Nat, \A n \in S : n <= b
  PROVE  \E m \in S : \A n \in S : n <= m
<1> DEFINE bounds == {m \in Nat : \A n \in S : n <= m}
<1>1. PICK m \in bounds : \A n \in bounds : m <= n
  <2>1. bounds \in SUBSET Nat /\ b \in bounds
    OBVIOUS
  <2> HIDE DEF bounds
  <2> QED
    BY <2>1, LeastNumber
<1>2. m \in S
  <2>1. SUFFICES ASSUME m \notin S PROVE FALSE
    OBVIOUS
  <2>2. PICK n \in S : TRUE
    OBVIOUS
  <2>3. \A l \in S : l <= m - 1
    BY <1>1, <2>1
  <2>4. m - 1 \in Nat
    BY <1>1, <2>2, <2>3
  <2> QED
    BY <1>1, <2>3, <2>4
<1> QED
  BY <1>1, <1>2

\* The shards are finitely many, so their numbers have a bound: otherwise
\* take the shortest beginning of the disk that has none.
LEMMA RunsBounded ==
  ASSUME NEW d \in Disks
  PROVE  \E b \in Nat : \A i \in DOMAIN d : d[i].run <= b
<1> DEFINE runs == [i \in 1..Len(d) |-> d[i].run]
           bounded == {n \in 0..Len(d) : \E b \in Nat : \A i \in 1..n : runs[i] <= b}
           without == (0..Len(d)) \ bounded
<1>1. Len(d) \in Nat /\ DOMAIN d = 1..Len(d) /\ runs \in [1..Len(d) -> Nat]
  <2>1. \A i \in 1..Len(d) : d[i] \in ShardType
    BY DEF Disks
  <2> QED
    BY <2>1 DEF Disks, ShardType
<1>2. Len(d) \in bounded => \E b \in Nat : \A i \in DOMAIN d : d[i].run <= b
  <2>1. \A i \in DOMAIN d : runs[i] = d[i].run
    BY <1>1
  <2> QED
    BY <1>1, <2>1
<1> HIDE DEF runs
<1>3. 0 \in bounded
  BY <1>1
<1>4. ASSUME NEW m \in 1..Len(d), m - 1 \in bounded PROVE m \in bounded
  <2>1. PICK b \in Nat : \A i \in 1..(m - 1) : runs[i] <= b
    BY <1>4
  <2>2. runs[m] \in Nat /\ b + runs[m] \in Nat
    BY <1>1
  <2>3. ASSUME NEW i \in 1..m PROVE runs[i] <= b + runs[m]
    <3>1. CASE i = m
      BY <2>2, <3>1
    <3>2. CASE i # m
      <4>1. i \in 1..(m - 1) /\ runs[i] \in Nat
        BY <1>1, <3>2
      <4> QED
        BY <2>1, <2>2, <4>1
    <3> QED
      BY <3>1, <3>2
  <2>4. m \in 0..Len(d)
    BY <1>1
  <2> QED
    BY <2>2, <2>3, <2>4
<1>5. without = {}
  <2>1. SUFFICES ASSUME without # {} PROVE FALSE
    OBVIOUS
  <2>2. PICK m \in without : \A n \in without : m <= n
    <3>1. without \in SUBSET Nat
      BY <1>1
    <3> HIDE DEF without
    <3> QED
      BY <2>1, <3>1, LeastNumber
  <2> HIDE DEF bounded
  <2>3. m \in 1..Len(d)
    BY <1>1, <1>3, <2>2
  <2>4. m - 1 \in bounded
    BY <1>1, <2>2, <2>3
  <2> QED
    BY <1>4, <2>2, <2>3, <2>4
<1>6. Len(d) \in bounded
  <2> HIDE DEF bounded
  <2> QED
    BY <1>1, <1>5
<1> QED
  BY <1>2, <1>6, Zenon

\* The number found by the scan is above those of the stream's shards.
LEMMA ScanIsAbove ==
  ASSUME StoreTypeOK, NEW k \in Streams
  PROVE  /\ ScannedRun(k) \in Nat
         /\ k \in Matching => \A i \in DOMAIN disk : disk[i].kind = k => disk[i].run < ScannedRun(k)
<1> DEFINE found == RunsFound(k)
<1>1. \A i \in DOMAIN disk : disk[i].run \in Nat
  <2>1. \A i \in DOMAIN disk : disk[i] \in ShardType
    BY DEF StoreTypeOK
  <2> QED
    BY <2>1 DEF ShardType
<1>2. found \in SUBSET Nat
  BY <1>1 DEF RunsFound
<1>3. PICK b \in Nat : \A n \in found : n <= b
  <2>1. PICK b \in Nat : \A i \in DOMAIN disk : disk[i].run <= b
    BY RunsBounded DEF StoreTypeOK, Disks
  <2> QED
    BY <2>1 DEF RunsFound
<1>4. k \in Matching => \A i \in DOMAIN disk : disk[i].kind = k => disk[i].run \in found
  BY DEF RunsFound
<1>5. CASE found = {}
  BY <1>4, <1>5 DEF ScannedRun, FirstRun
<1>6. CASE found # {}
  <2> DEFINE most == CHOOSE m \in found : \A n \in found : n <= m
  <2>1. most \in found /\ \A n \in found : n <= most
    <3>1. \E m \in found : \A n \in found : n <= m
      <4> HIDE DEF found
      <4> QED
        BY <1>2, <1>3, <1>6, LargestNumber
    <3> QED
      BY <3>1, Zenon
  <2>2. ScannedRun(k) = 1 + most
    BY <1>6 DEF ScannedRun
  <2> HIDE DEF most, found
  <2> QED
    BY <1>1, <1>2, <1>4, <2>1, <2>2
<1> QED
  BY <1>5, <1>6

-----------------------------------------------------------------------------
(***************************************************************************)
(* Opening and closing                                                     *)
(***************************************************************************)
\* What is opened: the shards of a start, in the order of OpenOrder
LEMMA OpenOrderIs ==
  /\ Len(OpenOrder) \in {1, 2} /\ \A i \in 1..Len(OpenOrder) : OpenOrder[i] \in Streams
  /\ \A i, j \in 1..Len(OpenOrder) : OpenOrder[i] = OpenOrder[j] => i = j
  BY DEF OpenOrder, Streams

LEMMA NewShardsAre ==
  ASSUME StoreTypeOK, NEW n \in 0..Len(OpenOrder)
  PROVE  /\ NewShards(n) \in Disks /\ Len(NewShards(n)) = n
         /\ \A i \in 1..n : /\ NewShard(NewShards(n)[i])
                            /\ NewShards(n)[i].kind = OpenOrder[i]
                            /\ NewShards(n)[i].run = ScannedRun(OpenOrder[i])
                            /\ Counted(NewShards(n)[i]) = HeadSize
<1>1. n \in Nat /\ \A i \in 1..n : OpenOrder[i] \in Streams
  BY OpenOrderIs
<1>2. NewShards(n) = [i \in 1..n |-> Shard(OpenOrder[i], ScannedRun(OpenOrder[i]), 1)]
  BY DEF NewShards
<1>3. ASSUME NEW i \in 1..n
      PROVE  /\ NewShard(NewShards(n)[i])
             /\ NewShards(n)[i].kind = OpenOrder[i]
             /\ NewShards(n)[i].run = ScannedRun(OpenOrder[i])
             /\ Counted(NewShards(n)[i]) = HeadSize
  BY <1>1, <1>2, ScanIsAbove, ShardsAreNew
<1>4. NewShards(n) \in Disks /\ Len(NewShards(n)) = n
  <2>1. \A i \in 1..n : NewShards(n)[i] \in ShardType
    BY <1>3 DEF NewShard
  <2> QED
    BY <1>1, <1>2, <2>1 DEF Disks
<1> QED
  BY <1>3, <1>4

\* Shards put behind those there are
LEMMA ConcatGrows ==
  ASSUME NEW d \in Disks, NEW d2 \in Disks, Grows(d, d2), NEW s \in Disks,
         \A i \in 1..Len(s) : NewShard(s[i])
  PROVE  /\ Grows(d, d2 \o s) /\ Len(d2 \o s) = Len(d2) + Len(s)
         /\ \A i \in 1..Len(s) : (d2 \o s)[Len(d2) + i] = s[i]
         /\ \A i \in 1..Len(d2 \o s) : i > Len(d2) => i - Len(d2) \in 1..Len(s) /\ (d2 \o s)[i] = s[i - Len(d2)]
<1>1. /\ d2 \o s \in Disks /\ Len(d2 \o s) = Len(d2) + Len(s)
      /\ \A i \in 1..Len(d2) : (d2 \o s)[i] = d2[i]
      /\ \A i \in 1..Len(s) : (d2 \o s)[Len(d2) + i] = s[i]
      /\ Len(d) \in Nat /\ Len(d2) \in Nat /\ Len(s) \in Nat
  BY DEF Disks
<1>2. \A i \in 1..Len(d2 \o s) : i > Len(d2) => i - Len(d2) \in 1..Len(s) /\ (d2 \o s)[i] = s[i - Len(d2)]
  BY <1>1
<1> QED
  BY <1>1, <1>2 DEF Grows, NewShard

\* After an open, a failed open, a close or the end of the process: no
\* record was written, and a shard that is new has a number above those of
\* its stream.
NumbersRise(d2) ==
  \A k \in Matching : \A i \in DOMAIN disk, j \in (DOMAIN d2) \ DOMAIN disk :
    disk[i].kind = k /\ d2[j].kind = k => disk[i].run < d2[j].run

LEMMA OpenedDisk ==
  ASSUME StoreTypeOK, NEW n \in 0..Len(OpenOrder)
  PROVE  /\ Grows(disk, AfterClose \o NewShards(n)) /\ NumbersRise(AfterClose \o NewShards(n))
         /\ Len(AfterClose \o NewShards(n)) = Len(disk) + n
         /\ \A i \in 1..n : (AfterClose \o NewShards(n))[Len(disk) + i] = NewShards(n)[i]
<1>1. disk \in Disks /\ Len(disk) \in Nat
  BY DEF StoreTypeOK, Disks
<1>2. AfterClose \in Disks /\ Len(AfterClose) = Len(disk) /\ Grows(disk, AfterClose)
  BY <1>1, StampedIs DEF AfterClose
<1> DEFINE s == NewShards(n)
           d2 == AfterClose \o s
<1>3. /\ s \in Disks /\ Len(s) = n
      /\ \A i \in 1..n : NewShard(s[i]) /\ s[i].kind = OpenOrder[i] /\ s[i].run = ScannedRun(OpenOrder[i])
  BY NewShardsAre
<1> HIDE DEF s
<1>4. /\ Grows(disk, d2) /\ Len(d2) = Len(AfterClose) + Len(s)
      /\ \A i \in 1..Len(s) : d2[Len(AfterClose) + i] = s[i]
      /\ \A i \in 1..Len(d2) : i > Len(AfterClose) =>
           i - Len(AfterClose) \in 1..Len(s) /\ d2[i] = s[i - Len(AfterClose)]
  <2>1. \A i \in 1..Len(s) : NewShard(s[i])
    BY <1>3
  <2> QED
    BY <1>1, <1>2, <1>3, <2>1, ConcatGrows, Zenon
<1> HIDE DEF d2
<1>5. NumbersRise(d2)
  <2> SUFFICES ASSUME NEW k \in Matching, NEW i \in DOMAIN disk, NEW j \in (DOMAIN d2) \ DOMAIN disk,
                      disk[i].kind = k, d2[j].kind = k
               PROVE  disk[i].run < d2[j].run
    BY DEF NumbersRise
  <2>1. j \in 1..Len(d2) /\ j > Len(disk)
    BY <1>1, <1>4 DEF Grows, Disks
  <2>2. PICK l \in 1..n : d2[j] = s[l]
    BY <1>2, <1>3, <1>4, <2>1
  <2>3. k \in Streams /\ d2[j].run = ScannedRun(k)
    BY <1>3, <2>2, OpenOrderIs
  <2> QED
    BY <2>3, ScanIsAbove
<1> QED
  BY <1>2, <1>3, <1>4, <1>5 DEF d2, s

LEMMA FirstStamped ==
  ASSUME StoreTypeOK, NEW i \in 1..Len(OpenOrder)
  PROVE  /\ Stamped(NewShards(i - 1), 1..(i - 1)) \in Disks
         /\ Len(Stamped(NewShards(i - 1), 1..(i - 1))) = i - 1
         /\ \A l \in 1..(i - 1) : LET s == Stamped(NewShards(i - 1), 1..(i - 1))[l] IN
              NewShard(s) /\ s.kind = OpenOrder[l] /\ s.run = ScannedRun(OpenOrder[l])
<1>1. i - 1 \in 0..Len(OpenOrder) /\ i - 1 \in Nat
  BY OpenOrderIs
<1> DEFINE n == i - 1
           s == NewShards(n)
           t == Stamped(s, 1..n)
<1>2. /\ s \in Disks /\ Len(s) = n
      /\ \A l \in 1..n : NewShard(s[l]) /\ s[l].kind = OpenOrder[l] /\ s[l].run = ScannedRun(OpenOrder[l])
  BY <1>1, NewShardsAre
<1> HIDE DEF s
<1>3. t \in Disks /\ Len(t) = Len(s) /\ Grows(s, t)
  BY <1>2, StampedIs
<1> HIDE DEF t, n
<1>4. ASSUME NEW l \in 1..n
      PROVE  NewShard(t[l]) /\ t[l].kind = OpenOrder[l] /\ t[l].run = ScannedRun(OpenOrder[l])
  BY <1>2, <1>3, <1>4 DEF Grows, NewShard, Disks
<1> QED
  BY <1>2, <1>3, <1>4 DEF t, s, n

LEMMA OpenFailsDisk ==
  ASSUME StoreTypeOK, OpenFails
  PROVE  Grows(disk, disk') /\ NumbersRise(disk')
<1>1. disk \in Disks /\ Len(disk) \in Nat
  BY DEF StoreTypeOK, Disks
<1>2. AfterClose \in Disks /\ Len(AfterClose) = Len(disk) /\ Grows(disk, AfterClose)
  BY <1>1, StampedIs DEF AfterClose
<1>3. CASE OpenFindsNoDirectory
  BY <1>1, <1>2, <1>3 DEF OpenFindsNoDirectory, NumbersRise, Disks
<1>4. ASSUME NEW i \in 1..Len(OpenOrder), NEW created \in BOOLEAN, OpenFailsAt(i, created)
      PROVE  Grows(disk, disk') /\ NumbersRise(disk')
  <2> DEFINE before == Stamped(NewShards(i - 1), 1..(i - 1))
             last == Headless(OpenOrder[i], ScannedRun(OpenOrder[i]), 1)
             broken == IF created THEN <<last>> ELSE <<>>
             s == before \o broken
  <2>1. disk' = AfterClose \o before \o broken
    BY <1>4 DEF OpenFailsAt
  <2>2. /\ before \in Disks /\ Len(before) = i - 1
        /\ \A l \in 1..(i - 1) :
             NewShard(before[l]) /\ before[l].kind = OpenOrder[l] /\ before[l].run = ScannedRun(OpenOrder[l])
    BY FirstStamped
  <2>3. OpenOrder[i] \in Streams /\ ScannedRun(OpenOrder[i]) \in Nat
    BY OpenOrderIs, ScanIsAbove
  <2>4. NewShard(last) /\ last.kind = OpenOrder[i] /\ last.run = ScannedRun(OpenOrder[i])
    BY <2>3, ShardsAreNew
  <2> HIDE DEF before, last
  <2>5. /\ Len(broken) \in {0, 1} /\ broken \in Disks
        /\ \A l \in 1..Len(broken) : broken[l] = last
    BY <2>4 DEF Disks, NewShard
  <2> HIDE DEF broken
  <2>6. /\ s \in Disks /\ Len(s) = Len(before) + Len(broken)
        /\ \A l \in 1..Len(before) : s[l] = before[l]
        /\ \A l \in 1..Len(broken) : s[Len(before) + l] = broken[l]
    BY <2>2, <2>5 DEF Disks
  <2>7. ASSUME NEW l \in 1..Len(s)
        PROVE  /\ NewShard(s[l])
               /\ \E m \in 1..Len(OpenOrder) : s[l].kind = OpenOrder[m] /\ s[l].run = ScannedRun(OpenOrder[m])
    <3>1. CASE l <= Len(before)
      <4>1. l \in 1..(i - 1) /\ s[l] = before[l] /\ l \in 1..Len(OpenOrder)
        BY <2>2, <2>6, <3>1, OpenOrderIs
      <4> QED
        BY <2>2, <4>1
    <3>2. CASE l > Len(before)
      <4>1. s[l] = last
        BY <2>2, <2>5, <2>6, <3>2, OpenOrderIs
      <4> QED
        BY <2>4, <4>1
    <3> QED
      BY <2>2, <3>1, <3>2, OpenOrderIs
  <2>8. disk' = AfterClose \o s
    BY <1>2, <2>1, <2>2, <2>5 DEF Disks
  <2> HIDE DEF s
  <2>9. /\ Grows(disk, disk')
        /\ \A l \in 1..Len(disk') : l > Len(AfterClose) =>
             l - Len(AfterClose) \in 1..Len(s) /\ disk'[l] = s[l - Len(AfterClose)]
    <3>1. s \in Disks /\ \A l \in 1..Len(s) : NewShard(s[l])
      BY <2>6, <2>7 DEF s
    <3>2. /\ Grows(disk, AfterClose \o s)
          /\ \A l \in 1..Len(AfterClose \o s) : l > Len(AfterClose) =>
               l - Len(AfterClose) \in 1..Len(s) /\ (AfterClose \o s)[l] = s[l - Len(AfterClose)]
      BY <1>1, <1>2, <3>1, ConcatGrows, Zenon
    <3> QED
      BY <2>8, <3>2
  <2>10. NumbersRise(disk')
    <3> SUFFICES ASSUME NEW k \in Matching, NEW h \in DOMAIN disk, NEW j \in (DOMAIN disk') \ DOMAIN disk,
                        disk[h].kind = k, disk'[j].kind = k
                 PROVE  disk[h].run < disk'[j].run
      BY DEF NumbersRise
    <3>1. j \in 1..Len(disk') /\ j > Len(disk)
      BY <1>1, <2>9 DEF Grows, Disks
    <3>2. PICK l \in 1..Len(s) : disk'[j] = s[l]
      BY <1>2, <2>9, <3>1
    <3>3. k \in Streams /\ disk'[j].run = ScannedRun(k)
      BY <2>7, <3>2, OpenOrderIs
    <3> QED
      BY <3>3, ScanIsAbove
  <2> QED
    BY <2>9, <2>10
<1> QED
  BY <1>3, <1>4 DEF OpenFails

-----------------------------------------------------------------------------
(***************************************************************************)
(* The streams and their shards                                            *)
(***************************************************************************)
LEMMA StreamsAre ==
  ASSUME StoreTypeOK
  PROVE  /\ disk \in Disks /\ Len(disk) \in Nat /\ DOMAIN disk = 1..Len(disk)
         /\ HeadSize \in Nat
         /\ \A k \in Streams :
              /\ fs[k] \in StreamType /\ fs[k].file \in Nat /\ fs[k].id \in Nat /\ fs[k].written \in Nat
              /\ fs[k].keys \subseteq KeySet /\ run_number[k] \in Nat
  BY StoreConstants DEF StoreTypeOK, Disks, StreamType

\* Streams that keep their shard, or lose it
LEMMA OpenStays ==
  ASSUME StoreTypeOK, OpenShards, Grows(disk, disk'), is_open' = is_open,
         \A k \in Streams : fs'[k] = fs[k] \/ fs'[k].file = 0
  PROVE  OpenShards'
<1>1. \A i \in DOMAIN disk : i \in DOMAIN disk' /\ disk'[i].kind = disk[i].kind /\ Counted(disk'[i]) = Counted(disk[i])
  BY StreamsAre DEF Grows, Disks
<1> QED
  BY <1>1 DEF OpenShards

\* One stream goes on with shard r of d2, and adds b bytes to it.
LEMMA OpenGoesOn ==
  ASSUME StoreTypeOK, OpenShards, is_open, is_open' = is_open,
         NEW k \in Streams, NEW d2, Grows(disk, d2),
         NEW f \in 1..Len(d2), d2[f].kind = k, NEW b \in Nat,
         Len(disk') = Len(d2), disk' \in Disks,
         \A l \in 1..Len(d2) : disk'[l].kind = d2[l].kind,
         \A l \in 1..Len(d2) : l # f => Counted(disk'[l]) = Counted(d2[l]),
         Counted(disk'[f]) = Counted(d2[f]) + b,
         \A l \in Streams : l # k => fs'[l] = fs[l],
         fs'[k].file = f, fs'[k].written = Counted(d2[f]) + b
  PROVE  OpenShards'
<1>1. ASSUME NEW l \in Streams, l # k, fs[l].file # 0
      PROVE  /\ fs[l].file \in DOMAIN disk' /\ disk'[fs[l].file].kind = l
             /\ fs[l].written = Counted(disk'[fs[l].file])
  <2>1. /\ fs[l].file \in 1..Len(disk) /\ disk[fs[l].file].kind = l
        /\ fs[l].written = Counted(disk[fs[l].file])
    BY <1>1, StreamsAre DEF OpenShards
  <2>2. /\ fs[l].file \in 1..Len(d2) /\ d2[fs[l].file].kind = l
        /\ fs[l].written = Counted(d2[fs[l].file])
    BY <2>1, StreamsAre DEF Grows, Disks
  <2>3. fs[l].file # f
    BY <1>1, <2>2
  <2> QED
    BY <2>2, <2>3 DEF Disks
<1>2. f \in DOMAIN disk' /\ disk'[f].kind = k
  BY DEF Disks
<1> QED
  BY <1>1, <1>2 DEF OpenShards

\* A rotation that succeeds
LEMMA RotatedIs ==
  ASSUME StoreTypeOK, NEW k \in Streams
  PROVE  /\ Grows(disk, RotatedDisk(k)) /\ Len(RotatedDisk(k)) = Len(disk) + 1
         /\ RotatedDisk(k)[Len(disk) + 1].kind = k /\ Counted(RotatedDisk(k)[Len(disk) + 1]) = HeadSize
         /\ RotatedState(k) \in StreamType /\ RotatedState(k).file = Len(disk) + 1
         /\ RotatedState(k).written = HeadSize /\ RotatedState(k).keys = {}
<1> DEFINE s == Shard(k, run_number[k], fs[k].id + 1)
           d2 == Stamped(disk, {fs[k].file})
<1>1. fs[k].id + 1 \in Nat /\ run_number[k] \in Nat
  BY StreamsAre
<1>2. NewShard(s) /\ s.kind = k /\ Counted(s) = HeadSize
  BY <1>1, ShardsAreNew
<1>3. d2 \in Disks /\ Len(d2) = Len(disk) /\ Grows(disk, d2)
  BY StampedIs, StreamsAre
<1> HIDE DEF s, d2
<1>4. /\ Grows(disk, Append(d2, s)) /\ Len(Append(d2, s)) = Len(d2) + 1
      /\ Append(d2, s)[Len(d2) + 1] = s
  BY <1>2, <1>3, StreamsAre, AppendGrows, Zenon
<1>5. RotatedDisk(k) = Append(d2, s)
  BY DEF RotatedDisk, s, d2
<1>6. /\ RotatedState(k) \in StreamType /\ RotatedState(k).file = Len(disk) + 1
      /\ RotatedState(k).written = HeadSize /\ RotatedState(k).keys = {}
  BY <1>1, StreamsAre DEF RotatedState, StreamType
<1> QED
  BY <1>2, <1>3, <1>4, <1>5, <1>6

\* A rotation that fails
LEMMA RotationFailsIs ==
  ASSUME StoreTypeOK, NEW k \in Streams, RotationFails(k)
  PROVE  /\ Grows(disk, disk')
         /\ fs' \in [Streams -> StreamType] /\ fs'[k].file = 0
         /\ \A l \in Streams : l # k => fs'[l] = fs[l]
<1>1. fs \in [Streams -> StreamType] /\ run_number[k] \in Nat /\ fs[k].id + 1 \in Nat
  BY StreamsAre DEF StoreTypeOK
<1>2. Grows(disk, disk)
  BY StreamsAre, GrowsStays
<1>3. /\ Stamped(disk, {fs[k].file}) \in Disks /\ Grows(disk, Stamped(disk, {fs[k].file}))
  BY StreamsAre, StampedIs
<1>4. Grows(disk, Append(Stamped(disk, {fs[k].file}), Headless(k, run_number[k], fs[k].id + 1)))
  BY <1>1, <1>3, StreamsAre, ShardsAreNew, AppendGrows
<1>5. Grows(disk, disk')
  BY <1>2, <1>3, <1>4 DEF RotationFails
<1>6. fs' \in [Streams -> StreamType] /\ fs'[k].file = 0 /\ \A l \in Streams : l # k => fs'[l] = fs[l]
  <2> DEFINE lost == [fs[k] EXCEPT !.file = 0, !.written = 0]
             next1 == [fs[k] EXCEPT !.file = 0, !.written = 0, !.id = @ + 1]
  <2>1. lost \in StreamType /\ lost.file = 0 /\ next1 \in StreamType /\ next1.file = 0
    BY <1>1 DEF StreamType
  <2>2. fs' = [fs EXCEPT ![k] = lost] \/ fs' = [fs EXCEPT ![k] = next1]
    BY <1>1 DEF RotationFails
  <2> HIDE DEF lost, next1
  <2> QED
    BY <1>1, <2>1, <2>2
<1> QED
  BY <1>5, <1>6

-----------------------------------------------------------------------------
(***************************************************************************)
(* What is in the shards, and the limits                                   *)
(***************************************************************************)
\* The records of shard i, none while there is no such shard
Recs(d, i) == IF i \in DOMAIN d THEN d[i].recs ELSE <<>>
CopiesOf(s, e) == Cardinality({j \in DOMAIN s : s[j] = e})

\* The two halves of SavedInOneShard
OneShard ==
  /\ \A e \in Events : \A i, j \in Nat : Among(e, Recs(disk, i)) /\ Among(e, Recs(disk, j)) => i = j
  /\ \A e \in saved : \E i \in Nat :
       Among(e, Recs(disk, i)) /\ CopiesOf(Recs(disk, i), e) = Fragments[e]

\* The keys of the saved events in shard i
KeysIn(i) == {EventKey[e] : e \in {x \in saved : Among(x, Recs(disk, i))}}

KeysWithin ==
  MaxEventNumberSaved # 0 =>
    \A i \in Nat : /\ fs["CD"].file = i /\ i # 0 => fs["CD"].keys = KeysIn(i)
                   /\ Cardinality(KeysIn(i)) <= MaxEventNumberSaved

BytesWithin ==
  MaxFileSize # 0 => \A i \in DOMAIN disk :
    Counted(disk[i]) <= IF disk[i].kind = "CD" THEN MaxFileSize ELSE MaxFileSize + RawSize

StoreInv == StoreTypeOK /\ OpenShards /\ OneShard /\ KeysWithin /\ BytesWithin

LEMMA RecsStay ==
  ASSUME NEW d \in Disks, NEW d2, Grows(d, d2)
  PROVE  \A i : Recs(d2, i) = Recs(d, i)
<1>1. Len(d) \in Nat /\ Len(d2) \in Nat /\ DOMAIN d = 1..Len(d) /\ DOMAIN d2 = 1..Len(d2)
  BY DEF Disks, Grows
<1>2. ASSUME NEW i PROVE Recs(d2, i) = Recs(d, i)
  <2>1. CASE i \in 1..Len(d)
    BY <1>1, <2>1 DEF Grows, Recs
  <2>2. CASE i \notin 1..Len(d) /\ i \in 1..Len(d2)
    <3>1. i > Len(d)
      BY <1>1, <2>2
    <3> QED
      BY <1>1, <2>2, <3>1 DEF Grows, Recs
  <2>3. CASE i \notin 1..Len(d2)
    BY <1>1, <2>3 DEF Grows, Recs
  <2> QED
    BY <2>1, <2>2, <2>3
<1> QED
  BY <1>2

LEMMA RecsAdded ==
  ASSUME NEW d \in Disks, NEW i \in 1..Len(d), NEW r \in Seq(Int), NEW b \in Nat,
         NEW w, Adds(d, i, r, b, w)
  PROVE  /\ \A l : l # i => Recs(w, l) = Recs(d, l)
         /\ Recs(w, i) = Recs(d, i) \o r
         /\ Recs(d, i) \in Seq(Int)
<1>1. DOMAIN w = 1..Len(d) /\ DOMAIN d = 1..Len(d)
  BY DEF Disks, Adds
<1>2. d[i] \in ShardType
  BY DEF Disks
<1>3. d[i].recs \in Seq(Int)
  BY <1>2 DEF ShardType
<1>4. \A l : l # i => Recs(w, l) = Recs(d, l)
  BY <1>1 DEF Recs, Adds
<1>5. Recs(w, i) = Recs(d, i) \o r /\ Recs(d, i) \in Seq(Int)
  BY <1>1, <1>3 DEF Recs, Adds
<1> QED
  BY <1>4, <1>5

\* What is among the records of two sequences, and how often
LEMMA AmongBoth ==
  ASSUME NEW s \in Seq(Int), NEW r \in Seq(Int), NEW e
  PROVE  /\ Among(e, s \o r) <=> Among(e, s) \/ Among(e, r)
         /\ ~Among(e, r) => CopiesOf(s \o r, e) = CopiesOf(s, e)
<1>1. /\ Len(s) \in Nat /\ Len(r) \in Nat /\ DOMAIN s = 1..Len(s) /\ DOMAIN r = 1..Len(r)
      /\ DOMAIN (s \o r) = 1..(Len(s) + Len(r))
      /\ \A j \in 1..Len(s) : (s \o r)[j] = s[j]
      /\ \A j \in 1..Len(r) : (s \o r)[Len(s) + j] = r[j]
  OBVIOUS
<1>2. \A j \in 1..(Len(s) + Len(r)) : j \in 1..Len(s) \/ (j - Len(s) \in 1..Len(r) /\ (s \o r)[j] = r[j - Len(s)])
  OBVIOUS
<1>3. \A j \in 1..Len(r) : Len(s) + j \in 1..(Len(s) + Len(r))
  BY <1>1
<1>4. \A j \in 1..Len(s) : j \in 1..(Len(s) + Len(r))
  BY <1>1
<1> DEFINE sr == s \o r
<1> HIDE DEF sr
<1>5. Among(e, sr) <=> Among(e, s) \/ Among(e, r)
  <2>1. ASSUME Among(e, sr) PROVE Among(e, s) \/ Among(e, r)
    BY <1>1, <1>2, <2>1 DEF Among, sr
  <2>2. ASSUME Among(e, s) PROVE Among(e, sr)
    BY <1>1, <1>4, <2>2 DEF Among, sr
  <2>3. ASSUME Among(e, r) PROVE Among(e, sr)
    BY <1>1, <1>3, <2>3 DEF Among, sr
  <2> QED
    BY <2>1, <2>2, <2>3
<1>6. ASSUME ~Among(e, r) PROVE CopiesOf(sr, e) = CopiesOf(s, e)
  <2>1. {j \in DOMAIN sr : sr[j] = e} = {j \in DOMAIN s : s[j] = e}
    BY <1>1, <1>2, <1>4, <1>6 DEF Among, sr
  <2> QED
    BY <2>1 DEF CopiesOf
<1> QED
  BY <1>5, <1>6 DEF sr

LEMMA CopiesAdded ==
  ASSUME NEW s \in Seq(Int), NEW n \in Nat, NEW e \in Int, ~Among(e, s), NEW part \in Seq(Int), ~Among(e, part)
  PROVE  /\ Records(e, n) \o part \in Seq(Int)
         /\ CopiesOf(s \o (Records(e, n) \o part), e) = n
         /\ \A x : Among(x, Records(e, n) \o part) => x = e \/ Among(x, part)
         /\ n > 0 => Among(e, Records(e, n) \o part)
<1> DEFINE r == Records(e, n)
           t == s \o r
<1>1. r \in Seq(Int) /\ Len(r) = n /\ \A j \in 1..n : r[j] = e
  BY DEF Records
<1> HIDE DEF r
<1>2. t \in Seq(Int) /\ t \o part = s \o (r \o part) /\ r \o part \in Seq(Int)
  BY <1>1
<1>3. {j \in DOMAIN t : t[j] = e} = (Len(s) + 1)..(Len(s) + n)
  <2>1. /\ Len(s) \in Nat /\ DOMAIN s = 1..Len(s) /\ DOMAIN t = 1..(Len(s) + n)
        /\ \A j \in 1..Len(s) : t[j] = s[j]
        /\ \A j \in 1..n : t[Len(s) + j] = r[j]
    BY <1>1
  <2>2. \A j \in 1..Len(s) : t[j] # e
    BY <2>1 DEF Among
  <2> HIDE DEF t
  <2>3. ASSUME NEW j \in 1..(Len(s) + n) PROVE t[j] = e <=> j > Len(s)
    <3>1. CASE j <= Len(s)
      BY <2>1, <2>2, <3>1
    <3>2. CASE j > Len(s)
      <4>1. j - Len(s) \in 1..n /\ j = Len(s) + (j - Len(s))
        BY <2>1, <3>2
      <4>2. t[j] = r[j - Len(s)]
        BY <2>1, <4>1
      <4> QED
        BY <1>1, <3>2, <4>1, <4>2
    <3> QED
      BY <2>1, <3>1, <3>2
  <2> QED
    BY <2>1, <2>3
<1>4. Cardinality((Len(s) + 1)..(Len(s) + n)) = n
  BY FS_Interval
<1>5. CopiesOf(t, e) = n
  BY <1>3, <1>4 DEF CopiesOf
<1> HIDE DEF t
<1>6. CopiesOf(t \o part, e) = n
  BY <1>2, <1>5, AmongBoth
<1>7. \A x : Among(x, r) => x = e
  BY <1>1 DEF Among
<1>8. n > 0 => Among(e, r)
  BY <1>1 DEF Among
<1> QED
  BY <1>1, <1>2, <1>6, <1>7, <1>8, AmongBoth DEF r

\* Stream k can go on writing: with state r, on the disk d2.
Ready(k, r, d2) ==
  /\ r \in StreamType /\ Grows(disk, d2)
  /\ r.file \in 1..Len(d2) /\ d2[r.file].kind = k /\ r.written = Counted(d2[r.file])
  /\ \/ r = fs[k]
     \/ r.file = Len(disk) + 1 /\ r.keys = {} /\ r.written = HeadSize

LEMMA RawReady ==
  ASSUME StoreInv, fs["L1"].file # 0
  PROVE  Ready("L1", RawState, RawDisk)
<1>1. "L1" \in Streams
  BY DEF Streams
<1>2. CASE RawRotates
  BY <1>1, <1>2, RotatedIs, StreamsAre DEF StoreInv, RawState, RawDisk, Ready
<1>3. CASE ~RawRotates
  BY <1>1, <1>3, GrowsStays, StreamsAre DEF StoreInv, RawState, RawDisk, Ready, OpenShards
<1> QED
  BY <1>2, <1>3

LEMMA CdReady ==
  ASSUME StoreInv, NEW e, ReadyState(e).file # 0
  PROVE  Ready("CD", ReadyState(e), ReadyDisk(e))
<1>1. "CD" \in Streams
  BY DEF Streams
<1>2. CASE Rotates(e)
  BY <1>1, <1>2, RotatedIs, StreamsAre DEF StoreInv, ReadyState, ReadyDisk, Ready
<1>3. CASE ~Rotates(e)
  BY <1>1, <1>3, GrowsStays, StreamsAre DEF StoreInv, ReadyState, ReadyDisk, Ready, OpenShards
<1> QED
  BY <1>2, <1>3

LEMMA StateWrites ==
  ASSUME NEW r \in StreamType, NEW b \in Nat
  PROVE  /\ [r EXCEPT !.written = @ + b] \in StreamType
         /\ [r EXCEPT !.written = @ + b].file = r.file
         /\ [r EXCEPT !.written = @ + b].written = r.written + b
         /\ [r EXCEPT !.written = @ + b].keys = r.keys
  BY DEF StreamType

StateAfter(r, b, keys) == [r EXCEPT !.written = @ + b, !.keys = keys]

LEMMA StateSaves ==
  ASSUME NEW r \in StreamType, NEW b \in Nat, NEW keys \in SUBSET KeySet
  PROVE  /\ StateAfter(r, b, keys) \in StreamType /\ StateAfter(r, b, keys).file = r.file
         /\ StateAfter(r, b, keys).written = r.written + b /\ StateAfter(r, b, keys).keys = keys
<1>1. r.written + b \in Nat
  BY DEF StreamType
<1> HIDE DEF KeySet
<1> QED
  BY <1>1 DEF StreamType, StateAfter

\* A stream that is ready goes on with r2, and writes records of b bytes.
Writes(k, r, d2, recs, b, r2) ==
  /\ is_open /\ is_open' = is_open
  /\ Ready(k, r, d2) /\ recs \in Seq(Int) /\ b \in Nat
  /\ r2 \in StreamType /\ r2.file = r.file /\ r2.written = r.written + b
  /\ Adds(d2, r.file, recs, b, disk')
  /\ fs' = [fs EXCEPT ![k] = r2]

LEMMA WrittenIs ==
  ASSUME StoreInv, NEW k \in Streams, NEW r, NEW d2, NEW recs, NEW b, NEW r2,
         Writes(k, r, d2, recs, b, r2)
  PROVE  /\ disk' \in Disks /\ fs' \in [Streams -> StreamType] /\ OpenShards'
         /\ fs'[k] = r2 /\ \A l \in Streams : l # k => fs'[l] = fs[l]
         /\ \A i : i # r.file => Recs(disk', i) = Recs(disk, i)
         /\ Recs(disk', r.file) = Recs(disk, r.file) \o recs /\ Recs(disk, r.file) \in Seq(Int)
         /\ \A i \in DOMAIN disk' : i # r.file =>
              \/ Counted(disk'[i]) <= HeadSize
              \/ i \in DOMAIN disk /\ Counted(disk'[i]) = Counted(disk[i]) /\ disk'[i].kind = disk[i].kind
         /\ disk'[r.file].kind = k /\ Counted(disk'[r.file]) = r.written + b
<1> DEFINE f == r.file
<1> USE DEF Writes
<1>1. /\ StoreTypeOK /\ OpenShards /\ fs \in [Streams -> StreamType]
      /\ disk \in Disks /\ d2 \in Disks /\ Grows(disk, d2) /\ f \in 1..Len(d2) /\ d2[f].kind = k
      /\ r.written = Counted(d2[f])
  BY StreamsAre DEF StoreInv, StoreTypeOK, Ready, Grows
<1> HIDE DEF f
<1>2. Adds(d2, f, recs, b, disk')
  BY DEF f
<1>4. /\ disk' \in Disks /\ Len(disk') = Len(d2)
      /\ \A l \in 1..Len(d2) : disk'[l].kind = d2[l].kind
      /\ \A l \in 1..Len(d2) : l # f => disk'[l] = d2[l]
      /\ Counted(disk'[f]) = Counted(d2[f]) + b
  BY <1>2 DEF Adds
<1>5. /\ fs' \in [Streams -> StreamType] /\ fs'[k] = r2
      /\ \A l \in Streams : l # k => fs'[l] = fs[l]
      /\ fs'[k].file = f /\ fs'[k].written = Counted(d2[f]) + b
  BY <1>1 DEF f
<1>6. OpenShards'
  <2>1. \A l \in 1..Len(d2) : l # f => Counted(disk'[l]) = Counted(d2[l])
    BY <1>4
  <2> QED
    <3>1. /\ StoreTypeOK /\ OpenShards /\ is_open /\ is_open' = is_open /\ k \in Streams
          /\ Grows(disk, d2) /\ f \in 1..Len(d2) /\ d2[f].kind = k /\ b \in Nat
          /\ Len(disk') = Len(d2) /\ disk' \in Disks
          /\ \A l \in 1..Len(d2) : disk'[l].kind = d2[l].kind
          /\ Counted(disk'[f]) = Counted(d2[f]) + b
          /\ \A l \in Streams : l # k => fs'[l] = fs[l]
          /\ fs'[k].file = f /\ fs'[k].written = Counted(d2[f]) + b
      BY <1>1, <1>4, <1>5
    <3> QED
      BY <2>1, <3>1, OpenGoesOn, Zenon
<1>7. \A i : Recs(d2, i) = Recs(disk, i)
  BY <1>1, RecsStay
<1>8. /\ \A l : l # f => Recs(disk', l) = Recs(d2, l)
      /\ Recs(disk', f) = Recs(d2, f) \o recs
      /\ Recs(d2, f) \in Seq(Int)
  BY <1>1, <1>2, RecsAdded
<1>9. /\ \A i : i # f => Recs(disk', i) = Recs(disk, i)
      /\ Recs(disk', f) = Recs(disk, f) \o recs /\ Recs(disk, f) \in Seq(Int)
  BY <1>7, <1>8
<1>10. ASSUME NEW i \in DOMAIN disk', i # f
       PROVE  \/ Counted(disk'[i]) <= HeadSize
              \/ i \in DOMAIN disk /\ Counted(disk'[i]) = Counted(disk[i]) /\ disk'[i].kind = disk[i].kind
  <2>1. i \in 1..Len(d2) /\ disk'[i] = d2[i] /\ i \in Nat /\ Len(disk) \in Nat /\ DOMAIN disk = 1..Len(disk)
    BY <1>1, <1>4, <1>10 DEF Disks
  <2>2. CASE i > Len(disk)
    BY <1>1, <2>1, <2>2 DEF Grows
  <2>3. CASE i <= Len(disk)
    BY <1>1, <2>1, <2>3 DEF Grows
  <2> QED
    BY <2>1, <2>2, <2>3
<1>11. disk'[f].kind = k /\ Counted(disk'[f]) = r.written + b
  BY <1>1, <1>4
<1> QED
  BY <1>4, <1>5, <1>6, <1>9, <1>10, <1>11 DEF f

-----------------------------------------------------------------------------
(***************************************************************************)
(* The invariant, step by step                                             *)
(***************************************************************************)
\* Steps that change the records of no event
LEMMA EventsStay ==
  ASSUME OneShard, saved' = saved,
         \A i : \A x \in Events : /\ Among(x, Recs(disk', i)) <=> Among(x, Recs(disk, i))
                                  /\ CopiesOf(Recs(disk', i), x) = CopiesOf(Recs(disk, i), x),
         saved \subseteq Events
  PROVE  OneShard' /\ \A i : KeysIn(i)' = KeysIn(i)
<1>1. OneShard'
  BY DEF OneShard
<1>2. ASSUME NEW i PROVE KeysIn(i)' = KeysIn(i)
  <2>1. {x \in saved' : Among(x, Recs(disk', i))} = {x \in saved : Among(x, Recs(disk, i))}
    OBVIOUS
  <2> QED
    BY <2>1 DEF KeysIn
<1> QED
  BY <1>1, <1>2

LEMMA KeysOfNone ==
  ASSUME StoreTypeOK, NEW i, i \notin DOMAIN disk
  PROVE  KeysIn(i) = {}
  BY DEF KeysIn, Recs, Among

\* Shards are stamped, or created, and no record is written.
LEMMA ShardsOnly ==
  ASSUME StoreInv, StoreTypeOK', OpenShards', Grows(disk, disk'), saved' = saved,
         \/ fs'["CD"] = fs["CD"] \/ fs'["CD"].file = 0
         \/ fs'["CD"].file \notin DOMAIN disk /\ fs'["CD"].keys = {}
  PROVE  StoreInv'
<1>1. \A i : Recs(disk', i) = Recs(disk, i)
  BY StreamsAre, RecsStay DEF StoreInv
<1>2. OneShard' /\ \A i : KeysIn(i)' = KeysIn(i)
  BY <1>1, EventsStay DEF StoreInv, StoreTypeOK
<1>3. KeysWithin'
  <2>1. \A i : i \notin DOMAIN disk => KeysIn(i) = {}
    BY KeysOfNone DEF StoreInv
  <2>2. ASSUME MaxEventNumberSaved # 0, NEW i \in Nat
        PROVE  /\ fs'["CD"].file = i /\ i # 0 => fs'["CD"].keys = KeysIn(i)'
               /\ Cardinality(KeysIn(i)') <= MaxEventNumberSaved
    <3>1. KeysIn(i)' = KeysIn(i)
      BY <1>2
    <3>2. /\ fs["CD"].file = i /\ i # 0 => fs["CD"].keys = KeysIn(i)
          /\ Cardinality(KeysIn(i)) <= MaxEventNumberSaved
      BY <2>2 DEF StoreInv, KeysWithin
    <3>3. fs'["CD"].file = i /\ i # 0 => fs'["CD"].keys = KeysIn(i)
      BY <2>1, <3>2
    <3> QED
      BY <3>1, <3>2, <3>3
  <2> QED
    BY <2>2 DEF KeysWithin
<1>4. BytesWithin'
  <2> SUFFICES ASSUME MaxFileSize # 0, NEW i \in DOMAIN disk'
               PROVE  Counted(disk'[i]) <= IF disk'[i].kind = "CD" THEN MaxFileSize ELSE MaxFileSize + RawSize
    BY DEF BytesWithin
  <2>1. HeadSize <= MaxFileSize /\ HeadSize \in Nat /\ MaxFileSize \in Nat /\ RawSize \in Nat
    BY StoreConstants
  <2>2. /\ i \in 1..Len(disk') /\ Len(disk) \in Nat /\ DOMAIN disk = 1..Len(disk) /\ Counted(disk'[i]) \in Int
    <3>1. disk'[i] \in ShardType
      BY DEF Grows, Disks
    <3> QED
      BY <3>1, StreamsAre DEF StoreInv, Grows, Disks, ShardType, Counted
  <2>3. CASE i > Len(disk)
    <3>1. Counted(disk'[i]) <= HeadSize
      BY <2>2, <2>3 DEF Grows
    <3> QED
      BY <2>1, <2>2, <3>1
  <2>4. CASE i <= Len(disk)
    BY <2>2, <2>4 DEF Grows, StoreInv, BytesWithin
  <2> QED
    BY <2>2, <2>3, <2>4
<1> QED
  BY <1>2, <1>3, <1>4 DEF StoreInv

\* The records of all events stay as they are.
RecordsStay == saved' = saved /\ \A i : \A x \in Events : Among(x, Recs(disk', i)) <=> Among(x, Recs(disk, i))

LEMMA GrowsKeepsRecords ==
  ASSUME StoreTypeOK, Grows(disk, disk'), saved' = saved
  PROVE  RecordsStay
  BY StreamsAre, RecsStay DEF RecordsStay

LEMMA OpenSucceedsKeeps ==
  ASSUME StoreInv, OpenSucceeds
  PROVE  StoreInv' /\ RecordsStay /\ NumbersRise(disk')
<1> DEFINE n == Len(OpenOrder)
           place(k) == CHOOSE i \in 1..n : OpenOrder[i] = k
<1>1. /\ disk' = AfterClose \o NewShards(n) /\ n \in 0..Len(OpenOrder) /\ n \in Nat
      /\ run_number' = ScannedRuns /\ is_open' = TRUE /\ saved' = saved
      /\ fs' = [k \in Streams |->
                  IF \E i \in 1..n : OpenOrder[i] = k
                    THEN [file |-> Len(disk) + place(k), id |-> 1, written |-> HeadSize, keys |-> {}]
                    ELSE Closed]
  BY OpenOrderIs DEF OpenSucceeds
<1>2. StoreTypeOK /\ disk \in Disks /\ Len(disk) \in Nat /\ DOMAIN disk = 1..Len(disk) /\ HeadSize \in Nat
  BY StreamsAre DEF StoreInv
<1> HIDE DEF n
<1>3. /\ Grows(disk, disk') /\ NumbersRise(disk') /\ Len(disk') = Len(disk) + n
      /\ \A i \in 1..n : disk'[Len(disk) + i] = NewShards(n)[i]
  <2>1. /\ Grows(disk, AfterClose \o NewShards(n)) /\ NumbersRise(AfterClose \o NewShards(n))
        /\ Len(AfterClose \o NewShards(n)) = Len(disk) + n
        /\ \A i \in 1..n : (AfterClose \o NewShards(n))[Len(disk) + i] = NewShards(n)[i]
    BY <1>1, <1>2, OpenedDisk
  <2> QED
    BY <1>1, <2>1
<1>4. ASSUME NEW k \in Streams
      PROVE  /\ fs'[k] \in StreamType /\ fs'[k].keys = {}
             /\ fs'[k].file # 0 => /\ fs'[k].file \in DOMAIN disk' /\ fs'[k].file \notin DOMAIN disk
                                   /\ disk'[fs'[k].file].kind = k
                                   /\ fs'[k].written = Counted(disk'[fs'[k].file])
  <2>1. CASE \E i \in 1..n : OpenOrder[i] = k
    <3>1. place(k) \in 1..n /\ OpenOrder[place(k)] = k
      BY <2>1
    <3> DEFINE p == place(k)
    <3>2. fs'[k] = [file |-> Len(disk) + p, id |-> 1, written |-> HeadSize, keys |-> {}]
      BY <1>1, <2>1
    <3> HIDE DEF p
    <3>3. p \in 1..n /\ OpenOrder[p] = k
      BY <3>1 DEF p
    <3>4. /\ fs'[k] \in StreamType /\ fs'[k].keys = {} /\ fs'[k].file = Len(disk) + p
          /\ fs'[k].written = HeadSize
      BY <1>1, <1>2, <3>2, <3>3 DEF StreamType
    <3>5. NewShards(n)[p].kind = k /\ Counted(NewShards(n)[p]) = HeadSize
      BY <1>1, <1>2, <3>3, NewShardsAre
    <3>6. Len(disk) + p \in DOMAIN disk' /\ Len(disk) + p \notin DOMAIN disk
      BY <1>1, <1>2, <1>3, <3>3 DEF Grows, Disks
    <3> QED
      BY <1>3, <3>3, <3>4, <3>5, <3>6
  <2>2. CASE ~\E i \in 1..n : OpenOrder[i] = k
    <3>1. fs'[k] = Closed
      BY <1>1, <2>2
    <3> QED
      BY <3>1 DEF Closed, StreamType
  <2> QED
    BY <2>1, <2>2
<1>5. run_number' \in [Streams -> Nat]
  BY <1>1, <1>2, ScanIsAbove DEF ScannedRuns
<1>6. fs' \in [Streams -> StreamType]
  <2>1. DOMAIN fs' = Streams /\ fs' = [k \in Streams |-> fs'[k]]
    BY <1>1
  <2> QED
    BY <1>4, <2>1
<1>7. StoreTypeOK'
  BY <1>1, <1>3, <1>5, <1>6 DEF StoreTypeOK, StoreInv, Grows, Disks
<1>8. OpenShards'
  BY <1>1, <1>4 DEF OpenShards
<1>9. StoreInv'
  <2>1. "CD" \in Streams
    BY DEF Streams
  <2> QED
    BY <1>1, <1>3, <1>4, <1>7, <1>8, <2>1, ShardsOnly
<1> QED
  BY <1>1, <1>2, <1>3, <1>9, GrowsKeepsRecords

\* Closed, after a failed open, a close or the end of the process
LEMMA ClosedKeeps ==
  ASSUME StoreInv, Grows(disk, disk'), saved' = saved, is_open' \in BOOLEAN,
         run_number' \in [Streams -> Nat],
         fs' \in [Streams -> StreamType], \A k \in Streams : fs'[k].file = 0
  PROVE  StoreInv' /\ RecordsStay
<1>1. StoreTypeOK' /\ OpenShards'
  BY DEF StoreTypeOK, OpenShards, StoreInv, Grows, Disks
<1>2. "CD" \in Streams
  BY DEF Streams
<1> QED
  BY <1>1, <1>2, ShardsOnly, GrowsKeepsRecords DEF StoreInv

LEMMA OpenFailsKeeps ==
  ASSUME StoreInv, OpenFails
  PROVE  StoreInv' /\ RecordsStay /\ NumbersRise(disk')
<1>1. StoreTypeOK /\ Grows(disk, disk') /\ NumbersRise(disk')
  BY OpenFailsDisk DEF StoreInv
<1>2. saved' = saved /\ is_open' = FALSE /\ (run_number' = run_number \/ run_number' = ScannedRuns)
  BY DEF OpenFails, OpenFindsNoDirectory, OpenFailsAt
<1>3. run_number' \in [Streams -> Nat]
  BY <1>1, <1>2, ScanIsAbove DEF ScannedRuns, StoreTypeOK
<1>4. fs' \in [Streams -> StreamType] /\ \A k \in Streams : fs'[k].file = 0
  <2>1. /\ Closed \in StreamType /\ Closed.file = 0
        /\ [Closed EXCEPT !.id = 1] \in StreamType /\ [Closed EXCEPT !.id = 1].file = 0
    BY DEF Closed, StreamType
  <2> DEFINE one == [Closed EXCEPT !.id = 1]
  <2>2. fs' = [k \in Streams |-> Closed] \/ \E i \in 1..Len(OpenOrder) : fs' = FailedOpen(i)
    BY DEF OpenFails, OpenFindsNoDirectory, OpenFailsAt
  <2>3. \A i : FailedOpen(i) \in [Streams -> {Closed, one}]
    BY DEF FailedOpen
  <2> HIDE DEF one
  <2>4. fs' \in [Streams -> {Closed, one}]
    BY <2>2, <2>3
  <2> QED
    BY <2>1, <2>4 DEF one
<1> QED
  BY <1>1, <1>2, <1>3, <1>4, ClosedKeeps

LEMMA CloseKeeps ==
  ASSUME StoreInv, CloseStore \/ CrashStore
  PROVE  StoreInv' /\ RecordsStay /\ disk' \in Disks /\ Len(disk') = Len(disk)
<1>1. disk \in Disks /\ run_number \in [Streams -> Nat]
  BY StreamsAre DEF StoreInv, StoreTypeOK
<1>2. Grows(disk, disk') /\ disk' \in Disks /\ Len(disk') = Len(disk)
  <2>1. \A files : /\ Stamped(disk, files) \in Disks /\ Len(Stamped(disk, files)) = Len(disk)
                    /\ Grows(disk, Stamped(disk, files))
    BY <1>1, StampedIs
  <2>2. disk' = disk \/ \E files : disk' = Stamped(disk, files)
    BY DEF CloseStore, CrashStore
  <2>3. Grows(disk, disk)
    BY <1>1, GrowsStays
  <2> QED
    BY <1>1, <2>1, <2>2, <2>3
<1>3. saved' = saved /\ is_open' = FALSE
  BY DEF CloseStore, CrashStore
<1>5. run_number' \in [Streams -> Nat]
  <2>1. run_number' = run_number \/ run_number' = [k \in Streams |-> 0]
    BY DEF CloseStore, CrashStore
  <2> QED
    BY <1>1, <2>1
<1>4. fs' \in [Streams -> StreamType] /\ \A k \in Streams : fs'[k].file = 0
  <2>1. Closed \in StreamType /\ Closed.file = 0
    BY DEF Closed, StreamType
  <2> DEFINE shut(k) == [fs[k] EXCEPT !.file = 0, !.written = 0]
  <2>2. ASSUME NEW k \in Streams PROVE shut(k) \in StreamType /\ shut(k).file = 0
    <3>1. fs[k] \in StreamType
      BY StreamsAre DEF StoreInv
    <3> QED
      BY <3>1 DEF StreamType
  <2>3. fs' = [k \in Streams |-> Closed] \/ fs' = [k \in Streams |-> shut(k)]
    BY DEF CloseStore, CrashStore
  <2> HIDE DEF shut
  <2> QED
    BY <2>1, <2>2, <2>3
<1> QED
  BY <1>2, <1>3, <1>4, <1>5, ClosedKeeps

\* A rotation that fails, for a raw record or for an event
LEMMA RotationFailsKeeps ==
  ASSUME StoreInv, NEW k \in Streams, RotationFails(k),
         is_open' = is_open, run_number' = run_number, saved' = saved
  PROVE  StoreInv' /\ RecordsStay
<1>1. /\ StoreTypeOK /\ OpenShards /\ Grows(disk, disk')
      /\ fs' \in [Streams -> StreamType] /\ fs'[k].file = 0
      /\ \A l \in Streams : l # k => fs'[l] = fs[l]
  BY RotationFailsIs DEF StoreInv
<1>2. OpenShards'
  BY <1>1, OpenStays
<1>3. StoreTypeOK'
  BY <1>1 DEF StoreTypeOK, Grows, Disks
<1>4. "CD" \in Streams
  BY DEF Streams
<1> QED
  BY <1>1, <1>2, <1>3, <1>4, ShardsOnly, GrowsKeepsRecords

\* An L1 record that is saved, or torn
LEMMA RawWriteKeeps ==
  ASSUME StoreInv, RawSaved \/ RawTorn
  PROVE  StoreInv' /\ RecordsStay
<1> DEFINE f == RawState.file
<1>1. /\ is_open /\ is_open' = is_open /\ run_number' = run_number /\ saved' = saved
      /\ fs["L1"].file # 0 /\ "L1" \in Streams /\ "CD" \in Streams
  BY DEF RawSaved, RawTorn, RawAccepted, Streams
<1>2. Ready("L1", RawState, RawDisk) /\ RawState \in StreamType
  BY <1>1, RawReady DEF Ready
<1>3. HeadSize \in Nat /\ RawSize \in Nat /\ RawSize > 0 /\ MaxFileSize \in Nat
      /\ (MaxFileSize # 0 => HeadSize <= MaxFileSize)
  BY StoreConstants
<1>4. PICK recs \in {<<Raw>>, <<>>, <<Torn>>}, b \in {0, RawSize} :
        /\ Adds(RawDisk, f, recs, b, disk')
        /\ fs' = [fs EXCEPT !["L1"] = [RawState EXCEPT !.written = @ + b]]
  <2>1. RawDisk \in Disks /\ f \in 1..Len(RawDisk) /\ <<>> \in Seq(Int) /\ 0 \in Nat
    BY <1>2 DEF Ready, Grows
  <2>2. CASE RawSaved
    <3>1. <<Raw>> \in Seq(Int) /\ disk' = WithRecords(RawDisk, f, <<Raw>>, RawSize)
      BY <2>2 DEF RawSaved, Raw
    <3>2. Adds(RawDisk, f, <<Raw>>, RawSize, disk')
      BY <1>3, <2>1, <3>1, WithRecordsIs
    <3> QED
      BY <2>2, <3>2 DEF RawSaved
  <2>3. CASE RawTorn
    <3>1. fs' = [fs EXCEPT !["L1"] = RawState]
      BY <2>3 DEF RawTorn
    <3>2. RawState = [RawState EXCEPT !.written = @ + 0]
      BY <1>2 DEF StreamType
    <3>3. PICK part \in Nat : disk' = WithTorn(RawDisk, f, part)
      BY <1>3, <2>3 DEF RawTorn, Parts
    <3>4. Adds(RawDisk, f, <<>>, 0, RawDisk)
      <4>1. RawDisk[f] \in ShardType
        BY <2>1 DEF Disks
      <4> QED
        BY <2>1, <4>1 DEF Adds, ShardType, Counted
    <3>5. PICK t \in {<<>>, <<Torn>>} : Adds(RawDisk, f, <<>> \o t, 0, disk')
      <4> HIDE DEF f
      <4> QED
        BY <2>1, <3>3, <3>4, WithTornIs
    <3>6. <<>> \o t = t
      BY DEF Torn
    <3> QED
      BY <3>1, <3>2, <3>5, <3>6
  <2> QED
    BY <2>2, <2>3
<1> DEFINE r2 == [RawState EXCEPT !.written = @ + b]
<1>5. recs \in Seq(Int) /\ b \in Nat /\ \A x \in Events : ~Among(x, recs)
  <2>1. b \in Nat /\ \A x \in Events : x \in Nat /\ x > 0
    BY <1>3, StoreConstants
  <2>2. <<>> \in Seq(Int) /\ \A x \in Events : ~Among(x, <<>>)
    BY DEF Among
  <2>3. \A y \in {Raw, Torn} : <<y>> \in Seq(Int) /\ \A x \in Events : ~Among(x, <<y>>)
    BY <2>1 DEF Raw, Torn, Among
  <2> QED
    BY <1>4, <2>1, <2>2, <2>3
<1>6. r2 \in StreamType /\ r2.file = RawState.file /\ r2.written = RawState.written + b
  BY <1>2, <1>5, StateWrites
<1> HIDE DEF r2
<1>7. /\ disk' \in Disks /\ fs' \in [Streams -> StreamType] /\ OpenShards'
      /\ \A l \in Streams : l # "L1" => fs'[l] = fs[l]
      /\ \A i : i # f => Recs(disk', i) = Recs(disk, i)
      /\ Recs(disk', f) = Recs(disk, f) \o recs /\ Recs(disk, f) \in Seq(Int)
      /\ \A i \in DOMAIN disk' : i # f =>
           \/ Counted(disk'[i]) <= HeadSize
           \/ i \in DOMAIN disk /\ Counted(disk'[i]) = Counted(disk[i]) /\ disk'[i].kind = disk[i].kind
      /\ disk'[f].kind = "L1" /\ Counted(disk'[f]) = RawState.written + b
  <2>1. fs' = [fs EXCEPT !["L1"] = r2]
    BY <1>4 DEF r2
  <2>2. Writes("L1", RawState, RawDisk, recs, b, r2)
    BY <1>1, <1>2, <1>4, <1>5, <1>6, <2>1 DEF Writes
  <2> QED
    BY <1>1, <2>2, WrittenIs
<1> HIDE DEF f
<1>8. \A i : \A x \in Events : /\ Among(x, Recs(disk', i)) <=> Among(x, Recs(disk, i))
                               /\ CopiesOf(Recs(disk', i), x) = CopiesOf(Recs(disk, i), x)
  <2>1. ASSUME NEW x \in Events
        PROVE  /\ Among(x, Recs(disk', f)) <=> Among(x, Recs(disk, f))
               /\ CopiesOf(Recs(disk', f), x) = CopiesOf(Recs(disk, f), x)
    BY <1>5, <1>7, AmongBoth
  <2> QED
    BY <1>7, <2>1
<1>9. StoreTypeOK'
  BY <1>1, <1>7 DEF StoreTypeOK, StoreInv, Disks
<1>10. OneShard' /\ \A i : KeysIn(i)' = KeysIn(i)
  BY <1>1, <1>8, EventsStay DEF StoreInv, StoreTypeOK
<1>11. KeysWithin'
  <2>1. fs'["CD"] = fs["CD"]
    BY <1>1, <1>7
  <2> QED
    BY <1>10, <2>1 DEF StoreInv, KeysWithin
<1>12. BytesWithin'
  <2> SUFFICES ASSUME MaxFileSize # 0, NEW i \in DOMAIN disk'
               PROVE  Counted(disk'[i]) <= IF disk'[i].kind = "CD" THEN MaxFileSize ELSE MaxFileSize + RawSize
    BY DEF BytesWithin
  <2>1. Counted(disk'[i]) \in Int
    <3>1. disk'[i] \in ShardType
      BY <1>7 DEF Disks
    <3> QED
      BY <3>1 DEF ShardType, Counted
  <2>2. CASE i = f
    <3>1. RawState.written <= MaxFileSize /\ RawState.written \in Nat
      <4>1. CASE RawRotates
        BY <1>3, <4>1 DEF RawState, RotatedState
      <4>2. CASE ~RawRotates
        BY <1>1, <1>3, <4>2, StreamsAre DEF RawState, RawRotates, StoreInv
      <4> QED
        BY <4>1, <4>2
    <3> QED
      BY <1>3, <1>4, <1>7, <2>2, <3>1
  <2>3. CASE i # f
    BY <1>3, <1>7, <2>1, <2>3 DEF StoreInv, BytesWithin
  <2> QED
    BY <2>2, <2>3
<1> QED
  BY <1>1, <1>8, <1>9, <1>7, <1>10, <1>11, <1>12 DEF StoreInv, RecordsStay

LEMMA RawKeeps ==
  ASSUME StoreInv, WriteRawRecord
  PROVE  StoreInv' /\ RecordsStay
<1>1. CASE RawSaved \/ RawTorn
  BY <1>1, RawWriteKeeps
<1>2. CASE RawRotationFails
  <2>1. "L1" \in Streams
    BY DEF Streams
  <2> QED
    BY <1>2, <2>1, RotationFailsKeeps DEF RawRotationFails, RawAccepted
<1> QED
  BY <1>1, <1>2 DEF WriteRawRecord

-----------------------------------------------------------------------------
(***************************************************************************)
(* An event                                                                *)
(***************************************************************************)
\* An event that nobody has tried to write
Unwritten(e) == e \notin saved /\ \A i : ~Among(e, Recs(disk, i))

LEMMA EventBytesIs ==
  ASSUME NEW e \in Events
  PROVE  /\ EventBytes(e) \in Nat /\ Fragments[e] \in Nat /\ RecordSize[e] \in Nat
         /\ \A n \in 0..Fragments[e] : n * RecordSize[e] \in Nat /\ n * RecordSize[e] <= EventBytes(e)
<1>1. Fragments[e] \in Nat /\ RecordSize[e] \in Nat
  BY StoreConstants
<1> DEFINE F == Fragments[e]
           R == RecordSize[e]
<1>2. F \in Nat /\ R \in Nat
  BY <1>1
<1>3. EventBytes(e) = F * R
  BY DEF EventBytes
<1> HIDE DEF F, R
<1>4. F * R \in Nat
  BY <1>2
<1>5. ASSUME NEW n \in 0..F PROVE n * R \in Nat /\ n * R <= F * R
  <2>1. n \in Nat /\ F - n \in Nat /\ F = n + (F - n)
    BY <1>2
  <2>2. F * R = n * R + (F - n) * R /\ (F - n) * R \in Nat /\ n * R \in Nat
    BY <1>2, <2>1
  <2> QED
    BY <1>4, <2>2
<1> QED
  BY <1>1, <1>3, <1>4, <1>5 DEF F, R

\* What CdSaved and CdTorn write
CdWrites(e, recs, b, r2) ==
  /\ Writes("CD", ReadyState(e), ReadyDisk(e), recs, b, r2)
  /\ b <= EventBytes(e) /\ ~TooLarge(e)
  /\ \A x \in Events : x # e => ~Among(x, recs)
  /\ \/ /\ saved' = saved \cup {e} /\ r2.keys = Remembered(ReadyState(e), e)
        /\ recs = Records(e, Fragments[e]) \o <<>>
     \/ saved' = saved /\ r2.keys = ReadyState(e).keys

LEMMA CdSavedWrites ==
  ASSUME StoreInv, NEW e \in Events, CdSaved(e)
  PROVE  \E recs, b, r2 : CdWrites(e, recs, b, r2)
<1> DEFINE r == ReadyState(e)
           recs == Records(e, Fragments[e])
           b == EventBytes(e)
           r2 == [r EXCEPT !.written = @ + b, !.keys = Remembered(r, e)]
<1>1. r.file # 0 /\ is_open /\ is_open' = is_open /\ ~TooLarge(e) /\ saved' = saved \cup {e}
  BY DEF CdSaved
<1>2. Ready("CD", r, ReadyDisk(e)) /\ r \in StreamType
  BY <1>1, CdReady DEF Ready
<1>3. b \in Nat /\ Fragments[e] \in Nat /\ e \in Int
  BY EventBytesIs, StoreConstants
<1>4. disk' = WithRecords(ReadyDisk(e), r.file, recs, b) /\ fs' = [fs EXCEPT !["CD"] = r2]
  BY DEF CdSaved, SavedDisk
<1>5. Remembered(r, e) \subseteq KeySet
  <2>1. r.keys \subseteq KeySet
    BY <1>2 DEF StreamType
  <2> HIDE DEF r
  <2> QED
    BY <2>1 DEF Remembered, KeySet
<1>6. recs \in Seq(Int) /\ recs = recs \o <<>> /\ \A x \in Events : x # e => ~Among(x, recs)
  <2>1. recs \in Seq(Int) /\ \A j \in DOMAIN recs : recs[j] = e
    BY <1>3 DEF Records
  <2> HIDE DEF recs
  <2>2. recs = recs \o <<>>
    BY <2>1
  <2> QED
    BY <2>1, <2>2 DEF Among
<1> HIDE DEF r, b, recs
<1>7. r2 \in StreamType /\ r2.file = r.file /\ r2.written = r.written + b /\ r2.keys = Remembered(r, e)
  <2>1. r2 = StateAfter(r, b, Remembered(r, e))
    BY DEF StateAfter
  <2> HIDE DEF r2
  <2>2. Remembered(r, e) \in SUBSET KeySet
    BY <1>5
  <2> QED
    <3> DEFINE keys == Remembered(r, e)
    <3>1. r \in StreamType /\ b \in Nat /\ keys \in SUBSET KeySet
      BY <1>2, <1>3, <2>2
    <3> HIDE DEF keys
    <3>2. /\ StateAfter(r, b, keys) \in StreamType /\ StateAfter(r, b, keys).file = r.file
          /\ StateAfter(r, b, keys).written = r.written + b /\ StateAfter(r, b, keys).keys = keys
      BY <3>1, StateSaves
    <3> QED
      BY <2>1, <3>2 DEF keys
<1> HIDE DEF r2
<1>8. Writes("CD", r, ReadyDisk(e), recs, b, r2)
  <2>1. ReadyDisk(e) \in Disks /\ r.file \in 1..Len(ReadyDisk(e))
    BY <1>2 DEF Ready, Grows
  <2>2. Adds(ReadyDisk(e), r.file, recs, b, disk')
    BY <1>3, <1>4, <1>6, <2>1, WithRecordsIs
  <2> QED
    BY <1>1, <1>2, <1>3, <1>4, <1>6, <1>7, <2>2 DEF Writes
<1>9. b <= EventBytes(e)
  BY <1>3 DEF b
<1>10. CdWrites(e, recs, b, r2)
  BY <1>1, <1>6, <1>7, <1>8, <1>9 DEF CdWrites, r, recs
<1> QED
  BY <1>10

LEMMA CdTornWrites ==
  ASSUME StoreInv, NEW e \in Events, Fragments[e] > 0, CdTorn(e)
  PROVE  \E recs, b, r2 : CdWrites(e, recs, b, r2)
<1> DEFINE r == ReadyState(e)
<1>1. r.file # 0 /\ is_open /\ is_open' = is_open /\ ~TooLarge(e) /\ saved' = saved
  BY DEF CdTorn, Refused
<1>2. Ready("CD", r, ReadyDisk(e)) /\ r \in StreamType
  BY <1>1, CdReady DEF Ready
<1>3. PICK n \in 0..(Fragments[e] - 1), part \in Parts(RecordSize[e]) :
        /\ fs' = [fs EXCEPT !["CD"] = [r EXCEPT !.written = @ + n * RecordSize[e]]]
        /\ disk' = WithTorn(WithRecords(ReadyDisk(e), r.file, Records(e, n), n * RecordSize[e]),
                            r.file, part)
  BY DEF CdTorn
<1>4. n \in Nat /\ e \in Int /\ n * RecordSize[e] \in Nat /\ n * RecordSize[e] <= EventBytes(e)
      /\ part \in Nat
  <2>1. n \in 0..Fragments[e] /\ n \in Nat /\ part \in Nat
    BY EventBytesIs DEF Parts
  <2> QED
    BY <2>1, EventBytesIs, StoreConstants
<1> DEFINE b == n * RecordSize[e]
           r2 == [r EXCEPT !.written = @ + b]
<1>5. PICK t \in {<<>>, <<Torn>>} : Adds(ReadyDisk(e), r.file, Records(e, n) \o t, b, disk')
  <2>1. ReadyDisk(e) \in Disks /\ r.file \in 1..Len(ReadyDisk(e)) /\ Records(e, n) \in Seq(Int)
    BY <1>2, <1>4 DEF Ready, Grows, Records
  <2>2. b \in Nat
    BY <1>4
  <2>3. disk' = WithTorn(WithRecords(ReadyDisk(e), r.file, Records(e, n), b), r.file, part)
    BY <1>3
  <2> HIDE DEF r, b
  <2>4. Adds(ReadyDisk(e), r.file, Records(e, n), b,
             WithRecords(ReadyDisk(e), r.file, Records(e, n), b))
    BY <2>1, <2>2, WithRecordsIs
  <2> QED
    BY <1>4, <2>1, <2>2, <2>3, <2>4, WithTornIs
<1> DEFINE recs == Records(e, n) \o t
<1>6. t \in Seq(Int) /\ \A x \in Events : ~Among(x, t)
  <2>1. <<>> \in Seq(Int) /\ \A x \in Events : ~Among(x, <<>>)
    BY DEF Among
  <2>2. \A x \in Events : x \in Nat
    BY StoreConstants
  <2>3. <<Torn>> \in Seq(Int) /\ \A x \in Events : ~Among(x, <<Torn>>)
    BY <2>2 DEF Torn, Among
  <2> QED
    BY <1>5, <2>1, <2>2, <2>3
<1>7. recs \in Seq(Int) /\ \A x \in Events : x # e => ~Among(x, recs)
  <2>1. Records(e, n) \in Seq(Int) /\ \A j \in DOMAIN Records(e, n) : Records(e, n)[j] = e
    BY <1>4 DEF Records
  <2>2. recs \in Seq(Int)
    BY <1>6, <2>1
  <2>3. ASSUME NEW x \in Events, x # e PROVE ~Among(x, recs)
    <3>1. ~Among(x, Records(e, n))
      BY <2>1, <2>3 DEF Among
    <3> QED
      BY <1>6, <2>1, <3>1, AmongBoth
  <2> QED
    BY <2>2, <2>3
<1>8. r2 \in StreamType /\ r2.file = r.file /\ r2.written = r.written + b /\ r2.keys = r.keys
  BY <1>2, <1>4, StateWrites
<1>9. Adds(ReadyDisk(e), r.file, recs, b, disk') /\ fs' = [fs EXCEPT !["CD"] = r2] /\ b \in Nat
      /\ b <= EventBytes(e)
  BY <1>3, <1>4, <1>5
<1> HIDE DEF r, b, recs, r2
<1>10. Writes("CD", r, ReadyDisk(e), recs, b, r2)
  BY <1>1, <1>2, <1>4, <1>7, <1>8, <1>9 DEF Writes
<1>11. CdWrites(e, recs, b, r2)
  BY <1>1, <1>4, <1>7, <1>8, <1>9, <1>10 DEF CdWrites, r
<1> QED
  BY <1>11

\* The records of the other events stay as they are.
OthersStay(e) ==
  /\ saved \subseteq saved' /\ saved' \subseteq saved \cup {e}
  /\ \A i : \A x \in Events : x # e => (Among(x, Recs(disk', i)) <=> Among(x, Recs(disk, i)))

LEMMA KeysFinite ==
  ASSUME StoreTypeOK, NEW i
  PROVE  IsFiniteSet(KeysIn(i)) /\ Cardinality(KeysIn(i)) \in Nat /\ KeysIn(i) \subseteq KeySet
<1>1. IsFiniteSet(KeySet)
  <2>1. IsFiniteSet(Events)
    BY StoreConstants
  <2> DEFINE key == [e \in Events |-> EventKey[e]]
  <2>2. key \in Surjection(Events, KeySet)
    BY DEF Surjection, KeySet
  <2> QED
    BY <2>1, <2>2, FS_Surjection
<1>2. KeysIn(i) \subseteq KeySet
  BY DEF StoreTypeOK, KeysIn, KeySet
<1>3. IsFiniteSet(KeysIn(i))
  BY <1>1, <1>2, FS_Subset
<1> QED
  BY <1>2, <1>3, FS_CardinalityType

\* The keys a stream goes on with are those of its shard, and there is room
\* for one more that is new.
LEMMA ReadyKeys ==
  ASSUME StoreInv, NEW e \in Events, ReadyState(e).file # 0, MaxEventNumberSaved # 0
  PROVE  /\ ReadyState(e).keys = KeysIn(ReadyState(e).file)
         /\ EventKey[e] \notin KeysIn(ReadyState(e).file) =>
              Cardinality(KeysIn(ReadyState(e).file)) < MaxEventNumberSaved
<1>1. /\ StoreTypeOK /\ MaxEventNumberSaved \in Nat /\ Len(disk) \in Nat
      /\ DOMAIN disk = 1..Len(disk) /\ fs["CD"].file \in Nat
  BY StoreConstants, StreamsAre DEF StoreInv, Streams
<1>2. CASE Rotates(e)
  <2> DEFINE f == Len(disk) + 1
  <2>1. ReadyState(e).file = f /\ ReadyState(e).keys = {}
    BY <1>2 DEF ReadyState, RotatedState
  <2>2. f \notin DOMAIN disk
    BY <1>1
  <2>3. KeysIn(f) = {}
    BY <1>1, <2>2, KeysOfNone
  <2> HIDE DEF f
  <2> QED
    BY <1>1, <2>1, <2>3, FS_EmptySet
<1>3. CASE ~Rotates(e)
  <2> DEFINE f == fs["CD"].file
  <2>1. ReadyState(e) = fs["CD"] /\ f # 0 /\ f \in Nat
    BY <1>1, <1>3 DEF ReadyState
  <2>2. fs["CD"].keys = KeysIn(f)
    BY <2>1 DEF StoreInv, KeysWithin
  <2>3. ~NumberRotates(e)
    BY <1>3 DEF Rotates
  <2>4. EventKey[e] \notin KeysIn(f) => ~(Cardinality(KeysIn(f)) >= MaxEventNumberSaved)
    BY <2>2, <2>3 DEF NumberRotates
  <2>5. Cardinality(KeysIn(f)) \in Nat
    BY <1>1, KeysFinite
  <2> HIDE DEF f
  <2> QED
    BY <1>1, <2>1, <2>2, <2>4, <2>5 DEF f
<1> QED
  BY <1>2, <1>3

LEMMA ReadyRoom ==
  ASSUME StoreInv, NEW e \in Events, ReadyState(e).file # 0, MaxFileSize # 0, ~TooLarge(e),
         NEW b \in Nat, b <= EventBytes(e)
  PROVE  ReadyState(e).written + b <= MaxFileSize
<1>1. /\ StoreTypeOK /\ MaxFileSize \in Nat /\ HeadSize \in Nat /\ fs["CD"].written \in Nat
      /\ EventBytes(e) \in Nat
  BY StoreConstants, StreamsAre, EventBytesIs DEF StoreInv, Streams
<1>2. HeadSize + EventBytes(e) <= MaxFileSize
  BY <1>1 DEF TooLarge
<1>3. CASE Rotates(e)
  <2>1. ReadyState(e).written = HeadSize
    BY <1>3 DEF ReadyState, RotatedState
  <2> QED
    BY <1>1, <1>2, <2>1
<1>4. CASE ~Rotates(e)
  <2>1. ReadyState(e).written = fs["CD"].written
    BY <1>4 DEF ReadyState
  <2>2. ~(fs["CD"].written > HeadSize /\ fs["CD"].written + EventBytes(e) > MaxFileSize)
    BY <1>4 DEF Rotates, SizeRotates
  <2> QED
    BY <1>1, <1>2, <2>1, <2>2
<1> QED
  BY <1>3, <1>4

\* What CdWrites does to the shards and streams
LEMMA CdWrittenIs ==
  ASSUME StoreInv, NEW e \in Events, NEW recs, NEW b, NEW r2, CdWrites(e, recs, b, r2)
  PROVE  /\ ReadyState(e).file # 0 /\ ReadyState(e).file \in Nat /\ fs'["CD"] = r2 /\ r2.file = ReadyState(e).file
         /\ disk' \in Disks /\ fs' \in [Streams -> StreamType] /\ OpenShards' /\ is_open' = is_open
         /\ \A i : i # ReadyState(e).file => Recs(disk', i) = Recs(disk, i)
         /\ Recs(disk', ReadyState(e).file) = Recs(disk, ReadyState(e).file) \o recs /\ Recs(disk, ReadyState(e).file) \in Seq(Int)
         /\ recs \in Seq(Int) /\ b \in Nat
         /\ \A i \in DOMAIN disk' : i # ReadyState(e).file =>
              \/ Counted(disk'[i]) <= HeadSize
              \/ i \in DOMAIN disk /\ Counted(disk'[i]) = Counted(disk[i]) /\ disk'[i].kind = disk[i].kind
         /\ disk'[ReadyState(e).file].kind = "CD" /\ Counted(disk'[ReadyState(e).file]) = ReadyState(e).written + b
<1>1. Writes("CD", ReadyState(e), ReadyDisk(e), recs, b, r2) /\ "CD" \in Streams
  BY DEF CdWrites, Streams
<1>2. ReadyState(e).file # 0 /\ ReadyState(e).file \in Nat /\ r2.file = ReadyState(e).file /\ recs \in Seq(Int) /\ b \in Nat /\ is_open' = is_open
  BY <1>1 DEF Writes, Ready, StreamType, Grows, Disks
<1> DEFINE r == ReadyState(e)
<1>3. /\ disk' \in Disks /\ fs' \in [Streams -> StreamType] /\ OpenShards'
      /\ fs'["CD"] = r2
      /\ \A i : i # r.file => Recs(disk', i) = Recs(disk, i)
      /\ Recs(disk', r.file) = Recs(disk, r.file) \o recs /\ Recs(disk, r.file) \in Seq(Int)
      /\ \A i \in DOMAIN disk' : i # r.file =>
           \/ Counted(disk'[i]) <= HeadSize
           \/ i \in DOMAIN disk /\ Counted(disk'[i]) = Counted(disk[i]) /\ disk'[i].kind = disk[i].kind
      /\ disk'[r.file].kind = "CD" /\ Counted(disk'[r.file]) = r.written + b
  <2> HIDE DEF r
  <2>1. Writes("CD", r, ReadyDisk(e), recs, b, r2)
    BY <1>1 DEF r
  <2> QED
    BY <1>1, <2>1, WrittenIs
<1> QED
  BY <1>2, <1>3, Zenon

LEMMA CdWriteKeeps ==
  ASSUME StoreInv, NEW e \in Events, Fragments[e] > 0, Unwritten(e), run_number' = run_number,
         NEW recs, NEW b, NEW r2, CdWrites(e, recs, b, r2)
  PROVE  StoreInv' /\ OthersStay(e)
<1> DEFINE f == ReadyState(e).file
<1>1. /\ f # 0 /\ f \in Nat /\ fs'["CD"] = r2 /\ r2.file = f
      /\ disk' \in Disks /\ fs' \in [Streams -> StreamType] /\ OpenShards' /\ is_open' = is_open
      /\ \A i : i # f => Recs(disk', i) = Recs(disk, i)
      /\ Recs(disk', f) = Recs(disk, f) \o recs /\ Recs(disk, f) \in Seq(Int)
      /\ recs \in Seq(Int) /\ b \in Nat
      /\ \A i \in DOMAIN disk' : i # f =>
           \/ Counted(disk'[i]) <= HeadSize
           \/ i \in DOMAIN disk /\ Counted(disk'[i]) = Counted(disk[i]) /\ disk'[i].kind = disk[i].kind
      /\ disk'[f].kind = "CD" /\ Counted(disk'[f]) = ReadyState(e).written + b
  BY CdWrittenIs DEF f
<1>2. ReadyState(e).file = f
  OBVIOUS
<1> HIDE DEF f
<1>3. /\ b <= EventBytes(e) /\ ~TooLarge(e)
      /\ \A x \in Events : x # e => ~Among(x, recs)
  BY DEF CdWrites
<1>4. \/ saved' = saved \cup {e} /\ r2.keys = Remembered(ReadyState(e), e) /\ recs = Records(e, Fragments[e]) \o <<>>
      \/ saved' = saved /\ r2.keys = ReadyState(e).keys
  BY DEF CdWrites
<1>5. e \notin saved /\ (\A i : ~Among(e, Recs(disk, i))) /\ saved \subseteq Events
  BY DEF Unwritten, StoreInv, StoreTypeOK
<1>6. ASSUME NEW x \in Events, x # e, NEW i
      PROVE  /\ Among(x, Recs(disk', i)) <=> Among(x, Recs(disk, i))
             /\ CopiesOf(Recs(disk', i), x) = CopiesOf(Recs(disk, i), x)
  <2>1. CASE i # f
    BY <1>1, <2>1
  <2>2. CASE i = f
    <3>1. ~Among(x, recs)
      BY <1>3, <1>6
    <3>2. recs \in Seq(Int) /\ Recs(disk, f) \in Seq(Int) /\ Recs(disk', f) = Recs(disk, f) \o recs
      BY <1>1
    <3>3. /\ Among(x, Recs(disk, f) \o recs) <=> Among(x, Recs(disk, f)) \/ Among(x, recs)
          /\ ~Among(x, recs) => CopiesOf(Recs(disk, f) \o recs, x) = CopiesOf(Recs(disk, f), x)
      BY <3>2, AmongBoth, Zenon
    <3> QED
      BY <2>2, <3>1, <3>2, <3>3
  <2> QED
    BY <2>1, <2>2
<1>7. ASSUME NEW i, Among(e, Recs(disk', i)) PROVE i = f
  BY <1>1, <1>5, <1>7
<1>8. ASSUME saved' = saved \cup {e}, recs = Records(e, Fragments[e]) \o <<>>
      PROVE  Among(e, Recs(disk', f)) /\ CopiesOf(Recs(disk', f), e) = Fragments[e]
  <2>1. Fragments[e] \in Nat /\ e \in Int /\ <<>> \in Seq(Int) /\ ~Among(e, <<>>) /\ ~Among(e, Recs(disk, f))
    BY <1>5, EventBytesIs, StoreConstants DEF Among
  <2>2. CopiesOf(Recs(disk, f) \o recs, e) = Fragments[e] /\ Among(e, recs)
    BY <1>1, <1>8, <2>1, CopiesAdded
  <2>3. Among(e, Recs(disk, f) \o recs)
    BY <1>1, <2>2, AmongBoth
  <2> QED
    BY <1>1, <2>2, <2>3
<1>9. OthersStay(e)
  BY <1>4, <1>6 DEF OthersStay
<1>10. OneShard'
  <2>1. ASSUME NEW x \in Events, NEW i \in Nat, NEW j \in Nat,
               Among(x, Recs(disk', i)), Among(x, Recs(disk', j))
        PROVE  i = j
    <3>1. CASE x = e
      BY <1>7, <2>1, <3>1
    <3>2. CASE x # e
      BY <1>6, <2>1, <3>2 DEF StoreInv, OneShard
    <3> QED
      BY <3>1, <3>2
  <2>2. ASSUME NEW x \in saved'
        PROVE  \E i \in Nat : Among(x, Recs(disk', i)) /\ CopiesOf(Recs(disk', i), x) = Fragments[x]
    <3>1. CASE x = e
      BY <1>1, <1>4, <1>5, <1>8, <2>2, <3>1
    <3>2. CASE x # e
      <4>1. x \in saved /\ x \in Events
        BY <1>4, <1>5, <2>2, <3>2
      <4>2. PICK i \in Nat : Among(x, Recs(disk, i)) /\ CopiesOf(Recs(disk, i), x) = Fragments[x]
        BY <4>1 DEF StoreInv, OneShard
      <4> QED
        BY <1>6, <3>2, <4>1, <4>2
    <3> QED
      BY <3>1, <3>2
  <2> QED
    BY <2>1, <2>2 DEF OneShard
<1>11. KeysWithin'
  <2> SUFFICES ASSUME MaxEventNumberSaved # 0, NEW i \in Nat
               PROVE  /\ fs'["CD"].file = i /\ i # 0 => fs'["CD"].keys = KeysIn(i)'
                      /\ Cardinality(KeysIn(i)') <= MaxEventNumberSaved
    BY DEF KeysWithin
  <2>1. /\ ReadyState(e).keys = KeysIn(f)
        /\ EventKey[e] \notin KeysIn(f) => Cardinality(KeysIn(f)) < MaxEventNumberSaved
    <3>1. f # 0
      BY <1>1
    <3> QED
      BY <1>2, <3>1, ReadyKeys
  <2>2. KeysIn(i)' = IF i = f /\ saved' # saved THEN KeysIn(f) \cup {EventKey[e]} ELSE KeysIn(i)
    <3>1. {x \in saved' : Among(x, Recs(disk', i))} =
             {x \in saved : Among(x, Recs(disk, i))} \cup (IF i = f /\ saved' # saved THEN {e} ELSE {})
      BY <1>4, <1>5, <1>6, <1>7, <1>8
    <3>2. KeysIn(i)' = {EventKey[x] : x \in {y \in saved' : Among(y, Recs(disk', i))}}
      BY DEF KeysIn
    <3>3. CASE i = f /\ saved' # saved
      BY <3>1, <3>2, <3>3 DEF KeysIn
    <3>4. CASE ~(i = f /\ saved' # saved)
      BY <3>1, <3>2, <3>4 DEF KeysIn
    <3> QED
      BY <3>3, <3>4
  <2>3. fs'["CD"].file = i /\ i # 0 => fs'["CD"].keys = KeysIn(i)'
    BY <1>1, <1>4, <1>5, <2>1, <2>2 DEF Remembered
  <2>4. Cardinality(KeysIn(i)) <= MaxEventNumberSaved
    BY DEF StoreInv, KeysWithin
  <2>5. IsFiniteSet(KeysIn(f)) /\ Cardinality(KeysIn(f)) \in Nat /\ MaxEventNumberSaved \in Nat
    BY KeysFinite, StoreConstants DEF StoreInv
  <2>6. EventKey[e] \notin KeysIn(f) => Cardinality(KeysIn(f) \cup {EventKey[e]}) = Cardinality(KeysIn(f)) + 1
    BY <2>5, FS_AddElement
  <2>7. EventKey[e] \in KeysIn(f) => KeysIn(f) \cup {EventKey[e]} = KeysIn(f)
    OBVIOUS
  <2>8. Cardinality(KeysIn(i)') <= MaxEventNumberSaved
    <3>1. CASE i = f /\ saved' # saved
      BY <2>1, <2>2, <2>4, <2>5, <2>6, <2>7, <3>1
    <3>2. CASE ~(i = f /\ saved' # saved)
      BY <2>2, <2>4, <3>2
    <3> QED
      BY <3>1, <3>2
  <2> QED
    BY <2>3, <2>8
<1>12. BytesWithin'
  <2> SUFFICES ASSUME MaxFileSize # 0, NEW i \in DOMAIN disk'
               PROVE  Counted(disk'[i]) <= IF disk'[i].kind = "CD" THEN MaxFileSize ELSE MaxFileSize + RawSize
    BY DEF BytesWithin
  <2>1. Counted(disk'[i]) \in Int
    <3>1. disk'[i] \in ShardType
      BY <1>1 DEF Disks
    <3> QED
      BY <3>1 DEF ShardType, Counted
  <2>2. HeadSize <= MaxFileSize /\ HeadSize \in Nat /\ MaxFileSize \in Nat /\ RawSize \in Nat
    BY StoreConstants
  <2>3. CASE i = f
    <3>1. ReadyState(e).written + b <= MaxFileSize
      <4>1. ReadyState(e).file # 0 /\ b \in Nat
        BY <1>1, <1>2
      <4> QED
        BY <1>3, <4>1, ReadyRoom
    <3> QED
      BY <1>1, <2>3, <3>1
  <2>4. CASE i # f
    <3>1. CASE Counted(disk'[i]) <= HeadSize
      BY <2>1, <2>2, <3>1
    <3>2. CASE i \in DOMAIN disk /\ Counted(disk'[i]) = Counted(disk[i]) /\ disk'[i].kind = disk[i].kind
      BY <3>2 DEF StoreInv, BytesWithin
    <3> QED
      BY <1>1, <2>4, <3>1, <3>2
  <2> QED
    BY <2>3, <2>4
<1>13. StoreTypeOK'
  BY <1>1, <1>4, <1>5 DEF StoreTypeOK, StoreInv, Disks
<1> QED
  BY <1>1, <1>9, <1>10, <1>11, <1>12, <1>13 DEF StoreInv

LEMMA UnchangedKeeps ==
  ASSUME StoreInv, UNCHANGED <<is_open, run_number, fs, disk, saved>>
  PROVE  StoreInv' /\ RecordsStay
<1>1. StoreTypeOK' /\ OpenShards'
  BY DEF StoreInv, StoreTypeOK, OpenShards
<1>2. \A i : KeysIn(i)' = KeysIn(i)
  BY DEF KeysIn
<1>3. OneShard' /\ KeysWithin' /\ BytesWithin'
  BY <1>2 DEF StoreInv, OneShard, KeysWithin, BytesWithin
<1> QED
  BY <1>1, <1>3 DEF StoreInv, RecordsStay

\* An event too large: the shard may have been followed by the next.
LEMMA TooLargeKeeps ==
  ASSUME StoreInv, NEW e \in Events, CdTooLarge(e)
  PROVE  StoreInv' /\ RecordsStay
<1>1. /\ is_open /\ is_open' = is_open /\ run_number' = run_number /\ saved' = saved
      /\ fs' = [fs EXCEPT !["CD"] = ReadyState(e)] /\ disk' = ReadyDisk(e)
  BY DEF CdTooLarge, Refused
<1>2. /\ StoreTypeOK /\ OpenShards /\ fs \in [Streams -> StreamType] /\ "CD" \in Streams
      /\ Len(disk) \in Nat /\ DOMAIN disk = 1..Len(disk) /\ HeadSize \in Nat
  BY StreamsAre DEF StoreInv, StoreTypeOK, Streams
<1>3. CASE Rotates(e)
  <2> DEFINE f == Len(disk) + 1
             d2 == RotatedDisk("CD")
             r == RotatedState("CD")
  <2>1. /\ Grows(disk, d2) /\ Len(d2) = f /\ d2[f].kind = "CD" /\ Counted(d2[f]) = HeadSize
        /\ r \in StreamType /\ r.file = f /\ r.written = HeadSize /\ r.keys = {}
    BY <1>2, RotatedIs
  <2>2. disk' = d2 /\ fs' = [fs EXCEPT !["CD"] = r]
    BY <1>1, <1>3 DEF ReadyState, ReadyDisk
  <2> HIDE DEF r, d2
  <2>3. f \in 1..Len(d2) /\ f \notin DOMAIN disk
    BY <1>2, <2>1
  <2> HIDE DEF f
  <2>4. /\ fs' \in [Streams -> StreamType] /\ fs'["CD"] = r
        /\ \A l \in Streams : l # "CD" => fs'[l] = fs[l]
        /\ disk' \in Disks /\ d2 \in Disks
    BY <1>2, <2>1, <2>2 DEF Grows
  <2>5. StoreTypeOK'
    BY <1>1, <1>2, <2>4 DEF StoreTypeOK, Disks
  <2>6. OpenShards'
    <3>1. /\ Counted(disk'[f]) = Counted(d2[f]) + 0 /\ Len(disk') = Len(d2)
          /\ fs'["CD"].file = f /\ fs'["CD"].written = Counted(d2[f]) + 0 /\ 0 \in Nat
          /\ \A l \in 1..Len(d2) : disk'[l].kind = d2[l].kind
          /\ \A l \in 1..Len(d2) : l # f => Counted(disk'[l]) = Counted(d2[l])
      BY <1>2, <2>1, <2>2, <2>4
    <3> QED
      BY <1>1, <1>2, <2>1, <2>3, <2>4, <3>1, OpenGoesOn
  <2> QED
    BY <1>1, <1>2, <2>1, <2>2, <2>3, <2>4, <2>5, <2>6, ShardsOnly, GrowsKeepsRecords
<1>4. CASE ~Rotates(e)
  <2>1. fs' = fs /\ disk' = disk
    BY <1>1, <1>2, <1>4 DEF ReadyState, ReadyDisk
  <2> QED
    BY <1>1, <2>1, UnchangedKeeps
<1> QED
  BY <1>3, <1>4

LEMMA CdKeeps ==
  ASSUME StoreInv, NEW e \in Events, Fragments[e] > 0, Unwritten(e), WriteCdEvent(e)
  PROVE  StoreInv' /\ OthersStay(e)
<1>1. RecordsStay => OthersStay(e)
  BY DEF RecordsStay, OthersStay
<1>2. CASE CdSaved(e)
  <2>1. run_number' = run_number
    BY <1>2 DEF CdSaved
  <2>2. PICK recs, b, r2 : CdWrites(e, recs, b, r2)
    BY <1>2, CdSavedWrites
  <2> QED
    BY <2>1, <2>2, CdWriteKeeps
<1>3. CASE CdTorn(e)
  <2>1. run_number' = run_number
    BY <1>3 DEF CdTorn, Refused
  <2>2. PICK recs, b, r2 : CdWrites(e, recs, b, r2)
    BY <1>3, CdTornWrites
  <2> QED
    BY <2>1, <2>2, CdWriteKeeps
<1>4. CASE CdRotationFails(e)
  <2>1. "CD" \in Streams /\ RotationFails("CD") /\ is_open' = is_open /\ run_number' = run_number /\ saved' = saved
    BY <1>4 DEF CdRotationFails, Refused, Streams
  <2> QED
    BY <1>1, <2>1, RotationFailsKeeps
<1>5. CASE CdTooLarge(e)
  BY <1>1, <1>5, TooLargeKeeps
<1>6. CASE CdNoFile(e)
  BY <1>1, <1>6, UnchangedKeeps DEF CdNoFile, Refused
<1> QED
  BY <1>2, <1>3, <1>4, <1>5, <1>6 DEF WriteCdEvent

-----------------------------------------------------------------------------
(***************************************************************************)
(* An event is written at most once: it is in flight at one place at a     *)
(* time, and nobody has written it before.                                 *)
(***************************************************************************)
Distinct(s) == \A i, j \in DOMAIN s : s[i] = s[j] => i = j
Apart(s, r) == \A e \in Events : ~(Among(e, s) /\ Among(e, r))

InFlightOnce ==
  /\ Distinct(completed) /\ Distinct(queue) /\ Apart(completed, queue)
  /\ \A t \in Threads : Distinct(hand[t]) /\ Apart(completed, hand[t]) /\ Apart(queue, hand[t])
  /\ \A t, u \in Threads : t # u => Apart(hand[t], hand[u])

InHand(e) == Among(e, queue) \/ \E t \in Threads : Among(e, hand[t])

Fresh ==
  \A e \in Events :
    /\ Among(e, completed) \/ InHand(e) => e < next /\ Unwritten(e)
    /\ e >= next => Unwritten(e)
    /\ InHand(e) => Fragments[e] > 0

LEMMA NoneAmong ==
  /\ Distinct(<<>>) /\ <<>> \in Seq(Events) /\ \A e : ~Among(e, <<>>)
  BY DEF Distinct, Among

LEMMA JoinedDistinct ==
  ASSUME NEW s \in Seq(Events), NEW r \in Seq(Events), Distinct(s), Distinct(r), Apart(s, r)
  PROVE  /\ Distinct(s \o r) /\ s \o r \in Seq(Events)
         /\ \A e : Among(e, s \o r) <=> Among(e, s) \/ Among(e, r)
<1>1. /\ Len(s) \in Nat /\ Len(r) \in Nat /\ DOMAIN s = 1..Len(s) /\ DOMAIN r = 1..Len(r)
      /\ DOMAIN (s \o r) = 1..(Len(s) + Len(r)) /\ s \o r \in Seq(Events)
      /\ \A j \in 1..Len(s) : (s \o r)[j] = s[j] /\ s[j] \in Events
      /\ \A j \in 1..Len(r) : (s \o r)[Len(s) + j] = r[j] /\ r[j] \in Events
  OBVIOUS
<1> DEFINE sr == s \o r
<1> HIDE DEF sr
<1>2. ASSUME NEW j \in 1..(Len(s) + Len(r)), j > Len(s)
      PROVE  j - Len(s) \in 1..Len(r) /\ sr[j] = r[j - Len(s)]
  <2>1. j - Len(s) \in 1..Len(r) /\ j = Len(s) + (j - Len(s))
    BY <1>1, <1>2
  <2> QED
    BY <1>1, <2>1 DEF sr
<1>3. \A j \in 1..Len(s) : j \in 1..(Len(s) + Len(r)) /\ sr[j] = s[j]
  BY <1>1 DEF sr
<1>4. \A j \in 1..Len(r) : Len(s) + j \in 1..(Len(s) + Len(r)) /\ sr[Len(s) + j] = r[j]
  BY <1>1 DEF sr
<1>5. \A i \in 1..Len(s), j \in 1..Len(r) : s[i] # r[j]
  <2> SUFFICES ASSUME NEW i \in 1..Len(s), NEW j \in 1..Len(r), s[i] = r[j] PROVE FALSE
    OBVIOUS
  <2>1. Among(s[i], s) /\ Among(s[i], r) /\ s[i] \in Events
    BY <1>1 DEF Among
  <2> QED
    BY <2>1 DEF Apart
<1>6. Distinct(sr)
  <2> SUFFICES ASSUME NEW i \in 1..(Len(s) + Len(r)), NEW j \in 1..(Len(s) + Len(r)), sr[i] = sr[j]
               PROVE  i = j
    BY <1>1 DEF Distinct, sr
  <2>1. CASE i <= Len(s) /\ j <= Len(s)
    BY <1>1, <1>3, <2>1 DEF Distinct
  <2>2. CASE i <= Len(s) /\ j > Len(s)
    BY <1>1, <1>2, <1>3, <1>5, <2>2
  <2>3. CASE i > Len(s) /\ j <= Len(s)
    BY <1>1, <1>2, <1>3, <1>5, <2>3
  <2>4. CASE i > Len(s) /\ j > Len(s)
    <3>1. i - Len(s) = j - Len(s)
      BY <1>1, <1>2, <2>4 DEF Distinct
    <3> QED
      BY <1>1, <3>1
  <2> QED
    BY <1>1, <2>1, <2>2, <2>3, <2>4
<1>7. ASSUME NEW e PROVE Among(e, sr) <=> Among(e, s) \/ Among(e, r)
  <2>1. ASSUME Among(e, sr) PROVE Among(e, s) \/ Among(e, r)
    <3>1. PICK j \in 1..(Len(s) + Len(r)) : sr[j] = e
      BY <1>1, <2>1 DEF Among, sr
    <3>2. CASE j <= Len(s)
      BY <1>1, <1>3, <3>1, <3>2 DEF Among
    <3>3. CASE j > Len(s)
      BY <1>1, <1>2, <3>1, <3>3 DEF Among
    <3> QED
      BY <1>1, <3>2, <3>3
  <2>2. ASSUME Among(e, s) PROVE Among(e, sr)
    BY <1>1, <1>3, <2>2 DEF Among, sr
  <2>3. ASSUME Among(e, r) PROVE Among(e, sr)
    BY <1>1, <1>4, <2>3 DEF Among, sr
  <2> QED
    BY <2>1, <2>2, <2>3
<1> QED
  BY <1>1, <1>6, <1>7 DEF sr

LEMMA SplitDistinct ==
  ASSUME NEW s \in Seq(Events), Distinct(s), NEW n \in 0..Len(s)
  PROVE  LET first == SubSeq(s, 1, n)
             rest  == SubSeq(s, n + 1, Len(s))
         IN  /\ first \in Seq(Events) /\ rest \in Seq(Events)
             /\ Distinct(first) /\ Distinct(rest) /\ Apart(first, rest)
             /\ \A e : Among(e, first) \/ Among(e, rest) => Among(e, s)
<1> DEFINE first == SubSeq(s, 1, n)
           rest  == SubSeq(s, n + 1, Len(s))
<1>1. /\ n \in Nat /\ Len(s) \in Nat /\ DOMAIN s = 1..Len(s) /\ n <= Len(s)
      /\ first \in Seq(Events) /\ DOMAIN first = 1..n /\ \A i \in 1..n : first[i] = s[i] /\ i \in 1..Len(s)
      /\ rest \in Seq(Events) /\ DOMAIN rest = 1..(Len(s) - n)
      /\ \A i \in 1..(Len(s) - n) : rest[i] = s[n + i] /\ n + i \in 1..Len(s)
  OBVIOUS
<1> HIDE DEF first, rest
<1>2. Distinct(first)
  BY <1>1 DEF Distinct
<1>3. Distinct(rest)
  <2> SUFFICES ASSUME NEW i \in 1..(Len(s) - n), NEW j \in 1..(Len(s) - n), rest[i] = rest[j] PROVE i = j
    BY <1>1 DEF Distinct
  <2>1. n + i = n + j
    BY <1>1 DEF Distinct
  <2> QED
    BY <1>1, <2>1
<1>4. Apart(first, rest)
  <2> SUFFICES ASSUME NEW i \in 1..n, NEW j \in 1..(Len(s) - n), first[i] = rest[j] PROVE FALSE
    BY <1>1 DEF Apart, Among
  <2>1. i = n + j
    BY <1>1 DEF Distinct
  <2> QED
    BY <1>1, <2>1
<1>5. ASSUME NEW e, Among(e, first) \/ Among(e, rest) PROVE Among(e, s)
  <2>1. CASE Among(e, first)
    BY <1>1, <2>1 DEF Among
  <2>2. CASE Among(e, rest)
    BY <1>1, <2>2 DEF Among
  <2> QED
    BY <1>5, <2>1, <2>2
<1> QED
  BY <1>1, <1>2, <1>3, <1>4, <1>5 DEF first, rest

LEMMA HeadTailDistinct ==
  ASSUME NEW s \in Seq(Events), Distinct(s), s # <<>>
  PROVE  /\ Head(s) \in Events /\ Tail(s) \in Seq(Events) /\ Distinct(Tail(s)) /\ Distinct(<<Head(s)>>)
         /\ Apart(Tail(s), <<Head(s)>>) /\ Among(Head(s), s)
         /\ \A e : Among(e, Tail(s)) => Among(e, s)
         /\ \A e : Among(e, <<Head(s)>>) <=> e = Head(s)
<1> DEFINE t == Tail(s)
<1>1. /\ Len(s) \in Nat /\ DOMAIN s = 1..Len(s) /\ 1 \in 1..Len(s) /\ Head(s) = s[1] /\ s[1] \in Events
      /\ t \in Seq(Events) /\ DOMAIN t = 1..(Len(s) - 1)
      /\ \A i \in 1..(Len(s) - 1) : t[i] = s[i + 1] /\ i + 1 \in 1..Len(s)
  OBVIOUS
<1> HIDE DEF t
<1>2. Distinct(t)
  <2> SUFFICES ASSUME NEW i \in 1..(Len(s) - 1), NEW j \in 1..(Len(s) - 1), t[i] = t[j] PROVE i = j
    BY <1>1 DEF Distinct
  <2>1. i + 1 = j + 1
    BY <1>1 DEF Distinct
  <2> QED
    BY <1>1, <2>1
<1>3. /\ \A e : Among(e, <<Head(s)>>) <=> e = Head(s)
      /\ Distinct(<<Head(s)>>)
  BY DEF Among, Distinct
<1>4. ~Among(Head(s), t)
  <2> SUFFICES ASSUME NEW i \in 1..(Len(s) - 1), t[i] = s[1] PROVE FALSE
    BY <1>1 DEF Among
  <2>1. i + 1 = 1
    BY <1>1 DEF Distinct
  <2> QED
    BY <1>1, <2>1
<1>5. ASSUME NEW e, Among(e, t) PROVE Among(e, s)
  BY <1>1, <1>5 DEF Among
<1>6. Among(Head(s), s)
  BY <1>1 DEF Among
<1>7. Apart(t, <<Head(s)>>)
  BY <1>3, <1>4 DEF Apart
<1> QED
  BY <1>1, <1>2, <1>3, <1>5, <1>6, <1>7 DEF t

LEMMA UnwrittenStays ==
  ASSUME RecordsStay, NEW e \in Events
  PROVE  Unwritten(e)' <=> Unwritten(e)
  BY DEF RecordsStay, Unwritten

\* What is in flight stays where it is, or is forgotten.
LEMMA FlightStays ==
  ASSUME InFlightOnce, Fresh, RecordsStay, next' = next,
         completed' = completed \/ completed' = <<>>,
         queue' = queue \/ queue' = <<>>,
         \A t \in Threads : hand'[t] = hand[t] \/ hand'[t] = <<>>
  PROVE  InFlightOnce' /\ Fresh'
<1>1. /\ \A e : Among(e, completed') => Among(e, completed)
      /\ \A e : Among(e, queue') => Among(e, queue)
      /\ \A t \in Threads : \A e : Among(e, hand'[t]) => Among(e, hand[t])
  BY NoneAmong
<1>2. Distinct(completed') /\ Distinct(queue') /\ \A t \in Threads : Distinct(hand'[t])
  BY NoneAmong DEF InFlightOnce
<1>3. InFlightOnce'
  BY <1>1, <1>2 DEF InFlightOnce, Apart
<1>4. Fresh'
  BY <1>1, UnwrittenStays DEF Fresh, InHand
<1> QED
  BY <1>3, <1>4

\* The Builder completes events: their numbers are new.
LEMMA FlightAdds ==
  ASSUME QInv, InFlightOnce, Fresh, RecordsStay, NEW n \in Nat, Completes(n), UNCHANGED <<queue, hand>>
  PROVE  InFlightOnce' /\ Fresh'
<1> DEFINE events == [i \in 1..n |-> next + i - 1]
<1>1. /\ completed' = completed \o events /\ next' = next + n /\ next \in Nat
      /\ \A i \in 1..n : next + i - 1 \in Events
      /\ completed \in Seq(Events) /\ queue' = queue /\ hand' = hand
  BY DEF Completes, QInv, QueueTypeOK
<1>2. events \in Seq(Events) /\ Distinct(events) /\ \A e : Among(e, events) => e >= next /\ e < next + n
  BY <1>1 DEF Distinct, Among
<1> HIDE DEF events
<1>3. Apart(completed, events) /\ Apart(queue, events) /\ \A t \in Threads : Apart(hand[t], events)
  <2>1. ASSUME NEW e \in Events, Among(e, completed) \/ InHand(e) PROVE ~Among(e, events)
    <3>1. e \in Nat /\ e < next
      BY <2>1, StoreConstants DEF Fresh
    <3> QED
      BY <1>1, <1>2, <3>1
  <2> QED
    BY <2>1 DEF Apart, InHand
<1>4. /\ Distinct(completed')
      /\ \A e : Among(e, completed') <=> Among(e, completed) \/ Among(e, events)
  <2>1. Distinct(completed)
    BY DEF InFlightOnce
  <2> QED
    BY <1>1, <1>2, <1>3, <2>1, JoinedDistinct
<1>5. InFlightOnce'
  BY <1>1, <1>3, <1>4 DEF InFlightOnce, Apart
<1>6. \A e \in Events : Unwritten(e)' <=> Unwritten(e)
  BY UnwrittenStays
<1>7. \A e \in Events : InHand(e)' <=> InHand(e)
  BY <1>1 DEF InHand
<1>8. ASSUME NEW e \in Events
      PROVE  /\ Among(e, completed') \/ InHand(e) => e < next' /\ Unwritten(e)
             /\ e >= next' => Unwritten(e)
             /\ InHand(e) => Fragments[e] > 0
  <2>1. e \in Nat
    BY StoreConstants
  <2>2. CASE Among(e, events)
    BY <1>1, <1>2, <2>1, <2>2 DEF Fresh
  <2>3. CASE ~Among(e, events)
    BY <1>1, <1>4, <2>1, <2>3 DEF Fresh
  <2> QED
    BY <2>2, <2>3
<1>9. Fresh'
  BY <1>6, <1>7, <1>8 DEF Fresh
<1> QED
  BY <1>5, <1>9

\* A producer takes the completed events that can be stored.
LEMMA FlightDrains ==
  ASSUME QInv, InFlightOnce, Fresh, NEW p \in Producers, DrainCompleted(p)
  PROVE  InFlightOnce' /\ Fresh'
<1>1. /\ completed \in Seq(Events) /\ hand \in [Threads -> Seq(Events)] /\ p \in Threads
      /\ completed' = <<>> /\ UNCHANGED <<queue, next, disk, saved>>
  BY ThreadsDiffer DEF QInv, QueueTypeOK, DrainCompleted, queueVars, storeVars
<1>2. PICK places \in InOrder(Storable) :
        hand' = [hand EXCEPT ![p] = [i \in DOMAIN places |-> completed[places[i]]]]
  BY DEF DrainCompleted
<1>3. /\ DOMAIN places = 1..Cardinality(Storable) /\ \A i \in DOMAIN places : places[i] \in Storable
      /\ \A i, j \in DOMAIN places : i < j => places[i] < places[j]
  BY <1>2 DEF InOrder
<1> DEFINE h == [i \in DOMAIN places |-> completed[places[i]]]
<1>4. \A i \in DOMAIN places : /\ places[i] \in DOMAIN completed /\ places[i] \in Nat /\ i \in Int
                               /\ Fragments[h[i]] > 0 /\ h[i] = completed[places[i]]
  BY <1>1, <1>3 DEF Storable
<1>5. DOMAIN h = DOMAIN places /\ hand'[p] = h /\ \A t \in Threads \ {p} : hand'[t] = hand[t]
  BY <1>1, <1>2
<1> HIDE DEF h
<1>6. Distinct(h)
  <2> SUFFICES ASSUME NEW i \in DOMAIN places, NEW j \in DOMAIN places, h[i] = h[j] PROVE i = j
    BY <1>5 DEF Distinct
  <2>1. places[i] = places[j]
    BY <1>4 DEF InFlightOnce, Distinct
  <2>2. ~(i < j) /\ ~(j < i)
    BY <1>3, <1>4, <2>1
  <2> QED
    BY <1>4, <2>2
<1>7. \A e : Among(e, h) => Among(e, completed) /\ Fragments[e] > 0
  BY <1>4, <1>5 DEF Among
<1>8. RecordsStay
  BY <1>1 DEF RecordsStay
<1>9. \A e \in Events : Unwritten(e)' <=> Unwritten(e)
  BY <1>8, UnwrittenStays
<1>10. /\ \A t \in Threads : Distinct(hand'[t])
       /\ \A t \in Threads : \A e : Among(e, hand'[t]) => Among(e, hand[t]) \/ (t = p /\ Among(e, completed))
       /\ \A e : Among(e, hand'[p]) => Among(e, completed)
       /\ \A e : ~Among(e, completed')
  BY <1>1, <1>5, <1>6, <1>7, NoneAmong DEF InFlightOnce
<1>11. InFlightOnce'
  <2>1. ASSUME NEW t \in Threads, NEW u \in Threads, t # u PROVE Apart(hand'[t], hand'[u])
    BY <1>5, <1>10, <2>1 DEF InFlightOnce, Apart
  <2>2. ASSUME NEW t \in Threads PROVE Apart(queue, hand'[t])
    BY <1>5, <1>10 DEF InFlightOnce, Apart
  <2>3. ASSUME NEW t \in Threads PROVE Apart(<<>>, hand'[t])
    BY NoneAmong DEF Apart
  <2>4. Apart(<<>>, queue) /\ Distinct(<<>>) /\ Distinct(queue)
    BY NoneAmong DEF Apart, InFlightOnce
  <2> QED
    BY <1>1, <1>10, <2>1, <2>2, <2>3, <2>4 DEF InFlightOnce
<1>12. ASSUME NEW e \in Events, InHand(e)' PROVE InHand(e) \/ (Among(e, completed) /\ Fragments[e] > 0)
  BY <1>1, <1>5, <1>7, <1>12 DEF InHand
<1>13. Fresh'
  BY <1>1, <1>9, <1>10, <1>12 DEF Fresh
<1> QED
  BY <1>11, <1>13

\* A producer moves events from its hand into the queue.
LEMMA FlightMoves ==
  ASSUME QInv, InFlightOnce, Fresh, NEW p \in Producers, Enqueue(p)
  PROVE  InFlightOnce' /\ Fresh'
<1>1. /\ queue \in Seq(Events) /\ Len(queue) <= Capacity /\ Capacity \in Nat
      /\ hand \in [Threads -> Seq(Events)] /\ p \in Threads /\ hand[p] \in Seq(Events)
      /\ UNCHANGED <<completed, next, disk, saved>>
  BY ThreadsDiffer DEF QInv, QueueTypeOK, Enqueue, storeVars
<1> DEFINE n == Lesser(Len(hand[p]), Capacity - Len(queue))
           first == SubSeq(hand[p], 1, n)
           rest == SubSeq(hand[p], n + 1, Len(hand[p]))
<1>2. queue' = queue \o first /\ hand' = [hand EXCEPT ![p] = rest]
  BY DEF Enqueue
<1>3. n \in 0..Len(hand[p])
  BY <1>1 DEF Lesser
<1> HIDE DEF n
<1>4. /\ first \in Seq(Events) /\ rest \in Seq(Events)
      /\ Distinct(first) /\ Distinct(rest) /\ Apart(first, rest)
      /\ \A e : Among(e, first) \/ Among(e, rest) => Among(e, hand[p])
  <2>1. Distinct(hand[p])
    BY <1>1 DEF InFlightOnce
  <2> QED
    BY <1>1, <1>3, <2>1, SplitDistinct
<1> HIDE DEF first, rest
<1>5. hand'[p] = rest /\ \A t \in Threads \ {p} : hand'[t] = hand[t]
  BY <1>1, <1>2
<1>6. Distinct(queue') /\ \A e : Among(e, queue') <=> Among(e, queue) \/ Among(e, first)
  <2>1. Apart(queue, first) /\ Distinct(queue)
    BY <1>1, <1>4 DEF InFlightOnce, Apart
  <2> QED
    BY <1>1, <1>2, <1>4, <2>1, JoinedDistinct
<1>7. InFlightOnce'
  <2>1. ASSUME NEW t \in Threads, NEW u \in Threads, t # u PROVE Apart(hand'[t], hand'[u])
    BY <1>1, <1>4, <1>5, <2>1 DEF InFlightOnce, Apart
  <2>2. ASSUME NEW t \in Threads PROVE Apart(queue', hand'[t])
    <3>1. CASE t = p
      BY <1>1, <1>4, <1>5, <1>6, <3>1 DEF InFlightOnce, Apart
    <3>2. CASE t # p
      BY <1>1, <1>4, <1>5, <1>6, <3>2 DEF InFlightOnce, Apart
    <3> QED
      BY <3>1, <3>2
  <2>3. ASSUME NEW t \in Threads PROVE Apart(completed', hand'[t]) /\ Distinct(hand'[t])
    BY <1>1, <1>4, <1>5 DEF InFlightOnce, Apart
  <2>4. Apart(completed', queue') /\ Distinct(completed')
    BY <1>1, <1>4, <1>6 DEF InFlightOnce, Apart
  <2> QED
    BY <1>6, <2>1, <2>2, <2>3, <2>4 DEF InFlightOnce
<1>8. \A e \in Events : Unwritten(e)' <=> Unwritten(e)
  <2>1. RecordsStay
    BY <1>1 DEF RecordsStay
  <2> QED
    BY <2>1, UnwrittenStays
<1>9. ASSUME NEW e \in Events, InHand(e)' PROVE InHand(e)
  BY <1>1, <1>4, <1>5, <1>6, <1>9 DEF InHand
<1>10. Fresh'
  BY <1>1, <1>8, <1>9 DEF Fresh
<1> QED
  BY <1>7, <1>10

\* The worker takes the first event of the queue; its hand is empty.
LEMMA FlightTakes ==
  ASSUME QInv, InFlightOnce, Fresh, WorkerTurn, TakesNext
  PROVE  InFlightOnce' /\ Fresh'
<1>1. /\ queue \in Seq(Events) /\ queue # <<>> /\ hand \in [Threads -> Seq(Events)]
      /\ queue' = Tail(queue) /\ hand' = [hand EXCEPT !["worker"] = <<Head(queue)>>]
      /\ UNCHANGED <<completed, next, disk, saved>> /\ "worker" \in Threads
  BY ThreadsDiffer DEF QInv, QueueTypeOK, WorkerTurn, TakesNext, storeVars
<1> DEFINE e1 == Head(queue)
           one == <<e1>>
           rest == Tail(queue)
<1>2. /\ e1 \in Events /\ rest \in Seq(Events) /\ Distinct(rest) /\ Distinct(one)
      /\ Apart(rest, one) /\ Among(e1, queue)
      /\ \A e : Among(e, rest) => Among(e, queue)
      /\ \A e : Among(e, one) <=> e = e1
  <2>1. Distinct(queue)
    BY DEF InFlightOnce
  <2> QED
    BY <1>1, <2>1, HeadTailDistinct
<1>3. queue' = rest /\ hand'["worker"] = one /\ \A t \in Threads \ {"worker"} : hand'[t] = hand[t]
  BY <1>1
<1> HIDE DEF e1, one, rest
<1>4. \A e : Among(e, one) => Among(e, queue)
  BY <1>2
<1>5. InFlightOnce'
  <2>1. ASSUME NEW t \in Threads, NEW u \in Threads, t # u PROVE Apart(hand'[t], hand'[u])
    BY <1>1, <1>3, <1>4, <2>1 DEF InFlightOnce, Apart
  <2>2. ASSUME NEW t \in Threads PROVE Apart(queue', hand'[t])
    BY <1>2, <1>3 DEF InFlightOnce, Apart
  <2>3. ASSUME NEW t \in Threads PROVE Apart(completed', hand'[t]) /\ Distinct(hand'[t])
    BY <1>1, <1>2, <1>3, <1>4 DEF InFlightOnce, Apart
  <2>4. Apart(completed', queue') /\ Distinct(completed') /\ Distinct(queue')
    BY <1>1, <1>2, <1>3 DEF InFlightOnce, Apart
  <2> QED
    BY <2>1, <2>2, <2>3, <2>4 DEF InFlightOnce
<1>6. \A e \in Events : Unwritten(e)' <=> Unwritten(e)
  <2>1. RecordsStay
    BY <1>1 DEF RecordsStay
  <2> QED
    BY <2>1, UnwrittenStays
<1>7. ASSUME NEW e \in Events, InHand(e)' PROVE InHand(e)
  BY <1>2, <1>3, <1>4, <1>7 DEF InHand
<1>8. Fresh'
  BY <1>1, <1>6, <1>7 DEF Fresh
<1> QED
  BY <1>5, <1>8

\* The worker has written its event: the others are as fresh as before.
LEMMA FlightWrites ==
  ASSUME QInv, StoreInv, InFlightOnce, Fresh, WorkerWrite
  PROVE  StoreInv' /\ InFlightOnce' /\ Fresh'
<1> DEFINE w == Head(hand["worker"])
<1>1. /\ hand \in [Threads -> Seq(Events)] /\ "worker" \in Threads
      /\ hand["worker"] \in Seq(Events) /\ Len(hand["worker"]) = 1
      /\ WriteCdEvent(w) /\ hand' = [hand EXCEPT !["worker"] = <<>>]
      /\ UNCHANGED <<completed, queue, next>>
  BY ThreadsDiffer DEF QInv, QueueTypeOK, HandsWhileAt, WorkerWrite, queueVars
<1>2. w \in Events /\ Among(w, hand["worker"])
  <2>1. w = hand["worker"][1] /\ 1 \in DOMAIN hand["worker"] /\ w \in Events
    BY <1>1
  <2> HIDE DEF w
  <2> QED
    BY <2>1 DEF Among
<1> HIDE DEF w
<1>3. hand'["worker"] = <<>> /\ \A t \in Threads \ {"worker"} : hand'[t] = hand[t]
  BY <1>1
<1>4. w < next /\ Unwritten(w) /\ Fragments[w] > 0
  BY <1>1, <1>2 DEF Fresh, InHand
<1>5. StoreInv' /\ OthersStay(w)
  BY <1>1, <1>2, <1>4, CdKeeps
<1>6. ASSUME NEW e \in Events, Among(e, completed') \/ InHand(e)'
      PROVE  e # w /\ (Among(e, completed) \/ InHand(e))
  <2>1. \A t \in Threads : \A x : Among(x, hand'[t]) => t # "worker" /\ Among(x, hand[t])
    BY <1>3, NoneAmong
  <2> QED
    BY <1>1, <1>2, <1>6, <2>1 DEF InHand, InFlightOnce, Apart
<1>7. ASSUME NEW e \in Events, InHand(e)' PROVE InHand(e)
  <2>1. \A t \in Threads : \A x : Among(x, hand'[t]) => Among(x, hand[t])
    BY <1>3, NoneAmong
  <2> QED
    BY <1>1, <1>7, <2>1 DEF InHand
<1>8. ASSUME NEW e \in Events, e # w, Unwritten(e) PROVE Unwritten(e)'
  BY <1>5, <1>8 DEF OthersStay, Unwritten
<1>9. InFlightOnce'
  <2>1. \A t \in Threads : hand'[t] = hand[t] \/ hand'[t] = <<>>
    BY <1>3
  <2>2. \A t \in Threads : \A x : Among(x, hand'[t]) => Among(x, hand[t])
    BY <2>1, NoneAmong
  <2>3. \A t \in Threads : Distinct(hand'[t])
    BY <2>1, NoneAmong DEF InFlightOnce
  <2> QED
    BY <1>1, <2>2, <2>3 DEF InFlightOnce, Apart
<1>10. Fresh'
  <2>1. w \in Nat /\ next \in Nat
    BY <1>2, StoreConstants DEF QInv, QueueTypeOK
  <2>2. \A e \in Events : e >= next => e # w
    BY <1>4, <2>1
  <2> QED
    BY <1>1, <1>6, <1>7, <1>8, <2>2 DEF Fresh
<1> QED
  BY <1>5, <1>9, <1>10

-----------------------------------------------------------------------------
(***************************************************************************)
(* The theorems                                                            *)
(***************************************************************************)
WriterInv == QInv /\ StoreInv /\ InFlightOnce /\ Fresh

LEMMA WriterStart ==
  Init => WriterInv
<1> SUFFICES ASSUME Init PROVE WriterInv
  OBVIOUS
<1>1. QInv
  BY Start
<1>2. /\ is_open = FALSE /\ run_number = [k \in Streams |-> 0] /\ fs = [k \in Streams |-> Closed]
      /\ disk = <<>> /\ saved = {} /\ completed = <<>> /\ queue = <<>>
      /\ \A t \in Threads : hand[t] = <<>>
  BY DEF Init, StoreInit
<1>3. Closed \in StreamType /\ Closed.file = 0 /\ "CD" \in Streams
  BY DEF Closed, StreamType, Streams
<1>4. StoreTypeOK
  <2>1. <<>> \in Seq(ShardType)
    OBVIOUS
  <2> QED
    BY <1>2, <1>3, <2>1 DEF StoreTypeOK
<1>5. DOMAIN disk = {} /\ \A i : Recs(disk, i) = <<>>
  BY <1>2 DEF Recs
<1>6. \A i : KeysIn(i) = {}
  BY <1>2 DEF KeysIn
<1>7. OpenShards /\ BytesWithin
  BY <1>2, <1>3, <1>5 DEF OpenShards, BytesWithin
<1>8. OneShard
  BY <1>2, <1>5, NoneAmong DEF OneShard
<1>9. KeysWithin
  <2>1. Cardinality({}) = 0 /\ MaxEventNumberSaved \in Nat
    BY FS_EmptySet, StoreConstants
  <2>2. fs["CD"].file = 0
    BY <1>2, <1>3
  <2>3. \A i : Cardinality(KeysIn(i)) <= MaxEventNumberSaved
    BY <1>6, <2>1
  <2> QED
    BY <2>2, <2>3 DEF KeysWithin
<1>10. InFlightOnce
  BY <1>2, NoneAmong DEF InFlightOnce, Apart
<1>11. Fresh
  BY <1>2, <1>5, NoneAmong DEF Fresh, InHand, Unwritten
<1> QED
  BY <1>1, <1>4, <1>7, <1>8, <1>9, <1>10, <1>11 DEF WriterInv, StoreInv

\* Steps that leave the store alone
LEMMA StoreAlone ==
  ASSUME WriterInv, UNCHANGED storeVars
  PROVE  StoreInv' /\ RecordsStay
  BY UnchangedKeeps DEF WriterInv, storeVars

LEMMA ForgottenOrKept ==
  ASSUME WriterInv, StoreInv', RecordsStay, QInv',
         next' = next, completed' = completed \/ completed' = <<>>, queue' = queue \/ queue' = <<>>,
         \A t \in Threads : hand'[t] = hand[t] \/ hand'[t] = <<>>
  PROVE  WriterInv'
  BY FlightStays DEF WriterInv

LEMMA WriterStep ==
  WriterInv /\ [Next]_vars => WriterInv'
<1> SUFFICES ASSUME WriterInv, [Next]_vars PROVE WriterInv'
  OBVIOUS
<1>1. QInv'
  BY Step DEF WriterInv
<1>2. QInv /\ StoreInv /\ InFlightOnce /\ Fresh
  BY DEF WriterInv
<1>3. ASSUME NEW n \in MostAtOnce, Completes(n), UNCHANGED <<storeVars, queue, hand>> PROVE WriterInv'
  <2>1. n \in Nat
    BY DEF MostAtOnce
  <2> QED
    BY <1>1, <1>2, <1>3, <2>1, StoreAlone, FlightAdds DEF WriterInv
<1>4. ASSUME NEW f \in Frontends, NEW n \in MostAtOnce, AddFragment(f, n) PROVE WriterInv'
  BY <1>3, <1>4 DEF AddFragment, queueVars
<1>5. ASSUME NEW n \in MostAtOnce, StopBuilder(n) PROVE WriterInv'
  BY <1>3, <1>5 DEF StopBuilder, queueVars
<1>6. ASSUME NEW f \in Frontends, RawRecord(f) PROVE WriterInv'
  <2>1. WriteRawRecord /\ UNCHANGED <<completed, queue, hand, next>>
    BY <1>6 DEF RawRecord, queueVars
  <2>2. StoreInv' /\ RecordsStay
    BY <1>2, <2>1, RawKeeps
  <2> QED
    BY <1>1, <2>1, <2>2, ForgottenOrKept
<1>7. ASSUME NEW p \in Producers, DrainCompleted(p) PROVE WriterInv'
  <2>1. UNCHANGED storeVars
    BY <1>7 DEF DrainCompleted
  <2> QED
    BY <1>1, <1>2, <1>7, <2>1, StoreAlone, FlightDrains DEF WriterInv
<1>8. ASSUME NEW p \in Producers, Enqueue(p) PROVE WriterInv'
  <2>1. UNCHANGED storeVars
    BY <1>8 DEF Enqueue
  <2> QED
    BY <1>1, <1>2, <1>8, <2>1, StoreAlone, FlightMoves DEF WriterInv
<1>9. ASSUME WorkerTurn PROVE WriterInv'
  <2>1. UNCHANGED storeVars
    BY <1>9 DEF WorkerTurn
  <2>2. StoreInv' /\ RecordsStay
    BY <2>1, StoreAlone
  <2>3. CASE TakesNext
    BY <1>1, <1>2, <1>9, <2>2, <2>3, FlightTakes DEF WriterInv
  <2>4. CASE ~TakesNext
    <3>1. UNCHANGED <<completed, queue, hand, next>>
      BY <1>9, <2>4 DEF WorkerTurn
    <3> QED
      BY <1>1, <2>2, <3>1, ForgottenOrKept
  <2> QED
    BY <2>3, <2>4
<1>10. ASSUME WorkerWrite PROVE WriterInv'
  BY <1>1, <1>2, <1>10, FlightWrites DEF WriterInv
<1>11. ASSUME StartOpen \/ CloseAndReturn PROVE WriterInv'
  <2>1. UNCHANGED <<completed, queue, hand, next>> /\ (OpenSucceeds \/ OpenFails \/ CloseStore)
    BY <1>11 DEF StartOpen, CloseAndReturn, queueVars, AppUnchanged
  <2>2. StoreInv' /\ RecordsStay
    BY <1>2, <2>1, OpenSucceedsKeeps, OpenFailsKeeps, CloseKeeps
  <2> QED
    BY <1>1, <2>1, <2>2, ForgottenOrKept
<1>12. ASSUME Crash PROVE WriterInv'
  <2>1. /\ CrashStore /\ next' = next /\ completed' = <<>> /\ queue' = <<>>
        /\ \A t \in Threads : hand'[t] = <<>>
    BY <1>12 DEF Crash
  <2>2. StoreInv' /\ RecordsStay
    BY <1>2, <2>1, CloseKeeps
  <2> QED
    BY <1>1, <2>1, <2>2, ForgottenOrKept
<1>13. ASSUME StartWorker \/ JoinWorker PROVE WriterInv'
  <2>1. /\ UNCHANGED <<storeVars, hand, next>> /\ queue' = <<>>
        /\ completed' = completed \/ completed' = <<>>
    BY <1>13 DEF StartWorker, JoinWorker, AppUnchanged
  <2> QED
    BY <1>1, <2>1, StoreAlone, ForgottenOrKept
<1>14. ASSUME UNCHANGED <<storeVars, completed, queue, hand, next>> PROVE WriterInv'
  BY <1>1, <1>14, StoreAlone, ForgottenOrKept
<1>15. ASSUME StopBegin \/ Quiesce \/ WaitDrain \/ WaitTimesOut \/ ShutdownWorker \/ NotifyShutdown
              \/ SpuriousWakeup
       PROVE  WriterInv'
  BY <1>14, <1>15 DEF StopBegin, Quiesce, WaitDrain, WaitTimesOut, ShutdownWorker, NotifyShutdown,
     SpuriousWakeup, AppUnchanged, queueVars
<1>16. ASSUME NEW f \in Frontends, StartFrontend(f) \/ StopFrontend(f) PROVE WriterInv'
  BY <1>14, <1>16 DEF StartFrontend, StopFrontend, AppUnchanged, queueVars
<1>17. ASSUME UNCHANGED vars PROVE WriterInv'
  BY <1>14, <1>17 DEF vars, queueVars
<1> QED
  BY <1>4, <1>5, <1>6, <1>7, <1>8, <1>9, <1>10, <1>11, <1>12, <1>13, <1>15, <1>16, <1>17
     DEF Next, Feed, StopStep

\* The streams, the shards and the events on their way to them
THEOREM WriterInvariance == Spec => []WriterInv
  BY WriterStart, WriterStep, PTL DEF Spec

\* No event has records in two shards, and one reported as written has all
\* of them in its shard, once: for every sequence of failing calls, every
\* crash, and whatever was on disk before.
THEOREM NoEventIsSplit == Spec => []SavedInOneShard
<1>1. WriterInv => SavedInOneShard
  <2> SUFFICES ASSUME WriterInv, NEW e \in Events
               PROVE  /\ Cardinality(ShardsWith(e)) <= 1
                      /\ e \in saved => \E i \in ShardsWith(e) : Copies(i, e) = Fragments[e]
    BY DEF SavedInOneShard
  <2>1. OneShard /\ disk \in Disks /\ DOMAIN disk \subseteq Nat
    BY StreamsAre DEF WriterInv, StoreInv
  <2>2. \A i : i \in ShardsWith(e) <=> Among(e, Recs(disk, i))
    BY DEF ShardsWith, Recs, Among
  <2>3. Cardinality(ShardsWith(e)) <= 1
    <3>1. CASE ShardsWith(e) = {}
      BY <3>1, FS_EmptySet
    <3>2. CASE ShardsWith(e) # {}
      <4>1. PICK i \in ShardsWith(e) : TRUE
        BY <3>2
      <4>2. ShardsWith(e) \subseteq DOMAIN disk
        BY DEF ShardsWith
      <4>3. ShardsWith(e) = {i}
        BY <2>1, <2>2, <4>1, <4>2 DEF OneShard
      <4> QED
        BY <4>3, FS_Singleton
    <3> QED
      BY <3>1, <3>2
  <2>4. ASSUME e \in saved PROVE \E i \in ShardsWith(e) : Copies(i, e) = Fragments[e]
    <3>1. PICK i \in Nat : Among(e, Recs(disk, i)) /\ CopiesOf(Recs(disk, i), e) = Fragments[e]
      BY <2>1, <2>4 DEF OneShard
    <3>2. i \in ShardsWith(e) /\ i \in DOMAIN disk
      BY <2>2, <3>1 DEF ShardsWith
    <3>3. Copies(i, e) = CopiesOf(Recs(disk, i), e)
      BY <3>2 DEF Copies, CopiesOf, Recs
    <3> QED
      BY <3>1, <3>2, <3>3
  <2> QED
    BY <2>3, <2>4
<1> QED
  BY <1>1, WriterInvariance, PTL

\* The keys counted are those of the events in the open shard, no shard has
\* more of them than the limit, and no file passes the size set for it by
\* more than the bytes that failed writes have left in it.
THEOREM ShardsStayWithinLimits == Spec => []ShardsWithinLimits
<1>1. WriterInv => ShardsWithinLimits
  <2> SUFFICES ASSUME WriterInv PROVE ShardsWithinLimits
    OBVIOUS
  <2>1. KeysWithin /\ BytesWithin /\ StoreTypeOK
    BY DEF WriterInv, StoreInv
  <2>2. \A i : KeysIn(i) = {EventKey[e] : e \in SavedIn(i)}
    <3>1. ASSUME NEW i PROVE SavedIn(i) = {x \in saved : Among(x, Recs(disk, i))}
      BY DEF SavedIn, ShardsWith, Recs, Among
    <3> QED
      BY <3>1 DEF KeysIn
  <2>3. fs["CD"].file \in Nat /\ DOMAIN disk \subseteq Nat
    BY <2>1, StreamsAre DEF Streams
  <2>4. MaxEventNumberSaved # 0 =>
          /\ fs["CD"].file # 0 => fs["CD"].keys = {EventKey[e] : e \in SavedIn(fs["CD"].file)}
          /\ \A i \in DOMAIN disk :
               Cardinality({EventKey[e] : e \in SavedIn(i)}) <= MaxEventNumberSaved
    BY <2>1, <2>2, <2>3 DEF KeysWithin
  <2>5. MaxFileSize # 0 => \A i \in DOMAIN disk :
          disk[i].bytes <= disk[i].torn +
            IF disk[i].kind = "CD" THEN MaxFileSize ELSE MaxFileSize + RawSize
    <3>1. \A i \in DOMAIN disk : disk[i] \in ShardType
      BY <2>1 DEF StoreTypeOK
    <3>2. MaxFileSize \in Nat /\ RawSize \in Nat
      BY StoreConstants
    <3> QED
      BY <2>1, <3>1, <3>2 DEF BytesWithin, Counted, ShardType
  <2> QED
    BY <2>4, <2>5 DEF ShardsWithinLimits
<1> QED
  BY <1>1, WriterInvariance, PTL

\* A shard created by a start has a number above those of all shards of its
\* stream, if the scan finds that stream's files.
LEMMA StartRises ==
  ASSUME WriterInv, [Next]_vars, ~is_open
  PROVE  NumbersRise(disk')
<1>1. StoreInv /\ StoreTypeOK /\ disk \in Disks
  BY StreamsAre DEF WriterInv, StoreInv
<1>2. ASSUME DOMAIN disk' = DOMAIN disk PROVE NumbersRise(disk')
  BY <1>2 DEF NumbersRise
<1>3. CASE OpenSucceeds \/ OpenFails
  BY <1>1, <1>3, OpenSucceedsKeeps, OpenFailsKeeps
<1>4. CASE CloseStore \/ CrashStore
  <2>1. disk' \in Disks /\ Len(disk') = Len(disk)
    BY <1>1, <1>4, CloseKeeps
  <2> QED
    BY <1>1, <1>2, <2>1 DEF Disks
<1>5. CASE disk' = disk
  BY <1>2, <1>5
<1>6. ~WriteRawRecord
  BY DEF WriteRawRecord, RawSaved, RawTorn, RawRotationFails, RawAccepted
<1>7. ASSUME NEW e, WriteCdEvent(e) PROVE disk' = disk
  BY <1>7 DEF WriteCdEvent, CdSaved, CdTorn, CdRotationFails, CdTooLarge, CdNoFile
<1>8. \/ disk' = disk \/ OpenSucceeds \/ OpenFails \/ CloseStore \/ CrashStore
  <2>1. CASE UNCHANGED vars
    BY <2>1 DEF vars, storeVars
  <2>2. CASE Feed
    BY <1>6, <2>2 DEF Feed, AddFragment, RawRecord, storeVars
  <2>3. CASE \E p \in Producers : DrainCompleted(p) \/ Enqueue(p)
    BY <2>3 DEF DrainCompleted, Enqueue, storeVars
  <2>4. CASE WorkerTurn \/ WorkerWrite
    BY <1>7, <2>4 DEF WorkerTurn, WorkerWrite, storeVars
  <2>5. CASE StartOpen \/ CloseAndReturn \/ Crash
    BY <2>5 DEF StartOpen, CloseAndReturn, Crash
  <2>6. CASE StartWorker \/ JoinWorker \/ \E f \in Frontends : StartFrontend(f) \/ StopFrontend(f)
    BY <2>6 DEF StartWorker, JoinWorker, StartFrontend, StopFrontend, storeVars
  <2>7. CASE StopBegin \/ Quiesce \/ WaitDrain \/ WaitTimesOut \/ ShutdownWorker \/ NotifyShutdown
             \/ SpuriousWakeup \/ \E n \in MostAtOnce : StopBuilder(n)
    BY <2>7 DEF StopBegin, Quiesce, WaitDrain, WaitTimesOut, ShutdownWorker, NotifyShutdown,
       SpuriousWakeup, StopBuilder, storeVars
  <2> QED
    BY <2>1, <2>2, <2>3, <2>4, <2>5, <2>6, <2>7 DEF Next, StopStep
<1> QED
  BY <1>3, <1>4, <1>5, <1>8

\* Opening the store raises the run number of each stream whose files the
\* scan finds above every number it has on the disk (data_store.cpp:64, 595).
THEOREM FoundRunsRise == Spec => [][~is_open => NumbersRise(disk')]_vars
<1>1. WriterInv /\ [Next]_vars => [~is_open => NumbersRise(disk')]_vars
  BY StartRises
<1> QED
  BY <1>1, WriterInvariance, PTL DEF Spec

\* A start never goes on with the number of an earlier run, after a start
\* that failed halfway or a crash, if the scan finds the files of both
\* streams.  It does with the names of the shipped sysconfig.yaml, not with
\* the default tags (app.cpp:470).
THEOREM RunsAreFresh ==
  ASSUME Streams \subseteq Matching
  PROVE  Spec => RunNumberFresh
<1>1. ASSUME WriterInv, [Next]_vars, ~is_open,
             NEW i \in DOMAIN disk, NEW j \in (DOMAIN disk') \ DOMAIN disk, disk[i].kind = disk'[j].kind
      PROVE  disk[i].run < disk'[j].run
  <2>1. disk[i].kind \in Matching
    <3>1. disk \in Disks /\ i \in DOMAIN disk
      BY <1>1, StreamsAre DEF WriterInv, StoreInv
    <3>2. disk[i] \in ShardType
      BY <3>1 DEF Disks
    <3> QED
      BY <3>2 DEF ShardType
  <2> QED
    BY <1>1, <2>1, StartRises DEF NumbersRise
<1>2. WriterInv /\ [Next]_vars =>
        [~is_open => \A i \in DOMAIN disk, j \in (DOMAIN disk') \ DOMAIN disk :
                       disk[i].kind = disk'[j].kind => disk[i].run < disk'[j].run]_vars
  BY <1>1
<1> QED
  BY <1>2, WriterInvariance, PTL DEF Spec, RunNumberFresh

=============================================================================
