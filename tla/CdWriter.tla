------------------------------ MODULE CdWriter ------------------------------
(***************************************************************************)
(* From the Builder's completed events to the files: the CD write queue,   *)
(* its worker, and the part of App::start and App::stop that opens and     *)
(* closes the store (grand-daq/src/app.cpp).                               *)
(*                                                                         *)
(* Every DAQ thread, after each fragment, takes all events the Builder has *)
(* completed, whoever completed them, and queues them for the worker; when *)
(* the queue is full it waits, inside its callback.  App::stop, after the  *)
(* DAQ threads and the Builder have stopped, takes what is left, waits up  *)
(* to 30 s for the queue, joins the worker and closes the store.           *)
(*                                                                         *)
(* All threads wait on cd_write_cv_: the worker for work, producers for    *)
(* room, the stopping thread for the end of the work.  A block of code     *)
(* under cd_write_queue_mutex_ is one step; a thread that finds its        *)
(* predicate false falls asleep in that step.                              *)
(*                                                                         *)
(* Abstractions.  Of the Builder only the list of its completed events is  *)
(* kept.  cd_write_accept_ is left out: it is set and never read.  A start *)
(* that fails and a stop take the same way down.                           *)
(***************************************************************************)
EXTENDS DataStore

CONSTANTS
  Frontends,  \* the DAQ threads
  Capacity,   \* kCdWriteQueueCapacity
  MaxOpened   \* bound of the model: calls of App::start

ASSUME WriterConstants ==
  /\ IsFiniteSet(Frontends) /\ {"main", "worker"} \cap Frontends = {}
  /\ Capacity \in Nat \ {0} /\ MaxOpened \in Nat

Producers == Frontends \cup {"main"}
Threads   == Producers \cup {"worker"}

VARIABLES
  completed,  \* the Builder's completed_events_
  queue,      \* cd_write_queue_
  shutdown,   \* cd_write_shutdown_
  sleeping,   \* threads asleep on cd_write_cv_
  at,         \* where each thread is
  hand,       \* the events a thread has in its hands
  next,       \* bound of the model: the next event to be completed
  opened,     \* bound of the model: calls of App::start
  owed        \* history: completed events not yet handed to writeCdEvent

queueVars == <<queue, shutdown, sleeping>>
vars == <<storeVars, completed, queueVars, at, hand, next, opened, owed>>

Init ==
  /\ StoreInit
  /\ completed = <<>> /\ queue = <<>> /\ shutdown = FALSE /\ sleeping = {}
  /\ at = [t \in Threads |-> IF t = "main" THEN "idle" ELSE "off"]
  /\ hand = [t \in Threads |-> <<>>]
  /\ next = 1 /\ opened = 0 /\ owed = {}

Awake(t) == t \notin sleeping
Lesser(m, n) == IF m <= n THEN m ELSE n

\* cd_write_inflight_, at most one: the worker is out of the mutex
Inflight == at["worker"] \in {"write", "written"}
Drained == queue = <<>> /\ ~Inflight

\* What n calls of notify_one may leave asleep
AfterNotifyOne(n) ==
  {s \in SUBSET sleeping : Cardinality(s) = Cardinality(sleeping) - Lesser(n, Cardinality(sleeping))}

SpuriousWakeup ==
  /\ \E t \in sleeping : sleeping' = sleeping \ {t}
  /\ UNCHANGED <<storeVars, completed, queue, shutdown, at, hand, next, opened, owed>>

-----------------------------------------------------------------------------
(***************************************************************************)
(* Producers: drainBuilderCompletedToStore                                 *)
(***************************************************************************)
\* The Builder completes n events: whole ones, timed out ones, at a stop
\* those flushed.  An event without any waveform is dropped on the way.
Completes(n) ==
  LET events == [i \in 1..n |-> next + i - 1] IN
  /\ {next + i - 1 : i \in 1..n} \subseteq Events
  /\ completed' = completed \o events
  /\ next' = next + n
  /\ owed' = owed \cup {e \in {next + i - 1 : i \in 1..n} : Fragments[e] > 0}

\* A DAQ thread: addFragment.  A call without effect here is left out.
AddFragment(f, n) ==
  /\ at[f] = "loop"
  /\ n > 0 \/ completed # <<>>
  /\ Completes(n)
  /\ at' = [at EXCEPT ![f] = "drain"]
  /\ UNCHANGED <<storeVars, queueVars, hand, opened>>

\* A DAQ thread: an L1 record, written at once
RawRecord(f) ==
  /\ at[f] = "loop"
  /\ WriteRawRecord
  /\ UNCHANGED <<completed, queueVars, at, hand, next, opened, owed>>

Back(p) == IF p = "main" THEN "quiesce" ELSE "loop"

\* The places of the completed events that have a waveform; in their order
Storable == {i \in DOMAIN completed : Fragments[completed[i]] > 0}
InOrder(S) ==
  {s \in [1..Cardinality(S) -> S] :
     (\A i, j \in DOMAIN s : i < j => s[i] < s[j]) /\ \A k \in S : \E i \in DOMAIN s : s[i] = k}

DrainCompleted(p) ==
  /\ at[p] = "drain"
  /\ completed' = <<>>
  /\ \E places \in InOrder(Storable) :
       hand' = [hand EXCEPT ![p] = [i \in DOMAIN places |-> completed[places[i]]]]
  /\ at' = [at EXCEPT ![p] = IF Storable = {} THEN Back(p) ELSE "push"]
  /\ UNCHANGED <<storeVars, queueVars, next, opened, owed>>

\* Push while there is room, then wait for room.
Enqueue(p) ==
  LET n    == Lesser(Len(hand[p]), Capacity - Len(queue))
      rest == SubSeq(hand[p], n + 1, Len(hand[p]))
  IN
  /\ at[p] = "push" /\ Awake(p)
  /\ queue' = queue \o SubSeq(hand[p], 1, n)
  /\ hand' = [hand EXCEPT ![p] = rest]
  /\ at' = [at EXCEPT ![p] = IF rest = <<>> THEN Back(p) ELSE "push"]
  /\ \E s \in AfterNotifyOne(n) : sleeping' = s \cup (IF rest = <<>> THEN {} ELSE {p})
  /\ UNCHANGED <<storeVars, completed, shutdown, next, opened, owed>>

-----------------------------------------------------------------------------
(***************************************************************************)
(* cdWriteWorkerLoop                                                       *)
(***************************************************************************)
\* Mutant: shutdown is looked at before the queue.
TakesNextUnlessShutdown == queue # <<>> /\ ~shutdown

TakesNext == queue # <<>>

\* Mutant: producers are not told that there is room.
AfterTakeSilent == sleeping

\* notify_all for the room made, and for the item that ended
AfterTake == {}
AfterItem == IF Inflight THEN {} ELSE sleeping

\* One stay in the mutex: it ends the last item (notify_all), then takes
\* the next (notify_all), or leaves the loop, or waits.
WorkerTurn ==
  /\ at["worker"] \in {"loop", "written"} /\ Awake("worker")
  /\ IF TakesNext
       THEN /\ queue' = Tail(queue)
            /\ hand' = [hand EXCEPT !["worker"] = <<Head(queue)>>]
            /\ at' = [at EXCEPT !["worker"] = "write"]
            /\ sleeping' = AfterTake
       ELSE /\ at' = [at EXCEPT !["worker"] = IF shutdown THEN "done" ELSE "loop"]
            /\ sleeping' = IF shutdown THEN AfterItem ELSE AfterItem \cup {"worker"}
            /\ UNCHANGED <<queue, hand>>
  /\ UNCHANGED <<storeVars, completed, shutdown, next, opened, owed>>

\* Outside the mutex
WorkerWrite ==
  /\ at["worker"] = "write"
  /\ WriteCdEvent(Head(hand["worker"]))
  /\ owed' = owed \ {Head(hand["worker"])}
  /\ hand' = [hand EXCEPT !["worker"] = <<>>]
  /\ at' = [at EXCEPT !["worker"] = "written"]
  /\ UNCHANGED <<completed, queueVars, next, opened>>

-----------------------------------------------------------------------------
(***************************************************************************)
(* App::start                                                              *)
(***************************************************************************)
Goto(l) == at' = [at EXCEPT !["main"] = l]
AppUnchanged == UNCHANGED <<completed, hand, next, owed>>

StartOpen ==
  /\ at["main"] = "idle" /\ opened < MaxOpened
  /\ opened' = opened + 1
  /\ \/ OpenSucceeds /\ Goto("opened")
     \/ OpenFails /\ Goto("frontends")
  /\ UNCHANGED queueVars /\ AppUnchanged

\* createAndBindT3TriggerForRun; then Builder::start, with empty lists
StartWorker ==
  /\ at["main"] = "opened"
  /\ queue' = <<>> /\ shutdown' = FALSE /\ completed' = <<>>
  /\ at' = [at EXCEPT !["main"] = "started", !["worker"] = "loop"]
  /\ UNCHANGED <<storeVars, sleeping, hand, next, opened, owed>>

StartFrontend(f) ==
  /\ at["main"] = "started" /\ at[f] = "off"
  /\ at' = [at EXCEPT ![f] = "loop"]
  /\ UNCHANGED <<storeVars, queueVars, opened>> /\ AppUnchanged

-----------------------------------------------------------------------------
(***************************************************************************)
(* App::stop, and rollbackStartedLocalNoexcept when App::start fails       *)
(***************************************************************************)
StopBegin ==
  /\ at["main"] \in {"opened", "started"}
  /\ Goto("frontends")
  /\ UNCHANGED <<storeVars, queueVars, opened>> /\ AppUnchanged

\* The join returns when the thread's callback has.
StopFrontend(f) ==
  /\ at["main"] = "frontends" /\ at[f] = "loop"
  /\ at' = [at EXCEPT ![f] = "off"]
  /\ UNCHANGED <<storeVars, queueVars, opened>> /\ AppUnchanged

\* Builder::stop flushes what is pending, if the Builder was started.
StopBuilder(n) ==
  /\ at["main"] = "frontends" /\ \A f \in Frontends : at[f] = "off"
  /\ at["worker"] = "off" => n = 0
  /\ Completes(n)
  /\ Goto("drain")
  /\ UNCHANGED <<storeVars, queueVars, hand, opened>>

\* quiesceCdWritesBeforeCloseStoreNoexcept: notify_all, then the first test
Quiesce ==
  /\ at["main"] = "quiesce"
  /\ Goto(IF Drained THEN "join" ELSE "wait")
  /\ sleeping' = IF Drained THEN {} ELSE {"main"}
  /\ UNCHANGED <<storeVars, queue, shutdown, opened>> /\ AppUnchanged

WaitDrain ==
  /\ at["main"] = "wait" /\ Awake("main")
  /\ Goto(IF Drained THEN "join" ELSE "wait")
  /\ sleeping' = IF Drained THEN sleeping ELSE sleeping \cup {"main"}
  /\ UNCHANGED <<storeVars, queue, shutdown, opened>> /\ AppUnchanged

\* After 30 s
WaitTimesOut ==
  /\ at["main"] = "wait"
  /\ Goto("join")
  /\ sleeping' = sleeping \ {"main"}
  /\ UNCHANGED <<storeVars, queue, shutdown, opened>> /\ AppUnchanged

\* joinCdWriteWorkerDrainNoexcept: the flag is set under the mutex, the
\* notification follows without it.
ShutdownWorker ==
  /\ at["main"] = "join"
  /\ shutdown' = TRUE
  /\ Goto("notify")
  /\ UNCHANGED <<storeVars, queue, sleeping, opened>> /\ AppUnchanged

\* Mutant: nobody is notified.
NotifyShutdownNot ==
  /\ at["main"] = "notify"
  /\ Goto("joining")
  /\ UNCHANGED <<storeVars, queueVars, opened>> /\ AppUnchanged

NotifyShutdown ==
  /\ at["main"] = "notify"
  /\ sleeping' = {}
  /\ Goto("joining")
  /\ UNCHANGED <<storeVars, queue, shutdown, opened>> /\ AppUnchanged

JoinWorker ==
  /\ at["main"] = "joining" /\ at["worker"] \in {"off", "done"}
  /\ queue' = <<>> /\ shutdown' = FALSE
  /\ at' = [at EXCEPT !["main"] = "close", !["worker"] = "off"]
  /\ UNCHANGED <<storeVars, sleeping, opened>> /\ AppUnchanged

CloseAndReturn ==
  /\ at["main"] = "close"
  /\ CloseStore
  /\ Goto("idle")
  /\ UNCHANGED <<queueVars, opened>> /\ AppUnchanged

\* The process dies and is started again.
Crash ==
  /\ at["main"] # "idle"
  /\ CrashStore
  /\ completed' = <<>> /\ queue' = <<>> /\ shutdown' = FALSE /\ sleeping' = {}
  /\ at' = [t \in Threads |-> IF t = "main" THEN "idle" ELSE "off"]
  /\ hand' = [t \in Threads |-> <<>>]
  /\ owed' = {}
  /\ UNCHANGED <<next, opened>>

-----------------------------------------------------------------------------
MostAtOnce == 0..2  \* events completed by one call

Feed == \E f \in Frontends : (\E n \in MostAtOnce : AddFragment(f, n)) \/ RawRecord(f)

StopStep ==
  \/ \E f \in Frontends : StopFrontend(f)
  \/ \E n \in MostAtOnce : StopBuilder(n)
  \/ Quiesce \/ WaitDrain \/ ShutdownWorker \/ NotifyShutdown \/ JoinWorker
  \/ CloseAndReturn

Next ==
  \/ Feed
  \/ \E p \in Producers : DrainCompleted(p) \/ Enqueue(p)
  \/ WorkerTurn \/ WorkerWrite
  \/ StartOpen \/ StartWorker \/ \E f \in Frontends : StartFrontend(f)
  \/ StopBegin \/ StopStep \/ WaitTimesOut
  \/ Crash \/ SpuriousWakeup

Spec == Init /\ [][Next]_vars

\* Threads run; nobody has to send a fragment, start, stop or crash.
FairSpec ==
  /\ Spec
  /\ \A p \in Producers : WF_vars(DrainCompleted(p)) /\ WF_vars(Enqueue(p))
  /\ WF_vars(WorkerTurn) /\ WF_vars(WorkerWrite)
  /\ WF_vars(StopStep)

-----------------------------------------------------------------------------
(***************************************************************************)
(* Properties                                                              *)
(***************************************************************************)
\* Types; the open file of a stream is a shard of that stream which has not
\* been closed, and there is one only while the store is open.
TypeOK ==
  /\ is_open \in BOOLEAN /\ run_number \in [Streams -> Nat]
  /\ fs \in [Streams -> [file : 0..Len(disk), id : Nat, written : Nat,
                         keys : SUBSET {EventKey[e] : e \in Events}]]
  /\ \A i \in DOMAIN disk :
       disk[i] \in [kind : Streams, run : Nat, id : Nat, recs : Seq(Events \cup {Raw, Torn}),
                    bytes : Nat, torn : Nat, stamped : BOOLEAN]
  /\ \A k \in Streams : fs[k].file # 0 =>
       is_open /\ disk[fs[k].file].kind = k /\ ~disk[fs[k].file].stamped
  /\ raws \in 0..MaxRaws /\ faults \in 0..MaxFaults
  /\ saved \subseteq Events /\ refused \subseteq Events /\ owed \subseteq Events
  /\ completed \in Seq(Events) /\ queue \in Seq(Events) /\ shutdown \in BOOLEAN
  /\ sleeping \subseteq Threads
  /\ at \in [Threads -> {"off", "loop", "drain", "push", "write", "written", "done", "idle",
                         "opened", "started", "frontends", "quiesce", "wait", "join",
                         "notify", "joining", "close"}]
  /\ hand \in [Threads -> Seq(Events)]
  /\ next \in Nat /\ opened \in 0..MaxOpened

ShardsWith(e) == {i \in DOMAIN disk : \E j \in DOMAIN disk[i].recs : disk[i].recs[j] = e}
Copies(i, e) == Cardinality({j \in DOMAIN disk[i].recs : disk[i].recs[j] = e})

\* data_store.h:50, "preflights all fragment records so one logical event
\* does not cross files": no event has records in two shards, and one that
\* was reported as written has all of them in its shard, once.  Events whose
\* write failed midway count for the first part.
SavedInOneShard ==
  \A e \in Events :
    /\ Cardinality(ShardsWith(e)) <= 1
    /\ e \in saved => \E i \in ShardsWith(e) : Copies(i, e) = Fragments[e]

SavedIn(i) == {e \in saved : i \in ShardsWith(e)}

\* data_store.cpp:412, "a successful size rotate starts a new shard and must
\* not inherit the previous file's keys": the keys counted against
\* max_event_number_saved are those of the events in the open shard, also
\* after rotations that failed, and no shard has more than the limit.  No
\* file passes max_file_size_bytes, L1 by more than the record that made it
\* full, unless a write to it failed: what is left of the record is not in
\* current_written (data_store.cpp:453-463), so that the file may pass the
\* limit by just as much, and never more.
ShardsWithinLimits ==
  /\ MaxEventNumberSaved # 0 =>
       /\ fs["CD"].file # 0 => fs["CD"].keys = {EventKey[e] : e \in SavedIn(fs["CD"].file)}
       /\ \A i \in DOMAIN disk :
            Cardinality({EventKey[e] : e \in SavedIn(i)}) <= MaxEventNumberSaved
  /\ MaxFileSize # 0 =>
       \A i \in DOMAIN disk :
         disk[i].bytes <= disk[i].torn +
           IF disk[i].kind = "CD" THEN MaxFileSize ELSE MaxFileSize + RawSize

\* data_store.cpp:595, "the run number is always greater than the largest in
\* the directory": a start never goes on with the number of an earlier run,
\* be it that a start failed halfway or that the process died.
RunNumberFresh ==
  [][~is_open => \A i \in DOMAIN disk, j \in (DOMAIN disk') \ DOMAIN disk :
                    disk[i].kind = disk'[j].kind => disk[i].run < disk'[j].run]_vars

\* Whenever the store is not open, no event the Builder has completed waits
\* to be written: stop closes the store only after all producers, the
\* Builder's last events and the worker, also when its wait has timed out.
NothingOwedWhenClosed == ~is_open => owed = {}

\* No thread sleeps on cd_write_cv_ while what it waits for holds, although
\* notify_one may wake any of them.  Between setting shutdown and the
\* notification, which is sent without the mutex, the worker may.
WaitsFor(t) ==
  CASE t = "worker" -> queue # <<>> \/ (shutdown /\ at["main"] # "notify")
    [] at[t] = "wait" -> Drained
    [] OTHER -> Len(queue) < Capacity
NoMissedWakeup == \A t \in sleeping : ~WaitsFor(t)

\* A stop, or the way down of a failed start, returns: no DAQ thread stays
\* in a full queue, the worker drains it and ends.
StopReturns == (at["main"] = "frontends") ~> (at["main"] = "idle")
=============================================================================
