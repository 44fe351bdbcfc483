------------------------------ MODULE Dotrigger ------------------------------
(***************************************************************************)
(* From a trigger decision to the DOTRIGGER commands and back: the         *)
(* dispatch queue, its worker and the stop sequence of App in              *)
(* grand-daq/src/app.cpp.                                                  *)
(*                                                                         *)
(* The T3 thread hands every decision to handleT3TriggerResult, which      *)
(* queues it; the worker sends the command to each detection unit (DU) and *)
(* then registers the event with the Builder.  The answers come back on    *)
(* the DAQ threads.  App::stop, on the thread of the caller, closes the    *)
(* queue, waits for it to drain, stops frontends, T3 trigger, worker and   *)
(* Builder, and may itself run the callback for the buckets the T3 trigger *)
(* still held.                                                             *)
(*                                                                         *)
(* Threads are named "worker", "t3" and "main".  All of them wait on the   *)
(* one condition variable dotrigger_cv_; notify_one wakes any of them.     *)
(* Every block of code under dotrigger_queue_mutex_ is one step, and a     *)
(* thread that finds its predicate false goes to sleep in that step.       *)
(*                                                                         *)
(* Abstractions.  Of the Builder only which DUs an event waits for is      *)
(* kept: see Builder.  Of the T3 trigger only its decisions, and that its  *)
(* stop() may hang: see TriggerPipeline.  Latency statistics and counters  *)
(* are left out.                                                           *)
(***************************************************************************)
EXTENDS Naturals, Sequences, FiniteSets

CONSTANTS
  DU,        \* detection units
  Capacity,  \* kDotriggerQueueCapacity
  MaxTags    \* bound of the model: trigger decisions

ASSUME DotriggerConstants ==
  IsFiniteSet(DU) /\ Capacity \in Nat \ {0} /\ MaxTags \in Nat

Threads == {"worker", "t3", "main"}
Callers == {"t3", "main"}  \* who runs handleT3TriggerResult

VARIABLES
  tags,        \* t3_trigger_tag_
  queue,       \* dotrigger_queue_
  inflight,    \* dotrigger_inflight_
  accept,      \* dotrigger_accept_
  shutdown,    \* dotrigger_shutdown_
  sleeping,    \* threads asleep on dotrigger_cv_
  callback,    \* where each caller is in handleT3TriggerResult
  dispatch,    \* where each thread is in processDotriggerDispatch
  worker,      \* the worker: "loop", "busy" or "exited"
  main,        \* where App::stop is
  t3Alive,     \* the T3 trigger's thread runs
  frontendsUp, \* the DAQ threads run
  builderUp,   \* the Builder is started
  wire,        \* commands a DU has received and not yet answered
  daq,         \* DAQ threads: the answer each has taken, 0 for none
  awaited,     \* the Builder's open events: tag -> DUs still missing
  dispatched   \* history: tags whose dispatch has ended

queueVars   == <<tags, queue, inflight, accept, shutdown, sleeping>>
dataVars    == <<frontendsUp, wire, daq>>
builderVars == <<builderUp, awaited, dispatched>>
vars == <<queueVars, callback, dispatch, worker, main, t3Alive, dataVars, builderVars>>

NoItem   == [tag |-> 0, dus |-> {}]
NoCall   == [pc |-> "none", item |-> NoItem]
NoWork   == [pc |-> "none", item |-> NoItem, ok |-> {}]
Work(it) == [pc |-> "lock", item |-> it, ok |-> {}]

Init ==
  /\ tags = 0 /\ queue = <<>> /\ inflight = 0
  /\ accept = TRUE /\ shutdown = FALSE /\ sleeping = {}
  /\ callback = [a \in Callers |-> NoCall]
  /\ dispatch = [a \in Threads |-> NoWork]
  /\ worker = "loop" /\ main = "running" /\ t3Alive = TRUE
  /\ frontendsUp = TRUE /\ builderUp = TRUE
  /\ wire = {} /\ daq = [d \in DU |-> 0]
  /\ awaited = <<>> /\ dispatched = {}

\* What notify_one and notify_all leave asleep
AfterNotifyOne == IF sleeping = {} THEN {{}} ELSE {sleeping \ {a} : a \in sleeping}
AfterNotifyAll == {}

Awake(a) == a \notin sleeping
Full == Len(queue) >= Capacity

\* Any thread may wake up for no reason.
SpuriousWakeup ==
  /\ \E a \in sleeping : sleeping' = sleeping \ {a}
  /\ UNCHANGED <<tags, queue, inflight, accept, shutdown, callback, dispatch, worker,
                 main, t3Alive, dataVars, builderVars>>

-----------------------------------------------------------------------------
(***************************************************************************)
(* handleT3TriggerResult, on the T3 thread or, in T3Trigger::stop, on the  *)
(* thread of App::stop                                                     *)
(***************************************************************************)
CallbackUnchanged == UNCHANGED <<inflight, shutdown, worker, main, t3Alive, dataVars, builderVars>>

Idle(a) == callback[a].pc = "none" /\ dispatch[a].pc = "none"
MayDecide(a) == IF a = "t3" THEN t3Alive /\ main # "hung" ELSE main = "drain"

Decide(a, dus) ==
  /\ MayDecide(a) /\ Idle(a) /\ tags < MaxTags
  /\ tags' = tags + 1
  /\ callback' = [callback EXCEPT
       ![a] = [pc |-> "read", item |-> [tag |-> tags + 1, dus |-> dus]]]
  /\ UNCHANGED <<queue, accept, sleeping, dispatch>> /\ CallbackUnchanged

\* dotrigger_accept_ is read without the mutex.
ReadAccept(a) ==
  /\ callback[a].pc = "read"
  /\ callback' = [callback EXCEPT ![a].pc = IF accept THEN "fast" ELSE "slow"]
  /\ UNCHANGED <<tags, queue, accept, sleeping, dispatch>> /\ CallbackUnchanged

\* While stopping: wait for room, however long.
EnqueueSlow(a) ==
  /\ callback[a].pc = "slow" /\ Awake(a)
  /\ IF Full
       THEN sleeping' = sleeping \cup {a} /\ UNCHANGED <<queue, callback>>
       ELSE /\ queue' = Append(queue, callback[a].item)
            /\ sleeping' \in AfterNotifyOne
            /\ callback' = [callback EXCEPT ![a] = NoCall]
  /\ UNCHANGED <<tags, accept, dispatch>> /\ CallbackUnchanged

\* Mutant: a decision that finds the queue full is dropped.
EnqueueFastDrops(a) ==
  /\ callback[a].pc = "fast"
  /\ IF Full
       THEN callback' = [callback EXCEPT ![a] = NoCall] /\ UNCHANGED queue
       ELSE /\ queue' = Append(queue, callback[a].item)
            /\ callback' = [callback EXCEPT ![a].pc = "notify"]
  /\ UNCHANGED <<tags, accept, sleeping, dispatch>> /\ CallbackUnchanged

\* While running: a full queue makes the caller send the commands itself.
EnqueueFast(a) ==
  /\ callback[a].pc = "fast"
  /\ IF Full
       THEN /\ dispatch' = [dispatch EXCEPT ![a] = Work(callback[a].item)]
            /\ callback' = [callback EXCEPT ![a] = NoCall]
            /\ UNCHANGED queue
       ELSE /\ queue' = Append(queue, callback[a].item)
            /\ callback' = [callback EXCEPT ![a].pc = "notify"]
            /\ UNCHANGED dispatch
  /\ UNCHANGED <<tags, accept, sleeping>> /\ CallbackUnchanged

\* Mutant: nobody is notified of a queued decision.
NotifyNobody(a) ==
  /\ callback[a].pc = "notify"
  /\ callback' = [callback EXCEPT ![a] = NoCall]
  /\ UNCHANGED <<tags, queue, accept, sleeping, dispatch>> /\ CallbackUnchanged

NotifyWorker(a) ==
  /\ callback[a].pc = "notify"
  /\ sleeping' \in AfterNotifyOne
  /\ callback' = [callback EXCEPT ![a] = NoCall]
  /\ UNCHANGED <<tags, queue, accept, dispatch>> /\ CallbackUnchanged

Callback(a) == ReadAccept(a) \/ EnqueueSlow(a) \/ EnqueueFast(a) \/ NotifyWorker(a)

-----------------------------------------------------------------------------
(***************************************************************************)
(* processDotriggerDispatch, under dotrigger_send_mutex_                   *)
(***************************************************************************)
DispatchUnchanged == UNCHANGED <<queueVars, callback, worker, main, t3Alive, frontendsUp, daq>>

SendLocked == \E a \in Threads : dispatch[a].pc = "send"

DispatchLock(a) ==
  /\ dispatch[a].pc = "lock" /\ ~SendLocked
  /\ dispatch' = [dispatch EXCEPT ![a].pc = "send"]
  /\ UNCHANGED <<wire, builderVars>> /\ DispatchUnchanged

\* sendTCP to one DU succeeds, or throws and the DU is skipped.
DispatchSend(a) ==
  /\ dispatch[a].pc = "send"
  /\ \E d \in dispatch[a].item.dus, sent \in BOOLEAN :
       /\ dispatch' = [dispatch EXCEPT
            ![a].item.dus = @ \ {d},
            ![a].ok = IF sent THEN @ \cup {d} ELSE @]
       /\ wire' = IF sent THEN wire \cup {<<dispatch[a].item.tag, d>>} ELSE wire
  /\ UNCHANGED builderVars /\ DispatchUnchanged

\* After the last send: beginEvent with the DUs that were reached
DispatchEnd(a) ==
  LET t == dispatch[a].item.tag
      begins == dispatch[a].ok # {} /\ builderUp
  IN  /\ dispatch[a].pc = "send" /\ dispatch[a].item.dus = {}
      /\ awaited' = [x \in DOMAIN awaited \cup {y \in {t} : begins} |->
                       IF x = t THEN dispatch[a].ok ELSE awaited[x]]
      /\ dispatched' = dispatched \cup {t}
      /\ dispatch' = [dispatch EXCEPT ![a] = NoWork]
      /\ UNCHANGED <<wire, builderUp>> /\ DispatchUnchanged

Dispatch(a) == DispatchLock(a) \/ DispatchSend(a) \/ DispatchEnd(a)

-----------------------------------------------------------------------------
(***************************************************************************)
(* dotriggerWorkerLoop                                                     *)
(***************************************************************************)
WorkerUnchanged ==
  UNCHANGED <<tags, accept, shutdown, callback, main, t3Alive, dataVars, builderVars>>

\* Mutant: shutdown does not wait for the queue to empty.
WorkerTurnLeaves(n) ==
  \/ /\ queue # <<>> /\ ~shutdown
     /\ queue' = Tail(queue) /\ inflight' = n + 1
     /\ dispatch' = [dispatch EXCEPT !["worker"] = Work(Head(queue))]
     /\ worker' = "busy" /\ sleeping' = AfterNotifyAll
  \/ /\ shutdown
     /\ worker' = "exited" /\ inflight' = n
     /\ UNCHANGED <<queue, dispatch>>

\* The body of the loop under the mutex, with n items in flight besides
\* this thread's: take the next item, leave, or wait.
WorkerTurn(n) ==
  \/ /\ queue # <<>>
     /\ queue' = Tail(queue) /\ inflight' = n + 1
     /\ dispatch' = [dispatch EXCEPT !["worker"] = Work(Head(queue))]
     /\ worker' = "busy" /\ sleeping' = AfterNotifyAll
  \/ /\ queue = <<>> /\ shutdown
     /\ worker' = "exited" /\ inflight' = n
     /\ UNCHANGED <<queue, dispatch>>

WorkerLoop ==
  /\ worker = "loop" /\ Awake("worker")
  /\ \/ WorkerTurn(inflight) /\ (worker' = "exited" => UNCHANGED sleeping)
     \/ /\ queue = <<>> /\ ~shutdown
        /\ sleeping' = sleeping \cup {"worker"}
        /\ UNCHANGED <<queue, inflight, dispatch, worker>>
  /\ WorkerUnchanged

\* A dispatch has ended: --inflight and notify_all, and in the same critical
\* section the next item or the end of the loop.
WorkerDone ==
  /\ worker = "busy" /\ dispatch["worker"].pc = "none"
  /\ sleeping' = AfterNotifyAll
  /\ \/ WorkerTurn(inflight - 1)
     \/ /\ queue = <<>> /\ ~shutdown
        /\ worker' = "loop" /\ inflight' = inflight - 1
        /\ UNCHANGED <<queue, dispatch>>
  /\ WorkerUnchanged

-----------------------------------------------------------------------------
(***************************************************************************)
(* Answers.  A DU that got a command may answer while the frontends run:   *)
(* its DAQ thread takes the answer and then gives it to addFragment.       *)
(***************************************************************************)
TakeAnswer(d) ==
  /\ frontendsUp /\ daq[d] = 0
  /\ \E t \in 1..tags :
       /\ <<t, d>> \in wire
       /\ wire' = wire \ {<<t, d>>} /\ daq' = [daq EXCEPT ![d] = t]
  /\ UNCHANGED <<queueVars, callback, dispatch, worker, main, t3Alive, frontendsUp,
                 builderVars>>

AddFragment(d) ==
  LET t == daq[d]
      open == t \in DOMAIN awaited
      left == IF open THEN awaited[t] \ {d} ELSE {}
  IN  /\ daq[d] # 0
      /\ daq' = [daq EXCEPT ![d] = 0]
      /\ awaited' = [x \in {y \in DOMAIN awaited : y = t => left # {}} |->
                       IF x = t THEN left ELSE awaited[x]]
      /\ UNCHANGED <<queueVars, callback, dispatch, worker, main, t3Alive, frontendsUp,
                     wire, builderUp, dispatched>>

-----------------------------------------------------------------------------
(***************************************************************************)
(* App::stop                                                               *)
(***************************************************************************)
StopUnchanged == UNCHANGED <<tags, queue, callback, dispatch, worker, wire, daq>>
Drained == queue = <<>> /\ inflight = 0

\* STOP to the DUs; waitDotriggerQuiescent closes the queue, wakes everybody
\* and, without letting go of the mutex, looks at the queue for the first time.
StopBegin ==
  /\ main = "running"
  /\ accept' = FALSE
  /\ IF Drained THEN main' = "frontends" /\ sleeping' = AfterNotifyAll
                ELSE main' = "quiesce" /\ sleeping' = AfterNotifyAll \cup {"main"}
  /\ UNCHANGED <<inflight, shutdown, t3Alive, frontendsUp, builderVars>> /\ StopUnchanged

WaitDrain(from, to) ==
  /\ main = from /\ Awake("main")
  /\ IF Drained THEN main' = to /\ UNCHANGED sleeping
                ELSE sleeping' = sleeping \cup {"main"} /\ UNCHANGED main
  /\ UNCHANGED <<inflight, accept, shutdown, t3Alive, frontendsUp, builderVars>> /\ StopUnchanged

\* waitDotriggerQueueInflightDrainUnderLock gives up after 30 s.
WaitTimesOut(from, to) ==
  /\ main = from /\ ~Drained
  /\ main' = to /\ sleeping' = sleeping \ {"main"}
  /\ UNCHANGED <<inflight, accept, shutdown, t3Alive, frontendsUp, builderVars>> /\ StopUnchanged

\* stopLocalPipelineNoexcept joins the DAQ threads.
StopFrontends ==
  /\ main = "frontends" /\ \A d \in DU : daq[d] = 0
  /\ frontendsUp' = FALSE /\ main' = "reset"
  /\ UNCHANGED <<inflight, accept, shutdown, sleeping, t3Alive, builderVars>> /\ StopUnchanged

\* resetT3TriggerNoexcept
ResetBegin ==
  /\ main = "reset"
  /\ accept' = FALSE /\ sleeping' = AfterNotifyAll /\ main' = "joinT3"
  /\ UNCHANGED <<inflight, shutdown, t3Alive, frontendsUp, builderVars>> /\ StopUnchanged

\* T3Trigger::stop, which is TriggerPipeline::stop, joins its thread, in one
\* of two ways: at once, or late because its notify_all came while the T3
\* thread was falling asleep (TriggerPipeline!StopDrains fails there).  Then
\* nothing but a spurious wakeup of the T3 thread ends the join.
T3Joined(from) ==
  /\ main = from /\ Idle("t3")
  /\ t3Alive' = FALSE /\ main' = "drain"
  /\ UNCHANGED <<inflight, accept, shutdown, sleeping, frontendsUp, builderVars>> /\ StopUnchanged

JoinT3 == T3Joined("joinT3")
JoinT3Late == T3Joined("hung")

JoinT3Hangs ==
  /\ main = "joinT3" /\ Idle("t3")
  /\ main' = "hung"
  /\ UNCHANGED <<inflight, accept, shutdown, sleeping, t3Alive, frontendsUp, builderVars>>
  /\ StopUnchanged

\* Joined, it runs the callback itself for the buckets left: Decide("main", ...)

DrainedT3 ==
  /\ main = "drain" /\ Idle("main")
  /\ main' = "wait"
  /\ UNCHANGED <<inflight, accept, shutdown, sleeping, t3Alive, frontendsUp, builderVars>>
  /\ StopUnchanged

\* joinDotriggerWorkerDrain
ShutdownWorker ==
  /\ main = "shutdown"
  /\ accept' = FALSE /\ shutdown' = TRUE /\ main' = "notify"
  /\ UNCHANGED <<inflight, sleeping, t3Alive, frontendsUp, builderVars>> /\ StopUnchanged

\* Mutant: the worker is not told.
NotifyShutdownNot ==
  /\ main = "notify"
  /\ main' = "joinWorker"
  /\ UNCHANGED <<inflight, accept, shutdown, sleeping, t3Alive, frontendsUp, builderVars>>
  /\ StopUnchanged

NotifyShutdown ==
  /\ main = "notify"
  /\ sleeping' = AfterNotifyAll /\ main' = "joinWorker"
  /\ UNCHANGED <<inflight, accept, shutdown, t3Alive, frontendsUp, builderVars>> /\ StopUnchanged

JoinWorker ==
  /\ main = "joinWorker" /\ worker = "exited"
  /\ queue' = <<>> /\ inflight' = 0 /\ shutdown' = FALSE /\ main' = "builder"
  /\ UNCHANGED <<tags, accept, sleeping, callback, dispatch, worker, t3Alive, dataVars,
                 builderVars>>

\* stopBuilderNoexcept
StopBuilder ==
  /\ main = "builder"
  /\ builderUp' = FALSE /\ awaited' = <<>> /\ main' = "done"
  /\ UNCHANGED <<inflight, accept, shutdown, sleeping, t3Alive, frontendsUp, dispatched>>
  /\ StopUnchanged

WaitStep == WaitDrain("quiesce", "frontends") \/ WaitDrain("wait", "shutdown")

StopStep ==
  \/ WaitStep
  \/ StopFrontends \/ ResetBegin \/ JoinT3 \/ DrainedT3
  \/ ShutdownWorker \/ NotifyShutdown \/ JoinWorker \/ StopBuilder

Next ==
  \/ SpuriousWakeup
  \/ \E a \in Callers, dus \in (SUBSET DU) \ {{}} : Decide(a, dus)
  \/ \E a \in Callers : Callback(a)
  \/ \E a \in Threads : Dispatch(a)
  \/ WorkerLoop \/ WorkerDone
  \/ \E d \in DU : TakeAnswer(d) \/ AddFragment(d)
  \/ StopBegin
  \/ StopStep
  \/ JoinT3Hangs \/ JoinT3Late
  \/ WaitTimesOut("quiesce", "frontends") \/ WaitTimesOut("wait", "shutdown")

Spec == Init /\ [][Next]_vars

(***************************************************************************)
(* Every thread that can run runs, and a wait of App::stop that finds no   *)
(* end gives up after 30 s.  Decisions, answers and the operator's stop    *)
(* need not come, and no progress is owed to a spurious wakeup, so not to  *)
(* a join that hangs either.                                               *)
(***************************************************************************)
FairSpec ==
  /\ Spec
  /\ \A a \in Callers : WF_vars(Callback(a))
  /\ \A a \in Threads : SF_vars(DispatchLock(a)) /\ WF_vars(DispatchSend(a) \/ DispatchEnd(a))
  /\ WF_vars(WorkerLoop \/ WorkerDone)
  /\ \A d \in DU : WF_vars(AddFragment(d))
  /\ WF_vars(StopStep)
  /\ WF_vars(WaitTimesOut("quiesce", "frontends"))
  /\ WF_vars(WaitTimesOut("wait", "shutdown"))

-----------------------------------------------------------------------------
(***************************************************************************)
(* Properties                                                              *)
(***************************************************************************)
Item == [tag : 0..MaxTags, dus : SUBSET DU]

TypeOK ==
  /\ tags \in 0..MaxTags /\ queue \in Seq(Item) /\ inflight \in Nat
  /\ accept \in BOOLEAN /\ shutdown \in BOOLEAN /\ sleeping \subseteq Threads
  /\ callback \in [Callers -> [pc : {"none", "read", "slow", "fast", "notify"}, item : Item]]
  /\ dispatch \in [Threads -> [pc : {"none", "lock", "send"}, item : Item, ok : SUBSET DU]]
  /\ worker \in {"loop", "busy", "exited"}
  /\ main \in {"running", "quiesce", "frontends", "reset", "joinT3", "hung", "drain",
               "wait", "shutdown", "notify", "joinWorker", "builder", "done"}
  /\ t3Alive \in BOOLEAN /\ frontendsUp \in BOOLEAN /\ builderUp \in BOOLEAN
  /\ wire \subseteq (1..MaxTags) \X DU
  /\ daq \in [DU -> 0..MaxTags]
  /\ DOMAIN awaited \subseteq 1..MaxTags
  /\ \A t \in DOMAIN awaited : awaited[t] \in SUBSET DU
  /\ dispatched \subseteq 1..MaxTags

(***************************************************************************)
(* Where a decision is: with its caller before it is queued, in the queue, *)
(* being dispatched, or dispatched.  Each is in exactly one place, and     *)
(* therefore dispatched once; none is dropped, not by an overflow of the   *)
(* queue, nor by the race of the unlocked read of dotrigger_accept_ with   *)
(* App::stop, nor by the final clear() of the queue.                       *)
(***************************************************************************)
WithCaller  == {callback[a].item.tag :
                  a \in {b \in Callers : callback[b].pc \in {"read", "slow", "fast"}}}
Queued      == {queue[i].tag : i \in DOMAIN queue}
BeingSent   == {dispatch[a].item.tag : a \in {b \in Threads : dispatch[b].pc # "none"}}

TriggersAccounted ==
  /\ WithCaller \cup Queued \cup BeingSent \cup dispatched = 1..tags
  /\ \A i, j \in DOMAIN queue : queue[i].tag = queue[j].tag => i = j
  /\ WithCaller \cap Queued = {} /\ WithCaller \cap BeingSent = {}
  /\ Queued \cap BeingSent = {}
  /\ (WithCaller \cup Queued \cup BeingSent) \cap dispatched = {}

(***************************************************************************)
(* Before App stops the Builder all of it is quiet: every decision has     *)
(* been dispatched, and no thread can register an event any more, also     *)
(* when the waits before it gave up after 30 s.                            *)
(***************************************************************************)
QuietBeforeBuilderStops ==
  main \in {"builder", "done"} =>
    /\ dispatched = 1..tags /\ worker = "exited" /\ ~t3Alive
    /\ \A a \in Threads : dispatch[a].pc = "none"

(***************************************************************************)
(* Every decision is dispatched, whoever notify_one happens to wake: at    *)
(* the latest after the wait in App::stop has given up.                    *)
(***************************************************************************)
AlwaysDispatched == \A t \in 1..MaxTags : (t \in 1..tags) ~> (t \in dispatched)

(***************************************************************************)
(* App::stop returns, or hangs in TriggerPipeline::stop, which it calls in *)
(* resetT3TriggerNoexcept (app.cpp:1707-1721): apart from that join, known *)
(* to hang, its waits, the join of the worker, the DAQ threads and the     *)
(* sleepers they need do not form a circle; and when the hanging join ends *)
(* after all, the rest of the way is clear.                                *)
(***************************************************************************)
StopReturns == (main \notin {"running", "hung"}) ~> (main \in {"done", "hung"})
=============================================================================
