--------------------------- MODULE TriggerPipeline ---------------------------
(***************************************************************************)
(* The threads around the gate: TriggerPipeline in grand-daq/include/      *)
(* trigger_pipeline.h and src/trigger_processor_pipeline.cpp.              *)
(*                                                                         *)
(* DAQ threads, one per detection unit, put batches of hits into the gate  *)
(* and wake the processing thread; the processing thread pops the buckets  *)
(* that are ready and judges them; stop() ends the thread and judges what  *)
(* is left.  The condition variable cv_ is modelled with its real          *)
(* granularity: wake_epoch_ is raised and cv_ notified without holding the *)
(* mutex the waiter tests its predicate under, so the test and the moment  *)
(* the thread is really asleep are two steps.                              *)
(*                                                                         *)
(* What judging a bucket does (nhit window, T3 filter, callback) is left   *)
(* out here: a handled bucket is remembered by its number.                 *)
(***************************************************************************)
EXTENDS GateLogic

CONSTANT MaxBatches  \* bound of the model: batches fed

VARIABLES
  running,  \* running_
  epoch,    \* wake_epoch_
  feeder,   \* DAQ threads: where each is in addT2HitsBatch
  proc,     \* the processing thread: where it is in processLoop
  hand,     \* the buckets it has popped and not yet handled
  stopper,  \* where the caller of stop() is
  batches,  \* batches fed (bound of the model)
  handled   \* history: numbers of the buckets handled

pipeVars == <<running, epoch, feeder, proc, hand, stopper, batches, handled>>
vars == <<gateVars, pipeVars>>

Idle == [pc |-> "idle", left |-> {}, batch |-> {}]

PipeInit ==
  /\ Init
  /\ running = TRUE /\ epoch = 0
  /\ feeder = [d \in DU |-> Idle]
  /\ proc = [pc |-> "top", prev |-> 0, wait |-> {}, missed |-> FALSE]
  /\ hand = <<>> /\ stopper = "no" /\ batches = 0 /\ handled = {}

Time == Tick /\ UNCHANGED pipeVars

\* notify_one, notify_all: the only thread that ever waits on cv_ wakes up
\* and tests its predicate again, if it is asleep by now.  One that comes
\* between its test and its sleep is lost; missed (history) remembers that
\* until the thread is back at the top of its loop.
Notified ==
  CASE proc.pc = "asleep" -> [proc EXCEPT !.pc = "check"]
    [] proc.pc = "block"  -> [proc EXCEPT !.missed = TRUE]
    [] OTHER              -> proc

Earliest(W) == {tm \in W : \A w \in W : tm <= w}

-----------------------------------------------------------------------------
(***************************************************************************)
(* addT2HitsBatch.  The hits of a batch are split by window (calculateTmId)*)
(* and set window by window, in ascending order.  App stops the frontends, *)
(* and so the DAQ threads, before it stops the pipeline.                   *)
(***************************************************************************)
FeedBatch(d) ==
  /\ stopper = "no" /\ feeder[d].pc = "idle" /\ batches < MaxBatches
  /\ \E W \in (SUBSET TmId) \ {{}}, batch \in (SUBSET Stamp) \ {{}} :
       feeder' = [feeder EXCEPT ![d] = [pc |-> "set", left |-> W, batch |-> batch]]
  /\ batches' = batches + 1
  /\ UNCHANGED <<gateVars, running, epoch, proc, hand, stopper, handled>>

FeedWindow(d) ==
  /\ feeder[d].pc = "set"
  /\ \E tm \in Earliest(feeder[d].left) :
       /\ SetT2Hits(tm, d, feeder[d].batch)
       /\ feeder' = [feeder EXCEPT
            ![d].left = @ \ {tm},
            ![d].pc = IF feeder[d].left = {tm} THEN "bump" ELSE "set"]
  /\ UNCHANGED <<running, epoch, proc, hand, stopper, batches, handled>>

FeedBump(d) ==
  /\ feeder[d].pc = "bump"
  /\ epoch' = epoch + 1
  /\ feeder' = [feeder EXCEPT ![d].pc = "notify"]
  /\ UNCHANGED <<gateVars, running, proc, hand, stopper, batches, handled>>

\* Mutant: the epoch is raised, but cv_ is not notified.
FeedNotifyNot(d) ==
  /\ feeder[d].pc = "notify"
  /\ feeder' = [feeder EXCEPT ![d] = Idle]
  /\ UNCHANGED <<gateVars, running, epoch, proc, hand, stopper, batches, handled>>

FeedNotify(d) ==
  /\ feeder[d].pc = "notify"
  /\ proc' = Notified
  /\ feeder' = [feeder EXCEPT ![d] = Idle]
  /\ UNCHANGED <<gateVars, running, epoch, hand, stopper, batches, handled>>

-----------------------------------------------------------------------------
(***************************************************************************)
(* processLoop                                                             *)
(***************************************************************************)
ProcTop ==
  /\ proc.pc = "top"
  /\ proc' = IF running
                THEN [proc EXCEPT !.pc = "poll", !.prev = epoch, !.missed = FALSE]
                ELSE [proc EXCEPT !.pc = "done"]
  /\ UNCHANGED <<gateVars, running, epoch, feeder, hand, stopper, batches, handled>>

ProcPoll ==
  /\ proc.pc = "poll"
  /\ PollReady
  /\ proc' = [proc EXCEPT !.pc = IF ready' = {} THEN "deadline" ELSE "pop"]
  /\ UNCHANGED <<running, epoch, feeder, hand, stopper, batches, handled>>

ProcDeadline ==
  /\ proc.pc = "deadline"
  /\ proc' = [proc EXCEPT !.pc = "check", !.wait = NextDeadline]
  /\ UNCHANGED <<gateVars, running, epoch, feeder, hand, stopper, batches, handled>>

\* The predicate of the wait, tested before the thread sleeps and after
\* every wakeup
ProcCheck ==
  /\ proc.pc = "check"
  /\ proc' = [proc EXCEPT !.pc = IF ~running \/ epoch # proc.prev THEN "top" ELSE "block"]
  /\ UNCHANGED <<gateVars, running, epoch, feeder, hand, stopper, batches, handled>>

ProcBlock ==
  /\ proc.pc = "block"
  /\ proc' = [proc EXCEPT !.pc = "asleep"]
  /\ UNCHANGED <<gateVars, running, epoch, feeder, hand, stopper, batches, handled>>

\* wait_until and wait_for (deadline 0: one millisecond) end by themselves
ProcTimesOut ==
  /\ proc.pc = "asleep" /\ \E t \in proc.wait : now >= t
  /\ proc' = [proc EXCEPT !.pc = "top"]
  /\ UNCHANGED <<gateVars, running, epoch, feeder, hand, stopper, batches, handled>>

ProcSpuriousWakeup ==
  /\ proc.pc = "asleep"
  /\ proc' = [proc EXCEPT !.pc = "check"]
  /\ UNCHANGED <<gateVars, running, epoch, feeder, hand, stopper, batches, handled>>

\* Mutant: buckets popped early for lack of room are dropped.
ProcPopDropsForced ==
  /\ proc.pc = "pop"
  /\ PopAllReady
  /\ hand' = [tm \in Popped \cap TimedOut |-> pending[tm]]
  /\ proc' = [proc EXCEPT !.pc = "handle"]
  /\ UNCHANGED <<running, epoch, feeder, stopper, batches, handled>>

ProcPop ==
  /\ proc.pc = "pop"
  /\ PopAllReady
  /\ hand' = [tm \in Popped |-> pending[tm]]
  /\ proc' = [proc EXCEPT !.pc = "handle"]
  /\ UNCHANGED <<running, epoch, feeder, stopper, batches, handled>>

\* The popped buckets are handled in the order of their windows.
ProcHandle ==
  /\ proc.pc = "handle" /\ DOMAIN hand # {}
  /\ \E tm \in Earliest(DOMAIN hand) :
       /\ handled' = handled \cup {hand[tm].id}
       /\ hand' = [w \in DOMAIN hand \ {tm} |-> hand[w]]
  /\ UNCHANGED <<gateVars, running, epoch, feeder, proc, stopper, batches>>

ProcHandled ==
  /\ proc.pc = "handle" /\ DOMAIN hand = {}
  /\ proc' = [proc EXCEPT !.pc = "top"]
  /\ UNCHANGED <<gateVars, running, epoch, feeder, hand, stopper, batches, handled>>

-----------------------------------------------------------------------------
(***************************************************************************)
(* stop()                                                                  *)
(***************************************************************************)
StopBegin ==
  /\ stopper = "no" /\ \A d \in DU : feeder[d].pc = "idle"
  /\ running' = FALSE /\ stopper' = "bump"
  /\ UNCHANGED <<gateVars, epoch, feeder, proc, hand, batches, handled>>

StopBump ==
  /\ stopper = "bump"
  /\ epoch' = epoch + 1 /\ stopper' = "notify"
  /\ UNCHANGED <<gateVars, running, feeder, proc, hand, batches, handled>>

StopNotify ==
  /\ stopper = "notify"
  /\ proc' = Notified /\ stopper' = "join"
  /\ UNCHANGED <<gateVars, running, epoch, feeder, hand, batches, handled>>

StopJoined ==
  /\ stopper = "join" /\ proc.pc = "done"
  /\ stopper' = "drain"
  /\ UNCHANGED <<gateVars, running, epoch, feeder, proc, hand, batches, handled>>

StopDrainOne ==
  /\ stopper = "drain"
  /\ \E tm \in DOMAIN pending :
       ForcePop(tm) /\ handled' = handled \cup {pending[tm].id}
  /\ UNCHANGED <<running, epoch, feeder, proc, hand, stopper, batches>>

StopReturn ==
  /\ stopper = "drain" /\ DOMAIN pending = {}
  /\ stopper' = "done"
  /\ UNCHANGED <<gateVars, running, epoch, feeder, proc, hand, batches, handled>>

Feed(d) == FeedBatch(d) \/ FeedWindow(d) \/ FeedBump(d) \/ FeedNotify(d)

ProcStep ==
  \/ ProcTop \/ ProcPoll \/ ProcDeadline \/ ProcCheck \/ ProcBlock
  \/ ProcTimesOut \/ ProcPop \/ ProcHandle \/ ProcHandled

StopStep == StopBump \/ StopNotify \/ StopJoined \/ StopDrainOne \/ StopReturn

PipeNext ==
  \/ Time
  \/ \E d \in DU : Feed(d)
  \/ ProcStep
  \/ ProcSpuriousWakeup
  \/ StopBegin
  \/ StopStep

PipeSpec == PipeInit /\ [][PipeNext]_vars

(***************************************************************************)
(* Time passes and the scheduler runs every thread that can run.  Nothing  *)
(* obliges a DU to send, the operator to stop, or cv_ to wake spuriously;  *)
(* and spurious wakeups do not keep a timed wait from ever timing out.     *)
(***************************************************************************)
PipeFairSpec ==
  /\ PipeSpec
  /\ WF_vars(Time)
  /\ \A d \in DU : WF_vars(FeedWindow(d) \/ FeedBump(d) \/ FeedNotify(d))
  /\ WF_vars(ProcStep) /\ SF_vars(ProcTimesOut)
  /\ WF_vars(StopStep)

-----------------------------------------------------------------------------
(***************************************************************************)
(* Properties                                                              *)
(***************************************************************************)
PipeTypeOK ==
  /\ TypeOK
  /\ running \in BOOLEAN /\ epoch \in Nat
  /\ feeder \in [DU -> [pc : {"idle", "set", "bump", "notify"},
                        left : SUBSET TmId, batch : SUBSET Stamp]]
  /\ proc.pc \in {"top", "poll", "deadline", "check", "block", "asleep", "pop",
                  "handle", "done"}
  /\ proc.prev \in Nat /\ proc.wait \subseteq Nat /\ proc.missed \in BOOLEAN
  /\ DOMAIN hand \subseteq TmId
  /\ stopper \in {"no", "bump", "notify", "join", "drain", "done"}
  /\ handled \subseteq Nat

(***************************************************************************)
(* Every bucket the gate opened is pending, popped or handled, and only    *)
(* one of them: none is lost between the gate and the trigger decision,    *)
(* or judged twice; and when stop() returns all have been judged.          *)
(***************************************************************************)
PendingIds == {pending[tm].id : tm \in DOMAIN pending}
HandIds == {hand[tm].id : tm \in DOMAIN hand}

BucketsAccounted ==
  /\ PendingIds \cup HandIds \cup handled = {i \in 0..MaxOpened : i < opened}
  /\ PendingIds \cap HandIds = {}
  /\ (PendingIds \cup HandIds) \cap handled = {}
  /\ stopper = "done" => PendingIds \cup HandIds = {}

\* It sleeps without a deadline, although the epoch was raised: cv_ was
\* notified between its test and its sleep, and nobody is about to notify it.
Overslept ==
  /\ proc.pc = "asleep" /\ proc.wait = {}
  /\ proc.missed /\ epoch # proc.prev
  /\ \A d \in DU : feeder[d].pc # "notify"
  /\ stopper # "notify"

(***************************************************************************)
(* Every bucket is judged in the end: it ends with the thread's deadline,  *)
(* or a later batch, or stop() wakes it.  The one exception is the lost    *)
(* wakeup of waitForEvent (trigger_processor_pipeline.cpp:195-222): cv_ is *)
(* notified without mutex_, after the predicate was tested and before the  *)
(* thread, which has no deadline yet, is asleep; then the bucket stays     *)
(* until the next batch.  A notification that merely has not come yet is   *)
(* not an exception, nor is one that never comes.                          *)
(***************************************************************************)
Due(i) ==
  \E tm \in DOMAIN pending :
    pending[tm].id = i /\ pending[tm].first + HardCap <= MaxTime

HandledUnlessOverslept ==
  \A i \in 0..MaxOpened - 1 : Due(i) ~> (i \in handled \/ Overslept)

(***************************************************************************)
(* trigger_pipeline.h:71: stop() ends the thread and drains the remaining  *)
(* buckets.  It hangs in join when its notify_all comes while the thread   *)
(* is falling asleep without a deadline.                                   *)
(***************************************************************************)
StopDrains == (stopper = "bump") ~> (stopper = "done")
=============================================================================
