# A TLA+ model of the GRAND DAQ's central station

This directory models the parts of the DAQ software that are hard to test: at
the central station the way of the data in (Frontend), the central trigger with
its threads and its decision, the dispatch of DOTRIGGER commands, the event
builder, the write queue and the files, and the operator's commands; at the
detection unit (DU) its state machine and its data path. TLC checks the modules
on small instances; TLAPS proves the safety properties these runs find true,
and that the Builder and the pipeline implement their specifications, for every
value of the constants. Paths below are relative to `grand_daq/grand-daq/` of
the repository unless they start with `du-daq/` or name another top directory.

## 1. The system

The detection units (DUs) in the field digitise radio pulses and send, for
every pulse that passes their own trigger, a time stamp ("T2 hit"). The
central station collects the hits of all DUs, decides which of them belong to
one air shower, asks these DUs for their waveforms (DOTRIGGER), assembles the
answers to an event and writes it to disk ("CD" data).

```
DU --T2--> Frontend -> DataHandler -> T3Trigger [TriggerPipeline [GateLogic]]
                                           | decision
                                           v
DU <--DOTRIGGER-- worker <-- dotrigger_queue_ <-- App::handleT3TriggerResult
 |                  | beginEvent
 |                  v
 +--DAQEVENT--> DataHandler --addFragment--> Builder --drain--> cd write queue --> DataStore
```

| Part | State it keeps | Operations | Talks to |
|---|---|---|---|
| Builder (`src/builder.cpp`) | pending events, heap of deadlines, completed events, counters, loss telemetry; one mutex | `start`, `stop`, `beginEvent`, `addFragment`, `drainCompleted`, `drainDiagnostics` | called by the dispatch worker, the DAQ threads and `App::stop` |
| GateLogic (`src/trigger_processor_gate_logic.cpp`) | buckets per time window, marks of ready and forced buckets, guard of closed windows, last window per DU; one mutex | `setT2Hits`, `addT2Timestamp`, `pollReady`, `popAllReadySorted`, `forcePopOldest`, `nextDeadlineNs` | called by TriggerPipeline |
| TriggerPipeline (`src/trigger_processor_pipeline.cpp`) | `running_`, `wake_epoch_`, a condition variable, the processing thread | `start`, `addT2HitsBatch`, `processLoop`, `stop` | DAQ threads in, callback out |
| Trigger decision (same file; `include/t3_filter.h`) | none (nhit window, causal clique), history for duplicate rejection | `collectTriggerResults`, `T3Filter` | called per popped bucket |
| T3Trigger (`src/t3_trigger.cpp`) | `stopped_`, callback | `onT2`, `stop` | facade of the pipeline |
| App, DOTRIGGER path (`src/app.cpp` 895-1149) | bounded queue, items in flight, accept and shutdown flags, worker thread, send mutex | `handleT3TriggerResult`, `dotriggerWorkerLoop`, `processDotriggerDispatch`, waits and joins of `stop` | T3 thread in; Frontends and Builder out |
| App, lifecycle (`src/app.cpp` 600-867) | `status_`, all owned objects | `initialize`, `start` with rollback, `stop`, `terminate` | all others, and the DUs' state machines |
| App, CD queue (`src/app.cpp` 1161-1325) | bounded queue of completed events, shutdown flag, writer thread | `enqueueCdWriteEventForCdWrite`, `cdWriteWorkerLoop`, wait and join of `stop` | DAQ threads in, DataStore out |
| DataStore (`src/data_store.cpp`) | open shard per stream, sizes, run numbers, pending counters | `open`, `writeRawRecord`, `writeCdEvent`, rotation, `close` | file system |
| Frontend, ZmqComm, DataHandler | ring buffer of received bytes, `ring_accepts_inbound_`, receive and DAQ thread, T2 time reconstruction | `configure`, `start`, `stop`, `unconfigure`, receive, parse, `sendTCP` | ZeroMQ sockets; callbacks into App |
| DU, state machine (`du-daq/src/du_fsm.h`, `dudaq_app.cpp`, `frontend.cpp`) | FSM state, mapped device, input thread | STOP, TERM, INIT, CONF, STAR | commands from App |
| DU, data path (`du-daq/src/data_manager.cpp`, `dudaq_app.cpp`) | outbound queue, T3 queue, ring of traces indexed by time stamp, T2 buffer | `addEvent`, `lastAddEvent`, `accept`, the queues | electronics in, central station out |
| FLT0 firmware (`FLT0/sig_det.v`) | signal detection registers | one step per sample | DU |
| Offline code (`FLT1`, `SLT`, `filters`, `add_sim_MD`, scripts) | none over time | simulation and analysis | files |

What is hard about it: four kinds of threads (DAQ threads, the trigger's
processing thread, the dispatch worker, the caller of the HTTP commands) meet
in objects with their own mutexes; two condition variables are shared by
waiters with different predicates or are notified without the mutex; deadlines
are kept redundantly and are looked at only when somebody calls; tags and
windows are reused; stragglers arrive after the decision; `stop` takes all of
it down while it is running. The complete list, line by line, is in
`PROJECT.json` under "hazards".

What makes each part correct:

- **Builder**: an event leaves once, with exactly the fragments that were asked
  for and arrived; it is not timed out early, and it is timed out; the books
  (events, fragments, loss telemetry) add up.
- **Gate**: a bucket that passed its deadline is frozen; a window is judged at
  most once per retention; marks are never stale; the deadline has a cap.
- **Pipeline**: every bucket is judged once, also while `stop` runs, and none
  is left lying unless a notification fell between test and sleep.
- **Dispatch and stop**: every decision is dispatched once and before the
  Builder stops; `stop` returns if the trigger's own stop does (finding 1).
- **CD queue and DataStore**: a completed event is handed to the store before
  the store is closed; its records lie in one shard; shards keep their limits,
  but for the bytes that a failed write leaves in a file;
  run numbers are not used again; nobody sleeps in a queue for ever.
- **Decision**: no coincidence is overlooked, the causal filter keeps a largest
  compatible set, no repeat of the last event accepted is accepted again.
- **Lifecycle**: whatever step of `start` fails, nothing started is left
  running; a DU that a successful start has reached runs with its
  configuration, whatever it did before; no order of commands kills a DU that
  got its STOP.
- **Frontend**: each packet put into the ring is handled once and in order;
  nobody uses the ring after it is gone; `stop` returns. That a packet does not
  get into a later run is meant (`frontend.h:44`) but not ensured (finding 3).
- **DU data path**: a DOTRIGGER is answered with the trace of its hit; no hit
  is told twice or out of order, under another second than its own, or lost but
  with its whole message on a full queue; a trigger waits in the queue no longer
  than until the worker looks at it.

## 2. Modules

| Module | Models | Reads as |
|---|---|---|
| `EventAssembly` | what the Builder promises, without tags, deadlines, heap, telemetry and order | abstract specification |
| `Builder` | `builder.cpp` | one action per outcome of each public method; every method harvests due events first, so the `Harvested...` operators appear in every action; the refinement mapping to `EventAssembly` is at its end |
| `MCBuilder`, `BuilderProofs` | | instance for TLC, and theorems about `Builder` |
| `GateLogic` | `trigger_processor_gate_logic.cpp` | `LateAtGuard`, `LateAtBucket` and `Admit` are the three outcomes of an ingress call; `PollReady`, `PopAllReady`, `ForcePop` are the egress calls |
| `MCGateLogic`, `GateProofs` | | instance, and theorems about `GateLogic` |
| `TriggerPipeline` | `addT2HitsBatch`, `processLoop`, `stop` | extends `GateLogic` and composes it with the threads: each step of a thread calls one gate action or touches `wake_epoch_`, `running_` or `cv_` |
| `MCTriggerPipeline` | | instance; the theorems about `TriggerPipeline` are in `GateProofs` |
| `Dotrigger` | DOTRIGGER queue, worker, `App::stop` up to the Builder | program counters `callback`, `dispatch`, `worker`, `main` say where each thread is; a block under `dotrigger_queue_mutex_` is one step |
| `MCDotrigger`, `DotriggerProofs` | | instance, and theorems about `Dotrigger` |
| `DataStore` | `data_store.cpp` | one action per outcome of each public method; the failures of the system's calls are outcomes of their own |
| `CdWriter` | CD queue, worker, the opening and closing of the store in `App::start` and `App::stop` | extends `DataStore` and composes it with the threads; `at` says where each of them is; the properties of both are here |
| `MCCdWriter` | | instance: threads and files together |
| `CdWriterProofs` | | theorems about the threads and the files of `CdWriter` |
| `CausalFilter` | the search in `include/t3_filter.h` | the loop of `bron_kerbosch` is a recursive function of its state, `branch`; the reference definition `IsLargestCompatible` is at the end |
| `TriggerDecision`, `MCTriggerDecision`, `DecisionProofs` | `processBucket`, `collectTriggerResults`, the filter's decision and history | one action per round of the loop over a bucket's hits, `Slide` or `Judge`; theorems about both modules |
| `DuFsm` | the DU's state machine, device and input thread | `Execute` takes the next command off the wire; `ReadUnmapped` and `Collides` are the ways the process dies |
| `AppLifecycle`, `MCAppLifecycle`, `LifecycleProofs` | `initialize`, `reloadYamlConfig`, `start`, rollback, `stop`, `terminate` of `app.cpp` | extends `DuFsm` and composes it with App; `job` says which command is under way, in which phase, and for which DUs it is still to do |
| `DuData`, `MCDuData`, `DuDataProofs` | `data_manager.cpp`, the queues of `dudaq_app.cpp` | one action per step of the readout thread, the network thread and the T3 worker; theorems |
| `Frontend`, `MCFrontend`, `FrontendProofs` | `frontend.cpp`, the receive thread of `comm.cpp`, the delimiting of packets in `data_handler.cpp` | program counters `recv`, `daq`, `app`; a block under `ring_mutex_` is one step |

State that has no counterpart in the code is marked "history" (what has
happened, for the properties) or "bound of the model" where it is declared.
The constants that end the state space are `MaxTime`, `MaxRegistered`,
`MaxUnmatched`, `MaxOpened`, `MaxBatches`, `MaxTags`, `MaxRaws`, `MaxFaults`,
`MaxBuckets` of `TriggerDecision` (in `GateLogic` it is the code's
`max_pending_buckets`), `MaxStarts`, `MaxMisses`, `MaxPowerCycles`, `MaxLag`,
`MaxEvents`, `MaxRuns`, `MaxTriggers`, `MaxBack`, `MaxChunks`, and `MostAtOnce`
(events completed by one call). Every module has a type invariant; those of
the larger modules were checked while the model was written and are not part
of the runs, the Builder's is. The Builder's and the gate's are proved as they
stand, the others as far as the inductive invariants contain them.

### Builder

`pending`, `heap` and `completed` are `pending_events_`, `deadline_heap_` and
`completed_events_`. `stat` holds the counters `start` does not reset, `run`
those it does. All methods run under one mutex, hence one action per call. A
call first pops all due heap entries; an entry counts only if the event it
names is pending with that same deadline (`Expired`). Events of equal deadline
may leave in either order, and `stop` flushes in the order of a hash map
(`AnyOrder`). The steady clock of deadlines and the wall clock of the loss
buckets are one clock `now`.

### Gate

Windows (`TmId`) are numbers because their order matters to the shadow
completion; hits are sets of stamps because the caller sorts them. The
statistics of the gate are left out, no decision reads them. The mark of a
bucket for want of room (`Overflow`) takes the earliest arrival, any of
several with equal arrival.

### Pipeline

`cv_` keeps its real granularity: the epoch is raised and `cv_` notified
without the mutex the waiter tests its predicate under. So `ProcCheck` (the
test) and `ProcBlock` (falling asleep) are two steps, and a notification in
between is lost. A wait of one millisecond (deadline 0) may end at any time.

### Dispatch

Three threads run in the model: "t3" (the processing thread in its callback),
"worker", and "main", the caller of `App::stop`, which also runs the callback
for the buckets the trigger still holds when it stops. `notify_one` wakes any
sleeper (`AfterNotifyOne`), whatever it waits for, and threads may wake for no
reason. `dotrigger_accept_` is read without the mutex (`ReadAccept` and the
enqueue are two steps). The stop of the trigger itself is in `TriggerPipeline`;
here it either joins the T3 thread (`JoinT3`) or hangs (`JoinT3Hangs`), and a
join that hangs ends, if ever, by a spurious wakeup (`JoinT3Late`). The wait of
30 s may give up at any moment
(`WaitTimesOut`): the model does not know how long a send takes. Of the
Builder only the awaited DUs of each tag are kept. Starting again after a stop
is not modelled here.

### CD queue and files

A DAQ thread ("loop") adds a fragment, drains the Builder ("drain") and queues
what it took ("push"); the drain takes what other threads have completed too.
`cd_write_cv_` has three kinds of waiters, the worker, the producers and
`App::stop`, and `notify_one` and `notify_all` go to all of them. `main` walks
through `start` or the way down, which a failed start and `stop` share
(`frontends`, `drain`, `quiesce`, `wait`, `join`, `notify`, `joining`,
`close`); the flag of shutdown is set under the mutex, its notification is a
step of its own. `StopFrontend` is the flag and the join of one frontend. The
stop of the trigger, which comes between the frontends and the Builder, is left
to `Dotrigger`: an `App::stop` that hangs there (finding 1) does not get to the
steps after it, and `CdWriter!StopReturns` is about one that does not.
`cd_write_accept_` is left out because nothing reads it.

A shard on `disk` is a record of its stream, run number, id, contents, size and
whether the time of its closing was patched into its header. Any call may fail
in one place (`Fault`): opening a directory or a file, writing a header or a
record, patching. A record whose write failed may have left any part of itself
in the file (`WithTorn`): `bytes` is the size of the file, `torn` how much of
it the counter `current_written` does not know of. `Crash` forgets the memory
and keeps the files: what stdio still buffers counts as written, so the model
says nothing of the tail of a shard after a crash. The fragments of one event
have equal size; daqMode 1 and 4, which write no CD data, are left out.

### Decision

The window over the sorted hits is kept by increments as in the code: its
hits, the hits per DU and the number of DUs are three variables, and
`AddHit`, `RemoveHit` and `Consumed` change them the way the code does, so that
they could drift apart. The causal search is translated with its order of
candidates, its pivot and its bound: `Search` is a call of `bron_kerbosch`,
`Branch` a round of its loop, and the recursion is through the state of the
loop, which a recursive function can be applied to. The template match is an
open answer.

### App and DUs

`wire[d]` holds the commands on their way to DU `d`: the commands are not
answered, so a DU may be far behind. A send may fail (`Miss`, `TellInVain`), a
transport may be taken away by the test hooks (`Invalidate`), closing the
sockets drops a tail of what ZeroMQ has not sent (`CloseSockets`), and a DU may
be switched off and on (`PowerCycle`). The local teardown is one step here; its
threads are in `Dotrigger`, `CdWriter` and `Frontend`. Only one command of the
operator is under way at a time, as `status_` is meant to ensure.

### DU data path

A cell of `ring.cells` is a stretch of bytes of the trace ring and holds the
number of the event stored there, so an answer tells whose bytes it was made
of. `ring.index` and `ring.slots` are `m_timestampIndex` and
`m_timestampRing`; the offset of an answer is computed from the size of the
latest event (`ring.raw`), as in the code. `worker` keeps the gap between the
test of the queue and the sleep, into which a push without the mutex may fall.
T2 messages carry a number (history): `told` lists what each was made of, `fate`
which of them were sent and which found `outQ` full.

### Frontend

A chunk in `ring` is one ZeroMQ payload: a packet, or bytes the handler finds
no header in and drops one at a time (`Rest`). The DAQ thread looks at the head
with the mutex, calls the handler without it, and consumes with it again
(`FirstLook`, `HandleAndConsume`); what App and the receive thread do in
between is possible in the model. A chunk remembers the run it arrived in
(history). App stops a running frontend (`StopBegin` to `StopClear`) or, rolling
back a start, one that was only configured (`StopUnstarted`).

## 3. Runs

| Run | Instance | Shows |
|---|---|---|
| `builder` | two configured DUs and a stray one, two tags, two registrations, five ticks, timeout two | all properties of the Builder, that it implements `EventAssembly`, and that events leave while calls keep coming |
| `gate` | two windows, two DUs of which one is expected, two stamps, capacity one, bounded sliding deadlines, two openings | the properties of the gate |
| `pipeline` | two DAQ threads, two windows, capacity one, two batches | buckets are accounted for also through `stop`, due buckets are judged unless a notification fell between test and sleep |
| `pipeline_stop` | one DAQ thread | `stop` may hang: finding 1 |
| `decision` | up to three buckets of four to six hits of four or five DUs, four configurations of the filters | no coincidence is overlooked, the causal search is exact, no repeat is accepted |
| `dotrigger` | one DU, queue of one, three decisions, one stop | decisions are dispatched once, before the Builder stops; `stop` returns, or hangs where finding 1 says |
| `cd` | two DAQ threads, queue of one, four events (one empty, one too large), shards of four units of records or one event key, two L1 records, two starts, one fault, crashes | nothing is left unwritten when the store is closed, nobody sleeps through what it waits for, `stop` returns (the trigger's own stop aside); records of an event stay together, keys and sizes of shards with what a failed write leaves, fresh run numbers |
| `lifecycle` | two DUs, two starts, two commands on a wire, two missed sends or lost transports, one power cycle | what is left after each command, of App and of the DUs |
| `du_data` | ring of five cells, events of two, three time stamps in seconds of two, two runs in modes 2 and 3, four events, two triggers | answers are the traces asked for, recent traces are found, hits are told once but for dropped messages, triggers are taken unless overslept |
| `du_trace` | the same, events of two or of three cells | after a change of the trace length answers are wrong: finding 2 |
| `frontend` | ring of four bytes, five chunks of one to three bytes, three runs | packets in the ring are handled once and in order, the ring outlasts its users, `stop` returns |
| `frontend_runs` | the same | a packet may be handled in the run after its own: finding 3 |

Why these bounds are enough to be of interest. Two tags and two registrations
let a tag be reused while the heap holds the entry of its first event, and let
two events be pending, due and flushed together; five ticks let an event be
registered, completed, registered again and time out; ring and retention are
small enough to overflow and prune. With capacity one and two windows every
second bucket is marked for an early pop; two openings let two buckets be
pending together, or one window be popped, guarded, released and opened again.
The dispatch queue of one is full after one decision, so that with three
decisions one is being sent, one is queued and one overflows or waits. In
`cd` a drain may take more events than the queue has room for, two producers may
wait at once, and a second start follows a stop, a failed start or a crash; two
events of one key do not fit into one shard, a third has another key, so that
shards change for their size and for their keys; and the one fault lets a
rotation fail, or tears a record and leaves bytes behind which the next event
passes the limit. That two faults do no more harm is left to the proofs. In
`decision` buckets of six hits hold several windows that compete for hits, sets
of compatible hits that compete within one window, two hits of one DU, pairs
without a known distance, and a window past the bypass; three buckets let an
event, its repeat and the repeat of the repeat follow each other, with a
history of one. In `lifecycle` a second start follows a stop, a terminate, a
failed start or a reload, while DUs are behind and have missed one command or
two; `MaxLag` of two lets a STOP and a TERM be on the way together. In
`du_data` the third event wraps around the ring and the leftover cell, the
buffer of T2 hits is compressed, `outQ` with room for two overflows, and the
clock may step back once; a trigger may be overslept, and the second come while
the worker sleeps or works. In
`frontend` chunks overflow the ring, are garbage and packets, and a stop cuts
off a run whose last payload is still in the hands of the receive thread, where
it may stay until the next run has begun.

For each property one definition of the model has a mutated twin (named in a
comment "Mutant" in the modules, "mutants" in `PROJECT.json`), a plausible error
in the code, which violates the property under the same bounds. The largest
runs have about 1,020,000 (`du_data`) and 870,000 (`lifecycle`) distinct
states; every run ends within about two minutes on two cores.

`CHECK_DEADLOCK FALSE` is set where a system may really stop: after `stop`
returned, or when the clock and the inputs of the model are used up.

### Fairness

- `Builder!FairSpec`: time passes, and `drainCompleted` or `drainDiagnostics`
  is called again and again. DAQ threads call `drainCompleted` after every
  fragment (`app.cpp` 1152-1159), so this holds while DUs send; without
  traffic it does not, see section 4.
- `PipeFairSpec`: every thread that can run runs. The thread in `wait_until`
  needs strong fairness for its timeout, because a spurious wakeup disables it
  for a moment.
- `Dotrigger!FairSpec`: the same, strong fairness for the send mutex, for
  which two threads may compete, and the waits of 30 s end when nothing else
  ends them. Decisions, answers, spurious wakeups and the operator's stop are
  never owed, nor is the end of a join that hangs (`JoinT3Late`): `StopReturns`
  says that `stop` ends or hangs there and nowhere else, and gets to its end
  once that join has.
- `CdWriter!FairSpec`: producers, the worker and the thread in `stop` run.
  Fragments, starts, spurious wakeups, the 30 s limit and crashes are never
  owed; in particular `StopReturns` does not need the limit.
- `AppLifecycle!FairSpec`: a command that has begun goes on, and a living DU
  works through its commands (its network thread does nothing else meanwhile).
  `StopsWhenTold` excludes DUs a STOP could not be sent to, and speaks of
  `App::stop` only: a failed start closes the transports behind its STOP.
- `DuData!FairSpec`: the T3 worker is scheduled and gets the mutex; the readout
  thread sleeps between two events. Triggers are never owed, so an overslept one
  may wait for ever (`Overslept` is an outcome of `TriggersAreTaken`).
- `Frontend!FairSpec`: the two threads and the App's call go on. Arrivals are
  bounded by the model, which is why `StopReturns` is claimed only for a DU
  that does not send for ever: the inner loop of the DAQ thread does not look
  at `running_`.

## 4. Findings

1. `trigger_processor_pipeline.cpp:88` (run `pipeline_stop`): `stop` changes
   `running_` and notifies without the mutex; the processing thread may fall
   asleep just then and `stop` waits in `join` for ever, if there is no pending
   bucket whose deadline wakes it. `trigger_pipeline.h:71` says that `stop`
   ends the thread and drains the rest.
2. `du-daq/src/data_manager.cpp:452` (run `du_trace`): the slot of a trace is
   computed with the size of its event, the offset of an answer with the size
   of the latest event. When a new configuration has changed the trace length,
   a DOTRIGGER for a hit of the run before is answered with bytes of other
   events, although the time stamp in the slot says that the trace "has not
   been refreshed yet" (the comment at `data_manager.cpp:451`).
3. `frontend.cpp:103` (run `frontend_runs`): `frontend.h:44` says that what
   arrives after `stop` does not enter the ring, which is cleared, so that no
   packet passes from one `App::start()` into the next. A payload that
   `recvLoop` (`comm.cpp:329`) has read and holds outside of any lock is in
   neither: if the thread gets on only after the next `configure` has opened the
   ring, the packet is handled in that run.

What follows violates no statement of the code base, but is worth knowing; the
model shows it or was written around it.

Central station, trigger and events:

- Deadlines of the Builder are looked at only inside calls (`builder.cpp:335`):
  without traffic an event outlives its timeout.
- At `max_pending_buckets` the bucket with the earliest arrival is marked,
  again and again the same one (`trigger_processor_gate_logic.cpp:166`); until
  the thread pops it, buckets pile up beyond the number.
- In the deadline mode `LastArrivalLegacy`, the default, each progress moves
  the deadline to its own time plus the timeout and `timeout_cap_ns` is not
  looked at; `CloseWithinCap` is checked and proved for the modes based on the
  first arrival.
- DOTRIGGER is sent before the event is registered (`app.cpp:1058`); a fast
  answer is counted unmatched and dropped.
- `notify_one` may wake `App::stop` in place of the dispatch worker
  (`app.cpp:1148`); both then sleep until the 30 s limit.
- `App::stop` stops the frontends before the trigger: decisions that the
  trigger's stop still produces are dispatched, but nobody reads the answers.
- A candidate that the causal filter rejects consumes all hits of its window:
  noise can mask an event that a later window would have shown.
- Pair differences are taken in the order of arrival while the key of a pair
  is ordered by DU (`t3_filter.h` 41 and 119), so they are never positive; two
  wave fronts from opposite directions can look like repeats.
- An event equal to the last but one accepted is not recognised, only one
  equal to the last or to a rejected repeat; a shower across the change of a
  second is split over two buckets; `resetDuplicateHistory` and
  `seedDuplicateHistory` have no caller; the tie rule of `bron_kerbosch`
  between sets of equal size is dead code.

Central station, files and commands:

- After an `fwrite` that failed (`data_store.cpp` 453-463) a torn record stays
  in the file while `current_written` does not know of it. Later events go behind
  it into the same shard, which may pass `max_file_size_bytes` by the torn bytes
  (`ShardsWithinLimits` says by no more), and a reader that goes by the lengths
  in the record headers does not find them.
- After a rotation that failed, the stream has no file: later events are
  refused until the next rotation for the number of keys, or the next start
  (`CdNoFile`).
- The scan for the next run number finds only files whose name has `MD_` or
  `CD_` (`data_store.cpp:64`), which the shipped `sysconfig.yaml` has and the
  default tags `L1` and `L3` (`app.cpp:470`) have not: with the defaults every
  start uses run 1 and 10001 again. `RunNumberFresh` is checked with
  `Matching`, the streams the scan finds, equal to both.
- `ZMQ_LINGER` is 0: a rollback or terminate that closes the sockets may drop
  the STOP or TERM it has just sent.
- Commands arrive on the threads of the HTTP server and test `status_` without
  a lock (`app.cpp:642`); `AppLifecycle` takes one at a time.
- `Frontend::stop` may never return while a DU floods the ring, because the
  inner loop does not look at `running_`. A DU that is still RUNNING sends into
  the ring as soon as `configure` opens it.

Detection unit:

- A DU that missed its STOP and then gets TERM unmaps the device under its
  input thread and dies in an assertion (`scope_a.cpp:123`); one that missed
  its TERM stays CONFIGURED, ignores INIT and CONF, and runs with the old
  registers.
- Duplicate time stamps: when the slot of the older event is reused, the index
  entry of the newer one goes with it.
- `addEvent` and `lastAddEvent` take hits for sent when their message is dropped
  on a full `outQ` (`data_manager.cpp:355`, `dudaq_app.cpp:198`).
- In mode 3 a stop does not send the last hits; they wait for the next run's.
- `enqueueT3Trigger` and the worker use the deque without a common mutex
  (`dudaq_app.cpp:263`); the model treats its two ends as atomic.

## 5. Proofs

All theorems hold for every value of the constants: any finite sets of DUs,
tags, windows, threads or events, any limits and any bound of the model. Each
module declares what it assumes of its constants as one named assumption:
`BuilderConstants`, `GateConstants`, `DotriggerConstants`, `WriterConstants`
with `StoreConstants`, `LifecycleConstants`, `FrontendConstants`,
`DuDataConstants`, `DecisionConstants`. They state ranges the constructors
establish by clamping or the configuration has (sizes are positive, a DU is a
number, a bucket is a finite set of hits). Two parts are more than a range. A
shard has room for its own header (`MaxFileSize = 0 \/ HeadSize <=
MaxFileSize`); the header has 256 bytes, and the limit is given in MiB
(`app.cpp:474`, `data_store.cpp:18`). And the DU has more slots for time stamps
than traces fit into its ring, which the comment at `data_manager.h:35` asks
for. Four theorems have a hypothesis of their own: `RunsAreFresh` needs
`Streams \subseteq Matching`, `TelemetryAgrees` needs `RetentionCovers`, and
`AnswersProved` and `RecentTracesFound` need `OneSize(sz)`. Each is explained
below, and without it the theorem is false.

Each module of proofs states an inductive invariant, shows that the initial
states have it, one lemma per action that a step keeps it, and derives its
theorems. The invariants were checked by TLC before they were proved.

**Builder** (`BuilderProofs`). `IInv` strengthens `TypeOK` with what each action
needs of the events it touches: a pending event heard only DUs it asked but not
all of them, its fragments are exactly the DUs it heard, none twice
(`PendingEventOK`); registration numbers of events that are pending, completed
or drained are different and smaller than the next one; every pending event has
its entry in the heap. `OutputExact` is not inductive without the first of these
(the output is built from the pending event), `EmittedOnce` not without the
second. `HarvestStep` proves once what harvesting keeps, and every action
builds on it: `TypeCorrect`, `DeadlinesNeverLost`, `OutputsAreExact`,
`OutputsAreUnique`, and the action property `NeverEarly`.

- `BooksBalance` counts: `HarvestSplits` divides what is pending and awaited
  into expired and live, `HarvestBalances` shows that harvesting moves the first
  part to the timeout counters, and each action's lemma adds its own part.
- `TelemetryAgrees` needs `LossInv`: what pending events still wait for is
  covered by the expected fragments, of the run and of each bucket, and the
  bucket an event was booked on at its registration is still there. The latter
  needs that a bucket is kept for longer than an event may stay pending:
  `RetentionCovers`, which the code's numbers meet by far (15 s in
  `app.cpp:460`, buckets of 300 s kept for 48 h in `builder.cpp` 6-7). With a
  retention shorter than the timeout TLC shows a bucket with more missing than
  expected fragments.
- `BuilderImplementsAssembly` shows that each action is a step of
  `EventAssembly` under the mapping at the end of `Builder`. Its core is that an
  order of outputs lists every event it should and no other (`OrderListsAll`, a
  pigeonhole argument), so that forgetting the order loses nothing
  (`ReadyOfPartials`), and that two events never share a number, so that the
  map from numbers to events is well defined (`OpenEventsAre`).

**Gate** (`GateProofs`). `GInv` is the type invariant, the three state
properties `ReadyIsDue`, `OpenIsUnguarded`, `ShadowExact`, and `GuardLasts`:
while the retention of a window that timed out lasts, its guard is present and
no shorter, although the guard is also written by stragglers. Without it
`TimedOutStaysClosed` would not follow. `NextCases` reduces the ingress calls to
their three outcomes; `PopGuard` is shared by both pops: `GateTypeCorrect`,
`MarksAreDue`, `OpenWindowsTakeHits`, `ShadowMarksAreExact`, `StaysClosed`,
`Frozen`, `ClosesWithinCap`.

**Pipeline** (`GateProofs`, second part). `PipelineImplementsGate`: every step
of a thread is a step of the gate or leaves the gate alone, so what is proved
of the gate holds in the pipeline (`PipelineJudgesAWindowOnce`). `NoBucketLost`
needs that bucket numbers differ wherever buckets are kept (`Numbered`) and
that the processing thread holds nothing when it pops, since popping overwrites
what it holds (`ThreadOrder`); the same order shows that `stop` drains only
after its join.

**Dispatch** (`DotriggerProofs`). `HeldOnce`, `SentOnce`: no decision is twice
in the hands of threads. `OneAtATime`: a thread does not send while it is in
another call, and a worker that sends is counted in flight. `StopOrder`: how far
`App::stop` is tells which threads are left, and a worker that has exited left
the queue empty. From these, `NoneLostNorRepeated` and
`BuilderStopsLast`, whichever of the waits of 30 s gave up.

**CD queue and files** (`CdWriterProofs`). For the threads,
`QInv`: what is owed to the store is in the Builder, in a hand or in the queue
(`OwedIsHeld`), a hand is empty where the program says so, `StopOrder` tells
what each step of `start` and `stop` may rely on, and sleepers are at the three
waits (`AsleepWhere`). `ClosedWithNothingOwed` does not need the wait of 30 s to
end in time: the join does it. For the files, `StoreInv` relates streams and
shards: an open stream counts the bytes of the shard it has open but for the
torn ones (`Counted`), which only failed writes add (`TornBehind`, `TornShard`),
the records of an event lie in one shard, the keys counted are those of the
events in it. It is inductive only
together with the fact that an event is on its way once (`InFlightOnce`) and
has no record before it is written (`Fresh`), which come from the threads; hence
`WriterInv`. Proved: `NoEventIsSplit`, `ShardsStayWithinLimits`,
`FoundRunsRise`, and `RunsAreFresh` under `Streams \subseteq Matching`: the
scan finds the files of both streams, which holds for the names of the shipped
`sysconfig.yaml` and not for the defaults (see section 4).

**Lifecycle** (`LifecycleProofs`). `LocalInv` says what App is in each phase of
each command and gives `StatusIsTrue`. The DUs are followed by what the commands
on their wires will do to them, `WireInv`. `CalmInv`: a DU that got every STOP
never meets a TERM while RUNNING (`Tame`), and is not RUNNING at the end of its
wire when App has stopped it (`MustHalt`, `Halted`); it gives
`OnlyTheUnstoppedDie`. `StartInv`: of the commands of this start a DU has taken
the first m, and the rest are the end of its wire, in order; it gives
`StartedDusRun`.

**Frontend** (`FrontendProofs`). `FInv`: the phases of the three threads
(`Phases`), the chunk in the handler is the head of the ring (`AtHead`), chunks
are numbered in the order they came (`Ordered`), what was handled is a prefix of
what was taken, and while the ring accepts, the packets in it are the rest
(`Books`). Proved: `NoPacketIsLostInTheRing`, `RingOutlivesItsUsers`.

**DU data path** (`DuDataProofs`). While traces have one size they lie side by
side, and the ring is a table of slots: `RingInv` says that each slot holds the
whole trace of one event (its `Owner`) together with its time stamp
(`EachSlot`), that no event has two slots (`OneSlotEach`), that an index entry
leads to a slot with that time stamp (`Indexed`), and that the latest events lie
in the slots behind one another, backwards from the offset, with the index
leading to those whose time stamp came once (`Recent`). `StoreKeepsRing` shows
that `appendRingBuffer` keeps it; the arithmetic of slots and offsets is in
`SideBySide`, `SlotOfOffset` and `CellsOf`. An answer waiting in the queue shows
the trace it was copied from (`OutInv`), whatever is overwritten later:
`AnswersProved`, `RecentTracesFound`. The hypothesis `OneSize(sz)` says that no
configuration changes the trace length; without it the run `du_trace` refutes
the first (finding 2). `EveryHitTold` and `DuDataTypes` need no such hypothesis.
`TellInv` says that the messages end to end, followed by what waits, are the
time stamps of all events, and that what waits lies within a second;
`MessagesKept` that the numbers of the messages sent, followed by those in the
queue, rise, and are all but the dropped ones.
`FlattenSeq` is a recursive function: that its equation has one solution is
`FlatIsUnique` (by a least counterexample), and the invariant carries that it
has one, which `FlattenAppends` extends by a message.

**Decision** (`DecisionProofs`). Three arguments, for any buckets, window and
file of distances.

- *The search.* `Search` and `Branch` call each other through a recursive
  function of the loop's state. `Recursion` shows that its equation has a
  solution, because each recursive call makes the loop smaller (`Size`, what is
  still to be added together with the nodes left of the round), and gives
  induction over it. The contract of a loop (`Ready`, `Covers`, `LoopCovers`)
  says that what it returns is compatible, no smaller than what was best before,
  and no smaller than any compatible set that the loop has not left out.
  `PivotJoins` is why the neighbours of the pivot need not be tried: a set
  without the pivot and without its other non-neighbours can be enlarged by the
  pivot, so it is not a largest. The bound cuts off only what could not be
  larger. `SearchFindsLargest`, and for the filter `KeepsLargest`, whose
  invariant `JudgedInv` says of each verdict what it was judged by.
- *The window.* `ScanInv`: the hits are sorted and different; the window is the
  stretch from `i` to before `jEnd`, its counts are those of its hits
  (`Tallies`, kept by `AddTallies` and `RemoveTallies`), and it spans no more
  than `Window` (`RunningCounts`). `jEnd` never lags behind `i`: the branch of
  the code for it is not taken. `FindsEveryCoincidence` speaks only of the end
  of the scan; what carries it is `MetInv`: every coincidence with a hit
  behind the scan has met a candidate, and candidates lie behind the scan and
  are disjoint. `FindsCoincidences`.
- *Repeats.* `RepeatInv`: the differences the filter keeps in `prev` and `past`
  are those of the selections the history variables keep. With one hit for each
  DU (`OneHitEach`), and since a selection is in the order of time, the
  difference of a pair is minus the time between its hits (`DiffIs`): the key
  forgets the order of the DUs, and the sign says nothing of it either, but
  equal signed times give equal differences, so what is the same front is
  similar (`FrontsAreSimilar`). `RejectsRepeats` is about every verdict that
  accepts (`Accepts`), so also about an exact copy of the last accepted event.
  The converse is false (see section 4).

Only model-checked:

- Liveness (`EventLeaves`, `HandledUnlessOverslept`, `AlwaysDispatched`,
  `StopReturns`, `StopsWhenTold`, `TriggersAreTaken`): it needs fairness and
  ENABLED, which the prover does not handle.
- The type invariants of the modules other than `Builder`, `GateLogic` and
  `DuData` are not properties of a run and have no theorem of their own; what
  the proofs need of them is part of the inductive invariants.

## 6. Plan

1. Proofs: the wire of a DU (`DuFsm`), and the weaker promise that answers keep
   when trace lengths change; the modules of proofs share lemmas (`LeastNumber`,
   `Among`, `IsPrefix`), which could become a module of their own.
2. `T2Path`: what a hit goes through before it reaches the gate
   (`process_t2_payload`): the reconstruction of its second and the optional
   filters.
3. `SigDet`: the state machine of the firmware's signal detection against a
   reference definition over short sequences of samples.

## 7. Not modelled

Configuration files, HTTP handlers, trace files, byte layouts, firmware
register access and neural inference have no behaviour over time to check.
Floating point algorithms (template correlation, the geometry behind the
causal filter's delays) and the offline scripts are out of TLC's reach or
sequential; most of the repository by lines is the vendored Eigen library and
such scripts and headers. The frames of a ZeroMQ message are handled inside
libzmq. Every part is listed with its reason in `PROJECT.json` under
"components".
