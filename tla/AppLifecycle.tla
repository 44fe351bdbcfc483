---------------------------- MODULE AppLifecycle ----------------------------
(***************************************************************************)
(* The commands of the operator (initialize, reloadYamlConfig, start,      *)
(* stop, terminate) in grand-daq/src/app.cpp, composed with the state      *)
(* machines of the detection units (DuFsm).                                *)
(*                                                                         *)
(* The App carries out one command at a time.  start brings up the data    *)
(* store, trigger, Builder and frontends and then walks the DUs through    *)
(* STOP, TERM, INIT, CONF and STAR.  It tolerates DUs that cannot be       *)
(* reached, unless nobody is; when it fails it rolls back.  stop, the      *)
(* rollback and terminate send STOP once to each DU, whatever comes of it, *)
(* and tear down the local objects.                                        *)
(*                                                                         *)
(* Abstractions.  How the local objects are torn down, and against which   *)
(* threads, is in Dotrigger and CdWriter: here it is one step.  The        *)
(* attempts of startupControlPlaneSendWithRetry are one send that succeeds *)
(* or fails.  A command is on a DU's wire once ZeroMQ has taken it;        *)
(* closing a socket (ZMQ_LINGER is 0) drops the last ones it has not sent. *)
(***************************************************************************)
EXTENDS DuFsm, FiniteSetsExt

CONSTANTS
  MaxStarts, \* bound of the model: calls of start
  MaxMisses, \* bound of the model: sends that fail, and transports taken away
  MaxLag     \* bound of the model: commands a living DU has not taken yet

ASSUME LifecycleConstants ==
  /\ IsFiniteSet(DU) /\ DU # {} /\ DU \subseteq Nat
  /\ MaxStarts \in Nat /\ MaxMisses \in Nat /\ MaxPowerCycles \in Nat
  /\ MaxLag \in Nat \ {0}

VARIABLES
  status,    \* status_
  job,       \* the command being carried out, and how far it is
  link,      \* per frontend: recv_loop_running_ of its ZmqComm
  daq,       \* per frontend: running_, its DAQ thread
  store,     \* the DataStore is open
  trigger,   \* t3_trigger_ and the workers exist
  builder,   \* the Builder is started
  run,       \* calls of start so far
  misses,    \* bound of the model: failed sends and lost transports so far
  missed,    \* history: DUs that have missed a command of the present start
  unstopped  \* history: DUs a STOP could once not be sent to

local   == <<link, daq, store, trigger, builder>>
history == <<misses, missed, unstopped>>
vars == <<duVars, status, job, local, run, history>>

\* of: the command; at: the step it is in; todo: the DUs the step still has
\* to deal with; good: the step has reached a DU; bad: it has failed to
NoJob == [of |-> "none", at |-> "none", todo |-> {}, good |-> FALSE, bad |-> FALSE]
Go(of, at) == [of |-> of, at |-> at, todo |-> DU, good |-> FALSE, bad |-> FALSE]

Init ==
  /\ DuInit
  /\ status = "idle" /\ job = NoJob
  /\ link = [d \in DU |-> FALSE] /\ daq = [d \in DU |-> FALSE]
  /\ store = FALSE /\ trigger = FALSE /\ builder = FALSE
  /\ run = 0 /\ misses = 0
  /\ missed = {} /\ unstopped = {}

At(of, at) == job.of = of /\ job.at = at
\* The frontends are kept in the order of their ids.
Turn(d)    == job.todo # {} /\ d = Min(job.todo)
Dealt(d)   == [job EXCEPT !.todo = @ \ {d}]

\* App::initialize builds the objects; when it throws, nothing is left.
Initialize ==
  /\ job = NoJob /\ status = "idle"
  /\ status' = "initialized"
  /\ UNCHANGED <<duVars, job, local, run, history>>

-----------------------------------------------------------------------------
(***************************************************************************)
(* start: the local part                                                   *)
(***************************************************************************)
StartBegin ==
  /\ job = NoJob /\ status = "initialized" /\ run < MaxStarts
  /\ status' = "starting" /\ job' = Go("start", "open")
  /\ run' = run + 1 /\ missed' = {}
  /\ UNCHANGED <<duVars, local, misses, unstopped>>

\* Whatever throws in start leads to rollbackStartedLocalNoexcept.
Fail == job' = Go("start", "tell")

OpenStore ==
  /\ At("start", "open")
  /\ \/ store' = TRUE /\ job' = Go("start", "bind")
     \/ store' = FALSE /\ Fail
  /\ UNCHANGED <<duVars, status, link, daq, trigger, builder, run, history>>

\* createAndBindT3TriggerForRun may throw; then builder_->start
BindTrigger ==
  /\ At("start", "bind")
  /\ \/ trigger' = TRUE /\ builder' = TRUE /\ job' = Go("start", "configure")
     \/ Fail /\ UNCHANGED <<trigger, builder>>
  /\ UNCHANGED <<duVars, status, link, daq, store, run, history>>

\* Frontend::configure: ZmqComm::start finds its sockets open after a stop,
\* else it connects, which may fail.
ConfigureFrontend(d) ==
  /\ At("start", "configure") /\ Turn(d)
  /\ \/ link' = [link EXCEPT ![d] = TRUE] /\ job' = Dealt(d)
     \/ ~link[d] /\ Fail /\ UNCHANGED link
  /\ UNCHANGED <<duVars, status, daq, store, trigger, builder, run, history>>

StartFrontend(d) ==
  /\ At("start", "launch") /\ Turn(d)
  /\ daq' = [daq EXCEPT ![d] = TRUE] /\ job' = Dealt(d)
  /\ UNCHANGED <<duVars, status, link, store, trigger, builder, run, history>>

-----------------------------------------------------------------------------
(***************************************************************************)
(* start: sendStartupBroadcastCmd and sendStartupConfPerDu                 *)
(***************************************************************************)
\* Mutant: TERM before STOP.
PhaseTermFirst ==
  [configure |-> "launch", launch |-> "TERM", TERM |-> "STOP", STOP |-> "INIT",
   INIT |-> "CONF", CONF |-> "STAR", STAR |-> "running"]

Phase == [configure |-> "launch", launch |-> "STOP", STOP |-> "TERM", TERM |-> "INIT",
          INIT |-> "CONF", CONF |-> "STAR", STAR |-> "running"]

\* A send fails when DOTRIGGERs have filled the queue of the socket.
Post(d, c) == /\ link[d] /\ (du[d].alive => Len(wire[d]) < MaxLag)
              /\ wire' = [wire EXCEPT ![d] = Append(@, [cmd |-> c, run |-> run])]
Fails(d)   == link[d] /\ misses < MaxMisses /\ misses' = misses + 1

Deliver(d) ==
  /\ job.of = "start" /\ job.at \in Commands /\ Turn(d)
  /\ Post(d, job.at)
  /\ job' = [Dealt(d) EXCEPT !.good = TRUE]
  /\ UNCHANGED <<du, cycles, status, local, run, history>>

\* All attempts fail: the DU is skipped.
Miss(d) ==
  /\ job.of = "start" /\ job.at \in Commands /\ Turn(d) /\ Fails(d)
  /\ missed' = missed \cup {d}
  /\ unstopped' = IF job.at = "STOP" THEN unstopped \cup {d} ELSE unstopped
  /\ job' = [Dealt(d) EXCEPT !.bad = TRUE]
  /\ UNCHANGED <<duVars, status, local, run>>

\* A transport that is not ready aborts the start.
FindNoTransport(d) ==
  /\ job.of = "start" /\ job.at \in Commands /\ Turn(d) /\ ~link[d]
  /\ Fail
  /\ UNCHANGED <<duVars, status, local, run, history>>

\* The pre-clean phases STOP and TERM may reach nobody, the others may not.
Unreached == job.at \in {"INIT", "CONF", "STAR"} /\ job.bad /\ ~job.good

\* Mutant: the DUs are not brought back to IDLE before INIT.
NextPhaseNoTerm ==
  /\ job.of = "start" /\ job.at \in DOMAIN Phase /\ job.todo = {}
  /\ IF Unreached THEN Fail /\ UNCHANGED status
     ELSE IF Phase[job.at] = "running" THEN status' = "running" /\ job' = NoJob
     ELSE /\ job' = Go("start", IF job.at = "STOP" THEN "INIT" ELSE Phase[job.at])
          /\ UNCHANGED status
  /\ UNCHANGED <<duVars, local, run, history>>

NextPhase ==
  /\ job.of = "start" /\ job.at \in DOMAIN Phase /\ job.todo = {}
  /\ IF Unreached THEN Fail /\ UNCHANGED status
     ELSE IF Phase[job.at] = "running" THEN status' = "running" /\ job' = NoJob
     ELSE job' = Go("start", Phase[job.at]) /\ UNCHANGED status
  /\ UNCHANGED <<duVars, local, run, history>>

\* Closing the sockets of S: what they have not sent yet is dropped.
Prefixes(w) == {SubSeq(w, 1, n) : n \in 0..Len(w)}

CloseSockets(S) ==
  /\ wire' \in [DU -> UNION {Prefixes(wire[d]) : d \in DU}]
  /\ \A d \in DU : IF d \in S THEN wire'[d] \in Prefixes(wire[d]) ELSE wire'[d] = wire[d]

Linked == {d \in DU : link[d]}

\* The hooks control_plane_test_invalidate_before_..._du_ take the transport
\* of one DU away before STOP, INIT or STAR.
Invalidate(d) ==
  /\ job \in {Go("start", p) : p \in {"STOP", "INIT", "STAR"}} /\ link[d]
  /\ misses < MaxMisses /\ misses' = misses + 1
  /\ link' = [link EXCEPT ![d] = FALSE] /\ CloseSockets({d})
  /\ UNCHANGED <<du, cycles, status, job, daq, store, trigger, builder, run, missed, unstopped>>

-----------------------------------------------------------------------------
(***************************************************************************)
(* stop, terminate, and the rollback of start                              *)
(***************************************************************************)
StopBegin ==
  /\ job = NoJob /\ status = "running"
  /\ status' = "stopping" /\ job' = Go("stop", "tell")
  /\ UNCHANGED <<duVars, local, run, history>>

TerminateBegin ==
  /\ job = NoJob
  /\ \/ status = "running" /\ job' = Go("terminate", "tell") /\ UNCHANGED status
     \/ status = "initialized" /\ job' = Go("terminate", "TERM") /\ status' = "terminating"
  /\ UNCHANGED <<duVars, local, run, history>>

\* stopNetworkLegacyCommandBestEffort("STOP"), and terminate's sends of TERM:
\* one attempt per DU, a failure is only logged.
Told == IF job.at = "tell" THEN "STOP" ELSE "TERM"
Telling(d) == (job.at = "tell" \/ At("terminate", "TERM")) /\ Turn(d)

Tell(d) ==
  /\ Telling(d)
  /\ Post(d, Told) /\ job' = Dealt(d)
  /\ UNCHANGED <<du, cycles, status, local, run, history>>

TellInVain(d) ==
  /\ Telling(d) /\ Fails(d)
  /\ unstopped' = IF Told = "STOP" THEN unstopped \cup {d} ELSE unstopped
  /\ job' = Dealt(d)
  /\ UNCHANGED <<duVars, status, local, run, missed>>

CannotTell(d) ==
  /\ Telling(d) /\ ~link[d]
  /\ job' = Dealt(d)
  /\ UNCHANGED <<duVars, status, local, run, history>>

\* stopLocalPipelineNoexcept, resetT3TriggerNoexcept, stopBuilderNoexcept, the
\* quiescence of the CD writes and DataStore::close
Down ==
  /\ daq' = [d \in DU |-> FALSE]
  /\ store' = FALSE /\ trigger' = FALSE /\ builder' = FALSE

Unlink == link' = [d \in DU |-> FALSE] /\ CloseSockets(Linked)

\* Mutant: the rollback leaves the transports up.
RollbackLinked ==
  /\ At("start", "tell") /\ job.todo = {}
  /\ Down /\ UNCHANGED <<link, wire>>
  /\ status' = "initialized" /\ job' = NoJob
  /\ UNCHANGED <<du, cycles, run, history>>

Rollback ==
  /\ At("start", "tell") /\ job.todo = {}
  /\ Down /\ Unlink
  /\ status' = "initialized" /\ job' = NoJob
  /\ UNCHANGED <<du, cycles, run, history>>

\* The transports stay up for the next start.
StopEnd ==
  /\ At("stop", "tell") /\ job.todo = {}
  /\ Down /\ UNCHANGED <<link, wire>>
  /\ status' = "initialized" /\ job' = NoJob
  /\ UNCHANGED <<du, cycles, run, history>>

TerminateDown ==
  /\ At("terminate", "tell") /\ job.todo = {}
  /\ Down /\ status' = "terminating" /\ job' = Go("terminate", "TERM")
  /\ UNCHANGED <<duVars, link, run, history>>

\* frontends_.clear(), builder_.reset() and the others
TerminateEnd ==
  /\ At("terminate", "TERM") /\ job.todo = {}
  /\ Down /\ Unlink
  /\ status' = "idle" /\ job' = NoJob
  /\ UNCHANGED <<du, cycles, run, history>>

\* reloadYamlConfig: new objects take the place of the old; when it throws,
\* the old ones stay.  The DUs are taken to be the same.
Reload ==
  /\ job = NoJob /\ status = "initialized"
  /\ Unlink
  /\ UNCHANGED <<du, cycles, status, job, daq, store, trigger, builder, run, history>>

-----------------------------------------------------------------------------
Command == StartBegin \/ StopBegin \/ TerminateBegin \/ Initialize \/ Reload

StartStep ==
  \/ OpenStore \/ BindTrigger \/ NextPhase \/ Rollback
  \/ \E d \in DU : ConfigureFrontend(d) \/ StartFrontend(d) \/ Deliver(d) \/ Miss(d)
                     \/ FindNoTransport(d) \/ Invalidate(d)

TellStep ==
  \/ \E d \in DU : Tell(d) \/ TellInVain(d) \/ CannotTell(d)
  \/ StopEnd \/ TerminateDown \/ TerminateEnd

\* The DUs; a DU that was started afresh has missed what came before.
DuStep(d) ==
  /\ Execute(d) \/ ReadUnmapped(d)
  /\ UNCHANGED <<status, job, local, run, history>>

DuLosesPower(d) ==
  /\ PowerCycle(d)
  /\ missed' = missed \cup {d}
  /\ UNCHANGED <<status, job, local, run, misses, unstopped>>

Next ==
  \/ Command \/ StartStep \/ TellStep
  \/ \E d \in DU : DuStep(d) \/ DuLosesPower(d)

Spec == Init /\ [][Next]_vars

(***************************************************************************)
(* The DUs work through their commands, and a command of the operator that *)
(* has begun goes on.  No command, fault or power cycle is ever owed.      *)
(***************************************************************************)
FairSpec ==
  /\ Spec
  /\ \A d \in DU : WF_vars(DuStep(d))
  /\ WF_vars(StartStep \/ TellStep)

-----------------------------------------------------------------------------
(***************************************************************************)
(* Properties                                                              *)
(***************************************************************************)
TypeOK ==
  /\ DuTypeOK
  /\ status \in {"idle", "initialized", "starting", "running", "stopping", "terminating"}
  /\ job \in [of : {"none", "start", "stop", "terminate"},
              at : {"none", "open", "bind", "configure", "launch", "tell"} \cup Commands,
              todo : SUBSET DU, good : BOOLEAN, bad : BOOLEAN]
  /\ link \in [DU -> BOOLEAN] /\ daq \in [DU -> BOOLEAN]
  /\ store \in BOOLEAN /\ trigger \in BOOLEAN /\ builder \in BOOLEAN
  /\ run \in 0..MaxStarts /\ misses \in 0..MaxMisses
  /\ missed \subseteq DU /\ unstopped \subseteq DU

(***************************************************************************)
(* Between two commands the App is what its status says: running with      *)
(* everything up, or else with no file, thread, trigger or Builder left of *)
(* any run, started or failed at whatever step; and the transports are up  *)
(* for all DUs or for none.                                                *)
(***************************************************************************)
Alive == store /\ trigger /\ builder /\ \A d \in DU : link[d] /\ daq[d]
Quiet == ~store /\ ~trigger /\ ~builder /\ \A d \in DU : ~daq[d]

StatusTells ==
  job = NoJob =>
    /\ IF status = "running" THEN Alive ELSE Quiet
    /\ Linked \in {{}, DU} /\ (status = "idle" => Linked = {})

(***************************************************************************)
(* When start has succeeded, every DU that no command of it has missed     *)
(* runs with the configuration of this start, once it has worked through   *)
(* its commands: whatever state the runs, failures and rollbacks before    *)
(* have left it in.                                                        *)
(***************************************************************************)
StartedAsConfigured ==
  (status = "running" /\ job = NoJob) =>
    \A d \in DU :
      (d \notin missed /\ wire[d] = <<>> /\ du[d].alive)
        => du[d] = [fsm |-> "RUNNING", device |-> TRUE, reader |-> TRUE, shadow |-> run,
                    alive |-> TRUE]

(***************************************************************************)
(* The process of a DU dies only after a STOP could not be sent to it: no  *)
(* order of start, stop, terminate and failures makes a running DU take    *)
(* TERM, which unmaps the device under its input thread, or STAR, which    *)
(* starts a second one.                                                    *)
(***************************************************************************)
DiesOnlyUnstopped == \A d \in DU : ~du[d].alive => d \in unstopped

(***************************************************************************)
(* After App::stop a DU that a STOP was sent to, over a transport that is  *)
(* still up, does not stay RUNNING, however far behind it is with its      *)
(* commands.  (A start that failed has closed the transports,              *)
(* app.cpp:602-632: what becomes of its STOP nobody promises.)             *)
(***************************************************************************)
ToldToStop(d) == status = "initialized" /\ link[d] /\ d \notin unstopped

StopsWhenTold ==
  \A d \in DU : ToldToStop(d) ~> (du[d].fsm # "RUNNING" \/ ~ToldToStop(d))
=============================================================================
