--------------------------- MODULE LifecycleProofs ---------------------------
(***************************************************************************)
(* Proofs about AppLifecycle, for any number of detection units, starts,   *)
(* failures and power cycles.                                              *)
(***************************************************************************)
EXTENDS AppLifecycle, WellFoundedInduction, TLAPS

-----------------------------------------------------------------------------
(***************************************************************************)
(* What a command of the operator has done to the App, step by step        *)
(***************************************************************************)
Steps == {"open", "bind", "configure", "launch", "tell"} \cup Commands

JobType ==
  [of : {"none", "start", "stop", "terminate"}, at : {"none"} \cup Steps,
   todo : SUBSET DU, good : BOOLEAN, bad : BOOLEAN]

AppTypeOK ==
  /\ status \in {"idle", "initialized", "starting", "running", "stopping", "terminating"}
  /\ job \in JobType
  /\ job.of = "none" => job = NoJob
  /\ link \in [DU -> BOOLEAN] /\ daq \in [DU -> BOOLEAN]
  /\ store \in BOOLEAN /\ trigger \in BOOLEAN /\ builder \in BOOLEAN

AllLinked == \A d \in DU : link[d]
NoneLinked == \A d \in DU : ~link[d]

Between ==
  job.of = "none" =>
    IF status = "running" THEN Alive
    ELSE /\ status \in {"idle", "initialized"} /\ Quiet /\ (AllLinked \/ NoneLinked)
         /\ status = "idle" => NoneLinked

Starting ==
  job.of = "start" =>
    /\ status = "starting" /\ job.at \in Steps
    /\ job.at = "bind" => store
    /\ job.at \in {"configure", "launch"} \cup Commands => store /\ trigger /\ builder
    /\ job.at \in {"configure"} \cup Commands => \A d \in DU \ job.todo : link[d]
    /\ job.at = "launch" => AllLinked /\ \A d \in DU \ job.todo : daq[d]
    /\ job.at \in Commands => \A d \in DU : daq[d]

Stopping ==
  /\ job.of = "stop" => job.at = "tell" /\ status = "stopping" /\ AllLinked
  /\ job.of = "terminate" =>
       \/ job.at = "tell" /\ status = "running" /\ AllLinked
       \/ job.at = "TERM" /\ status = "terminating" /\ Quiet

LocalInv == AppTypeOK /\ Between /\ Starting /\ Stopping

-----------------------------------------------------------------------------
LEMMA LeastNumber ==
  ASSUME NEW S \in SUBSET Nat, S # {}
  PROVE  \E m \in S : \A n \in S : m <= n
<1>1. IsWellFoundedOn(OpToRel(<, Nat), Nat)
  BY NatLessThanWellFounded
<1>2. PICK m \in S : \A n \in S : ~(<<n, m>> \in OpToRel(<, Nat))
  BY <1>1, WFMin
<1>3. \A n \in S : ~(n < m)
  BY <1>2 DEF OpToRel
<1> QED
  BY <1>3

\* The DU whose turn it is is one that is left.
LEMMA TurnIsLeft ==
  ASSUME AppTypeOK, NEW d, Turn(d)
  PROVE  d \in job.todo /\ d \in DU
<1>1. job.todo \in SUBSET Nat /\ job.todo # {} /\ d = Min(job.todo) /\ job.todo \subseteq DU
  BY LifecycleConstants DEF AppTypeOK, JobType, Turn
<1>2. \E m \in job.todo : \A n \in job.todo : m <= n
  BY <1>1, LeastNumber
<1>3. Min(job.todo) \in job.todo
  BY <1>2 DEF Min
<1> QED
  BY <1>1, <1>3

\* How a job changes
GoesTo(of, at) == job' \in JobType /\ job'.of = of /\ job'.at = at /\ job'.todo = DU
DealsWith(d) ==
  /\ job' \in JobType /\ job'.of = job.of /\ job'.at = job.at
  /\ job'.todo = job.todo \ {d} /\ job.of # "none"
Ends == job' = NoJob /\ job' \in JobType /\ job'.of = "none"

LEMMA JobMoves ==
  ASSUME AppTypeOK
  PROVE  /\ NoJob.of = "none" /\ NoJob \in JobType
         /\ job' = NoJob => Ends
         /\ \A of \in {"start", "stop", "terminate"}, at \in Steps : job' = Go(of, at) => GoesTo(of, at)
         /\ \A d : job.of # "none" /\ (\/ job' = Dealt(d) \/ job' = [Dealt(d) EXCEPT !.good = TRUE]
                                       \/ job' = [Dealt(d) EXCEPT !.bad = TRUE])
                     => DealsWith(d)
<1>1. NoJob.of = "none" /\ NoJob \in JobType
  BY DEF NoJob, JobType
<1>2. ASSUME NEW of \in {"start", "stop", "terminate"}, NEW at \in Steps, job' = Go(of, at) PROVE GoesTo(of, at)
  BY <1>2 DEF Go, GoesTo, JobType
<1>3. ASSUME NEW d, job.of # "none",
             \/ job' = Dealt(d) \/ job' = [Dealt(d) EXCEPT !.good = TRUE]
             \/ job' = [Dealt(d) EXCEPT !.bad = TRUE]
      PROVE  DealsWith(d)
  BY <1>3 DEF AppTypeOK, Dealt, DealsWith, JobType
<1> QED
  BY <1>1, <1>2, <1>3 DEF Ends

LEMMA LocalStart ==
  Init => LocalInv
<1> SUFFICES ASSUME Init PROVE LocalInv
  OBVIOUS
<1>1. NoJob.of = "none" /\ NoJob \in JobType
  BY DEF NoJob, JobType
<1>2. AppTypeOK
  BY <1>1 DEF Init, AppTypeOK
<1> QED
  BY <1>1, <1>2 DEF Init, LocalInv, Between, Starting, Stopping, Quiet, NoneLinked

LEMMA CommandSteps ==
  ASSUME LocalInv, Command
  PROVE  LocalInv'
<1>1. AppTypeOK
  BY DEF LocalInv
<1>2. CASE StartBegin
  <2>1. GoesTo("start", "open")
    BY <1>1, <1>2, JobMoves DEF StartBegin, Steps
  <2> QED
    BY <1>1, <1>2, <2>1 DEF StartBegin, GoesTo, local, LocalInv, AppTypeOK, Between, Starting, Stopping, Steps, Commands
<1>3. CASE StopBegin
  <2>1. GoesTo("stop", "tell") /\ job.of = "none"
    BY <1>1, <1>3, JobMoves DEF StopBegin, Steps
  <2> QED
    BY <1>1, <1>3, <2>1 DEF StopBegin, GoesTo, local, LocalInv, AppTypeOK, Between, Starting, Stopping,
       Alive, AllLinked, Steps, Commands
<1>4. CASE TerminateBegin
  <2>1. job.of = "none" /\ (GoesTo("terminate", "tell") \/ GoesTo("terminate", "TERM"))
    BY <1>1, <1>4, JobMoves DEF TerminateBegin, Steps, Commands
  <2>2. CASE status = "running"
    <3>1. GoesTo("terminate", "tell") /\ status' = status /\ UNCHANGED local
      BY <1>1, <1>4, <2>2, JobMoves DEF TerminateBegin, Steps
    <3> QED
      BY <1>1, <2>1, <2>2, <3>1 DEF GoesTo, local, LocalInv, AppTypeOK, Between, Starting, Stopping,
         Alive, AllLinked, Steps, Commands
  <2>3. CASE status = "initialized"
    <3>1. GoesTo("terminate", "TERM") /\ status' = "terminating" /\ UNCHANGED local
      BY <1>1, <1>4, <2>3, JobMoves DEF TerminateBegin, Steps, Commands
    <3> QED
      BY <1>1, <2>1, <2>3, <3>1 DEF GoesTo, local, LocalInv, AppTypeOK, Between, Starting, Stopping,
         Quiet, Steps, Commands
  <2> QED
    BY <1>4, <2>2, <2>3 DEF TerminateBegin
<1>5. CASE Initialize
  <2>1. job' = job /\ job.of = "none" /\ status' = "initialized" /\ status = "idle" /\ UNCHANGED local
    BY <1>1, <1>5, JobMoves DEF Initialize
  <2> QED
    BY <1>1, <2>1 DEF local, LocalInv, AppTypeOK, Between, Starting, Stopping, Quiet, AllLinked, NoneLinked
<1>6. CASE Reload
  <2>1. /\ job.of = "none" /\ status = "initialized" /\ link' = [d \in DU |-> FALSE]
        /\ UNCHANGED <<status, job, daq, store, trigger, builder>>
    BY <1>1, <1>6, JobMoves DEF Reload, Unlink
  <2>2. NoneLinked' /\ link' \in [DU -> BOOLEAN]
    BY <2>1 DEF NoneLinked
  <2> QED
    BY <1>1, <2>1, <2>2 DEF LocalInv, AppTypeOK, Between, Starting, Stopping, Quiet
<1> QED
  BY <1>2, <1>3, <1>4, <1>5, <1>6 DEF Command

\* A send that succeeds or fails leaves the App as it is.
LEMMA SendingSteps ==
  ASSUME LocalInv, NEW d \in DU,
         \/ Deliver(d) \/ Miss(d) \/ FindNoTransport(d)
         \/ Tell(d) \/ TellInVain(d) \/ CannotTell(d)
  PROVE  LocalInv'
<1>1. AppTypeOK /\ UNCHANGED <<local, status>>
  BY DEF LocalInv, Deliver, Miss, FindNoTransport, Tell, TellInVain, CannotTell
<1>2. Turn(d) /\ d \in job.todo
  <2>1. Turn(d)
    BY DEF Deliver, Miss, FindNoTransport, Tell, TellInVain, CannotTell, Telling
  <2> QED
    BY <1>1, <2>1, TurnIsLeft
<1>3. CASE FindNoTransport(d)
  <2>1. GoesTo("start", "tell") /\ job.of = "start"
    BY <1>1, <1>3, JobMoves DEF FindNoTransport, Fail, Steps
  <2> QED
    BY <1>1, <2>1 DEF GoesTo, local, LocalInv, AppTypeOK, Between, Starting, Stopping, Steps, Commands
<1>4. CASE Deliver(d) \/ Miss(d)
  <2>1. DealsWith(d) /\ job.of = "start" /\ job.at \in Commands
    BY <1>1, <1>4, JobMoves DEF Deliver, Miss
  <2>2. link[d] /\ UNCHANGED <<link, daq, store, trigger, builder>>
    BY <1>1, <1>4 DEF Deliver, Miss, Post, Fails, local
  <2>3. AppTypeOK'
    BY <1>1, <2>1, <2>2 DEF AppTypeOK, DealsWith
  <2>4. Starting'
    BY <1>1, <2>1, <2>2 DEF DealsWith, LocalInv, AppTypeOK, Starting, Steps, Commands, AllLinked
  <2> QED
    BY <2>1, <2>3, <2>4 DEF DealsWith, LocalInv, Between, Stopping
<1>5. CASE Tell(d) \/ TellInVain(d) \/ CannotTell(d)
  <2>1. job.at = "tell" \/ (job.of = "terminate" /\ job.at = "TERM")
    BY <1>5 DEF Tell, TellInVain, CannotTell, Telling, At
  <2>2. job.of # "none"
    BY <1>1, <2>1 DEF AppTypeOK, NoJob
  <2>3. DealsWith(d)
    BY <1>1, <1>5, <2>2, JobMoves DEF Tell, TellInVain, CannotTell
  <2>4. UNCHANGED <<link, daq, store, trigger, builder>>
    BY <1>1 DEF local
  <2>5. AppTypeOK'
    BY <1>1, <2>3, <2>4 DEF AppTypeOK, DealsWith
  <2>6. Starting'
    BY <1>1, <2>1, <2>3, <2>4 DEF DealsWith, LocalInv, Starting, Steps, Commands
  <2>7. Stopping'
    BY <1>1, <2>3, <2>4 DEF DealsWith, LocalInv, Stopping, AllLinked, Quiet
  <2> QED
    BY <2>2, <2>3, <2>5, <2>6, <2>7 DEF DealsWith, LocalInv, Between
<1> QED
  BY <1>3, <1>4, <1>5

LEMMA OpeningSteps ==
  ASSUME LocalInv, OpenStore \/ BindTrigger
  PROVE  LocalInv'
<1>1. AppTypeOK
  BY DEF LocalInv
<1>2. job.of = "start" /\ status' = status /\ UNCHANGED <<link, daq>>
  BY DEF OpenStore, BindTrigger, At
<1>3. CASE OpenStore
  <2>1. /\ \/ GoesTo("start", "bind") /\ store' = TRUE
           \/ GoesTo("start", "tell") /\ store' = FALSE
        /\ UNCHANGED <<trigger, builder>>
    BY <1>1, <1>3, JobMoves DEF OpenStore, Fail, Steps
  <2> QED
    BY <1>1, <1>2, <2>1 DEF GoesTo, LocalInv, AppTypeOK, Between, Starting, Stopping, Steps, Commands
<1>4. CASE BindTrigger
  <2>1. /\ \/ GoesTo("start", "configure") /\ trigger' = TRUE /\ builder' = TRUE
           \/ GoesTo("start", "tell") /\ UNCHANGED <<trigger, builder>>
        /\ store' = store /\ job.at = "bind"
    BY <1>1, <1>4, JobMoves DEF BindTrigger, Fail, At, Steps
  <2> QED
    BY <1>1, <1>2, <2>1 DEF GoesTo, LocalInv, AppTypeOK, Between, Starting, Stopping, Steps, Commands
<1> QED
  BY <1>3, <1>4

LEMMA FrontendSteps ==
  ASSUME LocalInv, NEW d \in DU, ConfigureFrontend(d) \/ StartFrontend(d)
  PROVE  LocalInv'
<1>1. AppTypeOK
  BY DEF LocalInv
<1>2. job.of = "start" /\ status' = status /\ UNCHANGED <<store, trigger, builder>>
  BY DEF ConfigureFrontend, StartFrontend, At
<1>3. CASE ConfigureFrontend(d)
  <2>1. /\ \/ DealsWith(d) /\ link' = [link EXCEPT ![d] = TRUE]
           \/ GoesTo("start", "tell") /\ link' = link
        /\ daq' = daq /\ job.at = "configure"
    BY <1>1, <1>2, <1>3, JobMoves DEF ConfigureFrontend, Fail, At, Steps
  <2>2. CASE GoesTo("start", "tell") /\ link' = link
    BY <1>1, <1>2, <2>1, <2>2 DEF GoesTo, LocalInv, AppTypeOK, Between, Starting, Stopping, Steps, Commands
  <2>3. CASE DealsWith(d) /\ link' = [link EXCEPT ![d] = TRUE]
    <3>1. AppTypeOK'
      BY <1>1, <1>2, <2>1, <2>3 DEF AppTypeOK, DealsWith
    <3>2. \A e \in DU \ job'.todo : link'[e]
      BY <1>1, <1>2, <2>1, <2>3 DEF AppTypeOK, DealsWith, LocalInv, Starting
    <3>3. Starting'
      BY <1>2, <2>1, <2>3, <3>2 DEF DealsWith, LocalInv, Starting, Steps, Commands
    <3> QED
      BY <1>2, <2>3, <3>1, <3>3 DEF DealsWith, LocalInv, Between, Stopping
  <2> QED
    BY <2>1, <2>2, <2>3
<1>4. CASE StartFrontend(d)
  <2>1. DealsWith(d) /\ daq' = [daq EXCEPT ![d] = TRUE] /\ link' = link /\ job.at = "launch"
    BY <1>1, <1>2, <1>4, JobMoves DEF StartFrontend, At
  <2>2. AppTypeOK'
    BY <1>1, <1>2, <2>1 DEF AppTypeOK, DealsWith
  <2>3. \A e \in DU \ job'.todo : daq'[e]
    BY <1>1, <1>2, <2>1 DEF AppTypeOK, DealsWith, LocalInv, Starting
  <2>4. Starting'
    BY <1>2, <2>1, <2>3 DEF DealsWith, LocalInv, Starting, Steps, Commands, AllLinked
  <2> QED
    BY <1>2, <2>1, <2>2, <2>4 DEF DealsWith, LocalInv, Between, Stopping
<1> QED
  BY <1>3, <1>4

LEMMA PhaseSteps ==
  ASSUME LocalInv, NextPhase
  PROVE  LocalInv'
<1>1. AppTypeOK /\ job.of = "start" /\ job.todo = {} /\ UNCHANGED local /\ status = "starting"
  BY DEF LocalInv, NextPhase, Starting
<1>2. job.at \in DOMAIN Phase
  BY DEF NextPhase
<1>3. /\ job.at \in {"configure", "launch", "STOP", "TERM", "INIT", "CONF", "STAR"}
      /\ job.at = "configure" => Phase[job.at] = "launch"
      /\ job.at = "launch" => Phase[job.at] = "STOP"
      /\ job.at = "STOP" => Phase[job.at] = "TERM"
      /\ job.at = "TERM" => Phase[job.at] = "INIT"
      /\ job.at = "INIT" => Phase[job.at] = "CONF"
      /\ job.at = "CONF" => Phase[job.at] = "STAR"
      /\ job.at = "STAR" => Phase[job.at] = "running"
  BY <1>2 DEF Phase
<1>4. store /\ trigger /\ builder /\ AllLinked /\ (job.at # "configure" => \A d \in DU : daq[d])
  BY <1>1, <1>3 DEF LocalInv, Starting, AllLinked, Commands
<1>5. \/ GoesTo("start", "tell") /\ status' = status
      \/ job.at = "STAR" /\ status' = "running" /\ Ends
      \/ job.at # "STAR" /\ GoesTo("start", Phase[job.at]) /\ status' = status
  <2>1. Phase[job.at] = "running" <=> job.at = "STAR"
    BY <1>3
  <2>2. job.at # "STAR" => Phase[job.at] \in Steps
    BY <1>3 DEF Steps, Commands
  <2>3. \/ Fail /\ status' = status
        \/ job.at = "STAR" /\ status' = "running" /\ job' = NoJob
        \/ job.at # "STAR" /\ job' = Go("start", Phase[job.at]) /\ status' = status
    BY <2>1 DEF NextPhase
  <2> QED
    BY <1>1, <2>2, <2>3, JobMoves DEF Fail, Steps
<1>6. CASE GoesTo("start", "tell") /\ status' = status
  BY <1>1, <1>6 DEF GoesTo, local, LocalInv, AppTypeOK, Between, Starting, Stopping, Steps, Commands
<1>7. CASE job.at = "STAR" /\ status' = "running" /\ Ends
  BY <1>1, <1>4, <1>7 DEF Ends, local, LocalInv, AppTypeOK, Between, Starting, Stopping, Alive, AllLinked
<1>8. CASE job.at # "STAR" /\ GoesTo("start", Phase[job.at]) /\ status' = status
  <2>1. /\ job'.at \in {"launch"} \cup Commands /\ (job'.at \in Commands => \A d \in DU : daq[d])
        /\ job'.of = "start"
    BY <1>3, <1>4, <1>8 DEF GoesTo, Commands
  <2>2. AppTypeOK'
    BY <1>1, <1>8 DEF GoesTo, AppTypeOK, local
  <2>3. Starting'
    BY <1>1, <1>4, <1>8, <2>1 DEF GoesTo, local, Starting, AllLinked, Steps, Commands
  <2> QED
    BY <2>1, <2>2, <2>3 DEF LocalInv, Between, Stopping
<1> QED
  BY <1>5, <1>6, <1>7, <1>8

LEMMA InvalidateStep ==
  ASSUME LocalInv, NEW d \in DU, Invalidate(d)
  PROVE  LocalInv'
<1>1. AppTypeOK /\ UNCHANGED <<job, status, daq, store, trigger, builder>>
  BY DEF LocalInv, Invalidate
<1>2. job.of = "start" /\ job.at \in Commands /\ job.todo = DU
  BY DEF Invalidate, Go, Commands
<1>3. link' \in [DU -> BOOLEAN]
  BY <1>1 DEF Invalidate, AppTypeOK
<1>4. Starting'
  BY <1>1, <1>2 DEF LocalInv, Starting, Steps, Commands
<1> QED
  BY <1>1, <1>2, <1>3, <1>4 DEF LocalInv, AppTypeOK, Between, Stopping

\* What ends a command tears the local objects down.
LEMMA EndSteps ==
  ASSUME LocalInv, Rollback \/ StopEnd \/ TerminateDown \/ TerminateEnd
  PROVE  LocalInv'
<1>1. AppTypeOK
  BY DEF LocalInv
<1>2. Quiet' /\ daq' \in [DU -> BOOLEAN] /\ store' = FALSE /\ trigger' = FALSE /\ builder' = FALSE
  BY DEF Rollback, StopEnd, TerminateDown, TerminateEnd, Down, Quiet
<1>3. CASE Rollback
  <2>1. Ends /\ status' = "initialized" /\ NoneLinked' /\ link' \in [DU -> BOOLEAN]
    BY <1>1, <1>3, JobMoves DEF Rollback, Unlink, NoneLinked
  <2> QED
    BY <1>2, <2>1 DEF Ends, LocalInv, AppTypeOK, Between, Starting, Stopping
<1>4. CASE StopEnd
  <2>1. Ends /\ status' = "initialized" /\ link' = link /\ AllLinked
    BY <1>1, <1>4, JobMoves DEF StopEnd, At, LocalInv, Stopping
  <2> QED
    BY <1>1, <1>2, <2>1 DEF Ends, LocalInv, AppTypeOK, Between, Starting, Stopping, AllLinked
<1>5. CASE TerminateDown
  <2>1. GoesTo("terminate", "TERM") /\ status' = "terminating" /\ link' = link
    BY <1>1, <1>5, JobMoves DEF TerminateDown, Steps, Commands
  <2> QED
    BY <1>1, <1>2, <2>1 DEF GoesTo, LocalInv, AppTypeOK, Between, Starting, Stopping
<1>6. CASE TerminateEnd
  <2>1. Ends /\ status' = "idle" /\ NoneLinked' /\ link' \in [DU -> BOOLEAN]
    BY <1>1, <1>6, JobMoves DEF TerminateEnd, Unlink, NoneLinked
  <2> QED
    BY <1>2, <2>1 DEF Ends, LocalInv, AppTypeOK, Between, Starting, Stopping
<1> QED
  BY <1>3, <1>4, <1>5, <1>6

LEMMA LocalStep ==
  LocalInv /\ [Next]_vars => LocalInv'
<1> SUFFICES ASSUME LocalInv, [Next]_vars PROVE LocalInv'
  OBVIOUS
<1>1. CASE Command
  BY <1>1, CommandSteps
<1>2. CASE StartStep
  BY <1>2, OpeningSteps, PhaseSteps, EndSteps, FrontendSteps, SendingSteps, InvalidateStep DEF StartStep
<1>3. CASE TellStep
  BY <1>3, EndSteps, SendingSteps DEF TellStep
<1>4. ASSUME UNCHANGED <<status, job, local>> PROVE LocalInv'
  BY <1>4 DEF local, LocalInv, AppTypeOK, Between, Starting, Stopping, Alive, Quiet, AllLinked, NoneLinked
<1>5. CASE \E d \in DU : DuStep(d) \/ DuLosesPower(d)
  BY <1>4, <1>5 DEF DuStep, DuLosesPower
<1>6. CASE UNCHANGED vars
  BY <1>4, <1>6 DEF vars
<1> QED
  BY <1>1, <1>2, <1>3, <1>5, <1>6 DEF Next

(***************************************************************************)
(* Between two commands of the operator the App is what its status says,   *)
(* whatever step a start failed at: App::start with its rollback,          *)
(* App::stop, App::terminate and reloadYamlConfig of app.cpp.              *)
(***************************************************************************)
THEOREM StatusIsTrue == Spec => []StatusTells
<1>1. LocalInv => StatusTells
  <2> SUFFICES ASSUME LocalInv, job = NoJob PROVE StatusTells
    BY DEF StatusTells
  <2>1. job.of = "none"
    BY DEF NoJob
  <2>2. DU # {}
    BY LifecycleConstants
  <2>3. AllLinked => Linked = DU
    BY DEF AllLinked, Linked
  <2>4. NoneLinked => Linked = {}
    BY DEF NoneLinked, Linked
  <2>5. Alive => AllLinked
    BY DEF Alive, AllLinked
  <2> QED
    BY <2>1, <2>3, <2>4, <2>5 DEF LocalInv, Between, StatusTells
<1> QED
  BY <1>1, LocalStart, LocalStep, PTL DEF Spec

-----------------------------------------------------------------------------
(***************************************************************************)
(* What the commands on a DU's wire will do to it                          *)
(*                                                                         *)
(* s is the state of a DU and w its wire.                                  *)
(***************************************************************************)
DuState == [fsm : States, device : BOOLEAN, reader : BOOLEAN, shadow : Nat, alive : BOOLEAN]

DuInv ==
  /\ du \in [DU -> DuState] /\ wire \in [DU -> Seq(Message)]
  /\ run \in Nat /\ missed \subseteq DU /\ unstopped \subseteq DU

\* The input thread exists exactly while the DU is RUNNING, on a mapped device.
Sound(s) == s.alive /\ (s.reader <=> s.fsm = "RUNNING") /\ (s.fsm # "IDLE" => s.device)

\* When s has worked through the first n commands of w it is not RUNNING.
HaltedBy(s, w, n) ==
  \/ \E i \in 1..n : w[i].cmd = "STOP" /\ \A k \in (i + 1)..n : w[k].cmd # "STAR"
  \/ s.fsm # "RUNNING" /\ \A k \in 1..n : w[k].cmd # "STAR"

\* No TERM of w finds s RUNNING.
Tame(s, w) == \A n \in 0..(Len(w) - 1) : w[n + 1].cmd = "TERM" => HaltedBy(s, w, n)
Halted(s, w) == HaltedBy(s, w, Len(w))

\* The App has sent d a STOP and nothing after it that would start d again.
MustHalt(d) ==
  /\ link[d]
  /\ \/ job.of = "none" /\ status = "initialized"
     \/ job.of = "start" /\ job.at = "STOP" /\ d \notin job.todo
     \/ job.of = "start" /\ job.at \in {"TERM", "INIT", "CONF"}
     \/ job.of = "start" /\ job.at = "STAR" /\ d \in job.todo
     \/ job.at = "tell" /\ d \notin job.todo
     \/ job.of = "terminate" /\ job.at = "TERM"

CalmInv ==
  \A d \in DU \ unstopped :
    /\ Sound(du[d]) /\ Tame(du[d], wire[d])
    /\ MustHalt(d) => Halted(du[d], wire[d])

\* The commands of start r, and where the first n of them take a DU
Startup == <<"STOP", "TERM", "INIT", "CONF", "STAR">>

Taken(s, n, r) ==
  /\ n = 1 => s.fsm # "RUNNING"
  /\ n = 2 => s.fsm = "IDLE"
  /\ n = 3 => s.fsm = "INITIALIZED" /\ s.device
  /\ n = 4 => s.fsm = "CONFIGURED" /\ s.device /\ s.shadow = r
  /\ n = 5 => s.fsm = "RUNNING" /\ s.device /\ s.reader /\ s.shadow = r

\* Of the first n commands of start r, the DU has taken m.
Took(s, w, m, n, r) ==
  /\ n - m <= Len(w)
  /\ \A k \in (m + 1)..n : w[Len(w) - n + k] = [cmd |-> Startup[k], run |-> r]
  /\ m = 0 \/ (Len(w) = n - m /\ Taken(s, m, r))

OnItsWay(s, w, n, r) == \E m \in 0..n : Took(s, w, m, n, r)

\* Commands of this start that have been sent to d
SentTo(d, n) ==
  \/ n = 5 /\ job.of = "none" /\ status = "running"
  \/ n \in 1..5 /\ job.of = "start" /\ job.at = Startup[n] /\ d \notin job.todo
  \/ n \in 0..4 /\ job.of = "start" /\ job.at = Startup[n + 1] /\ d \in job.todo

StartInv ==
  \A d \in DU, n \in 0..5 :
    (d \notin missed /\ link[d] /\ du[d].alive /\ SentTo(d, n)) => OnItsWay(du[d], wire[d], n, run)

-----------------------------------------------------------------------------
(***************************************************************************)
(* Lemmas about a DU that takes a command                                  *)
(***************************************************************************)
Outcome(s, m) ==
  IF ~Reacts(s, m.cmd) THEN s
  ELSE IF Collides(s, m) THEN [s EXCEPT !.alive = FALSE]
  ELSE Moved(s, m)

LEMMA Reactions ==
  ASSUME NEW s \in DuState, NEW c \in Commands
  PROVE  /\ Reacts(s, c) <=> \/ s.fsm = "IDLE" /\ c \in {"INIT", "TERM"}
                             \/ s.fsm = "INITIALIZED" /\ c \in {"CONF", "TERM"}
                             \/ s.fsm = "CONFIGURED" /\ c \in {"STAR", "TERM"}
                             \/ s.fsm = "RUNNING" /\ c \in {"STOP", "TERM"}
         /\ s.fsm = "IDLE" => Reaction[s.fsm]["INIT"] = "INITIALIZED"
         /\ s.fsm = "INITIALIZED" => Reaction[s.fsm]["CONF"] = "CONFIGURED"
         /\ s.fsm = "CONFIGURED" => Reaction[s.fsm]["STAR"] = "RUNNING"
         /\ s.fsm = "RUNNING" => Reaction[s.fsm]["STOP"] = "CONFIGURED"
         /\ Reaction[s.fsm]["TERM"] = "IDLE"
<1>1. s.fsm \in States
  BY DEF DuState
<1>2. CASE s.fsm = "IDLE"
  BY <1>2 DEF Reacts, Reaction, Commands
<1>3. CASE s.fsm = "INITIALIZED"
  BY <1>3 DEF Reacts, Reaction, Commands
<1>4. CASE s.fsm = "CONFIGURED"
  BY <1>4 DEF Reacts, Reaction, Commands
<1>5. CASE s.fsm = "RUNNING"
  BY <1>5 DEF Reacts, Reaction, Commands
<1> QED
  BY <1>1, <1>2, <1>3, <1>4, <1>5 DEF States

State(f, dev, rd, sh, al) == [fsm |-> f, device |-> dev, reader |-> rd, shadow |-> sh, alive |-> al]

\* What each command makes of a DU
LEMMA Outcomes ==
  ASSUME NEW s \in DuState, NEW m \in Message, s.alive
  PROVE  /\ Outcome(s, m) \in DuState
         /\ s = State(s.fsm, s.device, s.reader, s.shadow, TRUE)
         /\ m.cmd = "STOP" =>
              Outcome(s, m) = IF s.fsm = "RUNNING"
                              THEN State("CONFIGURED", s.device, FALSE, s.shadow, TRUE) ELSE s
         /\ m.cmd = "TERM" => Outcome(s, m) = State("IDLE", FALSE, s.reader, s.shadow, TRUE)
         /\ m.cmd = "INIT" =>
              Outcome(s, m) = IF s.fsm = "IDLE"
                              THEN State("INITIALIZED", TRUE, s.reader, 0, TRUE) ELSE s
         /\ m.cmd = "CONF" =>
              Outcome(s, m) = IF s.fsm = "INITIALIZED"
                              THEN State("CONFIGURED", s.device, s.reader, m.run, TRUE) ELSE s
         /\ m.cmd = "STAR" =>
              Outcome(s, m) = IF s.fsm # "CONFIGURED" THEN s
                              ELSE IF s.reader
                              THEN State(s.fsm, s.device, s.reader, s.shadow, FALSE)
                              ELSE State("RUNNING", s.device, TRUE, s.shadow, TRUE)
<1>1. m.cmd \in Commands /\ m.run \in Nat
  BY DEF Message
<1>2. /\ s.fsm \in States /\ s.device \in BOOLEAN /\ s.reader \in BOOLEAN /\ s.shadow \in Nat
      /\ s = State(s.fsm, s.device, s.reader, s.shadow, TRUE)
  BY DEF DuState, State
<1>3. [s EXCEPT !.alive = FALSE] = State(s.fsm, s.device, s.reader, s.shadow, FALSE)
  <2> DEFINE t == [s EXCEPT !.alive = FALSE]
  <2>1. /\ t \in DuState /\ t.fsm = s.fsm /\ t.device = s.device /\ t.reader = s.reader
        /\ t.shadow = s.shadow /\ t.alive = FALSE
    BY DEF DuState
  <2> HIDE DEF t
  <2>2. t = State(s.fsm, s.device, s.reader, s.shadow, FALSE)
    BY <2>1 DEF DuState, State
  <2> QED
    BY <2>2 DEF t
<1>4. Outcome(s, m) = IF ~Reacts(s, m.cmd) THEN s
                      ELSE IF m.cmd = "STAR" /\ s.reader
                      THEN State(s.fsm, s.device, s.reader, s.shadow, FALSE)
                      ELSE Moved(s, m)
  BY <1>3 DEF Outcome, Collides
<1>5. Moved(s, m) = State(Reaction[s.fsm][m.cmd],
                          IF m.cmd = "INIT" THEN TRUE ELSE s.device /\ m.cmd # "TERM",
                          IF m.cmd = "STAR" THEN TRUE ELSE s.reader /\ m.cmd # "STOP",
                          IF m.cmd = "INIT" THEN 0 ELSE IF m.cmd = "CONF" THEN m.run ELSE s.shadow,
                          TRUE)
  BY DEF Moved, State
<1>6. ASSUME NEW f \in States, NEW dev \in BOOLEAN, NEW rd \in BOOLEAN, NEW sh \in Nat, NEW al \in BOOLEAN
      PROVE  State(f, dev, rd, sh, al) \in DuState
  BY DEF State, DuState
<1>7. CASE m.cmd = "STOP"
  <2>1. Outcome(s, m) = IF s.fsm = "RUNNING"
                        THEN State("CONFIGURED", s.device, FALSE, s.shadow, TRUE) ELSE s
    BY <1>1, <1>2, <1>4, <1>5, <1>7, Reactions
  <2> QED
    BY <1>2, <1>6, <1>7, <2>1 DEF States
<1>8. CASE m.cmd = "TERM"
  <2>1. Outcome(s, m) = State("IDLE", FALSE, s.reader, s.shadow, TRUE)
    BY <1>1, <1>2, <1>4, <1>5, <1>8, Reactions DEF States
  <2> QED
    BY <1>2, <1>6, <1>8, <2>1 DEF States
<1>9. CASE m.cmd = "INIT"
  <2>1. Outcome(s, m) = IF s.fsm = "IDLE" THEN State("INITIALIZED", TRUE, s.reader, 0, TRUE) ELSE s
    BY <1>1, <1>2, <1>4, <1>5, <1>9, Reactions
  <2> QED
    BY <1>2, <1>6, <1>9, <2>1 DEF States
<1>10. CASE m.cmd = "CONF"
  <2>1. Outcome(s, m) = IF s.fsm = "INITIALIZED"
                        THEN State("CONFIGURED", s.device, s.reader, m.run, TRUE) ELSE s
    BY <1>1, <1>2, <1>4, <1>5, <1>10, Reactions
  <2> QED
    BY <1>1, <1>2, <1>6, <1>10, <2>1 DEF States
<1>11. CASE m.cmd = "STAR"
  <2>1. Outcome(s, m) = IF s.fsm # "CONFIGURED" THEN s
                        ELSE IF s.reader THEN State(s.fsm, s.device, s.reader, s.shadow, FALSE)
                        ELSE State("RUNNING", s.device, TRUE, s.shadow, TRUE)
    BY <1>1, <1>2, <1>4, <1>5, <1>11, Reactions
  <2> QED
    BY <1>2, <1>6, <1>11, <2>1 DEF States
<1> QED
  BY <1>1, <1>7, <1>8, <1>9, <1>10, <1>11 DEF Commands

LEMMA OutcomeIsSound ==
  ASSUME NEW s \in DuState, NEW m \in Message, Sound(s), m.cmd = "TERM" => s.fsm # "RUNNING"
  PROVE  Sound(Outcome(s, m))
<1>1. s.alive /\ m.cmd \in Commands
  BY DEF Sound, Message
<1> QED
  BY <1>1, Outcomes DEF Sound, State, DuState, Commands

\* v is w from its n-th command on, and t is what s has become meanwhile.
LEMMA Shifted ==
  ASSUME NEW s, NEW t, NEW v, NEW w, NEW n \in Nat, NEW j \in Nat,
         \A k \in 1..j : v[k] = w[n + k],
         HaltedBy(s, w, n) => t.fsm # "RUNNING", HaltedBy(s, w, n + j)
  PROVE  HaltedBy(t, v, j)
<1>1. ASSUME HaltedBy(s, w, n), \A k \in (n + 1)..(n + j) : w[k].cmd # "STAR"
      PROVE  HaltedBy(t, v, j)
  BY <1>1 DEF HaltedBy
<1>2. CASE s.fsm # "RUNNING" /\ \A k \in 1..(n + j) : w[k].cmd # "STAR"
  <2>1. HaltedBy(s, w, n)
    BY <1>2 DEF HaltedBy
  <2> QED
    BY <1>1, <1>2, <2>1
<1>3. ASSUME NEW i \in 1..(n + j), w[i].cmd = "STOP", \A k \in (i + 1)..(n + j) : w[k].cmd # "STAR"
      PROVE  HaltedBy(t, v, j)
  <2>1. CASE i <= n
    <3>1. HaltedBy(s, w, n)
      BY <1>3, <2>1 DEF HaltedBy
    <3> QED
      BY <1>1, <1>3, <2>1, <3>1
  <2>2. CASE i > n
    <3>1. i - n \in 1..j /\ n + (i - n) = i
      BY <2>2
    <3>2. v[i - n].cmd = "STOP"
      BY <1>3, <3>1
    <3>3. \A k \in (i - n + 1)..j : v[k].cmd # "STAR"
      BY <1>3, <2>2
    <3> QED
      BY <3>1, <3>2, <3>3 DEF HaltedBy
  <2> QED
    BY <2>1, <2>2
<1> QED
  BY <1>2, <1>3 DEF HaltedBy

LEMMA WireAppend ==
  ASSUME NEW s, NEW w \in Seq(Message), NEW m \in Message,
         Tame(s, w), m.cmd = "TERM" => Halted(s, w)
  PROVE  /\ Tame(s, Append(w, m))
         /\ m.cmd = "STOP" \/ (m.cmd # "STAR" /\ Halted(s, w)) => Halted(s, Append(w, m))
<1> DEFINE v == Append(w, m)
<1>1. /\ v \in Seq(Message) /\ Len(v) = Len(w) + 1 /\ Len(w) \in Nat /\ v[Len(w) + 1] = m
      /\ \A k \in 1..Len(w) : v[k] = w[k]
  OBVIOUS
<1> HIDE DEF v
<1>2. ASSUME NEW n \in 0..Len(w), HaltedBy(s, w, n) PROVE HaltedBy(s, v, n)
  <2>1. \A k \in 1..n : v[k] = w[0 + k]
    BY <1>1
  <2>2. n \in Nat /\ 0 \in Nat /\ HaltedBy(s, w, 0 + n)
    BY <1>1, <1>2
  <2>3. HaltedBy(s, w, 0) => s.fsm # "RUNNING"
    BY DEF HaltedBy
  <2> QED
    BY <2>1, <2>2, <2>3, Shifted, Zenon
<1>3. Tame(s, v)
  <2> SUFFICES ASSUME NEW n \in 0..Len(w), v[n + 1].cmd = "TERM" PROVE HaltedBy(s, v, n)
    BY <1>1 DEF Tame
  <2>1. CASE n = Len(w)
    BY <1>1, <1>2, <2>1 DEF Halted
  <2>2. CASE n # Len(w)
    BY <1>1, <1>2, <2>2 DEF Tame
  <2> QED
    BY <2>1, <2>2
<1>4. ASSUME m.cmd = "STOP" PROVE Halted(s, v)
  BY <1>1, <1>4 DEF Halted, HaltedBy
<1>5. ASSUME m.cmd # "STAR", Halted(s, w) PROVE Halted(s, v)
  <2>1. HaltedBy(s, v, Len(w))
    BY <1>1, <1>2, <1>5 DEF Halted
  <2>2. \A k \in 1..Len(v) : k \in 1..Len(w) \/ v[k].cmd # "STAR"
    BY <1>1, <1>5
  <2> QED
    BY <1>1, <2>1, <2>2 DEF Halted, HaltedBy
<1> QED
  BY <1>3, <1>4, <1>5 DEF v

\* The DU takes the first command.
LEMMA WireTaken ==
  ASSUME NEW s \in DuState, NEW w \in Seq(Message), w # <<>>, Sound(s), Tame(s, w)
  PROVE  LET t == Outcome(s, Head(w))
         IN  Sound(t) /\ Tame(t, Tail(w)) /\ (Halted(s, w) => Halted(t, Tail(w)))
<1> DEFINE t == Outcome(s, Head(w))
           v == Tail(w)
<1>1. /\ Head(w) \in Message /\ Head(w) = w[1] /\ Len(w) \in Nat \ {0}
      /\ v \in Seq(Message) /\ Len(v) = Len(w) - 1 /\ \A k \in 1..Len(v) : v[k] = w[1 + k]
  OBVIOUS
<1>2. Sound(t)
  <2>1. HaltedBy(s, w, 0) => s.fsm # "RUNNING"
    BY DEF HaltedBy
  <2>2. Head(w).cmd = "TERM" => HaltedBy(s, w, 0)
    BY <1>1 DEF Tame
  <2> QED
    BY <1>1, <2>1, <2>2, OutcomeIsSound
<1>3. HaltedBy(s, w, 1) => t.fsm # "RUNNING"
  <2>1. HaltedBy(s, w, 1) => w[1].cmd = "STOP" \/ (s.fsm # "RUNNING" /\ w[1].cmd # "STAR")
    BY DEF HaltedBy
  <2>2. Head(w).cmd \in Commands /\ s.alive
    BY <1>1 DEF Message, Sound
  <2> QED
    BY <1>1, <2>1, <2>2, Outcomes DEF State, Commands
<1> HIDE DEF t, v
<1>4. ASSUME NEW j \in 0..Len(v), HaltedBy(s, w, 1 + j) PROVE HaltedBy(t, v, j)
  <2>1. j \in Nat /\ 1 \in Nat /\ \A k \in 1..j : v[k] = w[1 + k]
    BY <1>1
  <2> QED
    BY <1>3, <1>4, <2>1, Shifted
<1>5. Tame(t, v)
  <2> SUFFICES ASSUME NEW n \in 0..(Len(v) - 1), v[n + 1].cmd = "TERM" PROVE HaltedBy(t, v, n)
    BY DEF Tame
  <2>1. v[n + 1] = w[(1 + n) + 1] /\ 1 + n \in 0..(Len(w) - 1) /\ n \in 0..Len(v)
    BY <1>1
  <2>2. HaltedBy(s, w, 1 + n)
    BY <2>1 DEF Tame
  <2> QED
    BY <1>4, <2>1, <2>2
<1>6. ASSUME Halted(s, w) PROVE Halted(t, v)
  <2>1. Len(v) \in 0..Len(v) /\ Len(w) = 1 + Len(v)
    BY <1>1
  <2>2. HaltedBy(s, w, 1 + Len(v))
    BY <1>6, <2>1 DEF Halted
  <2> QED
    BY <1>4, <2>1, <2>2 DEF Halted
<1> QED
  BY <1>2, <1>5, <1>6 DEF t, v

\* The DU starts afresh, and the first n commands are lost.
LEMMA WireLost ==
  ASSUME NEW s, NEW w \in Seq(Message), NEW n \in 0..Len(w), Tame(s, w)
  PROVE  /\ Sound(Fresh) /\ Tame(Fresh, SubSeq(w, n + 1, Len(w)))
         /\ Halted(s, w) => Halted(Fresh, SubSeq(w, n + 1, Len(w)))
<1> DEFINE v == SubSeq(w, n + 1, Len(w))
<1>1. /\ v \in Seq(Message) /\ Len(v) = Len(w) - n /\ \A k \in 1..Len(v) : v[k] = w[n + k]
      /\ Len(w) \in Nat /\ n \in Nat
  OBVIOUS
<1> HIDE DEF v
<1>2. Fresh.fsm # "RUNNING" /\ Sound(Fresh)
  BY DEF Fresh, Sound
<1>3. ASSUME NEW j \in 0..Len(v), HaltedBy(s, w, n + j) PROVE HaltedBy(Fresh, v, j)
  <2>1. j \in Nat /\ \A k \in 1..j : v[k] = w[n + k]
    BY <1>1
  <2> QED
    BY <1>1, <1>2, <1>3, <2>1, Shifted
<1>4. Tame(Fresh, v)
  <2> SUFFICES ASSUME NEW j \in 0..(Len(v) - 1), v[j + 1].cmd = "TERM" PROVE HaltedBy(Fresh, v, j)
    BY DEF Tame
  <2>1. v[j + 1] = w[(n + j) + 1] /\ n + j \in 0..(Len(w) - 1) /\ j \in 0..Len(v)
    BY <1>1
  <2>2. HaltedBy(s, w, n + j)
    BY <2>1 DEF Tame
  <2> QED
    BY <1>3, <2>1, <2>2
<1>5. ASSUME Halted(s, w) PROVE Halted(Fresh, v)
  <2>1. Len(v) \in 0..Len(v) /\ Len(w) = n + Len(v)
    BY <1>1
  <2>2. HaltedBy(s, w, n + Len(v))
    BY <1>5, <2>1 DEF Halted
  <2> QED
    BY <1>3, <2>1, <2>2 DEF Halted
<1> QED
  BY <1>2, <1>4, <1>5 DEF v

\* The last commands are dropped with the socket.
LEMMA WireCut ==
  ASSUME NEW s, NEW w \in Seq(Message), NEW v \in Prefixes(w), Tame(s, w)
  PROVE  v \in Seq(Message) /\ Tame(s, v)
<1>1. PICK n \in 0..Len(w) : v = SubSeq(w, 1, n)
  BY DEF Prefixes
<1>2. v \in Seq(Message) /\ Len(v) = n /\ \A k \in 1..n : v[k] = w[0 + k]
  BY <1>1
<1>3. ASSUME NEW j \in 0..(n - 1), v[j + 1].cmd = "TERM" PROVE HaltedBy(s, v, j)
  <2>1. /\ j \in Nat /\ 0 \in Nat /\ w[j + 1].cmd = "TERM" /\ 0 + j \in 0..(Len(w) - 1) /\ 0 + j = j
        /\ \A k \in 1..j : v[k] = w[0 + k]
    BY <1>2, <1>3
  <2>2. HaltedBy(s, w, 0 + j)
    BY <2>1 DEF Tame
  <2>3. HaltedBy(s, w, 0) => s.fsm # "RUNNING"
    BY DEF HaltedBy
  <2> QED
    BY <2>1, <2>2, <2>3, Shifted, Zenon
<1> QED
  BY <1>2, <1>3 DEF Tame

LEMMA Startups ==
  /\ Startup[1] = "STOP" /\ Startup[2] = "TERM" /\ Startup[3] = "INIT"
  /\ Startup[4] = "CONF" /\ Startup[5] = "STAR"
  /\ \A n \in 1..5 : Startup[n] \in Commands
<1>1. /\ Startup[1] = "STOP" /\ Startup[2] = "TERM" /\ Startup[3] = "INIT"
      /\ Startup[4] = "CONF" /\ Startup[5] = "STAR"
  BY DEF Startup
<1>2. \A n \in 1..5 : n = 1 \/ n = 2 \/ n = 3 \/ n = 4 \/ n = 5
  OBVIOUS
<1> QED
  BY <1>1, <1>2 DEF Commands

\* The App sends the next command of the start.
LEMMA OneMoreSent ==
  ASSUME NEW s, NEW w \in Seq(Message), NEW n \in 0..4, NEW r \in Nat, OnItsWay(s, w, n, r)
  PROVE  OnItsWay(s, Append(w, [cmd |-> Startup[n + 1], run |-> r]), n + 1, r)
<1> DEFINE m == [cmd |-> Startup[n + 1], run |-> r]
           v == Append(w, m)
<1>1. m \in Message
  BY Startups DEF Message
<1>2. /\ Len(v) = Len(w) + 1 /\ Len(w) \in Nat /\ v[Len(v)] = m
      /\ \A k \in 1..Len(w) : v[k] = w[k]
  BY <1>1
<1>3. PICK i \in 0..n : Took(s, w, i, n, r)
  BY DEF OnItsWay
<1>4. Took(s, v, i, n + 1, r)
  <2>1. ASSUME NEW k \in (i + 1)..(n + 1)
        PROVE  v[Len(v) - (n + 1) + k] = [cmd |-> Startup[k], run |-> r]
    <3>1. CASE k = n + 1
      <4>1. Len(v) - (n + 1) + k = Len(v)
        BY <1>2, <3>1
      <4> QED
        BY <1>2, <3>1, <4>1
    <3>2. CASE k # n + 1
      <4>1. k \in (i + 1)..n /\ Len(v) - (n + 1) + k = Len(w) - n + k
        BY <1>2, <3>2
      <4>2. Len(w) - n + k \in 1..Len(w)
        BY <1>2, <1>3, <4>1 DEF Took
      <4>3. w[Len(w) - n + k] = [cmd |-> Startup[k], run |-> r]
        BY <1>3, <4>1 DEF Took
      <4> QED
        BY <1>2, <4>1, <4>2, <4>3
    <3> QED
      BY <3>1, <3>2
  <2>2. (n + 1) - i <= Len(v) /\ (i = 0 \/ (Len(v) = (n + 1) - i /\ Taken(s, i, r)))
    BY <1>2, <1>3 DEF Took
  <2> HIDE DEF v
  <2> QED
    BY <2>1, <2>2 DEF Took
<1>5. i \in 0..(n + 1)
  OBVIOUS
<1> QED
  BY <1>4, <1>5 DEF OnItsWay

\* The next command of the start takes the DU one state further.
LEMMA OneFurther ==
  ASSUME NEW s \in DuState, s.alive, NEW i \in 0..4, NEW r \in Nat, i = 0 \/ Taken(s, i, r),
         Outcome(s, [cmd |-> Startup[i + 1], run |-> r]).alive
  PROVE  Taken(Outcome(s, [cmd |-> Startup[i + 1], run |-> r]), i + 1, r)
<1> DEFINE m == [cmd |-> Startup[i + 1], run |-> r]
<1>1. m \in Message /\ m.cmd = Startup[i + 1] /\ m.run = r
  BY Startups DEF Message
<1> HIDE DEF m
<1>2. ASSUME i = 0 PROVE Taken(Outcome(s, m), 1, r)
  <2>1. m.cmd = "STOP"
    BY <1>1, <1>2, Startups
  <2> QED
    BY <1>1, <2>1, Outcomes DEF Taken, State
<1>3. ASSUME i = 1 PROVE Taken(Outcome(s, m), 2, r)
  <2>1. m.cmd = "TERM"
    BY <1>1, <1>3, Startups
  <2> QED
    BY <1>1, <2>1, Outcomes DEF Taken, State
<1>4. ASSUME i = 2 PROVE Taken(Outcome(s, m), 3, r)
  <2>1. m.cmd = "INIT" /\ s.fsm = "IDLE"
    BY <1>1, <1>4, Startups DEF Taken
  <2> QED
    BY <1>1, <2>1, Outcomes DEF Taken, State
<1>5. ASSUME i = 3 PROVE Taken(Outcome(s, m), 4, r)
  <2>1. m.cmd = "CONF" /\ s.fsm = "INITIALIZED" /\ s.device
    BY <1>1, <1>5, Startups DEF Taken
  <2> QED
    BY <1>1, <2>1, Outcomes DEF Taken, State
<1>6. ASSUME i = 4 PROVE Taken(Outcome(s, m), 5, r)
  <2>1. m.cmd = "STAR" /\ s.fsm = "CONFIGURED" /\ s.device /\ s.shadow = r
    BY <1>1, <1>6, Startups DEF Taken
  <2>2. Outcome(s, m).alive
    BY DEF m
  <2> QED
    BY <1>1, <2>1, <2>2, Outcomes DEF Taken, State
<1>7. i = 0 \/ i = 1 \/ i = 2 \/ i = 3 \/ i = 4
  OBVIOUS
<1> QED
  BY <1>2, <1>3, <1>4, <1>5, <1>6, <1>7 DEF m

\* The DU takes a command that is left of an earlier start, or one of this.
LEMMA OneMoreTaken ==
  ASSUME NEW s \in DuState, s.alive, NEW w \in Seq(Message), w # <<>>, NEW n \in 0..5, NEW r \in Nat,
         OnItsWay(s, w, n, r), Outcome(s, Head(w)).alive
  PROVE  OnItsWay(Outcome(s, Head(w)), Tail(w), n, r)
<1> DEFINE t == Outcome(s, Head(w))
           v == Tail(w)
<1>1. /\ Head(w) \in Message /\ Head(w) = w[1] /\ Len(w) \in Nat \ {0}
      /\ v \in Seq(Message) /\ Len(v) = Len(w) - 1 /\ \A k \in 1..Len(v) : v[k] = w[k + 1]
  OBVIOUS
<1>2. PICK i \in 0..n : Took(s, w, i, n, r)
  BY DEF OnItsWay
<1>3. ASSUME NEW k \in (i + 1)..n, Len(v) - n + k >= 1
      PROVE  v[Len(v) - n + k] = [cmd |-> Startup[k], run |-> r]
  <2>1. Len(v) - n + k \in 1..Len(v) /\ (Len(v) - n + k) + 1 = Len(w) - n + k
    BY <1>1, <1>3
  <2>2. v[Len(v) - n + k] = w[Len(w) - n + k]
    BY <1>1, <2>1
  <2> QED
    BY <1>2, <2>2 DEF Took
<1>4. CASE i = 0 /\ Len(w) > n
  <2>1. \A k \in (i + 1)..n : Len(v) - n + k >= 1
    BY <1>1, <1>4
  <2>2. n - i <= Len(v)
    BY <1>1, <1>4
  <2> HIDE DEF v, t
  <2>3. Took(t, v, i, n, r)
    BY <1>3, <1>4, <2>1, <2>2 DEF Took
  <2> QED
    BY <2>3 DEF OnItsWay, t, v
<1>5. CASE Len(w) = n - i
  <2>1. i \in 0..4 /\ i + 1 \in 0..n /\ i + 1 \in (i + 1)..n /\ Len(w) - n + (i + 1) = 1
    BY <1>1, <1>5
  <2>2. Head(w) = [cmd |-> Startup[i + 1], run |-> r]
    BY <1>1, <1>2, <2>1 DEF Took
  <2>3. i = 0 \/ Taken(s, i, r)
    BY <1>2 DEF Took
  <2>4. Taken(t, i + 1, r)
    BY <2>1, <2>2, <2>3, OneFurther
  <2>5. \A k \in ((i + 1) + 1)..n : k \in (i + 1)..n /\ Len(v) - n + k >= 1
    BY <1>1, <1>5
  <2>6. n - (i + 1) <= Len(v) /\ Len(v) = n - (i + 1)
    BY <1>1, <1>5
  <2> HIDE DEF v, t
  <2>7. Took(t, v, i + 1, n, r)
    BY <1>3, <2>4, <2>5, <2>6 DEF Took
  <2> QED
    BY <2>1, <2>7 DEF OnItsWay, t, v
<1> QED
  BY <1>1, <1>2, <1>4, <1>5 DEF Took

-----------------------------------------------------------------------------
(***************************************************************************)
(* The commands on the wires, step by step                                 *)
(***************************************************************************)
WireInv == DuInv /\ CalmInv /\ StartInv

LEMMA WireStart ==
  Init => WireInv
<1> SUFFICES ASSUME Init PROVE WireInv
  OBVIOUS
<1>1. NoJob.of = "none" /\ Fresh \in DuState /\ Sound(Fresh)
  BY DEF NoJob, Fresh, DuState, States, Sound
<1>2. DuInv
  BY <1>1 DEF Init, DuInit, DuInv
<1>3. \A d \in DU : ~link[d]
  BY DEF Init
<1>4. CalmInv
  <2> SUFFICES ASSUME NEW d \in DU PROVE Sound(du[d]) /\ Tame(du[d], wire[d]) /\ ~MustHalt(d)
    BY DEF CalmInv
  <2>1. du[d] = Fresh /\ wire[d] = <<>>
    BY DEF Init, DuInit
  <2>2. Tame(du[d], wire[d])
    BY <2>1 DEF Tame
  <2> QED
    BY <1>1, <1>3, <2>1, <2>2 DEF MustHalt
<1>5. StartInv
  BY <1>3 DEF StartInv
<1> QED
  BY <1>2, <1>4, <1>5 DEF WireInv

LEMMA NothingSent ==
  ASSUME NEW s, NEW w \in Seq(Message), NEW r
  PROVE  OnItsWay(s, w, 0, r)
<1>1. Took(s, w, 0, 0, r)
  BY DEF Took
<1> QED
  BY <1>1 DEF OnItsWay

\* A step that leaves the DUs and the wires alone, and of which nothing new
\* follows for them
LEMMA WiresAlone ==
  ASSUME WireInv, UNCHANGED <<du, wire>>, run' \in Nat, missed' \subseteq DU,
         unstopped \subseteq unstopped', unstopped' \subseteq DU,
         \A d \in DU \ unstopped' : MustHalt(d)' => MustHalt(d),
         \A d \in DU \ missed', n \in 1..5 :
           link'[d] /\ SentTo(d, n)' => d \notin missed /\ link[d] /\ SentTo(d, n) /\ run' = run
  PROVE  WireInv'
<1>1. DuInv'
  BY DEF WireInv, DuInv
<1>2. CalmInv'
  BY DEF WireInv, CalmInv
<1>3. ASSUME NEW d \in DU, NEW n \in 0..5, d \notin missed', link'[d], du[d].alive, SentTo(d, n)'
      PROVE  OnItsWay(du[d], wire[d], n, run')
  <2>1. CASE n = 0
    <3>1. wire[d] \in Seq(Message)
      BY DEF WireInv, DuInv
    <3> QED
      BY <2>1, <3>1, NothingSent
  <2>2. CASE n \in 1..5
    <3>1. d \notin missed /\ link[d] /\ SentTo(d, n) /\ run' = run
      BY <1>3, <2>2
    <3>2. OnItsWay(du[d], wire[d], n, run)
      BY <1>3, <3>1 DEF WireInv, StartInv
    <3> QED
      BY <3>1, <3>2
  <2> QED
    BY <2>1, <2>2
<1>4. StartInv'
  BY <1>3 DEF StartInv
<1> QED
  BY <1>1, <1>2, <1>4 DEF WireInv

LEMMA Elsewhere ==
  ASSUME NEW of \in {"start", "stop", "terminate"},
         NEW at \in {"open", "bind", "configure", "launch", "tell"},
         job'.of = of, job'.at = at, at = "tell" => job'.todo = DU
  PROVE  \A d \in DU : ~MustHalt(d)' /\ \A n \in 0..5 : ~SentTo(d, n)'
<1>1. \A n \in 1..5 : Startup[n] # at
  BY Startups DEF Commands
<1>2. ASSUME NEW d \in DU, NEW n \in 0..5 PROVE ~SentTo(d, n)'
  <2>1. n \in 0..4 => n + 1 \in 1..5
    OBVIOUS
  <2> QED
    BY <1>1, <2>1 DEF SentTo
<1>3. ASSUME NEW d \in DU PROVE ~MustHalt(d)'
  BY DEF MustHalt
<1> QED
  BY <1>2, <1>3

\* The steps that go to a part of a command that concerns no wire
LEMMA GoingElsewhere ==
  ASSUME AppTypeOK, WireInv,
         \/ StartBegin \/ StopBegin \/ OpenStore \/ BindTrigger
         \/ \E d \in DU : ConfigureFrontend(d) \/ StartFrontend(d) \/ FindNoTransport(d)
  PROVE  WireInv'
<1>1. UNCHANGED <<du, wire, unstopped>> /\ run' \in Nat /\ missed' \subseteq DU
  <2>1. UNCHANGED duVars /\ UNCHANGED unstopped
    BY DEF StartBegin, StopBegin, OpenStore, BindTrigger, ConfigureFrontend, StartFrontend,
       FindNoTransport, history
  <2>2. (run' = run \/ run' = run + 1) /\ (missed' = missed \/ missed' = {})
    BY DEF StartBegin, StopBegin, OpenStore, BindTrigger, ConfigureFrontend, StartFrontend,
       FindNoTransport, history
  <2>3. run \in Nat /\ missed \subseteq DU
    BY DEF WireInv, DuInv
  <2> QED
    BY <2>1, <2>2, <2>3 DEF duVars
<1>2. \A d \in DU : ~MustHalt(d)' /\ \A n \in 0..5 : ~SentTo(d, n)'
  <2>1. CASE StartBegin
    <3>1. GoesTo("start", "open")
      BY <2>1, JobMoves DEF StartBegin, Steps
    <3> QED
      BY <3>1, Elsewhere DEF GoesTo
  <2>2. CASE StopBegin
    <3>1. GoesTo("stop", "tell")
      BY <2>2, JobMoves DEF StopBegin, Steps
    <3> QED
      BY <3>1, Elsewhere DEF GoesTo
  <2>3. CASE OpenStore
    <3>1. GoesTo("start", "bind") \/ GoesTo("start", "tell")
      BY <2>3, JobMoves DEF OpenStore, Fail, Steps
    <3> QED
      BY <3>1, Elsewhere DEF GoesTo
  <2>4. CASE BindTrigger
    <3>1. GoesTo("start", "configure") \/ GoesTo("start", "tell")
      BY <2>4, JobMoves DEF BindTrigger, Fail, Steps
    <3> QED
      BY <3>1, Elsewhere DEF GoesTo
  <2>5. ASSUME NEW d \in DU, ConfigureFrontend(d)
        PROVE  (job'.of = "start" /\ job'.at = "configure") \/ GoesTo("start", "tell")
    BY <2>5, JobMoves DEF ConfigureFrontend, Fail, At, Steps, DealsWith
  <2>6. ASSUME NEW d \in DU, StartFrontend(d) PROVE job'.of = "start" /\ job'.at = "launch"
    BY <2>6, JobMoves DEF StartFrontend, At, DealsWith
  <2>7. ASSUME NEW d \in DU, FindNoTransport(d) PROVE GoesTo("start", "tell")
    BY <2>7, JobMoves DEF FindNoTransport, Fail, Steps
  <2>8. CASE \E d \in DU : ConfigureFrontend(d) \/ StartFrontend(d) \/ FindNoTransport(d)
    <3>1. \/ job'.of = "start" /\ job'.at \in {"configure", "launch"}
          \/ job'.of = "start" /\ job'.at = "tell" /\ job'.todo = DU
      BY <2>5, <2>6, <2>7, <2>8 DEF GoesTo
    <3> QED
      BY <3>1, Elsewhere
  <2> QED
    BY <2>1, <2>2, <2>3, <2>4, <2>8
<1>3. unstopped \subseteq unstopped' /\ unstopped' \subseteq DU
  BY <1>1 DEF WireInv, DuInv
<1>4. \A d \in DU \ missed', n \in 1..5 : ~SentTo(d, n)'
  BY <1>2
<1> QED
  BY <1>1, <1>2, <1>3, <1>4, WiresAlone

\* The steps between two phases, and those that end a command whose
\* transports stay as they are
LEMMA PhaseAlone ==
  ASSUME LocalInv, WireInv, NextPhase
  PROVE  WireInv'
<1>1. AppTypeOK /\ job.of = "start" /\ job.todo = {} /\ status = "starting"
  BY DEF LocalInv, NextPhase, Starting
<1>2. /\ UNCHANGED <<du, wire, link, run, missed, unstopped>>
      /\ run \in Nat /\ missed \subseteq DU /\ unstopped \subseteq DU
  BY DEF NextPhase, duVars, local, history, WireInv, DuInv
<1>3. job.at \in DOMAIN Phase
  BY DEF NextPhase
<1>4. /\ job.at \in {"configure", "launch", "STOP", "TERM", "INIT", "CONF", "STAR"}
      /\ job.at = "configure" => Phase[job.at] = "launch"
      /\ job.at = "launch" => Phase[job.at] = "STOP"
      /\ job.at = "STOP" => Phase[job.at] = "TERM"
      /\ job.at = "TERM" => Phase[job.at] = "INIT"
      /\ job.at = "INIT" => Phase[job.at] = "CONF"
      /\ job.at = "CONF" => Phase[job.at] = "STAR"
      /\ job.at = "STAR" => Phase[job.at] = "running"
  BY <1>3 DEF Phase
<1>5. \/ GoesTo("start", "tell")
      \/ job.at = "STAR" /\ status' = "running" /\ Ends
      \/ job.at # "STAR" /\ GoesTo("start", Phase[job.at])
  <2>1. Phase[job.at] = "running" <=> job.at = "STAR"
    BY <1>4
  <2>2. job.at # "STAR" => Phase[job.at] \in Steps
    BY <1>4 DEF Steps, Commands
  <2>3. \/ Fail
        \/ job.at = "STAR" /\ status' = "running" /\ job' = NoJob
        \/ job.at # "STAR" /\ job' = Go("start", Phase[job.at])
    BY <2>1 DEF NextPhase
  <2> QED
    BY <1>1, <2>2, <2>3, JobMoves DEF Fail, Steps
<1>6. ASSUME NEW d \in DU, MustHalt(d)' PROVE MustHalt(d)
  <2>1. ~GoesTo("start", "tell")
    BY <1>6, Elsewhere DEF GoesTo
  <2>2. ~(status' = "running" /\ Ends)
    BY <1>6 DEF Ends, MustHalt, NoJob
  <2>3. job.at # "STAR" /\ GoesTo("start", Phase[job.at])
    BY <1>5, <2>1, <2>2
  <2>4. job'.at = Phase[job.at] /\ job'.of = "start" /\ job'.todo = DU
    BY <2>3 DEF GoesTo
  <2>5. link[d] /\ job'.at \in {"TERM", "INIT", "CONF", "STAR"}
    BY <1>2, <1>4, <1>6, <2>3, <2>4 DEF MustHalt
  <2>6. job.at \in {"STOP", "TERM", "INIT", "CONF"}
    BY <1>4, <2>3, <2>4, <2>5
  <2> QED
    BY <1>1, <2>5, <2>6 DEF MustHalt
<1>7. ASSUME NEW d \in DU, NEW n \in 1..5, SentTo(d, n)' PROVE SentTo(d, n)
  <2>1. ~GoesTo("start", "tell")
    BY <1>7, Elsewhere DEF GoesTo
  <2>2. CASE job.at = "STAR" /\ status' = "running" /\ Ends
    <3>1. n = 5
      BY <2>2, <1>7 DEF SentTo, Ends
    <3> QED
      BY <1>1, <2>2, <3>1, Startups DEF SentTo
  <2>3. CASE job.at # "STAR" /\ GoesTo("start", Phase[job.at])
    <3>1. job'.at = Phase[job.at] /\ job'.of = "start" /\ job'.todo = DU
      BY <2>3 DEF GoesTo
    <3>2. n \in 1..4 /\ Phase[job.at] = Startup[n + 1]
      BY <1>7, <3>1 DEF SentTo
    <3>3. job.at = Startup[n]
      <4>1. n = 1 \/ n = 2 \/ n = 3 \/ n = 4
        BY <3>2
      <4> QED
        BY <1>4, <2>3, <3>2, <4>1, Startups
    <3> QED
      BY <1>1, <3>3 DEF SentTo
  <2> QED
    BY <1>5, <2>1, <2>2, <2>3
<1> QED
  BY <1>2, <1>6, <1>7, WiresAlone

LEMMA SkippingAlone ==
  ASSUME AppTypeOK, WireInv, NEW d \in DU, Miss(d) \/ TellInVain(d) \/ CannotTell(d)
  PROVE  WireInv'
<1>1. /\ UNCHANGED <<du, wire, link, run, status>> /\ run \in Nat
      /\ missed \subseteq DU /\ unstopped \subseteq DU
  BY DEF Miss, TellInVain, CannotTell, duVars, local, history, WireInv, DuInv
<1>2. \/ Miss(d) /\ missed' = missed \cup {d}
      \/ ~Miss(d) /\ missed' = missed
  BY DEF Miss, TellInVain, CannotTell, history
<1>3. unstopped' = unstopped \/ unstopped' = unstopped \cup {d}
  BY DEF Miss, TellInVain, CannotTell, history
<1>4. DealsWith(d)
  <2>1. CASE Miss(d)
    BY <2>1, JobMoves DEF Miss
  <2>2. CASE TellInVain(d) \/ CannotTell(d)
    <3>1. job.at = "tell" \/ job.of = "terminate"
      BY <2>2 DEF TellInVain, CannotTell, Telling, At
    <3>2. job.of # "none"
      BY <3>1 DEF AppTypeOK, NoJob
    <3> QED
      BY <2>2, <3>2, JobMoves DEF TellInVain, CannotTell
  <2> QED
    BY <2>1, <2>2
<1>5. /\ job'.of = job.of /\ job'.at = job.at /\ job'.todo = job.todo \ {d} /\ job.of # "none"
  BY <1>4 DEF DealsWith
<1>6. ASSUME NEW e \in DU \ unstopped', MustHalt(e)' PROVE MustHalt(e)
  <2>1. CASE e # d
    BY <1>1, <1>5, <1>6, <2>1 DEF MustHalt
  <2>2. CASE e = d
    <3>1. link[d]
      BY <1>1, <1>6, <2>2 DEF MustHalt
    <3>2. ~CannotTell(d)
      BY <3>1 DEF CannotTell
    <3>3. CASE Miss(d)
      <4>1. job.of = "start" /\ job.at \in Commands /\ job.at # "STOP"
        BY <1>6, <2>2, <3>3 DEF Miss
      <4>2. job.at # "STAR"
        BY <1>5, <1>6, <2>2, <4>1 DEF MustHalt
      <4>3. job.at \in {"TERM", "INIT", "CONF"}
        BY <4>1, <4>2 DEF Commands
      <4> QED
        BY <2>2, <3>1, <4>1, <4>3 DEF MustHalt
    <3>4. CASE TellInVain(d)
      <4>1. job.at # "tell"
        BY <1>6, <2>2, <3>4 DEF TellInVain, Told
      <4> QED
        BY <2>2, <3>1, <3>4, <4>1 DEF TellInVain, Telling, At, MustHalt
    <3> QED
      BY <3>2, <3>3, <3>4
  <2> QED
    BY <2>1, <2>2
<1>7. ASSUME NEW e \in DU \ missed', NEW n \in 1..5, SentTo(e, n)'
      PROVE  e \notin missed /\ SentTo(e, n)
  <2>1. job.of = "start" /\ job.at \in Commands
    BY <1>5, <1>7, Startups DEF SentTo
  <2>2. CASE Miss(d)
    <3>1. e # d /\ e \notin missed
      BY <1>2, <2>2
    <3> QED
      BY <1>5, <1>7, <3>1 DEF SentTo
  <2>3. CASE ~Miss(d)
    BY <2>1, <2>3 DEF TellInVain, CannotTell, Telling, At, Commands
  <2> QED
    BY <2>2, <2>3
<1> QED
  BY <1>1, <1>2, <1>3, <1>6, <1>7, WiresAlone

LEMMA EndingAlone ==
  ASSUME LocalInv, WireInv, TerminateBegin \/ Initialize \/ StopEnd \/ TerminateDown
  PROVE  WireInv'
<1>1. /\ UNCHANGED <<du, wire, link, run, missed, unstopped>> /\ run \in Nat
      /\ missed \subseteq DU /\ unstopped \subseteq DU /\ AppTypeOK
  BY DEF TerminateBegin, Initialize, StopEnd, TerminateDown, duVars, local, history, WireInv, DuInv,
     LocalInv
<1>2. CASE TerminateBegin
  <2>1. \/ GoesTo("terminate", "tell")
        \/ GoesTo("terminate", "TERM") /\ job.of = "none" /\ status = "initialized"
    BY <1>1, <1>2, JobMoves DEF TerminateBegin, Steps, Commands
  <2>2. ASSUME NEW d \in DU, MustHalt(d)' PROVE MustHalt(d)
    <3>1. ~GoesTo("terminate", "tell")
      BY <2>2, Elsewhere DEF GoesTo
    <3>2. job.of = "none" /\ status = "initialized" /\ link[d]
      BY <1>1, <2>1, <2>2, <3>1 DEF MustHalt
    <3> QED
      BY <3>2 DEF MustHalt
  <2>3. ASSUME NEW d \in DU, NEW n \in 1..5 PROVE ~SentTo(d, n)'
    BY <2>1 DEF SentTo, GoesTo
  <2> QED
    BY <1>1, <2>2, <2>3, WiresAlone
<1>3. CASE Initialize
  <2>1. job' = job /\ job.of = "none" /\ status' = "initialized" /\ status = "idle"
    BY <1>1, <1>3, JobMoves DEF Initialize
  <2>2. \A d \in DU : ~link[d]
    BY <2>1 DEF LocalInv, Between, NoneLinked
  <2>3. \A d \in DU : ~MustHalt(d)'
    BY <1>1, <2>2 DEF MustHalt
  <2>4. ASSUME NEW d \in DU, NEW n \in 1..5 PROVE ~SentTo(d, n)'
    BY <2>1 DEF SentTo
  <2> QED
    BY <1>1, <2>3, <2>4, WiresAlone
<1>4. CASE StopEnd
  <2>1. Ends /\ status' = "initialized" /\ job.at = "tell" /\ job.todo = {}
    BY <1>1, <1>4, JobMoves DEF StopEnd, At
  <2>2. ASSUME NEW d \in DU, MustHalt(d)' PROVE MustHalt(d)
    BY <1>1, <2>1, <2>2 DEF MustHalt
  <2>3. ASSUME NEW d \in DU, NEW n \in 1..5 PROVE ~SentTo(d, n)'
    BY <2>1 DEF SentTo, Ends
  <2> QED
    BY <1>1, <2>2, <2>3, WiresAlone
<1>5. CASE TerminateDown
  <2>1. GoesTo("terminate", "TERM") /\ job.at = "tell" /\ job.todo = {}
    BY <1>1, <1>5, JobMoves DEF TerminateDown, At, Steps, Commands
  <2>2. ASSUME NEW d \in DU, MustHalt(d)' PROVE MustHalt(d)
    BY <1>1, <2>1, <2>2 DEF MustHalt
  <2>3. ASSUME NEW d \in DU, NEW n \in 1..5 PROVE ~SentTo(d, n)'
    BY <2>1 DEF SentTo, GoesTo
  <2> QED
    BY <1>1, <2>2, <2>3, WiresAlone
<1> QED
  BY <1>2, <1>3, <1>4, <1>5

\* Closing sockets drops commands, of DUs that are then without a link.
LEMMA Closing ==
  ASSUME WireInv, NEW S, CloseSockets(S), UNCHANGED <<du, run, missed, unstopped>>,
         \A d \in DU : link'[d] =>
           /\ d \notin S /\ link[d] /\ (MustHalt(d)' => MustHalt(d))
           /\ \A n \in 0..5 : SentTo(d, n)' => SentTo(d, n)
  PROVE  WireInv'
<1>1. du \in [DU -> DuState] /\ wire \in [DU -> Seq(Message)]
  BY DEF WireInv, DuInv
<1>2. \A d \in DU : wire'[d] \in Prefixes(wire[d]) \/ wire'[d] = wire[d]
  BY DEF CloseSockets
<1>3. ASSUME NEW d \in DU PROVE wire'[d] \in Seq(Message)
  <2>1. wire[d] \in Seq(Message)
    BY <1>1
  <2>2. ASSUME wire'[d] \in Prefixes(wire[d]) PROVE wire'[d] \in Seq(Message)
    <3>1. PICK n \in 0..Len(wire[d]) : wire'[d] = SubSeq(wire[d], 1, n)
      BY <2>2 DEF Prefixes
    <3>2. SubSeq(wire[d], 1, n) \in Seq(Message)
      BY <2>1
    <3> QED
      BY <3>1, <3>2
  <2> QED
    BY <1>2, <2>1, <2>2
<1>4. wire' \in [DU -> Seq(Message)]
  <2> DEFINE T == UNION {Prefixes(wire[d]) : d \in DU}
  <2>1. wire' \in [DU -> T]
    BY DEF CloseSockets
  <2> HIDE DEF T
  <2> QED
    BY <1>3, <2>1
<1>5. ASSUME NEW d \in DU \ unstopped
      PROVE  /\ Sound(du[d]) /\ Tame(du[d], wire'[d])
             /\ MustHalt(d)' => Halted(du[d], wire'[d])
  <2>1. Sound(du[d]) /\ Tame(du[d], wire[d]) /\ (MustHalt(d) => Halted(du[d], wire[d]))
    BY DEF WireInv, CalmInv
  <2>2. wire[d] \in Seq(Message)
    BY <1>1
  <2>3. Tame(du[d], wire'[d])
    BY <1>2, <2>1, <2>2, WireCut
  <2>4. MustHalt(d)' => wire'[d] = wire[d] /\ MustHalt(d)
    <3>1. MustHalt(d)' => link'[d]
      BY DEF MustHalt
    <3> QED
      BY <3>1 DEF CloseSockets
  <2> QED
    BY <2>1, <2>3, <2>4
<1>6. CalmInv'
  BY <1>5 DEF CalmInv
<1>7. ASSUME NEW d \in DU, NEW n \in 0..5, d \notin missed, link'[d], du[d].alive, SentTo(d, n)'
      PROVE  OnItsWay(du[d], wire'[d], n, run)
  <2>1. wire'[d] = wire[d] /\ link[d] /\ SentTo(d, n)
    BY <1>7 DEF CloseSockets
  <2> QED
    BY <1>7, <2>1 DEF WireInv, StartInv
<1>8. StartInv'
  BY <1>7 DEF StartInv
<1>9. DuInv'
  BY <1>1, <1>4 DEF WireInv, DuInv
<1> QED
  BY <1>6, <1>8, <1>9 DEF WireInv

LEMMA ClosingSteps ==
  ASSUME AppTypeOK, WireInv, Reload \/ Rollback \/ TerminateEnd \/ \E d \in DU : Invalidate(d)
  PROVE  WireInv'
<1>1. CASE Reload \/ Rollback \/ TerminateEnd
  <2>1. /\ CloseSockets(Linked) /\ link' = [d \in DU |-> FALSE]
        /\ UNCHANGED <<du, run, missed, unstopped>>
    BY <1>1 DEF Reload, Rollback, TerminateEnd, Unlink, history
  <2>2. \A d \in DU : ~link'[d]
    BY <2>1
  <2> QED
    BY <2>1, <2>2, Closing
<1>2. ASSUME NEW d \in DU, Invalidate(d) PROVE WireInv'
  <2>1. /\ CloseSockets({d}) /\ link' = [link EXCEPT ![d] = FALSE]
        /\ UNCHANGED <<du, run, missed, unstopped, job, status>>
    BY <1>2 DEF Invalidate
  <2>2. ASSUME NEW e \in DU, link'[e] PROVE e \notin {d} /\ link[e]
    BY <2>1, <2>2 DEF AppTypeOK
  <2>3. ASSUME NEW e \in DU, link'[e]
        PROVE  (MustHalt(e)' => MustHalt(e)) /\ \A n \in 0..5 : SentTo(e, n)' => SentTo(e, n)
    BY <2>1, <2>2, <2>3 DEF MustHalt, SentTo
  <2> QED
    BY <2>1, <2>2, <2>3, Closing
<1> QED
  BY <1>1, <1>2

\* A command goes to d: what is owed to the DUs follows from what was.
LEMMA Sending ==
  ASSUME WireInv, NEW d \in DU, NEW m \in Message,
         wire' = [wire EXCEPT ![d] = Append(@, m)],
         UNCHANGED <<du, run, missed, unstopped, link>>, link[d],
         m.cmd = "TERM" => MustHalt(d),
         MustHalt(d)' => m.cmd = "STOP" \/ (m.cmd # "STAR" /\ MustHalt(d)),
         \A n \in 0..5 : SentTo(d, n)' =>
           n \in 1..5 /\ SentTo(d, n - 1) /\ m = [cmd |-> Startup[n], run |-> run],
         \A e \in DU \ {d} : (MustHalt(e)' => MustHalt(e))
                               /\ \A n \in 0..5 : SentTo(e, n)' => SentTo(e, n)
  PROVE  WireInv'
<1>1. du \in [DU -> DuState] /\ wire \in [DU -> Seq(Message)] /\ run \in Nat
  BY DEF WireInv, DuInv
<1>2. wire[d] \in Seq(Message) /\ Append(wire[d], m) \in Seq(Message)
  BY <1>1
<1>3. /\ wire' \in [DU -> Seq(Message)] /\ wire'[d] = Append(wire[d], m)
      /\ \A e \in DU \ {d} : wire'[e] = wire[e]
  BY <1>1, <1>2
<1>4. DuInv'
  BY <1>1, <1>3 DEF WireInv, DuInv
<1>5. ASSUME d \notin unstopped
      PROVE  /\ Sound(du[d]) /\ Tame(du[d], wire'[d])
             /\ MustHalt(d)' => Halted(du[d], wire'[d])
  <2>1. Sound(du[d]) /\ Tame(du[d], wire[d]) /\ (MustHalt(d) => Halted(du[d], wire[d]))
    BY <1>5 DEF WireInv, CalmInv
  <2>2. m.cmd = "TERM" => Halted(du[d], wire[d])
    BY <2>1
  <2>3. /\ Tame(du[d], Append(wire[d], m))
        /\ m.cmd = "STOP" \/ (m.cmd # "STAR" /\ Halted(du[d], wire[d]))
             => Halted(du[d], Append(wire[d], m))
    BY <1>2, <2>1, <2>2, WireAppend
  <2> QED
    BY <1>3, <2>1, <2>3
<1>6. CalmInv'
  BY <1>3, <1>5 DEF WireInv, CalmInv
<1>7. ASSUME NEW n \in 0..5, d \notin missed, du[d].alive, SentTo(d, n)'
      PROVE  OnItsWay(du[d], wire'[d], n, run)
  <2>1. n - 1 \in 0..4 /\ (n - 1) + 1 = n /\ SentTo(d, n - 1) /\ m = [cmd |-> Startup[n], run |-> run]
    BY <1>7
  <2>2. n - 1 \in 0..5
    BY <2>1
  <2>3. OnItsWay(du[d], wire[d], n - 1, run)
    BY <1>7, <2>1, <2>2 DEF WireInv, StartInv
  <2>4. OnItsWay(du[d], Append(wire[d], [cmd |-> Startup[(n - 1) + 1], run |-> run]), (n - 1) + 1, run)
    BY <1>1, <1>2, <2>1, <2>3, OneMoreSent
  <2> QED
    BY <1>3, <2>1, <2>4
<1>8. StartInv'
  BY <1>3, <1>7 DEF WireInv, StartInv
<1> QED
  BY <1>4, <1>6, <1>8 DEF WireInv

LEMMA SendingMoves ==
  ASSUME LocalInv, WireInv, NEW d \in DU, Deliver(d) \/ Tell(d)
  PROVE  WireInv'
<1>1. /\ UNCHANGED <<du, run, missed, unstopped, link, status>> /\ run \in Nat /\ AppTypeOK
  BY DEF Deliver, Tell, local, history, WireInv, DuInv, LocalInv
<1>2. CASE Deliver(d)
  <2>1. DealsWith(d) /\ job.of = "start" /\ job.at \in Commands /\ d \in job.todo
    BY <1>1, <1>2, JobMoves, TurnIsLeft DEF Deliver
  <2>2. job'.of = "start" /\ job'.at = job.at /\ job'.todo = job.todo \ {d}
    BY <2>1 DEF DealsWith
  <2> DEFINE m == [cmd |-> job.at, run |-> run]
  <2>3. m \in Message /\ m.cmd = job.at
    BY <1>1, <2>1 DEF Message
  <2>4. link[d] /\ wire' = [wire EXCEPT ![d] = Append(@, m)]
    BY <1>2 DEF Deliver, Post
  <2>5. \A e \in DU \ {d} : (MustHalt(e)' => MustHalt(e))
                              /\ \A n \in 0..5 : SentTo(e, n)' => SentTo(e, n)
    BY <1>1, <2>1, <2>2 DEF MustHalt, SentTo
  <2>6. job.at = "TERM" => MustHalt(d)
    BY <2>1, <2>4 DEF MustHalt
  <2>7. MustHalt(d)' => job.at = "STOP" \/ (job.at # "STAR" /\ MustHalt(d))
    <3>1. CASE job.at \in {"TERM", "INIT", "CONF"}
      BY <2>1, <2>4, <3>1 DEF MustHalt
    <3>2. CASE job.at = "STAR"
      BY <2>2, <3>2 DEF MustHalt
    <3> QED
      BY <2>1, <3>1, <3>2 DEF Commands
  <2>8. ASSUME NEW n \in 0..5, SentTo(d, n)'
        PROVE  n \in 1..5 /\ SentTo(d, n - 1) /\ m = [cmd |-> Startup[n], run |-> run]
    <3>1. n \in 1..5 /\ job.at = Startup[n]
      BY <2>2, <2>8 DEF SentTo
    <3>2. n - 1 \in 0..4 /\ (n - 1) + 1 = n
      BY <3>1
    <3> QED
      BY <2>1, <3>1, <3>2 DEF SentTo
  <2> HIDE DEF m
  <2> QED
    BY <1>1, <2>3, <2>4, <2>5, <2>6, <2>7, <2>8, Sending
<1>3. CASE Tell(d)
  <2>1. \/ job.at = "tell"
        \/ job.of = "terminate" /\ job.at = "TERM"
    BY <1>3 DEF Tell, Telling, At
  <2>2. Turn(d) /\ job.of # "none" /\ job' = Dealt(d)
    BY <1>1, <1>3, <2>1 DEF Tell, Telling, AppTypeOK, NoJob
  <2>3. DealsWith(d) /\ d \in job.todo
    BY <1>1, <2>2, JobMoves, TurnIsLeft
  <2>4. job'.of = job.of /\ job'.at = job.at /\ job'.todo = job.todo \ {d}
    BY <2>3 DEF DealsWith
  <2> DEFINE m == [cmd |-> Told, run |-> run]
  <2>5. m \in Message /\ m.cmd = Told
    BY <1>1 DEF Message, Told, Commands
  <2>6. link[d] /\ wire' = [wire EXCEPT ![d] = Append(@, m)]
    BY <1>3 DEF Tell, Post
  <2>7. \A e \in DU \ {d} : (MustHalt(e)' => MustHalt(e))
                              /\ \A n \in 0..5 : SentTo(e, n)' => SentTo(e, n)
    BY <1>1, <2>4 DEF MustHalt, SentTo
  <2>8. Told = "TERM" => MustHalt(d)
    BY <2>1, <2>6 DEF Told, MustHalt
  <2>9. MustHalt(d)' => Told = "STOP" \/ (Told # "STAR" /\ MustHalt(d))
    BY <2>8 DEF Told
  <2>10. \A n \in 0..5 : ~SentTo(d, n)'
    <3>1. \A n \in 1..5 : Startup[n] # "tell"
      BY Startups DEF Commands
    <3>2. \A n \in 0..4 : n + 1 \in 1..5
      OBVIOUS
    <3> QED
      BY <2>1, <2>2, <2>4, <3>1, <3>2 DEF SentTo
  <2> HIDE DEF m
  <2> QED
    BY <1>1, <2>5, <2>6, <2>7, <2>8, <2>9, <2>10, Sending
<1> QED
  BY <1>2, <1>3

\* A DU takes a command, or reads through its unmapped device.
LEMMA DuSteps ==
  ASSUME WireInv, NEW d \in DU, DuStep(d)
  PROVE  WireInv'
<1>1. /\ UNCHANGED <<run, missed, unstopped, link, status, job>>
      /\ du[d].alive
  BY DEF DuStep, Execute, ReadUnmapped, local, history
<1>2. /\ du \in [DU -> DuState] /\ wire \in [DU -> Seq(Message)] /\ run \in Nat
      /\ du[d] \in DuState /\ wire[d] \in Seq(Message)
  BY DEF WireInv, DuInv
<1>3. \A e \in DU : (MustHalt(e)' <=> MustHalt(e)) /\ \A n \in 0..5 : SentTo(e, n)' <=> SentTo(e, n)
  BY <1>1 DEF MustHalt, SentTo
<1>4. CASE Execute(d)
  <2> DEFINE t == Outcome(du[d], Head(wire[d]))
             v == Tail(wire[d])
  <2>1. wire[d] # <<>> /\ Head(wire[d]) \in Message /\ v \in Seq(Message)
    BY <1>2, <1>4 DEF Execute
  <2>2. t \in DuState
    BY <1>1, <1>2, <2>1, Outcomes
  <2>3. du' = [du EXCEPT ![d] = t] /\ wire' = [wire EXCEPT ![d] = v]
    BY <1>4 DEF Execute, Outcome
  <2>4. ASSUME d \notin unstopped
        PROVE  Sound(t) /\ Tame(t, v) /\ (MustHalt(d)' => Halted(t, v))
    <3>1. Sound(du[d]) /\ Tame(du[d], wire[d]) /\ (MustHalt(d) => Halted(du[d], wire[d]))
      BY <2>4 DEF WireInv, CalmInv
    <3> QED
      BY <1>2, <1>3, <2>1, <3>1, WireTaken
  <2>5. ASSUME NEW n \in 0..5, d \notin missed, link[d], t.alive, SentTo(d, n)'
        PROVE  OnItsWay(t, v, n, run)
    <3>1. OnItsWay(du[d], wire[d], n, run)
      BY <1>1, <1>3, <2>5 DEF WireInv, StartInv
    <3> QED
      BY <1>1, <1>2, <2>1, <2>5, <3>1, OneMoreTaken
  <2> HIDE DEF t, v
  <2>6. /\ du' \in [DU -> DuState] /\ wire' \in [DU -> Seq(Message)]
        /\ du'[d] = t /\ wire'[d] = v
        /\ \A e \in DU \ {d} : du'[e] = du[e] /\ wire'[e] = wire[e]
    BY <1>2, <2>1, <2>2, <2>3
  <2>7. DuInv'
    BY <1>1, <2>6 DEF WireInv, DuInv
  <2>8. CalmInv'
    BY <1>1, <1>3, <2>4, <2>6 DEF WireInv, CalmInv
  <2>9. StartInv'
    BY <1>1, <1>3, <2>5, <2>6 DEF WireInv, StartInv
  <2> QED
    BY <2>7, <2>8, <2>9 DEF WireInv
<1>5. CASE ReadUnmapped(d)
  <2>1. /\ wire' = wire /\ du' = [du EXCEPT ![d].alive = FALSE]
        /\ du[d].reader /\ ~du[d].device
    BY <1>5 DEF ReadUnmapped
  <2>2. [du[d] EXCEPT !.alive = FALSE] \in DuState /\ [du[d] EXCEPT !.alive = FALSE].alive = FALSE
    BY <1>2 DEF DuState
  <2>3. /\ du' \in [DU -> DuState] /\ ~du'[d].alive
        /\ \A e \in DU \ {d} : du'[e] = du[e]
    BY <1>2, <2>1, <2>2
  <2>4. d \in unstopped
    <3>1. ~Sound(du[d])
      BY <2>1 DEF Sound
    <3> QED
      BY <3>1 DEF WireInv, CalmInv
  <2>5. DuInv'
    BY <1>1, <2>1, <2>3 DEF WireInv, DuInv
  <2>6. CalmInv'
    BY <1>1, <1>3, <2>1, <2>3, <2>4 DEF WireInv, CalmInv
  <2>7. StartInv'
    BY <1>1, <1>3, <2>1, <2>3 DEF WireInv, StartInv
  <2> QED
    BY <2>5, <2>6, <2>7 DEF WireInv
<1> QED
  BY <1>4, <1>5 DEF DuStep

LEMMA PowerSteps ==
  ASSUME WireInv, NEW d \in DU, DuLosesPower(d)
  PROVE  WireInv'
<1>1. /\ UNCHANGED <<run, unstopped, link, status, job>> /\ missed' = missed \cup {d}
      /\ du' = [du EXCEPT ![d] = Fresh]
  BY DEF DuLosesPower, PowerCycle, local
<1>2. PICK n \in 0..Len(wire[d]) :
        wire' = [wire EXCEPT ![d] = SubSeq(wire[d], n + 1, Len(wire[d]))]
  BY DEF DuLosesPower, PowerCycle
<1>3. /\ du \in [DU -> DuState] /\ wire \in [DU -> Seq(Message)] /\ run \in Nat
      /\ wire[d] \in Seq(Message)
  BY DEF WireInv, DuInv
<1>4. \A e \in DU : (MustHalt(e)' <=> MustHalt(e)) /\ \A k \in 0..5 : SentTo(e, k)' <=> SentTo(e, k)
  BY <1>1 DEF MustHalt, SentTo
<1> DEFINE v == SubSeq(wire[d], n + 1, Len(wire[d]))
<1>5. v \in Seq(Message) /\ Fresh \in DuState
  BY <1>3 DEF Fresh, DuState, States
<1>6. ASSUME d \notin unstopped
      PROVE  Sound(Fresh) /\ Tame(Fresh, v) /\ (MustHalt(d)' => Halted(Fresh, v))
  <2>1. Tame(du[d], wire[d]) /\ (MustHalt(d) => Halted(du[d], wire[d]))
    BY <1>6 DEF WireInv, CalmInv
  <2> QED
    BY <1>3, <1>4, <2>1, WireLost
<1>7. wire' = [wire EXCEPT ![d] = v]
  BY <1>2
<1> HIDE DEF v
<1>8. /\ du' \in [DU -> DuState] /\ wire' \in [DU -> Seq(Message)]
      /\ du'[d] = Fresh /\ wire'[d] = v
      /\ \A e \in DU \ {d} : du'[e] = du[e] /\ wire'[e] = wire[e]
  BY <1>1, <1>3, <1>5, <1>7
<1>9. DuInv'
  BY <1>1, <1>8 DEF WireInv, DuInv
<1>10. CalmInv'
  BY <1>1, <1>4, <1>6, <1>8 DEF WireInv, CalmInv
<1>11. StartInv'
  BY <1>1, <1>4, <1>8 DEF WireInv, StartInv
<1> QED
  BY <1>9, <1>10, <1>11 DEF WireInv

LEMMA WireStep ==
  LocalInv /\ WireInv /\ [Next]_vars => WireInv'
<1> SUFFICES ASSUME LocalInv, WireInv, [Next]_vars PROVE WireInv'
  OBVIOUS
<1>1. AppTypeOK
  BY DEF LocalInv
<1>2. CASE Command
  BY <1>1, <1>2, GoingElsewhere, EndingAlone, ClosingSteps DEF Command
<1>3. CASE StartStep
  <2>1. ASSUME NEW d \in DU, ConfigureFrontend(d) \/ StartFrontend(d) \/ FindNoTransport(d) PROVE WireInv'
    BY <1>1, <2>1, GoingElsewhere
  <2>2. ASSUME NEW d \in DU, Invalidate(d) PROVE WireInv'
    BY <1>1, <2>2, ClosingSteps
  <2> QED
    BY <1>1, <1>3, <2>1, <2>2, GoingElsewhere, PhaseAlone, ClosingSteps, SkippingAlone, SendingMoves
       DEF StartStep
<1>4. CASE TellStep
  BY <1>1, <1>4, SendingMoves, SkippingAlone, EndingAlone, ClosingSteps DEF TellStep
<1>5. CASE \E d \in DU : DuStep(d) \/ DuLosesPower(d)
  BY <1>5, DuSteps, PowerSteps
<1>6. CASE UNCHANGED vars
  <2>1. UNCHANGED <<du, wire, run, missed, unstopped, link, status, job>>
    BY <1>6 DEF vars, duVars, local, history
  <2> QED
    BY <2>1 DEF WireInv, DuInv, CalmInv, StartInv, MustHalt, SentTo
<1> QED
  BY <1>2, <1>3, <1>4, <1>5, <1>6 DEF Next

LEMMA Lifecycle == Spec => [](LocalInv /\ WireInv)
  BY LocalStart, LocalStep, WireStart, WireStep, PTL DEF Spec

(***************************************************************************)
(* The process of a DU dies only after a STOP could not be sent to it: no  *)
(* order of start, stop, terminate, reload, failures, dropped commands and *)
(* power cycles lets TERM or STAR find a DU running (du_fsm.h,             *)
(* IFrontend::elecTerminate and IFrontend::start of du-daq, the order of   *)
(* the commands in App::start and App::stop).                              *)
(***************************************************************************)
THEOREM OnlyTheUnstoppedDie == Spec => []DiesOnlyUnstopped
<1>1. WireInv => DiesOnlyUnstopped
  BY DEF WireInv, CalmInv, Sound, DiesOnlyUnstopped
<1> QED
  BY <1>1, Lifecycle, PTL

(***************************************************************************)
(* After a start that succeeded, every DU that no command of it has missed *)
(* runs with the configuration of this start, once its wire is empty:      *)
(* whatever state earlier runs, failures and rollbacks have left it in,    *)
(* and whatever of their commands was still on its wire.                   *)
(***************************************************************************)
THEOREM StartedDusRun == Spec => []StartedAsConfigured
<1>1. LocalInv /\ WireInv => StartedAsConfigured
  <2> SUFFICES ASSUME LocalInv, WireInv, status = "running", job = NoJob,
                      NEW d \in DU, d \notin missed, wire[d] = <<>>, du[d].alive
               PROVE  du[d] = [fsm |-> "RUNNING", device |-> TRUE, reader |-> TRUE,
                               shadow |-> run, alive |-> TRUE]
    BY DEF StartedAsConfigured
  <2>1. job.of = "none"
    BY DEF NoJob
  <2>2. link[d]
    BY <2>1 DEF LocalInv, Between, Alive
  <2>3. SentTo(d, 5)
    BY <2>1 DEF SentTo
  <2>4. PICK m \in 0..5 : Took(du[d], wire[d], m, 5, run)
    BY <2>2, <2>3 DEF WireInv, StartInv, OnItsWay
  <2>5. m = 5 /\ Taken(du[d], 5, run)
    BY <2>4 DEF Took
  <2>6. du[d] \in DuState
    BY DEF WireInv, DuInv
  <2> QED
    BY <2>5, <2>6 DEF Taken, DuState
<1> QED
  BY <1>1, Lifecycle, PTL
=============================================================================
