------------------------------- MODULE DuFsm -------------------------------
(***************************************************************************)
(* The state machine of a detection unit (du-daq/src/du_fsm.h), the        *)
(* actions of DUDAQApp and IFrontend behind its commands, and the thread   *)
(* that reads the electronics.                                             *)
(*                                                                         *)
(* One thread of the DU takes the commands of the central station one by   *)
(* one and carries each out before it takes the next.  A command the state *)
(* does not react to is ignored.  Nothing is answered: the central station *)
(* does not learn what became of a command.                                *)
(*                                                                         *)
(* Abstractions.  What is written to the registers is the number of the    *)
(* run whose CONF brought it.  DOTRIGGER, which leaves this state alone,   *)
(* and CONFONE, which only sets the DU's id, are left out; so are ERROR    *)
(* and OneCONFIGURED, which no command leads to (every action returns      *)
(* true, and nobody sends EConfigureOne).                                  *)
(***************************************************************************)
EXTENDS Naturals, Sequences

CONSTANTS
  DU,            \* detection units
  MaxPowerCycles \* bound of the model: a DU loses its power or is started again

VARIABLES
  du,     \* the software of each DU
  wire,   \* commands on their way to each DU
  cycles  \* bound of the model: power cycles so far

duVars == <<du, wire, cycles>>

States   == {"IDLE", "INITIALIZED", "CONFIGURED", "RUNNING"}
Commands == {"STOP", "TERM", "INIT", "CONF", "STAR"}
Message  == [cmd : Commands, run : Nat]

\* device: m_axiPtr is mapped; reader: the input thread exists; shadow: the
\* run whose registers are set; alive: the process has not died
Fresh == [fsm |-> "IDLE", device |-> FALSE, reader |-> FALSE, shadow |-> 0, alive |-> TRUE]

DuInit ==
  /\ du = [d \in DU |-> Fresh]
  /\ wire = [d \in DU |-> <<>>]
  /\ cycles = 0

\* Mutant: RUNNING does not react to STOP.
DeafReaction ==
  [IDLE        |-> [INIT |-> "INITIALIZED", TERM |-> "IDLE"],
   INITIALIZED |-> [CONF |-> "CONFIGURED", TERM |-> "IDLE"],
   CONFIGURED  |-> [STAR |-> "RUNNING", TERM |-> "IDLE"],
   RUNNING     |-> [TERM |-> "IDLE"]]

\* The reactions each state declares
Reaction ==
  [IDLE        |-> [INIT |-> "INITIALIZED", TERM |-> "IDLE"],
   INITIALIZED |-> [CONF |-> "CONFIGURED", TERM |-> "IDLE"],
   CONFIGURED  |-> [STAR |-> "RUNNING", TERM |-> "IDLE"],
   RUNNING     |-> [STOP |-> "CONFIGURED", TERM |-> "IDLE"]]

Reacts(s, c) == c \in DOMAIN Reaction[s.fsm]

\* elecInit, elecConfig, IFrontend::stop and elecTerminate.  The last one
\* unmaps the device and leaves the input thread as it is.
Moved(s, m) ==
  [fsm    |-> Reaction[s.fsm][m.cmd],
   device |-> IF m.cmd = "INIT" THEN TRUE ELSE s.device /\ m.cmd # "TERM",
   reader |-> IF m.cmd = "STAR" THEN TRUE ELSE s.reader /\ m.cmd # "STOP",
   shadow |-> IF m.cmd = "INIT" THEN 0 ELSE IF m.cmd = "CONF" THEN m.run ELSE s.shadow,
   alive  |-> TRUE]

\* IFrontend::start assigns to m_thread: with a thread in it, the process ends.
Collides(s, m) == m.cmd = "STAR" /\ s.reader

Execute(d) ==
  /\ du[d].alive /\ wire[d] # <<>>
  /\ LET m == Head(wire[d]) IN
       du' = [du EXCEPT ![d] =
                IF ~Reacts(@, m.cmd) THEN @
                ELSE IF Collides(@, m) THEN [@ EXCEPT !.alive = FALSE]
                ELSE Moved(@, m)]
  /\ wire' = [wire EXCEPT ![d] = Tail(@)]
  /\ UNCHANGED cycles

\* elecReadData of the input thread: assert(m_axiPtr != NULL), then a read
ReadUnmapped(d) ==
  /\ du[d].alive /\ du[d].reader /\ ~du[d].device
  /\ du' = [du EXCEPT ![d].alive = FALSE]
  /\ UNCHANGED <<wire, cycles>>

\* The DU starts afresh; of the commands on the way the first may be lost
\* with the old connection.
PowerCycle(d) ==
  /\ cycles < MaxPowerCycles
  /\ cycles' = cycles + 1
  /\ du' = [du EXCEPT ![d] = Fresh]
  /\ \E n \in 0..Len(wire[d]) : wire' = [wire EXCEPT ![d] = SubSeq(@, n + 1, Len(@))]

DuTypeOK ==
  /\ du \in [DU -> [fsm : States, device : BOOLEAN, reader : BOOLEAN, shadow : Nat,
                    alive : BOOLEAN]]
  /\ wire \in [DU -> Seq(Message)]
  /\ cycles \in 0..MaxPowerCycles
=============================================================================
