---------------------------- MODULE EventAssembly ----------------------------
(***************************************************************************)
(* What the event builder promises its caller, without tags, deadlines, a  *)
(* heap, telemetry or an order of outputs.                                 *)
(*                                                                         *)
(* An event is opened once, with the set of DUs asked.  Each asked DU is   *)
(* heard at most once while the event is open.  An event is closed once:   *)
(* it becomes ready when some DU was heard and disappears otherwise; one   *)
(* that heard from all its DUs is closed at once.  What is ready is taken  *)
(* together and never comes back.  Nothing but `reset' discards what is    *)
(* ready.                                                                  *)
(***************************************************************************)
EXTENDS Naturals, FiniteSets

CONSTANTS
  DU,      \* detection units that may be asked
  MaxOpen  \* events open at a time

VARIABLES
  next,   \* number of the next event
  open,   \* event number -> the DUs asked and the DUs heard
  ready,  \* closed events that wait to be taken
  taken   \* numbers of the events taken

vars == <<next, open, ready, taken>>

Result(i) == [id |-> i, asked |-> open[i].asked, heard |-> open[i].heard]

\* What closing the events of S makes ready
Closed(S) == {Result(i) : i \in {j \in S : open[j].heard # {}}}

Without(S) == [i \in DOMAIN open \ S |-> open[i]]

Init == next = 0 /\ open = <<>> /\ ready = {} /\ taken = {}

\* Every call may first close some events; the rest is its own work.
Close(S) ==
  /\ open' = Without(S) /\ ready' = ready \cup Closed(S)
  /\ UNCHANGED <<next, taken>>

Open(S, dus) ==
  /\ dus # {} /\ Cardinality(DOMAIN open \ S) < MaxOpen
  /\ open' = [i \in (DOMAIN open \ S) \cup {next} |->
                IF i = next THEN [asked |-> dus, heard |-> {}] ELSE open[i]]
  /\ next' = next + 1
  /\ ready' = ready \cup Closed(S)
  /\ UNCHANGED taken

Waits(i, d) == d \in open[i].asked \ open[i].heard
Heard(i, d) == open[i].heard \cup {d}

Hear(S, i, d) ==
  /\ i \notin S /\ Waits(i, d) /\ Heard(i, d) # open[i].asked
  /\ open' = [Without(S) EXCEPT ![i].heard = Heard(i, d)]
  /\ ready' = ready \cup Closed(S)
  /\ UNCHANGED <<next, taken>>

HearLast(S, i, d) ==
  /\ i \notin S /\ Waits(i, d) /\ Heard(i, d) = open[i].asked
  /\ open' = Without(S \cup {i})
  /\ ready' = ready \cup Closed(S)
                    \cup {[id |-> i, asked |-> open[i].asked, heard |-> open[i].asked]}
  /\ UNCHANGED <<next, taken>>

Take(S) ==
  /\ open' = Without(S) /\ ready' = {}
  /\ taken' = taken \cup {r.id : r \in ready \cup Closed(S)}
  /\ UNCHANGED next

\* A new run starts with nothing open; what was ready and not taken is gone.
Reset ==
  /\ open = <<>> /\ ready' = {}
  /\ UNCHANGED <<next, open, taken>>

Next ==
  \/ Reset
  \/ \E S \in SUBSET DOMAIN open :
       \/ Close(S)
       \/ Take(S)
       \/ \E dus \in SUBSET DU : Open(S, dus)
       \/ \E i \in DOMAIN open, d \in DU : Hear(S, i, d) \/ HearLast(S, i, d)

Spec == Init /\ [][Next]_vars
=============================================================================
