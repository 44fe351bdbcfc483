------------------------------ MODULE Frontend ------------------------------
(***************************************************************************)
(* The receiving side of the central station for one detection unit        *)
(* (grand-daq/src/frontend.cpp, comm.cpp, and the delimiting of packets in *)
(* data_handler.cpp).                                                      *)
(*                                                                         *)
(* The receive thread of ZmqComm puts what arrives into a ring of bytes.   *)
(* The DAQ thread looks at the ring under ring_mutex_, calls the data      *)
(* handler without it, and takes the mutex again to consume what the       *)
(* handler says.  App calls configure, start, stop and unconfigure while   *)
(* both threads go on.                                                     *)
(*                                                                         *)
(* Abstractions.  One ZeroMQ payload is one chunk: a packet of the DU, or  *)
(* bytes without a header the handler knows, which are dropped one by one  *)
(* (no header is found within them).  The DU's messages hold one packet    *)
(* each, so no packet waits for its rest.  What the handler does with a    *)
(* packet is in GateLogic (T2) and Builder (DAQEVENT); it does not throw.  *)
(* App configures a frontend that is unconfigured or stopped; the test     *)
(* hooks that take a transport away from a running one are left out, and   *)
(* so is daqThreadDebug.                                                   *)
(***************************************************************************)
EXTENDS Naturals, SequencesExt

CONSTANTS
  Capacity,          \* of the ring, in bytes
  Lengths,           \* lengths of the chunks
  MaxChunks, MaxRuns \* bounds of the model

ASSUME FrontendConstants ==
  /\ Capacity \in Nat /\ Lengths \subseteq Nat \ {0}
  /\ MaxChunks \in Nat /\ MaxRuns \in Nat

VARIABLES
  exists,   \* ring_buffer_ is not null
  ring,     \* the chunks in it, with what is left of each
  accepts,  \* ring_accepts_inbound_
  running,  \* running_
  linked,   \* recv_loop_running_
  recv,     \* the receive thread, and the chunk it has got
  daq,      \* the DAQ thread, and the chunk the handler looks at
  app,      \* how far App's call is
  sent,     \* chunks that have arrived so far
  runs,     \* calls of configure so far
  taken,    \* history: packets put into the ring since configure
  handled   \* history: packets the handler has processed since configure

threads == <<recv, daq>>
history == <<taken, handled>>
vars == <<exists, ring, accepts, running, linked, threads, app, sent, runs, history>>

\* run (history): the calls of configure before it arrived
None == [n |-> 0, run |-> 0, packet |-> FALSE, left |-> 0]
Off  == [at |-> "none", chunk |-> None]

Init ==
  /\ exists = FALSE /\ ring = <<>>
  /\ accepts = FALSE /\ running = FALSE /\ linked = FALSE
  /\ recv = Off /\ daq = Off
  /\ app = "off" /\ sent = 0 /\ runs = 0
  /\ taken = <<>> /\ handled = <<>>

Free == Capacity - FoldLeft(LAMBDA sum, c : sum + c.left, 0, ring)

-----------------------------------------------------------------------------
(***************************************************************************)
(* The receive thread: recvLoop and onZmqPayload                           *)
(***************************************************************************)
Receive(len, packet) ==
  /\ recv.at = "loop" /\ linked
  /\ sent < MaxChunks
  /\ sent' = sent + 1
  /\ recv' = [at |-> "payload",
              chunk |-> [n |-> sent + 1, run |-> runs, packet |-> packet, left |-> len]]
  /\ UNCHANGED <<exists, ring, accepts, running, linked, daq, app, runs, history>>

Fits(c) == c.left <= Free

\* A chunk that finds no room is dropped as a whole.
Accept ==
  /\ recv.at = "payload" /\ exists
  /\ accepts /\ Fits(recv.chunk)
  /\ ring' = Append(ring, recv.chunk)
  /\ taken' = IF recv.chunk.packet THEN Append(taken, recv.chunk.n) ELSE taken
  /\ recv' = [at |-> "loop", chunk |-> None]
  /\ UNCHANGED <<exists, accepts, running, linked, daq, app, sent, runs, handled>>

Drop ==
  /\ recv.at = "payload" /\ exists
  /\ ~accepts \/ ~Fits(recv.chunk)
  /\ recv' = [at |-> "loop", chunk |-> None]
  /\ UNCHANGED <<exists, ring, accepts, running, linked, daq, app, sent, runs, history>>

LeaveReceiveLoop ==
  /\ recv.at = "loop" /\ ~linked
  /\ recv' = Off
  /\ UNCHANGED <<exists, ring, accepts, running, linked, daq, app, sent, runs, history>>

RecvStep == Accept \/ Drop \/ LeaveReceiveLoop

-----------------------------------------------------------------------------
(***************************************************************************)
(* The DAQ thread                                                          *)
(***************************************************************************)
\* Mutant: the loop does not look at running_.
OuterForever ==
  /\ daq.at = "outer"
  /\ daq' = [daq EXCEPT !.at = "look"]
  /\ UNCHANGED <<exists, ring, accepts, running, linked, recv, app, sent, runs, history>>

\* while (running_)
Outer ==
  /\ daq.at = "outer"
  /\ daq' = IF running THEN [daq EXCEPT !.at = "look"] ELSE Off
  /\ UNCHANGED <<exists, ring, accepts, running, linked, recv, app, sent, runs, history>>

\* With the mutex, at the head of the inner loop: the head of the ring goes
\* to the handler, if there is one.
Look(r) ==
  IF r = <<>> THEN [at |-> "outer", chunk |-> None] ELSE [at |-> "handler", chunk |-> Head(r)]

FirstLook ==
  /\ daq.at = "look"
  /\ daq' = Look(ring)
  /\ UNCHANGED <<exists, ring, accepts, running, linked, recv, app, sent, runs, history>>

\* Mutant: one byte is consumed, whatever the handler says.
RestByByte(r, c) ==
  IF c.left = 1 THEN Tail(r) ELSE <<[Head(r) EXCEPT !.left = @ - 1]>> \o Tail(r)

\* handle_data and consume: all of a packet, one byte of anything else
Rest(r, c) ==
  IF c.packet \/ c.left = 1 THEN Tail(r) ELSE <<[Head(r) EXCEPT !.left = @ - 1]>> \o Tail(r)

HandleAndConsume ==
  /\ daq.at = "handler"
  /\ handled' = IF daq.chunk.packet THEN Append(handled, daq.chunk.n) ELSE handled
  /\ ring' = Rest(ring, daq.chunk)
  /\ daq' = Look(ring')
  /\ UNCHANGED <<exists, accepts, running, linked, recv, app, sent, runs, taken>>

DaqStep == Outer \/ FirstLook \/ HandleAndConsume

-----------------------------------------------------------------------------
(***************************************************************************)
(* App: configure                                                          *)
(***************************************************************************)
EmptyRing ==
  /\ app \in {"off", "rest"} /\ runs < MaxRuns
  /\ app' = "opening" /\ runs' = runs + 1
  /\ exists' = TRUE /\ ring' = <<>>
  /\ taken' = <<>> /\ handled' = <<>>
  /\ UNCHANGED <<accepts, running, linked, threads, sent>>

OpenRing ==
  /\ app = "opening"
  /\ app' = "linking" /\ accepts' = TRUE
  /\ UNCHANGED <<exists, ring, running, linked, threads, sent, runs, history>>

\* ZmqComm::start, which leaves a receive loop that is there alone
Link ==
  /\ app = "linking"
  /\ app' = "configured" /\ linked' = TRUE
  /\ recv' = IF linked THEN recv ELSE [at |-> "loop", chunk |-> None]
  /\ UNCHANGED <<exists, ring, accepts, running, daq, sent, runs, history>>

\* It cannot connect; configure throws, and App rolls back.
LinkFails ==
  /\ app = "linking" /\ ~linked
  /\ app' = "configured" /\ accepts' = FALSE
  /\ UNCHANGED <<exists, ring, running, linked, threads, sent, runs, history>>

(***************************************************************************)
(* App: start and stop                                                     *)
(***************************************************************************)
Start ==
  /\ app = "configured" /\ linked
  /\ app' = "started" /\ running' = TRUE
  /\ daq' = [at |-> "outer", chunk |-> None]
  /\ UNCHANGED <<exists, ring, accepts, linked, recv, sent, runs, history>>

StopBegin ==
  /\ app = "started"
  /\ app' = "joining" /\ running' = FALSE
  /\ UNCHANGED <<exists, ring, accepts, linked, threads, sent, runs, history>>

\* Mutant: the DAQ thread is not joined.
StopDetached ==
  /\ app = "joining"
  /\ app' = "closing" /\ accepts' = FALSE
  /\ UNCHANGED <<exists, ring, running, linked, threads, sent, runs, history>>

StopJoined ==
  /\ app = "joining" /\ daq.at = "none"
  /\ app' = "closing" /\ accepts' = FALSE
  /\ UNCHANGED <<exists, ring, running, linked, threads, sent, runs, history>>

\* App rolls a start back: stop of a frontend that is not running joins no
\* thread, and unconfigure is to follow.
StopUnstarted ==
  /\ app = "configured"
  /\ app' = "undoing" /\ accepts' = FALSE
  /\ UNCHANGED <<exists, ring, running, linked, threads, sent, runs, history>>

StopClear ==
  /\ app \in {"closing", "undoing"}
  /\ app' = IF app = "closing" THEN "rest" ELSE "undone"
  /\ ring' = <<>>
  /\ UNCHANGED <<exists, accepts, running, linked, threads, sent, runs, history>>

(***************************************************************************)
(* App: unconfigure                                                        *)
(***************************************************************************)
Unlink ==
  /\ app \in {"rest", "undone"}
  /\ app' = "unlinking" /\ accepts' = FALSE /\ linked' = FALSE
  /\ UNCHANGED <<exists, ring, running, threads, sent, runs, history>>

Unlinked ==
  /\ app = "unlinking" /\ recv.at = "none"
  /\ app' = "off" /\ exists' = FALSE /\ ring' = <<>>
  /\ UNCHANGED <<accepts, running, linked, threads, sent, runs, history>>

AppStep ==
  \/ OpenRing \/ Link \/ LinkFails
  \/ StopJoined \/ StopClear \/ Unlinked

Next ==
  \/ \E len \in Lengths, packet \in BOOLEAN : Receive(len, packet)
  \/ RecvStep \/ DaqStep
  \/ EmptyRing \/ Start \/ StopBegin \/ StopUnstarted \/ Unlink
  \/ AppStep

Spec == Init /\ [][Next]_vars

\* The threads are scheduled, and App goes on with the call it has begun; when
\* it makes one, and what arrives, is open.
FairSpec == Spec /\ WF_vars(RecvStep) /\ WF_vars(DaqStep) /\ WF_vars(AppStep)

-----------------------------------------------------------------------------
(***************************************************************************)
(* Properties                                                              *)
(***************************************************************************)
\* The packets of a ring, and those taken and not yet handled
Packets(r) == {c.n : c \in {x \in Range(r) : x.packet}}
Unhandled  == {taken[i] : i \in Len(handled) + 1..Len(taken)}

TypeOK ==
  /\ {exists, accepts, running, linked} \subseteq BOOLEAN
  /\ recv.at \in {"none", "loop", "payload"}
  /\ daq.at \in {"none", "outer", "look", "handler"}
  /\ app \in {"off", "opening", "linking", "configured", "started", "joining", "closing",
              "undoing", "rest", "undone", "unlinking"}
  /\ Free \in 0..Capacity /\ sent \in 0..MaxChunks /\ runs \in 0..MaxRuns

\* Whatever the threads are in the middle of when App starts, stops and
\* configures, the handler has processed, in order and once, the packets put
\* into the ring since configure, and the ring has the rest, as it was put
\* there; a stop may only cut the rest off, and leaves the ring empty
\* (frontend.cpp:81-166, 186-203).
EachPacketOnce ==
  /\ IsPrefix(handled, taken)
  /\ accepts => Packets(ring) = Unhandled
  /\ \A i, j \in DOMAIN ring : i < j => ring[i].n < ring[j].n
  /\ app \in {"off", "rest", "undone", "unlinking"} => ring = <<>>

\* frontend.h:44 (in Chinese) says that after stop what arrives does not enter
\* the ring, which is cleared, so that packets do not pass from one
\* App::start() into the next.  So a packet that reached the station before
\* configure should not reach the handler after it.  The receive thread holds it outside of any lock
\* (comm.cpp:329-389) and asks ring_accepts_inbound_ when it has ring_mutex_
\* (frontend.cpp:104), by then perhaps that of the next run.
NoPacketOfEarlierRun ==
  daq.at = "handler" /\ daq.chunk.packet => daq.chunk.run = runs

\* The ring stays under those who use it without ring_mutex_, or trust it to
\* be there.  The packet the handler looks at is still at the head when it is
\* consumed (utils.h, "assert(n <= size_)"), and no payload finds the ring gone,
\* for which onZmqPayload aborts the process (frontend.cpp:90).
RingStaysForItsUsers ==
  /\ daq.at = "handler" => exists /\ ring # <<>> /\ Head(ring) = daq.chunk
  /\ recv.at # "none" => exists

\* stop returns, if the DU does not send for ever: the DAQ thread empties the
\* ring before it looks at running_ again.
StopReturns == (app = "joining") ~> (app = "rest")
=============================================================================
