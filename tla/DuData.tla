------------------------------- MODULE DuData -------------------------------
(***************************************************************************)
(* The data path of a detection unit (du-daq/src/data_manager.cpp and the  *)
(* queues of dudaq_app.cpp).                                               *)
(*                                                                         *)
(* Three threads meet here.  The readout thread calls addEvent for each    *)
(* event of the electronics: it keeps the trace in a ring of bytes with an *)
(* index by time stamp, and collects the time stamps into T2 messages, one *)
(* per second.  The T3 worker takes triggers from t3Q and answers with the *)
(* traces the index leads to.  The network thread carries out STAR and     *)
(* STOP, queues triggers, and sends what is in outQ.  addEvent and accept  *)
(* exclude each other (m_mutex_data); t3Q is pushed without the mutex its  *)
(* consumer waits with.                                                    *)
(*                                                                         *)
(* Abstractions.  A cell of the ring stands for a stretch of bytes and     *)
(* holds the number of the event it belongs to.  A hit is its time stamp.  *)
(* The two ends of the deque behind t3Q are touched as if atomically,      *)
(* although emplace_back and pop_front race.  The monitor's datagrams, the *)
(* rates and m_timeMap, which nobody reads, are left out; so is DAQ mode   *)
(* 1, which keeps nothing (addRawEvent).                                   *)
(***************************************************************************)
EXTENDS Integers, SequencesExt, FiniteSetsExt

CONSTANTS
  RingSize,    \* M_RINGBUFSZ, in cells
  Sizes,       \* cells an event may take: its size is set by CONF
  Slots,       \* M_TIMESTAMPRINGSZ
  Times,       \* time stamps, in fractions of a second
  Second,      \* timeCut
  T2Capacity,  \* hits m_duTimeStampSave has room for
  OutCapacity, \* m_outQCapacity
  T3Capacity,  \* m_t3QCapacity
  Modes,       \* DAQ modes of the runs
  Requests,    \* time stamps of the triggers that may come, as sequences
  MaxEvents, MaxRuns, MaxTriggers, MaxBack \* bounds of the model

ASSUME DuDataConstants ==
  /\ RingSize \in Nat \ {0} /\ Sizes \subseteq 1..RingSize
  /\ Times \subseteq Nat \ {0} /\ Second \in Nat \ {0}
  /\ Slots \in Nat
  /\ \A sz \in Sizes : Slots > RingSize \div sz   \* comment at data_manager.h:35
  /\ T2Capacity \in Nat \ {0} /\ OutCapacity \in Nat /\ T3Capacity \in Nat
  /\ Modes \subseteq {2, 3} /\ Requests \subseteq Seq(Times)
  /\ {MaxEvents, MaxRuns, MaxTriggers, MaxBack} \subseteq Nat

VARIABLES
  ring,    \* m_ringBuffer, m_ringOffset, m_rawDataSize, m_timestampRing, m_timestampIndex
  t2,      \* m_duTimeStampSave and szSended
  outQ,    \* messages to the central station
  t3Q,     \* triggers for the worker
  worker,  \* the T3 worker; missed (history): a trigger came before its sleep
  reading, \* the readout thread runs, in this DAQ mode; 0 if not
  size,    \* size of the events of this run
  seen,    \* history: the events, in order
  told,    \* history: the hits of each T2 message that was made, in order
  fate,    \* history: numbers of the T2 messages sent, and of those dropped
  count    \* history: runs, triggers queued and taken, steps back of the clock

data == <<ring, t2>>
vars == <<ring, t2, outQ, t3Q, worker, reading, size, seen, told, fate, count>>

Awake == [at |-> "test", todo |-> <<>>, missed |-> FALSE]

Init ==
  /\ ring = [cells |-> [i \in 0..RingSize - 1 |-> 0], offset |-> 0, raw |-> 0,
             slots |-> [i \in 0..Slots - 1 |-> 0], index |-> <<>>]
  /\ t2 = [hits |-> <<>>, sent |-> 0]
  /\ outQ = <<>> /\ t3Q = <<>> /\ worker = Awake
  /\ reading = 0 /\ size = 0
  /\ seen = <<>> /\ told = <<>> /\ fate = [sent |-> <<>>, lost |-> {}]
  /\ count = [runs |-> 0, pushed |-> 0, taken |-> 0, back |-> 0]

\* enqueueOutbound drops the newest message when the queue is full, whatever
\* its type.
Queued(q, m) == IF Len(q) >= OutCapacity THEN q ELSE Append(q, m)

-----------------------------------------------------------------------------
(***************************************************************************)
(* The ring of traces                                                      *)
(***************************************************************************)
\* Where the next trace goes: at the beginning when the end is too near
Place(r, sz) == IF r.offset + sz > RingSize THEN 0 ELSE r.offset

\* Mutant: the slot is computed from the offset behind the trace.
StoredBehind(r, n, ts, sz) ==
  LET at   == Place(r, sz)
      slot == (at + sz) \div sz
  IN [cells  |-> [i \in DOMAIN r.cells |-> IF i \in at..at + sz - 1 THEN n ELSE r.cells[i]],
      offset |-> at + sz,
      raw    |-> sz,
      slots  |-> [r.slots EXCEPT ![slot] = ts],
      index  |-> [t \in (DOMAIN r.index \ {r.slots[slot]}) \cup {ts} |->
                    IF t = ts THEN slot ELSE r.index[t]]]

\* Mutant: the entry to erase is read from the slot when it is already stored.
StoredLate(r, n, ts, sz) ==
  LET at == Place(r, sz)
  IN [cells  |-> [i \in DOMAIN r.cells |-> IF i \in at..at + sz - 1 THEN n ELSE r.cells[i]],
      offset |-> at + sz,
      raw    |-> sz,
      slots  |-> [r.slots EXCEPT ![at \div sz] = ts],
      index  |-> [t \in DOMAIN r.index \ {ts} |-> r.index[t]]]

\* appendRingBuffer: event n of size sz with time stamp ts
Stored(r, n, ts, sz) ==
  LET at   == Place(r, sz)
      slot == at \div sz
  IN [cells  |-> [i \in DOMAIN r.cells |-> IF i \in at..at + sz - 1 THEN n ELSE r.cells[i]],
      offset |-> at + sz,
      raw    |-> sz,
      slots  |-> [r.slots EXCEPT ![slot] = ts],
      index  |-> [t \in (DOMAIN r.index \ {r.slots[slot]}) \cup {ts} |->
                    IF t = ts THEN slot ELSE r.index[t]]]

\* The trace acceptT3Trigger copies for an indexed time stamp.  It takes every
\* trace to have the size of the latest.  Without a trace the message is empty.
Trace(r, ts) ==
  LET from == r.index[ts] * r.raw
  IN IF r.slots[r.index[ts]] = ts THEN [i \in 1..r.raw |-> r.cells[from + i - 1]] ELSE <<>>

\* There is an answer, unless the trace would reach over the end.
Answers(r, ts) ==
  /\ ts \in DOMAIN r.index
  /\ r.slots[r.index[ts]] = ts => (r.index[ts] + 1) * r.raw <= RingSize

-----------------------------------------------------------------------------
(***************************************************************************)
(* The T2 messages                                                         *)
(***************************************************************************)
Unsent(b) == SubSeq(b.hits, b.sent + 1, Len(b.hits))

\* Mutant: the unsent hits are not moved to the front.
CompressedInPlace(b) ==
  IF Len(b.hits) < T2Capacity THEN b
  ELSE [hits |-> SubSeq(b.hits, 1, Len(b.hits) - b.sent), sent |-> 0]

\* When the buffer has no room for one more hit, what is sent goes.
Compressed(b) ==
  IF Len(b.hits) < T2Capacity THEN b ELSE [hits |-> Unsent(b), sent |-> 0]

\* The hit that comes is more than a second behind the beginning of the second
\* of the first unsent one (or before it: the difference is unsigned).
Overdue(b, ts) ==
  LET start == (Head(Append(Unsent(b), ts)) \div Second) * Second
  IN ts < start \/ ts > start + Second

\* no (history): which of the T2 messages it is
T2Message(b) == [kind |-> "T2", ts |-> 0, load |-> Unsent(b), no |-> Len(told) + 1]

\* What becomes of the next one
Dropped == IF Len(outQ) >= OutCapacity THEN {Len(told) + 1} ELSE {}

\* A message with the unsent hits is made: addEvent and lastAddEvent go on as
\* if it had been sent.
Tells(b) ==
  /\ outQ' = Queued(outQ, T2Message(b))
  /\ told' = Append(told, Unsent(b))
  /\ fate' = [fate EXCEPT !.lost = @ \cup Dropped]

-----------------------------------------------------------------------------
(***************************************************************************)
(* The readout thread                                                      *)
(***************************************************************************)
\* addEvent.  m_mutex_data keeps it out while the worker answers.  Bounds: the
\* FPGA's event rate leaves room in the T2 buffer for the hits of a second,
\* and the clock seldom steps back.
AddEvent(ts) ==
  /\ reading # 0 /\ worker.at # "answer"
  /\ Len(seen) < MaxEvents
  /\ LET back == seen # <<>> /\ ts < Last(seen).ts
         room == Compressed(t2)
         due  == Overdue(room, ts)
     IN /\ back => count.back < MaxBack
        /\ Len(room.hits) < T2Capacity
        /\ count' = [count EXCEPT !.back = IF back THEN @ + 1 ELSE @]
        /\ ring' = Stored(ring, Len(seen) + 1, ts, size)
        /\ t2' = [hits |-> Append(room.hits, ts),
                  sent |-> IF due THEN Len(room.hits) ELSE room.sent]
        /\ IF due THEN Tells(room) ELSE UNCHANGED <<outQ, told, fate>>
  /\ seen' = Append(seen, [ts |-> ts, size |-> size])
  /\ UNCHANGED <<t3Q, worker, reading, size>>

\* addEvent in mode 3 with an event of the ten-second trigger
AddPeriodic ==
  /\ reading = 3
  /\ outQ' = Queued(outQ, [kind |-> "raw", ts |-> 0, load |-> <<>>, no |-> 0])
  /\ UNCHANGED <<data, t3Q, worker, reading, size, seen, told, fate, count>>

-----------------------------------------------------------------------------
(***************************************************************************)
(* The network thread                                                      *)
(***************************************************************************)
\* STAR: the readout thread is created.  Neither buffer is reset.
StartReadout ==
  /\ reading = 0 /\ count.runs < MaxRuns
  /\ reading' \in Modes /\ size' \in Sizes
  /\ count' = [count EXCEPT !.runs = @ + 1]
  /\ UNCHANGED <<data, outQ, t3Q, worker, seen, told, fate>>

\* STOP: the readout thread is joined; in mode 2 lastAddEvent sends the rest,
\* be it empty.
StopReadout ==
  /\ reading # 0
  /\ reading' = 0
  /\ IF reading = 2
     THEN Tells(t2) /\ t2' = [t2 EXCEPT !.sent = Len(t2.hits)]
     ELSE UNCHANGED <<t2, outQ, told, fate>>
  /\ UNCHANGED <<ring, t3Q, worker, size, seen, count>>

\* DOTRIGGER: push and notify_one, both without m_t3Mutex
PushTrigger(req) ==
  /\ count.pushed < MaxTriggers
  /\ Len(t3Q) < T3Capacity
  /\ t3Q' = Append(t3Q, req)
  /\ worker' = CASE worker.at = "asleep" -> Awake
                 [] worker.at = "block"  -> [worker EXCEPT !.missed = TRUE]
                 [] OTHER                -> worker
  /\ count' = [count EXCEPT !.pushed = @ + 1]
  /\ UNCHANGED <<data, outQ, reading, size, seen, told, fate>>

\* The next message goes to the socket.
Send ==
  /\ outQ # <<>>
  /\ outQ' = Tail(outQ)
  /\ fate' = IF Head(outQ).kind = "T2" THEN [fate EXCEPT !.sent = Append(@, Head(outQ).no)]
             ELSE fate
  /\ UNCHANGED <<data, t3Q, worker, reading, size, seen, told, count>>

-----------------------------------------------------------------------------
(***************************************************************************)
(* The T3 worker                                                           *)
(***************************************************************************)
TakeTrigger ==
  /\ worker.at = "test" /\ t3Q # <<>>
  /\ worker' = [worker EXCEPT !.at = "taken", !.todo = Head(t3Q)]
  /\ t3Q' = Tail(t3Q)
  /\ count' = [count EXCEPT !.taken = @ + 1]
  /\ UNCHANGED <<data, outQ, reading, size, seen, told, fate>>

FindNone ==
  /\ worker.at = "test" /\ t3Q = <<>>
  /\ worker' = [worker EXCEPT !.at = "block"]
  /\ UNCHANGED <<data, outQ, t3Q, reading, size, seen, told, fate, count>>

Sleep ==
  /\ worker.at = "block"
  /\ worker' = [worker EXCEPT !.at = "asleep"]
  /\ UNCHANGED <<data, outQ, t3Q, reading, size, seen, told, fate, count>>

\* accept takes m_mutex_data
Lock ==
  /\ worker.at = "taken"
  /\ worker' = [worker EXCEPT !.at = "answer"]
  /\ UNCHANGED <<data, outQ, t3Q, reading, size, seen, told, fate, count>>

\* acceptT3Trigger: one answer for each time stamp, named once or more often,
\* that has one
Answer ==
  /\ worker.at = "answer" /\ worker.todo # <<>>
  /\ LET ts == Head(worker.todo)
     IN /\ worker' = [worker EXCEPT !.todo = SelectSeq(@, LAMBDA t : t # ts)]
        /\ outQ' = IF Answers(ring, ts)
                   THEN Queued(outQ, [kind |-> "event", ts |-> ts, load |-> Trace(ring, ts), no |-> 0])
                   ELSE outQ
  /\ UNCHANGED <<data, t3Q, reading, size, seen, told, fate, count>>

\* Mutant: the worker waits without its predicate.
SleepAtOnce ==
  /\ worker.at = "answer" /\ worker.todo = <<>>
  /\ worker' = [Awake EXCEPT !.at = "block"]
  /\ UNCHANGED <<data, outQ, t3Q, reading, size, seen, told, fate, count>>

Unlock ==
  /\ worker.at = "answer" /\ worker.todo = <<>>
  /\ worker' = Awake
  /\ UNCHANGED <<data, outQ, t3Q, reading, size, seen, told, fate, count>>

WorkerStep == TakeTrigger \/ FindNone \/ Sleep \/ Lock \/ Answer \/ Unlock

Next ==
  \/ \E ts \in Times : AddEvent(ts)
  \/ AddPeriodic
  \/ StartReadout \/ StopReadout
  \/ \E req \in Requests : PushTrigger(req)
  \/ Send
  \/ WorkerStep

Spec == Init /\ [][Next]_vars
\* The worker is scheduled, and gets the mutex: the readout thread sleeps
\* 100 us between two events.
FairSpec == Spec /\ WF_vars(WorkerStep)

-----------------------------------------------------------------------------
(***************************************************************************)
(* Properties                                                              *)
(***************************************************************************)
TypeOK ==
  /\ ring.cells \in [0..RingSize - 1 -> 0..MaxEvents]
  /\ ring.offset \in 0..RingSize /\ ring.raw \in Sizes \cup {0}
  /\ ring.slots \in [0..Slots - 1 -> Times \cup {0}]
  /\ DOMAIN ring.index \subseteq Times
  /\ \A ts \in DOMAIN ring.index : ring.index[ts] \in 0..Slots - 1
  /\ t2.hits \in Seq(Times) /\ t2.sent \in 0..Len(t2.hits) /\ Len(t2.hits) <= T2Capacity
  /\ Len(outQ) <= OutCapacity
  /\ t3Q \in Seq(Requests) /\ Len(t3Q) <= T3Capacity
  /\ worker.at \in {"test", "block", "asleep", "taken", "answer"} /\ worker.missed \in BOOLEAN
  /\ reading \in Modes \cup {0} /\ size \in Sizes \cup {0}
  /\ seen \in Seq([ts : Times, size : Sizes])

\* What the worker answers to a trigger is the whole trace of an event with
\* the time stamp asked for, whatever the readout thread has overwritten
\* between the hit and the answer (data_manager.cpp:436-462).
AnswersAreTheTrace ==
  \A i \in DOMAIN outQ : outQ[i].kind = "event" =>
    \E n \in DOMAIN seen :
      /\ seen[n].ts = outQ[i].ts
      /\ outQ[i].load = [c \in 1..seen[n].size |-> n]

\* As many of the latest events as the ring has room for can be found by their
\* time stamp, however often the ring has wrapped around, and runs have ended
\* and begun.  A time stamp that has come twice is exempt: the slot of the
\* first takes the entry of the second with it when it is reused.
RecentIsFound ==
  \A n \in DOMAIN seen :
    LET e == seen[n]
    IN (/\ Len(seen) - n < RingSize \div e.size
        /\ \A m \in DOMAIN seen : m # n => seen[m].ts # e.ts)
       => Answers(ring, e.ts) /\ Trace(ring, e.ts) = [c \in 1..e.size |-> n]

\* Every hit is in one T2 message, or waits for the next; in their order,
\* through compressions of the buffer, stops and starts.
HitsInMessages == FlattenSeq(told) \o Unsent(t2) = [n \in DOMAIN seen |-> seen[n].ts]

\* The messages that were not dropped on a full queue are sent once and in
\* order, or still wait in it, with the hits they were made of.
MessagesInOrder ==
  LET queued == {i \in DOMAIN outQ : outQ[i].kind = "T2"}
  IN /\ {fate.sent[i] : i \in DOMAIN fate.sent} \cup {outQ[i].no : i \in queued}
          = (DOMAIN told) \ fate.lost
     /\ \A i, j \in DOMAIN fate.sent : i < j => fate.sent[i] < fate.sent[j]
     /\ \A j \in queued :
          /\ outQ[j].load = told[outQ[j].no]
          /\ \A i \in DOMAIN fate.sent : fate.sent[i] < outQ[j].no
          /\ \A i \in queued : i < j => outQ[i].no < outQ[j].no

\* No hit is told twice, or out of order, to the central station, and one is
\* lost only with its whole message, when outQ was full (dudaq_app.cpp:198):
\* addEvent and lastAddEvent take a message for sent either way.  The hits of
\* a message are at most a second behind the beginning of the second of its
\* first, although the clock may step back (data_manager.cpp:344-377).
HitsToldBySecond ==
  /\ HitsInMessages /\ MessagesInOrder
  /\ \A i \in DOMAIN told : \A j \in DOMAIN told[i] :
       LET start == (told[i][1] \div Second) * Second
       IN told[i][j] \in start..start + Second

\* The worker sleeps, and a trigger is queued: it was pushed between the
\* worker's look at the queue and its sleep, and its notification was lost
\* (dudaq_app.cpp:263).
Overslept == worker.at = "asleep" /\ worker.missed /\ t3Q # <<>>

\* Every trigger that is pushed is taken, unless the worker oversleeps it; and
\* then it waits for the next that finds the worker asleep, and no longer: a
\* worker that looks at the queue takes all that is in it.
TriggersAreTaken ==
  \A n \in 1..MaxTriggers :
    /\ (count.pushed >= n) ~> (count.taken >= n \/ Overslept)
    /\ (worker.at = "test" /\ count.pushed >= n) ~> (count.taken >= n)
=============================================================================
