--------------------------- MODULE DotriggerProofs ---------------------------
(***************************************************************************)
(* Proofs about Dotrigger, for every set of DUs, capacity of the queue and *)
(* number of decisions.                                                    *)
(***************************************************************************)
EXTENDS Dotrigger, TLAPS

-----------------------------------------------------------------------------
(***************************************************************************)
(* The inductive invariant.  Where each decision is can only be followed   *)
(* from step to step when no two threads hold the same one, and none holds *)
(* two; and that the queue may be cleared at the end rests on the order of *)
(* the steps of App::stop.                                                 *)
(***************************************************************************)
Holds(a) == callback[a].pc \in {"read", "slow", "fast"}
Sends(a) == dispatch[a].pc # "none"

HeldOnce ==
  \A a, b \in Callers :
    Holds(a) /\ Holds(b) /\ callback[a].item.tag = callback[b].item.tag => a = b

SentOnce ==
  \A a, b \in Threads :
    Sends(a) /\ Sends(b) /\ dispatch[a].item.tag = dispatch[b].item.tag => a = b

OneAtATime ==
  /\ \A a \in Callers : callback[a].pc # "none" => ~Sends(a)
  /\ Sends("worker") => worker = "busy"
  /\ worker = "busy" => inflight > 0

\* The steps of App::stop once the trigger is joined, and once it is drained
Drained3 == {"wait", "shutdown", "notify", "joinWorker", "builder", "done"}
Joined3  == {"drain"} \cup Drained3

StopOrder ==
  /\ t3Alive <=> main \notin Joined3
  /\ ~t3Alive => Idle("t3")
  /\ main # "drain" => Idle("main")
  /\ shutdown => main \in {"notify", "joinWorker"}
  /\ worker = "exited" => main \in {"notify", "joinWorker", "builder", "done"} /\ queue = <<>>
  /\ main \in {"builder", "done"} => worker = "exited"

IInv == TypeOK /\ TriggersAccounted /\ HeldOnce /\ SentOnce /\ OneAtATime /\ StopOrder

-----------------------------------------------------------------------------
(***************************************************************************)
(* Where the decisions are                                                 *)
(***************************************************************************)
Places == TriggersAccounted /\ HeldOnce /\ SentOnce

LEMMA PlacesAre ==
  /\ \A t : t \in WithCaller <=> \E a \in Callers : Holds(a) /\ callback[a].item.tag = t
  /\ \A t : t \in Queued <=> \E i \in DOMAIN queue : queue[i].tag = t
  /\ \A t : t \in BeingSent <=> \E a \in Threads : Sends(a) /\ dispatch[a].item.tag = t
  BY DEF WithCaller, Queued, BeingSent, Holds, Sends

LEMMA PlacesBecome ==
  /\ \A t : t \in WithCaller' <=> \E a \in Callers : Holds(a)' /\ callback'[a].item.tag = t
  /\ \A t : t \in Queued' <=> \E i \in DOMAIN queue' : queue'[i].tag = t
  /\ \A t : t \in BeingSent' <=> \E a \in Threads : Sends(a)' /\ dispatch'[a].item.tag = t
  BY DEF WithCaller, Queued, BeingSent, Holds, Sends

\* A step that moves no decision
LEMMA NoneMoved ==
  ASSUME Places,
         \A a \in Callers : /\ Holds(a)' <=> Holds(a)
                            /\ Holds(a) => callback'[a].item.tag = callback[a].item.tag,
         \A a \in Threads : /\ Sends(a)' <=> Sends(a)
                            /\ Sends(a) => dispatch'[a].item.tag = dispatch[a].item.tag,
         UNCHANGED <<tags, queue, dispatched>>
  PROVE  Places'
<1>1. WithCaller' = WithCaller /\ BeingSent' = BeingSent /\ Queued' = Queued
  BY PlacesAre, PlacesBecome DEF Queued, WithCaller, BeingSent, Holds, Sends
<1>2. TriggersAccounted'
  BY <1>1 DEF Places, TriggersAccounted
<1>3. HeldOnce' /\ SentOnce'
  BY DEF Places, HeldOnce, SentOnce
<1> QED
  BY <1>2, <1>3 DEF Places

\* A new decision is with its caller.
LEMMA DecidePlaces ==
  ASSUME IInv, NEW a \in Callers, NEW dus \in SUBSET DU, Decide(a, dus)
  PROVE  Places'
<1> USE DEF IInv
<1>1. /\ tags' = tags + 1 /\ tags \in Nat /\ tags' \in Nat
      /\ queue' = queue /\ dispatch' = dispatch /\ dispatched' = dispatched
      /\ callback' = [callback EXCEPT ![a] =
                        [pc |-> "read", item |-> [tag |-> tags + 1, dus |-> dus]]]
      /\ ~Holds(a) /\ DOMAIN callback = Callers
  BY DEF Decide, CallbackUnchanged, builderVars, Idle, Holds, TypeOK
<1>2. /\ Holds(a)' /\ callback'[a].item.tag = tags + 1
      /\ \A b \in Callers \ {a} : callback'[b] = callback[b]
  BY <1>1 DEF Holds
<1>3. WithCaller' = WithCaller \cup {tags + 1}
  <2>1. ASSUME NEW t PROVE t \in WithCaller' <=> t \in WithCaller \cup {tags + 1}
    BY <1>1, <1>2, PlacesAre, PlacesBecome DEF Holds
  <2> QED
    BY <2>1, Zenon
<1>4. Queued' = Queued /\ BeingSent' = BeingSent
  BY <1>1 DEF Queued, BeingSent
<1>5. WithCaller \cup Queued \cup BeingSent \cup dispatched = 1..tags
  BY DEF TriggersAccounted
<1>6. tags + 1 \notin WithCaller \cup Queued \cup BeingSent \cup dispatched
  BY <1>1, <1>5
<1>7. TriggersAccounted'
  <2>1. 1..tags' = (1..tags) \cup {tags + 1}
    BY <1>1
  <2> QED
    BY <1>1, <1>3, <1>4, <1>5, <1>6, <2>1 DEF TriggersAccounted
<1>8. HeldOnce'
  <2>1. \A b \in Callers : Holds(b) => callback[b].item.tag # tags + 1
    BY <1>6, PlacesAre
  <2> QED
    BY <1>2, <2>1 DEF HeldOnce, Holds
<1>9. SentOnce'
  BY <1>1 DEF SentOnce, Sends
<1> QED
  BY <1>7, <1>8, <1>9 DEF Places

\* A caller lets go of its decision.
LEMMA LetGo ==
  ASSUME IInv, NEW a \in Callers, Holds(a), ~Holds(a)', 
         \A b \in Callers \ {a} : callback'[b] = callback[b]
  PROVE  /\ WithCaller' = WithCaller \ {callback[a].item.tag}
         /\ callback[a].item.tag \in WithCaller
         /\ HeldOnce'
<1>1. ASSUME NEW t PROVE t \in WithCaller' <=> t \in WithCaller \ {callback[a].item.tag}
  BY PlacesAre, PlacesBecome DEF IInv, HeldOnce, Holds
<1>2. HeldOnce'
  BY DEF IInv, HeldOnce, Holds
<1> QED
  BY <1>1, <1>2, PlacesAre

\* An item is put at the end of the queue.
LEMMA PutInQueue ==
  ASSUME TypeOK, NEW it \in Item, queue' = Append(queue, it)
  PROVE  /\ Queued' = Queued \cup {it.tag}
         /\ \A i \in DOMAIN queue : queue'[i] = queue[i]
         /\ DOMAIN queue' = (DOMAIN queue) \cup {Len(queue) + 1}
         /\ queue'[Len(queue) + 1] = it
<1>1. /\ queue \in Seq(Item) /\ Len(queue) \in Nat /\ DOMAIN queue = 1..Len(queue)
  BY DEF TypeOK
<1>2. /\ \A i \in DOMAIN queue : queue'[i] = queue[i]
      /\ DOMAIN queue' = (DOMAIN queue) \cup {Len(queue) + 1}
      /\ queue'[Len(queue) + 1] = it
  BY <1>1
<1>3. ASSUME NEW t PROVE t \in Queued' <=> t \in Queued \cup {it.tag}
  BY <1>2, PlacesAre, PlacesBecome
<1> QED
  BY <1>2, <1>3

\* From the caller to the queue
LEMMA EnqueuePlaces ==
  ASSUME IInv, NEW a \in Callers, Holds(a), ~Holds(a)', 
         \A b \in Callers \ {a} : callback'[b] = callback[b],
         queue' = Append(queue, callback[a].item),
         UNCHANGED <<tags, dispatch, dispatched>>
  PROVE  Places'
<1> DEFINE t == callback[a].item.tag
<1>1. callback[a].item \in Item
  BY DEF IInv, TypeOK
<1>2. /\ WithCaller' = WithCaller \ {t} /\ t \in WithCaller /\ HeldOnce'
  BY LetGo
<1>3. /\ Queued' = Queued \cup {t}
      /\ \A i \in DOMAIN queue : queue'[i] = queue[i]
      /\ DOMAIN queue' = (DOMAIN queue) \cup {Len(queue) + 1}
      /\ queue'[Len(queue) + 1].tag = t
  BY <1>1, PutInQueue DEF IInv
<1>4. BeingSent' = BeingSent /\ SentOnce'
  BY DEF BeingSent, IInv, SentOnce, Sends
<1>5. \A i, j \in DOMAIN queue' : queue'[i].tag = queue'[j].tag => i = j
  <2>1. t \notin Queued
    BY <1>2 DEF IInv, TriggersAccounted
  <2>2. \A i \in DOMAIN queue : queue[i].tag # t
    BY <2>1, PlacesAre
  <2> HIDE DEF t
  <2>3. \A i, j \in DOMAIN queue : queue[i].tag = queue[j].tag => i = j
    BY DEF IInv, TriggersAccounted
  <2> QED
    BY <1>3, <2>2, <2>3
<1>6. TriggersAccounted'
  <2> HIDE DEF t
  <2> QED
    BY <1>2, <1>3, <1>4, <1>5 DEF IInv, TriggersAccounted
<1> QED
  BY <1>2, <1>4, <1>6 DEF Places

\* A thread that sends nothing begins to send it.
LEMMA BeginToSend ==
  ASSUME IInv, NEW a \in Threads, ~Sends(a), NEW it \in Item,
         dispatch' = [dispatch EXCEPT ![a] = Work(it)], it.tag \notin BeingSent
  PROVE  /\ BeingSent' = BeingSent \cup {it.tag}
         /\ SentOnce'
<1>1. /\ Sends(a)' /\ dispatch'[a].item.tag = it.tag
      /\ \A b \in Threads \ {a} : dispatch'[b] = dispatch[b]
  BY DEF IInv, TypeOK, Sends, Work
<1>2. \A b \in Threads : Sends(b) => dispatch[b].item.tag # it.tag
  BY PlacesAre
<1>3. ASSUME NEW t PROVE t \in BeingSent' <=> t \in BeingSent \cup {it.tag}
  BY <1>1, PlacesAre, PlacesBecome DEF Sends
<1>4. SentOnce'
  BY <1>1, <1>2 DEF IInv, SentOnce, Sends
<1> QED
  BY <1>3, <1>4

\* The queue is full: from the caller to its own dispatch
LEMMA OverflowPlaces ==
  ASSUME IInv, NEW a \in Callers, Holds(a), ~Holds(a)', 
         \A b \in Callers \ {a} : callback'[b] = callback[b],
         dispatch' = [dispatch EXCEPT ![a] = Work(callback[a].item)],
         UNCHANGED <<tags, queue, dispatched>>
  PROVE  Places'
<1> DEFINE t == callback[a].item.tag
<1>1. callback[a].item \in Item /\ a \in Threads
  BY DEF IInv, TypeOK, Callers, Threads
<1>2. /\ WithCaller' = WithCaller \ {t} /\ t \in WithCaller /\ HeldOnce'
  BY LetGo
<1>3. ~Sends(a)
  BY DEF IInv, OneAtATime, Holds
<1>4. t \notin BeingSent
  BY <1>2 DEF IInv, TriggersAccounted
<1>5. BeingSent' = BeingSent \cup {t} /\ SentOnce'
  BY <1>1, <1>3, <1>4, BeginToSend
<1>6. Queued' = Queued
  BY DEF Queued
<1>7. TriggersAccounted'
  <2> HIDE DEF t
  <2> QED
    BY <1>2, <1>5, <1>6 DEF IInv, TriggersAccounted
<1> QED
  BY <1>2, <1>5, <1>7 DEF Places

\* From the queue to the worker
LEMMA TakePlaces ==
  ASSUME IInv, queue # <<>>, queue' = Tail(queue), ~Sends("worker"),
         dispatch' = [dispatch EXCEPT !["worker"] = Work(Head(queue))],
         UNCHANGED <<tags, callback, dispatched>>
  PROVE  Places'
<1> DEFINE it == Head(queue)
<1>1. /\ it \in Item /\ Len(queue) \in Nat \ {0} /\ DOMAIN queue = 1..Len(queue)
      /\ it = queue[1] /\ queue' \in Seq(Item) /\ DOMAIN queue' = 1..(Len(queue) - 1)
      /\ \A i \in DOMAIN queue' : i + 1 \in DOMAIN queue /\ queue'[i] = queue[i + 1]
  BY DEF IInv, TypeOK
<1>2. \A i, j \in DOMAIN queue : queue[i].tag = queue[j].tag => i = j
  BY DEF IInv, TriggersAccounted
<1> HIDE DEF it
<1>3. Queued' = Queued \ {it.tag} /\ it.tag \in Queued
  <2>1. ASSUME NEW t, t \in Queued, t # it.tag PROVE t \in Queued'
    <3>1. PICK i \in DOMAIN queue : queue[i].tag = t
      BY <2>1, PlacesAre
    <3>2. i - 1 \in DOMAIN queue' /\ queue'[i - 1] = queue[i]
      BY <1>1, <2>1, <3>1
    <3> QED
      BY <3>1, <3>2, PlacesBecome
  <2>2. ASSUME NEW t, t \in Queued' PROVE t \in Queued /\ t # it.tag
    <3>1. PICK i \in DOMAIN queue' : queue'[i].tag = t
      BY <2>2, PlacesBecome
    <3>2. i + 1 \in DOMAIN queue /\ queue[i + 1].tag = t /\ i + 1 # 1 /\ 1 \in DOMAIN queue
      BY <1>1, <3>1
    <3> QED
      BY <1>1, <1>2, <3>2, PlacesAre
  <2>3. it.tag \in Queued
    BY <1>1, PlacesAre
  <2> QED
    BY <2>1, <2>2, <2>3
<1>4. it.tag \notin BeingSent /\ "worker" \in Threads
  BY <1>3 DEF IInv, TriggersAccounted, Threads
<1>5. BeingSent' = BeingSent \cup {it.tag} /\ SentOnce'
  BY <1>1, <1>4, BeginToSend DEF it
<1>6. WithCaller' = WithCaller /\ HeldOnce'
  BY DEF WithCaller, IInv, HeldOnce, Holds
<1>7. \A i, j \in DOMAIN queue' : queue'[i].tag = queue'[j].tag => i = j
  BY <1>1, <1>2
<1>8. TriggersAccounted'
  BY <1>3, <1>5, <1>6, <1>7 DEF IInv, TriggersAccounted
<1> QED
  BY <1>5, <1>6, <1>8 DEF Places

\* A dispatch ends.
LEMMA EndPlaces ==
  ASSUME IInv, NEW a \in Threads, DispatchEnd(a)
  PROVE  Places'
<1> DEFINE t == dispatch[a].item.tag
<1>1. /\ Sends(a) /\ dispatch' = [dispatch EXCEPT ![a] = NoWork]
      /\ dispatched' = dispatched \cup {t}
      /\ UNCHANGED <<tags, queue, callback>>
  BY DEF DispatchEnd, Sends, DispatchUnchanged, queueVars
<1>2. ~Sends(a)' /\ \A b \in Threads \ {a} : dispatch'[b] = dispatch[b]
  BY <1>1 DEF IInv, TypeOK, Sends, NoWork
<1>3. BeingSent' = BeingSent \ {t} /\ t \in BeingSent
  <2>1. ASSUME NEW u PROVE u \in BeingSent' <=> u \in BeingSent \ {t}
    BY <1>1, <1>2, PlacesAre, PlacesBecome DEF IInv, SentOnce, Sends
  <2> QED
    BY <1>1, <2>1, PlacesAre
<1>4. SentOnce'
  BY <1>1, <1>2 DEF IInv, SentOnce, Sends
<1>5. Queued' = Queued /\ WithCaller' = WithCaller /\ HeldOnce'
  BY <1>1 DEF Queued, WithCaller, IInv, HeldOnce, Holds
<1>6. TriggersAccounted'
  <2> HIDE DEF t
  <2> QED
    BY <1>1, <1>3, <1>5 DEF IInv, TriggersAccounted
<1> QED
  BY <1>4, <1>5, <1>6 DEF Places

-----------------------------------------------------------------------------
(***************************************************************************)
(* One lemma per action                                                    *)
(***************************************************************************)
Calls == [pc : {"none", "read", "slow", "fast", "notify"}, item : Item]
Works == [pc : {"none", "lock", "send"}, item : Item, ok : SUBSET DU]

LEMMA RecordTypes ==
  /\ NoItem \in Item /\ NoCall \in Calls /\ NoWork \in Works
  /\ \A it \in Item : Work(it) \in Works
<1>1. NoItem \in Item
  BY DotriggerConstants DEF DotriggerConstants, NoItem, Item
<1> QED
  BY <1>1 DEF NoCall, NoWork, Work, Calls, Works

LEMMA AppendIsTyped ==
  ASSUME NEW q \in Seq(Item), NEW it \in Item
  PROVE  Append(q, it) \in Seq(Item)
  OBVIOUS

LEMMA InitInv == Init => IInv
<1> SUFFICES ASSUME Init PROVE IInv
  OBVIOUS
<1>1. TypeOK
  <2>1. callback \in [Callers -> Calls] /\ dispatch \in [Threads -> Works]
    BY RecordTypes DEF Init
  <2>2. queue \in Seq(Item) /\ DOMAIN awaited = {}
    BY DEF Init
  <2>3. daq \in [DU -> 0..MaxTags] /\ tags \in 0..MaxTags
    BY DotriggerConstants DEF DotriggerConstants, Init
  <2>4. worker \in {"loop", "busy", "exited"} /\ main = "running" /\ sleeping \subseteq Threads
    BY DEF Init
  <2> QED
    BY <2>1, <2>2, <2>3, <2>4 DEF Init, TypeOK, Calls, Works
<1>2. TriggersAccounted
  BY DEF Init, TriggersAccounted, WithCaller, Queued, BeingSent, NoCall, NoWork, Callers, Threads
<1>3. HeldOnce /\ SentOnce /\ OneAtATime
  BY DEF Init, HeldOnce, SentOnce, OneAtATime, Holds, Sends, NoCall, NoWork, Callers, Threads
<1>4. StopOrder
  BY DEF Init, StopOrder, Drained3, Joined3, Idle, NoCall, NoWork, Callers, Threads
<1> QED
  BY <1>1, <1>2, <1>3, <1>4 DEF IInv

LEMMA DecideInv ==
  ASSUME IInv, NEW a \in Callers, NEW dus \in SUBSET DU, Decide(a, dus)
  PROVE  IInv'
<1> USE DEF Decide, CallbackUnchanged, dataVars, builderVars
<1>1. TypeOK'
  <2>1. tags' \in 0..MaxTags
    BY DotriggerConstants DEF IInv, TypeOK, DotriggerConstants
  <2>2. callback' \in [Callers -> [pc : {"none", "read", "slow", "fast", "notify"}, item : Item]]
    BY <2>1 DEF IInv, TypeOK, Item
  <2>3. wire' \subseteq (1..MaxTags) \X DU
    BY DEF IInv, TypeOK
  <2> QED
    BY <2>1, <2>2, <2>3 DEF IInv, TypeOK
<1>2. Places'
  BY DecidePlaces
<1>3. OneAtATime'
  BY DEF IInv, TypeOK, OneAtATime, Idle, Sends
<1>4. StopOrder'
  BY DEF IInv, TypeOK, StopOrder, MayDecide, Idle, Callers, Drained3, Joined3
<1> QED
  BY <1>1, <1>2, <1>3, <1>4 DEF IInv, Places

LEMMA CallbackInv ==
  ASSUME IInv, NEW a \in Callers, Callback(a)
  PROVE  IInv'
<1> USE DEF CallbackUnchanged, dataVars, builderVars
<1>0. a \in Threads /\ callback[a].item \in Item
  BY DEF IInv, TypeOK, Callers, Threads
<1>1. CASE ReadAccept(a)
  <2> USE <1>1 DEF ReadAccept
  <2>1. TypeOK'
    BY DEF IInv, TypeOK
  <2>2. Places'
    BY NoneMoved DEF IInv, Places, TypeOK, Holds, Sends
  <2>3. OneAtATime' /\ StopOrder'
    BY DEF IInv, TypeOK, OneAtATime, StopOrder, Idle, Sends, Callers, Drained3, Joined3
  <2> QED
    BY <2>1, <2>2, <2>3 DEF IInv, Places
<1>2. CASE EnqueueSlow(a)
  <2>1. CASE Full
    <3> USE <1>2, <2>1 DEF EnqueueSlow
    <3>1. TypeOK'
      BY <1>0 DEF IInv, TypeOK
    <3>2. Places'
      BY NoneMoved DEF IInv, Places, TypeOK, Holds, Sends
    <3>3. OneAtATime' /\ StopOrder'
      BY DEF IInv, TypeOK, OneAtATime, StopOrder, Idle, Sends, Callers, Drained3, Joined3
    <3> QED
      BY <3>1, <3>2, <3>3 DEF IInv, Places
  <2>2. CASE ~Full
    <3> USE <1>2, <2>2 DEF EnqueueSlow
    <3>1. sleeping' \subseteq Threads
      BY DEF IInv, TypeOK, AfterNotifyOne
    <3>2. TypeOK'
      <4>1. callback' \in [Callers -> Calls]
        BY RecordTypes DEF IInv, TypeOK, Calls
      <4>2. queue' \in Seq(Item)
        <5>1. queue' = Append(queue, callback[a].item) /\ queue \in Seq(Item)
          BY DEF IInv, TypeOK
        <5> QED
          BY <1>0, <5>1, AppendIsTyped
      <4> QED
        BY <3>1, <4>1, <4>2 DEF IInv, TypeOK, Calls
    <3>3. Places'
      <4>1. Holds(a) /\ ~Holds(a)' /\ \A b \in Callers \ {a} : callback'[b] = callback[b]
        BY DEF IInv, TypeOK, Holds, NoCall
      <4> QED
        BY <4>1, EnqueuePlaces
    <3>4. worker # "exited"
      BY DEF IInv, StopOrder, Idle, Callers, Joined3, Drained3
    <3>5. OneAtATime' /\ StopOrder'
      BY <3>4 DEF IInv, TypeOK, OneAtATime, StopOrder, Idle, Sends, Callers, NoCall, Drained3, Joined3
    <3> QED
      BY <3>2, <3>3, <3>5 DEF IInv, Places
  <2> QED
    BY <2>1, <2>2
<1>3. CASE EnqueueFast(a)
  <2>0. Holds(a)
    BY <1>3 DEF EnqueueFast, Holds
  <2>1. CASE Full
    <3> USE <1>3, <2>1 DEF EnqueueFast
    <3>1. TypeOK'
      <4>1. callback' \in [Callers -> Calls]
        BY RecordTypes DEF IInv, TypeOK, Calls
      <4>2. dispatch' \in [Threads -> Works]
        BY <1>0, RecordTypes DEF IInv, TypeOK, Works
      <4> QED
        BY <4>1, <4>2 DEF IInv, TypeOK, Calls, Works
    <3>2. Places'
      <4>1. ~Holds(a)' /\ \A b \in Callers \ {a} : callback'[b] = callback[b]
        BY DEF IInv, TypeOK, Holds, NoCall
      <4> QED
        BY <2>0, <4>1, OverflowPlaces
    <3>3. /\ callback'[a].pc = "none" /\ a # "worker"
          /\ \A b \in Callers \ {a} : callback'[b] = callback[b]
          /\ \A b \in Threads \ {a} : dispatch'[b] = dispatch[b]
      BY DEF IInv, TypeOK, NoCall, Callers
    <3>4. OneAtATime'
      BY <1>0, <3>3 DEF IInv, OneAtATime, Sends, Callers, Threads
    <3>5. ~Idle(a)
      BY DEF Idle
    <3>6. StopOrder'
      BY <3>3, <3>5 DEF IInv, StopOrder, Idle, Callers, Threads, Drained3, Joined3
    <3> QED
      BY <3>1, <3>2, <3>4, <3>6 DEF IInv, Places
  <2>2. CASE ~Full
    <3> USE <1>3, <2>2 DEF EnqueueFast
    <3>1. TypeOK'
      <4>1. callback' \in [Callers -> Calls]
        BY DEF IInv, TypeOK, Calls
      <4>2. queue' \in Seq(Item)
        <5>1. queue' = Append(queue, callback[a].item) /\ queue \in Seq(Item)
          BY DEF IInv, TypeOK
        <5> QED
          BY <1>0, <5>1, AppendIsTyped
      <4> QED
        BY <4>1, <4>2 DEF IInv, TypeOK, Calls
    <3>2. Places'
      <4>1. ~Holds(a)' /\ \A b \in Callers \ {a} : callback'[b] = callback[b]
        BY DEF IInv, TypeOK, Holds
      <4> QED
        BY <2>0, <4>1, EnqueuePlaces
    <3>4. worker # "exited"
      BY DEF IInv, StopOrder, Idle, Callers, Joined3, Drained3
    <3>5. OneAtATime' /\ StopOrder'
      BY <3>4 DEF IInv, TypeOK, OneAtATime, StopOrder, Idle, Sends, Callers, Drained3, Joined3
    <3> QED
      BY <3>1, <3>2, <3>5 DEF IInv, Places
  <2> QED
    BY <2>1, <2>2
<1>4. CASE NotifyWorker(a)
  <2> USE <1>4 DEF NotifyWorker
  <2>0. sleeping' \subseteq Threads
    BY DEF IInv, TypeOK, AfterNotifyOne
  <2>1. TypeOK'
    <3>1. callback' \in [Callers -> Calls]
      BY RecordTypes DEF IInv, TypeOK, Calls
    <3> QED
      BY <2>0, <3>1 DEF IInv, TypeOK, Calls
  <2>2. Places'
    BY NoneMoved DEF IInv, Places, TypeOK, Holds, Sends, NoCall
  <2>3. OneAtATime' /\ StopOrder'
    BY DEF IInv, TypeOK, OneAtATime, StopOrder, Idle, Sends, Callers, NoCall, Drained3, Joined3
  <2> QED
    BY <2>1, <2>2, <2>3 DEF IInv, Places
<1> QED
  BY <1>1, <1>2, <1>3, <1>4 DEF Callback

LEMMA ItemExcept ==
  ASSUME NEW it \in Item, NEW D \in SUBSET DU
  PROVE  [it EXCEPT !.dus = D] \in Item /\ [it EXCEPT !.dus = D].tag = it.tag
  BY DEF Item

LEMMA DispatchInv ==
  ASSUME IInv, NEW a \in Threads, Dispatch(a)
  PROVE  IInv'
<1> USE DEF DispatchUnchanged, queueVars, builderVars
<1>1. CASE DispatchLock(a)
  <2> USE <1>1 DEF DispatchLock
  <2>1. TypeOK'
    BY DEF IInv, TypeOK
  <2>2. Places'
    BY NoneMoved DEF IInv, Places, TypeOK, Holds, Sends
  <2>3. OneAtATime' /\ StopOrder'
    BY DEF IInv, TypeOK, OneAtATime, StopOrder, Idle, Sends, Callers, Threads, Drained3, Joined3
  <2> QED
    BY <2>1, <2>2, <2>3 DEF IInv, Places
<1>2. CASE DispatchSend(a)
  <2>1. PICK d \in dispatch[a].item.dus, sent \in BOOLEAN :
          /\ dispatch' = [dispatch EXCEPT
               ![a].item.dus = @ \ {d}, ![a].ok = IF sent THEN @ \cup {d} ELSE @]
          /\ wire' = IF sent THEN wire \cup {<<dispatch[a].item.tag, d>>} ELSE wire
    BY <1>2 DEF DispatchSend
  <2>2. /\ dispatch[a].pc = "send" /\ UNCHANGED <<queueVars, callback, worker, main, t3Alive,
                                                frontendsUp, daq, builderVars>>
    BY <1>2 DEF DispatchSend
  <2>3. /\ dispatch \in [Threads -> Works] /\ dispatch[a] \in Works /\ d \in DU
        /\ dispatch[a].item \in Item
    BY DEF IInv, TypeOK, Works, Item
  <2>4. /\ \A b \in Threads \ {a} : dispatch'[b] = dispatch[b]
        /\ dispatch'[a] = [dispatch[a] EXCEPT !.item.dus = @ \ {d},
                                             !.ok = IF sent THEN @ \cup {d} ELSE @]
        /\ DOMAIN dispatch' = Threads
    BY <2>1, <2>3
  <2>5. /\ dispatch'[a] \in Works /\ dispatch'[a].pc = "send"
        /\ dispatch'[a].item.tag = dispatch[a].item.tag
    <3>1. dispatch[a].item.dus \in SUBSET DU /\ dispatch[a].ok \in SUBSET DU
      BY <2>3 DEF Works, Item
    <3> DEFINE it == [dispatch[a].item EXCEPT !.dus = dispatch[a].item.dus \ {d}]
               ok1 == IF sent THEN dispatch[a].ok \cup {d} ELSE dispatch[a].ok
    <3>2. it \in Item /\ it.tag = dispatch[a].item.tag
      BY <2>3, <3>1, ItemExcept
    <3>3. ok1 \in SUBSET DU
      BY <2>3, <3>1
    <3>4. dispatch'[a] = [dispatch[a] EXCEPT !.item = it, !.ok = ok1]
      BY <2>4
    <3> HIDE DEF it, ok1
    <3>5. /\ dispatch'[a] \in Works /\ dispatch'[a].pc = dispatch[a].pc
          /\ dispatch'[a].item = it
      BY <2>3, <3>2, <3>3, <3>4 DEF Works
    <3> QED
      BY <2>2, <3>2, <3>5
  <2>6. dispatch' \in [Threads -> Works]
    <3>1. dispatch' = [b \in Threads |-> dispatch'[b]]
      BY <2>1, <2>3
    <3> QED
      BY <2>3, <2>4, <2>5, <3>1
  <2>7. wire' \subseteq (1..MaxTags) \X DU
    <3>1. dispatch[a].item.tag \in 1..MaxTags
      <4>1. dispatch[a].item.tag \in 1..tags
        BY <2>2, PlacesAre DEF IInv, TriggersAccounted, Sends
      <4> QED
        BY <4>1, DotriggerConstants DEF DotriggerConstants, IInv, TypeOK
    <3>2. wire \subseteq (1..MaxTags) \X DU
      BY DEF IInv, TypeOK
    <3> QED
      BY <2>1, <2>3, <3>1, <3>2
  <2>8. TypeOK'
    BY <2>2, <2>6, <2>7 DEF IInv, TypeOK, Works
  <2>9. Sends(a) /\ Sends(a)'
    BY <2>2, <2>5 DEF Sends
  <2>10. Places'
    BY <2>2, <2>4, <2>5, <2>9, NoneMoved DEF IInv, Places, Holds, Sends
  <2>11. \A b \in Threads : dispatch'[b].pc = dispatch[b].pc
    BY <2>2, <2>4, <2>5
  <2>12. OneAtATime' /\ StopOrder'
    BY <2>2, <2>11
       DEF IInv, OneAtATime, StopOrder, Idle, Sends, Callers, Threads, Drained3, Joined3
  <2> QED
    BY <2>8, <2>10, <2>12 DEF IInv, Places
<1>3. CASE DispatchEnd(a)
  <2>1. /\ dispatch[a].pc = "send" /\ dispatch' = [dispatch EXCEPT ![a] = NoWork]
        /\ dispatched' = dispatched \cup {dispatch[a].item.tag}
        /\ UNCHANGED <<wire, builderUp, queueVars, callback, worker, main, t3Alive,
                       frontendsUp, daq>>
    BY <1>3 DEF DispatchEnd
  <2>2. dispatch[a].item.tag \in 1..MaxTags
    <3>1. dispatch[a].item.tag \in 1..tags
      BY <2>1, PlacesAre DEF IInv, TriggersAccounted, Sends
    <3> QED
      BY <3>1, DotriggerConstants DEF DotriggerConstants, IInv, TypeOK
  <2>3. /\ DOMAIN awaited' \subseteq 1..MaxTags
        /\ \A t \in DOMAIN awaited' : awaited'[t] \in SUBSET DU
    BY <1>3, <2>2 DEF DispatchEnd, IInv, TypeOK
  <2>4. dispatch' \in [Threads -> Works]
    BY <2>1, RecordTypes DEF IInv, TypeOK, Works
  <2>5. TypeOK'
    BY <2>1, <2>2, <2>3, <2>4 DEF IInv, TypeOK, Works
  <2>6. Places'
    BY <1>3, EndPlaces
  <2>7. /\ \A b \in Threads \ {a} : dispatch'[b] = dispatch[b]
        /\ dispatch'[a].pc = "none"
    BY <2>1 DEF IInv, TypeOK, NoWork
  <2>8. OneAtATime' /\ StopOrder'
    BY <2>1, <2>7
       DEF IInv, OneAtATime, StopOrder, Idle, Sends, Callers, Threads, Drained3, Joined3
  <2> QED
    BY <2>5, <2>6, <2>8 DEF IInv, Places
<1> QED
  BY <1>1, <1>2, <1>3 DEF Dispatch

LEMMA TailDiffers ==
  ASSUME NEW S, NEW q \in Seq(S), q # <<>>
  PROVE  Tail(q) # q
<1>1. Len(q) \in Nat /\ Len(Tail(q)) = Len(q) - 1
  OBVIOUS
<1>2. SUFFICES ASSUME Tail(q) = q PROVE FALSE
  OBVIOUS
<1>3. Len(q) = Len(q) - 1
  BY <1>1, <1>2, Zenon
<1> QED
  BY <1>1, <1>3

\* The worker takes the next item, on either way through its loop.
LEMMA TakeInv ==
  ASSUME IInv, NEW n \in Nat, queue # <<>>, ~Sends("worker"),
         queue' = Tail(queue), inflight' = n + 1,
         dispatch' = [dispatch EXCEPT !["worker"] = Work(Head(queue))],
         worker' = "busy", sleeping' = AfterNotifyAll, WorkerUnchanged
  PROVE  IInv'
<1> USE DEF WorkerUnchanged, dataVars, builderVars, AfterNotifyAll
<1>1. Head(queue) \in Item /\ Tail(queue) \in Seq(Item)
  BY DEF IInv, TypeOK
<1>2. dispatch' \in [Threads -> Works]
  BY <1>1, RecordTypes DEF IInv, TypeOK, Works
<1>3. TypeOK'
  BY <1>1, <1>2 DEF IInv, TypeOK, Works
<1>4. Places'
  BY TakePlaces
<1>5. \A b \in Threads \ {"worker"} : dispatch'[b] = dispatch[b]
  BY DEF IInv, TypeOK
<1>6. OneAtATime' /\ StopOrder'
  BY <1>5 DEF IInv, OneAtATime, StopOrder, Idle, Sends, Callers, Threads, Drained3, Joined3
<1> QED
  BY <1>3, <1>4, <1>6 DEF IInv, Places

LEMMA WorkerInv ==
  ASSUME IInv, WorkerLoop \/ WorkerDone
  PROVE  IInv'
<1>1. ~Sends("worker")
  BY DEF IInv, OneAtATime, WorkerLoop, WorkerDone, Sends
<1>2. inflight \in Nat /\ (worker = "busy" => inflight - 1 \in Nat)
  BY DEF IInv, TypeOK, OneAtATime
<1>3. CASE worker' = "busy" /\ queue' # queue
  BY <1>1, <1>2, <1>3, TakeInv DEF WorkerLoop, WorkerDone, WorkerTurn
<1>4. CASE ~(worker' = "busy" /\ queue' # queue)
  <2>1. /\ worker' \in {"loop", "exited"} /\ UNCHANGED <<queue, dispatch>> /\ queue = <<>>
        /\ worker' = "exited" => shutdown
        /\ inflight' \in Nat /\ sleeping' \subseteq Threads
        /\ WorkerUnchanged
    <3>1. WorkerUnchanged /\ sleeping \subseteq Threads
      BY DEF WorkerLoop, WorkerDone, IInv, TypeOK
    <3>2. CASE WorkerLoop
      <4>1. /\ UNCHANGED <<queue, dispatch>> /\ queue = <<>>
            /\ \/ worker' = "exited" /\ shutdown /\ inflight' = inflight /\ sleeping' = sleeping
               \/ /\ worker' = "loop" /\ inflight' = inflight
                  /\ sleeping' = sleeping \cup {"worker"}
        BY <1>4, <3>2, TailDiffers DEF WorkerLoop, WorkerTurn, IInv, TypeOK
      <4> QED
        BY <1>2, <3>1, <4>1 DEF Threads
    <3>3. CASE WorkerDone
      <4>1. /\ UNCHANGED <<queue, dispatch>> /\ queue = <<>> /\ sleeping' = {}
            /\ inflight' = inflight - 1 /\ worker = "busy"
            /\ \/ worker' = "exited" /\ shutdown
               \/ worker' = "loop"
        BY <1>4, <3>3, TailDiffers DEF WorkerDone, WorkerTurn, IInv, TypeOK, AfterNotifyAll
      <4> QED
        BY <1>2, <3>1, <4>1
    <3> QED
      BY <3>2, <3>3
  <2> USE <2>1 DEF WorkerUnchanged, dataVars, builderVars
  <2>2. TypeOK'
    BY DEF IInv, TypeOK
  <2>3. Places'
    BY NoneMoved DEF IInv, Places, Holds, Sends
  <2>4. OneAtATime' /\ StopOrder'
    <3>1. OneAtATime'
      BY <1>1, <2>1 DEF IInv, OneAtATime, Sends
    <3>2. worker # "exited"
      BY DEF WorkerLoop, WorkerDone
    <3>3. main \notin {"builder", "done"}
      BY <3>2 DEF IInv, StopOrder
    <3>4. StopOrder'
      BY <2>1, <3>2, <3>3 DEF IInv, StopOrder, Idle
    <3> QED
      BY <3>1, <3>4
  <2> QED
    BY <2>2, <2>3, <2>4 DEF IInv, Places
<1> QED
  BY <1>3, <1>4

LEMMA AnswerInv ==
  ASSUME IInv, NEW d \in DU, TakeAnswer(d) \/ AddFragment(d)
  PROVE  IInv'
<1>1. /\ UNCHANGED <<queueVars, callback, dispatch, worker, main, t3Alive, frontendsUp,
                     builderUp, dispatched>>
      /\ wire' \subseteq wire
  BY DEF TakeAnswer, AddFragment, builderVars
<1>2. daq' \in [DU -> 0..MaxTags]
  <2>1. daq \in [DU -> 0..MaxTags] /\ tags \in 0..MaxTags
    BY DEF IInv, TypeOK
  <2>2. CASE AddFragment(d)
    BY <2>1, <2>2, DotriggerConstants DEF AddFragment, DotriggerConstants
  <2>3. CASE TakeAnswer(d)
    <3>1. PICK t \in 1..tags : daq' = [daq EXCEPT ![d] = t]
      BY <2>3 DEF TakeAnswer
    <3>2. t \in 0..MaxTags
      BY <2>1, DotriggerConstants DEF DotriggerConstants
    <3> QED
      BY <2>1, <3>1, <3>2
  <2> QED
    BY <2>2, <2>3
<1>3. /\ DOMAIN awaited' \subseteq 1..MaxTags
      /\ \A t \in DOMAIN awaited' : awaited'[t] \in SUBSET DU
  BY DEF IInv, TypeOK, TakeAnswer, AddFragment, builderVars
<1> USE <1>1 DEF queueVars
<1>4. TypeOK'
  BY <1>2, <1>3 DEF IInv, TypeOK
<1>5. Places'
  BY NoneMoved DEF IInv, Places, Holds, Sends
<1>6. OneAtATime' /\ StopOrder'
  BY DEF IInv, OneAtATime, StopOrder, Idle, Sends
<1> QED
  BY <1>4, <1>5, <1>6 DEF IInv, Places

\* App::stop moves no decision; it has its own order.
LEMMA StopInv ==
  ASSUME IInv,
         \/ StopBegin \/ StopStep \/ JoinT3Hangs \/ JoinT3Late
         \/ WaitTimesOut("quiesce", "frontends") \/ WaitTimesOut("wait", "shutdown")
  PROVE  IInv'
<1> USE DEF StopUnchanged, builderVars, AfterNotifyAll, Threads, Callers
<1>1. CASE JoinWorker
  <2>1. queue = <<>> /\ ~Sends("worker")
    BY <1>1 DEF JoinWorker, IInv, StopOrder, OneAtATime
  <2> USE <1>1, <2>1 DEF JoinWorker, dataVars
  <2>2. UNCHANGED <<tags, queue, callback, dispatch, dispatched, worker, t3Alive>>
    OBVIOUS
  <2>3. TypeOK'
    BY <2>2 DEF IInv, TypeOK
  <2>4. Places'
    BY <2>2, NoneMoved DEF IInv, Places, Holds, Sends
  <2>5. OneAtATime' /\ StopOrder'
    BY <2>2 DEF IInv, OneAtATime, StopOrder, Idle, Sends, Drained3, Joined3
  <2> QED
    BY <2>3, <2>4, <2>5 DEF IInv, Places
<1>2. CASE \/ StopBegin \/ WaitStep \/ StopFrontends \/ ResetBegin
           \/ JoinT3 \/ JoinT3Hangs \/ JoinT3Late \/ DrainedT3
           \/ ShutdownWorker \/ NotifyShutdown \/ StopBuilder
           \/ WaitTimesOut("quiesce", "frontends") \/ WaitTimesOut("wait", "shutdown")
  <2>1. /\ UNCHANGED <<tags, queue, callback, dispatch, worker, wire, daq, inflight, dispatched>>
        /\ accept' \in BOOLEAN /\ frontendsUp' \in BOOLEAN /\ builderUp' \in BOOLEAN
        /\ sleeping' \subseteq Threads
        /\ awaited' = awaited \/ awaited' = <<>>
    BY <1>2 DEF IInv, TypeOK, StopBegin, WaitStep, WaitDrain, StopFrontends, ResetBegin, JoinT3, JoinT3Hangs, JoinT3Late,
         T3Joined, DrainedT3, ShutdownWorker, NotifyShutdown, StopBuilder, WaitTimesOut
  <2>2. t3Alive' \in BOOLEAN /\ shutdown' \in BOOLEAN
    BY <1>2 DEF IInv, TypeOK, StopBegin, WaitStep, WaitDrain, StopFrontends, ResetBegin, JoinT3, JoinT3Hangs, JoinT3Late,
         T3Joined, DrainedT3, ShutdownWorker, NotifyShutdown, StopBuilder, WaitTimesOut
  <2>3. main' \in {"running", "quiesce", "frontends", "reset", "joinT3", "hung", "drain",
                   "wait", "shutdown", "notify", "joinWorker", "builder", "done"}
    BY <1>2 DEF IInv, TypeOK, StopBegin, WaitStep, WaitDrain, StopFrontends, ResetBegin, JoinT3, JoinT3Hangs, JoinT3Late,
         T3Joined, DrainedT3, ShutdownWorker, NotifyShutdown, StopBuilder, WaitTimesOut
  <2>4. TypeOK'
    <3>1. DOMAIN awaited' \subseteq 1..MaxTags /\ \A t \in DOMAIN awaited' : awaited'[t] \in SUBSET DU
      BY <2>1 DEF IInv, TypeOK
    <3> QED
      BY <2>1, <2>2, <2>3, <3>1 DEF IInv, TypeOK
  <2>5. Places'
    BY <2>1, NoneMoved DEF IInv, Places, Holds, Sends
  <2>6. OneAtATime'
    BY <2>1 DEF IInv, OneAtATime, Sends
  <2>7. \A a \in Callers : Idle(a)' <=> Idle(a)
    BY <2>1 DEF Idle
  <2>8. StopOrder'
    BY <1>2, <2>1, <2>7
       DEF IInv, StopOrder, Drained3, Joined3, StopBegin, WaitStep, WaitDrain, StopFrontends,
           ResetBegin, JoinT3, JoinT3Hangs, JoinT3Late, T3Joined, DrainedT3, ShutdownWorker, NotifyShutdown, StopBuilder, WaitTimesOut
  <2> QED
    BY <2>4, <2>5, <2>6, <2>8 DEF IInv, Places
<1> QED
  BY <1>1, <1>2 DEF StopStep

LEMMA SpuriousInv ==
  ASSUME IInv, SpuriousWakeup \/ UNCHANGED vars
  PROVE  IInv'
<1>1. /\ UNCHANGED <<tags, queue, inflight, accept, shutdown, callback, dispatch, worker,
                     main, t3Alive, dataVars, builderVars>>
      /\ sleeping' \subseteq sleeping
  BY DEF SpuriousWakeup, vars, queueVars
<1> USE <1>1 DEF dataVars, builderVars
<1>2. TypeOK'
  BY DEF IInv, TypeOK
<1>3. Places'
  BY NoneMoved DEF IInv, Places, Holds, Sends
<1>4. OneAtATime' /\ StopOrder'
  BY DEF IInv, OneAtATime, StopOrder, Idle, Sends
<1> QED
  BY <1>2, <1>3, <1>4 DEF IInv, Places

-----------------------------------------------------------------------------
(***************************************************************************)
(* The theorems                                                            *)
(***************************************************************************)
LEMMA StepInv == IInv /\ [Next]_vars => IInv'
<1> SUFFICES ASSUME IInv, [Next]_vars PROVE IInv'
  OBVIOUS
<1>1. CASE SpuriousWakeup \/ UNCHANGED vars
  BY <1>1, SpuriousInv
<1>2. CASE \E a \in Callers, dus \in (SUBSET DU) \ {{}} : Decide(a, dus)
  BY <1>2, DecideInv
<1>3. CASE \E a \in Callers : Callback(a)
  BY <1>3, CallbackInv
<1>4. CASE \E a \in Threads : Dispatch(a)
  BY <1>4, DispatchInv
<1>5. CASE WorkerLoop \/ WorkerDone
  BY <1>5, WorkerInv
<1>6. CASE \E d \in DU : TakeAnswer(d) \/ AddFragment(d)
  BY <1>6, AnswerInv
<1>7. CASE \/ StopBegin \/ StopStep \/ JoinT3Hangs \/ JoinT3Late
           \/ WaitTimesOut("quiesce", "frontends") \/ WaitTimesOut("wait", "shutdown")
  BY <1>7, StopInv
<1> QED
  BY <1>1, <1>2, <1>3, <1>4, <1>5, <1>6, <1>7 DEF Next

\* Who holds which decision and how far App::stop is, at every moment
THEOREM Invariance == Spec => []IInv
  BY InitInv, StepInv, PTL DEF Spec

(***************************************************************************)
(* Every decision is in exactly one place: with its caller, in the queue,  *)
(* being sent, or dispatched.  None is lost or dispatched twice by an      *)
(* overflow, by the unlocked read of dotrigger_accept_ while App stops, or *)
(* by the clear() after the join (app.cpp:1108-1149).                      *)
(***************************************************************************)
THEOREM NoneLostNorRepeated == Spec => []TriggersAccounted
<1>1. IInv => TriggersAccounted
  BY DEF IInv
<1> QED
  BY <1>1, Invariance, PTL

(***************************************************************************)
(* When App stops the Builder, every decision has been dispatched and no   *)
(* thread is left that could register an event, whichever of the waits     *)
(* before it gave up (app.cpp:895-1010).                                   *)
(***************************************************************************)
THEOREM BuilderStopsLast == Spec => []QuietBeforeBuilderStops
<1>1. ASSUME IInv, main \in {"builder", "done"}
      PROVE  /\ dispatched = 1..tags /\ worker = "exited" /\ ~t3Alive
             /\ \A a \in Threads : dispatch[a].pc = "none"
  <2>1. /\ worker = "exited" /\ queue = <<>> /\ ~t3Alive /\ Idle("t3") /\ Idle("main")
    BY <1>1 DEF IInv, StopOrder, Joined3, Drained3
  <2>2. \A a \in Threads : ~Sends(a)
    BY <1>1, <2>1 DEF IInv, OneAtATime, Sends, Idle, Threads
  <2>3. BeingSent = {} /\ WithCaller = {} /\ Queued = {}
    <3>1. BeingSent = {}
      BY <2>2, PlacesAre
    <3>2. WithCaller = {}
      BY <2>1, PlacesAre DEF Idle, Holds, Callers
    <3>3. Queued = {}
      BY <2>1 DEF Queued
    <3> QED
      BY <3>1, <3>2, <3>3
  <2>4. dispatched = 1..tags
    BY <1>1, <2>3 DEF IInv, TriggersAccounted
  <2> QED
    BY <2>1, <2>2, <2>4 DEF Sends
<1>2. IInv => QuietBeforeBuilderStops
  BY <1>1 DEF QuietBeforeBuilderStops
<1> QED
  BY <1>2, Invariance, PTL
=============================================================================
