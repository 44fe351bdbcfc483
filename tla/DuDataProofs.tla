---------------------------- MODULE DuDataProofs ----------------------------
(***************************************************************************)
(* Proofs about DuData, for every ring, every set of time stamps and any   *)
(* number of events, runs and triggers.                                    *)
(*                                                                         *)
(* The offset of an answer is computed from the size of the latest event,  *)
(* so what is proved of answers needs events of one size: a DU whose trace *)
(* length no configuration changes (data_manager.cpp:452).                 *)
(***************************************************************************)
EXTENDS DuData, SequenceTheorems, WellFoundedInduction, TLAPS

OneSize(sz) == Sizes = {sz}

-----------------------------------------------------------------------------
(***************************************************************************)
(* The inductive invariant of the ring.  Traces of one size lie side by    *)
(* side, so a slot is as good as an offset.                                *)
(***************************************************************************)
Room(sz) == RingSize \div sz

\* The event whose trace slot k holds, 0 if none has come yet
Owner(k, sz) == ring.cells[k * sz]

Holds(k, n, sz) ==
  /\ \A c \in 0..sz - 1 : ring.cells[k * sz + c] = n
  /\ ring.slots[k] = IF n = 0 THEN 0 ELSE seen[n].ts

\* The slot of the event i before the latest, when the next goes behind slot o
SlotOf(o, i, sz) == IF i < o THEN o - 1 - i ELSE o - 1 - i + Room(sz)

ComesOnce(n) == \A m \in DOMAIN seen : m # n => seen[m].ts # seen[n].ts

DuTypes(sz) ==
  /\ reading # 0 => size = sz
  /\ seen \in Seq([ts : Times, size : {sz}])
  /\ ring.cells \in [0..RingSize - 1 -> Nat] /\ ring.slots \in [0..Slots - 1 -> Nat]
  /\ ring.raw = IF seen = <<>> THEN 0 ELSE sz

EachSlot(sz) ==
  \A k \in 0..Room(sz) - 1 : /\ Owner(k, sz) \in 0..Len(seen)
                             /\ Holds(k, Owner(k, sz), sz)

OneSlotEach(sz) ==
  \A j, k \in 0..Room(sz) - 1 : Owner(j, sz) = Owner(k, sz) /\ Owner(k, sz) # 0 => j = k

Indexed(sz) ==
  \A ts \in DOMAIN ring.index :
    /\ ts \in Times /\ ring.index[ts] \in 0..Room(sz) - 1
    /\ ring.slots[ring.index[ts]] = ts

Recent(o, sz) ==
  \A i \in 0..Room(sz) - 1, n \in DOMAIN seen : n + i = Len(seen) =>
    LET k == SlotOf(o, i, sz)
    IN  /\ Owner(k, sz) = n
        /\ ComesOnce(n) => seen[n].ts \in DOMAIN ring.index /\ ring.index[seen[n].ts] = k

RingInv(o, sz) ==
  /\ o \in 0..Room(sz) /\ ring.offset = o * sz
  /\ seen # <<>> => o > 0
  /\ EachSlot(sz) /\ OneSlotEach(sz) /\ Indexed(sz) /\ Recent(o, sz)

ASequence(q) == \E S : q \in Seq(S)

Shows(m, sz) ==
  m.kind = "event" =>
    \E n \in DOMAIN seen : seen[n].ts = m.ts /\ m.load = [c \in 1..sz |-> n]

\* The buffer of hits
Counted(b) ==
  /\ b = [hits |-> b.hits, sent |-> b.sent]
  /\ b.hits \in Seq(Times) /\ b.sent \in 0..Len(b.hits)

Waiting == {outQ[i] : i \in DOMAIN outQ}

OutInv(sz) == ASequence(outQ) /\ \A m \in Waiting : Shows(m, sz)

-----------------------------------------------------------------------------
(***************************************************************************)
(* The inductive invariant of the T2 messages                              *)
(***************************************************************************)
Stamps == [n \in DOMAIN seen |-> seen[n].ts]

\* FlattenSeq is defined by a recursive function: this is its equation.
Flat(f, s) == f = [i \in 1..Len(s) |-> IF i = 1 THEN s[i] ELSE f[i - 1] \o s[i]]
Flattens(s) == \E f : Flat(f, s)

WithinSecond(s) ==
  \A j \in DOMAIN s : s[j] \in (s[1] \div Second) * Second..(s[1] \div Second) * Second + Second

TellInv ==
  /\ seen \in Seq([ts : Times, size : Nat]) /\ size \in Nat /\ Counted(t2)
  /\ told \in Seq(Seq(Times)) /\ Flattens(told)
  /\ FlattenSeq(told) \in Seq(Times) /\ FlattenSeq(told) \o Unsent(t2) = Stamps
  /\ \A i \in DOMAIN told : WithinSecond(told[i])
  /\ WithinSecond(Unsent(t2))

-----------------------------------------------------------------------------
(***************************************************************************)
(* Slots and offsets                                                       *)
(***************************************************************************)
LEMMA SideBySide ==
  ASSUME NEW sz \in Nat \ {0}, NEW a \in Nat, NEW b \in Nat, a < b
  PROVE  a * sz + sz <= b * sz
<1>1. PICK d \in Nat : b = a + 1 + d
  BY b - a - 1 \in Nat /\ b = a + 1 + (b - a - 1)
<1>2. b * sz = a * sz + sz + d * sz
  BY <1>1
<1>3. d * sz \in Nat /\ a * sz \in Nat
  OBVIOUS
<1> QED
  BY <1>2, <1>3

LEMMA SlotOfOffset ==
  ASSUME NEW sz \in Nat \ {0}, NEW k \in Nat
  PROVE  (k * sz) \div sz = k
<1> DEFINE p == k * sz
           q == p \div sz
<1>1. p \in Nat /\ q \in Nat
  OBVIOUS
<1>2. q * sz <= p /\ p < q * sz + sz
  <2> HIDE DEF p
  <2>1. p = sz * q + (p % sz) /\ p % sz \in 0..sz - 1
    BY <1>1
  <2> QED
    BY <1>1, <2>1
<1>3. ~(k < q) /\ ~(q < k)
  BY <1>1, <1>2, SideBySide
<1> QED
  BY <1>1, <1>3

LEMMA RoomIs ==
  ASSUME DuDataConstants, NEW sz, OneSize(sz)
  PROVE  /\ sz \in Nat \ {0} /\ RingSize \in Nat /\ Slots \in Nat
         /\ Room(sz) \in Nat \ {0} /\ Room(sz) < Slots
         /\ Room(sz) * sz <= RingSize /\ RingSize < Room(sz) * sz + sz
<1>1. sz \in Nat \ {0} /\ sz <= RingSize /\ RingSize \in Nat \ {0} /\ Slots \in Nat /\ Room(sz) < Slots
  BY DEF DuDataConstants, OneSize, Room
<1> DEFINE q == Room(sz)
<1>2. q \in Nat /\ RingSize = sz * q + (RingSize % sz) /\ RingSize % sz \in 0..sz - 1
  BY <1>1 DEF Room
<1> HIDE DEF q
<1>3. q * sz <= RingSize /\ RingSize < q * sz + sz
  BY <1>1, <1>2
<1>4. q # 0
  BY <1>1, <1>3
<1> QED
  BY <1>1, <1>2, <1>3, <1>4 DEF q

\* The cells of the slots lie in the ring, side by side.
LEMMA CellsOf ==
  ASSUME DuDataConstants, NEW sz, OneSize(sz), NEW k \in 0..Room(sz) - 1, NEW c \in 0..sz - 1
  PROVE  /\ k * sz \in Nat /\ k * sz + c \in 0..RingSize - 1 /\ k * sz + sz <= RingSize
         /\ \A j \in 0..Room(sz) - 1 :
              k * sz + c \in j * sz..j * sz + sz - 1 <=> j = k
<1>0. /\ sz \in Nat \ {0} /\ Room(sz) \in Nat \ {0} /\ RingSize \in Nat
      /\ Room(sz) * sz <= RingSize
  BY RoomIs, Zenon
<1>1. /\ k \in Nat /\ c \in Nat /\ c < sz /\ sz \in Nat \ {0}
      /\ k < Room(sz) /\ Room(sz) \in Nat
  <2>1. sz \in Nat \ {0} /\ Room(sz) \in Nat \ {0}
    BY <1>0
  <2> QED
    BY <2>1
<1>2. k * sz + sz <= Room(sz) * sz
  BY <1>1, SideBySide
<1>3. k * sz \in Nat /\ Room(sz) * sz \in Nat /\ Room(sz) * sz <= RingSize /\ RingSize \in Nat
  BY <1>0, <1>1
<1>4. ASSUME NEW j \in 0..Room(sz) - 1, j # k
      PROVE  k * sz + c \notin j * sz..j * sz + sz - 1
  <2>1. j \in Nat /\ j * sz \in Nat /\ (j < k \/ k < j)
    BY <1>1, <1>4
  <2>2. j * sz + sz <= k * sz \/ k * sz + sz <= j * sz
    BY <1>1, <2>1, SideBySide
  <2> DEFINE a == k * sz
             b == j * sz
  <2>3. a \in Nat /\ b \in Nat /\ (b + sz <= a \/ a + sz <= b)
    BY <1>3, <2>1, <2>2
  <2> HIDE DEF a, b
  <2>4. a + c \notin b..b + sz - 1
    BY <1>1, <2>3
  <2> QED
    BY <2>4 DEF a, b
<1> DEFINE a == k * sz
<1>5. k * sz + c \in k * sz..k * sz + sz - 1
  <2> HIDE DEF a
  <2>1. a + c \in a..a + sz - 1
    BY <1>1, <1>3 DEF a
  <2> QED
    BY <2>1 DEF a
<1>6. k * sz + c \in 0..RingSize - 1 /\ k * sz + sz <= RingSize
  <2> DEFINE r == Room(sz) * sz
  <2>1. a \in Nat /\ r \in Nat /\ a + sz <= r /\ r <= RingSize /\ RingSize \in Nat
    BY <1>2, <1>3
  <2> HIDE DEF a, r
  <2>2. a + c \in 0..RingSize - 1 /\ a + sz <= RingSize
    BY <1>1, <2>1
  <2> QED
    BY <2>2 DEF a
<1> QED
  BY <1>3, <1>4, <1>5, <1>6

-----------------------------------------------------------------------------
(***************************************************************************)
(* Storing a trace                                                         *)
(***************************************************************************)
\* The slot of the next trace, when slot o - 1 holds the latest
NextSlot(o, sz) == IF o = Room(sz) THEN 0 ELSE o

LEMMA NextPlace ==
  ASSUME DuDataConstants, NEW sz, OneSize(sz), NEW o \in 0..Room(sz), ring.offset = o * sz
  PROVE  /\ NextSlot(o, sz) \in 0..Room(sz) - 1
         /\ Place(ring, sz) = NextSlot(o, sz) * sz
         /\ Place(ring, sz) \div sz = NextSlot(o, sz)
<1> DEFINE q == NextSlot(o, sz)
<1>1. /\ sz \in Nat \ {0} /\ Room(sz) \in Nat \ {0} /\ RingSize \in Nat
      /\ Room(sz) * sz <= RingSize /\ RingSize < Room(sz) * sz + sz
  BY RoomIs, Zenon
<1>2. q \in 0..Room(sz) - 1 /\ q \in Nat /\ o \in Nat
  BY <1>1 DEF NextSlot
<1>3. Place(ring, sz) = q * sz
  <2>1. CASE o = Room(sz)
    <3>1. o * sz + sz > RingSize /\ q = 0
      BY <1>1, <2>1 DEF NextSlot
    <3>2. q * sz = 0
      BY <1>1, <3>1
    <3> QED
      BY <3>1, <3>2 DEF Place
  <2>2. CASE o # Room(sz)
    <3>1. o < Room(sz) /\ q = o
      BY <1>1, <2>2 DEF NextSlot
    <3>2. o * sz + sz <= Room(sz) * sz
      BY <1>1, <1>2, <3>1, SideBySide
    <3>3. o * sz \in Nat /\ Room(sz) * sz \in Nat
      BY <1>1, <1>2
    <3> DEFINE a == o * sz
               r == Room(sz) * sz
    <3>4. a + sz <= r /\ r <= RingSize /\ a \in Nat /\ r \in Nat
      BY <1>1, <3>2, <3>3
    <3> HIDE DEF a, r
    <3>5. ~(a + sz > RingSize)
      BY <1>1, <3>4
    <3> QED
      BY <3>1, <3>5 DEF Place, a
  <2> QED
    BY <2>1, <2>2
<1>4. (q * sz) \div sz = q
  BY <1>1, <1>2, SlotOfOffset
<1> QED
  BY <1>2, <1>3, <1>4

LEMMA StoredIs ==
  ASSUME DuDataConstants, NEW sz, OneSize(sz), NEW o \in 0..Room(sz), ring.offset = o * sz,
         NEW q, q = NextSlot(o, sz), NEW n, NEW ts, ring' = Stored(ring, n, ts, sz)
  PROVE  /\ ring'.cells = [i \in DOMAIN ring.cells |->
                             IF i \in q * sz..q * sz + sz - 1 THEN n ELSE ring.cells[i]]
         /\ ring'.offset = (q + 1) * sz /\ ring'.raw = sz
         /\ ring'.slots = [ring.slots EXCEPT ![q] = ts]
         /\ ring'.index = [t \in (DOMAIN ring.index \ {ring.slots[q]}) \cup {ts} |->
                             IF t = ts THEN q ELSE ring.index[t]]
<1>1. Place(ring, sz) = q * sz /\ Place(ring, sz) \div sz = q /\ q \in 0..Room(sz) - 1
  BY NextPlace
<1>2. sz \in Nat \ {0} /\ q \in Nat
  <2>1. sz \in Nat \ {0} /\ Room(sz) \in Nat \ {0}
    BY RoomIs, Zenon
  <2> QED
    BY <1>1, <2>1
<1>3. q * sz + sz = (q + 1) * sz
  BY <1>2
<1> DEFINE at == Place(ring, sz)
<1> HIDE DEF at
<1>4. ring' = [cells  |-> [i \in DOMAIN ring.cells |->
                             IF i \in at..at + sz - 1 THEN n ELSE ring.cells[i]],
               offset |-> at + sz,
               raw    |-> sz,
               slots  |-> [ring.slots EXCEPT ![at \div sz] = ts],
               index  |-> [t \in (DOMAIN ring.index \ {ring.slots[at \div sz]}) \cup {ts} |->
                             IF t = ts THEN at \div sz ELSE ring.index[t]]]
  BY DEF Stored, at
<1>5. at = q * sz /\ at \div sz = q /\ at + sz = (q + 1) * sz
  BY <1>1, <1>3 DEF at
<1> QED
  BY <1>4, <1>5

\* Event number Len(seen) + 1 is stored, with time stamp ts.
Stores(ts, sz) ==
  /\ ring' = Stored(ring, Len(seen) + 1, ts, sz)
  /\ seen' = Append(seen, [ts |-> ts, size |-> sz])

LEMMA SeenGrows ==
  ASSUME NEW sz, DuTypes(sz), NEW ts \in Times, Stores(ts, sz)
  PROVE  /\ Len(seen) \in Nat /\ DOMAIN seen = 1..Len(seen)
         /\ seen' \in Seq([ts : Times, size : {sz}])
         /\ Len(seen') = Len(seen) + 1 /\ DOMAIN seen' = 1..Len(seen) + 1
         /\ \A n \in 1..Len(seen) : seen'[n] = seen[n]
         /\ seen'[Len(seen) + 1].ts = ts /\ seen'[Len(seen) + 1].size = sz
         /\ seen' # <<>>
<1> DEFINE e == [ts |-> ts, size |-> sz]
           R == [ts : Times, size : {sz}]
<1>1. e \in R /\ e.ts = ts /\ e.size = sz
  OBVIOUS
<1>2. seen \in Seq(R) /\ seen' = Append(seen, e)
  BY DEF DuTypes, Stores
<1> HIDE DEF e, R
<1>3. /\ seen' \in Seq(R) /\ Len(seen') = Len(seen) + 1 /\ Len(seen) \in Nat
      /\ DOMAIN seen = 1..Len(seen) /\ DOMAIN seen' = 1..Len(seen) + 1
      /\ \A n \in 1..Len(seen) : seen'[n] = seen[n]
      /\ seen'[Len(seen) + 1] = e
  BY <1>1, <1>2
<1>4. seen' # <<>>
  BY <1>3
<1> QED
  BY <1>1, <1>3, <1>4 DEF R

LEMMA StoreKeepsRing ==
  ASSUME DuDataConstants, NEW sz, OneSize(sz), NEW o, DuTypes(sz), RingInv(o, sz),
         NEW ts \in Times, Stores(ts, sz)
  PROVE  /\ RingInv(NextSlot(o, sz) + 1, sz)'
         /\ ring'.cells \in [0..RingSize - 1 -> Nat] /\ ring'.slots \in [0..Slots - 1 -> Nat]
<1>0. PICK L : L = Len(seen)
  OBVIOUS
<1> DEFINE q == NextSlot(o, sz)
           R == Room(sz)
           K == 0..R - 1
<1>1. /\ sz \in Nat \ {0} /\ R \in Nat \ {0} /\ RingSize \in Nat /\ Slots \in Nat /\ R < Slots
  BY RoomIs, Zenon
<1>2. q \in K /\ o \in 0..R /\ ring.offset = o * sz
  BY NextPlace DEF RingInv
<1>3. /\ ring'.cells = [i \in DOMAIN ring.cells |->
                          IF i \in q * sz..q * sz + sz - 1 THEN L + 1 ELSE ring.cells[i]]
      /\ ring'.offset = (q + 1) * sz /\ ring'.raw = sz
      /\ ring'.slots = [ring.slots EXCEPT ![q] = ts]
      /\ ring'.index = [t \in (DOMAIN ring.index \ {ring.slots[q]}) \cup {ts} |->
                          IF t = ts THEN q ELSE ring.index[t]]
  <2>1. ring' = Stored(ring, L + 1, ts, sz)
    BY <1>0 DEF Stores
  <2> QED
    BY <1>2, <2>1, StoredIs, Zenon
<1>4. /\ L \in Nat /\ DOMAIN seen = 1..L /\ Len(seen') = L + 1 /\ DOMAIN seen' = 1..L + 1
      /\ \A n \in 1..L : seen'[n] = seen[n]
      /\ seen'[L + 1].ts = ts /\ seen' # <<>>
  BY <1>0, SeenGrows
<1>5. ring.cells \in [0..RingSize - 1 -> Nat] /\ ring.slots \in [0..Slots - 1 -> Nat]
  BY DEF DuTypes
<1>6. ts \in Nat \ {0}
  BY DEF DuDataConstants
<1> HIDE DEF q, R
<1>7. ring'.cells \in [0..RingSize - 1 -> Nat] /\ ring'.slots \in [0..Slots - 1 -> Nat]
  <2>1. L + 1 \in Nat
    BY <1>4
  <2>2. ring'.cells \in [0..RingSize - 1 -> Nat]
    BY <1>3, <1>5, <2>1
  <2>3. ts \in Nat
    BY <1>6
  <2>4. \A f \in [0..Slots - 1 -> Nat] : [f EXCEPT ![q] = ts] \in [0..Slots - 1 -> Nat]
    BY <2>3
  <2>5. ring'.slots \in [0..Slots - 1 -> Nat]
    <3>1. ring'.slots = [ring.slots EXCEPT ![q] = ts]
      BY <1>3
    <3> QED
      BY <1>5, <2>4, <3>1, Zenon
  <2> QED
    BY <2>2, <2>5
\* The cells and the slots afterwards
<1>8. /\ \A c \in 0..sz - 1 : ring'.cells[q * sz + c] = L + 1
      /\ \A k \in K \ {q}, c \in 0..sz - 1 : ring'.cells[k * sz + c] = ring.cells[k * sz + c]
  <2>1. \A k \in K, c \in 0..sz - 1 :
          /\ k * sz + c \in 0..RingSize - 1
          /\ k * sz + c \in q * sz..q * sz + sz - 1 <=> q = k
    BY <1>2, CellsOf DEF R
  <2>2. DOMAIN ring.cells = 0..RingSize - 1
    BY <1>5
  <2>3. ASSUME NEW k \in K, NEW c \in 0..sz - 1
        PROVE  ring'.cells[k * sz + c] = IF q = k THEN L + 1 ELSE ring.cells[k * sz + c]
    <3> DEFINE i == k * sz + c
               I == q * sz..q * sz + sz - 1
    <3>1. i \in 0..RingSize - 1 /\ (i \in I <=> q = k)
      BY <2>1
    <3>2. ring'.cells = [j \in DOMAIN ring.cells |-> IF j \in I THEN L + 1 ELSE ring.cells[j]]
      BY <1>3
    <3> HIDE DEF i, I
    <3>3. ring'.cells[i] = IF q = k THEN L + 1 ELSE ring.cells[i]
      BY <2>2, <3>1, <3>2
    <3> QED
      BY <3>3 DEF i
  <2> QED
    BY <1>2, <2>3
<1>9. /\ ring'.slots[q] = ts /\ \A k \in K \ {q} : ring'.slots[k] = ring.slots[k]
  BY <1>1, <1>2, <1>3, <1>5
<1>10. 0 \in 0..sz - 1 /\ \A k \in K : k * sz + 0 = k * sz
  BY <1>1
<1>11. Owner(q, sz)' = L + 1 /\ \A k \in K \ {q} : Owner(k, sz)' = Owner(k, sz)
  BY <1>2, <1>8, <1>10 DEF Owner
<1>12. \A k \in K : Owner(k, sz) \in 0..L /\ Holds(k, Owner(k, sz), sz)
  BY <1>0 DEF RingInv, EachSlot, R
<1>13. EachSlot(sz)'
  <2>1. ASSUME NEW k \in K
        PROVE  Owner(k, sz)' \in 0..L + 1 /\ Holds(k, Owner(k, sz), sz)'
    <3>1. CASE k = q
      BY <1>4, <1>8, <1>9, <1>11, <3>1 DEF Holds
    <3>2. CASE k # q
      <4> DEFINE n == Owner(k, sz)
      <4>1. n \in 0..L /\ Holds(k, n, sz) /\ Owner(k, sz)' = n
        BY <1>11, <1>12, <3>2
      <4> HIDE DEF n
      <4>2. \A c \in 0..sz - 1 : ring'.cells[k * sz + c] = n
        BY <1>8, <3>2, <4>1 DEF Holds
      <4>3. ring'.slots[k] = IF n = 0 THEN 0 ELSE seen'[n].ts
        BY <1>4, <1>9, <3>2, <4>1 DEF Holds
      <4> QED
        BY <1>4, <4>1, <4>2, <4>3 DEF Holds
    <3> QED
      BY <3>1, <3>2
  <2> QED
    BY <1>4, <2>1 DEF EachSlot, R
<1>14. OneSlotEach(sz)'
  <2> SUFFICES ASSUME NEW j \in K, NEW k \in K, Owner(j, sz)' = Owner(k, sz)', Owner(k, sz)' # 0
               PROVE  j = k
    BY DEF OneSlotEach, R
  <2>1. CASE j # q /\ k # q
    BY <1>11, <2>1 DEF RingInv, OneSlotEach, R
  <2>2. CASE j = q \/ k = q
    BY <1>4, <1>11, <1>12, <2>2
  <2> QED
    BY <2>1, <2>2
<1>15. Indexed(sz)'
  <2> SUFFICES ASSUME NEW t \in DOMAIN ring'.index
               PROVE  t \in Times /\ ring'.index[t] \in K /\ ring'.slots[ring'.index[t]] = t
    BY DEF Indexed, R
  <2>1. CASE t = ts
    BY <1>2, <1>3, <1>9, <2>1
  <2>2. CASE t # ts
    <3>1. t \in DOMAIN ring.index /\ t # ring.slots[q] /\ ring'.index[t] = ring.index[t]
      BY <1>3, <2>2
    <3>2. t \in Times /\ ring.index[t] \in K /\ ring.slots[ring.index[t]] = t
      BY <3>1 DEF RingInv, Indexed, R
    <3> QED
      BY <1>9, <3>1, <3>2
  <2> QED
    BY <2>1, <2>2
<1>16. Recent(q + 1, sz)'
  <2> SUFFICES ASSUME NEW i \in K, NEW n \in 1..L + 1, n + i = L + 1,
                      NEW k, k = SlotOf(q + 1, i, sz)
               PROVE  /\ Owner(k, sz)' = n
                      /\ ComesOnce(n)' => /\ seen'[n].ts \in DOMAIN ring'.index
                                          /\ ring'.index[seen'[n].ts] = k
    BY <1>4 DEF Recent, R
  <2>1. CASE i = 0
    <3>1. k = q /\ n = L + 1
      BY <1>2, <1>4, <2>1 DEF SlotOf
    <3>2. ts \in DOMAIN ring'.index /\ ring'.index[ts] = q
      BY <1>3
    <3> QED
      BY <1>4, <1>11, <3>1, <3>2
  <2>2. CASE i # 0
    <3>1. i - 1 \in K /\ n \in 1..L /\ n + (i - 1) = L
      BY <1>1, <1>4, <2>2
    <3>2. k \in K /\ k # q /\ k = SlotOf(o, i - 1, sz)
      BY <1>1, <1>2, <2>2 DEF SlotOf, NextSlot, q, R
    <3>3. /\ Owner(k, sz) = n
          /\ ComesOnce(n) => seen[n].ts \in DOMAIN ring.index /\ ring.index[seen[n].ts] = k
      BY <1>0, <1>4, <3>1, <3>2 DEF RingInv, Recent, R
    <3>4. Owner(k, sz)' = n
      BY <1>11, <3>2, <3>3
    <3>5. seen'[n] = seen[n]
      BY <1>4, <3>1
    <3>6. ASSUME ComesOnce(n)'
          PROVE  seen[n].ts \in DOMAIN ring'.index /\ ring'.index[seen[n].ts] = k
      <4>0. PICK t : t = seen[n].ts
        OBVIOUS
      <4>1. \A m \in 1..L + 1 : m # n => seen'[m].ts # t
        BY <1>4, <3>5, <3>6, <4>0 DEF ComesOnce
      <4>2. \A m \in 1..L : m # n => seen[m].ts # t
        BY <1>4, <4>1
      <4>3. t # ts
        <5>1. L + 1 \in 1..L + 1 /\ L + 1 # n
          BY <1>4, <3>1
        <5> QED
          BY <1>4, <4>1, <5>1
      <4>4. t \in DOMAIN ring.index /\ ring.index[t] = k
        BY <1>4, <3>3, <4>0, <4>2 DEF ComesOnce
      <4>5. t # ring.slots[q]
        <5>0. PICK m : m = Owner(q, sz)
          OBVIOUS
        <5>1. m \in 0..L /\ ring.slots[q] = IF m = 0 THEN 0 ELSE seen[m].ts
          BY <1>2, <1>12, <5>0 DEF Holds
        <5>2. m # n \/ m = 0
          BY <1>2, <3>2, <3>3, <5>0 DEF RingInv, OneSlotEach, R
        <5>3. t # 0
          BY <4>4 DEF RingInv, Indexed, DuDataConstants
        <5>4. CASE m = 0
          BY <5>1, <5>3, <5>4
        <5>5. CASE m # 0
          <6>1. m \in 1..L /\ m # n
            BY <1>4, <5>1, <5>2, <5>5
          <6> QED
            BY <4>2, <5>1, <5>5, <6>1
        <5> QED
          BY <5>4, <5>5
      <4> QED
        BY <1>3, <4>0, <4>3, <4>4, <4>5
    <3> QED
      BY <3>4, <3>5, <3>6
  <2> QED
    BY <2>1, <2>2
<1>17. q + 1 \in 0..R /\ q + 1 > 0
  BY <1>1, <1>2
<1> QED
  BY <1>3, <1>7, <1>13, <1>14, <1>15, <1>16, <1>17 DEF RingInv, q, R

-----------------------------------------------------------------------------
(***************************************************************************)
(* The buffer of hits                                                      *)
(***************************************************************************)
LEMMA UnsentIs ==
  ASSUME NEW b, Counted(b)
  PROVE  /\ Unsent(b) \in Seq(Times) /\ Len(Unsent(b)) = Len(b.hits) - b.sent
         /\ DOMAIN Unsent(b) = 1..Len(b.hits) - b.sent
         /\ \A j \in 1..Len(b.hits) - b.sent : Unsent(b)[j] = b.hits[b.sent + j]
<1> DEFINE h == b.hits
           n == Len(h)
           m == b.sent
<1>1. h \in Seq(Times) /\ n \in Nat /\ m \in 0..n /\ DOMAIN h = 1..n
  BY DEF Counted
<1>2. \A i \in 1..n : h[i] \in Times
  BY <1>1
<1> HIDE DEF h, n, m
<1>3. m + 1 \in Int /\ n \in Int /\ \A i \in m + 1..n : h[i] \in Times
  BY <1>1, <1>2
<1>4. /\ SubSeq(h, m + 1, n) \in Seq(Times)
      /\ Len(SubSeq(h, m + 1, n)) = IF m + 1 <= n THEN n - (m + 1) + 1 ELSE 0
      /\ \A i \in 1..n - (m + 1) + 1 : SubSeq(h, m + 1, n)[i] = h[m + 1 + i - 1]
  BY <1>3, SubSeqProperties
<1>5. Unsent(b) = SubSeq(h, m + 1, n)
  BY DEF Unsent, h, m, n
<1> DEFINE u == SubSeq(h, m + 1, n)
<1> HIDE DEF u
<1>6. u \in Seq(Times) /\ Len(u) = n - m /\ \A i \in 1..n - m : u[i] = h[m + i]
  <2>1. n - (m + 1) + 1 = n - m /\ (IF m + 1 <= n THEN n - (m + 1) + 1 ELSE 0) = n - m
    BY <1>1
  <2>2. \A i \in 1..n - m : m + 1 + i - 1 = m + i
    BY <1>1
  <2> QED
    BY <1>4, <2>1, <2>2 DEF u
<1>7. DOMAIN u = 1..n - m
  BY <1>6
<1> QED
  BY <1>5, <1>6, <1>7 DEF u, h, n, m

\* Compressing the buffer loses no hit that is still to be told.
LEMMA CompressedKeeps ==
  ASSUME NEW b, Counted(b)
  PROVE  Counted(Compressed(b)) /\ Unsent(Compressed(b)) = Unsent(b)
<1>1. CASE Len(b.hits) < T2Capacity
  BY <1>1 DEF Compressed
<1>2. CASE ~(Len(b.hits) < T2Capacity)
  <2> DEFINE u == Unsent(b)
             c == Compressed(b)
  <2>1. c = [hits |-> u, sent |-> 0] /\ c.hits = u /\ c.sent = 0
    BY <1>2 DEF Compressed
  <2>2. u \in Seq(Times)
    BY UnsentIs
  <2> HIDE DEF u, c
  <2>3. Counted(c)
    BY <2>1, <2>2 DEF Counted
  <2>4. /\ Unsent(c) \in Seq(Times) /\ Len(Unsent(c)) = Len(u)
        /\ \A j \in 1..Len(u) : Unsent(c)[j] = u[j]
    <3>1. /\ Unsent(c) \in Seq(Times) /\ Len(Unsent(c)) = Len(u) - 0
          /\ \A j \in 1..Len(u) - 0 : Unsent(c)[j] = u[0 + j]
      BY <2>1, <2>3, UnsentIs
    <3>2. Len(u) \in Nat /\ Len(u) - 0 = Len(u) /\ \A j \in 1..Len(u) : 0 + j = j
      BY <2>2
    <3> QED
      BY <3>1, <3>2
  <2>5. Unsent(c) = u
    BY <2>2, <2>4, SeqEqual
  <2> QED
    BY <2>3, <2>5 DEF u, c
<1> QED
  BY <1>1, <1>2

\* What a hit does to the buffer: alone it waits when the others were told.
Buffered(b, ts, due) ==
  [hits |-> Append(b.hits, ts), sent |-> IF due THEN Len(b.hits) ELSE b.sent]

LEMMA HitBuffered ==
  ASSUME NEW b, Counted(b), NEW ts \in Times, NEW due \in BOOLEAN
  PROVE  /\ Counted(Buffered(b, ts, due))
         /\ Unsent(Buffered(b, ts, due)) = IF due THEN <<ts>> ELSE Append(Unsent(b), ts)
<1> DEFINE c == Buffered(b, ts, due)
           h == b.hits
           n == Len(h)
           m == b.sent
           v == IF due THEN <<ts>> ELSE Append(Unsent(b), ts)
<1>1. h \in Seq(Times) /\ n \in Nat /\ m \in 0..n
  BY DEF Counted
<1>2. /\ c = [hits |-> c.hits, sent |-> c.sent]
      /\ c.hits = Append(h, ts) /\ c.sent = IF due THEN n ELSE m
  BY DEF Buffered
<1> HIDE DEF c, h, n, m
<1>3. /\ Append(h, ts) \in Seq(Times) /\ Len(Append(h, ts)) = n + 1
      /\ \A i \in 1..n : Append(h, ts)[i] = h[i]
      /\ Append(h, ts)[n + 1] = ts
  BY <1>1, AppendProperties DEF n
<1>4. Counted(c)
  BY <1>1, <1>2, <1>3 DEF Counted
<1>5. /\ Unsent(c) \in Seq(Times) /\ Len(Unsent(c)) = n + 1 - c.sent
      /\ \A j \in 1..n + 1 - c.sent : Unsent(c)[j] = Append(h, ts)[c.sent + j]
  <2>1. /\ Unsent(c) \in Seq(Times) /\ Len(Unsent(c)) = Len(c.hits) - c.sent
        /\ \A j \in 1..Len(c.hits) - c.sent : Unsent(c)[j] = c.hits[c.sent + j]
    BY <1>4, UnsentIs
  <2> DEFINE p == Append(h, ts)
  <2>2. c.hits = p /\ Len(p) = n + 1
    BY <1>2, <1>3
  <2> HIDE DEF v, p
  <2>3. /\ Len(Unsent(c)) = n + 1 - c.sent
        /\ \A j \in 1..n + 1 - c.sent : Unsent(c)[j] = p[c.sent + j]
    <3>1. PICK k : k = c.sent
      OBVIOUS
    <3>2. k \in Nat /\ n \in Nat
      BY <1>1, <1>2, <3>1
    <3>3. PICK f : f = Unsent(c)
      OBVIOUS
    <3>4. Len(f) = n + 1 - k /\ \A j \in 1..n + 1 - k : f[j] = p[k + j]
      BY <2>1, <2>2, <3>1, <3>2, <3>3
    <3> QED
      BY <3>1, <3>3, <3>4
  <2> QED
    BY <2>1, <2>3 DEF p
<1>6. /\ Unsent(b) \in Seq(Times) /\ Len(Unsent(b)) = n - m
      /\ \A j \in 1..n - m : Unsent(b)[j] = h[m + j]
  BY UnsentIs DEF h, n, m
<1>7. CASE due
  <2>1. Len(Unsent(c)) = 1 /\ Unsent(c)[1] = ts
    BY <1>1, <1>2, <1>3, <1>5, <1>7
  <2>2. <<ts>> \in Seq(Times) /\ Len(<<ts>>) = 1 /\ <<ts>>[1] = ts
    OBVIOUS
  <2>3. Unsent(c) = <<ts>>
    BY <1>5, <2>1, <2>2, SeqEqual
  <2> QED
    BY <1>4, <1>7, <2>3 DEF c
<1>8. CASE ~due
  <2> DEFINE u == Unsent(b)
             w == Append(u, ts)
  <2>1. u \in Seq(Times) /\ Len(u) = n - m
    BY <1>6
  <2>2. /\ w \in Seq(Times) /\ Len(w) = n - m + 1
        /\ \A i \in 1..n - m : w[i] = u[i]
        /\ w[n - m + 1] = ts
    BY <2>1, AppendProperties
  <2> HIDE DEF u, w
  <2>3. Len(Unsent(c)) = n - m + 1
    BY <1>1, <1>2, <1>5, <1>8
  <2>4. ASSUME NEW j \in 1..n - m + 1
        PROVE  Unsent(c)[j] = w[j]
    <3>1. Unsent(c)[j] = Append(h, ts)[m + j]
      <4>1. c.sent = m /\ n + 1 - m = n - m + 1
        BY <1>1, <1>2, <1>8
      <4> QED
        BY <1>5, <4>1
    <3>2. CASE j = n - m + 1
      <4>1. m + j = n + 1
        BY <1>1, <3>2
      <4> QED
        BY <1>3, <2>2, <3>1, <3>2, <4>1
    <3>3. CASE j # n - m + 1
      <4>1. j \in 1..n - m /\ m + j \in 1..n
        BY <1>1, <3>3
      <4> QED
        BY <1>3, <1>6, <2>2, <3>1, <4>1 DEF u
    <3> QED
      BY <3>2, <3>3
  <2>5. Unsent(c) = w
    BY <1>5, <2>2, <2>3, <2>4, SeqEqual
  <2> QED
    BY <1>4, <1>8, <2>5 DEF c, w, u
<1> QED
  BY <1>7, <1>8

-----------------------------------------------------------------------------
(***************************************************************************)
(* What is sent                                                            *)
(***************************************************************************)
AnswerInv(sz) ==
  /\ DuTypes(sz) /\ Counted(t2) /\ OutInv(sz)
  /\ \E o \in 0..Room(sz) : RingInv(o, sz)

LEMMA QueuedIs ==
  ASSUME NEW q, ASequence(q), NEW m
  PROVE  /\ ASequence(Queued(q, m)) /\ Len(q) \in Nat /\ DOMAIN q = 1..Len(q)
         /\ Len(q) >= OutCapacity => Queued(q, m) = q
         /\ ~(Len(q) >= OutCapacity) =>
              /\ DOMAIN Queued(q, m) = 1..Len(q) + 1 /\ Len(Queued(q, m)) = Len(q) + 1
              /\ \A i \in 1..Len(q) : Queued(q, m)[i] = q[i]
              /\ Queued(q, m)[Len(q) + 1] = m
<1>1. PICK S : q \in Seq(S)
  BY DEF ASequence
<1>2. Len(q) \in Nat /\ DOMAIN q = 1..Len(q)
  BY <1>1
<1>3. CASE Len(q) >= OutCapacity
  BY <1>2, <1>3 DEF Queued
<1>4. CASE ~(Len(q) >= OutCapacity)
  <2> DEFINE T == S \cup {m}
             a == Append(q, m)
  <2>1. q \in Seq(T) /\ m \in T
    <3>1. S \subseteq T /\ m \in T
      OBVIOUS
    <3> QED
      BY <1>1, <3>1, SeqMonotonic
  <2>2. /\ a \in Seq(T) /\ Len(a) = Len(q) + 1
        /\ \A i \in 1..Len(q) : a[i] = q[i]
        /\ a[Len(q) + 1] = m
    BY <2>1, AppendProperties
  <2>3. DOMAIN a = 1..Len(q) + 1
    BY <2>2
  <2>4. Queued(q, m) = a
    BY <1>4 DEF Queued
  <2> HIDE DEF a, T
  <2> QED
    BY <1>2, <1>4, <2>2, <2>3, <2>4 DEF ASequence
<1> QED
  BY <1>3, <1>4

LEMMA TailIs ==
  ASSUME NEW q, ASequence(q), q # <<>>
  PROVE  /\ ASequence(Tail(q)) /\ Len(q) \in Nat \ {0} /\ DOMAIN q = 1..Len(q)
         /\ Len(Tail(q)) = Len(q) - 1 /\ DOMAIN Tail(q) = 1..Len(q) - 1
         /\ Head(q) = q[1]
         /\ \A i \in 1..Len(q) - 1 : Tail(q)[i] = q[i + 1]
<1>1. PICK S : q \in Seq(S)
  BY DEF ASequence
<1>2. /\ Tail(q) \in Seq(S) /\ Len(Tail(q)) = Len(q) - 1 /\ Len(q) \in Nat \ {0}
      /\ \A i \in 1..Len(Tail(q)) : Tail(q)[i] = q[i + 1]
  BY <1>1, HeadTailProperties
<1>3. Head(q) = q[1] /\ DOMAIN q = 1..Len(q) /\ DOMAIN Tail(q) = 1..Len(q) - 1
  BY <1>1, <1>2
<1> QED
  BY <1>2, <1>3 DEF ASequence

\* The answer for an indexed time stamp is the trace of its event.
LEMMA AnswerShows ==
  ASSUME DuDataConstants, NEW sz, OneSize(sz), NEW o, DuTypes(sz), RingInv(o, sz),
         NEW ts \in DOMAIN ring.index
  PROVE  /\ ts \in Times /\ Answers(ring, ts)
         /\ Owner(ring.index[ts], sz) \in DOMAIN seen
         /\ seen[Owner(ring.index[ts], sz)].ts = ts
         /\ Trace(ring, ts) = [c \in 1..sz |-> Owner(ring.index[ts], sz)]
         /\ Trace(ring, ts) \in Seq(Nat)
<1>0. PICK k : k = ring.index[ts]
  OBVIOUS
<1>1. PICK n : n = Owner(k, sz)
  OBVIOUS
<1>2. ts \in Times /\ ts # 0 /\ k \in 0..Room(sz) - 1 /\ ring.slots[k] = ts
  BY <1>0 DEF RingInv, Indexed, DuDataConstants
<1>3. n \in 0..Len(seen) /\ Holds(k, n, sz)
  BY <1>1, <1>2 DEF RingInv, EachSlot
<1>4. seen \in Seq([ts : Times, size : {sz}]) /\ Len(seen) \in Nat /\ DOMAIN seen = 1..Len(seen)
  BY DEF DuTypes
<1>5. n \in DOMAIN seen /\ seen[n].ts = ts /\ n \in Nat
  BY <1>2, <1>3, <1>4 DEF Holds
<1>6. ring.raw = sz
  BY <1>4, <1>5 DEF DuTypes
<1>7. sz \in Nat \ {0}
  BY RoomIs, Zenon
<1>8. 0 \in 0..sz - 1 /\ Room(sz) \in Nat \ {0} /\ k \in Nat
  <2>1. Room(sz) \in Nat \ {0}
    BY RoomIs, Zenon
  <2> QED
    BY <1>2, <1>7, <2>1
<1>9. k * sz \in Nat /\ k * sz + sz <= RingSize
  BY <1>2, <1>8, CellsOf
<1>10. (k + 1) * sz = k * sz + sz
  BY <1>7, <1>8
<1>11. Answers(ring, ts)
  BY <1>0, <1>6, <1>9, <1>10 DEF Answers
<1>12. Trace(ring, ts) = [c \in 1..sz |-> n]
  <2>1. PICK from : from = k * sz
    OBVIOUS
  <2>2. from \in Nat /\ \A c \in 0..sz - 1 : ring.cells[from + c] = n
    BY <1>3, <1>9, <2>1 DEF Holds
  <2>3. ASSUME NEW c \in 1..sz
        PROVE  ring.cells[from + c - 1] = n
    <3>1. c - 1 \in 0..sz - 1 /\ from + c - 1 = from + (c - 1)
      BY <1>7, <2>2
    <3> QED
      BY <2>2, <3>1
  <2>4. Trace(ring, ts) = [i \in 1..sz |-> ring.cells[from + i - 1]]
    BY <1>0, <1>2, <1>6, <2>1 DEF Trace
  <2> QED
    BY <2>3, <2>4
<1>13. [c \in 1..sz |-> n] \in Seq(Nat)
  BY <1>5, <1>7
<1> QED
  BY <1>0, <1>1, <1>2, <1>5, <1>11, <1>12, <1>13

\* The events seen so far stay.
SeenStays ==
  DOMAIN seen \subseteq DOMAIN seen' /\ \A n \in DOMAIN seen : seen'[n] = seen[n]

LEMMA ShowsStays ==
  ASSUME NEW sz, SeenStays, NEW m, Shows(m, sz)
  PROVE  Shows(m, sz)'
BY DEF Shows, SeenStays

LEMMA OutStays ==
  ASSUME NEW sz, SeenStays, OutInv(sz),
         \/ outQ' = outQ
         \/ outQ' = Tail(outQ) /\ outQ # <<>>
         \/ \E m : outQ' = Queued(outQ, m) /\ Shows(m, sz)'
  PROVE  OutInv(sz)'
<1>1. ASequence(outQ) /\ \A m \in Waiting : Shows(m, sz)'
  BY ShowsStays DEF OutInv
<1>2. CASE outQ' = outQ
  BY <1>1, <1>2 DEF OutInv, Waiting
<1>3. CASE outQ' = Tail(outQ) /\ outQ # <<>>
  <2>1. /\ ASequence(Tail(outQ)) /\ Len(outQ) \in Nat \ {0} /\ DOMAIN outQ = 1..Len(outQ)
        /\ DOMAIN Tail(outQ) = 1..Len(outQ) - 1
        /\ \A i \in 1..Len(outQ) - 1 : Tail(outQ)[i] = outQ[i + 1]
    BY <1>1, <1>3, TailIs
  <2>2. \A i \in DOMAIN Tail(outQ) : i + 1 \in DOMAIN outQ /\ Tail(outQ)[i] = outQ[i + 1]
    BY <2>1
  <2>3. Waiting' \subseteq Waiting
    BY <1>3, <2>2 DEF Waiting
  <2> QED
    BY <1>1, <1>3, <2>1, <2>3 DEF OutInv, ASequence
<1>4. CASE \E m : outQ' = Queued(outQ, m) /\ Shows(m, sz)'
  <2>1. PICK m : outQ' = Queued(outQ, m) /\ Shows(m, sz)'
    BY <1>4
  <2>2. ASequence(outQ') /\ \A i \in DOMAIN outQ' : outQ'[i] = m \/ \E j \in DOMAIN outQ : outQ[j] = outQ'[i]
    <3>1. CASE Len(outQ) >= OutCapacity
      BY <1>1, <2>1, <3>1, QueuedIs
    <3>2. CASE ~(Len(outQ) >= OutCapacity)
      <4>1. /\ ASequence(outQ') /\ Len(outQ) \in Nat /\ DOMAIN outQ = 1..Len(outQ)
            /\ DOMAIN outQ' = 1..Len(outQ) + 1
            /\ \A i \in 1..Len(outQ) : outQ'[i] = outQ[i]
            /\ outQ'[Len(outQ) + 1] = m
        BY <1>1, <2>1, <3>2, QueuedIs
      <4>2. \A i \in 1..Len(outQ) + 1 : i \in 1..Len(outQ) \/ i = Len(outQ) + 1
        <5>1. Len(outQ) \in Nat
          BY <4>1
        <5> QED
          BY <5>1
      <4> QED
        BY <4>1, <4>2, Zenon
    <3> QED
      BY <3>1, <3>2
  <2>3. Waiting' \subseteq Waiting \cup {m}
    BY <2>2 DEF Waiting
  <2> QED
    BY <1>1, <2>1, <2>2, <2>3 DEF OutInv, ASequence
<1> QED
  BY <1>2, <1>3, <1>4

-----------------------------------------------------------------------------
(***************************************************************************)
(* Every step keeps the invariant of the answers.                          *)
(***************************************************************************)
LEMMA AddEventIs ==
  ASSUME NEW ts, AddEvent(ts)
  PROVE  \E due \in BOOLEAN :
           /\ due <=> Overdue(Compressed(t2), ts)
           /\ reading # 0 /\ reading' = reading /\ size' = size
           /\ Stores(ts, size)
           /\ t2' = Buffered(Compressed(t2), ts, due)
           /\ outQ' = IF due THEN Queued(outQ, T2Message(Compressed(t2))) ELSE outQ
           /\ told' = IF due THEN Append(told, Unsent(Compressed(t2))) ELSE told
           /\ IF due THEN Tells(Compressed(t2)) ELSE UNCHANGED <<outQ, told, fate>>
<1> DEFINE due == Overdue(Compressed(t2), ts)
<1>1. due \in BOOLEAN
  BY DEF Overdue
<1>2. /\ due <=> Overdue(Compressed(t2), ts)
      /\ reading # 0 /\ reading' = reading /\ size' = size
      /\ Stores(ts, size)
      /\ t2' = Buffered(Compressed(t2), ts, due)
      /\ IF due THEN Tells(Compressed(t2)) ELSE UNCHANGED <<outQ, told, fate>>
  BY DEF AddEvent, Stores, Buffered
<1> HIDE DEF due
<1>3. /\ outQ' = IF due THEN Queued(outQ, T2Message(Compressed(t2))) ELSE outQ
      /\ told' = IF due THEN Append(told, Unsent(Compressed(t2))) ELSE told
  BY <1>2 DEF Tells
<1> QED
  BY <1>1, <1>2, <1>3

LEMMA AddEventKeepsAnswers ==
  ASSUME DuDataConstants, NEW sz, OneSize(sz), AnswerInv(sz), NEW ts \in Times, AddEvent(ts)
  PROVE  AnswerInv(sz)'
<1>1. PICK due \in BOOLEAN :
        /\ reading # 0 /\ reading' = reading /\ size' = size
        /\ Stores(ts, size)
        /\ t2' = Buffered(Compressed(t2), ts, due)
        /\ outQ' = IF due THEN Queued(outQ, T2Message(Compressed(t2))) ELSE outQ
  BY AddEventIs
<1>2. DuTypes(sz) /\ Counted(t2) /\ OutInv(sz)
  BY DEF AnswerInv
<1>3. PICK o \in 0..Room(sz) : RingInv(o, sz)
  BY DEF AnswerInv
<1>4. Stores(ts, sz) /\ size' = sz
  BY <1>1, <1>2 DEF DuTypes
<1>5. /\ RingInv(NextSlot(o, sz) + 1, sz)'
      /\ ring'.cells \in [0..RingSize - 1 -> Nat] /\ ring'.slots \in [0..Slots - 1 -> Nat]
  BY <1>2, <1>3, <1>4, StoreKeepsRing
<1>6. NextSlot(o, sz) + 1 \in 0..Room(sz)
  <2>1. NextSlot(o, sz) \in 0..Room(sz) - 1
    BY <1>3, NextPlace DEF RingInv
  <2>2. Room(sz) \in Nat \ {0}
    BY RoomIs, Zenon
  <2> QED
    BY <2>1, <2>2
<1>7. /\ seen' \in Seq([ts : Times, size : {sz}]) /\ seen' # <<>> /\ SeenStays
  <2>1. /\ Len(seen) \in Nat /\ DOMAIN seen = 1..Len(seen)
        /\ seen' \in Seq([ts : Times, size : {sz}])
        /\ DOMAIN seen' = 1..Len(seen) + 1
        /\ \A n \in 1..Len(seen) : seen'[n] = seen[n]
        /\ seen' # <<>>
    BY <1>2, <1>4, SeenGrows, Zenon
  <2>2. 1..Len(seen) \subseteq 1..Len(seen) + 1
    BY <2>1
  <2> QED
    BY <2>1, <2>2, Zenon DEF SeenStays
<1>8. ring'.raw = sz
  BY <1>3, <1>4, StoredIs DEF Stores, RingInv
<1>9. DuTypes(sz)'
  BY <1>4, <1>5, <1>7, <1>8 DEF DuTypes
<1>10. Counted(Compressed(t2))
  BY <1>2, CompressedKeeps
<1>11. Counted(t2)'
  <2>1. Counted(Buffered(Compressed(t2), ts, due))
    BY <1>10, HitBuffered
  <2> QED
    BY <1>1, <2>1 DEF Counted
<1>12. OutInv(sz)'
  <2>1. CASE due
    <3> PICK m : m = T2Message(Compressed(t2))
      OBVIOUS
    <3>1. m.kind # "event"
      BY DEF T2Message
    <3>2. Shows(m, sz)'
      BY <3>1 DEF Shows
    <3>3. outQ' = Queued(outQ, m)
      BY <1>1, <2>1
    <3> QED
      BY <1>2, <1>7, <3>2, <3>3, OutStays
  <2>2. CASE ~due
    BY <1>1, <1>2, <1>7, <2>2, OutStays
  <2> QED
    BY <2>1, <2>2
<1> QED
  BY <1>5, <1>6, <1>9, <1>11, <1>12 DEF AnswerInv

LEMMA RingStays ==
  ASSUME NEW sz, AnswerInv(sz), UNCHANGED <<ring, seen>>,
         reading' # 0 => size' = sz, Counted(t2)', OutInv(sz)'
  PROVE  AnswerInv(sz)'
<1>1. DuTypes(sz)'
  BY DEF AnswerInv, DuTypes
<1>2. PICK o \in 0..Room(sz) : RingInv(o, sz)
  BY DEF AnswerInv
<1>3. RingInv(o, sz)'
  BY <1>2 DEF RingInv, EachSlot, OneSlotEach, Indexed, Recent, Holds, Owner, ComesOnce
<1> QED
  BY <1>1, <1>2, <1>3 DEF AnswerInv

LEMMA OtherStepsKeepAnswers ==
  ASSUME DuDataConstants, NEW sz, OneSize(sz), AnswerInv(sz),
         \/ AddPeriodic \/ StartReadout \/ StopReadout
         \/ \E req \in Requests : PushTrigger(req)
         \/ Send \/ WorkerStep \/ UNCHANGED vars
  PROVE  AnswerInv(sz)'
<1>0. /\ DuTypes(sz) /\ Counted(t2) /\ OutInv(sz)
      /\ reading # 0 => size = sz
  BY DEF AnswerInv, DuTypes
<1>1. CASE AddPeriodic
  <2> PICK m : m = [kind |-> "raw", ts |-> 0, load |-> <<>>, no |-> 0]
    OBVIOUS
  <2>2. Shows(m, sz)'
    BY DEF Shows
  <2>3. UNCHANGED <<ring, seen, t2, reading, size>> /\ outQ' = Queued(outQ, m)
    BY <1>1 DEF AddPeriodic, data
  <2>4. SeenStays
    BY <2>3 DEF SeenStays
  <2>5. OutInv(sz)'
    BY <1>0, <2>2, <2>3, <2>4, OutStays
  <2> QED
    BY <1>0, <2>3, <2>5, RingStays DEF Counted
<1>2. CASE StartReadout
  <2>1. UNCHANGED <<ring, seen, t2, outQ>> /\ size' = sz
    BY <1>2 DEF StartReadout, data, OneSize
  <2>2. OutInv(sz)'
    BY <1>0, <2>1, OutStays DEF SeenStays
  <2> QED
    BY <1>0, <2>1, <2>2, RingStays DEF Counted
<1>3. CASE StopReadout
  <2>1. UNCHANGED <<ring, seen, size>> /\ reading' = 0
    BY <1>3 DEF StopReadout
  <2>2. SeenStays
    BY <2>1 DEF SeenStays
  <2>3. CASE reading = 2
    <3>1. outQ' = Queued(outQ, T2Message(t2)) /\ t2' = [t2 EXCEPT !.sent = Len(t2.hits)]
      BY <1>3, <2>3 DEF StopReadout, Tells
    <3> PICK m : m = T2Message(t2)
      OBVIOUS
    <3>2. m.kind # "event"
      BY DEF T2Message
    <3>3. Shows(m, sz)'
      BY <3>2 DEF Shows
    <3>4. OutInv(sz)'
      BY <1>0, <2>2, <3>1, <3>3, OutStays
    <3>5. Counted(t2)'
      BY <1>0, <3>1 DEF Counted
    <3> QED
      BY <2>1, <3>4, <3>5, RingStays
  <2>4. CASE reading # 2
    <3>1. UNCHANGED <<t2, outQ>>
      BY <1>3, <2>4 DEF StopReadout
    <3>2. OutInv(sz)'
      BY <1>0, <2>2, <3>1, OutStays
    <3> QED
      BY <1>0, <2>1, <3>1, <3>2, RingStays DEF Counted
  <2> QED
    BY <2>3, <2>4
<1>4. CASE Send
  <2>1. UNCHANGED <<ring, seen, t2, reading, size>> /\ outQ' = Tail(outQ) /\ outQ # <<>>
    BY <1>4 DEF Send, data
  <2>2. OutInv(sz)'
    BY <1>0, <2>1, OutStays DEF SeenStays
  <2> QED
    BY <1>0, <2>1, <2>2, RingStays DEF Counted
<1>5. CASE Answer
  <2>1. UNCHANGED <<ring, seen, t2, reading, size>>
    BY <1>5 DEF Answer, data
  <2>2. SeenStays
    BY <2>1 DEF SeenStays
  <2> PICK ts : ts = Head(worker.todo)
    OBVIOUS
  <2>3. CASE Answers(ring, ts)
    <3> PICK m : m = [kind |-> "event", ts |-> ts, load |-> Trace(ring, ts), no |-> 0]
      OBVIOUS
    <3>1. outQ' = Queued(outQ, m)
      BY <1>5, <2>3 DEF Answer
    <3>2. PICK o \in 0..Room(sz) : RingInv(o, sz)
      BY DEF AnswerInv
    <3>3. ts \in DOMAIN ring.index
      BY <2>3 DEF Answers
    <3> PICK n : n = Owner(ring.index[ts], sz)
      OBVIOUS
    <3>4. /\ ts \in Times /\ n \in DOMAIN seen /\ seen[n].ts = ts
          /\ Trace(ring, ts) = [c \in 1..sz |-> n] /\ Trace(ring, ts) \in Seq(Nat)
      <4>1. /\ ts \in Times
            /\ Owner(ring.index[ts], sz) \in DOMAIN seen
            /\ seen[Owner(ring.index[ts], sz)].ts = ts
            /\ Trace(ring, ts) = [c \in 1..sz |-> Owner(ring.index[ts], sz)]
            /\ Trace(ring, ts) \in Seq(Nat)
        BY <1>0, <3>2, <3>3, AnswerShows
      <4> QED
        BY <4>1
    <3>6. Shows(m, sz)'
      <4>1. m.ts = ts /\ m.load = Trace(ring, ts)
        OBVIOUS
      <4>2. m.load = [c \in 1..sz |-> n]
        BY <3>4, <4>1
      <4>3. seen' = seen
        BY <2>1
      <4>4. n \in DOMAIN seen' /\ seen'[n].ts = m.ts
        BY <3>4, <4>1, <4>3
      <4> QED
        BY <4>2, <4>4 DEF Shows
    <3>7. OutInv(sz)'
      BY <1>0, <2>2, <3>1, <3>6, OutStays
    <3> QED
      BY <1>0, <2>1, <3>7, RingStays DEF Counted
  <2>4. CASE ~Answers(ring, ts)
    <3>1. outQ' = outQ
      BY <1>5, <2>4 DEF Answer
    <3>2. OutInv(sz)'
      BY <1>0, <2>2, <3>1, OutStays
    <3> QED
      BY <1>0, <2>1, <3>2, RingStays DEF Counted
  <2> QED
    BY <2>3, <2>4
<1>6. CASE \/ \E req \in Requests : PushTrigger(req)
           \/ TakeTrigger \/ FindNone \/ Sleep \/ Lock \/ Unlock \/ UNCHANGED vars
  <2>1. UNCHANGED <<ring, seen, t2, outQ, reading, size>>
    BY <1>6 DEF PushTrigger, TakeTrigger, FindNone, Sleep, Lock, Unlock, data, vars
  <2>2. OutInv(sz)'
    BY <1>0, <2>1, OutStays DEF SeenStays
  <2> QED
    BY <1>0, <2>1, <2>2, RingStays DEF Counted
<1> QED
  BY <1>1, <1>2, <1>3, <1>4, <1>5, <1>6 DEF WorkerStep

LEMMA AnswersStart ==
  ASSUME DuDataConstants, NEW sz, OneSize(sz), Init
  PROVE  AnswerInv(sz)
<1>1. /\ Room(sz) \in Nat \ {0} /\ Slots \in Nat /\ RingSize \in Nat /\ Room(sz) < Slots
      /\ sz \in Nat \ {0}
  BY RoomIs, Zenon
<1>2. /\ ring.cells = [i \in 0..RingSize - 1 |-> 0] /\ ring.offset = 0 /\ ring.raw = 0
      /\ ring.slots = [i \in 0..Slots - 1 |-> 0] /\ ring.index = <<>>
      /\ t2 = [hits |-> <<>>, sent |-> 0] /\ t2.hits = <<>> /\ t2.sent = 0
      /\ outQ = <<>> /\ reading = 0 /\ seen = <<>>
  BY DEF Init
<1>3. seen \in Seq([ts : Times, size : {sz}]) /\ Len(seen) = 0 /\ DOMAIN seen = {}
  BY <1>2
<1>4. DuTypes(sz)
  BY <1>2, <1>3 DEF DuTypes
<1>5. Counted(t2) /\ OutInv(sz)
  <2>1. ASequence(outQ)
    BY <1>2, EmptySeq DEF ASequence
  <2> QED
    BY <1>2, <2>1 DEF Counted, OutInv, Waiting
<1>6. ASSUME NEW k \in 0..Room(sz) - 1
      PROVE  Owner(k, sz) = 0 /\ Holds(k, 0, sz)
  <2>1. \A c \in 0..sz - 1 : k * sz + c \in 0..RingSize - 1
    BY CellsOf
  <2>2. \A c \in 0..sz - 1 : ring.cells[k * sz + c] = 0
    BY <1>2, <2>1
  <2>3. 0 \in 0..sz - 1 /\ k * sz + 0 = k * sz
    BY <1>1
  <2>4. ring.slots[k] = 0
    BY <1>1, <1>2
  <2> QED
    BY <2>2, <2>3, <2>4 DEF Owner, Holds
<1>7. EachSlot(sz) /\ OneSlotEach(sz)
  BY <1>3, <1>6 DEF EachSlot, OneSlotEach
<1>8. Indexed(sz) /\ Recent(0, sz)
  <2>1. DOMAIN ring.index = {}
    BY <1>2
  <2> QED
    BY <1>3, <2>1 DEF Indexed, Recent
<1>9. 0 \in 0..Room(sz) /\ ring.offset = 0 * sz
  BY <1>1, <1>2
<1>10. RingInv(0, sz)
  BY <1>2, <1>7, <1>8, <1>9 DEF RingInv
<1> QED
  BY <1>4, <1>5, <1>9, <1>10 DEF AnswerInv

LEMMA EventsAre ==
  ASSUME NEW sz, DuTypes(sz)
  PROVE  /\ DOMAIN seen = 1..Len(seen) /\ Len(seen) \in Nat
         /\ \A n \in DOMAIN seen : seen[n].size = sz
<1> DEFINE R == [ts : Times, size : {sz}]
<1>1. seen \in Seq(R) /\ \A e \in R : e.size = sz
  BY DEF DuTypes
<1> HIDE DEF R
<1>2. /\ DOMAIN seen = 1..Len(seen) /\ Len(seen) \in Nat
      /\ \A n \in DOMAIN seen : seen[n] \in R
  BY <1>1
<1> QED
  BY <1>1, <1>2

LEMMA StepKeepsAnswers ==
  ASSUME DuDataConstants, NEW sz, OneSize(sz), AnswerInv(sz), [Next]_vars
  PROVE  AnswerInv(sz)'
<1>1. CASE \E ts \in Times : AddEvent(ts)
  BY <1>1, AddEventKeepsAnswers
<1>2. CASE ~ \E ts \in Times : AddEvent(ts)
  <2>1. \/ AddPeriodic \/ StartReadout \/ StopReadout
        \/ \E req \in Requests : PushTrigger(req)
        \/ Send \/ WorkerStep \/ UNCHANGED vars
    BY <1>2 DEF Next
  <2> QED
    BY <2>1, OtherStepsKeepAnswers
<1> QED
  BY <1>1, <1>2

LEMMA AnswerInvHolds ==
  ASSUME NEW sz, OneSize(sz)
  PROVE  Spec => []AnswerInv(sz)
<1>1. Init => AnswerInv(sz)
  BY DuDataConstants, AnswersStart
<1>2. AnswerInv(sz) /\ [Next]_vars => AnswerInv(sz)'
  BY DuDataConstants, StepKeepsAnswers
<1> QED
  BY <1>1, <1>2, PTL DEF Spec

-----------------------------------------------------------------------------
\* While all events have one size, what the worker answers is the trace of an
\* event with the time stamp asked for: the slot an index entry leads to holds
\* the trace whose time stamp is in it, whole, however the readout thread
\* wrapped around and reused slots before (acceptT3Trigger,
\* data_manager.cpp:436-462).
THEOREM AnswersProved ==
  ASSUME NEW sz, OneSize(sz)
  PROVE  Spec => []AnswersAreTheTrace
<1>1. AnswerInv(sz) => AnswersAreTheTrace
  <2> SUFFICES ASSUME AnswerInv(sz), NEW i \in DOMAIN outQ, outQ[i].kind = "event"
               PROVE  \E n \in DOMAIN seen :
                        /\ seen[n].ts = outQ[i].ts
                        /\ outQ[i].load = [c \in 1..seen[n].size |-> n]
    BY DEF AnswersAreTheTrace
  <2>1. Shows(outQ[i], sz)
    BY DEF AnswerInv, OutInv, Waiting
  <2>2. PICK n \in DOMAIN seen : seen[n].ts = outQ[i].ts /\ outQ[i].load = [c \in 1..sz |-> n]
    BY <2>1 DEF Shows
  <2>3. seen[n].size = sz
    BY EventsAre DEF AnswerInv
  <2> QED
    BY <2>2, <2>3
<1> QED
  BY <1>1, AnswerInvHolds, PTL

\* While all events have one size, as many of the latest as the ring has room
\* for are found by their time stamp, and found whole.  Storing an event
\* erases the index entry its slot's old time stamp had, and no entry of a
\* later event with a time stamp of its own (appendRingBuffer,
\* data_manager.cpp:180-224).
THEOREM RecentTracesFound ==
  ASSUME NEW sz, OneSize(sz)
  PROVE  Spec => []RecentIsFound
<1>1. AnswerInv(sz) => RecentIsFound
  <2> SUFFICES ASSUME AnswerInv(sz), NEW n \in DOMAIN seen,
                      Len(seen) - n < RingSize \div seen[n].size, ComesOnce(n)
               PROVE  /\ Answers(ring, seen[n].ts)
                      /\ Trace(ring, seen[n].ts) = [c \in 1..seen[n].size |-> n]
    BY DEF RecentIsFound, ComesOnce
  <2>1. PICK o \in 0..Room(sz) : RingInv(o, sz)
    BY DEF AnswerInv
  <2>2. DuTypes(sz)
    BY DEF AnswerInv
  <2>3. /\ seen[n].size = sz /\ DOMAIN seen = 1..Len(seen) /\ Len(seen) \in Nat
        /\ Room(sz) \in Nat \ {0}
    <3>1. Room(sz) \in Nat \ {0}
      BY DuDataConstants, RoomIs, Zenon
    <3> QED
      BY <2>2, <3>1, EventsAre
  <2>4. PICK i \in 0..Room(sz) - 1 : n + i = Len(seen)
    <3>1. n \in 1..Len(seen) /\ Len(seen) - n < Room(sz)
      BY <2>3 DEF Room
    <3>2. Len(seen) - n \in 0..Room(sz) - 1 /\ n + (Len(seen) - n) = Len(seen)
      BY <2>3, <3>1
    <3> QED
      BY <3>2
  <2>5. /\ seen[n].ts \in DOMAIN ring.index
        /\ Owner(ring.index[seen[n].ts], sz) = n
    BY <2>1, <2>4 DEF RingInv, Recent
  <2>6. Answers(ring, seen[n].ts) /\ Trace(ring, seen[n].ts) = [c \in 1..sz |-> n]
    <3>1. /\ Answers(ring, seen[n].ts)
          /\ Trace(ring, seen[n].ts) = [c \in 1..sz |-> Owner(ring.index[seen[n].ts], sz)]
      BY <2>1, <2>2, <2>5, DuDataConstants, AnswerShows
    <3> QED
      BY <2>5, <3>1
  <2> QED
    BY <2>3, <2>6
<1> QED
  BY <1>1, AnswerInvHolds, PTL

-----------------------------------------------------------------------------
(***************************************************************************)
(* Messages end to end                                                     *)
(***************************************************************************)
LEMMA LeastNumber ==
  ASSUME NEW S \in SUBSET Nat, S # {}
  PROVE  \E m \in S : \A n \in S : m <= n
<1>1. IsWellFoundedOn(OpToRel(<, Nat), Nat)
  BY NatLessThanWellFounded
<1>2. PICK m \in S : \A n \in S : ~(<<n, m>> \in OpToRel(<, Nat))
  BY <1>1, WFMin
<1>3. \A n \in S : ~(n < m)
  BY <1>2 DEF OpToRel
<1> QED
  BY <1>3

\* The recursive equation has one solution at most.
LEMMA FlatIsUnique ==
  ASSUME NEW s, Len(s) \in Nat, NEW f, NEW g, Flat(f, s), Flat(g, s)
  PROVE  f = g
<1> DEFINE Differ == {i \in 1..Len(s) : f[i] # g[i]}
<1>0. /\ \A i \in 1..Len(s) : f[i] = IF i = 1 THEN s[i] ELSE f[i - 1] \o s[i]
      /\ \A i \in 1..Len(s) : g[i] = IF i = 1 THEN s[i] ELSE g[i - 1] \o s[i]
  BY DEF Flat
<1>1. Differ = {}
  <2> SUFFICES ASSUME Differ # {}
               PROVE  FALSE
    OBVIOUS
  <2>1. Differ \in SUBSET Nat
    OBVIOUS
  <2>2. PICK m \in Differ : \A n \in Differ : m <= n
    BY <2>1, LeastNumber, Zenon
  <2>3. m \in 1..Len(s) /\ f[m] # g[m]
    OBVIOUS
  <2>4. m # 1
    BY <1>0, <2>3
  <2>5. m - 1 \in 1..Len(s) /\ ~(m <= m - 1)
    BY <2>3, <2>4
  <2>6. f[m - 1] = g[m - 1]
    BY <2>2, <2>5
  <2> QED
    BY <1>0, <2>3, <2>4, <2>6
<1>2. f = [i \in 1..Len(s) |-> f[i]] /\ g = [i \in 1..Len(s) |-> g[i]]
  BY DEF Flat
<1>3. \A i \in 1..Len(s) : f[i] = g[i]
  BY <1>1
<1> QED
  BY <1>2, <1>3

LEMMA FlattenIs ==
  ASSUME NEW s, Len(s) \in Nat, NEW f, Flat(f, s)
  PROVE  FlattenSeq(s) = IF Len(s) = 0 THEN s ELSE f[Len(s)]
<1> DEFINE flatten[i \in 1..Len(s)] == IF i = 1 THEN s[i] ELSE flatten[i - 1] \o s[i]
<1>1. flatten = CHOOSE g : g = [i \in 1..Len(s) |-> IF i = 1 THEN s[i] ELSE g[i - 1] \o s[i]]
  BY DEF flatten
<1>2. Flat(flatten, s)
  BY <1>1 DEF Flat
<1>3. Len(s) # 0 => FlattenSeq(s) = flatten[Len(s)]
  BY DEF FlattenSeq
<1>4. Len(s) = 0 => FlattenSeq(s) = s
  BY DEF FlattenSeq
<1> HIDE DEF flatten
<1>5. flatten = f
  BY <1>2, FlatIsUnique
<1> QED
  BY <1>3, <1>4, <1>5

LEMMA FlattenAppends ==
  ASSUME NEW T, NEW s \in Seq(Seq(T)), Flattens(s), FlattenSeq(s) \in Seq(T), NEW x \in Seq(T)
  PROVE  /\ Flattens(Append(s, x))
         /\ FlattenSeq(Append(s, x)) = FlattenSeq(s) \o x
<1>1. PICK f : Flat(f, s)
  BY DEF Flattens
<1> DEFINE n == Len(s)
           a == Append(s, x)
           g == [i \in 1..n + 1 |-> IF i <= n THEN f[i] ELSE IF n = 0 THEN x ELSE f[n] \o x]
<1>2. n \in Nat /\ Len(a) = n + 1 /\ (\A i \in 1..n : a[i] = s[i]) /\ a[n + 1] = x
  BY AppendProperties
<1>3. \A i \in 1..n : f[i] = IF i = 1 THEN s[i] ELSE f[i - 1] \o s[i]
  BY <1>1 DEF Flat
<1> HIDE DEF n, a
<1>4. ASSUME NEW i \in 1..n + 1
      PROVE  g[i] = IF i = 1 THEN a[i] ELSE g[i - 1] \o a[i]
  <2>1. CASE i <= n
    <3>1. i \in 1..n /\ g[i] = f[i] /\ a[i] = s[i]
      BY <1>2, <2>1
    <3>2. i # 1 => i - 1 \in 1..n + 1 /\ i - 1 <= n
      BY <1>2, <2>1
    <3>3. i # 1 => g[i - 1] = f[i - 1]
      BY <3>2
    <3> QED
      BY <1>3, <3>1, <3>3
  <2>2. CASE ~(i <= n)
    <3>1. i = n + 1 /\ a[i] = x /\ g[i] = IF n = 0 THEN x ELSE f[n] \o x
      BY <1>2, <2>2
    <3>2. i # 1 => n # 0 /\ i - 1 = n /\ n \in 1..n + 1 /\ n <= n
      BY <1>2, <3>1
    <3>3. i # 1 => g[i - 1] = f[n]
      BY <3>2
    <3>4. i = 1 => n = 0
      BY <1>2, <3>1
    <3> QED
      BY <3>1, <3>2, <3>3, <3>4
  <2> QED
    BY <2>1, <2>2
<1>5. Flat(g, a)
  <2>1. g = [i \in 1..n + 1 |-> g[i]]
    OBVIOUS
  <2> HIDE DEF g
  <2>2. g = [i \in 1..n + 1 |-> IF i = 1 THEN a[i] ELSE g[i - 1] \o a[i]]
    BY <1>4, <2>1
  <2> QED
    BY <1>2, <2>2 DEF Flat
<1>6. FlattenSeq(a) = g[n + 1]
  <2>1. Len(a) \in Nat /\ Len(a) # 0
    BY <1>2
  <2> HIDE DEF g
  <2> QED
    BY <1>2, <1>5, <2>1, FlattenIs
<1>7. g[n + 1] = IF n = 0 THEN x ELSE f[n] \o x
  BY <1>2
<1>8. FlattenSeq(s) = IF n = 0 THEN s ELSE f[n]
  BY <1>1, <1>2, FlattenIs DEF n
<1>9. n = 0 => FlattenSeq(s) \o x = x
  <2>1. n = 0 => s = <<>>
    BY EmptySeq DEF n
  <2>2. <<>> \o x = x
    BY ConcatEmptySeq
  <2> QED
    BY <1>8, <2>1, <2>2
<1> HIDE DEF g
<1>10. FlattenSeq(a) = FlattenSeq(s) \o x
  <2>1. CASE n = 0
    BY <1>6, <1>7, <1>9, <2>1
  <2>2. CASE n # 0
    BY <1>6, <1>7, <1>8, <2>2
  <2> QED
    BY <2>1, <2>2
<1> QED
  BY <1>5, <1>10 DEF Flattens, a

-----------------------------------------------------------------------------
(***************************************************************************)
(* Every step keeps the invariant of the T2 messages.                      *)
(***************************************************************************)
LEMMA StampsGrow ==
  ASSUME TellInv, NEW ts \in Times, seen' = Append(seen, [ts |-> ts, size |-> size])
  PROVE  /\ seen' \in Seq([ts : Times, size : Nat])
         /\ Stamps' = Append(Stamps, ts) /\ Stamps \in Seq(Times)
<1> DEFINE e == [ts |-> ts, size |-> size]
           R == [ts : Times, size : Nat]
           n == Len(seen)
<1>1. e \in R /\ e.ts = ts
  BY DEF TellInv
<1>2. seen \in Seq(R)
  BY DEF TellInv
<1>3. \A r \in R : r.ts \in Times
  OBVIOUS
<1> HIDE DEF e, R
<1>4. seen' = Append(seen, e)
  BY DEF e
<1>5. /\ n \in Nat /\ DOMAIN seen = 1..n /\ DOMAIN seen' = 1..n + 1 /\ seen' \in Seq(R)
      /\ (\A i \in 1..n : seen'[i] = seen[i] /\ seen[i] \in R) /\ seen'[n + 1] = e
  BY <1>1, <1>2, <1>4, AppendProperties
<1> HIDE DEF n
<1>6. Stamps = [i \in 1..n |-> seen[i].ts] /\ Stamps' = [i \in 1..n + 1 |-> seen'[i].ts]
  BY <1>5 DEF Stamps
<1> DEFINE s == [i \in 1..n |-> seen[i].ts]
           t == [i \in 1..n + 1 |-> seen'[i].ts]
<1>7. s \in Seq(Times) /\ Len(s) = n
  BY <1>3, <1>5
<1>8. \A i \in 1..n : t[i] = s[i]
  BY <1>5
<1>9. t[n + 1] = ts
  BY <1>1, <1>5
<1>10. t \in Seq(Times) /\ Len(t) = n + 1
  <2>1. \A i \in 1..n + 1 : t[i] \in Times
    <3>1. \A i \in 1..n + 1 : i \in 1..n \/ i = n + 1
      BY <1>5
    <3> QED
      BY <1>3, <1>5, <1>8, <1>9, <3>1
  <2>2. t = [i \in 1..n + 1 |-> t[i]]
    OBVIOUS
  <2> QED
    BY <1>5, <2>1
<1> HIDE DEF s, t
<1>11. t = Append(s, ts)
  <2>1. /\ Append(s, ts) \in Seq(Times) /\ Len(Append(s, ts)) = n + 1
        /\ \A i \in 1..n : Append(s, ts)[i] = s[i]
        /\ Append(s, ts)[n + 1] = ts
    BY <1>7, AppendProperties
  <2>2. \A i \in 1..n + 1 : t[i] = Append(s, ts)[i]
    <3>1. \A i \in 1..n + 1 : i \in 1..n \/ i = n + 1
      BY <1>5
    <3> QED
      BY <1>8, <1>9, <2>1, <3>1
  <2> QED
    BY <1>10, <2>1, <2>2, SeqEqual
<1> QED
  BY <1>5, <1>6, <1>7, <1>11 DEF R, s, t

\* A hit that is not overdue is within the second of those it waits with.
LEMMA HitInSecond ==
  ASSUME DuDataConstants, NEW b, Counted(b), WithinSecond(Unsent(b)), NEW ts \in Times,
         ~Overdue(b, ts)
  PROVE  WithinSecond(Append(Unsent(b), ts))
<1> DEFINE u == Unsent(b)
           v == Append(u, ts)
           m == Len(u)
           start == (v[1] \div Second) * Second
<1>1. u \in Seq(Times) /\ m \in Nat /\ DOMAIN u = 1..m
  BY UnsentIs
<1>2. /\ v \in Seq(Times) /\ Len(v) = m + 1 /\ DOMAIN v = 1..m + 1
      /\ \A i \in 1..m : v[i] = u[i]
      /\ v[m + 1] = ts
  BY <1>1, AppendProperties
<1>3. Head(v) = v[1]
  BY <1>2
<1>4. ~(ts < start) /\ ~(ts > start + Second)
  BY <1>3 DEF Overdue
<1>5. \A i \in DOMAIN u : u[i] \in (u[1] \div Second) * Second..(u[1] \div Second) * Second + Second
  BY DEF WithinSecond
<1>6. ts \in Nat /\ Second \in Nat \ {0} /\ v[1] \in Nat
  <2>1. v[1] \in Times
    BY <1>1, <1>2
  <2> QED
    BY <2>1 DEF DuDataConstants
<1>7. start \in Nat
  BY <1>6
<1> HIDE DEF u, m, v, start
<1>8. ts \in start..start + Second
  BY <1>4, <1>6, <1>7
<1>9. ASSUME NEW j \in DOMAIN v PROVE v[j] \in start..start + Second
  <2>1. CASE j = m + 1
    BY <1>2, <1>8, <2>1
  <2>2. CASE j # m + 1
    <3>1. j \in 1..m /\ 1 \in 1..m
      BY <1>1, <1>2, <2>2
    <3>2. v[j] = u[j] /\ v[1] = u[1]
      BY <1>2, <3>1
    <3> QED
      BY <1>1, <1>5, <3>1, <3>2 DEF start
  <2> QED
    BY <2>1, <2>2
<1> QED
  BY <1>9 DEF WithinSecond, start, u, v

LEMMA HitAlone ==
  ASSUME DuDataConstants, NEW ts \in Times
  PROVE  WithinSecond(<<ts>>)
<1> DEFINE q == ts \div Second
<1>1. ts \in Nat /\ Second \in Nat \ {0} /\ q \in Nat /\ q * Second \in Nat
  BY DEF DuDataConstants
<1>2. ts = Second * q + (ts % Second) /\ ts % Second \in 0..Second - 1
  BY <1>1
<1> HIDE DEF q
<1>3. q * Second <= ts /\ ts <= q * Second + Second
  BY <1>1, <1>2
<1>4. DOMAIN <<ts>> = {1} /\ <<ts>>[1] = ts
  OBVIOUS
<1> DEFINE p == q * Second
<1>5. ts \in p..p + Second
  <2>1. p \in Nat /\ p <= ts /\ ts <= p + Second
    BY <1>1, <1>3
  <2> HIDE DEF p
  <2> QED
    BY <1>1, <2>1
<1> QED
  BY <1>4, <1>5 DEF WithinSecond, p, q

LEMMA HitIsTold ==
  ASSUME DuDataConstants, TellInv, NEW ts \in Times, AddEvent(ts)
  PROVE  TellInv'
<1> DEFINE c == Compressed(t2)
           u == Unsent(t2)
           F == FlattenSeq(told)
<1>1. PICK due \in BOOLEAN :
        /\ due <=> Overdue(c, ts)
        /\ size' = size /\ Stores(ts, size)
        /\ t2' = Buffered(c, ts, due)
        /\ told' = IF due THEN Append(told, Unsent(c)) ELSE told
  BY AddEventIs
<1>2. /\ seen' \in Seq([ts : Times, size : Nat])
      /\ Stamps' = Append(Stamps, ts) /\ Stamps \in Seq(Times)
  BY <1>1, StampsGrow DEF Stores
<1>3. size' \in Nat
  BY <1>1 DEF TellInv
<1>4. Counted(t2) /\ told \in Seq(Seq(Times)) /\ Flattens(told) /\ F \in Seq(Times)
      /\ F \o u = Stamps /\ (\A i \in DOMAIN told : WithinSecond(told[i])) /\ WithinSecond(u)
  BY DEF TellInv
<1>5. Counted(c) /\ Unsent(c) = u /\ u \in Seq(Times)
  BY <1>4, CompressedKeeps, UnsentIs
<1>6. Counted(Buffered(c, ts, due))
      /\ Unsent(Buffered(c, ts, due)) = IF due THEN <<ts>> ELSE Append(u, ts)
  BY <1>5, HitBuffered
<1>7. Counted(t2)' /\ Unsent(t2)' = IF due THEN <<ts>> ELSE Append(u, ts)
  <2>1. Counted(t2)'
    BY <1>1, <1>6 DEF Counted
  <2>2. Unsent(t2)' = Unsent(Buffered(c, ts, due))
    BY <1>1 DEF Unsent
  <2> QED
    BY <1>6, <2>1, <2>2
<1>8. (F \o u) \o <<ts>> = Append(Stamps, ts)
  BY <1>2, <1>4, AppendIsConcat
<1>9. CASE due
  <2>1. told' = Append(told, u)
    BY <1>1, <1>5, <1>9
  <2>2. Flattens(Append(told, u)) /\ FlattenSeq(Append(told, u)) = F \o u
    BY <1>4, <1>5, FlattenAppends
  <2>3. Flattens(told)' /\ FlattenSeq(told)' = F \o u
    <3>1. Flattens(told)' = Flattens(Append(told, u))
      BY <2>1 DEF Flattens, Flat
    <3>2. FlattenSeq(told)' = FlattenSeq(Append(told, u))
      BY <2>1
    <3> QED
      BY <2>2, <3>1, <3>2
  <2>4. F \o u \in Seq(Times)
    BY <1>2, <1>4
  <2>5. Unsent(t2)' = <<ts>> /\ WithinSecond(<<ts>>)
    BY <1>7, <1>9, HitAlone
  <2>6. WithinSecond(Unsent(t2))'
    BY <2>5 DEF WithinSecond
  <2>7. told' \in Seq(Seq(Times)) /\ \A i \in DOMAIN told' : WithinSecond(told'[i])
    <3> DEFINE S == Seq(Times)
    <3> HIDE DEF S, u
    <3>1. told \in Seq(S) /\ u \in S
      BY <1>4, <1>5 DEF S
    <3>2. /\ told' \in Seq(S) /\ DOMAIN told' = 1..Len(told) + 1 /\ DOMAIN told = 1..Len(told)
          /\ Len(told) \in Nat
          /\ (\A i \in 1..Len(told) : told'[i] = told[i]) /\ told'[Len(told) + 1] = u
      BY <2>1, <3>1
    <3>3. \A i \in 1..Len(told) + 1 : i \in 1..Len(told) \/ i = Len(told) + 1
      BY <3>2
    <3> QED
      BY <1>4, <3>2, <3>3 DEF S
  <2>8. FlattenSeq(told)' \o Unsent(t2)' = Stamps'
    BY <1>2, <1>8, <2>3, <2>5
  <2> QED
    BY <1>2, <1>3, <1>7, <2>3, <2>4, <2>6, <2>7, <2>8 DEF TellInv
<1>10. CASE ~due
  <2>1. told' = told /\ Unsent(t2)' = Append(u, ts)
    BY <1>1, <1>7, <1>10
  <2>2. WithinSecond(Append(u, ts))
    BY <1>1, <1>4, <1>5, <1>10, HitInSecond
  <2>3. WithinSecond(Unsent(t2))'
    BY <2>1, <2>2 DEF WithinSecond
  <2>4. F \o Append(u, ts) = Append(Stamps, ts)
    <3>1. Append(u, ts) = u \o <<ts>> /\ <<ts>> \in Seq(Times)
      BY <1>5, AppendIsConcat
    <3>2. F \o (u \o <<ts>>) = (F \o u) \o <<ts>>
      <4>1. F \in Seq(Times) /\ u \in Seq(Times) /\ <<ts>> \in Seq(Times)
        BY <1>4, <1>5, <3>1
      <4> HIDE DEF F, u
      <4> PICK x : x = <<ts>>
        OBVIOUS
      <4>2. (F \o u) \o x = F \o (u \o x)
        BY <4>1, ConcatAssociative, SMTT(60)
      <4> QED
        BY <4>2
    <3> QED
      BY <1>8, <3>1, <3>2
  <2>5. FlattenSeq(told)' = F /\ Flattens(told)'
    BY <1>4, <2>1 DEF Flattens, Flat
  <2>6. FlattenSeq(told)' \o Unsent(t2)' = Stamps'
    BY <1>2, <2>1, <2>4, <2>5
  <2>7. told' \in Seq(Seq(Times)) /\ \A i \in DOMAIN told' : WithinSecond(told'[i])
    BY <1>4, <2>1
  <2> QED
    BY <1>2, <1>3, <1>4, <1>7, <2>3, <2>5, <2>6, <2>7 DEF TellInv
<1> QED
  BY <1>9, <1>10

\* STOP in mode 2 tells what waits, be it nothing.
LEMMA RestIsTold ==
  ASSUME DuDataConstants, TellInv, StopReadout
  PROVE  TellInv'
<1> DEFINE u == Unsent(t2)
           F == FlattenSeq(told)
<1>1. seen' = seen /\ size' = size /\ Stamps' = Stamps
  BY DEF StopReadout, Stamps
<1>2. Counted(t2) /\ told \in Seq(Seq(Times)) /\ Flattens(told) /\ F \in Seq(Times)
      /\ F \o u = Stamps /\ (\A i \in DOMAIN told : WithinSecond(told[i])) /\ WithinSecond(u)
      /\ seen \in Seq([ts : Times, size : Nat]) /\ size \in Nat
  BY DEF TellInv
<1>3. CASE reading = 2
  <2>1. told' = Append(told, u) /\ t2' = [hits |-> t2.hits, sent |-> Len(t2.hits)]
    BY <1>2, <1>3 DEF StopReadout, Counted, Tells
  <2>2. u \in Seq(Times) /\ F \o u \in Seq(Times)
    BY <1>2, UnsentIs, ConcatProperties
  <2>3. Flattens(Append(told, u)) /\ FlattenSeq(Append(told, u)) = F \o u
    BY <1>2, <2>2, FlattenAppends
  <2>4. Flattens(told)' /\ FlattenSeq(told)' = F \o u
    <3>1. Flattens(told)' = Flattens(Append(told, u))
      BY <2>1 DEF Flattens, Flat
    <3>2. FlattenSeq(told)' = FlattenSeq(Append(told, u))
      BY <2>1
    <3> QED
      BY <2>3, <3>1, <3>2
  <2>5. Counted(t2)'
    BY <1>2, <2>1 DEF Counted
  <2>6. Unsent(t2)' = <<>>
    <3> PICK b : b = [hits |-> t2.hits, sent |-> Len(t2.hits)]
      OBVIOUS
    <3>1. Counted(b) /\ b.sent = Len(b.hits) /\ Len(b.hits) \in Nat
      BY <1>2 DEF Counted
    <3>2. Unsent(b) \in Seq(Times) /\ Len(Unsent(b)) = 0
      <4>1. Unsent(b) \in Seq(Times) /\ Len(Unsent(b)) = Len(b.hits) - b.sent
        BY <3>1, UnsentIs, Zenon
      <4> QED
        BY <3>1, <4>1
    <3>3. Unsent(b) = <<>>
      BY <3>2, EmptySeq
    <3>4. Unsent(t2)' = Unsent(b)
      BY <2>1 DEF Unsent
    <3> QED
      BY <3>3, <3>4
  <2>7. WithinSecond(Unsent(t2))'
    <3>1. WithinSecond(<<>>)
      BY DEF WithinSecond
    <3> QED
      BY <2>6, <3>1 DEF WithinSecond
  <2>8. (F \o u) \o <<>> = Stamps
    BY <1>2, <2>2, ConcatEmptySeq
  <2>9. told' \in Seq(Seq(Times)) /\ \A i \in DOMAIN told' : WithinSecond(told'[i])
    <3> DEFINE S == Seq(Times)
    <3> HIDE DEF S, u
    <3>1. told \in Seq(S) /\ u \in S
      BY <1>2, <2>2 DEF S
    <3>2. /\ told' \in Seq(S) /\ DOMAIN told' = 1..Len(told) + 1 /\ DOMAIN told = 1..Len(told)
          /\ Len(told) \in Nat
          /\ (\A i \in 1..Len(told) : told'[i] = told[i]) /\ told'[Len(told) + 1] = u
      BY <2>1, <3>1
    <3>3. \A i \in 1..Len(told) + 1 : i \in 1..Len(told) \/ i = Len(told) + 1
      BY <3>2
    <3> QED
      BY <1>2, <3>2, <3>3 DEF S
  <2>10. FlattenSeq(told)' \o Unsent(t2)' = Stamps'
    BY <1>1, <2>4, <2>6, <2>8
  <2> QED
    BY <1>1, <1>2, <2>2, <2>4, <2>5, <2>7, <2>9, <2>10 DEF TellInv
<1>4. CASE reading # 2
  <2>1. UNCHANGED <<t2, told>>
    BY <1>4 DEF StopReadout
  <2> QED
    BY <1>1, <2>1 DEF TellInv, Flattens, Flat, WithinSecond, Counted, Unsent
<1> QED
  BY <1>3, <1>4

LEMMA TellInvHolds ==
  Spec => []TellInv
<1>1. Init => TellInv
  <2> SUFFICES ASSUME Init
               PROVE  TellInv
    OBVIOUS
  <2>1. /\ seen = <<>> /\ told = <<>> /\ size = 0
        /\ t2 = [hits |-> <<>>, sent |-> 0] /\ t2.hits = <<>> /\ t2.sent = 0
    BY DEF Init
  <2>2. Counted(t2)
    BY <2>1 DEF Counted
  <2>3. Unsent(t2) = <<>>
    <3>1. Unsent(t2) \in Seq(Times) /\ Len(Unsent(t2)) = 0 - 0
      BY <2>1, <2>2, UnsentIs
    <3> QED
      BY <3>1, EmptySeq
  <2>4. FlattenSeq(told) = <<>>
    BY <2>1 DEF FlattenSeq
  <2>5. Stamps = <<>>
    BY <2>1 DEF Stamps
  <2>6. Flattens(told)
    <3> DEFINE f == [i \in 1..Len(told) |-> <<>>]
    <3>1. Len(told) = 0 /\ f = [i \in 1..Len(told) |-> IF i = 1 THEN told[i] ELSE f[i - 1] \o told[i]]
      BY <2>1
    <3> HIDE DEF f
    <3> QED
      BY <3>1 DEF Flattens, Flat
  <2>7. <<>> \o <<>> = <<>> /\ <<>> \in Seq(Times) /\ <<>> \in Seq(Seq(Times))
        /\ <<>> \in Seq([ts : Times, size : Nat])
    BY ConcatEmptySeq, EmptySeq
  <2>8. WithinSecond(<<>>)
    BY DEF WithinSecond
  <2>9. FlattenSeq(told) \o Unsent(t2) = Stamps /\ FlattenSeq(told) \in Seq(Times)
    BY <2>3, <2>4, <2>5, <2>7
  <2>10. WithinSecond(Unsent(t2)) /\ \A i \in DOMAIN told : WithinSecond(told[i])
    <3>1. DOMAIN told = {}
      BY <2>1
    <3> QED
      BY <2>3, <2>8, <3>1
  <2>11. seen \in Seq([ts : Times, size : Nat]) /\ told \in Seq(Seq(Times)) /\ size \in Nat
    BY <2>1, <2>7
  <2> QED
    BY <2>2, <2>6, <2>9, <2>10, <2>11 DEF TellInv
<1>2. TellInv /\ [Next]_vars => TellInv'
  <2> SUFFICES ASSUME TellInv, [Next]_vars
               PROVE  TellInv'
    OBVIOUS
  <2>1. CASE \E ts \in Times : AddEvent(ts)
    BY <2>1, DuDataConstants, HitIsTold
  <2>2. CASE StopReadout
    BY <2>2, DuDataConstants, RestIsTold
  <2>3. CASE \/ AddPeriodic \/ StartReadout
             \/ \E req \in Requests : PushTrigger(req)
             \/ Send \/ WorkerStep \/ UNCHANGED vars
    <3>1. UNCHANGED <<t2, told, seen>>
      BY <2>3 DEF AddPeriodic, StartReadout, PushTrigger, Send, WorkerStep, TakeTrigger,
                  FindNone, Sleep, Lock, Answer, Unlock, data, vars
    <3>2. size' \in Nat
      <4>1. size \in Nat /\ Sizes \subseteq Nat
        BY DuDataConstants DEF TellInv, DuDataConstants
      <4> QED
        BY <2>3, <4>1 DEF AddPeriodic, StartReadout, PushTrigger, Send, WorkerStep, TakeTrigger,
                          FindNone, Sleep, Lock, Answer, Unlock, vars
    <3> QED
      BY <3>1, <3>2 DEF TellInv, Flattens, Flat, WithinSecond, Counted, Unsent, Stamps
  <2> QED
    BY <2>1, <2>2, <2>3 DEF Next
<1> QED
  BY <1>1, <1>2, PTL DEF Spec

-----------------------------------------------------------------------------
(***************************************************************************)
(* The order of the messages.  q is outQ, f is fate and t is told: element *)
(* by element what MessagesInOrder says with sets.                         *)
(***************************************************************************)
IsQueued(q, n) == \E i \in DOMAIN q : q[i].kind = "T2" /\ q[i].no = n
IsSent(f, n) == \E i \in DOMAIN f.sent : f.sent[i] = n

Ordered(q, f, t) ==
  /\ \A n : IsSent(f, n) \/ IsQueued(q, n) <=> n \in DOMAIN t /\ n \notin f.lost
  /\ \A i, j \in DOMAIN f.sent : i < j => f.sent[i] < f.sent[j]
  /\ \A j \in DOMAIN q : q[j].kind = "T2" => q[j].load = t[q[j].no]
  /\ \A i \in DOMAIN f.sent, j \in DOMAIN q : q[j].kind = "T2" => f.sent[i] < q[j].no
  /\ \A i, j \in DOMAIN q :
       i < j /\ q[i].kind = "T2" /\ q[j].kind = "T2" => q[i].no < q[j].no

MessagesKept(q, f, t) ==
  /\ ASequence(q) /\ ASequence(t) /\ ASequence(f.sent)
  /\ f = [sent |-> f.sent, lost |-> f.lost] /\ f.lost \subseteq DOMAIN t
  /\ Ordered(q, f, t)

LEMMA AppendIs ==
  ASSUME NEW s, ASequence(s), NEW x
  PROVE  /\ ASequence(Append(s, x)) /\ Len(s) \in Nat /\ DOMAIN s = 1..Len(s)
         /\ Len(Append(s, x)) = Len(s) + 1 /\ DOMAIN Append(s, x) = 1..Len(s) + 1
         /\ \A i \in 1..Len(s) : Append(s, x)[i] = s[i]
         /\ Append(s, x)[Len(s) + 1] = x
<1>1. PICK S : s \in Seq(S)
  BY DEF ASequence
<1> DEFINE T == S \cup {x}
<1>2. s \in Seq(T) /\ x \in T
  <2>1. S \subseteq T /\ x \in T
    OBVIOUS
  <2> QED
    BY <1>1, <2>1, SeqMonotonic
<1> HIDE DEF T
<1>3. /\ Append(s, x) \in Seq(T) /\ Len(Append(s, x)) = Len(s) + 1
      /\ \A i \in 1..Len(s) : Append(s, x)[i] = s[i]
      /\ Append(s, x)[Len(s) + 1] = x
  BY <1>2, AppendProperties
<1>4. Len(s) \in Nat /\ DOMAIN s = 1..Len(s) /\ DOMAIN Append(s, x) = 1..Len(s) + 1
  BY <1>2, <1>3
<1> QED
  BY <1>3, <1>4 DEF ASequence

\* A message of another kind is queued, or dropped.
LEMMA OtherQueued ==
  ASSUME NEW q, NEW f, NEW t, MessagesKept(q, f, t), NEW m, m.kind # "T2"
  PROVE  MessagesKept(Queued(q, m), f, t)
<1> DEFINE p == Queued(q, m)
<1>1. ASequence(q) /\ Ordered(q, f, t)
  BY DEF MessagesKept
<1>2. CASE Len(q) >= OutCapacity
  BY <1>1, <1>2, QueuedIs
<1>3. CASE ~(Len(q) >= OutCapacity)
  <2>1. /\ ASequence(p) /\ Len(q) \in Nat /\ DOMAIN q = 1..Len(q)
        /\ DOMAIN p = 1..Len(q) + 1
        /\ (\A i \in 1..Len(q) : p[i] = q[i]) /\ p[Len(q) + 1] = m
    BY <1>1, <1>3, QueuedIs
  <2> HIDE DEF p
  <2>2. /\ \A i \in DOMAIN q : i \in DOMAIN p /\ p[i] = q[i]
        /\ \A i \in DOMAIN p : p[i].kind = "T2" => i \in DOMAIN q /\ p[i] = q[i]
    <3>1. \A i \in 1..Len(q) + 1 : i \in 1..Len(q) \/ i = Len(q) + 1
      BY <2>1
    <3>2. 1..Len(q) \subseteq 1..Len(q) + 1
      BY <2>1
    <3> QED
      BY <2>1, <3>1, <3>2
  <2>3. \A n : IsQueued(p, n) <=> IsQueued(q, n)
    BY <2>2 DEF IsQueued
  <2>4. Ordered(p, f, t)
    BY <1>1, <2>2, <2>3 DEF Ordered
  <2> QED
    BY <2>1, <2>4 DEF MessagesKept, p
<1> QED
  BY <1>2, <1>3

\* The next T2 message is queued, or dropped.
LEMMA T2Queued ==
  ASSUME NEW q, NEW f, NEW t, MessagesKept(q, f, t),
         NEW m, m.kind = "T2", m.no = Len(t) + 1, NEW D,
         D = IF Len(q) >= OutCapacity THEN {Len(t) + 1} ELSE {}
  PROVE  MessagesKept(Queued(q, m), [f EXCEPT !.lost = @ \cup D], Append(t, m.load))
<1> DEFINE p == Queued(q, m)
           g == [f EXCEPT !.lost = @ \cup D]
           u == Append(t, m.load)
           N == Len(t) + 1
<1>1. /\ ASequence(q) /\ ASequence(t) /\ ASequence(f.sent) /\ Ordered(q, f, t)
      /\ f = [sent |-> f.sent, lost |-> f.lost] /\ f.lost \subseteq DOMAIN t
  BY DEF MessagesKept
<1>2. /\ ASequence(u) /\ Len(t) \in Nat /\ DOMAIN t = 1..Len(t) /\ DOMAIN u = 1..N
      /\ (\A i \in 1..Len(t) : u[i] = t[i]) /\ u[N] = m.load
  BY <1>1, AppendIs
<1>3. g = [sent |-> f.sent, lost |-> f.lost \cup D]
  <2>1. PICK a, b : f = [sent |-> a, lost |-> b]
    BY <1>1
  <2> HIDE DEF N
  <2>2. [f EXCEPT !.lost = f.lost \cup D] = [sent |-> f.sent, lost |-> f.lost \cup D]
    BY ONLY <2>1
  <2> QED
    BY <2>2
<1>4. D \subseteq {N}
  OBVIOUS
<1>5. /\ N \in Nat /\ N \notin DOMAIN t /\ DOMAIN u = DOMAIN t \cup {N}
      /\ \A n \in DOMAIN t : n < N /\ n \in Nat /\ u[n] = t[n]
  BY <1>2
<1>6. /\ \A i \in DOMAIN f.sent : f.sent[i] \in DOMAIN t
      /\ \A j \in DOMAIN q : q[j].kind = "T2" => q[j].no \in DOMAIN t
  BY <1>1 DEF Ordered, IsSent, IsQueued
<1> HIDE DEF g, u, N
<1>7. g.sent = f.sent /\ g.lost = f.lost \cup D /\ g = [sent |-> g.sent, lost |-> g.lost]
  BY <1>3
<1>8. ASequence(g.sent) /\ g.lost \subseteq DOMAIN u
  BY <1>1, <1>4, <1>5, <1>7
<1>9. \A n : IsSent(g, n) <=> IsSent(f, n)
  BY <1>7 DEF IsSent
<1>10. CASE Len(q) >= OutCapacity
  <2>1. p = q /\ D = {N}
    BY <1>1, <1>10, QueuedIs DEF N
  <2> HIDE DEF p
  <2>2. \A n : IsSent(g, n) \/ IsQueued(p, n) <=> n \in DOMAIN u /\ n \notin g.lost
    BY <1>1, <1>5, <1>7, <1>9, <2>1 DEF Ordered
  <2>3. \A j \in DOMAIN p : p[j].kind = "T2" => p[j].load = u[p[j].no]
    BY <1>1, <1>5, <1>6, <2>1 DEF Ordered
  <2>4. Ordered(p, g, u)
    BY <1>1, <1>7, <2>1, <2>2, <2>3 DEF Ordered
  <2> QED
    BY <1>1, <1>2, <1>7, <1>8, <2>1, <2>4 DEF MessagesKept, p, g, u
<1>11. CASE ~(Len(q) >= OutCapacity)
  <2>1. /\ ASequence(p) /\ Len(q) \in Nat /\ DOMAIN q = 1..Len(q)
        /\ DOMAIN p = 1..Len(q) + 1
        /\ (\A i \in 1..Len(q) : p[i] = q[i]) /\ p[Len(q) + 1] = m /\ D = {}
    BY <1>1, <1>11, QueuedIs
  <2> PICK L : L = Len(q) + 1
    OBVIOUS
  <2> HIDE DEF p
  <2>2. /\ \A i \in DOMAIN q : i \in DOMAIN p /\ p[i] = q[i] /\ i < L /\ ~(L < i)
        /\ L \in DOMAIN p /\ p[L] = m /\ ~(L < L)
        /\ \A i \in DOMAIN p : (i \in DOMAIN q /\ p[i] = q[i]) \/ i = L
    <3>1. \A i \in 1..Len(q) + 1 : i \in 1..Len(q) \/ i = Len(q) + 1
      BY <2>1
    <3>2. /\ 1..Len(q) \subseteq 1..Len(q) + 1 /\ Len(q) + 1 \in 1..Len(q) + 1
          /\ \A i \in 1..Len(q) : i < Len(q) + 1 /\ ~(Len(q) + 1 < i)
          /\ ~(Len(q) + 1 < Len(q) + 1)
      BY <2>1
    <3> QED
      BY <2>1, <3>1, <3>2
  <2>3. m.no = N
    BY DEF N
  <2>4. \A n : IsQueued(p, n) <=> IsQueued(q, n) \/ n = N
    BY <2>2, <2>3 DEF IsQueued
  <2>5. \A n : IsSent(g, n) \/ IsQueued(p, n) <=> n \in DOMAIN u /\ n \notin g.lost
    BY <1>1, <1>5, <1>7, <1>9, <2>1, <2>4 DEF Ordered
  <2>6. \A j \in DOMAIN p : p[j].kind = "T2" => p[j].load = u[p[j].no]
    BY <1>1, <1>2, <1>5, <1>6, <2>2, <2>3 DEF Ordered
  <2>7. \A i \in DOMAIN g.sent, j \in DOMAIN p : p[j].kind = "T2" => g.sent[i] < p[j].no
    BY <1>1, <1>5, <1>6, <1>7, <2>2, <2>3 DEF Ordered
  <2>8. \A i, j \in DOMAIN p :
          i < j /\ p[i].kind = "T2" /\ p[j].kind = "T2" => p[i].no < p[j].no
    BY <1>1, <1>5, <1>6, <2>2, <2>3 DEF Ordered
  <2>9. Ordered(p, g, u)
    BY <1>1, <1>7, <2>5, <2>6, <2>7, <2>8 DEF Ordered
  <2> QED
    BY <1>2, <1>7, <1>8, <2>1, <2>9 DEF MessagesKept, p, g, u
<1> QED
  BY <1>10, <1>11

\* The head of the queue is sent.
LEMMA HeadSent ==
  ASSUME NEW q, NEW f, NEW t, MessagesKept(q, f, t), q # <<>>
  PROVE  MessagesKept(Tail(q),
                      IF Head(q).kind = "T2" THEN [f EXCEPT !.sent = Append(@, Head(q).no)] ELSE f,
                      t)
<1> DEFINE p == Tail(q)
           h == Head(q)
<1>1. /\ ASequence(q) /\ ASequence(t) /\ ASequence(f.sent) /\ Ordered(q, f, t)
      /\ f = [sent |-> f.sent, lost |-> f.lost] /\ f.lost \subseteq DOMAIN t
  BY DEF MessagesKept
<1>2. /\ ASequence(p) /\ Len(q) \in Nat \ {0} /\ DOMAIN q = 1..Len(q)
      /\ DOMAIN p = 1..Len(q) - 1 /\ h = q[1]
      /\ \A i \in 1..Len(q) - 1 : p[i] = q[i + 1]
  BY <1>1, TailIs
<1> HIDE DEF p, h
<1>3. /\ 1 \in DOMAIN q /\ \A i \in DOMAIN p : i + 1 \in DOMAIN q /\ p[i] = q[i + 1] /\ 1 < i + 1
      /\ \A i, j \in DOMAIN p : i < j => i + 1 < j + 1
      /\ \A i \in DOMAIN q : i = 1 \/ (i - 1 \in DOMAIN p /\ p[i - 1] = q[i])
  BY <1>2
<1>4. \A n : IsQueued(q, n) <=> IsQueued(p, n) \/ (h.kind = "T2" /\ h.no = n)
  BY <1>2, <1>3 DEF IsQueued
<1>5. /\ \A j \in DOMAIN p : p[j].kind = "T2" => p[j].load = t[p[j].no]
      /\ \A i \in DOMAIN f.sent, j \in DOMAIN p : p[j].kind = "T2" => f.sent[i] < p[j].no
      /\ \A i, j \in DOMAIN p :
           i < j /\ p[i].kind = "T2" /\ p[j].kind = "T2" => p[i].no < p[j].no
      /\ h.kind = "T2" => \A j \in DOMAIN p : p[j].kind = "T2" => h.no < p[j].no
  BY <1>1, <1>2, <1>3 DEF Ordered
<1>6. CASE h.kind # "T2"
  <2>1. Ordered(p, f, t)
    BY <1>1, <1>4, <1>5, <1>6 DEF Ordered
  <2>2. MessagesKept(p, f, t)
    BY <1>1, <1>2, <2>1 DEF MessagesKept
  <2> QED
    BY <1>6, <2>2 DEF p, h
<1>7. CASE h.kind = "T2"
  <2> DEFINE s == Append(f.sent, h.no)
             g == [f EXCEPT !.sent = s]
  <2>1. /\ ASequence(s) /\ Len(f.sent) \in Nat /\ DOMAIN f.sent = 1..Len(f.sent)
        /\ DOMAIN s = 1..Len(f.sent) + 1
        /\ (\A i \in 1..Len(f.sent) : s[i] = f.sent[i]) /\ s[Len(f.sent) + 1] = h.no
    BY <1>1, AppendIs
  <2>2. g = [sent |-> s, lost |-> f.lost]
    BY <1>1
  <2> HIDE DEF s, g
  <2>3. g.sent = s /\ g.lost = f.lost /\ g = [sent |-> g.sent, lost |-> g.lost]
    BY <2>2
  <2> PICK L : L = Len(f.sent) + 1
    OBVIOUS
  <2>4. /\ \A i \in DOMAIN f.sent : i \in DOMAIN s /\ s[i] = f.sent[i] /\ ~(L < i)
        /\ L \in DOMAIN s /\ s[L] = h.no /\ ~(L < L)
        /\ \A i \in DOMAIN s : (i \in DOMAIN f.sent /\ s[i] = f.sent[i]) \/ i = L
    <3>1. /\ \A i \in 1..Len(f.sent) + 1 : i \in 1..Len(f.sent) \/ i = Len(f.sent) + 1
          /\ 1..Len(f.sent) \subseteq 1..Len(f.sent) + 1
          /\ Len(f.sent) + 1 \in 1..Len(f.sent) + 1
          /\ \A i \in 1..Len(f.sent) : ~(Len(f.sent) + 1 < i)
          /\ ~(Len(f.sent) + 1 < Len(f.sent) + 1)
      BY <2>1
    <3> QED
      BY <2>1, <3>1
  <2>5. \A n : IsSent(g, n) <=> IsSent(f, n) \/ n = h.no
    BY <2>3, <2>4 DEF IsSent
  <2>6. \A n : IsSent(g, n) \/ IsQueued(p, n) <=> n \in DOMAIN t /\ n \notin g.lost
    BY <1>1, <1>4, <1>7, <2>3, <2>5 DEF Ordered
  <2>7. \A i \in DOMAIN f.sent : f.sent[i] < h.no
    BY <1>1, <1>2, <1>3, <1>7 DEF Ordered
  <2>8. \A i, j \in DOMAIN s : i < j => s[i] < s[j]
    BY <1>1, <2>4, <2>7 DEF Ordered
  <2>9. \A i \in DOMAIN s, j \in DOMAIN p : p[j].kind = "T2" => s[i] < p[j].no
    BY <1>5, <1>7, <2>4
  <2>10. Ordered(p, g, t)
    BY <1>5, <2>3, <2>6, <2>8, <2>9 DEF Ordered
  <2>11. MessagesKept(p, g, t)
    BY <1>1, <1>2, <2>1, <2>3, <2>10 DEF MessagesKept
  <2> QED
    BY <1>7, <2>11 DEF p, h, g, s
<1> QED
  BY <1>6, <1>7

LEMMA TellingKeepsMessages ==
  ASSUME NEW b, MessagesKept(outQ, fate, told), Tells(b)
  PROVE  MessagesKept(outQ, fate, told)'
<1>1. PICK m : m = T2Message(b)
  OBVIOUS
<1>2. m.kind = "T2" /\ m.no = Len(told) + 1 /\ m.load = Unsent(b)
  BY <1>1 DEF T2Message
<1>3. PICK D : D = IF Len(outQ) >= OutCapacity THEN {Len(told) + 1} ELSE {}
  OBVIOUS
<1>4. MessagesKept(Queued(outQ, m), [fate EXCEPT !.lost = @ \cup D], Append(told, m.load))
  BY <1>2, <1>3, T2Queued
<1>5. /\ outQ' = Queued(outQ, m) /\ told' = Append(told, m.load)
      /\ fate' = [fate EXCEPT !.lost = @ \cup D]
  BY <1>1, <1>2, <1>3 DEF Tells, Dropped
<1>6. MessagesKept(outQ', fate', told')
  BY <1>4, <1>5
<1> QED
  BY <1>6

LEMMA MessagesKeptHolds ==
  Spec => []MessagesKept(outQ, fate, told)
<1>1. Init => MessagesKept(outQ, fate, told)
  <2> SUFFICES ASSUME Init
               PROVE  MessagesKept(outQ, fate, told)
    OBVIOUS
  <2>1. /\ outQ = <<>> /\ told = <<>> /\ fate = [sent |-> <<>>, lost |-> {}]
        /\ fate.sent = <<>> /\ fate.lost = {}
    BY DEF Init
  <2>2. ASequence(<<>>) /\ DOMAIN <<>> = {}
    BY EmptySeq DEF ASequence
  <2>3. Ordered(outQ, fate, told)
    BY <2>1, <2>2 DEF Ordered, IsSent, IsQueued
  <2> QED
    BY <2>1, <2>2, <2>3 DEF MessagesKept
<1>2. MessagesKept(outQ, fate, told) /\ [Next]_vars => MessagesKept(outQ, fate, told)'
  <2> SUFFICES ASSUME MessagesKept(outQ, fate, told), [Next]_vars
               PROVE  MessagesKept(outQ, fate, told)'
    OBVIOUS
  <2>1. ASSUME NEW m, m.kind # "T2", outQ' = Queued(outQ, m), UNCHANGED <<told, fate>>
        PROVE  MessagesKept(outQ, fate, told)'
    <3>1. MessagesKept(Queued(outQ, m), fate, told)
      BY <2>1, OtherQueued
    <3>2. MessagesKept(outQ', fate', told')
      BY <2>1, <3>1
    <3> QED
      BY <3>2
  <2>2. ASSUME UNCHANGED <<outQ, told, fate>>
        PROVE  MessagesKept(outQ, fate, told)'
    <3>1. MessagesKept(outQ', fate', told')
      BY <2>2
    <3> QED
      BY <3>1
  <2>3. CASE \E ts \in Times : AddEvent(ts)
    <3>1. PICK ts \in Times : AddEvent(ts)
      BY <2>3
    <3>2. Tells(Compressed(t2)) \/ UNCHANGED <<outQ, told, fate>>
      BY <3>1, AddEventIs
    <3> QED
      BY <2>2, <3>2, TellingKeepsMessages
  <2>4. CASE AddPeriodic
    <3> PICK m : m = [kind |-> "raw", ts |-> 0, load |-> <<>>, no |-> 0]
      OBVIOUS
    <3>1. m.kind # "T2" /\ outQ' = Queued(outQ, m) /\ UNCHANGED <<told, fate>>
      BY <2>4 DEF AddPeriodic
    <3> QED
      BY <2>1, <3>1
  <2>5. CASE StopReadout
    <3>1. Tells(t2) \/ UNCHANGED <<outQ, told, fate>>
      BY <2>5 DEF StopReadout
    <3> QED
      BY <2>2, <3>1, TellingKeepsMessages
  <2>6. CASE Send
    <3>1. /\ outQ # <<>> /\ outQ' = Tail(outQ) /\ told' = told
          /\ fate' = IF Head(outQ).kind = "T2"
                     THEN [fate EXCEPT !.sent = Append(@, Head(outQ).no)] ELSE fate
      BY <2>6 DEF Send
    <3>2. MessagesKept(outQ', fate', told')
      BY <3>1, HeadSent
    <3> QED
      BY <3>2
  <2>7. CASE Answer
    <3> PICK m : m = [kind |-> "event", ts |-> Head(worker.todo),
                      load |-> Trace(ring, Head(worker.todo)), no |-> 0]
      OBVIOUS
    <3>1. m.kind # "T2" /\ (outQ' = Queued(outQ, m) \/ outQ' = outQ) /\ UNCHANGED <<told, fate>>
      BY <2>7 DEF Answer
    <3> QED
      BY <2>1, <2>2, <3>1
  <2>8. CASE \/ StartReadout \/ \E req \in Requests : PushTrigger(req)
             \/ TakeTrigger \/ FindNone \/ Sleep \/ Lock \/ Unlock \/ UNCHANGED vars
    BY <2>2, <2>8 DEF StartReadout, PushTrigger, TakeTrigger, FindNone, Sleep, Lock, Unlock, vars
  <2> QED
    BY <2>3, <2>4, <2>5, <2>6, <2>7, <2>8 DEF Next, WorkerStep
<1> QED
  BY <1>1, <1>2, PTL DEF Spec

LEMMA KeptIsInOrder ==
  ASSUME MessagesKept(outQ, fate, told)
  PROVE  MessagesInOrder
<1>1. Ordered(outQ, fate, told)
  BY DEF MessagesKept
<1> DEFINE queued == {i \in DOMAIN outQ : outQ[i].kind = "T2"}
<1>2. {fate.sent[i] : i \in DOMAIN fate.sent} \cup {outQ[i].no : i \in queued}
         = (DOMAIN told) \ fate.lost
  BY <1>1 DEF Ordered, IsSent, IsQueued
<1>3. /\ \A i, j \in DOMAIN fate.sent : i < j => fate.sent[i] < fate.sent[j]
      /\ \A j \in queued :
           /\ outQ[j].load = told[outQ[j].no]
           /\ \A i \in DOMAIN fate.sent : fate.sent[i] < outQ[j].no
           /\ \A i \in queued : i < j => outQ[i].no < outQ[j].no
  BY <1>1 DEF Ordered
<1> QED
  BY <1>2, <1>3 DEF MessagesInOrder

\* Every hit is in one T2 message, or waits for the next; the messages are
\* sent once and in order, or wait in outQ, but those that found it full: for
\* any number of events, compressions of the buffer, stops and starts and
\* overflows of outQ.  No message holds a hit more than a second behind the
\* beginning of the second of its first (addEvent and lastAddEvent,
\* data_manager.cpp:305-396; enqueueOutbound, dudaq_app.cpp:195-201).
THEOREM EveryHitTold ==
  Spec => []HitsToldBySecond
<1>1. TellInv /\ MessagesKept(outQ, fate, told) => HitsToldBySecond
  <2> SUFFICES ASSUME TellInv, MessagesKept(outQ, fate, told)
               PROVE  HitsToldBySecond
    OBVIOUS
  <2>1. HitsInMessages
    BY DEF TellInv, Stamps, HitsInMessages
  <2>2. MessagesInOrder
    BY KeptIsInOrder
  <2>3. \A i \in DOMAIN told : WithinSecond(told[i])
    BY DEF TellInv
  <2> QED
    BY <2>1, <2>2, <2>3 DEF HitsToldBySecond, WithinSecond
<1> QED
  BY <1>1, TellInvHolds, MessagesKeptHolds, PTL

-----------------------------------------------------------------------------
(***************************************************************************)
(* Types, whatever the sizes of the events                                 *)
(***************************************************************************)
TypeInv ==
  /\ TypeOK /\ ASequence(outQ)
  /\ reading # 0 => size \in Sizes
  /\ worker = [at |-> worker.at, todo |-> worker.todo, missed |-> worker.missed]
  /\ t2 = [hits |-> t2.hits, sent |-> t2.sent]

LEMMA QueuedKeepsRoom ==
  ASSUME DuDataConstants, NEW q, ASequence(q), Len(q) <= OutCapacity, NEW m
  PROVE  ASequence(Queued(q, m)) /\ Len(Queued(q, m)) <= OutCapacity
<1>1. OutCapacity \in Nat
  BY DEF DuDataConstants
<1> QED
  BY <1>1, QueuedIs

\* A trace lies in the ring and its slot among the slots.
LEMMA PlaceInRing ==
  ASSUME DuDataConstants, NEW sz \in Sizes, ring.offset \in 0..RingSize
  PROVE  /\ Place(ring, sz) \in Nat /\ Place(ring, sz) + sz \in 0..RingSize
         /\ Place(ring, sz) \div sz \in 0..Slots - 1
<1>1. sz \in Nat \ {0} /\ sz <= RingSize /\ RingSize \in Nat /\ Slots \in Nat /\ Slots > RingSize \div sz
  BY DEF DuDataConstants
<1> DEFINE p == Place(ring, sz)
           q == p \div sz
           r == RingSize \div sz
<1>2. p \in Nat /\ p + sz \in 0..RingSize
  BY <1>1 DEF Place
<1> HIDE DEF p
<1>3. q \in Nat /\ p = sz * q + (p % sz) /\ p % sz \in 0..sz - 1
  BY <1>1, <1>2
<1>4. r \in Nat /\ RingSize = sz * r + (RingSize % sz) /\ RingSize % sz \in 0..sz - 1
  BY <1>1
<1> HIDE DEF q, r
<1>5. q * sz <= p /\ RingSize < r * sz + sz
  BY <1>1, <1>2, <1>3, <1>4
<1>6. ~(r < q)
  <2> SUFFICES ASSUME r < q
               PROVE  FALSE
    OBVIOUS
  <2>1. r * sz + sz <= q * sz
    BY <1>1, <1>3, <1>4, SideBySide
  <2> DEFINE a == r * sz
             b == q * sz
  <2>2. a \in Nat /\ b \in Nat
    BY <1>1, <1>3, <1>4
  <2>3. a + sz <= b /\ b <= p /\ RingSize < a + sz
    BY <1>5, <2>1
  <2> HIDE DEF a, b
  <2> QED
    BY <1>1, <1>2, <2>2, <2>3
<1>7. q \in 0..Slots - 1
  BY <1>1, <1>3, <1>4, <1>6 DEF r
<1> QED
  BY <1>2, <1>7 DEF p, q

RingTypes(r) ==
  /\ r.cells \in [0..RingSize - 1 -> 0..MaxEvents]
  /\ r.offset \in 0..RingSize /\ r.raw \in Sizes \cup {0}
  /\ r.slots \in [0..Slots - 1 -> Times \cup {0}]
  /\ DOMAIN r.index \subseteq Times
  /\ \A ts \in DOMAIN r.index : r.index[ts] \in 0..Slots - 1

LEMMA StoredKeepsTypes ==
  ASSUME DuDataConstants, RingTypes(ring), NEW sz \in Sizes, NEW n \in 0..MaxEvents, NEW ts \in Times
  PROVE  RingTypes(Stored(ring, n, ts, sz))
<1> DEFINE at == Place(ring, sz)
           slot == at \div sz
           r == Stored(ring, n, ts, sz)
<1>1. at \in Nat /\ at + sz \in 0..RingSize /\ slot \in 0..Slots - 1
  BY PlaceInRing DEF RingTypes
<1>2. /\ r.cells = [i \in DOMAIN ring.cells |-> IF i \in at..at + sz - 1 THEN n ELSE ring.cells[i]]
      /\ r.offset = at + sz /\ r.raw = sz
      /\ r.slots = [ring.slots EXCEPT ![slot] = ts]
      /\ r.index = [t \in (DOMAIN ring.index \ {ring.slots[slot]}) \cup {ts} |->
                      IF t = ts THEN slot ELSE ring.index[t]]
  BY DEF Stored
<1> HIDE DEF r, at, slot
<1>3. r.cells \in [0..RingSize - 1 -> 0..MaxEvents]
  BY <1>2 DEF RingTypes
<1>4. r.slots \in [0..Slots - 1 -> Times \cup {0}]
  BY <1>1, <1>2 DEF RingTypes
<1>5. DOMAIN r.index \subseteq Times /\ \A t \in DOMAIN r.index : r.index[t] \in 0..Slots - 1
  BY <1>1, <1>2 DEF RingTypes
<1>6. r.offset \in 0..RingSize /\ r.raw \in Sizes \cup {0}
  BY <1>1, <1>2
<1> QED
  BY <1>3, <1>4, <1>5, <1>6 DEF RingTypes, r

LEMMA AddEventKeepsTypes ==
  ASSUME DuDataConstants, TypeInv, NEW ts \in Times, AddEvent(ts)
  PROVE  TypeInv'
<1> DEFINE c == Compressed(t2)
<1>1. PICK due \in BOOLEAN :
        /\ reading # 0 /\ reading' = reading /\ size' = size
        /\ Stores(ts, size)
        /\ t2' = Buffered(c, ts, due)
        /\ outQ' = IF due THEN Queued(outQ, T2Message(c)) ELSE outQ
  BY AddEventIs
<1>2. /\ UNCHANGED <<t3Q, worker, reading, size>>
      /\ Len(seen) < MaxEvents /\ Len(c.hits) < T2Capacity
  BY DEF AddEvent
<1>3. size \in Sizes
  BY <1>1 DEF TypeInv
<1>4. RingTypes(ring)'
  <2>1. RingTypes(ring)
    BY DEF TypeInv, TypeOK, RingTypes
  <2>2. Len(seen) + 1 \in 0..MaxEvents
    <3>1. Len(seen) \in Nat /\ MaxEvents \in Nat
      BY DEF TypeInv, TypeOK, DuDataConstants
    <3> QED
      BY <1>2, <3>1
  <2>3. ring' = Stored(ring, Len(seen) + 1, ts, size)
    BY <1>1 DEF Stores
  <2>4. RingTypes(Stored(ring, Len(seen) + 1, ts, size))
    BY <1>3, <2>1, <2>2, StoredKeepsTypes
  <2> QED
    BY <2>3, <2>4 DEF RingTypes
<1>5. t2'.hits \in Seq(Times) /\ t2'.sent \in 0..Len(t2'.hits) /\ Len(t2'.hits) <= T2Capacity
  <2>1. Counted(t2)
    BY DEF TypeInv, TypeOK, Counted
  <2>2. Counted(c)
    BY <2>1, CompressedKeeps
  <2>3. Counted(Buffered(c, ts, due))
    BY <2>2, HitBuffered
  <2>4. t2'.hits = Append(c.hits, ts) /\ c.hits \in Seq(Times)
    BY <1>1, <2>2 DEF Buffered, Counted
  <2> HIDE DEF c
  <2>5. Len(t2'.hits) = Len(c.hits) + 1 /\ Len(c.hits) \in Nat
    BY <2>4, AppendProperties
  <2>6. T2Capacity \in Nat
    BY DEF DuDataConstants
  <2> QED
    BY <1>1, <1>2, <2>3, <2>5, <2>6 DEF Counted
<1>6. ASequence(outQ') /\ Len(outQ') <= OutCapacity
  <2>1. ASequence(outQ) /\ Len(outQ) <= OutCapacity
    BY DEF TypeInv, TypeOK
  <2> QED
    BY <1>1, <2>1, QueuedKeepsRoom
<1>7. seen' \in Seq([ts : Times, size : Sizes])
  <2> DEFINE R == [ts : Times, size : Sizes]
             e == [ts |-> ts, size |-> size]
  <2>1. e \in R
    BY <1>3
  <2>2. seen \in Seq(R) /\ seen' = Append(seen, e)
    BY <1>1 DEF TypeInv, TypeOK, Stores
  <2> HIDE DEF R, e
  <2>3. seen' \in Seq(R)
    BY <2>1, <2>2
  <2> QED
    BY <2>3 DEF R
<1>8. TypeOK'
  BY <1>2, <1>4, <1>5, <1>6, <1>7 DEF TypeInv, TypeOK, RingTypes
<1>9. ASequence(outQ)'
  BY <1>6 DEF ASequence
<1> QED
  BY <1>1, <1>2, <1>3, <1>8, <1>9 DEF TypeInv, Buffered

LEMMA StepKeepsTypes ==
  ASSUME DuDataConstants, TypeInv, [Next]_vars
  PROVE  TypeInv'
<1>0. /\ TypeOK /\ ASequence(outQ) /\ Len(outQ) <= OutCapacity
      /\ reading # 0 => size \in Sizes
      /\ worker = [at |-> worker.at, todo |-> worker.todo, missed |-> worker.missed]
      /\ t2 = [hits |-> t2.hits, sent |-> t2.sent]
  BY DEF TypeInv, TypeOK
<1> DEFINE Rest == ASequence(outQ') /\ Len(outQ') <= OutCapacity
<1>1. ASSUME NEW m, outQ' = Queued(outQ, m) PROVE Rest
  BY <1>0, <1>1, QueuedKeepsRoom
<1>2. outQ' = outQ => Rest
  BY <1>0
<1>3. CASE \E ts \in Times : AddEvent(ts)
  BY <1>3, AddEventKeepsTypes
<1>4. CASE AddPeriodic
  <2>1. Rest /\ UNCHANGED <<ring, t2, t3Q, worker, reading, size, seen>>
    BY <1>1, <1>4 DEF AddPeriodic, data
  <2> QED
    BY <1>0, <2>1 DEF TypeInv, TypeOK, ASequence
<1>5. CASE StartReadout
  <2>1. /\ UNCHANGED <<ring, t2, outQ, t3Q, worker, seen>>
        /\ reading' \in Modes /\ size' \in Sizes
    BY <1>5 DEF StartReadout, data
  <2> QED
    BY <1>0, <2>1 DEF TypeInv, TypeOK, ASequence
<1>6. CASE StopReadout
  <2>1. UNCHANGED <<ring, t3Q, worker, size, seen>> /\ reading' = 0
    BY <1>6 DEF StopReadout
  <2>2. Rest
    BY <1>1, <1>2, <1>6 DEF StopReadout, Tells
  <2>3. t2'.hits = t2.hits /\ (t2'.sent = t2.sent \/ t2'.sent = Len(t2.hits))
        /\ t2' = [hits |-> t2'.hits, sent |-> t2'.sent]
    <3>1. CASE reading = 2
      BY <1>0, <1>6, <3>1 DEF StopReadout, Tells
    <3>2. CASE reading # 2
      BY <1>0, <1>6, <3>2 DEF StopReadout
    <3> QED
      BY <3>1, <3>2
  <2>4. t2'.hits \in Seq(Times) /\ t2'.sent \in 0..Len(t2'.hits) /\ Len(t2'.hits) <= T2Capacity
    BY <1>0, <2>3 DEF TypeOK
  <2> QED
    BY <1>0, <2>1, <2>2, <2>3, <2>4 DEF TypeInv, TypeOK, ASequence
<1>7. CASE \E req \in Requests : PushTrigger(req)
  <2>1. PICK req \in Requests : PushTrigger(req)
    BY <1>7
  <2>2. UNCHANGED <<ring, t2, outQ, reading, size, seen>>
    BY <2>1 DEF PushTrigger, data
  <2>3. t3Q' \in Seq(Requests) /\ Len(t3Q') <= T3Capacity
    BY <1>0, <2>1 DEF PushTrigger, TypeOK, DuDataConstants
  <2>4. worker' = worker \/ worker' = Awake \/ worker' = [worker EXCEPT !.missed = TRUE]
    BY <2>1 DEF PushTrigger
  <2>5. /\ worker'.at \in {"test", "block", "asleep", "taken", "answer"}
        /\ worker'.missed \in BOOLEAN
        /\ worker' = [at |-> worker'.at, todo |-> worker'.todo, missed |-> worker'.missed]
    <3>1. /\ worker.at \in {"test", "block", "asleep", "taken", "answer"} /\ worker.missed \in BOOLEAN
          /\ worker = [at |-> worker.at, todo |-> worker.todo, missed |-> worker.missed]
      BY <1>0 DEF TypeOK
    <3>2. CASE worker' = worker
      BY <3>1, <3>2
    <3>3. CASE worker' = Awake
      BY <3>3 DEF Awake
    <3>4. CASE worker' = [worker EXCEPT !.missed = TRUE]
      <4>1. worker' = [at |-> worker.at, todo |-> worker.todo, missed |-> TRUE]
        BY <3>1, <3>4
      <4> QED
        BY <3>1, <4>1
    <3> QED
      BY <2>4, <3>2, <3>3, <3>4
  <2> QED
    BY <1>0, <2>2, <2>3, <2>5 DEF TypeInv, TypeOK, ASequence
<1>8. CASE Send
  <2>1. UNCHANGED <<ring, t2, t3Q, worker, reading, size, seen>> /\ outQ # <<>> /\ outQ' = Tail(outQ)
    BY <1>8 DEF Send, data
  <2>2. PICK S : outQ \in Seq(S)
    BY <1>0 DEF ASequence
  <2>3. Tail(outQ) \in Seq(S) /\ Len(Tail(outQ)) = Len(outQ) - 1 /\ Len(outQ) \in Nat
    BY <2>1, <2>2, HeadTailProperties
  <2>4. OutCapacity \in Nat
    BY DEF DuDataConstants
  <2>5. Rest
    BY <1>0, <2>1, <2>3, <2>4 DEF ASequence
  <2> QED
    BY <1>0, <2>1, <2>5 DEF TypeInv, TypeOK, ASequence
<1>9. CASE WorkerStep
  <2>1. UNCHANGED <<ring, t2, reading, size, seen>>
    BY <1>9 DEF WorkerStep, TakeTrigger, FindNone, Sleep, Lock, Answer, Unlock, data
  <2>2. /\ \/ t3Q' = t3Q
           \/ TakeTrigger
        /\ outQ' = outQ \/ \E m : outQ' = Queued(outQ, m)
    <3>1. CASE Answer
      BY <3>1 DEF Answer
    <3>2. CASE TakeTrigger \/ FindNone \/ Sleep \/ Lock \/ Unlock
      BY <3>2 DEF TakeTrigger, FindNone, Sleep, Lock, Unlock
    <3> QED
      BY <1>9, <3>1, <3>2 DEF WorkerStep
  <2>3. t3Q' \in Seq(Requests) /\ Len(t3Q') <= T3Capacity
    <3>1. t3Q \in Seq(Requests) /\ Len(t3Q) <= T3Capacity /\ T3Capacity \in Nat
      BY <1>0 DEF TypeOK, DuDataConstants
    <3>2. CASE TakeTrigger
      <4>1. t3Q # <<>> /\ t3Q' = Tail(t3Q)
        BY <3>2 DEF TakeTrigger
      <4>2. Tail(t3Q) \in Seq(Requests) /\ Len(Tail(t3Q)) = Len(t3Q) - 1 /\ Len(t3Q) \in Nat
        BY <3>1, <4>1, HeadTailProperties
      <4> QED
        BY <3>1, <4>1, <4>2
    <3> QED
      BY <2>2, <3>1, <3>2
  <2>4. Rest
    BY <1>1, <1>2, <2>2
  <2>5. /\ worker'.at \in {"test", "block", "asleep", "taken", "answer"}
        /\ worker'.missed \in BOOLEAN
        /\ worker' = [at |-> worker'.at, todo |-> worker'.todo, missed |-> worker'.missed]
    <3>0. worker.at \in {"test", "block", "asleep", "taken", "answer"} /\ worker.missed \in BOOLEAN
      BY <1>0 DEF TypeOK
    <3>1. CASE TakeTrigger
      BY <1>0, <3>0, <3>1 DEF TakeTrigger
    <3>2. CASE FindNone
      BY <1>0, <3>0, <3>2 DEF FindNone
    <3>3. CASE Sleep
      BY <1>0, <3>0, <3>3 DEF Sleep
    <3>4. CASE Lock
      BY <1>0, <3>0, <3>4 DEF Lock
    <3>5. CASE Answer
      BY <1>0, <3>0, <3>5 DEF Answer
    <3>6. CASE Unlock
      BY <3>6 DEF Unlock, Awake
    <3> QED
      BY <1>9, <3>1, <3>2, <3>3, <3>4, <3>5, <3>6 DEF WorkerStep
  <2> QED
    BY <1>0, <2>1, <2>3, <2>4, <2>5 DEF TypeInv, TypeOK, ASequence
<1>10. CASE UNCHANGED vars
  BY <1>0, <1>10 DEF vars, TypeInv, TypeOK, ASequence
<1> QED
  BY <1>3, <1>4, <1>5, <1>6, <1>7, <1>8, <1>9, <1>10 DEF Next

\* Types, and the bounds of the buffers: a trace is stored within the ring and
\* its slot within m_timestampRing (data_manager.cpp:180-224, data_manager.h:35),
\* a hit within m_duTimeStampSave, and no queue outgrows its capacity.
THEOREM DuDataTypes ==
  Spec => []TypeOK
<1>1. Init => TypeInv
  <2> SUFFICES ASSUME Init
               PROVE  TypeInv
    OBVIOUS
  <2>1. /\ RingSize \in Nat \ {0} /\ Slots \in Nat /\ T2Capacity \in Nat /\ T3Capacity \in Nat
        /\ OutCapacity \in Nat /\ MaxEvents \in Nat
    BY DuDataConstants DEF DuDataConstants
  <2>2. /\ <<>> \in Seq(Times) /\ <<>> \in Seq(Requests) /\ <<>> \in Seq([ts : Times, size : Sizes])
        /\ Len(<<>>) = 0 /\ ASequence(<<>>)
    BY EmptySeq DEF ASequence
  <2>3. RingTypes(ring)
    BY <2>1 DEF Init, RingTypes
  <2>4. /\ t2 = [hits |-> <<>>, sent |-> 0] /\ t2.hits = <<>> /\ t2.sent = 0
        /\ outQ = <<>> /\ t3Q = <<>> /\ worker = Awake
        /\ reading = 0 /\ size = 0 /\ seen = <<>>
    BY DEF Init
  <2>5. TypeOK
    BY <2>1, <2>2, <2>3, <2>4 DEF TypeOK, RingTypes, Awake
  <2> QED
    BY <2>2, <2>4, <2>5 DEF TypeInv, Awake
<1>2. TypeInv /\ [Next]_vars => TypeInv'
  BY DuDataConstants, StepKeepsTypes
<1>3. TypeInv => TypeOK
  BY DEF TypeInv
<1> QED
  BY <1>1, <1>2, <1>3, PTL DEF Spec
=============================================================================
