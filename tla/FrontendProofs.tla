--------------------------- MODULE FrontendProofs ---------------------------
(***************************************************************************)
(* Proofs about Frontend, for a ring of any size and any chunks.           *)
(*                                                                         *)
(* EachPacketOnce is not inductive: that the handler's packet is the next  *)
(* one not handled needs that it is the head of the ring (AtHead), that    *)
(* the numbers in the ring rise with their arrival (Ordered), and that the *)
(* DAQ thread runs only while the ring accepts (Phases).                   *)
(***************************************************************************)
EXTENDS Frontend, TLAPS

-----------------------------------------------------------------------------
(***************************************************************************)
(* The inductive invariant                                                 *)
(***************************************************************************)
Chunk == [n : Nat, run : Nat, packet : BOOLEAN, left : Nat \ {0}]

Types ==
  /\ exists \in BOOLEAN /\ accepts \in BOOLEAN /\ running \in BOOLEAN /\ linked \in BOOLEAN
  /\ ring \in Seq(Chunk) /\ sent \in Nat /\ runs \in Nat /\ taken \in Seq(Nat) /\ handled \in Seq(Nat)
  /\ recv.at \in {"none", "loop", "payload"}
  /\ recv.at = "payload" => recv.chunk \in Chunk
  /\ daq \in [at : {"none", "outer", "look", "handler"}, chunk : Chunk \cup {None}]
  /\ app \in {"off", "opening", "linking", "configured", "started", "joining", "closing",
              "undoing", "rest", "undone", "unlinking"}

\* What App's call has set up, and which threads it may meet
Phases ==
  /\ app = "off" => recv.at = "none"
  /\ app # "off" => exists
  /\ app \in {"off", "opening", "closing", "undoing", "rest", "undone", "unlinking"} => ~accepts
  /\ app \in {"off", "opening", "rest", "undone", "unlinking"} => ring = <<>>
  /\ app = "opening" => taken = <<>> /\ handled = <<>>
  /\ app = "linking" => accepts
  /\ app \in {"off", "unlinking"} => ~linked
  /\ ~linked /\ app # "unlinking" => recv.at = "none"
  /\ daq.at # "none" => app \in {"started", "joining"} /\ accepts
  /\ app = "started" => accepts
  /\ app = "configured" /\ linked => accepts

\* What the handler looks at is the head of the ring.
AtHead == daq.at = "handler" => ring # <<>> /\ daq.chunk = Head(ring)

Rising(r) == \A i, j \in DOMAIN r : i < j => r[i].n < r[j].n

\* The chunks are numbered as they arrive.
Ordered ==
  /\ Rising(ring) /\ \A i \in DOMAIN ring : ring[i].n <= sent
  /\ \A i, j \in DOMAIN taken : i < j => taken[i] < taken[j]
  /\ \A i \in DOMAIN taken : taken[i] <= sent
  /\ recv.at = "payload" =>
       /\ recv.chunk.n <= sent
       /\ \A i \in DOMAIN ring : ring[i].n < recv.chunk.n
       /\ \A i \in DOMAIN taken : taken[i] < recv.chunk.n

Books ==
  /\ Len(handled) <= Len(taken)
  /\ \A i \in 1..Len(handled) : handled[i] = taken[i]
  /\ accepts => Packets(ring) = Unhandled

FInv == Types /\ Phases /\ AtHead /\ Ordered /\ Books

-----------------------------------------------------------------------------
(***************************************************************************)
(* The packets of a ring, and what is left of a sequence of numbers        *)
(***************************************************************************)
Climbing(t) == \A i, j \in DOMAIN t : i < j => t[i] < t[j]

LeftOf(t, k) == {t[i] : i \in k + 1..Len(t)}

LEMMA PacketsAre ==
  ASSUME NEW r \in Seq(Chunk), NEW x
  PROVE  x \in Packets(r) <=> \E i \in 1..Len(r) : r[i].packet /\ r[i].n = x
<1>1. DOMAIN r = 1..Len(r)
  OBVIOUS
<1> QED
  BY <1>1 DEF Packets, Range

\* A chunk put behind a ring brings its packet, if it is one.
LEMMA PacketsOfAppend ==
  ASSUME NEW r \in Seq(Chunk), NEW c \in Chunk
  PROVE  \A x : x \in Packets(Append(r, c)) <=> x \in Packets(r) \/ (c.packet /\ c.n = x)
<1> DEFINE q == Append(r, c)
<1>1. /\ q \in Seq(Chunk) /\ Len(q) = Len(r) + 1
      /\ q[Len(r) + 1] = c
      /\ \A i \in 1..Len(r) : q[i] = r[i]
  OBVIOUS
<1>2. Len(r) \in Nat
  OBVIOUS
<1> HIDE DEF q
<1>3. ASSUME NEW x
      PROVE  x \in Packets(q) <=> x \in Packets(r) \/ (c.packet /\ c.n = x)
  <2>1. x \in Packets(q) <=> \E i \in 1..Len(q) : q[i].packet /\ q[i].n = x
    BY <1>1, PacketsAre
  <2>2. x \in Packets(r) <=> \E i \in 1..Len(r) : r[i].packet /\ r[i].n = x
    BY PacketsAre
  <2>3. 1..Len(q) = 1..Len(r) \cup {Len(r) + 1}
    BY <1>1, <1>2
  <2> QED
    BY <1>1, <2>1, <2>2, <2>3
<1> QED
  BY <1>3 DEF q

\* Consuming the head of a ring whose numbers rise takes its packet, which has
\* the least number, or no packet at all.
LEMMA RestOfRing ==
  ASSUME NEW r \in Seq(Chunk), r # <<>>, Rising(r), NEW c, c = Head(r)
  PROVE  /\ Rest(r, c) \in Seq(Chunk) /\ Rising(Rest(r, c))
         /\ \A i \in DOMAIN Rest(r, c) : \E j \in DOMAIN r : Rest(r, c)[i].n = r[j].n
         /\ c.packet => /\ c.n \in Packets(r)
                        /\ \A x \in Packets(r) : c.n <= x
                        /\ Packets(Rest(r, c)) = Packets(r) \ {c.n}
         /\ ~c.packet => Packets(Rest(r, c)) = Packets(r)
<1> DEFINE q == Rest(r, c)
<1>1. /\ Len(r) \in Nat \ {0} /\ DOMAIN r = 1..Len(r)
      /\ \A i \in 1..Len(r) : r[i] \in Chunk
      /\ c = r[1] /\ c \in Chunk
  OBVIOUS
<1>2. /\ c.n \in Nat /\ c.packet \in BOOLEAN /\ c.left \in Nat \ {0}
      /\ \A i \in 1..Len(r) : r[i].n \in Nat /\ r[i].packet \in BOOLEAN
  BY <1>1 DEF Chunk
<1>3. /\ Tail(r) \in Seq(Chunk) /\ Len(Tail(r)) = Len(r) - 1
      /\ \A i \in 1..Len(r) - 1 : Tail(r)[i] = r[i + 1]
  BY <1>1
<1>4. \A i, j \in 1..Len(r) : i < j => r[i].n < r[j].n
  BY <1>1 DEF Rising
<1>5. CASE c.packet \/ c.left = 1
  <2>1. q = Tail(r)
    BY <1>5 DEF Rest
  <2> HIDE DEF q
  <2>2. q \in Seq(Chunk) /\ Len(q) = Len(r) - 1 /\ DOMAIN q = 1..Len(r) - 1
        /\ \A i \in 1..Len(r) - 1 : q[i] = r[i + 1]
    BY <1>1, <1>3, <2>1
  <2>3. Rising(q)
    <3>1. ASSUME NEW i \in DOMAIN q, NEW j \in DOMAIN q, i < j
          PROVE  q[i].n < q[j].n
      <4>1. i + 1 \in 1..Len(r) /\ j + 1 \in 1..Len(r) /\ i + 1 < j + 1
        BY <1>1, <2>2, <3>1
      <4> QED
        BY <1>4, <2>2, <3>1, <4>1
    <3> QED
      BY <3>1 DEF Rising
  <2>4. \A i \in DOMAIN q : \E j \in DOMAIN r : q[i].n = r[j].n
    <3>1. ASSUME NEW i \in DOMAIN q
          PROVE  i + 1 \in DOMAIN r /\ q[i].n = r[i + 1].n
      BY <1>1, <2>2
    <3> QED
      BY <3>1
  <2>5. ASSUME NEW x
        PROVE  x \in Packets(q) <=> \E i \in 2..Len(r) : r[i].packet /\ r[i].n = x
    <3>1. x \in Packets(q) <=> \E i \in 1..Len(q) : q[i].packet /\ q[i].n = x
      BY <2>2, PacketsAre
    <3>2. ASSUME NEW i \in 2..Len(r)
          PROVE  i - 1 \in 1..Len(q) /\ q[i - 1] = r[i]
      BY <1>1, <2>2
    <3>3. ASSUME NEW i \in 1..Len(q)
          PROVE  i + 1 \in 2..Len(r) /\ q[i] = r[i + 1]
      BY <1>1, <2>2
    <3> QED
      BY <3>1, <3>2, <3>3
  <2>6. ASSUME NEW x
        PROVE  x \in Packets(r) <=> (c.packet /\ c.n = x) \/ x \in Packets(q)
    <3>1. x \in Packets(r) <=> \E i \in 1..Len(r) : r[i].packet /\ r[i].n = x
      BY PacketsAre
    <3>2. 1..Len(r) = {1} \cup 2..Len(r)
      BY <1>1
    <3> QED
      BY <1>1, <2>5, <3>1, <3>2
  <2>7. ASSUME NEW x \in Packets(q)
        PROVE  x \in Nat /\ c.n < x
    <3>1. PICK i \in 2..Len(r) : r[i].packet /\ r[i].n = x
      BY <2>5
    <3>2. 1 \in 1..Len(r) /\ i \in 1..Len(r) /\ 1 < i
      BY <1>1
    <3> QED
      BY <1>1, <1>2, <1>4, <3>1, <3>2
  <2>8. c.packet => /\ c.n \in Packets(r)
                    /\ \A x \in Packets(r) : c.n <= x
                    /\ Packets(q) = Packets(r) \ {c.n}
    <3> SUFFICES ASSUME c.packet
                 PROVE  /\ c.n \in Packets(r)
                        /\ \A x \in Packets(r) : c.n <= x
                        /\ Packets(q) = Packets(r) \ {c.n}
      OBVIOUS
    <3>1. c.n \in Packets(r)
      BY <2>6
    <3>2. \A x \in Packets(r) : c.n <= x
      BY <1>2, <2>6, <2>7
    <3>3. c.n \notin Packets(q)
      BY <1>2, <2>7
    <3>4. Packets(q) = Packets(r) \ {c.n}
      BY <2>6, <3>3
    <3> QED
      BY <3>1, <3>2, <3>4
  <2>9. ~c.packet => Packets(q) = Packets(r)
    BY <2>6
  <2> QED
    BY <2>2, <2>3, <2>4, <2>8, <2>9 DEF q
<1>6. CASE ~(c.packet \/ c.left = 1)
  <2> DEFINE h == [Head(r) EXCEPT !.left = @ - 1]
  <2>1. q = <<h>> \o Tail(r)
    BY <1>6 DEF Rest
  <2>2. h \in Chunk /\ h.n = c.n /\ h.packet = c.packet
    <3>1. Head(r) \in [n : Nat, run : Nat, packet : BOOLEAN, left : Nat \ {0}]
      BY <1>1 DEF Chunk
    <3>2. Head(r).left - 1 \in Nat \ {0}
      BY <1>2, <1>6
    <3> QED
      BY <3>1, <3>2 DEF Chunk
  <2> HIDE DEF h, q
  <2>3. /\ q \in Seq(Chunk) /\ Len(q) = Len(r) /\ DOMAIN q = 1..Len(r)
        /\ q[1] = h
        /\ \A i \in 2..Len(r) : q[i] = Tail(r)[i - 1]
    BY <1>1, <1>3, <2>1, <2>2
  <2>4. \A i \in 1..Len(r) : q[i].n = r[i].n /\ q[i].packet = r[i].packet
    <3>1. ASSUME NEW i \in 2..Len(r)
          PROVE  q[i] = r[i]
      <4>1. i - 1 \in 1..Len(r) - 1 /\ (i - 1) + 1 = i
        BY <1>1
      <4> QED
        BY <1>3, <2>3, <4>1
    <3>2. 1..Len(r) = {1} \cup 2..Len(r)
      BY <1>1
    <3> QED
      BY <1>1, <2>2, <2>3, <3>1, <3>2
  <2>5. Rising(q)
    BY <1>1, <2>3, <2>4 DEF Rising
  <2>6. \A i \in DOMAIN q : \E j \in DOMAIN r : q[i].n = r[j].n
    BY <1>1, <2>3, <2>4
  <2>7. Packets(q) = Packets(r)
    <3>1. ASSUME NEW x
          PROVE  x \in Packets(q) <=> x \in Packets(r)
      <4>1. x \in Packets(q) <=> \E i \in 1..Len(q) : q[i].packet /\ q[i].n = x
        BY <2>3, PacketsAre
      <4>2. x \in Packets(r) <=> \E i \in 1..Len(r) : r[i].packet /\ r[i].n = x
        BY PacketsAre
      <4> QED
        BY <2>3, <2>4, <4>1, <4>2
    <3> QED
      BY <3>1
  <2> QED
    BY <1>6, <2>3, <2>5, <2>6, <2>7 DEF q
<1> QED
  BY <1>5, <1>6

\* The least of what is left of a climbing sequence is its next element.
LEMMA LeastLeft ==
  ASSUME NEW t \in Seq(Nat), Climbing(t), NEW k \in Nat, k <= Len(t),
         NEW n, n \in LeftOf(t, k), \A x \in LeftOf(t, k) : n <= x
  PROVE  k < Len(t) /\ t[k + 1] = n /\ LeftOf(t, k + 1) = LeftOf(t, k) \ {n}
<1>1. Len(t) \in Nat /\ DOMAIN t = 1..Len(t) /\ \A i \in 1..Len(t) : t[i] \in Nat
  OBVIOUS
<1>2. PICK j \in k + 1..Len(t) : t[j] = n
  BY DEF LeftOf
<1>3. k < Len(t) /\ k + 1 \in k + 1..Len(t)
  BY <1>1, <1>2
<1>4. n <= t[k + 1]
  BY <1>3 DEF LeftOf
<1>5. k + 1 \in 1..Len(t) /\ j \in 1..Len(t)
  BY <1>1, <1>2, <1>3
<1>6. j = k + 1
  <2>1. CASE k + 1 < j
    <3>1. t[k + 1] < t[j]
      BY <1>1, <1>5, <2>1 DEF Climbing
    <3> QED
      BY <1>1, <1>2, <1>4, <1>5, <3>1
  <2> QED
    BY <1>1, <1>2, <2>1
<1>7. \A i \in k + 2..Len(t) : t[i] # n
  <2>1. ASSUME NEW i \in k + 2..Len(t)
        PROVE  t[k + 1] < t[i] /\ t[i] \in Nat
    <3>1. i \in 1..Len(t) /\ k + 1 < i
      BY <1>1
    <3> QED
      BY <1>1, <1>5, <3>1 DEF Climbing
  <2> QED
    BY <1>1, <1>2, <1>5, <1>6, <2>1
<1>8. k + 1..Len(t) = {k + 1} \cup k + 2..Len(t)
  BY <1>1, <1>3
<1>9. LeftOf(t, k) = {n} \cup LeftOf(t, k + 1)
  <2>1. (k + 1) + 1 = k + 2
    OBVIOUS
  <2> QED
    BY <1>2, <1>6, <1>8, <2>1 DEF LeftOf
<1>10. n \notin LeftOf(t, k + 1)
  <2>1. (k + 1) + 1 = k + 2
    OBVIOUS
  <2> QED
    BY <1>7, <2>1 DEF LeftOf
<1> QED
  BY <1>2, <1>3, <1>6, <1>9, <1>10

LEMMA LeftOfAppend ==
  ASSUME NEW t \in Seq(Nat), NEW k \in Nat, k <= Len(t), NEW n \in Nat
  PROVE  LeftOf(Append(t, n), k) = LeftOf(t, k) \cup {n}
<1>1. /\ Len(t) \in Nat /\ Len(Append(t, n)) = Len(t) + 1
      /\ Append(t, n)[Len(t) + 1] = n
      /\ \A i \in 1..Len(t) : Append(t, n)[i] = t[i]
  OBVIOUS
<1>2. k + 1..Len(t) + 1 = k + 1..Len(t) \cup {Len(t) + 1} /\ k + 1..Len(t) \subseteq 1..Len(t)
  BY <1>1
<1> QED
  BY <1>1, <1>2 DEF LeftOf

-----------------------------------------------------------------------------
(***************************************************************************)
(* The invariant is inductive                                              *)
(***************************************************************************)
LEMMA ChunksOf ==
  ASSUME NEW r \in Seq(Chunk)
  PROVE  /\ Len(r) \in Nat /\ DOMAIN r = 1..Len(r)
         /\ \A i \in DOMAIN r : r[i] \in Chunk /\ r[i].n \in Nat /\ r[i].packet \in BOOLEAN
         /\ r # <<>> => Head(r) \in Chunk /\ Head(r) = r[1] /\ 1 \in DOMAIN r
<1>1. Len(r) \in Nat /\ DOMAIN r = 1..Len(r) /\ \A i \in DOMAIN r : r[i] \in Chunk
  OBVIOUS
<1>2. \A c \in Chunk : c.n \in Nat /\ c.packet \in BOOLEAN
  BY DEF Chunk
<1>3. r # <<>> => Head(r) \in Chunk /\ Head(r) = r[1] /\ 1 \in DOMAIN r
  OBVIOUS
<1> QED
  BY <1>1, <1>2, <1>3

LEMMA AppendKeeps == ASSUME NEW t \in Seq(Nat), NEW n \in Nat PROVE Append(t, n) \in Seq(Nat)
OBVIOUS

LEMMA EmptyRings ==
  /\ <<>> \in Seq(Chunk) /\ Rising(<<>>) /\ Packets(<<>>) = {} /\ DOMAIN <<>> = {}
  /\ Climbing(<<>>) /\ LeftOf(<<>>, 0) = {} /\ Len(<<>>) = 0 /\ <<>> \in Seq(Nat)
<1>1. <<>> \in Seq(Chunk) /\ <<>> \in Seq(Nat) /\ DOMAIN <<>> = {} /\ Len(<<>>) = 0
  OBVIOUS
<1>2. Packets(<<>>) = {}
  BY <1>1 DEF Packets, Range
<1>3. LeftOf(<<>>, 0) = {}
  BY <1>1 DEF LeftOf
<1> QED
  BY <1>1, <1>2, <1>3 DEF Rising, Climbing

LEMMA UnhandledIsLeft == Unhandled = LeftOf(taken, Len(handled))
BY DEF Unhandled, LeftOf

LEMMA InitFInv == Init => FInv
<1> SUFFICES ASSUME Init PROVE FInv
  OBVIOUS
<1> USE DEF Init
<1>1. Types
  <2>1. daq \in [at : {"none", "outer", "look", "handler"}, chunk : Chunk \cup {None}]
    BY DEF Off
  <2> QED
    BY <2>1, EmptyRings DEF Types, Off
<1>2. Phases /\ AtHead
  BY DEF Phases, AtHead, Off
<1>3. Ordered
  BY EmptyRings DEF Ordered, Off, Climbing
<1>4. Books
  BY EmptyRings DEF Books
<1> QED
  BY <1>1, <1>2, <1>3, <1>4 DEF FInv

\* A step that leaves the ring and the history alone, takes no payload and does
\* not open the ring keeps the books.
LEMMA BooksStay ==
  ASSUME FInv, UNCHANGED <<ring, sent, taken, handled>>,
         recv' = recv \/ recv'.at # "payload", accepts' => accepts
  PROVE  Ordered' /\ Books'
<1>1. Ordered'
  BY DEF FInv, Ordered
<1>2. Unhandled' = Unhandled
  BY DEF Unhandled
<1>3. Books'
  BY <1>2 DEF FInv, Books
<1> QED
  BY <1>1, <1>3

LEMMA ReceiveKeeps ==
  ASSUME FInv, NEW len \in Lengths, NEW packet \in BOOLEAN, Receive(len, packet)
  PROVE  FInv'
<1> USE DEF Receive, history, threads
<1> DEFINE c == [n |-> sent + 1, run |-> runs, packet |-> packet, left |-> len]
<1>1. c \in Chunk /\ c.n = sent + 1
  BY FrontendConstants DEF Chunk, FInv, Types
<1>2. recv'.at = "payload" /\ recv'.chunk = c
  OBVIOUS
<1> HIDE DEF c
<1>3. Types'
  BY <1>1, <1>2 DEF FInv, Types
<1>4. Phases' /\ AtHead'
  BY <1>2 DEF FInv, Phases, AtHead
<1>5. Ordered'
  <2>1. \A i \in DOMAIN ring : ring[i].n \in Nat /\ ring[i].n <= sent
    BY ChunksOf DEF FInv, Types, Ordered
  <2>2. \A i \in DOMAIN taken : taken[i] \in Nat /\ taken[i] <= sent
    BY DEF FInv, Types, Ordered
  <2>3. sent \in Nat /\ sent' = sent + 1
    BY DEF FInv, Types
  <2> QED
    BY <1>1, <1>2, <2>1, <2>2, <2>3 DEF FInv, Ordered
<1>6. Books'
  <2>1. Unhandled' = Unhandled
    BY DEF Unhandled
  <2> QED
    BY <2>1 DEF FInv, Books
<1> QED
  BY <1>3, <1>4, <1>5, <1>6 DEF FInv

\* A chunk is put behind those that came before it.
LEMMA AcceptKeeps ==
  ASSUME FInv, Accept
  PROVE  FInv'
<1> USE DEF Accept, history
<1> DEFINE c == recv.chunk
<1>1. c \in Chunk /\ c.n \in Nat /\ c.n <= sent /\ c.packet \in BOOLEAN
  BY DEF FInv, Types, Ordered, Chunk
<1>2. /\ ring \in Seq(Chunk) /\ Len(ring) \in Nat /\ DOMAIN ring = 1..Len(ring)
      /\ \A i \in DOMAIN ring : ring[i].n \in Nat /\ ring[i].n < c.n
  BY ChunksOf DEF FInv, Types, Ordered
<1>3. /\ taken \in Seq(Nat) /\ Len(taken) \in Nat /\ DOMAIN taken = 1..Len(taken)
      /\ \A i \in DOMAIN taken : taken[i] \in Nat /\ taken[i] < c.n
  BY DEF FInv, Types, Ordered
<1>4. ring' = Append(ring, c) /\ recv'.at = "loop" /\ sent' = sent /\ handled' = handled
  OBVIOUS
<1>5. /\ c.packet => taken' = Append(taken, c.n)
      /\ ~c.packet => taken' = taken
  OBVIOUS
<1> HIDE DEF c
<1>6. /\ ring' \in Seq(Chunk) /\ Len(ring') = Len(ring) + 1 /\ DOMAIN ring' = 1..Len(ring) + 1
      /\ ring'[Len(ring) + 1] = c /\ \A i \in 1..Len(ring) : ring'[i] = ring[i]
  BY <1>1, <1>2, <1>4
<1>7. Types'
  <2>1. taken' \in Seq(Nat)
    BY <1>1, <1>3, <1>5, AppendKeeps
  <2> QED
    BY <1>4, <1>6, <2>1 DEF FInv, Types
<1>8. Phases'
  BY <1>4 DEF FInv, Phases, Types
<1>9. AtHead'
  <2> SUFFICES ASSUME daq'.at = "handler" PROVE ring' # <<>> /\ daq'.chunk = Head(ring')
    BY DEF AtHead
  <2>1. ring # <<>> /\ daq'.chunk = Head(ring)
    BY DEF FInv, AtHead
  <2>2. 1 \in 1..Len(ring) /\ Head(ring) = ring[1]
    BY <1>2, <2>1
  <2> QED
    BY <1>2, <1>6, <2>1, <2>2
<1>10. Ordered'
  <2>1. Rising(ring')
    <3>1. ASSUME NEW i \in DOMAIN ring', NEW j \in DOMAIN ring', i < j
          PROVE  ring'[i].n < ring'[j].n
      <4>1. i \in 1..Len(ring) /\ (j \in 1..Len(ring) \/ j = Len(ring) + 1)
        BY <1>2, <1>6, <3>1
      <4>2. CASE j \in 1..Len(ring)
        BY <1>2, <1>6, <3>1, <4>1, <4>2 DEF FInv, Ordered, Rising
      <4>3. CASE j = Len(ring) + 1
        BY <1>2, <1>6, <4>1, <4>3
      <4> QED
        BY <4>1, <4>2, <4>3
    <3> QED
      BY <3>1 DEF Rising
  <2>2. \A i \in DOMAIN ring' : ring'[i].n <= sent'
    <3>1. ASSUME NEW i \in DOMAIN ring'
          PROVE  ring'[i].n <= sent'
      <4>1. i \in 1..Len(ring) \/ i = Len(ring) + 1
        BY <1>2, <1>6
      <4> QED
        BY <1>1, <1>2, <1>4, <1>6, <4>1 DEF FInv, Ordered
    <3> QED
      BY <3>1
  <2>3. /\ \A i, j \in DOMAIN taken' : i < j => taken'[i] < taken'[j]
        /\ \A i \in DOMAIN taken' : taken'[i] <= sent'
    <3>1. CASE c.packet
      <4>1. /\ DOMAIN taken' = 1..Len(taken) + 1 /\ taken'[Len(taken) + 1] = c.n
            /\ \A i \in 1..Len(taken) : taken'[i] = taken[i]
        BY <1>1, <1>3, <1>5, <3>1
      <4>2. ASSUME NEW i \in DOMAIN taken'
            PROVE  /\ taken'[i] <= sent'
                   /\ \A j \in DOMAIN taken' : i < j => taken'[i] < taken'[j]
        <5>1. i \in 1..Len(taken) \/ i = Len(taken) + 1
          BY <1>3, <4>1
        <5>2. taken'[i] <= sent'
          BY <1>1, <1>3, <1>4, <4>1, <5>1 DEF FInv, Ordered
        <5>3. ASSUME NEW j \in DOMAIN taken', i < j
              PROVE  taken'[i] < taken'[j]
          <6>1. i \in 1..Len(taken) /\ (j \in 1..Len(taken) \/ j = Len(taken) + 1)
            BY <1>3, <4>1, <5>3
          <6>2. CASE j \in 1..Len(taken)
            BY <1>3, <4>1, <5>3, <6>1, <6>2 DEF FInv, Ordered
          <6>3. CASE j = Len(taken) + 1
            BY <1>3, <4>1, <6>1, <6>3
          <6> QED
            BY <6>1, <6>2, <6>3
        <5> QED
          BY <5>2, <5>3
      <4> QED
        BY <4>2
    <3>2. CASE ~c.packet
      BY <1>4, <1>5, <3>2 DEF FInv, Ordered
    <3> QED
      BY <3>1, <3>2
  <2> QED
    BY <1>4, <2>1, <2>2, <2>3 DEF Ordered
<1>11. Books'
  <2> DEFINE k == Len(handled)
  <2>1. k \in Nat /\ k <= Len(taken) /\ \A i \in 1..k : handled[i] = taken[i]
    BY DEF FInv, Types, Books
  <2>2. accepts /\ Packets(ring) = LeftOf(taken, k)
    BY UnhandledIsLeft DEF FInv, Books
  <2>3. Unhandled' = LeftOf(taken', k)
    BY <1>4 DEF Unhandled, LeftOf
  <2> HIDE DEF k
  <2>4. \A x : x \in Packets(ring') <=> x \in Packets(ring) \/ (c.packet /\ c.n = x)
    BY <1>1, <1>2, <1>4, PacketsOfAppend
  <2>5. CASE c.packet
    <3>1. taken' = Append(taken, c.n)
      BY <1>5, <2>5
    <3>2. Len(taken') = Len(taken) + 1 /\ \A i \in 1..Len(taken) : taken'[i] = taken[i]
      BY <1>1, <1>3, <3>1
    <3>3. k <= Len(taken') /\ \A i \in 1..k : handled[i] = taken'[i]
      BY <1>3, <2>1, <3>2
    <3>4. LeftOf(taken', k) = LeftOf(taken, k) \cup {c.n}
      BY <1>1, <1>3, <2>1, <3>1, LeftOfAppend
    <3>5. Packets(ring') = Unhandled'
      BY <2>2, <2>3, <2>4, <2>5, <3>4
    <3> QED
      BY <1>4, <3>3, <3>5 DEF Books, k
  <2>6. CASE ~c.packet
    <3>1. taken' = taken
      BY <1>5, <2>6
    <3>2. Packets(ring') = Unhandled'
      BY <2>2, <2>3, <2>4, <2>6, <3>1
    <3> QED
      BY <1>4, <2>1, <3>1, <3>2 DEF Books, k
  <2> QED
    BY <2>5, <2>6
<1> QED
  BY <1>7, <1>8, <1>9, <1>10, <1>11 DEF FInv

\* The handler has looked at the head, which is the oldest packet not handled
\* if it is one.
LEMMA HandleKeeps ==
  ASSUME FInv, HandleAndConsume
  PROVE  FInv'
<1> USE DEF HandleAndConsume
<1> DEFINE c == daq.chunk
           k == Len(handled)
<1>1. ring \in Seq(Chunk) /\ ring # <<>> /\ Rising(ring) /\ c = Head(ring)
  BY DEF FInv, Types, AtHead, Ordered
<1>2. c \in Chunk /\ c.n \in Nat /\ c.packet \in BOOLEAN
  BY <1>1, ChunksOf DEF Chunk
<1>3. /\ ring' = Rest(ring, c) /\ daq' = Look(ring')
      /\ taken' = taken /\ sent' = sent /\ recv' = recv /\ app' = app /\ accepts' = accepts
      /\ exists' = exists /\ running' = running /\ linked' = linked /\ runs' = runs
  OBVIOUS
<1>4. /\ c.packet => handled' = Append(handled, c.n)
      /\ ~c.packet => handled' = handled
  OBVIOUS
<1>5. daq.at = "handler" /\ app \in {"started", "joining"} /\ accepts
  BY DEF FInv, Phases
<1> HIDE DEF c, HandleAndConsume
<1>6. /\ ring' \in Seq(Chunk) /\ Rising(ring')
      /\ \A i \in DOMAIN ring' : \E j \in DOMAIN ring : ring'[i].n = ring[j].n
      /\ c.packet => /\ c.n \in Packets(ring)
                     /\ \A x \in Packets(ring) : c.n <= x
                     /\ Packets(ring') = Packets(ring) \ {c.n}
      /\ ~c.packet => Packets(ring') = Packets(ring)
  <2> DEFINE q == Rest(ring, c)
  <2> HIDE DEF q
  <2>1. /\ q \in Seq(Chunk) /\ Rising(q)
        /\ \A i \in DOMAIN q : \E j \in DOMAIN ring : q[i].n = ring[j].n
        /\ c.packet => /\ c.n \in Packets(ring)
                       /\ \A x \in Packets(ring) : c.n <= x
                       /\ Packets(q) = Packets(ring) \ {c.n}
        /\ ~c.packet => Packets(q) = Packets(ring)
    BY <1>1, RestOfRing DEF q
  <2>2. ring' = q
    BY <1>3 DEF q
  <2> QED
    BY <2>1, <2>2, Zenon
<1>7. Types'
  <2>1. handled' \in Seq(Nat)
    BY <1>2, <1>4, AppendKeeps DEF FInv, Types
  <2>2. daq' \in [at : {"none", "outer", "look", "handler"}, chunk : Chunk \cup {None}]
    <3>1. CASE ring' = <<>>
      BY <1>3, <3>1 DEF Look
    <3>2. CASE ring' # <<>>
      <4>1. Head(ring') \in Chunk
        BY <1>6, <3>2
      <4> QED
        BY <1>3, <3>2, <4>1 DEF Look
    <3> QED
      BY <3>1, <3>2
  <2> QED
    BY <1>3, <1>6, <2>1, <2>2 DEF FInv, Types
<1>8. Phases'
  BY <1>3, <1>5 DEF FInv, Phases
<1>9. AtHead'
  BY <1>3 DEF AtHead, Look
<1>10. Ordered'
  BY <1>3, <1>6 DEF FInv, Ordered
<1>11. Books'
  <2>1. k \in Nat /\ k <= Len(taken) /\ \A i \in 1..k : handled[i] = taken[i]
    BY DEF FInv, Types, Books
  <2>2. Packets(ring) = LeftOf(taken, k)
    BY <1>5, UnhandledIsLeft DEF FInv, Books
  <2>3. taken \in Seq(Nat) /\ Climbing(taken) /\ handled \in Seq(Nat)
    BY DEF FInv, Types, Ordered, Climbing
  <2>4. Unhandled' = LeftOf(taken, Len(handled'))
    BY <1>3 DEF Unhandled, LeftOf
  <2> HIDE DEF k
  <2>5. CASE c.packet
    <3>1. k < Len(taken) /\ taken[k + 1] = c.n /\ LeftOf(taken, k + 1) = LeftOf(taken, k) \ {c.n}
      BY <1>2, <1>6, <2>1, <2>2, <2>3, <2>5, LeastLeft
    <3>2. Len(handled') = k + 1 /\ handled'[k + 1] = c.n
          /\ \A i \in 1..k : handled'[i] = handled[i]
      BY <1>2, <1>4, <2>3, <2>5 DEF k
    <3>3. \A i \in 1..Len(handled') : handled'[i] = taken'[i]
      <4>1. 1..Len(handled') = 1..k \cup {k + 1}
        BY <2>1, <3>2
      <4> QED
        BY <1>3, <2>1, <3>1, <3>2, <4>1
    <3>4. Len(handled') <= Len(taken')
      BY <1>3, <2>1, <2>3, <3>1, <3>2
    <3>5. Packets(ring') = Unhandled'
      BY <1>6, <2>2, <2>4, <2>5, <3>1, <3>2
    <3> QED
      BY <3>3, <3>4, <3>5 DEF Books
  <2>6. CASE ~c.packet
    <3>1. handled' = handled
      BY <1>4, <2>6
    <3>2. Packets(ring') = Unhandled'
      BY <1>6, <2>2, <2>4, <2>6, <3>1 DEF k
    <3> QED
      BY <1>3, <2>1, <3>1, <3>2 DEF Books, k
  <2> QED
    BY <2>5, <2>6
<1> QED
  BY <1>7, <1>8, <1>9, <1>10, <1>11 DEF FInv

\* The steps that neither take nor handle a chunk
LEMMA QuietKeeps ==
  ASSUME FInv,
         \/ Drop \/ LeaveReceiveLoop \/ Outer \/ FirstLook
         \/ Link \/ LinkFails \/ Start \/ StopBegin \/ StopUnstarted \/ StopJoined \/ Unlink
  PROVE  FInv'
<1> USE DEF threads, history
<1>1. CASE Drop
  <2> USE <1>1 DEF Drop
  <2>1. Types' /\ Phases' /\ AtHead'
    BY DEF FInv, Types, Phases, AtHead
  <2>2. Ordered' /\ Books'
    BY BooksStay
  <2> QED
    BY <2>1, <2>2 DEF FInv
<1>2. CASE LeaveReceiveLoop
  <2> USE <1>2 DEF LeaveReceiveLoop, Off
  <2>1. Types' /\ Phases' /\ AtHead'
    BY DEF FInv, Types, Phases, AtHead
  <2>2. Ordered' /\ Books'
    BY BooksStay
  <2> QED
    BY <2>1, <2>2 DEF FInv
<1>3. CASE Outer
  <2> USE <1>3 DEF Outer
  <2>1. daq' \in [at : {"none", "outer", "look", "handler"}, chunk : Chunk \cup {None}]
        /\ daq'.at \in {"none", "look"} /\ daq.at # "none"
    BY DEF FInv, Types, Off
  <2>2. Types' /\ Phases' /\ AtHead'
    BY <2>1 DEF FInv, Types, Phases, AtHead
  <2>3. Ordered' /\ Books'
    BY BooksStay
  <2> QED
    BY <2>2, <2>3 DEF FInv
<1>4. CASE FirstLook
  <2> USE <1>4 DEF FirstLook
  <2>1. daq' \in [at : {"none", "outer", "look", "handler"}, chunk : Chunk \cup {None}]
    <3>1. ring # <<>> => Head(ring) \in Chunk
      BY ChunksOf DEF FInv, Types
    <3> QED
      BY <3>1 DEF Look
  <2>2. AtHead'
    BY DEF AtHead, Look
  <2>3. Types' /\ Phases'
    BY <2>1 DEF FInv, Types, Phases
  <2>4. Ordered' /\ Books'
    BY BooksStay
  <2> QED
    BY <2>2, <2>3, <2>4 DEF FInv
<1>5. CASE Link
  <2> USE <1>5 DEF Link
  <2>1. Types' /\ Phases' /\ AtHead'
    BY DEF FInv, Types, Phases, AtHead
  <2>2. Ordered' /\ Books'
    BY BooksStay
  <2> QED
    BY <2>1, <2>2 DEF FInv
<1>6. CASE LinkFails
  <2> USE <1>6 DEF LinkFails
  <2>1. Types' /\ Phases' /\ AtHead'
    BY DEF FInv, Types, Phases, AtHead
  <2>2. Ordered' /\ Books'
    BY BooksStay
  <2> QED
    BY <2>1, <2>2 DEF FInv
<1>7. CASE Start
  <2> USE <1>7 DEF Start
  <2>1. Types' /\ Phases' /\ AtHead'
    BY DEF FInv, Types, Phases, AtHead
  <2>2. Ordered' /\ Books'
    BY BooksStay
  <2> QED
    BY <2>1, <2>2 DEF FInv
<1>8. CASE StopBegin
  <2> USE <1>8 DEF StopBegin
  <2>1. Types' /\ Phases' /\ AtHead'
    BY DEF FInv, Types, Phases, AtHead
  <2>2. Ordered' /\ Books'
    BY BooksStay
  <2> QED
    BY <2>1, <2>2 DEF FInv
<1>9. CASE StopJoined
  <2> USE <1>9 DEF StopJoined
  <2>1. Types' /\ Phases' /\ AtHead'
    BY DEF FInv, Types, Phases, AtHead
  <2>2. Ordered' /\ Books'
    BY BooksStay
  <2> QED
    BY <2>1, <2>2 DEF FInv
<1>10. CASE StopUnstarted
  <2> USE <1>10 DEF StopUnstarted
  <2>1. Types' /\ Phases' /\ AtHead'
    BY DEF FInv, Types, Phases, AtHead
  <2>2. Ordered' /\ Books'
    BY BooksStay
  <2> QED
    BY <2>1, <2>2 DEF FInv
<1>11. CASE Unlink
  <2> USE <1>11 DEF Unlink
  <2>1. Types' /\ Phases' /\ AtHead'
    BY DEF FInv, Types, Phases, AtHead
  <2>2. Ordered' /\ Books'
    BY BooksStay
  <2> QED
    BY <2>1, <2>2 DEF FInv
<1> QED
  BY <1>1, <1>2, <1>3, <1>4, <1>5, <1>6, <1>7, <1>8, <1>9, <1>10, <1>11

\* The steps that empty the ring do so while nothing is accepted, and the step
\* that begins to accept finds an empty ring and no history.
LEMMA RenewalKeeps ==
  ASSUME FInv, EmptyRing \/ OpenRing \/ StopClear \/ Unlinked
  PROVE  FInv'
<1> USE DEF threads, history
<1>1. CASE EmptyRing
  <2> USE <1>1 DEF EmptyRing
  <2>1. Types' /\ Phases' /\ AtHead'
    BY EmptyRings DEF FInv, Types, Phases, AtHead
  <2>2. Ordered'
    BY EmptyRings DEF FInv, Ordered, Climbing
  <2>3. Books'
    BY EmptyRings DEF FInv, Phases, Books
  <2> QED
    BY <2>1, <2>2, <2>3 DEF FInv
<1>2. CASE OpenRing
  <2> USE <1>2 DEF OpenRing
  <2>1. ring = <<>> /\ taken = <<>> /\ handled = <<>>
    BY DEF FInv, Phases
  <2>2. Types' /\ Phases' /\ AtHead'
    BY DEF FInv, Types, Phases, AtHead
  <2>3. Ordered'
    BY DEF FInv, Ordered
  <2>4. Unhandled' = LeftOf(<<>>, 0)
    BY <2>1, EmptyRings DEF Unhandled, LeftOf
  <2>5. Books'
    BY <2>1, <2>4, EmptyRings DEF FInv, Books
  <2> QED
    BY <2>2, <2>3, <2>5 DEF FInv
<1>3. CASE StopClear
  <2> USE <1>3 DEF StopClear
  <2>1. Types' /\ Phases' /\ AtHead'
    BY EmptyRings DEF FInv, Types, Phases, AtHead
  <2>2. Ordered'
    BY EmptyRings DEF FInv, Ordered
  <2>3. Books'
    BY DEF FInv, Phases, Books
  <2> QED
    BY <2>1, <2>2, <2>3 DEF FInv
<1>4. CASE Unlinked
  <2> USE <1>4 DEF Unlinked
  <2>1. Types' /\ Phases' /\ AtHead'
    BY EmptyRings DEF FInv, Types, Phases, AtHead
  <2>2. Ordered'
    BY EmptyRings DEF FInv, Ordered
  <2>3. Books'
    BY DEF FInv, Phases, Books
  <2> QED
    BY <2>1, <2>2, <2>3 DEF FInv
<1> QED
  BY <1>1, <1>2, <1>3, <1>4

LEMMA StutterKeeps == ASSUME FInv, UNCHANGED vars PROVE FInv'
<1> USE DEF vars, threads, history
<1>1. Types' /\ Phases' /\ AtHead'
  BY DEF FInv, Types, Phases, AtHead
<1>2. Ordered' /\ Books'
  BY BooksStay
<1> QED
  BY <1>1, <1>2 DEF FInv

\* Whatever the two threads are in the middle of when App starts, stops and
\* configures, the ring has what was taken and not yet handled.
LEMMA FrontendInvariance == Spec => []FInv
<1>1. FInv /\ [Next]_vars => FInv'
  <2> SUFFICES ASSUME FInv, [Next]_vars PROVE FInv'
    OBVIOUS
  <2>1. CASE \E len \in Lengths, packet \in BOOLEAN : Receive(len, packet)
    BY <2>1, ReceiveKeeps
  <2>2. CASE RecvStep
    BY <2>2, AcceptKeeps, QuietKeeps DEF RecvStep
  <2>3. CASE DaqStep
    BY <2>3, HandleKeeps, QuietKeeps DEF DaqStep
  <2>4. CASE EmptyRing \/ Start \/ StopBegin \/ StopUnstarted \/ Unlink
    BY <2>4, QuietKeeps, RenewalKeeps
  <2>5. CASE AppStep
    BY <2>5, QuietKeeps, RenewalKeeps DEF AppStep
  <2>6. CASE UNCHANGED vars
    BY <2>6, StutterKeeps
  <2> QED
    BY <2>1, <2>2, <2>3, <2>4, <2>5, <2>6 DEF Next
<1> QED
  BY <1>1, InitFInv, PTL DEF Spec

-----------------------------------------------------------------------------
(***************************************************************************)
(* What follows                                                            *)
(***************************************************************************)
LEMMA PrefixOf ==
  ASSUME NEW s \in Seq(Nat), NEW t \in Seq(Nat), Len(s) <= Len(t),
         \A i \in 1..Len(s) : s[i] = t[i]
  PROVE  IsPrefix(s, t)
<1>1. SubSeq(s, 1, Len(s)) = SubSeq(t, 1, Len(s))
  OBVIOUS
<1> QED
  BY <1>1 DEF IsPrefix

\* Each packet the ring takes reaches the handler once and in order, and what is
\* in the ring while it accepts is exactly what is still to be handled: for a
\* ring of any size, chunks of any length and any calls of App.
THEOREM NoPacketIsLostInTheRing == Spec => []EachPacketOnce
<1>1. FInv => EachPacketOnce
  <2> SUFFICES ASSUME FInv PROVE EachPacketOnce
    OBVIOUS
  <2>1. IsPrefix(handled, taken)
    BY PrefixOf DEF FInv, Types, Books
  <2> QED
    BY <2>1 DEF EachPacketOnce, FInv, Phases, Ordered, Rising, Books
<1> QED
  BY <1>1, FrontendInvariance, PTL

\* The ring is there for a payload whenever it comes, and the packet the handler
\* looks at without the mutex is still the head when it is consumed.
THEOREM RingOutlivesItsUsers == Spec => []RingStaysForItsUsers
<1>1. FInv => RingStaysForItsUsers
  BY DEF FInv, Types, Phases, AtHead, RingStaysForItsUsers
<1> QED
  BY <1>1, FrontendInvariance, PTL
=============================================================================
