------------------------ MODULE RewindPipeline_proofs ------------------------
(***************************************************************************)
(* Proofs about RewindPipeline: what is in the ring or can still come into *)
(* it is the past of the running console, in order, and a rewind step goes *)
(* back, for every interval, ring, channel and number of commands, as long *)
(* as nobody advances frames while rewind is held.                         *)
(*                                                                         *)
(* The invariant relates the ring and the queue of the worker's side       *)
(* (points, the capture in work, captures) to the machine.  Nothing in the *)
(* code says that the newest point is older than the machine: it follows   *)
(* from the generation that whatever takes the machine elsewhere raises,   *)
(* and, while rewind is held, from nothing in the queue being wanted.      *)
(***************************************************************************)
EXTENDS RewindPipeline, TLAPS, WellFoundedInduction

---------------------------------------------------------------------------
(* What a collection keeps of the points it is handed. *)

\* What the worker's side holds, oldest first.
Queue == points \o worker \o captures

\* g has at every position n what is kept of the first n points of s.
Kept(s, g, n) ==
    g = [i \in 0 .. n |->
            IF i = 0 THEN <<>>
            ELSE IF Wanted(s[i]) THEN Append(g[i - 1], s[i]) ELSE g[i - 1]]

\* A set of numbers has a least one: the induction of the proofs below.
LEMMA LeastElement ==
    ASSUME NEW T, T \subseteq Nat, T # {} PROVE \E x \in T : \A y \in T : ~(y < x)
<1> DEFINE R == {p \in Nat \X Nat : p[1] < p[2]}
<1>1. IsWellFoundedOn(R, Nat)
  BY NatLessThanWellFounded DEF OpToRel, IsWellFoundedOn
<1>2. \E x \in T : \A y \in T : ~ (<<y, x>> \in R)
  <2> HIDE DEF R
  <2> QED BY <1>1, WFMin
<1> QED BY <1>2

\* There is a function with what is kept of every initial part.
LEMMA KeptExists ==
    ASSUME NEW s \in Seq(Points), NEW n \in Nat PROVE \E g : Kept(s, g, n)
<1> DEFINE Bad == {m \in Nat : ~ \E g : Kept(s, g, m)}
<1> SUFFICES ASSUME Bad # {} PROVE FALSE
  OBVIOUS
<1>1. PICK m \in Bad : \A k \in Bad : ~(k < m)
  <2> HIDE DEF Bad
  <2>1. Bad \subseteq Nat
    BY DEF Bad
  <2> QED BY <2>1, LeastElement
<1>2. m \in Nat /\ ~ \E g : Kept(s, g, m)
  BY <1>1
<1>3. m # 0
  <2>1. Kept(s, [i \in 0 .. 0 |-> <<>>], 0)
    BY DEF Kept
  <2> QED BY <2>1, <1>2
<1>4. PICK g : Kept(s, g, m - 1)
  BY <1>1, <1>2, <1>3
<1> DEFINE h == [i \in 0 .. m |->
                   IF i < m THEN g[i]
                   ELSE IF Wanted(s[m]) THEN Append(g[m - 1], s[m]) ELSE g[m - 1]]
<1>5. \A i \in 0 .. m - 1 : g[i] = IF i = 0 THEN <<>>
            ELSE IF Wanted(s[i]) THEN Append(g[i - 1], s[i]) ELSE g[i - 1]
  BY <1>4, <1>2, <1>3 DEF Kept
<1>6. \A i \in 0 .. m : h[i] = IF i = 0 THEN <<>>
            ELSE IF Wanted(s[i]) THEN Append(h[i - 1], s[i]) ELSE h[i - 1]
  <2> TAKE i \in 0 .. m
  <2>1. CASE i = m
    <3>1. i - 1 \in 0 .. m /\ i - 1 < m /\ i # 0
      BY <2>1, <1>2, <1>3
    <3>2. h[i - 1] = g[m - 1]
      BY <3>1, <2>1
    <3>3. h[i] = IF Wanted(s[m]) THEN Append(g[m - 1], s[m]) ELSE g[m - 1]
      BY <2>1, <1>2
    <3> QED BY <3>1, <3>2, <3>3, <2>1
  <2>2. CASE i # m /\ i # 0
    <3>1. i - 1 \in 0 .. m /\ i - 1 < m /\ i \in 0 .. m - 1 /\ i < m
      BY <2>2, <1>2, <1>3
    <3>2. h[i - 1] = g[i - 1] /\ h[i] = g[i]
      BY <3>1
    <3> HIDE DEF h
    <3> QED BY <3>1, <3>2, <1>5, <2>2
  <2>3. CASE i # m /\ i = 0
    <3>1. h[i] = g[i] /\ i \in 0 .. m - 1
      BY <2>3, <1>2, <1>3
    <3> HIDE DEF h
    <3> QED BY <3>1, <1>5, <2>3
  <2> QED BY <2>1, <2>2, <2>3
<1>7. Kept(s, h, m)
  <2>1. h = [i \in 0 .. m |-> h[i]]
    OBVIOUS
  <2> HIDE DEF h
  <2> QED BY <2>1, <1>6 DEF Kept
<1> QED BY <1>7, <1>2

\* Collected(s) is the value of such a function for the whole of s.
LEMMA CollectedByPosition ==
    ASSUME NEW s \in Seq(Points)
    PROVE  \E g : Kept(s, g, Len(s)) /\ Collected(s) = g[Len(s)]
<1> DEFINE f == CHOOSE g : Kept(s, g, Len(s))
<1>0. Len(s) \in Nat
  OBVIOUS
<1>1. Kept(s, f, Len(s))
  BY <1>0, KeptExists
<1>2. Collected(s) = f[Len(s)]
  BY DEF Collected, Kept
<1> QED BY <1>1, <1>2
\* t is made of wanted points among the first n of s, in their order.
Embedded(t, s, n) ==
    /\ t \in Seq(Points)
    /\ \A i \in DOMAIN t : \E k \in 1 .. n : Wanted(s[k]) /\ t[i] = s[k]
    /\ \A i \in DOMAIN t : \A j \in 1 .. i - 1 : \E k \in 1 .. n : \E l \in 1 .. k - 1 :
           Wanted(s[k]) /\ Wanted(s[l]) /\ t[i] = s[k] /\ t[j] = s[l]

\* One more point is kept or left out; what is kept stays embedded.
LEMMA EmbeddedStep ==
    ASSUME NEW s \in Seq(Points), NEW n \in 1 .. Len(s), NEW t, Embedded(t, s, n - 1)
    PROVE  /\ Embedded(t, s, n)
           /\ Wanted(s[n]) => Embedded(Append(t, s[n]), s, n)
<1>0. n \in Nat /\ n >= 1 /\ n - 1 \in Nat /\ s[n] \in Points
  OBVIOUS
<1>1. t \in Seq(Points)
  BY DEF Embedded
<1>2. \A k \in 1 .. n - 1 : k \in 1 .. n /\ k < n
  BY <1>0
<1>3. Embedded(t, s, n)
  BY <1>2, <1>1 DEF Embedded
<1>4. ASSUME Wanted(s[n]) PROVE Embedded(Append(t, s[n]), s, n)
  <2> DEFINE u == Append(t, s[n])
  <2>1. u \in Seq(Points) /\ Len(u) = Len(t) + 1 /\ u[Len(t) + 1] = s[n]
    BY <1>1, <1>0
  <2>2. \A i \in 1 .. Len(t) : u[i] = t[i]
    BY <1>1, <1>0
  <2>3. DOMAIN u = 1 .. Len(t) + 1 /\ DOMAIN t = 1 .. Len(t) /\ Len(t) \in Nat
    BY <2>1, <1>1
  <2>4. n \in 1 .. n
    BY <1>0
  <2> HIDE DEF u
  <2>5. ASSUME NEW i \in DOMAIN u PROVE \E k \in 1 .. n : Wanted(s[k]) /\ u[i] = s[k]
    <3>1. CASE i = Len(t) + 1
      BY <3>1, <2>1, <2>4, <1>4
    <3>2. CASE i \in 1 .. Len(t)
      BY <3>2, <2>2, <2>3, <1>3 DEF Embedded
    <3> QED BY <3>1, <3>2, <2>3
  <2>6. ASSUME NEW i \in DOMAIN u, NEW j \in 1 .. i - 1
        PROVE \E k \in 1 .. n : \E l \in 1 .. k - 1 :
                 Wanted(s[k]) /\ Wanted(s[l]) /\ u[i] = s[k] /\ u[j] = s[l]
    <3>0. j \in 1 .. Len(t) /\ u[j] = t[j] /\ j \in DOMAIN t
      BY <2>2, <2>3
    <3>1. CASE i = Len(t) + 1
      <4>1. PICK l \in 1 .. n - 1 : Wanted(s[l]) /\ t[j] = s[l]
        BY <3>0 DEF Embedded
      <4> QED BY <4>1, <3>0, <3>1, <2>1, <2>4, <1>4
    <3>2. CASE i \in 1 .. Len(t)
      <4>1. u[i] = t[i] /\ i \in DOMAIN t
        BY <3>2, <2>2, <2>3
      <4>2. \E k \in 1 .. n : \E l \in 1 .. k - 1 :
                Wanted(s[k]) /\ Wanted(s[l]) /\ t[i] = s[k] /\ t[j] = s[l]
        BY <4>1, <1>3 DEF Embedded
      <4> QED BY <4>1, <4>2, <3>0
    <3> QED BY <3>1, <3>2, <2>3
  <2>7. Embedded(u, s, n)
    BY <2>1, <2>5, <2>6 DEF Embedded
  <2> QED BY <2>7 DEF u
<1> QED BY <1>3, <1>4

\* A collection keeps wanted points only, and in the order they came in.
LEMMA CollectedInOrder ==
    ASSUME NEW s \in Seq(Points) PROVE Embedded(Collected(s), s, Len(s))
<1>1. PICK g : Kept(s, g, Len(s)) /\ Collected(s) = g[Len(s)]
  BY CollectedByPosition
<1>2. \A i \in 0 .. Len(s) : g[i] = IF i = 0 THEN <<>>
            ELSE IF Wanted(s[i]) THEN Append(g[i - 1], s[i]) ELSE g[i - 1]
  BY <1>1 DEF Kept
<1> DEFINE Bad == {m \in 0 .. Len(s) : ~ Embedded(g[m], s, m)}
<1>3. Len(s) \in 0 .. Len(s) /\ 0 \in 0 .. Len(s)
  OBVIOUS
<1>4. ASSUME Bad # {} PROVE FALSE
  <2>1. PICK m \in Bad : \A k \in Bad : ~(k < m)
    <3>1. Bad \subseteq Nat
      OBVIOUS
    <3> HIDE DEF Bad
    <3> QED BY <3>1, <1>4, LeastElement
  <2>2. m \in 0 .. Len(s) /\ ~ Embedded(g[m], s, m)
    BY <2>1
  <2>3. CASE m = 0
    <3>1. g[0] = <<>>
      BY <1>2, <1>3
    <3>2. Embedded(<<>>, s, 0)
      <4>1. <<>> \in Seq(Points) /\ DOMAIN <<>> = {}
        OBVIOUS
      <4> QED BY <4>1 DEF Embedded
    <3> QED BY <3>1, <3>2, <2>2, <2>3
  <2>4. CASE m # 0
    <3>1. m \in 1 .. Len(s) /\ m - 1 \in 0 .. Len(s) /\ m - 1 < m
      BY <2>2, <2>4
    <3>2. Embedded(g[m - 1], s, m - 1)
      BY <3>1, <2>1
    <3>3. Embedded(g[m - 1], s, m) /\ (Wanted(s[m]) => Embedded(Append(g[m - 1], s[m]), s, m))
      BY <3>1, <3>2, EmbeddedStep
    <3>4. g[m] = IF Wanted(s[m]) THEN Append(g[m - 1], s[m]) ELSE g[m - 1]
      BY <1>2, <2>2, <2>4
    <3> QED BY <3>3, <3>4, <2>2
  <2> QED BY <2>3, <2>4
<1>5. Embedded(g[Len(s)], s, Len(s))
  BY <1>3, <1>4
<1> QED BY <1>1, <1>5\* The machines of s are in the order of one past.
Increasing(s) ==
    \A i \in DOMAIN s : \A j \in 1 .. i - 1 : Before(s[j].machine, s[i].machine)

\* The ring is the past of the machine.
RingInv ==
    /\ \A i \in DOMAIN ring : ring[i].machine.on /\ Before(ring[i].machine, machine)
    /\ Increasing(ring)

\* So is what of the queue is still wanted, and it comes after the ring.
QueueInv ==
    /\ \A k \in DOMAIN Queue :
           Queue[k].machine.on /\ Queue[k].generation <= generation
    /\ \A k \in DOMAIN Queue : Wanted(Queue[k]) =>
           /\ Before(Queue[k].machine, machine)
           /\ \A i \in DOMAIN ring : Before(ring[i].machine, Queue[k].machine)
           /\ \A l \in 1 .. k - 1 :
                  Wanted(Queue[l]) => Before(Queue[l].machine, Queue[k].machine)

\* A console that is powered runs; nothing is wanted while rewind is held.
HoldInv ==
    /\ app.powered => machine.on
    /\ app.active => \A k \in DOMAIN Queue : ~Wanted(Queue[k])

HistoryInv == TypeOK /\ RingInv /\ QueueInv /\ HoldInv

\* n is m or what m becomes.
Later(m, n) == m.past = n.past \/ Before(m, n)

---------------------------------------------------------------------------
(* The order of machines. *)

\* An earlier machine has a shorter past that agrees with the later one.
LEMMA BeforePointwise ==
    ASSUME NEW m \in Machines, NEW n \in Machines
    PROVE  Before(m, n) <=> /\ Len(m.past) < Len(n.past)
                            /\ \A i \in 1 .. Len(m.past) : m.past[i] = n.past[i]
<1> DEFINE s == m.past
           t == n.past
           A == Origins \cup Inputs \cup {"power"}
<1>0. s \in Seq(A) /\ t \in Seq(A)
  BY DEF Machines
<1>1. Before(m, n) <=> Len(s) <= Len(t) /\ SubSeq(s, 1, Len(s)) = SubSeq(t, 1, Len(s)) /\ s # t
  BY DEF Before, IsStrictPrefix, IsPrefix
<1> HIDE DEF s, t, A
<1>2. Len(s) \in Nat /\ Len(t) \in Nat
  BY <1>0
<1>3. SubSeq(s, 1, Len(s)) = s
  BY <1>0
<1>4. ASSUME Len(s) <= Len(t), SubSeq(s, 1, Len(s)) = SubSeq(t, 1, Len(s)), s # t
      PROVE  Len(s) < Len(t) /\ \A i \in 1 .. Len(s) : s[i] = t[i]
  <2>1. \A i \in 1 .. Len(s) : SubSeq(t, 1, Len(s))[i] = t[i]
    BY <1>0, <1>2, <1>4
  <2>2. \A i \in 1 .. Len(s) : s[i] = t[i]
    BY <2>1, <1>3, <1>4
  <2>3. Len(s) # Len(t)
    <3> SUFFICES ASSUME Len(s) = Len(t) PROVE FALSE
      OBVIOUS
    <3>1. SubSeq(t, 1, Len(t)) = t
      BY <1>0
    <3> QED BY <3>1, <1>3, <1>4
  <2> QED BY <2>2, <2>3, <1>2, <1>4
<1>5. ASSUME Len(s) < Len(t), \A i \in 1 .. Len(s) : s[i] = t[i]
      PROVE  Len(s) <= Len(t) /\ SubSeq(s, 1, Len(s)) = SubSeq(t, 1, Len(s)) /\ s # t
  <2>1. \A i \in 1 .. Len(s) : SubSeq(t, 1, Len(s))[i] = t[i]
    BY <1>0, <1>2, <1>5
  <2>2. SubSeq(t, 1, Len(s)) \in Seq(A) /\ Len(SubSeq(t, 1, Len(s))) = Len(s)
    BY <1>0, <1>2, <1>5
  <2>3. SubSeq(t, 1, Len(s)) = s
    BY <2>1, <2>2, <1>0, <1>5
  <2> QED BY <2>3, <1>2, <1>3, <1>5
<1> QED BY <1>1, <1>4, <1>5 DEF s, t

\* What is before a machine is before what it becomes.
LEMMA BeforeLater ==
    ASSUME NEW k \in Machines, NEW m \in Machines, NEW n \in Machines,
           Before(k, m), Later(m, n)
    PROVE  Before(k, n)
<1>1. CASE m.past = n.past
  BY <1>1 DEF Before
<1>2. CASE Before(m, n)
  <2>1. Len(k.past) \in Nat /\ Len(m.past) \in Nat /\ Len(n.past) \in Nat
    BY DEF Machines
  <2>2. /\ Len(k.past) < Len(m.past)
        /\ \A i \in 1 .. Len(k.past) : k.past[i] = m.past[i]
    BY BeforePointwise
  <2>3. /\ Len(m.past) < Len(n.past)
        /\ \A i \in 1 .. Len(m.past) : m.past[i] = n.past[i]
    BY <1>2, BeforePointwise
  <2> QED BY <2>1, <2>2, <2>3, BeforePointwise
<1> QED BY <1>1, <1>2 DEF Later

\* A step of the console takes the machine forward.
LEMMA GoesOn ==
    ASSUME NEW m \in Machines, NEW n \in Machines, NEW e, n.past = Append(m.past, e)
    PROVE  Before(m, n)
<1>1. m.past \in Seq(Origins \cup Inputs \cup {"power"})
  BY DEF Machines
<1>2. /\ Len(n.past) = Len(m.past) + 1 /\ Len(m.past) \in Nat
      /\ \A i \in 1 .. Len(m.past) : m.past[i] = n.past[i]
  BY <1>1
<1> QED BY <1>2, BeforePointwise
---------------------------------------------------------------------------
(* What each kind of step does to the ring and the queue. *)

\* The queue is made of points.
LEMMA QueueTyped ==
    ASSUME TypeOK
    PROVE  /\ Queue \in Seq(Points)
           /\ ring \in Seq(Points)
           /\ machine \in Machines /\ generation \in Nat
           /\ \A k \in DOMAIN Queue : Queue[k] \in Points
           /\ \A i \in DOMAIN ring : ring[i] \in Points
<1>1. points \in Seq(Points) /\ worker \in Seq(Points) /\ captures \in Seq(Points)
  BY DEF TypeOK
<1>2. points \o worker \in Seq(Points)
  BY <1>1
<1>3. Queue \in Seq(Points)
  BY <1>1, <1>2 DEF Queue
<1>4. ring \in Seq(Points)
  BY DEF TypeOK
<1>5. \A q \in Seq(Points) : \A k \in DOMAIN q : q[k] \in Points
  OBVIOUS
<1>6. machine \in Machines /\ generation \in Nat
  BY PipelineParameters DEF TypeOK
<1> QED BY <1>3, <1>4, <1>5, <1>6

\* A point holds a machine and a generation.
LEMMA PointTyped ==
    ASSUME NEW p \in Points PROVE p.machine \in Machines /\ p.generation \in Nat
BY PipelineParameters DEF Points

\* The queue and the ring stay, the machine goes on.
LEMMA GoingOnKeepsHistory ==
    ASSUME HistoryInv, TypeOK',
           UNCHANGED <<ring, generation>>, Queue' = Queue, Later(machine, machine')
    PROVE  RingInv' /\ QueueInv'
<1>1. TypeOK /\ RingInv /\ QueueInv
  BY DEF HistoryInv
<1>2. machine \in Machines /\ machine' \in Machines
  <2>1. machine \in Machines
    BY <1>1 DEF TypeOK
  <2>2. machine' \in Machines'
    BY DEF TypeOK
  <2> QED BY <2>1, <2>2 DEF Machines, Origins
<1>3. \A k \in Machines : Before(k, machine) => Before(k, machine')
  BY <1>2, BeforeLater
<1>4. \A i \in DOMAIN ring : ring[i].machine \in Machines
  BY <1>1, QueueTyped, PointTyped
<1>5. \A k \in DOMAIN Queue : Queue[k].machine \in Machines
  BY <1>1, QueueTyped, PointTyped
<1>6. RingInv'
  <2>1. \A i \in DOMAIN ring : ring[i].machine.on /\ Before(ring[i].machine, machine')
    BY <1>1, <1>3, <1>4 DEF RingInv
  <2>2. Increasing(ring)
    BY <1>1 DEF RingInv
  <2> QED BY <2>1, <2>2 DEF RingInv, Increasing, Before
<1>7. QueueInv'
  <2>1. \A p : Wanted(p)' <=> Wanted(p)
    BY DEF Wanted
  <2>2. \A k \in DOMAIN Queue : Wanted(Queue[k]) => Before(Queue[k].machine, machine')
    BY <1>1, <1>3, <1>5 DEF QueueInv
  <2> QED BY <1>1, <2>2 DEF QueueInv, Wanted, Before
<1> QED BY <1>6, <1>7

\* What the worker's side holds is not wanted after an invalidation.
LEMMA Invalidation ==
    ASSUME HistoryInv, generation' = generation + 1, Queue' = Queue
    PROVE  \A k \in DOMAIN Queue' :
             /\ ~ Wanted(Queue[k])'
             /\ Queue[k]'.machine.on /\ Queue[k]'.generation <= generation'
<1>1. TypeOK /\ QueueInv
  BY DEF HistoryInv
<1> SUFFICES ASSUME NEW k \in DOMAIN Queue
             PROVE  /\ Queue[k].generation # generation + 1
                    /\ Queue[k].machine.on /\ Queue[k].generation <= generation + 1
  BY DEF Wanted
<1>2. Queue[k].generation \in Nat /\ generation \in Nat
  BY <1>1, QueueTyped, PointTyped
<1>3. Queue[k].machine.on /\ Queue[k].generation <= generation
  BY <1>1 DEF QueueInv
<1> QED BY <1>2, <1>3

\* A command that empties the ring leaves no history.
LEMMA ClearingKeepsHistory ==
    ASSUME HistoryInv, ClearHistory, Queue' = Queue
    PROVE  /\ RingInv' /\ QueueInv'
           /\ \A k \in DOMAIN Queue' : ~ Wanted(Queue[k])'
<1>1. generation' = generation + 1 /\ ring' = <<>>
  BY DEF ClearHistory, InvalidatePending, Invalidated
<1>2. \A k \in DOMAIN Queue' :
             /\ ~ Wanted(Queue[k])'
             /\ Queue[k]'.machine.on /\ Queue[k]'.generation <= generation'
  BY <1>1, Invalidation
<1>3. DOMAIN ring' = {}
  BY <1>1
<1>4. RingInv'
  BY <1>3 DEF RingInv, Increasing
<1>5. QueueInv'
  BY <1>2 DEF QueueInv
<1> QED BY <1>2, <1>4, <1>5

\* A rewind restores the newest point of the ring; the ring that is left is its past.
LEMMA RewindingKeepsHistory ==
    ASSUME HistoryInv, TypeOK', Queue' = Queue,
           generation' = generation \/ generation' = generation + 1,
           \A k \in DOMAIN Queue' : ~ Wanted(Queue[k])',
           NEW held, RewindOnce(held)
    PROVE  /\ RingInv' /\ QueueInv'
           /\ machine' = machine \/ (machine'.on /\ Before(machine', machine))
<1>1. TypeOK /\ RingInv /\ QueueInv
  BY DEF HistoryInv
<1>2. generation \in Nat /\ ring \in Seq(Points)
  BY <1>1, QueueTyped
<1>3. QueueInv'
  <2>1. \A k \in DOMAIN Queue : Queue[k].generation \in Nat
    BY <1>1, QueueTyped, PointTyped
  <2>2. \A k \in DOMAIN Queue :
           Queue[k].machine.on /\ Queue[k].generation <= generation'
    BY <2>1, <1>1, <1>2 DEF QueueInv
  <2> QED BY <2>2 DEF QueueInv
<1>4. CASE ring = <<>>
  <2>1. machine' = machine /\ ring' = ring
    BY <1>4 DEF RewindOnce
  <2>2. RingInv'
    BY <2>1, <1>1 DEF RingInv, Increasing, Before
  <2> QED BY <2>1, <2>2, <1>3
<1>5. CASE ring # <<>>
  <2>1. machine' = ring[Len(ring)].machine /\ ring' = SubSeq(ring, 1, Len(ring) - 1)
    BY <1>5 DEF RewindOnce, Popped, Last, Front
  <2>2. Len(ring) \in DOMAIN ring /\ Len(ring) \in Nat /\ Len(ring) >= 1
    BY <1>5, <1>2
  <2>3. machine'.on /\ Before(machine', machine)
    BY <2>1, <2>2, <1>1 DEF RingInv
  <2>4. /\ DOMAIN ring' = 1 .. Len(ring) - 1
        /\ \A i \in 1 .. Len(ring) - 1 : ring'[i] = ring[i]
    BY <2>1, <2>2, <1>2
  <2>5. \A i \in 1 .. Len(ring) - 1 : i \in DOMAIN ring /\ i \in 1 .. Len(ring) - 1
    BY <1>2, <2>2
  <2>6. \A i \in DOMAIN ring' : ring'[i].machine.on /\ Before(ring'[i].machine, machine')
    BY <2>1, <2>2, <2>4, <2>5, <1>1 DEF RingInv, Increasing
  <2>7. Increasing(ring)'
    <3> SUFFICES ASSUME NEW i \in DOMAIN ring', NEW j \in 1 .. i - 1
                 PROVE  Before(ring'[j].machine, ring'[i].machine)
      BY DEF Increasing, Before
    <3>1. j \in 1 .. Len(ring) - 1 /\ i \in 1 .. Len(ring) - 1
      BY <2>4, <2>2
    <3> QED BY <3>1, <2>4, <2>5, <1>1 DEF RingInv, Increasing
  <2>8. RingInv'
    BY <2>6, <2>7 DEF RingInv, Before
  <2> QED BY <2>3, <2>8, <1>3
<1> QED BY <1>4, <1>5
\* A capture joins the queue behind everything that is wanted, and the machine goes on.
LEMMA CapturingKeepsHistory ==
    ASSUME HistoryInv, TypeOK', machine.on, UNCHANGED <<ring, generation>>,
           Queue' = Append(Queue, Point(machine)), Before(machine, machine')
    PROVE  RingInv' /\ QueueInv'
<1>1. TypeOK /\ RingInv /\ QueueInv
  BY DEF HistoryInv
<1>2. machine \in Machines /\ machine' \in Machines
  <2>1. machine \in Machines
    BY <1>1 DEF TypeOK
  <2>2. machine' \in Machines'
    BY DEF TypeOK
  <2> QED BY <2>1, <2>2 DEF Machines, Origins
<1>3. \A k \in Machines : Before(k, machine) => Before(k, machine')
  BY <1>2, BeforeLater DEF Later
<1>4. \A i \in DOMAIN ring : ring[i].machine \in Machines
  BY <1>1, QueueTyped, PointTyped
<1>5. \A k \in DOMAIN Queue : Queue[k].machine \in Machines
  BY <1>1, QueueTyped, PointTyped
<1>6. RingInv'
  <2>1. \A i \in DOMAIN ring : ring[i].machine.on /\ Before(ring[i].machine, machine')
    BY <1>1, <1>3, <1>4 DEF RingInv
  <2>2. Increasing(ring)
    BY <1>1 DEF RingInv
  <2> QED BY <2>1, <2>2 DEF RingInv, Increasing, Before
<1> DEFINE q == Append(Queue, Point(machine))
           n == Len(Queue)
<1>7. Queue \in Seq(Points) /\ n \in Nat /\ generation \in Nat
  BY <1>1, QueueTyped
<1>8. /\ DOMAIN q = 1 .. n + 1 /\ DOMAIN Queue = 1 .. n
      /\ q[n + 1].machine = machine /\ q[n + 1].generation = generation
      /\ \A k \in 1 .. n : q[k] = Queue[k]
  BY <1>7 DEF Point
<1> HIDE DEF q, n
<1>9. \A k \in DOMAIN q : q[k].machine.on /\ q[k].generation <= generation
  BY <1>1, <1>7, <1>8 DEF QueueInv
<1>10. ASSUME NEW k \in DOMAIN q, Wanted(q[k])
       PROVE  /\ Before(q[k].machine, machine')
              /\ \A i \in DOMAIN ring : Before(ring[i].machine, q[k].machine)
              /\ \A l \in 1 .. k - 1 : Wanted(q[l]) => Before(q[l].machine, q[k].machine)
  <2>1. CASE k = n + 1
    <3>1. q[k].machine = machine
      BY <1>8, <2>1
    <3>2. \A l \in 1 .. k - 1 : l \in DOMAIN Queue /\ q[l] = Queue[l]
      BY <1>7, <1>8, <2>1
    <3>3. \A l \in 1 .. k - 1 : Wanted(q[l]) => Before(q[l].machine, q[k].machine)
      BY <3>1, <3>2, <1>1 DEF QueueInv
    <3>4. \A i \in DOMAIN ring : Before(ring[i].machine, q[k].machine)
      BY <3>1, <1>1 DEF RingInv
    <3> QED BY <3>1, <3>3, <3>4
  <2>2. CASE k \in 1 .. n
    <3>1. q[k] = Queue[k] /\ k \in DOMAIN Queue
      BY <1>8, <2>2
    <3>2. \A l \in 1 .. k - 1 : q[l] = Queue[l]
      BY <1>7, <1>8, <2>2
    <3>3. Wanted(Queue[k])
      BY <3>1, <1>10
    <3>4. Before(q[k].machine, machine')
      BY <3>1, <3>3, <1>1, <1>3, <1>5 DEF QueueInv
    <3> QED BY <3>1, <3>2, <3>3, <3>4, <1>1 DEF QueueInv
  <2> QED BY <2>1, <2>2, <1>7, <1>8
<1>11. Queue' = q
  BY DEF q
<1>12. QueueInv'
  <2>1. \A k \in DOMAIN q : Wanted(q[k]) =>
           /\ Before(q[k].machine, machine')
           /\ \A i \in DOMAIN ring : Before(ring[i].machine, q[k].machine)
           /\ \A l \in 1 .. k - 1 : Wanted(q[l]) => Before(q[l].machine, q[k].machine)
    BY <1>10
  <2> QED BY <1>9, <1>11, <2>1 DEF QueueInv, Wanted, Before
<1> QED BY <1>6, <1>12

\* Collecting moves the wanted points from the front of the queue to the end of the ring.
LEMMA CollectingKeepsHistory ==
    ASSUME HistoryInv, CollectPoints
    PROVE  /\ RingInv' /\ QueueInv'
           /\ ring' \in Seq(Points) /\ Len(ring') <= RingSize
           /\ \A k \in DOMAIN Queue' : \E l \in DOMAIN Queue : Queue'[k] = Queue[l]
<1>1. TypeOK /\ RingInv /\ QueueInv
  BY DEF HistoryInv
<1> DEFINE c == Collected(points)
           r == ring \o c
           n == Len(points)
           q == worker \o captures
<1>2. /\ points \in Seq(Points) /\ worker \in Seq(Points) /\ captures \in Seq(Points)
      /\ ring \in Seq(Points) /\ Len(ring) <= RingSize
  BY <1>1 DEF TypeOK
<1>3. Embedded(c, points, n)
  BY <1>2, CollectedInOrder
<1>4. c \in Seq(Points) /\ n \in Nat
  BY <1>2, <1>3 DEF Embedded
<1>5. q \in Seq(Points)
  BY <1>2
<1>6. Queue' = q
  BY <1>5, <1>2 DEF Queue, CollectPoints
<1>7. /\ \A k \in 1 .. n : k \in DOMAIN Queue /\ Queue[k] = points[k]
      /\ \A k \in DOMAIN q : n + k \in DOMAIN Queue /\ Queue[n + k] = q[k]
      /\ \A k \in DOMAIN q : k \in Nat /\ k >= 1
  <2>1. Queue = points \o q
    BY <1>2 DEF Queue
  <2>2. Len(q) \in Nat /\ DOMAIN q = 1 .. Len(q)
    BY <1>5
  <2> HIDE DEF q
  <2> QED BY <2>1, <2>2, <1>2, <1>4, <1>5
<1>8. /\ r \in Seq(Points) /\ Len(r) = Len(ring) + Len(c)
      /\ Len(ring) \in Nat /\ Len(c) \in Nat
      /\ DOMAIN ring = 1 .. Len(ring) /\ DOMAIN c = 1 .. Len(c)
      /\ \A i \in 1 .. Len(ring) : r[i] = ring[i]
      /\ \A i \in Len(ring) + 1 .. Len(r) : i - Len(ring) \in 1 .. Len(c) /\ r[i] = c[i - Len(ring)]
  <2> HIDE DEF c
  <2> QED BY <1>2, <1>4
<1> HIDE DEF c, r, q
<1>9. \A i \in 1 .. Len(c) : \E k \in 1 .. n :
         Wanted(Queue[k]) /\ c[i] = Queue[k] /\ k \in DOMAIN Queue
  BY <1>3, <1>7, <1>8 DEF Embedded
<1>10. ASSUME NEW i \in 1 .. Len(r)
       PROVE  /\ r[i].machine.on /\ Before(r[i].machine, machine)
              /\ \A k \in DOMAIN q : Wanted(q[k]) => Before(r[i].machine, q[k].machine)
  <2>1. CASE i \in 1 .. Len(ring)
    <3>1. r[i] = ring[i] /\ i \in DOMAIN ring
      BY <2>1, <1>8
    <3>2. \A k \in DOMAIN q : Wanted(q[k]) => Before(ring[i].machine, q[k].machine)
      BY <3>1, <1>1, <1>7 DEF QueueInv
    <3> QED BY <3>1, <3>2, <1>1 DEF RingInv
  <2>2. CASE i \in Len(ring) + 1 .. Len(r)
    <3>1. PICK k \in 1 .. n : Wanted(Queue[k]) /\ r[i] = Queue[k] /\ k \in DOMAIN Queue
      BY <2>2, <1>8, <1>9
    <3>2. r[i].machine.on /\ Before(r[i].machine, machine)
      BY <3>1, <1>1 DEF QueueInv
    <3>3. ASSUME NEW l \in DOMAIN q, Wanted(q[l]) PROVE Before(r[i].machine, q[l].machine)
      <4>1. n + l \in DOMAIN Queue /\ Queue[n + l] = q[l] /\ k \in 1 .. (n + l) - 1
        BY <1>7, <1>4
      <4> QED BY <4>1, <3>1, <3>3, <1>1 DEF QueueInv
    <3> QED BY <3>2, <3>3
  <2> QED BY <2>1, <2>2, <1>8
<1>11. ASSUME NEW i \in 1 .. Len(r), NEW j \in 1 .. i - 1
       PROVE  Before(r[j].machine, r[i].machine)
  <2>1. CASE i \in 1 .. Len(ring)
    <3>1. r[i] = ring[i] /\ r[j] = ring[j] /\ i \in DOMAIN ring
      BY <2>1, <1>8
    <3> QED BY <3>1, <1>1 DEF RingInv, Increasing
  <2>2. CASE i \in Len(ring) + 1 .. Len(r) /\ j \in 1 .. Len(ring)
    <3>1. PICK k \in 1 .. n : Wanted(Queue[k]) /\ r[i] = Queue[k] /\ k \in DOMAIN Queue
      BY <2>2, <1>8, <1>9
    <3>2. r[j] = ring[j] /\ j \in DOMAIN ring
      BY <2>2, <1>8
    <3> QED BY <3>1, <3>2, <1>1 DEF QueueInv
  <2>3. CASE i \in Len(ring) + 1 .. Len(r) /\ j \in Len(ring) + 1 .. Len(r)
    <3> DEFINE x == i - Len(ring)
               y == j - Len(ring)
    <3>1. x \in DOMAIN c /\ y \in 1 .. x - 1 /\ r[i] = c[x] /\ r[j] = c[y]
      BY <2>3, <1>8
    <3> HIDE DEF x, y
    <3>2. PICK k \in 1 .. n : \E l \in 1 .. k - 1 :
            Wanted(points[k]) /\ Wanted(points[l]) /\ c[x] = points[k] /\ c[y] = points[l]
      BY <3>1, <1>3 DEF Embedded
    <3>3. PICK l \in 1 .. k - 1 :
            Wanted(points[k]) /\ Wanted(points[l]) /\ c[x] = points[k] /\ c[y] = points[l]
      BY <3>2
    <3>4. l \in 1 .. n
      BY <1>4
    <3>5. Queue[k] = points[k] /\ Queue[l] = points[l] /\ k \in DOMAIN Queue
      BY <1>7, <3>4
    <3> QED BY <3>1, <3>3, <3>5, <1>1 DEF QueueInv
  <2> QED BY <2>1, <2>2, <2>3, <1>8
<1>12. \E d \in Nat :
          /\ ring' \in Seq(Points) /\ DOMAIN ring' = 1 .. Len(ring') /\ Len(ring') <= RingSize
          /\ \A i \in 1 .. Len(ring') : d + i \in 1 .. Len(r) /\ ring'[i] = r[d + i]
  <2>1. ring' = Trimmed(r)
    BY DEF CollectPoints, r, c
  <2>2. RingSize \in Nat /\ RingSize >= 1 /\ Len(r) \in Nat
    BY PipelineParameters, <1>8
  <2>3. CASE Len(r) <= RingSize
    <3>1. ring' = r
      BY <2>1, <2>2, <2>3 DEF Trimmed
    <3>2. \A i \in 1 .. Len(ring') : 0 + i \in 1 .. Len(r) /\ ring'[i] = r[0 + i]
      BY <3>1, <2>2
    <3> QED BY <3>1, <3>2, <2>3, <1>8
  <2>4. CASE ~ (Len(r) <= RingSize)
    <3> DEFINE d == Len(r) - RingSize
    <3>1. ring' = SubSeq(r, d + 1, Len(r)) /\ d \in Nat
      BY <2>1, <2>2, <2>4 DEF Trimmed, LastN
    <3>2. ring' \in Seq(Points) /\ Len(ring') = RingSize
      BY <3>1, <2>2, <2>4, <1>8
    <3>3. \A i \in 1 .. Len(ring') : d + i \in 1 .. Len(r) /\ ring'[i] = r[d + i]
      BY <3>1, <3>2, <2>2, <2>4, <1>8
    <3>4. DOMAIN ring' = 1 .. Len(ring') /\ Len(ring') <= RingSize
      BY <3>2, <2>2
    <3> HIDE DEF d
    <3> QED BY <3>1, <3>2, <3>3, <3>4
  <2> QED BY <2>3, <2>4
<1>13. PICK d \in Nat :
          /\ ring' \in Seq(Points) /\ DOMAIN ring' = 1 .. Len(ring') /\ Len(ring') <= RingSize
          /\ \A i \in 1 .. Len(ring') : d + i \in 1 .. Len(r) /\ ring'[i] = r[d + i]
  BY <1>12
<1>14. machine' = machine /\ generation' = generation
  BY DEF CollectPoints
<1>15. RingInv'
  <2>1. \A i \in DOMAIN ring' : ring'[i].machine.on /\ Before(ring'[i].machine, machine)
    BY <1>10, <1>13
  <2>2. ASSUME NEW i \in DOMAIN ring', NEW j \in 1 .. i - 1
        PROVE  Before(ring'[j].machine, ring'[i].machine)
    <3>1. j \in 1 .. Len(ring') /\ i \in 1 .. Len(ring') /\ Len(ring') \in Nat
      BY <1>13
    <3>2. d + j \in 1 .. (d + i) - 1
      BY <3>1
    <3> QED BY <3>1, <3>2, <1>13, <1>11
  <2> QED BY <2>1, <2>2, <1>14 DEF RingInv, Increasing, Before
<1>16. QueueInv'
  <2>1. \A k \in DOMAIN q : q[k].machine.on /\ q[k].generation <= generation
    BY <1>1, <1>7 DEF QueueInv
  <2>2. ASSUME NEW k \in DOMAIN q, Wanted(q[k])
        PROVE  /\ Before(q[k].machine, machine)
               /\ \A i \in DOMAIN ring' : Before(ring'[i].machine, q[k].machine)
               /\ \A l \in 1 .. k - 1 : Wanted(q[l]) => Before(q[l].machine, q[k].machine)
    <3>1. n + k \in DOMAIN Queue /\ Queue[n + k] = q[k] /\ k \in Nat /\ DOMAIN q = 1 .. Len(q)
      BY <1>7, <1>5
    <3>2. Before(q[k].machine, machine)
      BY <3>1, <2>2, <1>1 DEF QueueInv
    <3>3. \A i \in DOMAIN ring' : Before(ring'[i].machine, q[k].machine)
      BY <2>2, <1>10, <1>13
    <3>4. ASSUME NEW l \in 1 .. k - 1, Wanted(q[l]) PROVE Before(q[l].machine, q[k].machine)
      <4>1. l \in DOMAIN q
        BY <3>1
      <4>2. n + l \in 1 .. (n + k) - 1 /\ Queue[n + l] = q[l]
        BY <4>1, <3>1, <1>4, <1>7
      <4> QED BY <4>2, <3>1, <3>4, <2>2, <1>1 DEF QueueInv
    <3> QED BY <3>2, <3>3, <3>4
  <2>3. \A k \in DOMAIN q : Wanted(q[k]) =>
               /\ Before(q[k].machine, machine)
               /\ \A i \in DOMAIN ring' : Before(ring'[i].machine, q[k].machine)
               /\ \A l \in 1 .. k - 1 : Wanted(q[l]) => Before(q[l].machine, q[k].machine)
    BY <2>2
  <2> QED BY <2>1, <2>3, <1>6, <1>14 DEF QueueInv, Wanted, Before
<1>17. \A k \in DOMAIN Queue' : \E l \in DOMAIN Queue : Queue'[k] = Queue[l]
  BY <1>6, <1>7
<1> QED BY <1>13, <1>15, <1>16, <1>17
\* The types of the fields of the machine and of the flags.
LEMMA Fields ==
    ASSUME TypeOK
    PROVE  /\ machine.past \in Seq(Origins \cup Inputs \cup {"power"})
           /\ machine.number \in Nat /\ machine.on \in BOOLEAN
           /\ app.powered \in BOOLEAN /\ app.paused \in BOOLEAN /\ app.active \in BOOLEAN
           /\ app.resume \in BOOLEAN /\ app.standard \in BOOLEAN
BY DEF TypeOK, Machines

\* The flags of the application.
AppStates == [powered : BOOLEAN, paused : BOOLEAN, active : BOOLEAN,
              resume : BOOLEAN, standard : BOOLEAN]

\* The flags of the application keep their types whatever is assigned to them.
LEMMA Assigned ==
    ASSUME NEW r \in AppStates, NEW b \in BOOLEAN
    PROVE  /\ [r EXCEPT !.powered = b] \in AppStates
           /\ [r EXCEPT !.paused = b] \in AppStates
           /\ [r EXCEPT !.active = b] \in AppStates
           /\ [r EXCEPT !.resume = b] \in AppStates
           /\ [r EXCEPT !.standard = b] \in AppStates
BY DEF AppStates

---------------------------------------------------------------------------
(* The steps. *)

\* One frame, of a console that is on, while rewind is not held.
LEMMA FrameKeepsHistory ==
    ASSUME HistoryInv, RunOneFrame, app.powered, ~ app.active,
           UNCHANGED <<ring, generation, worker, points>>,
           app' \in AppStates, ~ app'.active
    PROVE  HistoryInv'
<1>1. TypeOK /\ RingInv /\ QueueInv /\ HoldInv /\ machine.on
  BY DEF HistoryInv, HoldInv
<1>2. /\ machine.past \in Seq(Origins \cup Inputs \cup {"power"}) /\ machine.number \in Nat
      /\ machine \in Machines /\ captures \in Seq(Points) /\ Len(captures) <= Depth
      /\ points \in Seq(Points) /\ worker \in Seq(Points) /\ generation \in 0 .. MaxGeneration
  BY <1>1, Fields DEF TypeOK
<1>3. PICK input \in Inputs :
        machine' = [machine EXCEPT !.past = Append(@, input), !.number = @ + 1]
  BY <1>1 DEF RunOneFrame
<1>4. /\ machine'.past = Append(machine.past, input)
      /\ machine' \in Machines /\ machine'.on
  <2>1. machine = [past |-> machine.past, number |-> machine.number, on |-> machine.on]
    BY <1>2 DEF Machines
  <2>2. machine' = [past |-> Append(machine.past, input), number |-> machine.number + 1,
                    on |-> machine.on]
    BY <2>1, <1>3
  <2>3. Append(machine.past, input) \in Seq(Origins \cup Inputs \cup {"power"})
    BY <1>2
  <2>4. machine.on \in BOOLEAN /\ machine.number + 1 \in Nat
    BY <1>1, <1>2, Fields
  <2> QED BY <2>2, <2>3, <2>4, <1>1, Zenon DEF Machines
<1>5. Before(machine, machine')
  BY <1>2, <1>4, GoesOn
<1>6. Point(machine) \in Points
  BY <1>2 DEF Point, Points
<1>7. /\ captures' \in Seq(Points) /\ Len(captures') <= Depth
      /\ captures' = captures \/ captures' = Append(captures, Point(machine))
  <2>1. Depth \in Nat /\ Len(captures) \in Nat
    BY PipelineParameters, <1>2
  <2>2. captures' = captures \/ (Len(captures) < Depth /\ captures' = Append(captures, Point(machine)))
    BY DEF RunOneFrame, Submitted
  <2> QED BY <2>1, <2>2, <1>2, <1>6
<1>8. TypeOK'
  BY <1>1, <1>4, <1>7 DEF TypeOK, AppStates, Points, Machines, Origins
<1>9. RingInv' /\ QueueInv'
  <2>1. CASE captures' = captures
    <3>1. Queue' = Queue
      BY <2>1 DEF Queue
    <3> QED BY <3>1, <1>5, <1>8, GoingOnKeepsHistory DEF Later
  <2>2. CASE captures' = Append(captures, Point(machine))
    <3>1. Queue' = Append(Queue, Point(machine))
      <4> DEFINE front == points \o worker
                 p == Point(machine)
      <4>1. front \in Seq(Points)
        BY <1>2
      <4>2. Queue = front \o captures /\ Queue' = front \o Append(captures, p)
        BY <2>2 DEF Queue
      <4> HIDE DEF front, p
      <4>3. p \in Points
        BY <1>6 DEF p
      <4>4. front \o Append(captures, p) = Append(front \o captures, p)
        BY <4>1, <4>3, <1>2
      <4> QED BY <4>2, <4>4 DEF p
    <3> QED BY <3>1, <1>1, <1>5, <1>8, CapturingKeepsHistory
  <2> QED BY <1>7, <2>1, <2>2
<1>10. HoldInv'
  BY <1>4 DEF HoldInv
<1> QED BY <1>8, <1>9, <1>10 DEF HistoryInv

\* CollectPoints preserves the invariant.
LEMMA CollectStep == ASSUME HistoryInv, CollectPoints PROVE HistoryInv'
<1>1. TypeOK /\ HoldInv
  BY DEF HistoryInv
<1>2. /\ RingInv' /\ QueueInv'
      /\ ring' \in Seq(Points) /\ Len(ring') <= RingSize
      /\ \A k \in DOMAIN Queue' : \E l \in DOMAIN Queue : Queue'[k] = Queue[l]
  BY CollectingKeepsHistory
<1>3. TypeOK'
  <2>1. <<>> \in Seq(Points)
    OBVIOUS
  <2> QED BY <1>1, <1>2, <2>1 DEF TypeOK, CollectPoints, Points, Machines, Origins
<1>4. HoldInv'
  BY <1>1, <1>2 DEF HoldInv, CollectPoints, Wanted
<1> QED BY <1>2, <1>3, <1>4 DEF HistoryInv

\* The worker hands the points on in the order it was given them.
LEMMA WorkerStep == ASSUME HistoryInv, Receive \/ Compress PROVE HistoryInv'
<1>1. TypeOK /\ HoldInv
  BY DEF HistoryInv
<1>2. /\ points \in Seq(Points) /\ worker \in Seq(Points) /\ captures \in Seq(Points)
      /\ Len(captures) <= Depth /\ Len(captures) \in Nat /\ Depth \in Nat
  BY <1>1, PipelineParameters DEF TypeOK
<1>3. UNCHANGED <<machine, app, ring, generation>>
  BY DEF Receive, Compress
<1>4. /\ points' \in Seq(Points) /\ worker' \in Seq(Points) /\ captures' \in Seq(Points)
      /\ Len(captures') <= Depth /\ Len(worker') <= 1 /\ Queue' = Queue
  <2>1. CASE Receive
    <3>1. /\ worker = <<>> /\ captures # <<>> /\ points' = points
          /\ worker' = <<Head(captures)>> /\ captures' = Tail(captures)
      BY <2>1 DEF Receive
    <3>2. /\ Head(captures) \in Points /\ Tail(captures) \in Seq(Points)
          /\ Len(Tail(captures)) <= Depth
      BY <3>1, <1>2
    <3>3. points \o worker = points
      BY <3>1, <1>2
    <3>4. <<Head(captures)>> \in Seq(Points) /\ Len(<<Head(captures)>>) = 1
      BY <3>2
    <3>5. (points \o <<Head(captures)>>) \o Tail(captures) = points \o captures
      BY <3>1, <3>2, <1>2
    <3> QED BY <3>1, <3>2, <3>3, <3>4, <3>5, <1>2 DEF Queue
  <2>2. CASE Compress
    <3>1. points' = points \o worker /\ worker' = <<>> /\ captures' = captures
      BY <2>2 DEF Compress
    <3>2. points \o worker \in Seq(Points) /\ (points \o worker) \o <<>> = points \o worker
      BY <1>2
    <3>3. Queue' = ((points \o worker) \o <<>>) \o captures
      BY <3>1 DEF Queue
    <3>4. Queue' = Queue
      BY <3>2, <3>3 DEF Queue
    <3>5. <<>> \in Seq(Points) /\ Len(<<>>) = 0
      OBVIOUS
    <3> QED BY <3>1, <3>2, <3>4, <3>5, <1>2
  <2> QED BY <2>1, <2>2
<1>5. TypeOK'
  BY <1>1, <1>3, <1>4 DEF TypeOK, Points, Machines, Origins
<1>6. RingInv' /\ QueueInv'
  BY <1>3, <1>4, <1>5, GoingOnKeepsHistory DEF Later
<1>7. HoldInv'
  BY <1>1, <1>3, <1>4 DEF HoldInv, Wanted
<1> QED BY <1>5, <1>6, <1>7 DEF HistoryInv

\* A console as it is created, reset or loaded is a machine,
LEMMA FreshAsBuilt ==
    ASSUME NEW o \in Origins PROVE Fresh(o) \in Machines /\ Fresh(o).on
<1>1. <<o>> \in Seq(Origins \cup Inputs \cup {"power"}) /\ 0 \in Nat /\ TRUE \in BOOLEAN
  OBVIOUS
<1>2. Fresh(o) \in Machines
  BY <1>1, Zenon DEF Machines, Fresh
<1> QED BY <1>2 DEF Fresh

\* and still is with the frame number and the power of the slot.
LEMMA FreshMachine ==
    ASSUME NEW o \in Origins, NEW n \in Nat, NEW b \in BOOLEAN
    PROVE  [Fresh(o) EXCEPT !.number = n, !.on = b] \in Machines
<1>1. \A m \in Machines : [m EXCEPT !.number = n, !.on = b] \in Machines
  BY DEF Machines
<1> QED BY <1>1, FreshAsBuilt

\* A command that empties the ring, whatever it does to the machine.
LEMMA ClearingStep ==
    ASSUME HistoryInv, ClearHistory, UNCHANGED <<captures, worker, points>>,
           machine' \in Machines, app' \in AppStates, app'.powered => machine'.on
    PROVE  HistoryInv'
<1>1. TypeOK
  BY DEF HistoryInv
<1>2. Queue' = Queue
  BY DEF Queue
<1>3. /\ RingInv' /\ QueueInv'
      /\ \A k \in DOMAIN Queue' : ~ Wanted(Queue[k])'
  BY <1>2, ClearingKeepsHistory
<1>4. TypeOK'
  <2>1. ring' = <<>> /\ generation' = generation + 1 /\ generation < MaxGeneration
    BY DEF ClearHistory, InvalidatePending, Invalidated
  <2>2. generation' \in 0 .. MaxGeneration
    BY <2>1, <1>1, PipelineParameters DEF TypeOK
  <2>3. ring' \in Seq(Points) /\ Len(ring') <= RingSize
    BY <2>1, PipelineParameters
  <2> QED BY <1>1, <2>2, <2>3 DEF TypeOK, AppStates, Points, Machines, Origins
<1>5. HoldInv'
  BY <1>3 DEF HoldInv
<1> QED BY <1>3, <1>4, <1>5 DEF HistoryInv

\* A rewind step, of a queue none of which is wanted any more.
LEMMA RewindingStep ==
    ASSUME HistoryInv, UNCHANGED <<captures, worker, points>>,
           \/ generation' = generation /\ app.active
           \/ InvalidatePending,
           NEW held \in AppStates, RewindOnce(held), held.powered => app.powered
    PROVE  HistoryInv'
<1>1. TypeOK /\ HoldInv
  BY DEF HistoryInv
<1>2. Queue' = Queue
  BY DEF Queue
<1>3. /\ generation' = generation \/ generation' = generation + 1
      /\ generation' \in 0 .. MaxGeneration
  <2>1. CASE generation' = generation
    BY <2>1, <1>1 DEF TypeOK
  <2>2. CASE InvalidatePending
    BY <2>2, <1>1, PipelineParameters DEF TypeOK, InvalidatePending, Invalidated
  <2> QED BY <2>1, <2>2
<1>4. \A k \in DOMAIN Queue' : ~ Wanted(Queue[k])'
  <2>1. CASE generation' = generation /\ app.active
    BY <2>1, <1>1, <1>2 DEF HoldInv, Wanted
  <2>2. CASE InvalidatePending
    BY <2>2, <1>2, Invalidation DEF InvalidatePending, Invalidated
  <2> QED BY <2>1, <2>2
<1>5. /\ machine' \in Machines /\ ring' \in Seq(Points) /\ Len(ring') <= RingSize
      /\ app' \in AppStates /\ app'.powered = held.powered
  <2>0. machine \in Machines /\ ring \in Seq(Points) /\ Len(ring) <= RingSize
    BY <1>1 DEF TypeOK
  <2>1. CASE ring = <<>>
    BY <2>0, <2>1 DEF RewindOnce
  <2>2. CASE ring # <<>>
    <3>1. /\ machine' = ring[Len(ring)].machine /\ ring' = SubSeq(ring, 1, Len(ring) - 1)
          /\ app' = [held EXCEPT !.paused = TRUE]
      BY <2>2 DEF RewindOnce, Popped, Last, Front
    <3>2. Len(ring) \in DOMAIN ring /\ Len(ring) \in Nat /\ Len(ring) >= 1 /\ RingSize \in Nat
      BY <2>0, <2>2, PipelineParameters
    <3>3. machine' \in Machines
      BY <3>1, <3>2, <1>1, QueueTyped, PointTyped
    <3>4. ring' \in Seq(Points) /\ Len(ring') = Len(ring) - 1
      <4> DEFINE n == Len(ring) - 1
      <4>1. n \in Nat /\ n <= Len(ring)
        BY <3>2
      <4> HIDE DEF n
      <4>2. SubSeq(ring, 1, n) \in Seq(Points) /\ Len(SubSeq(ring, 1, n)) = n
        BY <4>1, <2>0
      <4> QED BY <4>2, <3>1 DEF n
    <3>5. app' \in AppStates
      <4>1. TRUE \in BOOLEAN
        OBVIOUS
      <4> QED BY <4>1, <3>1, Assigned, Zenon
    <3>6. app'.powered = held.powered
      BY <3>1 DEF AppStates
    <3> QED BY <3>2, <3>3, <3>4, <3>5, <3>6, <2>0
  <2> QED BY <2>1, <2>2
<1>6. TypeOK'
  BY <1>1, <1>3, <1>5 DEF TypeOK, AppStates, Points, Machines, Origins
<1>7. /\ RingInv' /\ QueueInv'
      /\ machine' = machine \/ (machine'.on /\ Before(machine', machine))
  BY <1>2, <1>3, <1>4, <1>6, RewindingKeepsHistory
<1>8. HoldInv'
  BY <1>1, <1>4, <1>5, <1>7 DEF HoldInv
<1> QED BY <1>6, <1>7, <1>8 DEF HistoryInv

\* The other commands change flags or switch the machine, and go on from where it is.
LEMMA CommandStep ==
    ASSUME HistoryInv, UNCHANGED <<ring, generation, captures, worker, points>>,
           machine' \in Machines, app' \in AppStates, Later(machine, machine'),
           app'.powered => machine'.on, app'.active => app.active
    PROVE  HistoryInv'
<1>1. TypeOK /\ HoldInv
  BY DEF HistoryInv
<1>2. TypeOK'
  BY <1>1 DEF TypeOK, AppStates, Points, Machines, Origins
<1>3. Queue' = Queue
  BY DEF Queue
<1>4. RingInv' /\ QueueInv'
  BY <1>2, <1>3, GoingOnKeepsHistory
<1>5. HoldInv'
  BY <1>1, <1>3 DEF HoldInv, Wanted
<1> QED BY <1>2, <1>4, <1>5 DEF HistoryInv

\* What switching the console and loading a slot assign.
LEMMA PowerAssigned ==
    ASSUME NEW r \in AppStates, NEW b \in BOOLEAN, NEW c \in BOOLEAN
    PROVE  /\ [r EXCEPT !.powered = b, !.paused = c] \in AppStates
           /\ [r EXCEPT !.powered = b, !.paused = c].powered = b
           /\ [r EXCEPT !.powered = b, !.paused = c].active = r.active
           /\ [r EXCEPT !.paused = c, !.powered = b] \in AppStates
           /\ [r EXCEPT !.paused = c, !.powered = b].powered = b
BY DEF AppStates

\* What the rewind key assigns.
LEMMA HoldAssigned ==
    ASSUME NEW r \in AppStates, NEW b \in BOOLEAN, NEW c \in BOOLEAN, NEW d \in BOOLEAN
    PROVE  /\ [r EXCEPT !.active = b, !.resume = c, !.paused = d] \in AppStates
           /\ [r EXCEPT !.active = b, !.resume = c, !.paused = d].powered = r.powered
           /\ [r EXCEPT !.active = b, !.resume = c, !.paused = d].active = b
BY DEF AppStates

\* What leaving standard play assigns.
LEMMA ModeAssigned ==
    ASSUME NEW r \in AppStates, NEW b \in BOOLEAN, NEW c \in BOOLEAN, NEW d \in BOOLEAN,
           NEW e \in BOOLEAN
    PROVE  LET n == [r EXCEPT !.standard = b, !.active = c, !.resume = d, !.paused = e]
           IN  n \in AppStates /\ n.powered = r.powered
BY DEF AppStates

\* Every step preserves the invariant.
LEMMA HistoryStep ==
    ASSUME HistoryInv, [Next]_vars, StepsWhileHeld = FALSE
    PROVE  HistoryInv'
<1>1. TypeOK /\ HoldInv /\ RingInv /\ QueueInv
  BY DEF HistoryInv
<1>2. /\ machine \in Machines /\ app \in AppStates
      /\ app.powered \in BOOLEAN /\ app.paused \in BOOLEAN /\ app.active \in BOOLEAN
      /\ app.resume \in BOOLEAN /\ app.standard \in BOOLEAN /\ machine.on \in BOOLEAN
      /\ app.powered => machine.on
  BY <1>1, Fields DEF TypeOK, AppStates, HoldInv
<1>3. TRUE \in BOOLEAN /\ FALSE \in BOOLEAN
  OBVIOUS
<1>4. CASE CollectPoints
  BY <1>4, CollectStep
<1>5. CASE Receive \/ Compress
  BY <1>5, WorkerStep
<1>6. CASE Tick
  <2>1. RunOneFrame /\ app.powered /\ ~app.active /\ UNCHANGED <<app, ring, generation, worker, points>>
    BY <1>6 DEF Tick
  <2> QED BY <2>1, <1>2, FrameKeepsHistory
<1>7. CASE FrameAdvance
  <2>1. /\ RunOneFrame /\ app.powered /\ ~app.active
        /\ UNCHANGED <<ring, generation, worker, points>>
        /\ app' = [app EXCEPT !.paused = TRUE]
    BY <1>7, StepsWhileHeld = FALSE DEF FrameAdvance
  <2>2. app' \in AppStates
    BY <2>1, <1>2, <1>3, Assigned, Zenon
  <2>3. ~ app'.active
    BY <2>1, <1>2 DEF AppStates
  <2> QED BY <2>1, <2>2, <2>3, FrameKeepsHistory
<1>8. CASE HoldStart
  <2> DEFINE held == [app EXCEPT !.active = TRUE, !.resume = ~app.paused, !.paused = TRUE]
  <2>1. InvalidatePending /\ RewindOnce(held) /\ UNCHANGED <<captures, worker, points>>
    BY <1>8 DEF HoldStart
  <2>2. (~app.paused) \in BOOLEAN
    BY <1>2
  <2>3. held \in AppStates /\ held.powered = app.powered
    BY <1>2, <1>3, <2>2, HoldAssigned, Zenon
  <2> HIDE DEF held
  <2> QED BY <2>1, <2>3, RewindingStep
<1>9. CASE HoldStep
  BY <1>9, <1>2, RewindingStep DEF HoldStep
<1>10. CASE RewindStep
  BY <1>10, <1>2, RewindingStep DEF RewindStep
<1>11. CASE Release
  <2> DEFINE p == IF app.resume /\ app.powered THEN FALSE ELSE app.paused
  <2>1. /\ app' = [app EXCEPT !.active = FALSE, !.resume = FALSE, !.paused = p]
        /\ UNCHANGED <<machine, ring, generation, captures, worker, points>>
    BY <1>11 DEF Release
  <2>2. p \in BOOLEAN
    BY <1>2
  <2> HIDE DEF p
  <2> DEFINE n == [app EXCEPT !.active = FALSE, !.resume = FALSE, !.paused = p]
  <2>3. n \in AppStates /\ n.powered = app.powered /\ n.active = FALSE
    BY <2>2, <1>2, <1>3, HoldAssigned
  <2> HIDE DEF n
  <2>4. app' \in AppStates /\ app'.powered = app.powered /\ ~ app'.active
    BY <2>1, <2>3 DEF n
  <2> QED BY <2>1, <2>4, <1>2, CommandStep DEF Later
<1>12. CASE TogglePause
  <2>1. /\ app' = app \/ app' = [app EXCEPT !.paused = ~app.paused]
        /\ UNCHANGED <<machine, ring, generation, captures, worker, points>>
    BY <1>12 DEF TogglePause
  <2>2. (~app.paused) \in BOOLEAN
    BY <1>2
  <2>3. app' \in AppStates
    BY <2>1, <2>2, <1>2, Assigned, Zenon
  <2>4. app'.powered = app.powered /\ app'.active = app.active
    BY <2>1, <1>2 DEF AppStates
  <2> QED BY <2>1, <2>3, <2>4, <1>2, CommandStep DEF Later
<1>13. CASE Reset
  <2>1. /\ machine' = Fresh("reset") /\ app' = [app EXCEPT !.powered = TRUE, !.paused = FALSE]
        /\ ClearHistory /\ UNCHANGED <<captures, worker, points>>
    BY <1>13 DEF Reset
  <2>2. app' \in AppStates
    BY <2>1, <1>2, <1>3, PowerAssigned, Zenon
  <2>3. "reset" \in Origins
    BY DEF Origins
  <2>4. machine' \in Machines /\ machine'.on
    BY <2>1, <2>3, FreshAsBuilt, Zenon
  <2> QED BY <2>1, <2>2, <2>4, ClearingStep
<1>14. CASE TogglePower
  <2>1. UNCHANGED <<ring, generation, captures, worker, points>>
    BY <1>14 DEF TogglePower
  <2>2. CASE app.powered
    <3>1. /\ machine' = [machine EXCEPT !.on = FALSE]
          /\ app' = [app EXCEPT !.powered = FALSE, !.paused = TRUE]
      BY <2>2, <1>14 DEF TogglePower
    <3>2. app' \in AppStates /\ app'.powered = FALSE /\ app'.active = app.active
      BY <3>1, <1>2, <1>3, PowerAssigned, Zenon
    <3>3. \A b \in BOOLEAN : [machine EXCEPT !.on = b] \in Machines
                             /\ [machine EXCEPT !.on = b].past = machine.past
      BY <1>2 DEF Machines
    <3>4. machine' \in Machines /\ machine'.past = machine.past
      BY <3>1, <3>3, <1>3, Zenon
    <3> QED BY <3>2, <3>4, <2>1, CommandStep DEF Later
  <2>3. CASE ~ app.powered
    <3>1. app' = [app EXCEPT !.powered = TRUE, !.paused = FALSE]
      BY <2>3, <1>14 DEF TogglePower
    <3>2. app' \in AppStates /\ app'.active = app.active
      BY <3>1, <1>2, <1>3, PowerAssigned, Zenon
    <3>3. CASE machine.on
      <4>1. machine' = machine
        BY <2>3, <3>3, <1>14 DEF TogglePower
      <4> QED BY <4>1, <3>2, <3>3, <1>2, <2>1, CommandStep DEF Later
    <3>4. CASE ~ machine.on
      <4>1. machine' = [past |-> Append(machine.past, "power"), number |-> 0, on |-> TRUE]
        BY <2>3, <3>4, <1>14 DEF TogglePower
      <4>2. /\ Append(machine.past, "power") \in Seq(Origins \cup Inputs \cup {"power"})
            /\ 0 \in Nat
        BY <1>1, Fields
      <4>3. machine' \in Machines
        BY <4>1, <4>2, <1>3, Zenon DEF Machines
      <4>4. machine'.past = Append(machine.past, "power") /\ machine'.on
        BY <4>1
      <4>5. Later(machine, machine')
        BY <4>3, <4>4, <1>2, GoesOn DEF Later
      <4> QED BY <4>3, <4>4, <4>5, <3>2, <2>1, CommandStep
    <3> QED BY <3>3, <3>4
  <2> QED BY <2>2, <2>3
<1>15. CASE QuickLoad
  <2>1. PICK n \in 0 .. 1, on \in BOOLEAN :
           /\ machine' = [Fresh("slot") EXCEPT !.number = n, !.on = on]
           /\ app' = [app EXCEPT !.paused = TRUE, !.powered = on]
    BY <1>15 DEF QuickLoad
  <2>2. ClearHistory /\ UNCHANGED <<captures, worker, points>>
    BY <1>15 DEF QuickLoad
  <2>3. app' \in AppStates /\ app'.powered = on
    <3>1. on \in BOOLEAN
      OBVIOUS
    <3> QED BY <3>1, <2>1, <1>2, <1>3, PowerAssigned
  <2>4. "slot" \in Origins
    BY DEF Origins
  <2>5. machine' \in Machines
    <3>1. n \in Nat
      OBVIOUS
    <3> QED BY <3>1, <2>1, <2>4, FreshMachine, Zenon
  <2>6. machine'.on = on
    <3>1. \A m \in Machines : [m EXCEPT !.number = n, !.on = on].on = on
      BY DEF Machines
    <3>2. Fresh("slot") \in Machines
      BY <2>4, FreshAsBuilt
    <3> QED BY <3>1, <3>2, <2>1
  <2> QED BY <2>2, <2>3, <2>5, <2>6, ClearingStep
<1>16. CASE ApplyCheats
  BY <1>16, <1>2, ClearingStep DEF ApplyCheats
<1>17. CASE SwitchMode
  <2> DEFINE p == IF app.powered THEN FALSE ELSE app.paused
             n == [app EXCEPT !.standard = FALSE, !.active = FALSE, !.resume = FALSE, !.paused = p]
             t == [app EXCEPT !.standard = TRUE]
  <2>1. /\ app' = n \/ app' = t
        /\ ClearHistory /\ UNCHANGED <<machine, captures, worker, points>>
    BY <1>17 DEF SwitchMode
  <2>2. p \in BOOLEAN
    BY <1>2
  <2> HIDE DEF p
  <2>3. n \in AppStates /\ n.powered = app.powered
    BY <2>2, <1>2, <1>3, ModeAssigned
  <2>4. t \in AppStates
    BY <1>2, <1>3, Assigned, Zenon
  <2>5. t.powered = app.powered
    BY <1>2 DEF AppStates
  <2> HIDE DEF n, t
  <2> QED BY <2>1, <2>3, <2>4, <2>5, <1>2, ClearingStep
<1>18. CASE UNCHANGED vars
  BY <1>18, <1>2, CommandStep DEF vars, Later
<1> QED BY <1>4, <1>5, <1>6, <1>7, <1>8, <1>9, <1>10, <1>11, <1>12, <1>13, <1>14, <1>15,
           <1>16, <1>17, <1>18 DEF Next

\* The invariant holds when the console is started.
LEMMA HistoryAtStart == Init => HistoryInv
<1> SUFFICES ASSUME Init PROVE HistoryInv
  OBVIOUS
<1>1. "boot" \in Origins
  BY DEF Origins
<1>2. machine \in Machines /\ machine.on
  BY <1>1, FreshAsBuilt, Zenon DEF Init
<1>3. TypeOK
  <2>1. <<>> \in Seq(Points) /\ Len(<<>>) = 0 /\ 0 \in 0 .. MaxGeneration /\ RingSize \in Nat /\ Depth \in Nat
    BY PipelineParameters
  <2>2. \A p, q, r, s, t \in BOOLEAN :
           [powered |-> p, paused |-> q, active |-> r, resume |-> s, standard |-> t] \in AppStates
    BY DEF AppStates
  <2>3. TRUE \in BOOLEAN /\ FALSE \in BOOLEAN
    OBVIOUS
  <2>4. app \in AppStates
    BY <2>2, <2>3, Zenon DEF Init
  <2> QED BY <2>1, <2>4, <1>2 DEF TypeOK, Init, AppStates
<1>4. Queue = <<>> /\ DOMAIN Queue = {} /\ DOMAIN ring = {}
  BY DEF Init, Queue
<1>5. HoldInv /\ RingInv /\ QueueInv
  BY <1>2, <1>4 DEF Init, HoldInv, RingInv, QueueInv, Increasing
<1> QED BY <1>3, <1>5 DEF HistoryInv

\* The invariant holds as long as no frames are advanced while rewind is held.
LEMMA HistoryInvariant == StepsWhileHeld = FALSE => (Spec => []HistoryInv)
<1> SUFFICES ASSUME StepsWhileHeld = FALSE PROVE Spec => []HistoryInv
  OBVIOUS
<1>1. Init => HistoryInv
  BY HistoryAtStart
<1>2. HistoryInv /\ [Next]_vars => HistoryInv'
  BY HistoryStep
<1> QED BY <1>1, <1>2, PTL DEF Spec

---------------------------------------------------------------------------
(* What follows. *)

\* What may still come into the ring is, in the same order, what of the queue is wanted.
LEMMA HistoryIsPast == ASSUME HistoryInv PROVE RingIsPast
<1>1. TypeOK /\ RingInv /\ QueueInv
  BY DEF HistoryInv
<1> DEFINE c == Collected(Queue)
           n == Len(Queue)
<1>2. Queue \in Seq(Points) /\ ring \in Seq(Points) /\ DOMAIN Queue = 1 .. n /\ n \in Nat
  BY <1>1, QueueTyped
<1>3. Embedded(c, Queue, n)
  BY <1>2, CollectedInOrder
<1>4. c \in Seq(Points)
  BY <1>3 DEF Embedded
<1>5. Pipeline = ring \o c
  BY DEF Pipeline, Queue
<1> HIDE DEF c, n
<1>6. /\ DOMAIN Pipeline = 1 .. Len(ring) + Len(c)
      /\ Len(ring) \in Nat /\ Len(c) \in Nat
      /\ DOMAIN ring = 1 .. Len(ring) /\ DOMAIN c = 1 .. Len(c)
      /\ \A i \in 1 .. Len(ring) : Pipeline[i] = ring[i]
      /\ \A i \in Len(ring) + 1 .. Len(ring) + Len(c) :
             i - Len(ring) \in 1 .. Len(c) /\ Pipeline[i] = c[i - Len(ring)]
  BY <1>2, <1>4, <1>5
<1>7. \A x \in 1 .. Len(c) : \E k \in DOMAIN Queue : Wanted(Queue[k]) /\ c[x] = Queue[k]
  BY <1>2, <1>3, <1>6 DEF Embedded
<1>8. ASSUME NEW i \in DOMAIN Pipeline PROVE Before(Pipeline[i].machine, machine)
  <2>1. CASE i \in 1 .. Len(ring)
    BY <2>1, <1>1, <1>6 DEF RingInv
  <2>2. CASE i \in Len(ring) + 1 .. Len(ring) + Len(c)
    <3>1. PICK k \in DOMAIN Queue : Wanted(Queue[k]) /\ Pipeline[i] = Queue[k]
      BY <2>2, <1>6, <1>7
    <3> QED BY <3>1, <1>1 DEF QueueInv
  <2> QED BY <2>1, <2>2, <1>6
<1>9. ASSUME NEW i \in DOMAIN Pipeline, NEW j \in 1 .. i - 1
      PROVE  Before(Pipeline[j].machine, Pipeline[i].machine)
  <2>1. CASE i \in 1 .. Len(ring)
    <3>1. Pipeline[i] = ring[i] /\ Pipeline[j] = ring[j] /\ i \in DOMAIN ring
      BY <2>1, <1>6
    <3> QED BY <3>1, <1>1 DEF RingInv, Increasing
  <2>2. CASE i \in Len(ring) + 1 .. Len(ring) + Len(c) /\ j \in 1 .. Len(ring)
    <3>1. PICK k \in DOMAIN Queue : Wanted(Queue[k]) /\ Pipeline[i] = Queue[k]
      BY <2>2, <1>6, <1>7
    <3>2. Pipeline[j] = ring[j] /\ j \in DOMAIN ring
      BY <2>2, <1>6
    <3> QED BY <3>1, <3>2, <1>1 DEF QueueInv
  <2>3. CASE /\ i \in Len(ring) + 1 .. Len(ring) + Len(c)
             /\ j \in Len(ring) + 1 .. Len(ring) + Len(c)
    <3> DEFINE x == i - Len(ring)
               y == j - Len(ring)
    <3>1. x \in DOMAIN c /\ y \in 1 .. x - 1 /\ Pipeline[i] = c[x] /\ Pipeline[j] = c[y]
      BY <2>3, <1>6
    <3> HIDE DEF x, y
    <3>2. PICK k \in 1 .. n : \E l \in 1 .. k - 1 :
            Wanted(Queue[k]) /\ Wanted(Queue[l]) /\ c[x] = Queue[k] /\ c[y] = Queue[l]
      BY <3>1, <1>3 DEF Embedded
    <3> QED BY <3>1, <3>2, <1>1, <1>2 DEF QueueInv
  <2> QED BY <2>1, <2>2, <2>3, <1>6
<1> QED BY <1>8, <1>9 DEF RingIsPast

\* Every point that is or can come into the ring is a strictly earlier state of the
\* running console, in order: no worker, command or load lets an abandoned timeline in.
THEOREM RewindsReachThePast == StepsWhileHeld = FALSE => (Spec => []RingIsPast)
<1> SUFFICES ASSUME StepsWhileHeld = FALSE PROVE Spec => []RingIsPast
  OBVIOUS
<1>1. HistoryInv => RingIsPast
  BY HistoryIsPast
<1> QED BY <1>1, HistoryInvariant, PTL

\* A rewind step restores what was before, or does nothing.
LEMMA RewindingGoesBack ==
    ASSUME HistoryInv, Rewinding PROVE machine' = machine \/ Before(machine', machine)
<1>1. PICK held : RewindOnce(held)
  BY DEF Rewinding, HoldStart, HoldStep, RewindStep
<1>2. RingInv /\ ring \in Seq(Points)
  BY DEF HistoryInv, TypeOK
<1>3. CASE ring = <<>>
  BY <1>1, <1>3 DEF RewindOnce
<1>4. CASE ring # <<>>
  <2>1. machine' = ring[Len(ring)].machine
    BY <1>1, <1>4 DEF RewindOnce, Popped, Last
  <2>2. Len(ring) \in DOMAIN ring
    BY <1>2, <1>4
  <2> QED BY <2>1, <2>2, <1>2 DEF RingInv
<1> QED BY <1>3, <1>4

\* A rewind step never moves the console forward or to another timeline.
THEOREM RewindsGoBack == StepsWhileHeld = FALSE => (Spec => RewindGoesBack)
<1> SUFFICES ASSUME StepsWhileHeld = FALSE PROVE Spec => RewindGoesBack
  OBVIOUS
<1>1. HistoryInv => [Rewinding => machine' = machine \/ Before(machine', machine)]_vars
  BY RewindingGoesBack
<1> QED BY <1>1, HistoryInvariant, PTL DEF RewindGoesBack
=============================================================================
