---------------------------- MODULE TopicTheorems ----------------------------
(***************************************************************************)
(* What the proofs of several models need: facts about publishing to a     *)
(* topic and taking its oldest sample, and about natural numbers.          *)
(***************************************************************************)
EXTENDS Topics, Integers, SequenceTheorems, WellFoundedInduction, TLAPS

\* A published sample keeps the type of the queue and its bound.
LEMMA PublishType ==
  ASSUME NEW M, NEW q \in Seq(M), NEW m \in M, NEW depth \in Nat \ {0}, Len(q) <= depth
  PROVE  /\ Publish(q, m, depth) \in Seq(M)
         /\ Len(Publish(q, m, depth)) <= depth
         /\ Publish(q, m, depth) # <<>>
<1>1. CASE Len(q) < depth
  <2>1. Append(q, m) \in Seq(M) /\ Len(Append(q, m)) = Len(q) + 1
    BY AppendProperties
  <2> QED BY <1>1, <2>1 DEF Publish
<1>2. CASE ~(Len(q) < depth)
  <2>1. q # <<>> /\ Len(q) = depth
    BY <1>2, EmptySeq
  <2>2. Tail(q) \in Seq(M) /\ Len(Tail(q)) = Len(q) - 1
    BY <2>1, HeadTailProperties
  <2>3. Append(Tail(q), m) \in Seq(M) /\ Len(Append(Tail(q), m)) = depth
    BY <2>1, <2>2, AppendProperties
  <2> QED BY <1>2, <2>3 DEF Publish
<1> QED BY <1>1, <1>2

\* Delivering the oldest sample of a queue.
LEMMA DeliverType ==
  ASSUME NEW M, NEW q \in Seq(M), q # <<>>
  PROVE  /\ Head(q) \in M
         /\ Tail(q) \in Seq(M)
         /\ Len(Tail(q)) = Len(q) - 1
  BY HeadTailProperties

\* A queue is not empty after a publication, whatever it holds.
LEMMA PublishNotEmpty ==
  ASSUME NEW q, NEW m, NEW depth
  PROVE  Publish(q, m, depth) # <<>>
  BY DEF Publish

\* After publishing, m is last, and what else waits is the old queue without,
\* perhaps, its oldest sample.
LEMMA PublishElements ==
  ASSUME NEW M, NEW q \in Seq(M), NEW m \in M, NEW depth \in Nat \ {0}, Len(q) <= depth,
         NEW p, p = Publish(q, m, depth)
  PROVE  /\ Len(p) \in 1..depth
         /\ p[Len(p)] = m
         /\ \E k \in {0, 1} : \A i \in 1..Len(p) - 1 : i + k \in 1..Len(q) /\ p[i] = q[i + k]
<1>0. Len(q) \in Nat
  BY LenProperties
<1>1. CASE Len(q) < depth
  <2>1. p = Append(q, m)
    BY <1>1 DEF Publish
  <2>2. Len(p) = Len(q) + 1 /\ \A i \in 1..Len(q) : p[i] = q[i]
    BY <2>1, AppendProperties
  <2>3. p[Len(p)] = m
    BY <2>1, <2>2, AppendProperties
  <2>4. \A i \in 1..Len(p) - 1 : i + 0 \in 1..Len(q) /\ p[i] = q[i + 0]
    BY <1>0, <2>2
  <2> QED BY <1>0, <1>1, <2>2, <2>3, <2>4
<1>2. CASE ~(Len(q) < depth)
  <2>1. q # <<>> /\ Len(q) = depth
    BY <1>0, <1>2, EmptySeq
  <2> DEFINE r == Tail(q)
  <2>2. r \in Seq(M) /\ Len(r) = Len(q) - 1 /\ \A i \in 1..Len(r) : r[i] = q[i + 1]
    BY <2>1, HeadTailProperties
  <2>3. p = Append(r, m)
    BY <1>2 DEF Publish
  <2> HIDE DEF r
  <2>4. Len(p) = Len(r) + 1 /\ \A i \in 1..Len(r) : p[i] = r[i]
    BY <2>2, <2>3, AppendProperties
  <2>5. p[Len(p)] = m
    BY <2>2, <2>3, <2>4, AppendProperties
  <2>6. \A i \in 1..Len(p) - 1 : i + 1 \in 1..Len(q) /\ p[i] = q[i + 1]
    BY <1>0, <2>2, <2>4
  <2> QED BY <1>0, <2>1, <2>2, <2>4, <2>5, <2>6
<1> QED BY <1>1, <1>2

LEMMA PublishRange ==
  ASSUME NEW M, NEW q \in Seq(M), NEW m \in M, NEW depth \in Nat \ {0}, Len(q) <= depth,
         NEW p, p = Publish(q, m, depth)
  PROVE  \A i \in 1..Len(p) : p[i] = m \/ \E j \in 1..Len(q) : p[i] = q[j]
<1>1. Len(p) \in 1..depth /\ p[Len(p)] = m
  BY PublishElements
<1>2. PICK k \in {0, 1} : \A i \in 1..Len(p) - 1 : i + k \in 1..Len(q) /\ p[i] = q[i + k]
  BY PublishElements
<1> QED BY <1>1, <1>2

\* What waits after a delivery waited one place behind before.
LEMMA DeliverElements ==
  ASSUME NEW M, NEW q \in Seq(M), q # <<>>
  PROVE  /\ 1 \in 1..Len(q)
         /\ Head(q) = q[1]
         /\ \A i \in 1..Len(Tail(q)) : i + 1 \in 1..Len(q) /\ Tail(q)[i] = q[i + 1]
<1>1. Len(q) \in Nat \ {0} /\ Head(q) = q[1]
  BY LenProperties, EmptySeq, HeadTailProperties
<1>2. Len(Tail(q)) = Len(q) - 1 /\ \A i \in 1..Len(Tail(q)) : Tail(q)[i] = q[i + 1]
  BY HeadTailProperties
<1> QED BY <1>1, <1>2

-----------------------------------------------------------------------------
\* Quotient and remainder determine a number, and are determined by it.
LEMMA DivMod ==
  ASSUME NEW n \in Nat, NEW d \in Nat \ {0}
  PROVE  /\ n \div d \in Nat /\ n % d \in 0..d - 1
         /\ n = d * (n \div d) + (n % d)
  OBVIOUS

LEMMA DivModUnique ==
  ASSUME NEW d \in Nat \ {0}, NEW q \in Nat, NEW p \in Nat,
         NEW r \in 0..d - 1, NEW s \in 0..d - 1,
         d * q + r = d * p + s
  PROVE  q = p /\ r = s
<1>1. \A a, b \in Nat : a < b => d * a + d <= d * b
  <2>1. SUFFICES ASSUME NEW a \in Nat, NEW b \in Nat, a < b PROVE d * a + d <= d * b
    OBVIOUS
  <2>2. PICK c \in Nat : b = a + 1 + c
    <3>1. b - a - 1 \in Nat /\ b = a + 1 + (b - a - 1)
      BY <2>1
    <3> QED BY <3>1
  <2>3. d * b = d * a + d + d * c /\ d * c \in Nat /\ d * a \in Nat
    BY <2>2
  <2> QED BY <2>3
<1>2. d * q \in Nat /\ d * p \in Nat
  OBVIOUS
<1>3. ~(q < p) /\ ~(p < q)
  BY <1>1, <1>2
<1> QED BY <1>2, <1>3

\* Sets of natural numbers have a least element: what induction rests on, in a
\* form without operators as parameters.
Less == {pair \in Nat \X Nat : pair[1] < pair[2]}

LEMMA LeastNumber ==
  ASSUME NEW S \in SUBSET Nat, S # {}
  PROVE  \E i \in S : \A j \in S : i <= j
<1>1. IsWellFoundedOn(Less, Nat)
  BY NatLessThanWellFounded, Zenon DEF OpToRel, Less
<1>2. PICK i \in S : \A j \in S : <<j, i>> \notin Less
  BY <1>1, WFMin, Zenon
<1>3. \A j \in S : ~(j < i)
  BY <1>2 DEF Less
<1> QED BY <1>3
=============================================================================
