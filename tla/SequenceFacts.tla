----------------------------- MODULE SequenceFacts -----------------------------
(***************************************************************************)
(* What the proofs need to know of the operators on queues: that Without,  *)
(* a recursive function of the length of its queue, keeps exactly the      *)
(* requests it should, once and in order, whatever the queue holds; and    *)
(* how often a message is found in what a client was told. The library has *)
(* its induction theorems for operators only; here a set takes the part of *)
(* the operator.                                                           *)
(***************************************************************************)
EXTENDS QueueOps, Integers, SequencesExt, SequenceTheorems, FiniteSetTheorems,
        WellFoundedInduction, TLAPS

-------------------------------------------------------------------------------
(* Recursion over a bounded interval *)

(***************************************************************************)
(* Induction up to n, for membership in a set: the well-founded order of   *)
(* the naturals gives a least index that is not in P, which is neither 0   *)
(* nor a successor.                                                        *)
(***************************************************************************)
LEMMA SetInduction ==
  ASSUME NEW n \in Nat, NEW P, 0 \in P,
         \A i \in 0..(n - 1) : i \in P => i + 1 \in P
  PROVE  \A i \in 0..n : i \in P
<1> DEFINE Missing == {i \in 0..n : i \notin P}
<1> SUFFICES ASSUME Missing # {}
             PROVE  FALSE
  OBVIOUS
<1>1. Missing \subseteq Nat
  OBVIOUS
<1> DEFINE Less == {ss \in Nat \X Nat : ss[1] < ss[2]}
<1>2. PICK m \in Missing : \A i \in Missing : <<i, m>> \notin Less
  <2>1. IsWellFoundedOn(Less, Nat)
    BY NatLessThanWellFounded DEF OpToRel
  <2> HIDE DEF Missing, Less
  <2> QED
    BY <1>1, <2>1, WFMin
<1>3. m # 0 /\ m \in 1..n
  BY <1>2
<1>4. m - 1 \in P
  <2>1. m - 1 \in Nat /\ m \in Nat /\ m - 1 < m
    BY <1>3
  <2>2. <<m - 1, m>> \in Less
    BY <2>1
  <2> QED
    BY <1>2, <1>3, <2>2
<1> QED
  BY <1>2, <1>3, <1>4

\* f starts with base, and step i makes f[i] of f[i - 1].
Iterates(S, n, base, step) ==
  {f \in [0..n -> S] : f[0] = base /\ \A i \in 1..n : f[i] = step[i][f[i - 1]]}

(***************************************************************************)
(* The values of a recursion from base by the given steps exist up to n.   *)
(***************************************************************************)
LEMMA IteratesExist ==
  ASSUME NEW S, NEW n \in Nat, NEW base \in S, NEW step \in [1..n -> [S -> S]]
  PROVE  Iterates(S, n, base, step) # {}
<1> DEFINE Upto(m) == {f \in [0..m -> S] :
                         f[0] = base /\ \A i \in 1..m : f[i] = step[i][f[i - 1]]}
           P == {m \in 0..n : Upto(m) # {}}
<1>1. 0 \in P
  <2>1. [i \in 0..0 |-> base] \in Upto(0)
    OBVIOUS
  <2> QED
    BY <2>1
<1>2. ASSUME NEW m \in 0..(n - 1), m \in P
      PROVE  m + 1 \in P
  <2>1. PICK f \in [0..m -> S] : f \in Upto(m)
    BY <1>2
  <2> DEFINE value == step[m + 1][f[m]]
             g == [i \in 0..(m + 1) |-> IF i = m + 1 THEN value ELSE f[i]]
  <2>2. value \in S
    <3>1. f[m] \in S /\ m + 1 \in 1..n
      OBVIOUS
    <3> QED
      BY <3>1
  <2>3. g[m + 1] = value /\ \A i \in 0..m : g[i] = f[i]
    OBVIOUS
  <2>4. g \in [0..(m + 1) -> S]
    BY <2>2
  <2>5. g[0] = base
    BY <2>1
  <2>6. ASSUME NEW i \in 1..(m + 1)
        PROVE  g[i] = step[i][g[i - 1]]
    <3>1. CASE i = m + 1
      <4>1. i - 1 = m /\ m \in 0..m
        BY <3>1
      <4>2. g[i - 1] = f[m] /\ g[i] = value
        BY <2>3, <3>1, <4>1
      <4> QED
        BY <3>1, <4>2
    <3>2. CASE i # m + 1
      <4>1. i \in 1..m /\ i \in 0..m /\ i - 1 \in 0..m
        BY <3>2
      <4>2. g[i - 1] = f[i - 1] /\ g[i] = f[i]
        BY <2>3, <4>1
      <4> QED
        BY <2>1, <4>1, <4>2
    <3> QED
      BY <3>1, <3>2
  <2> HIDE DEF g
  <2>7. g \in Upto(m + 1)
    BY <2>4, <2>5, <2>6
  <2>8. m + 1 \in 0..n
    OBVIOUS
  <2> QED
    BY <2>7, <2>8
<1>3. \A i \in 0..n : i \in P
  <2> HIDE DEF P
  <2> QED
    BY <1>1, <1>2, SetInduction
<1>4. n \in P
  <2> HIDE DEF P
  <2> QED
    BY <1>3
<1> QED
  BY <1>4 DEF Iterates

-------------------------------------------------------------------------------
(* The queue without some of its requests *)

\* What is left of the first n requests of the queue.
Steps(S, queue, some) ==
  {left \in [0..Len(queue) -> Seq(S)] :
     /\ left[0] = <<>>
     /\ \A n \in 1..Len(queue) :
          left[n] = IF queue[n] \in some THEN left[n - 1]
                    ELSE Append(left[n - 1], queue[n])}

(***************************************************************************)
(* The recursive function in Without is defined, and is the scan of        *)
(* removeRequest and clearQueue: front to back, a request of the set is    *)
(* left out and any other is kept behind those before it.                  *)
(***************************************************************************)
LEMMA WithoutSteps ==
  ASSUME NEW S, NEW queue \in Seq(S), NEW some
  PROVE  \E left \in Steps(S, queue, some) : Without(queue, some) = left[Len(queue)]
<1> DEFINE N == Len(queue)
           step == [n \in 1..N |-> [left \in Seq(S) |->
                      IF queue[n] \in some THEN left ELSE Append(left, queue[n])]]
           Body(f) == [n \in 0..N |->
                         IF n = 0 THEN <<>>
                         ELSE IF queue[n] \in some THEN f[n - 1]
                         ELSE Append(f[n - 1], queue[n])]
           Left == CHOOSE f : f = Body(f)
<1>1. N \in Nat /\ <<>> \in Seq(S)
  BY LenProperties, EmptySeq
<1>2. step \in [1..N -> [Seq(S) -> Seq(S)]]
  BY ElementOfSeq, AppendProperties
<1>3. PICK f \in Iterates(Seq(S), N, <<>>, step) : TRUE
  <2>1. Iterates(Seq(S), N, <<>>, step) # {}
    <3> HIDE DEF N, step
    <3> QED
      BY <1>1, <1>2, IteratesExist
  <2> QED
    BY <2>1
<1>4. /\ f \in [0..N -> Seq(S)]
      /\ f[0] = <<>>
      /\ \A n \in 1..N : f[n] = step[n][f[n - 1]]
  BY DEF Iterates
<1>10. \A n \in 1..N : n \in 0..N /\ n - 1 \in 0..N /\ f[n - 1] \in Seq(S)
  <2> HIDE DEF N
  <2> QED
    BY <1>1, <1>4
<1>5. f = Body(f)
  <2>1. DOMAIN f = 0..N /\ f = [n \in 0..N |-> f[n]]
    BY <1>4
  <2>2. ASSUME NEW n \in 0..N
        PROVE  f[n] = Body(f)[n]
    <3>1. CASE n = 0
      BY <1>4, <3>1
    <3>2. CASE n # 0
      <4>1. n \in 1..N /\ n - 1 \in 0..N /\ f[n - 1] \in Seq(S)
        BY <1>1, <1>10, <3>2
      <4>2. f[n] = step[n][f[n - 1]]
        BY <1>4, <4>1
      <4> QED
        BY <3>2, <4>1, <4>2
    <3> QED
      BY <3>1, <3>2
  <2> QED
    BY <2>1, <2>2
<1>6. Left = Body(Left)
  <2> HIDE DEF Body
  <2> QED
    BY <1>5
<1>7. Without(queue, some) = Left[N]
  BY DEF Without
<1>8. f \in Steps(S, queue, some)
  <2>1. ASSUME NEW n \in 1..N
        PROVE  f[n] = IF queue[n] \in some THEN f[n - 1] ELSE Append(f[n - 1], queue[n])
    <3>1. n - 1 \in 0..N /\ f[n - 1] \in Seq(S)
      BY <1>10
    <3> QED
      BY <1>4, <3>1
  <2> QED
    BY <1>4, <2>1 DEF Steps
<1>9. f[N] = Left[N]
  <2> DEFINE P == {n \in 0..N : f[n] = Left[n]}
  <2>1. \A n \in 0..N : Left[n] = Body(Left)[n] /\ f[n] = Body(f)[n]
    <3> HIDE DEF Body, Left
    <3> QED
      BY <1>5, <1>6
  <2>2. 0 \in P
    BY <1>1, <2>1
  <2>3. ASSUME NEW n \in 0..(N - 1), n \in P
        PROVE  n + 1 \in P
    <3>1. n + 1 \in 0..N /\ n + 1 # 0 /\ (n + 1) - 1 = n
      BY <1>1
    <3> HIDE DEF Left
    <3> QED
      BY <2>1, <2>3, <3>1
  <2>4. \A n \in 0..N : n \in P
    <3> HIDE DEF P, N
    <3> QED
      BY <1>1, <2>2, <2>3, SetInduction
  <2> QED
    BY <1>1, <2>4
<1> QED
  BY <1>7, <1>8, <1>9

\* The places in the first n of the queue that the requests of w come from.
Picks(w, queue, n, some) ==
  {at \in [1..Len(w) -> 1..n] :
     /\ \A i \in 1..Len(w) : w[i] = queue[at[i]] /\ queue[at[i]] \notin some
     /\ \A i, j \in 1..Len(w) : i < j => at[i] < at[j]
     /\ \A m \in 1..n : queue[m] \notin some => \E i \in 1..Len(w) : at[i] = m}

(***************************************************************************)
(* What is left is a queue, and at says where in the old queue each of its *)
(* requests was: in the same order, none of the set, and none missing.     *)
(***************************************************************************)
LEMMA WithoutPicks ==
  ASSUME NEW S, NEW queue \in Seq(S), NEW some
  PROVE  /\ Without(queue, some) \in Seq(S)
         /\ Picks(Without(queue, some), queue, Len(queue), some) # {}
<1> DEFINE N == Len(queue)
<1>1. PICK left \in Steps(S, queue, some) : Without(queue, some) = left[N]
  BY WithoutSteps
<1>2. /\ left \in [0..N -> Seq(S)]
      /\ left[0] = <<>>
      /\ \A n \in 1..N : left[n] = IF queue[n] \in some THEN left[n - 1]
                                   ELSE Append(left[n - 1], queue[n])
  BY DEF Steps
<1>3. N \in Nat
  BY LenProperties
<1> DEFINE P == {n \in 0..N : Picks(left[n], queue, n, some) # {}}
<1>4. 0 \in P
  <2>1. 1..Len(left[0]) = {}
    BY <1>2, EmptySeq
  <2>2. [i \in 1..Len(left[0]) |-> 0] \in Picks(left[0], queue, 0, some)
    BY <2>1 DEF Picks
  <2> QED
    BY <1>3, <2>2
<1>5. ASSUME NEW n \in 0..(N - 1), n \in P
      PROVE  n + 1 \in P
  <2> DEFINE w == left[n]
             v == left[n + 1]
             e == queue[n + 1]
             L == Len(w)
  <2>1. PICK at : at \in Picks(w, queue, n, some)
    BY <1>5
  <2>2. /\ n + 1 \in 1..N /\ n \in 0..N /\ n + 1 \in 0..N /\ n \in Nat
        /\ w \in Seq(S) /\ e \in S
        /\ L \in Nat
        /\ v = IF e \in some THEN w ELSE Append(w, e)
    <3>1. n + 1 \in 1..N /\ n \in 0..N /\ n + 1 \in 0..N /\ n \in Nat /\ (n + 1) - 1 = n
      <4> HIDE DEF N
      <4> QED
        BY <1>3
    <3>2. w \in Seq(S) /\ e \in S
      BY <1>2, <3>1, ElementOfSeq
    <3> QED
      BY <1>2, <3>1, <3>2, LenProperties
  <2>3. /\ at \in [1..L -> 1..n]
        /\ \A i \in 1..L : w[i] = queue[at[i]] /\ queue[at[i]] \notin some
        /\ \A i, j \in 1..L : i < j => at[i] < at[j]
        /\ \A m \in 1..n : queue[m] \notin some => \E i \in 1..L : at[i] = m
    BY <2>1 DEF Picks
  <2> HIDE DEF N, w, v, e, L
  <2>4. CASE e \in some
    <3>1. v = w
      BY <2>2, <2>4
    <3>2. at \in [1..L -> 1..(n + 1)]
      BY <2>2, <2>3
    <3>3. \A m \in 1..(n + 1) : queue[m] \notin some => \E i \in 1..L : at[i] = m
      BY <2>2, <2>3, <2>4 DEF e
    <3>4. at \in Picks(w, queue, n + 1, some)
      BY <2>3, <3>2, <3>3 DEF Picks, L
    <3> QED
      BY <2>2, <3>1, <3>4 DEF v
  <2>5. CASE e \notin some
    <3> DEFINE to == [i \in 1..(L + 1) |-> IF i = L + 1 THEN n + 1 ELSE at[i]]
    <3>1. /\ v = Append(w, e)
          /\ Len(v) = L + 1
          /\ v[L + 1] = e
          /\ \A i \in 1..L : v[i] = w[i]
      BY <2>2, <2>5, AppendProperties DEF L
    <3>2. to \in [1..(L + 1) -> 1..(n + 1)]
      BY <2>2, <2>3
    <3>3. to[L + 1] = n + 1 /\ \A i \in 1..L : to[i] = at[i] /\ at[i] \in 1..n
      BY <2>2, <2>3
    <3>4. \A i \in 1..(L + 1) : i = L + 1 \/ i \in 1..L
      BY <2>2
    <3> HIDE DEF to
    <3>5. \A i \in 1..(L + 1) : v[i] = queue[to[i]] /\ queue[to[i]] \notin some
      BY <2>3, <2>5, <3>1, <3>3, <3>4 DEF e
    <3>6. \A i, j \in 1..(L + 1) : i < j => to[i] < to[j]
      <4> SUFFICES ASSUME NEW i \in 1..(L + 1), NEW j \in 1..(L + 1), i < j
                   PROVE  to[i] < to[j]
        OBVIOUS
      <4>1. i \in 1..L
        BY <2>2
      <4>2. CASE j = L + 1
        BY <2>2, <3>3, <4>1, <4>2
      <4>3. CASE j \in 1..L
        BY <2>3, <3>3, <4>1, <4>3
      <4> QED
        BY <3>4, <4>2, <4>3
    <3>7. \A m \in 1..(n + 1) : queue[m] \notin some => \E i \in 1..(L + 1) : to[i] = m
      <4> SUFFICES ASSUME NEW m \in 1..(n + 1), queue[m] \notin some
                   PROVE  \E i \in 1..(L + 1) : to[i] = m
        OBVIOUS
      <4>1. CASE m = n + 1
        <5>1. L + 1 \in 1..(L + 1)
          BY <2>2
        <5> QED
          BY <3>3, <4>1, <5>1
      <4>2. CASE m # n + 1
        <5>1. m \in 1..n
          BY <2>2, <4>2
        <5>2. PICK i \in 1..L : at[i] = m
          BY <2>3, <5>1
        <5>3. i \in 1..(L + 1)
          BY <2>2
        <5> QED
          BY <3>3, <5>2, <5>3
      <4> QED
        BY <4>1, <4>2
    <3>8. to \in Picks(v, queue, n + 1, some)
      BY <3>1, <3>2, <3>5, <3>6, <3>7 DEF Picks
    <3> QED
      BY <2>2, <3>8 DEF v
  <2> QED
    BY <2>4, <2>5
<1>6. N \in P
  <2>1. \A n \in 0..N : n \in P
    <3> HIDE DEF N, P
    <3> QED
      BY <1>3, <1>4, <1>5, SetInduction
  <2>2. N \in 0..N
    BY <1>3
  <2> QED
    BY <2>1, <2>2
<1> QED
  BY <1>1, <1>2, <1>3, <1>6

(***************************************************************************)
(* Left in the queue is what was in it and is not of the set.              *)
(***************************************************************************)
LEMMA WithoutElements ==
  ASSUME NEW S, NEW queue \in Seq(S), NEW some
  PROVE  ToSet(Without(queue, some)) = ToSet(queue) \ some
<1> DEFINE w == Without(queue, some)
<1>1. w \in Seq(S) /\ \E at : at \in Picks(w, queue, Len(queue), some)
  BY WithoutPicks
<1>2. PICK at : at \in Picks(w, queue, Len(queue), some)
  BY <1>1
<1>3. /\ at \in [1..Len(w) -> 1..Len(queue)]
      /\ \A i \in 1..Len(w) : w[i] = queue[at[i]] /\ queue[at[i]] \notin some
      /\ \A m \in 1..Len(queue) : queue[m] \notin some => \E i \in 1..Len(w) : at[i] = m
  BY <1>2 DEF Picks
<1>4. DOMAIN w = 1..Len(w) /\ DOMAIN queue = 1..Len(queue)
  BY <1>1, LenProperties
<1> HIDE DEF w
<1>5. ASSUME NEW i \in DOMAIN w
      PROVE  w[i] \in ToSet(queue) \ some
  BY <1>3, <1>4 DEF ToSet
<1>6. ASSUME NEW m \in DOMAIN queue, queue[m] \notin some
      PROVE  queue[m] \in ToSet(w)
  BY <1>3, <1>4, <1>6 DEF ToSet
<1>7. ToSet(w) = ToSet(queue) \ some
  BY <1>5, <1>6 DEF ToSet
<1> QED
  BY <1>7 DEF w

(***************************************************************************)
(* A queue that holds no request twice still holds none twice.             *)
(***************************************************************************)
LEMMA WithoutKeepsUnique ==
  ASSUME NEW S, NEW queue \in Seq(S), NEW some,
         \A i, j \in 1..Len(queue) : queue[i] = queue[j] => i = j
  PROVE  \A i, j \in 1..Len(Without(queue, some)) :
           Without(queue, some)[i] = Without(queue, some)[j] => i = j
<1> DEFINE w == Without(queue, some)
<1>1. w \in Seq(S) /\ \E at : at \in Picks(w, queue, Len(queue), some)
  BY WithoutPicks
<1>2. PICK at : at \in Picks(w, queue, Len(queue), some)
  BY <1>1
<1>3. /\ at \in [1..Len(w) -> 1..Len(queue)]
      /\ \A i \in 1..Len(w) : w[i] = queue[at[i]]
      /\ \A i, j \in 1..Len(w) : i < j => at[i] < at[j]
  BY <1>2 DEF Picks
<1>4. Len(w) \in Nat /\ Len(queue) \in Nat
  BY <1>1, LenProperties
<1> HIDE DEF w
<1>5. ASSUME NEW i \in 1..Len(w), NEW j \in 1..Len(w), w[i] = w[j]
      PROVE  i = j
  <2>1. at[i] = at[j] /\ at[i] \in 1..Len(queue)
    BY <1>3, <1>5
  <2>2. ~(i < j) /\ ~(j < i)
    BY <1>3, <1>4, <2>1
  <2> QED
    BY <1>4, <2>2
<1> QED
  BY <1>5 DEF w

(***************************************************************************)
(* What is nowhere but in front stays nowhere but in front.                *)
(***************************************************************************)
LEMMA WithoutKeepsBehind ==
  ASSUME NEW S, NEW queue \in Seq(S), NEW some, NEW T,
         \A i \in 2..Len(queue) : queue[i] \notin T
  PROVE  \A i \in 2..Len(Without(queue, some)) : Without(queue, some)[i] \notin T
<1> DEFINE w == Without(queue, some)
<1>1. w \in Seq(S) /\ \E at : at \in Picks(w, queue, Len(queue), some)
  BY WithoutPicks
<1>2. PICK at : at \in Picks(w, queue, Len(queue), some)
  BY <1>1
<1>3. /\ at \in [1..Len(w) -> 1..Len(queue)]
      /\ \A i \in 1..Len(w) : w[i] = queue[at[i]]
      /\ \A i, j \in 1..Len(w) : i < j => at[i] < at[j]
  BY <1>2 DEF Picks
<1>4. Len(w) \in Nat /\ Len(queue) \in Nat
  BY <1>1, LenProperties
<1> HIDE DEF w
<1>5. ASSUME NEW i \in 2..Len(w)
      PROVE  w[i] \notin T
  <2>1. i \in 1..Len(w) /\ 1 \in 1..Len(w) /\ 1 < i
    BY <1>4
  <2>2. at[1] \in 1..Len(queue) /\ at[i] \in 1..Len(queue) /\ at[1] < at[i]
    BY <1>3, <2>1
  <2>3. at[i] \in 2..Len(queue)
    BY <1>4, <2>2
  <2> QED
    BY <1>3, <2>1, <2>3
<1> QED
  BY <1>5 DEF w

(***************************************************************************)
(* A queue without all it holds is empty.                                  *)
(***************************************************************************)
LEMMA WithoutAll ==
  ASSUME NEW S, NEW queue \in Seq(S), NEW some,
         \A i \in 1..Len(queue) : queue[i] \in some
  PROVE  Without(queue, some) = <<>>
<1>1. Without(queue, some) \in Seq(S)
  BY WithoutPicks
<1>2. \A i \in 1..Len(Without(queue, some)) : FALSE
  <2>1. ToSet(queue) \subseteq some
    BY LenProperties DEF ToSet
  <2>2. ToSet(Without(queue, some)) = {}
    BY <2>1, WithoutElements
  <2>3. DOMAIN Without(queue, some) = 1..Len(Without(queue, some))
    BY <1>1, LenProperties
  <2> QED
    BY <2>2, <2>3 DEF ToSet
<1>3. Len(Without(queue, some)) \in Nat
  BY <1>1, LenProperties
<1>4. Len(Without(queue, some)) = 0
  BY <1>2, <1>3
<1> QED
  BY <1>1, <1>4, EmptySeq

(***************************************************************************)
(* A queue without requests it does not hold is the same queue.            *)
(***************************************************************************)
LEMMA WithoutNone ==
  ASSUME NEW S, NEW queue \in Seq(S), NEW some,
         \A i \in 1..Len(queue) : queue[i] \notin some
  PROVE  Without(queue, some) = queue
<1> DEFINE N == Len(queue)
<1>1. PICK left \in Steps(S, queue, some) : Without(queue, some) = left[N]
  BY WithoutSteps
<1>2. /\ left \in [0..N -> Seq(S)]
      /\ left[0] = <<>>
      /\ \A n \in 1..N : left[n] = IF queue[n] \in some THEN left[n - 1]
                                   ELSE Append(left[n - 1], queue[n])
  BY DEF Steps
<1>3. N \in Nat
  BY LenProperties
<1> DEFINE P == {n \in 0..N : Len(left[n]) = n /\ \A i \in 1..n : left[n][i] = queue[i]}
<1>4. 0 \in P
  BY <1>2, <1>3, EmptySeq
<1>5. ASSUME NEW n \in 0..(N - 1), n \in P
      PROVE  n + 1 \in P
  <2>1. n + 1 \in 1..N /\ n \in 0..N /\ n + 1 \in 0..N /\ (n + 1) - 1 = n /\ n \in Nat
    <3> HIDE DEF N
    <3> QED
      BY <1>3
  <2>2. left[n] \in Seq(S) /\ queue[n + 1] \in S
    BY <1>2, <2>1, ElementOfSeq
  <2>3. left[n + 1] = Append(left[n], queue[n + 1])
    BY <1>2, <2>1
  <2>4. Len(left[n]) = n /\ \A i \in 1..n : left[n][i] = queue[i]
    BY <1>5
  <2>5. /\ Len(left[n + 1]) = n + 1
        /\ left[n + 1][n + 1] = queue[n + 1]
        /\ \A i \in 1..n : left[n + 1][i] = queue[i]
    BY <2>2, <2>3, <2>4, AppendProperties
  <2>6. \A i \in 1..(n + 1) : i = n + 1 \/ i \in 1..n
    BY <2>1
  <2> QED
    BY <2>1, <2>5, <2>6
<1>6. N \in P
  <2>1. \A n \in 0..N : n \in P
    <3> HIDE DEF N, P
    <3> QED
      BY <1>3, <1>4, <1>5, SetInduction
  <2>2. N \in 0..N
    BY <1>3
  <2> QED
    BY <2>1, <2>2
<1>7. left[N] \in Seq(S) /\ Len(left[N]) = Len(queue) /\ \A i \in 1..Len(queue) : left[N][i] = queue[i]
  BY <1>2, <1>3, <1>6
<1> QED
  BY <1>1, <1>7, SeqEqual

-------------------------------------------------------------------------------
(* Counting messages *)

\* How often x is in s.
Count(s, x) == Cardinality({i \in 1..Len(s) : s[i] = x})

(***************************************************************************)
(* One message more is one more to count if it is the one that is counted. *)
(***************************************************************************)
LEMMA CountAppended ==
  ASSUME NEW S, NEW s \in Seq(S), NEW e \in S, NEW x
  PROVE  Count(Append(s, e), x) = Count(s, x) + (IF e = x THEN 1 ELSE 0)
<1> DEFINE N == Len(s)
           At == {i \in 1..N : s[i] = x}
           Now == {i \in 1..Len(Append(s, e)) : Append(s, e)[i] = x}
<1>1. /\ N \in Nat
      /\ Len(Append(s, e)) = N + 1
      /\ Append(s, e)[N + 1] = e
      /\ \A i \in 1..N : Append(s, e)[i] = s[i]
  BY LenProperties, AppendProperties
<1>2. IsFiniteSet(At) /\ Cardinality(At) \in Nat /\ N + 1 \notin At
  <2>1. IsFiniteSet(1..N)
    <3> HIDE DEF N
    <3> QED
      BY <1>1, FS_Interval
  <2>2. At \subseteq 1..N
    OBVIOUS
  <2>3. N + 1 \notin 1..N
    BY <1>1
  <2> HIDE DEF At, N
  <2> QED
    BY <2>1, <2>2, <2>3, FS_Subset, FS_CardinalityType
<1>3. Now = IF e = x THEN At \cup {N + 1} ELSE At
  <2>1. 1..(N + 1) = (1..N) \cup {N + 1}
    BY <1>1
  <2> QED
    BY <1>1, <2>1
<1>4. Cardinality(Now) = Cardinality(At) + (IF e = x THEN 1 ELSE 0)
  <2> HIDE DEF At, Now, N
  <2>1. CASE e = x
    BY <1>2, <1>3, <2>1, FS_AddElement
  <2>2. CASE e # x
    BY <1>2, <1>3, <2>2
  <2> QED
    BY <2>1, <2>2
<1> QED
  BY <1>4 DEF Count

(***************************************************************************)
(* Nothing is to be counted where nothing was said.                        *)
(***************************************************************************)
LEMMA CountEmpty ==
  ASSUME NEW x
  PROVE  Count(<<>>, x) = 0
<1>1. {i \in 1..Len(<<>>) : <<>>[i] = x} = {}
  BY EmptySeq
<1> QED
  BY <1>1, FS_EmptySet DEF Count
===============================================================================
