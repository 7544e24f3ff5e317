----------------------------- MODULE QueriesProofs -----------------------------
(***************************************************************************)
(* Proofs about Queries, for every set of calls, every display they name,  *)
(* every list of voices, every configuration and every fault: what the     *)
(* clients of getAvailableLanguages and getStatus are given.               *)
(***************************************************************************)
EXTENDS Queries, SequenceFacts

-------------------------------------------------------------------------------
(* The codes of an answer *)

\* The lists the codes make one by one, n of them after n codes.
Lists(S, codes) ==
  {list \in [0..Len(codes) -> Seq(S)] :
     /\ list[0] = <<>>
     /\ \A n \in 1..Len(codes) :
          list[n] = IF codes[n] \in ToSet(list[n - 1]) THEN list[n - 1]
                    ELSE Append(list[n - 1], codes[n])}

(***************************************************************************)
(* The recursive function in WithCodes is defined, and is the loop of      *)
(* getLanguages that fills an empty cache: voice by voice, a code that is  *)
(* there already is left out and any other is kept behind those before it. *)
(***************************************************************************)
LEMMA WithCodesSteps ==
  ASSUME NEW S, NEW codes \in Seq(S)
  PROVE  \E list \in Lists(S, codes) : WithCodes(<<>>, codes) = list[Len(codes)]
<1> DEFINE N == Len(codes)
           step == [n \in 1..N |-> [list \in Seq(S) |->
                      IF codes[n] \in ToSet(list) THEN list ELSE Append(list, codes[n])]]
           Body(f) == [n \in 0..N |->
                         IF n = 0 THEN <<>>
                         ELSE IF codes[n] \in ToSet(f[n - 1]) THEN f[n - 1]
                         ELSE Append(f[n - 1], codes[n])]
           With == CHOOSE f : f = Body(f)
<1>1. N \in Nat /\ <<>> \in Seq(S)
  BY LenProperties, EmptySeq
<1>2. step \in [1..N -> [Seq(S) -> Seq(S)]]
  BY ElementOfSeq, AppendProperties
<1>3. PICK f \in Iterates(Seq(S), N, <<>>, step) : TRUE
  <2>1. Iterates(Seq(S), N, <<>>, step) # {}
    <3> HIDE DEF N, step
    <3> QED
      BY <1>1, <1>2, IteratesExist
  <2> QED
    BY <2>1
<1>4. /\ f \in [0..N -> Seq(S)]
      /\ f[0] = <<>>
      /\ \A n \in 1..N : f[n] = step[n][f[n - 1]]
  BY DEF Iterates
<1>5. \A n \in 1..N : n \in 0..N /\ n - 1 \in 0..N /\ f[n - 1] \in Seq(S)
  <2> HIDE DEF N
  <2> QED
    BY <1>1, <1>4
<1>6. f = Body(f)
  <2>1. DOMAIN f = 0..N /\ f = [n \in 0..N |-> f[n]]
    BY <1>4
  <2>2. ASSUME NEW n \in 0..N
        PROVE  f[n] = Body(f)[n]
    <3>1. CASE n = 0
      BY <1>4, <3>1
    <3>2. CASE n # 0
      <4>1. n \in 1..N /\ n - 1 \in 0..N /\ f[n - 1] \in Seq(S)
        BY <1>1, <1>5, <3>2
      <4>2. f[n] = step[n][f[n - 1]]
        BY <1>4, <4>1
      <4> QED
        BY <3>2, <4>1, <4>2
    <3> QED
      BY <3>1, <3>2
  <2> QED
    BY <2>1, <2>2
<1>7. With = Body(With)
  <2> HIDE DEF Body
  <2> QED
    BY <1>6
<1>8. WithCodes(<<>>, codes) = With[N]
  BY DEF WithCodes
<1>9. f \in Lists(S, codes)
  <2>1. ASSUME NEW n \in 1..N
        PROVE  f[n] = IF codes[n] \in ToSet(f[n - 1]) THEN f[n - 1]
                      ELSE Append(f[n - 1], codes[n])
    <3>1. n - 1 \in 0..N /\ f[n - 1] \in Seq(S)
      BY <1>5
    <3> QED
      BY <1>4, <3>1
  <2> QED
    BY <1>4, <2>1 DEF Lists
<1>10. f[N] = With[N]
  <2> DEFINE P == {n \in 0..N : f[n] = With[n]}
  <2>1. \A n \in 0..N : With[n] = Body(With)[n] /\ f[n] = Body(f)[n]
    <3> HIDE DEF Body, With
    <3> QED
      BY <1>6, <1>7
  <2> HIDE DEF With
  <2>2. 0 \in P
    <3>1. 0 \in 0..N
      BY <1>1
    <3>2. With[0] = <<>>
      BY <2>1, <3>1
    <3> QED
      BY <1>4, <3>1, <3>2
  <2>3. ASSUME NEW n \in 0..(N - 1), n \in P
        PROVE  n + 1 \in P
    <3>1. n + 1 \in 0..N /\ n + 1 # 0 /\ (n + 1) - 1 = n
      BY <1>1
    <3> QED
      BY <2>1, <2>3, <3>1
  <2>4. \A n \in 0..N : n \in P
    <3> HIDE DEF P, N
    <3> QED
      BY <1>1, <2>2, <2>3, SetInduction
  <2>5. N \in 0..N
    BY <1>1
  <2> HIDE DEF N
  <2> QED
    BY <2>4, <2>5
<1> QED
  BY <1>8, <1>9, <1>10

\* EachOnceInOrder, of the first k codes.
Firsts(list, codes, k) ==
  /\ \A m \in 1..k : \E i \in 1..Len(list) : list[i] = codes[m]
  /\ \A i \in 1..Len(list) : \E m \in 1..k : codes[m] = list[i]
  /\ \A i, j \in 1..Len(list) :
       i < j => \E m \in 1..k :
                  codes[m] = list[i] /\ \A n \in 1..m : codes[n] # list[j]

(***************************************************************************)
(* What the loop leaves of the codes of any answer is every code of it,    *)
(* each once and where it comes first.                                     *)
(***************************************************************************)
LEMMA WithCodesInOrder ==
  ASSUME NEW S, NEW codes \in Seq(S)
  PROVE  /\ WithCodes(<<>>, codes) \in Seq(S)
         /\ EachOnceInOrder(WithCodes(<<>>, codes), codes)
<1> DEFINE N == Len(codes)
<1>1. PICK list \in Lists(S, codes) : WithCodes(<<>>, codes) = list[N]
  BY WithCodesSteps
<1>2. /\ list \in [0..N -> Seq(S)]
      /\ list[0] = <<>>
      /\ \A n \in 1..N : list[n] = IF codes[n] \in ToSet(list[n - 1]) THEN list[n - 1]
                                   ELSE Append(list[n - 1], codes[n])
  BY DEF Lists
<1>3. N \in Nat
  BY LenProperties
<1> DEFINE P == {n \in 0..N : Firsts(list[n], codes, n)}
<1>4. 0 \in P
  BY <1>2, <1>3, EmptySeq DEF Firsts
<1>5. ASSUME NEW n \in 0..(N - 1), n \in P
      PROVE  n + 1 \in P
  <2> DEFINE w == list[n]
             v == list[n + 1]
             e == codes[n + 1]
             L == Len(w)
  <2>1. /\ n + 1 \in 1..N /\ n + 1 \in 0..N /\ n \in Nat
        /\ w \in Seq(S) /\ e \in S /\ L \in Nat
        /\ v = IF e \in ToSet(w) THEN w ELSE Append(w, e)
        /\ ToSet(w) = {w[i] : i \in 1..L}
    <3>1. n + 1 \in 1..N /\ n \in 0..N /\ n + 1 \in 0..N /\ n \in Nat /\ (n + 1) - 1 = n
      <4> HIDE DEF N
      <4> QED
        BY <1>3
    <3>2. w \in Seq(S) /\ e \in S
      BY <1>2, <3>1, ElementOfSeq
    <3>3. L \in Nat /\ ToSet(w) = {w[i] : i \in 1..L}
      BY <3>2, LenProperties DEF ToSet
    <3> QED
      BY <1>2, <3>1, <3>2, <3>3
  <2>2. /\ \A m \in 1..n : \E i \in 1..L : w[i] = codes[m]
        /\ \A i \in 1..L : \E m \in 1..n : codes[m] = w[i]
        /\ \A i, j \in 1..L :
             i < j => \E m \in 1..n :
                        codes[m] = w[i] /\ \A k \in 1..m : codes[k] # w[j]
    BY <1>5 DEF Firsts
  <2>3. (\A m \in 1..(n + 1) : m \in 1..n \/ m = n + 1) /\ \A m \in 1..n : m \in 1..(n + 1)
    BY <2>1
  <2>4. e = codes[n + 1]
    OBVIOUS
  <2> HIDE DEF N, w, v, e, L
  <2>5. CASE e \in ToSet(w)
    <3>1. \E i \in 1..L : w[i] = e
      BY <2>1, <2>5
    <3>2. \A m \in 1..(n + 1) : \E i \in 1..L : w[i] = codes[m]
      BY <2>2, <2>3, <2>4, <3>1
    <3>3. \A i \in 1..L : \E m \in 1..(n + 1) : codes[m] = w[i]
      BY <2>2, <2>3
    <3>4. \A i, j \in 1..L :
            i < j => \E m \in 1..(n + 1) :
                       codes[m] = w[i] /\ \A k \in 1..m : codes[k] # w[j]
      BY <2>2, <2>3
    <3>5. Firsts(w, codes, n + 1)
      BY <3>2, <3>3, <3>4 DEF Firsts, L
    <3> QED
      BY <2>1, <2>5, <3>5 DEF v
  <2>6. CASE e \notin ToSet(w)
    <3>1. /\ v = Append(w, e)
          /\ Len(v) = L + 1
          /\ v[L + 1] = e
          /\ \A i \in 1..L : v[i] = w[i]
      BY <2>1, <2>6, AppendProperties DEF L
    <3>2. /\ \A i \in 1..(L + 1) : i = L + 1 \/ i \in 1..L
          /\ \A i \in 1..L : i \in 1..(L + 1)
          /\ L + 1 \in 1..(L + 1) /\ n + 1 \in 1..(n + 1)
      BY <2>1
    <3>3. \A m \in 1..(n + 1) : \E i \in 1..(L + 1) : v[i] = codes[m]
      BY <2>2, <2>3, <2>4, <3>1, <3>2
    <3>4. \A i \in 1..(L + 1) : \E m \in 1..(n + 1) : codes[m] = v[i]
      BY <2>2, <2>3, <2>4, <3>1, <3>2
    <3>5. \A m \in 1..n : codes[m] # e
      BY <2>1, <2>2, <2>6
    <3>6. ASSUME NEW i \in 1..(L + 1), NEW j \in 1..(L + 1), i < j
          PROVE  \E m \in 1..(n + 1) :
                   codes[m] = v[i] /\ \A k \in 1..m : codes[k] # v[j]
      <4>1. i \in 1..L /\ v[i] = w[i]
        <5>1. i \in 1..L
          BY <2>1, <3>6
        <5> QED
          BY <3>1, <5>1
      <4>2. CASE j \in 1..L
        <5>1. PICK m \in 1..n : codes[m] = w[i] /\ \A k \in 1..m : codes[k] # w[j]
          BY <2>2, <3>6, <4>1, <4>2
        <5>2. m \in 1..(n + 1) /\ v[j] = w[j]
          BY <2>3, <3>1, <4>2
        <5> QED
          BY <4>1, <5>1, <5>2
      <4>3. CASE j = L + 1
        <5>1. PICK m \in 1..n : codes[m] = w[i]
          BY <2>2, <4>1
        <5>2. \A k \in 1..m : k \in 1..n
          BY <2>1
        <5> QED
          BY <2>3, <3>1, <3>5, <4>1, <4>3, <5>1, <5>2
      <4> QED
        BY <3>2, <4>2, <4>3
    <3>7. /\ \A m \in 1..(n + 1) : \E i \in 1..Len(v) : v[i] = codes[m]
          /\ \A i \in 1..Len(v) : \E m \in 1..(n + 1) : codes[m] = v[i]
          /\ \A i, j \in 1..Len(v) :
               i < j => \E m \in 1..(n + 1) :
                          codes[m] = v[i] /\ \A k \in 1..m : codes[k] # v[j]
      <4>1. Len(v) = L + 1
        BY <3>1
      <4> QED
        BY <3>3, <3>4, <3>6, <4>1
    <3>8. Firsts(v, codes, n + 1)
      BY <3>7 DEF Firsts
    <3> QED
      BY <2>1, <3>8 DEF v
  <2> QED
    BY <2>5, <2>6
<1>6. Firsts(list[N], codes, N) /\ list[N] \in Seq(S)
  <2>1. \A n \in 0..N : n \in P
    <3> HIDE DEF N, P
    <3> QED
      BY <1>3, <1>4, <1>5, SetInduction
  <2>2. N \in 0..N
    BY <1>3
  <2> QED
    BY <1>2, <2>1, <2>2
<1>7. EachOnceInOrder(list[N], codes)
  <2> DEFINE w == list[N]
  <2>1. DOMAIN codes = 1..N /\ DOMAIN w = 1..Len(w)
    BY <1>6, LenProperties
  <2> HIDE DEF w
  <2>2. /\ \A m \in 1..N : \E i \in 1..Len(w) : w[i] = codes[m]
        /\ \A i \in 1..Len(w) : \E m \in 1..N : codes[m] = w[i]
        /\ \A i, j \in 1..Len(w) :
             i < j => \E m \in 1..N : codes[m] = w[i] /\ \A n \in 1..m : codes[n] # w[j]
    BY <1>6 DEF Firsts, w
  <2> HIDE DEF N, P
  <2>3. ASSUME NEW i \in DOMAIN w
        PROVE  w[i] \in ToSet(codes)
    <3>1. PICK m \in 1..N : codes[m] = w[i]
      BY <2>1, <2>2
    <3> QED
      BY <2>1, <3>1 DEF ToSet
  <2>4. ASSUME NEW m \in DOMAIN codes
        PROVE  codes[m] \in ToSet(w)
    <3>1. PICK i \in 1..Len(w) : w[i] = codes[m]
      BY <2>1, <2>2
    <3> QED
      BY <2>1, <3>1 DEF ToSet
  <2>5. ToSet(w) = ToSet(codes)
    BY <2>3, <2>4 DEF ToSet
  <2> QED
    BY <2>2, <2>5 DEF EachOnceInOrder, w, N
<1> QED
  BY <1>1, <1>6, <1>7

-------------------------------------------------------------------------------
(* getStatus *)

(***************************************************************************)
(* GetStatus counts with the Cardinality of this module.                   *)
(***************************************************************************)
LEMMA SameCount ==
  ASSUME NEW S
  PROVE  Status!Cardinality(S) = Cardinality(S)
BY DEF Status!Cardinality, Cardinality

\* What is known of one call of getStatus.
CallOK(c) ==
  /\ object[c] \in {"none", "live", "deleted"}
  /\ error[c] \in BOOLEAN
  /\ outstanding[c] \subseteq Status!Query /\ unsent[c] \subseteq Status!Query
  /\ unparsed[c] \subseteq Status!Query
  /\ count[c] \in 0..2
  /\ count[c] = Cardinality(Status!Pending(c))
  /\ outstanding[c] \cap unsent[c] = {} /\ unparsed[c] \cap Status!Pending(c) = {}
  /\ (object[c] = "live") <=> (Status!Pending(c) # {})
  /\ object[c] = "none" => (unparsed[c] = {} /\ ~error[c])
  /\ object[c] = "live" => (error[c] <=> (unparsed[c] # {}))
  /\ object[c] = "none" => (replied[c] = <<>> \/ Refused(c))
  /\ object[c] = "live" => (replied[c] = <<>> /\ ~Refused(c))
  /\ object[c] = "deleted" => /\ ~Refused(c) /\ replied[c] # <<>>
                              /\ replied[c][1] <=> (unparsed[c] = {})
  /\ replied[c] \in Seq(BOOLEAN) /\ Len(replied[c]) <= 1

(***************************************************************************)
(* What is known of every call is the invariant of getStatus: a reply that *)
(* is there is the one sent when the object was deleted, and then nothing  *)
(* is pending, so that only an answer that did not parse leaves a field    *)
(* unset.                                                                  *)
(***************************************************************************)
LEMMA StatusByCall ==
  ASSUME Status!TypeOK, \A c \in StatusCall : CallOK(c)
  PROVE  Status!StatusInv
<1>1. Status!Counted
  BY SameCount DEF Status!Counted, CallOK
<1>2. Status!SaidSoFar
  BY DEF Status!SaidSoFar, CallOK
<1>3. Status!DeletedWithReply
  BY DEF Status!DeletedWithReply, Status!Pending, CallOK
<1>4. Status!FailureIsReported
  <2> SUFFICES ASSUME NEW c \in StatusCall, ~Refused(c), NEW i \in 1..Len(replied[c])
               PROVE  replied[c][i] <=> Status!Filled(c) = Status!Query
    BY DEF Status!FailureIsReported
  <2>1. i = 1 /\ replied[c] # <<>>
    BY EmptySeq DEF CallOK
  <2>2. object[c] = "deleted"
    BY <2>1 DEF CallOK
  <2>3. Status!Filled(c) = Status!Query <=> unparsed[c] = {}
    BY <2>2 DEF Status!Filled, Status!Pending, CallOK
  <2>4. replied[c][1] <=> unparsed[c] = {}
    BY <2>2 DEF CallOK
  <2> QED
    BY <2>1, <2>3, <2>4
<1> QED
  BY <1>1, <1>2, <1>3, <1>4 DEF Status!StatusInv

(***************************************************************************)
(* And conversely.                                                         *)
(***************************************************************************)
LEMMA EachCallOK ==
  ASSUME Status!StatusInv, NEW c \in StatusCall
  PROVE  CallOK(c)
<1> USE DEF Status!StatusInv, Status!TypeOK, Status!Counted, Status!SaidSoFar,
            Status!DeletedWithReply
<1>1. count[c] = Cardinality(Status!Pending(c))
  BY SameCount
<1> QED
  BY <1>1 DEF CallOK

(***************************************************************************)
(* The same of the next state.                                             *)
(***************************************************************************)
LEMMA NextStatusByCall ==
  ASSUME Status!TypeOK', \A c \in StatusCall : CallOK(c)'
  PROVE  Status!StatusInv'
<1>1. (Status!TypeOK /\ \A c \in StatusCall : CallOK(c)) => Status!StatusInv
  BY StatusByCall
<1>2. (Status!TypeOK /\ \A c \in StatusCall : CallOK(c))' => Status!StatusInv'
  BY <1>1, StatusByCall, PTL
<1> QED
  BY <1>2

\* Nothing happens to a call.
Untouched(c) ==
  /\ object'[c] = object[c] /\ count'[c] = count[c] /\ error'[c] = error[c]
  /\ outstanding'[c] = outstanding[c] /\ replied'[c] = replied[c]
  /\ unsent'[c] = unsent[c] /\ unparsed'[c] = unparsed[c]

(***************************************************************************)
(* A call to which nothing happens is as well off as before.               *)
(***************************************************************************)
LEMMA UntouchedOK ==
  ASSUME NEW c \in StatusCall, CallOK(c), Untouched(c)
  PROVE  CallOK(c)'
BY DEF CallOK, Untouched, Status!Pending

(***************************************************************************)
(* The steps of getAvailableLanguages leave getStatus alone.               *)
(***************************************************************************)
LEMMA StatusStutters ==
  ASSUME Status!StatusInv, UNCHANGED statusVars
  PROVE  Status!StatusInv'
<1>1. Status!TypeOK'
  BY DEF Status!StatusInv, Status!TypeOK, statusVars
<1>2. ASSUME NEW c \in StatusCall
      PROVE  CallOK(c)'
  <2>1. Untouched(c)
    BY DEF Untouched, statusVars
  <2> QED
    BY <2>1, EachCallOK, UntouchedOK
<1> QED
  BY <1>1, <1>2, NextStatusByCall

(***************************************************************************)
(* A call that is refused gets its one reply, an error, and no object.     *)
(***************************************************************************)
LEMMA RefusedStatus ==
  ASSUME Status!StatusInv, NEW c \in StatusCall, Status!Refuse(c)
  PROVE  Status!StatusInv'
<1> USE DEF Status!Refuse, Status!New
<1>1. Refused(c) /\ object[c] = "none" /\ CallOK(c)
  BY EachCallOK
<1>2. Status!TypeOK
  BY DEF Status!StatusInv
<1>3. Status!TypeOK'
  <2>1. replied' \in [StatusCall -> Seq(BOOLEAN)]
    BY <1>2 DEF Status!TypeOK
  <2> QED
    BY <1>2, <2>1 DEF Status!TypeOK
<1>4. CallOK(c)'
  <2>1. /\ replied'[c] = <<FALSE>> /\ replied'[c] \in Seq(BOOLEAN) /\ Len(replied'[c]) = 1
    <3>1. replied'[c] = <<FALSE>>
      BY <1>2 DEF Status!TypeOK
    <3>2. <<FALSE>> \in Seq(BOOLEAN) /\ Len(<<FALSE>>) = 1
      OBVIOUS
    <3> QED
      BY <3>1, <3>2
  <2>2. /\ object' = object /\ count' = count /\ error' = error /\ outstanding' = outstanding
        /\ unsent' = unsent /\ unparsed' = unparsed /\ Status!Pending(c)' = Status!Pending(c)
    BY DEF Status!Pending
  <2> HIDE DEF Status!Refuse
  <2> QED
    BY <1>1, <2>1, <2>2 DEF CallOK
<1>5. ASSUME NEW b \in StatusCall, b # c
      PROVE  CallOK(b)'
  <2>1. Untouched(b)
    BY <1>2, <1>5 DEF Status!TypeOK, Untouched
  <2> QED
    BY <2>1, EachCallOK, UntouchedOK
<1> QED
  BY <1>3, <1>4, <1>5, NextStatusByCall

(***************************************************************************)
(* Two other services are asked.                                           *)
(***************************************************************************)
LEMMA TwoQueries == IsFiniteSet(Status!Query) /\ Cardinality(Status!Query) = 2
<1>1. IsFiniteSet({"volume"}) /\ Cardinality({"volume"}) = 1
  BY FS_Singleton
<1>2. "settings" \notin {"volume"} /\ Status!Query = {"volume"} \cup {"settings"}
  BY DEF Status!Query
<1> QED
  BY <1>1, <1>2, FS_AddElement

(***************************************************************************)
(* However many of the two queries could not be sent, the count is the     *)
(* number of those not answered.                                           *)
(***************************************************************************)
LEMMA AskedStatus ==
  ASSUME Status!StatusInv, NEW c \in StatusCall, NEW failed \in SUBSET Status!Query,
         Status!Ask(c, failed)
  PROVE  Status!StatusInv'
<1> USE DEF Status!Ask, Status!New, Status!RefsTaken
<1>1. ~Refused(c) /\ object[c] = "none" /\ replied[c] = <<>> /\ CallOK(c)
  BY EachCallOK
<1>2. Status!TypeOK
  BY DEF Status!StatusInv
<1>3. Status!TypeOK'
  BY <1>2 DEF Status!TypeOK
<1>4. /\ object'[c] = "live" /\ count'[c] = 2 /\ unsent'[c] = failed
      /\ outstanding'[c] = Status!Query \ failed
      /\ error'[c] = error[c] /\ replied'[c] = replied[c] /\ unparsed'[c] = unparsed[c]
  BY <1>2 DEF Status!TypeOK
<1>5. CallOK(c)'
  <2>1. Status!Pending(c)' = Status!Query
    BY <1>4 DEF Status!Pending
  <2>2. Status!Query # {}
    BY DEF Status!Query
  <2>3. Cardinality(Status!Pending(c))' = 2
    BY <2>1, TwoQueries
  <2>4. /\ Status!Query \subseteq Status!Query /\ 2 \in 0..2
        /\ (Status!Query \ failed) \cap failed = {} /\ unparsed[c] = {} /\ ~error[c]
    BY <1>1 DEF CallOK
  <2> HIDE DEF Status!Ask
  <2> QED
    BY <1>1, <1>4, <2>1, <2>2, <2>3, <2>4 DEF CallOK
<1>6. ASSUME NEW b \in StatusCall, b # c
      PROVE  CallOK(b)'
  <2>1. Untouched(b)
    BY <1>2, <1>6 DEF Status!TypeOK, Untouched
  <2> QED
    BY <2>1, EachCallOK, UntouchedOK
<1> QED
  BY <1>3, <1>5, <1>6, NextStatusByCall

(***************************************************************************)
(* A callback takes one reference. If it was the last, the reply is a      *)
(* status unless this answer or an earlier one did not parse, and the      *)
(* object goes; otherwise the object keeps the mark of an answer that did  *)
(* not parse. The count never wraps: a query that is outstanding is        *)
(* counted.                                                                *)
(***************************************************************************)
LEMMA AnsweredStatus ==
  ASSUME Status!StatusInv, NEW c \in StatusCall, NEW q \in Status!Query,
         NEW parsed \in BOOLEAN, Status!Answer(c, q, parsed)
  PROVE  Status!StatusInv'
<1> DEFINE status == Status!StatusOf(c, parsed)
<1> USE DEF Status!Answer
<1>1. Status!TypeOK /\ CallOK(c) /\ q \in outstanding[c]
  BY EachCallOK DEF Status!StatusInv
<1>2. object[c] = "live" /\ replied[c] = <<>> /\ ~Refused(c) /\ (error[c] <=> unparsed[c] # {})
  BY <1>1 DEF CallOK, Status!Pending
<1>3. /\ IsFiniteSet(Status!Pending(c))
      /\ Cardinality(Status!Pending(c) \ {q}) = Cardinality(Status!Pending(c)) - 1
      /\ Cardinality(Status!Pending(c)) \in 1..2
  <2>1. IsFiniteSet(Status!Query)
    BY TwoQueries
  <2>2. Status!Pending(c) \subseteq Status!Query /\ q \in Status!Pending(c)
    BY <1>1 DEF CallOK, Status!Pending
  <2>3. IsFiniteSet(Status!Pending(c))
    BY <2>1, <2>2, FS_Subset
  <2>4. Cardinality(Status!Pending(c)) \in 0..2
    BY <1>1 DEF CallOK
  <2>5. Cardinality(Status!Pending(c)) # 0
    BY <2>2, <2>3, FS_EmptySet
  <2>6. Cardinality(Status!Pending(c) \ {q}) = Cardinality(Status!Pending(c)) - 1
    <3> HIDE DEF Status!Answer
    <3> QED
      BY <2>2, <2>3, FS_RemoveElement
  <2> QED
    BY <2>3, <2>4, <2>5, <2>6
<1>4. /\ outstanding'[c] = outstanding[c] \ {q} /\ unsent'[c] = unsent[c]
      /\ Status!Pending(c)' = Status!Pending(c) \ {q}
  BY <1>1 DEF Status!TypeOK, CallOK, Status!Pending
<1>5. /\ unparsed'[c] = IF parsed THEN unparsed[c] ELSE unparsed[c] \cup {q}
      /\ unparsed' \in [StatusCall -> SUBSET Status!Query]
  BY <1>1 DEF Status!TypeOK
<1>6. count'[c] = count[c] - 1 /\ count' \in [StatusCall -> 0..2]
  <2>1. count[c] \in 1..2
    BY <1>1, <1>3 DEF CallOK
  <2>2. \A n \in 1..2 : (n + 255) % 256 = n - 1
    OBVIOUS
  <2>3. count' = [count EXCEPT ![c] = count[c] - 1]
    BY <2>1, <2>2 DEF Status!Finalize
  <2> QED
    BY <1>1, <2>1, <2>3 DEF Status!TypeOK
<1>7. count'[c] = Cardinality(Status!Pending(c))'
  BY <1>1, <1>3, <1>4, <1>6 DEF CallOK
<1>8. /\ status \in BOOLEAN /\ (status <=> unparsed'[c] = {})
      /\ error[c] \in BOOLEAN
  BY <1>1, <1>2, <1>5 DEF Status!StatusOf, CallOK
<1> HIDE DEF status
<1>9. /\ outstanding' \in [StatusCall -> SUBSET Status!Query]
      /\ unsent' \in [StatusCall -> SUBSET Status!Query]
      /\ \A b \in StatusCall \ {c} : /\ outstanding'[b] = outstanding[b]
                                    /\ unsent'[b] = unsent[b] /\ unparsed'[b] = unparsed[b]
                                    /\ count'[b] = count[b]
  BY <1>1 DEF Status!TypeOK, Status!Finalize
<1>10. CASE count'[c] = 0
  <2>1. /\ replied' = [replied EXCEPT ![c] = Append(@, status)]
        /\ object' = [object EXCEPT ![c] = "deleted"]
        /\ error' = error
    BY <1>10 DEF Status!Finalize, status
  <2>2. Status!TypeOK'
    <3>1. Append(replied[c], status) \in Seq(BOOLEAN)
      BY <1>1, <1>8, AppendProperties DEF Status!TypeOK
    <3>2. replied' \in [StatusCall -> Seq(BOOLEAN)]
      BY <1>1, <2>1, <3>1 DEF Status!TypeOK
    <3> QED
      BY <1>1, <1>5, <1>6, <1>9, <2>1, <3>2 DEF Status!TypeOK
  <2>3. CallOK(c)'
    <3>1. /\ replied'[c] = Append(<<>>, status) /\ object'[c] = "deleted"
          /\ error'[c] = error[c]
      BY <1>1, <1>2, <2>1 DEF Status!TypeOK
    <3>2. /\ replied'[c] # <<>> /\ Len(replied'[c]) = 1 /\ replied'[c][1] = status
          /\ replied'[c] \in Seq(BOOLEAN)
      BY <1>8, <3>1, EmptySeq, AppendProperties
    <3>3. Status!Pending(c)' = {}
      <4>1. Cardinality(Status!Pending(c))' = 0 /\ IsFiniteSet(Status!Pending(c))'
        BY <1>3, <1>4, <1>7, <1>10, FS_RemoveElement
      <4> QED
        BY <4>1, FS_EmptySet
    <3> HIDE DEF Status!Answer
    <3> QED
      BY <1>1, <1>2, <1>4, <1>5, <1>6, <1>7, <1>8, <1>10, <3>1, <3>2, <3>3 DEF CallOK
  <2>4. ASSUME NEW b \in StatusCall, b # c
        PROVE  CallOK(b)'
    <3>1. Untouched(b)
      BY <1>1, <1>9, <2>1, <2>4 DEF Status!TypeOK, Untouched
    <3> QED
      BY <3>1, EachCallOK, UntouchedOK
  <2> QED
    BY <2>2, <2>3, <2>4, NextStatusByCall
<1>11. CASE count'[c] # 0
  <2>1. /\ error' = [error EXCEPT ![c] = @ \/ ~status]
        /\ replied' = replied /\ object' = object
    BY <1>11 DEF Status!Finalize, status
  <2>2. Status!TypeOK'
    BY <1>1, <1>5, <1>6, <1>8, <1>9, <2>1 DEF Status!TypeOK
  <2>3. CallOK(c)'
    <3>1. /\ replied'[c] = replied[c] /\ object'[c] = object[c]
          /\ error'[c] \in BOOLEAN /\ (error'[c] <=> error[c] \/ ~status)
      BY <1>1, <1>8, <2>1 DEF Status!TypeOK
    <3>2. Status!Pending(c)' # {}
      BY <1>7, <1>11, FS_EmptySet
    <3> HIDE DEF Status!Answer
    <3> QED
      BY <1>1, <1>2, <1>4, <1>5, <1>6, <1>7, <1>8, <1>11, <3>1, <3>2 DEF CallOK
  <2>4. ASSUME NEW b \in StatusCall, b # c
        PROVE  CallOK(b)'
    <3>1. Untouched(b)
      BY <1>1, <1>9, <2>1, <2>4 DEF Status!TypeOK, Untouched
    <3> QED
      BY <3>1, EachCallOK, UntouchedOK
  <2> QED
    BY <2>2, <2>3, <2>4, NextStatusByCall
<1> QED
  BY <1>10, <1>11

-------------------------------------------------------------------------------
(* getAvailableLanguages *)

(***************************************************************************)
(* isValidDisplayId accepts 0 and 1 only, although it converts the int of  *)
(* the payload to an unsigned int.                                         *)
(***************************************************************************)
LEMMA DisplayOfAccepted ==
  ASSUME NEW c \in LanguageCall \cup StatusCall, ~Refused(c)
  PROVE  DisplayIdOf[c] \in Display
<1> DEFINE n == DisplayIdOf[c]
<1>1. n \in Ints /\ Unsigned(n) <= 1 /\ Unsigned(n) \in Nat
  <2>1. n \in Ints
    BY QueriesAssumption
  <2>2. n % Word \in 0..(Word - 1)
    BY <2>1, WordAssumption DEF Ints
  <2> QED
    BY <2>1, <2>2, WordAssumption DEF Refused, Unsigned
<1>5. DisplayIdOf[c] = n
  OBVIOUS
<1> HIDE DEF n
<1>2. n \in -(Word \div 2)..(Word \div 2 - 1) /\ Word \div 2 <= Word - 2 /\ Word \div 2 \in Nat
  BY <1>1, WordAssumption DEF Ints
<1>3. CASE n < 0
  <2>1. n \in (-Word)..(-1)
    BY <1>2, <1>3, WordAssumption
  <2>2. n % Word = n + Word
    BY <2>1, WordAssumption
  <2> QED
    BY <1>1, <1>2, <1>3, <2>2, WordAssumption DEF Unsigned
<1>4. CASE n >= 0
  <2>1. n \in 0..(Word - 1)
    BY <1>2, <1>4, WordAssumption
  <2>2. n % Word = n
    BY <2>1, WordAssumption
  <2> QED
    BY <1>1, <1>4, <1>5, <2>2 DEF Unsigned, Display
<1> QED
  BY <1>2, <1>3, <1>4

(***************************************************************************)
(* Two displays and names that have a factory make two engines of each     *)
(* kind, in bounds.                                                        *)
(***************************************************************************)
LEMMA CompleteConfig ==
  ASSUME config.isObject, config.isNumber, config.displayCount = 2,
         config.tts_engine \in SpeechEngines, config.audio_engine \in AudioEngines
  PROVE  TTSEnginesMade(config) = Display /\ LoadedBy(config) = Display /\ ~Overruns(config)
<1>1. Rounds(config) = 0..1
  <2>1. 2 % Word = 2
    BY WordAssumption
  <2> QED
    BY <2>1 DEF Rounds, Unsigned
<1>2. TTSEnginesMade(config) = Display
  BY <1>1 DEF TTSEnginesMade, ReadFile, CreateTTSEngine, CreateAudioEngine, Display
<1>3. AudioEnginesMade(config) = Display
  BY <1>2 DEF AudioEnginesMade, CreateAudioEngine
<1> QED
  BY <1>2, <1>3 DEF LoadedBy, Overruns

\* What is known of the languages.
LanguagesInv ==
  /\ cache \in [Display -> Seq(Code)]
  /\ fetching \in LanguageCall \cup {NoCall}
  /\ listed \in [LanguageCall -> Seq({NoList} \cup Seq(Code))]
  /\ answers \in [Display -> SUBSET Voices]
  /\ FetchesOnce /\ CachesAnAnswer /\ ListsTheCache

(***************************************************************************)
(* The steps of getStatus leave getAvailableLanguages alone.               *)
(***************************************************************************)
LEMMA LanguagesStutter ==
  ASSUME LanguagesInv, UNCHANGED languageVars
  PROVE  LanguagesInv'
BY DEF LanguagesInv, FetchesOnce, CachesAnAnswer, ListsTheCache, Cached, languageVars

(***************************************************************************)
(* A first reply is the only one, and of one call.                         *)
(***************************************************************************)
LEMMA OneReply ==
  ASSUME LanguagesInv, NEW c \in LanguageCall, listed[c] = <<>>,
         NEW list \in {NoList} \cup Seq(Code), Reply(c, list)
  PROVE  /\ listed' \in [LanguageCall -> Seq({NoList} \cup Seq(Code))]
         /\ listed'[c] = <<list>>
         /\ \A b \in LanguageCall \ {c} : listed'[b] = listed[b]
<1>1. listed' = [listed EXCEPT ![c] = Append(listed[c], list)]
  BY DEF Reply
<1>2. Append(listed[c], list) = <<list>> /\ <<list>> \in Seq({NoList} \cup Seq(Code))
  OBVIOUS
<1> QED
  BY <1>1, <1>2 DEF LanguagesInv

(***************************************************************************)
(* A call that is refused changes no cache.                                *)
(***************************************************************************)
LEMMA RefusedList ==
  ASSUME LanguagesInv, NEW c \in LanguageCall, RefuseList(c)
  PROVE  LanguagesInv'
<1>1. /\ listed[c] = <<>> /\ fetching = NoCall /\ Refused(c) /\ Reply(c, NoList)
      /\ cache' = cache /\ fetching' = NoCall /\ answers' = answers
  BY DEF RefuseList, NewList, MainLoopIsFree
<1>2. /\ listed' \in [LanguageCall -> Seq({NoList} \cup Seq(Code))]
      /\ listed'[c] = <<NoList>>
      /\ \A b \in LanguageCall \ {c} : listed'[b] = listed[b]
  BY <1>1, OneReply
<1>3. CachesAnAnswer' /\ FetchesOnce'
  BY <1>1 DEF LanguagesInv, CachesAnAnswer, FetchesOnce, Cached
<1>4. ListsTheCache'
  BY <1>1, <1>2 DEF LanguagesInv, ListsTheCache
<1> QED
  BY <1>1, <1>2, <1>3, <1>4 DEF LanguagesInv

(***************************************************************************)
(* A list from the cache changes no cache.                                 *)
(***************************************************************************)
LEMMA ListedFromCache ==
  ASSUME LanguagesInv, NEW c \in LanguageCall, ListFromCache(c)
  PROVE  LanguagesInv'
<1>1. /\ listed[c] = <<>> /\ fetching = NoCall /\ ~Refused(c)
      /\ Reply(c, cache[DisplayIdOf[c]])
      /\ cache' = cache /\ fetching' = NoCall /\ answers' = answers
  BY DEF ListFromCache, NewList, MainLoopIsFree
<1>2. cache[DisplayIdOf[c]] \in Seq(Code)
  BY <1>1, DisplayOfAccepted DEF LanguagesInv
<1>3. /\ listed' \in [LanguageCall -> Seq({NoList} \cup Seq(Code))]
      /\ listed'[c] = <<cache[DisplayIdOf[c]]>>
      /\ \A b \in LanguageCall \ {c} : listed'[b] = listed[b]
  BY <1>1, <1>2, OneReply
<1>4. CachesAnAnswer' /\ FetchesOnce'
  BY <1>1 DEF LanguagesInv, CachesAnAnswer, FetchesOnce, Cached
<1>5. ListsTheCache'
  BY <1>1, <1>3 DEF LanguagesInv, ListsTheCache
<1> QED
  BY <1>1, <1>3, <1>4, <1>5 DEF LanguagesInv

(***************************************************************************)
(* A fetch is started for a call that is accepted and for an empty cache.  *)
(***************************************************************************)
LEMMA StartedFetch ==
  ASSUME LanguagesInv, NEW c \in LanguageCall, StartFetch(c)
  PROVE  LanguagesInv'
BY DEF StartFetch, NewList, LanguagesInv, FetchesOnce, CachesAnAnswer, ListsTheCache, Cached

(***************************************************************************)
(* A fetch that failed leaves the cache empty, and so the next call        *)
(* fetches again.                                                          *)
(***************************************************************************)
LEMMA FailedFetch ==
  ASSUME LanguagesInv, FetchFailed
  PROVE  LanguagesInv'
<1>1. /\ fetching # NoCall /\ Reply(fetching, <<>>)
      /\ cache' = cache /\ fetching' = NoCall /\ answers' = answers
  BY DEF FetchFailed
<1>2. fetching \in LanguageCall /\ listed[fetching] = <<>> /\ ~Refused(fetching)
  BY <1>1 DEF LanguagesInv, FetchesOnce
<1>3. /\ listed' \in [LanguageCall -> Seq({NoList} \cup Seq(Code))]
      /\ listed'[fetching] = <<<<>>>>
      /\ \A b \in LanguageCall \ {fetching} : listed'[b] = listed[b]
  BY <1>1, <1>2, OneReply, EmptySeq
<1>4. CachesAnAnswer' /\ FetchesOnce'
  BY <1>1 DEF LanguagesInv, CachesAnAnswer, FetchesOnce, Cached
<1>5. ListsTheCache'
  BY <1>1, <1>2, <1>3 DEF LanguagesInv, ListsTheCache
<1> QED
  BY <1>1, <1>3, <1>4, <1>5 DEF LanguagesInv

(***************************************************************************)
(* A fetch fills the cache it found empty, with the answer it got. Whoever *)
(* was given a list of this display before was given the empty one.        *)
(***************************************************************************)
LEMMA AnsweredFetch ==
  ASSUME LanguagesInv, NEW codes \in Voices, FetchAnswered(codes)
  PROVE  LanguagesInv'
<1> DEFINE d == DisplayIdOf[fetching]
           list == WithCodes(<<>>, codes)
<1>1. /\ fetching \in LanguageCall /\ listed[fetching] = <<>> /\ ~Refused(fetching)
      /\ cache[d] = <<>>
  BY DEF LanguagesInv, FetchesOnce, FetchAnswered, Cached
<1>2. d \in Display
  BY <1>1, DisplayOfAccepted
<1>3. list \in Seq(Code) /\ EachOnceInOrder(list, codes)
  <2>1. codes \in Seq(Code)
    BY QueriesAssumption
  <2> QED
    BY <2>1, WithCodesInOrder
<1>4. /\ cache' = [cache EXCEPT ![d] = list]
      /\ answers' = [answers EXCEPT ![d] = @ \cup {codes}]
      /\ Reply(fetching, cache'[d])
      /\ fetching' = NoCall
  BY <1>1 DEF FetchAnswered
<1> HIDE DEF list
<1>5. /\ cache' \in [Display -> Seq(Code)] /\ answers' \in [Display -> SUBSET Voices]
      /\ cache'[d] = list /\ answers'[d] = answers[d] \cup {codes}
      /\ \A b \in Display \ {d} : cache'[b] = cache[b] /\ answers'[b] = answers[b]
  BY <1>2, <1>3, <1>4 DEF LanguagesInv
<1>6. /\ listed' \in [LanguageCall -> Seq({NoList} \cup Seq(Code))]
      /\ listed'[fetching] = <<list>>
      /\ \A b \in LanguageCall \ {fetching} : listed'[b] = listed[b]
  BY <1>1, <1>3, <1>4, <1>5, OneReply
<1>7. FetchesOnce'
  BY <1>4 DEF FetchesOnce
<1>8. CachesAnAnswer'
  <2> SUFFICES ASSUME NEW b \in Display, cache'[b] # <<>>
               PROVE  \E a \in answers'[b] : EachOnceInOrder(cache'[b], a)
    BY DEF CachesAnAnswer, Cached, EachOnceInOrder
  <2>1. CASE b = d
    BY <1>3, <1>5, <2>1
  <2>2. CASE b # d
    BY <1>5, <2>2 DEF LanguagesInv, CachesAnAnswer, Cached
  <2> QED
    BY <2>1, <2>2
<1>9. ListsTheCache'
  <2> SUFFICES ASSUME NEW b \in LanguageCall
               PROVE  IF Refused(b) THEN listed'[b] \in {<<>>, <<NoList>>}
                      ELSE listed'[b] \in {<<>>, <<<<>>>>, <<cache'[DisplayIdOf[b]]>>}
    BY DEF ListsTheCache, Refused
  <2>1. CASE b = fetching
    BY <1>1, <1>5, <1>6, <2>1
  <2>2. CASE b # fetching /\ ~Refused(b) /\ DisplayIdOf[b] = d
    <3>1. listed[b] \in {<<>>, <<<<>>>>}
      BY <1>1, <2>2 DEF LanguagesInv, ListsTheCache
    <3> QED
      BY <1>6, <2>2, <3>1
  <2>3. CASE b # fetching /\ ~Refused(b) /\ DisplayIdOf[b] # d
    <3>1. cache'[DisplayIdOf[b]] = cache[DisplayIdOf[b]]
      BY <1>5, <2>3, DisplayOfAccepted
    <3> QED
      BY <1>6, <2>3, <3>1 DEF LanguagesInv, ListsTheCache
  <2>4. CASE b # fetching /\ Refused(b)
    BY <1>6, <2>4 DEF LanguagesInv, ListsTheCache
  <2> QED
    BY <2>1, <2>2, <2>3, <2>4
<1> QED
  BY <1>4, <1>5, <1>6, <1>7, <1>8, <1>9 DEF LanguagesInv

-------------------------------------------------------------------------------
(* The invariant of the two methods together *)

(***************************************************************************)
(* The invariant is the invariants of both methods, and of the start.      *)
(***************************************************************************)
LEMMA QueriesByPart ==
  QueriesInv <=> /\ Status!StatusInv /\ LanguagesInv
                 /\ config \in Configs /\ alive \in BOOLEAN
                 /\ CompleteConfigServes
BY DEF QueriesInv, TypeOK, LanguagesInv, Status!StatusInv

(***************************************************************************)
(* Before the first call the caches and the counters are empty, and a      *)
(* process that loaded two engines of each kind did not overrun.           *)
(***************************************************************************)
LEMMA InitHolds == Init => QueriesInv
<1> SUFFICES ASSUME Init
             PROVE  QueriesInv
  OBVIOUS
<1> USE DEF Init
<1>1. Status!StatusInv
  <2>1. Status!TypeOK
    BY EmptySeq DEF Status!Init, Status!TypeOK
  <2>2. ASSUME NEW c \in StatusCall
        PROVE  CallOK(c)
    <3>1. Status!Pending(c) = {}
      BY DEF Status!Init, Status!Pending
    <3> QED
      BY <3>1, FS_EmptySet, EmptySeq DEF Status!Init, CallOK
  <2> QED
    BY <2>1, <2>2, StatusByCall
<1>2. LanguagesInv
  BY EmptySeq DEF LanguagesInv, FetchesOnce, CachesAnAnswer, ListsTheCache, Cached
<1>3. CompleteConfigServes
  BY CompleteConfig DEF CompleteConfigServes
<1> QED
  BY <1>1, <1>2, <1>3, QueriesByPart

(***************************************************************************)
(* One step of a call of getStatus keeps what is known of getStatus.       *)
(***************************************************************************)
LEMMA StatusCallSteps ==
  ASSUME Status!StatusInv, NEW c \in StatusCall, Status!CallStep(c)
  PROVE  Status!StatusInv'
<1>1. ASSUME Status!Refuse(c)
      PROVE  Status!StatusInv'
  BY <1>1, RefusedStatus
<1>2. ASSUME NEW failed \in SUBSET Status!Query, Status!Ask(c, failed)
      PROVE  Status!StatusInv'
  BY <1>2, AskedStatus
<1>3. ASSUME NEW q \in Status!Query, NEW parsed \in BOOLEAN, Status!Answer(c, q, parsed)
      PROVE  Status!StatusInv'
  BY <1>3, AnsweredStatus
<1> QED
  BY <1>1, <1>2, <1>3 DEF Status!CallStep, Status!Answered

(***************************************************************************)
(* A call that uses an engine that is missing ends the process; with two   *)
(* engines of each kind none is missing.                                   *)
(***************************************************************************)
LEMMA MissingEngine ==
  ASSUME QueriesInv, NEW c \in LanguageCall \cup StatusCall, UsesMissingEngine(c)
  PROVE  QueriesInv'
<1>1. /\ Status!StatusInv' /\ LanguagesInv'
      /\ config' = config /\ alive' = FALSE
  <2>1. /\ UNCHANGED statusVars /\ UNCHANGED languageVars
        /\ config' = config /\ alive' = FALSE
    BY DEF UsesMissingEngine
  <2>2. Status!StatusInv /\ LanguagesInv
    BY QueriesByPart
  <2> QED
    BY <2>1, <2>2, StatusStutters, LanguagesStutter
<1>2. ~Refused(c) /\ ~HasEngine(DisplayIdOf[c])
  BY DEF UsesMissingEngine
<1>3. TTSEnginesMade(config) # Display
  BY <1>2, DisplayOfAccepted DEF HasEngine
<1>4. CompleteConfigServes'
  BY <1>1, <1>3, CompleteConfig DEF CompleteConfigServes
<1>5. config \in Configs /\ alive' \in BOOLEAN
  BY <1>1, QueriesByPart
<1> QED
  BY <1>1, <1>4, <1>5 DEF QueriesInv, TypeOK, LanguagesInv, Status!StatusInv

(***************************************************************************)
(* Every step keeps the invariant: a step of one method leaves the other   *)
(* as it is, and both leave the configuration.                             *)
(***************************************************************************)
LEMMA NextHolds == QueriesInv /\ [Next]_vars => QueriesInv'
<1> SUFFICES ASSUME QueriesInv, [Next]_vars
             PROVE  QueriesInv'
  OBVIOUS
<1>1. /\ Status!StatusInv /\ LanguagesInv
      /\ config \in Configs /\ alive \in BOOLEAN
      /\ CompleteConfigServes
  BY QueriesByPart
<1>2. ASSUME Status!StatusInv', LanguagesInv', UNCHANGED <<config, alive>>
      PROVE  QueriesInv'
  <2>1. CompleteConfigServes'
    BY <1>1, <1>2 DEF CompleteConfigServes, LoadedBy, AudioEnginesMade, TTSEnginesMade,
         Rounds, ReadFile, CreateTTSEngine, CreateAudioEngine
  <2> QED
    BY <1>1, <1>2, <2>1 DEF QueriesInv, TypeOK, LanguagesInv, Status!StatusInv
<1>3. ASSUME LanguagesInv', UNCHANGED <<statusVars, config, alive>>
      PROVE  QueriesInv'
  BY <1>1, <1>2, <1>3, StatusStutters
<1>4. ASSUME NEW c \in LanguageCall, RefuseList(c)
      PROVE  QueriesInv'
  <2>1. UNCHANGED <<statusVars, config, alive>>
    BY <1>4 DEF RefuseList
  <2> QED
    BY <1>1, <1>3, <1>4, <2>1, RefusedList
<1>5. ASSUME NEW c \in LanguageCall, ListFromCache(c)
      PROVE  QueriesInv'
  <2>1. UNCHANGED <<statusVars, config, alive>>
    BY <1>5 DEF ListFromCache
  <2> QED
    BY <1>1, <1>3, <1>5, <2>1, ListedFromCache
<1>6. ASSUME NEW c \in LanguageCall, StartFetch(c)
      PROVE  QueriesInv'
  <2>1. UNCHANGED <<statusVars, config, alive>>
    BY <1>6 DEF StartFetch
  <2> QED
    BY <1>1, <1>3, <1>6, <2>1, StartedFetch
<1>7. ASSUME NEW codes \in Voices, FetchAnswered(codes)
      PROVE  QueriesInv'
  <2>1. UNCHANGED <<statusVars, config, alive>>
    BY <1>7 DEF FetchAnswered
  <2> QED
    BY <1>1, <1>3, <1>7, <2>1, AnsweredFetch
<1>8. ASSUME FetchFailed
      PROVE  QueriesInv'
  <2>1. UNCHANGED <<statusVars, config, alive>>
    BY <1>8 DEF FetchFailed
  <2> QED
    BY <1>1, <1>3, <1>8, <2>1, FailedFetch
<1>9. ASSUME NEW c \in StatusCall, StatusStep(c)
      PROVE  QueriesInv'
  <2>1. Status!CallStep(c) /\ UNCHANGED <<languageVars, config, alive>>
    BY <1>9 DEF StatusStep
  <2>2. Status!StatusInv'
    BY <1>1, <2>1, StatusCallSteps
  <2>3. LanguagesInv'
    BY <1>1, <2>1, LanguagesStutter
  <2> QED
    BY <1>2, <2>1, <2>2, <2>3
<1>10. ASSUME NEW c \in LanguageCall \cup StatusCall, UsesMissingEngine(c)
       PROVE  QueriesInv'
  BY <1>10, MissingEngine
<1>11. ASSUME UNCHANGED vars
       PROVE  QueriesInv'
  <2>1. UNCHANGED <<statusVars, config, alive>> /\ UNCHANGED languageVars
    BY <1>11 DEF vars, languageVars
  <2> QED
    BY <1>1, <1>3, <2>1, LanguagesStutter
<1>12. CASE Next
  BY <1>4, <1>5, <1>6, <1>7, <1>8, <1>9, <1>10, <1>11, <1>12 DEF Next, VoiceServer, Quiet
<1> QED
  BY <1>11, <1>12

(***************************************************************************)
(* QueriesInv is inductive, for every set of calls and displays they name, *)
(* every answer of the voice server, every configuration and every fault.  *)
(***************************************************************************)
THEOREM QueriesInductive == Spec => []QueriesInv
BY InitHolds, NextHolds, PTL DEF Spec

-------------------------------------------------------------------------------
(* What clients rely on *)

(***************************************************************************)
(* The variables of both methods keep their types: the reference count of  *)
(* a GetStatusRequest never wraps, and no cache holds a code that no voice *)
(* has.                                                                    *)
(***************************************************************************)
THEOREM TypeCorrect == Spec => []TypeOK
BY QueriesInductive, PTL DEF QueriesInv

(***************************************************************************)
(* A client is given the codes of one answer the voice server gave to the  *)
(* engine of its own display, each once and in order, or an empty list, or *)
(* it is refused.                                                          *)
(***************************************************************************)
THEOREM ListsAnAnswerAlways == Spec => []ListsAnAnswer
<1>1. ASSUME QueriesInv
      PROVE  ListsAnAnswer
  <2> SUFFICES ASSUME NEW c \in LanguageCall, NEW i \in 1..Len(listed[c])
               PROVE  \/ Refused(c) /\ listed[c][i] = NoList
                      \/ ~Refused(c) /\ listed[c][i] = <<>>
                      \/ /\ ~Refused(c)
                         /\ \E codes \in answers[DisplayIdOf[c]] :
                              EachOnceInOrder(listed[c][i], codes)
    BY DEF ListsAnAnswer
  <2>1. FetchesOnce /\ CachesAnAnswer /\ ListsTheCache
    BY <1>1 DEF QueriesInv
  <2>2. CASE Refused(c)
    <3>1. listed[c] \in {<<>>, <<NoList>>}
      BY <2>1, <2>2 DEF ListsTheCache
    <3>2. 1..Len(<<>>) = {} /\ 1..Len(<<NoList>>) = {1}
      BY EmptySeq
    <3>3. listed[c] = <<NoList>> /\ i = 1
      BY <3>1, <3>2
    <3> QED
      BY <2>2, <3>3
  <2>3. CASE ~Refused(c)
    <3> DEFINE d == DisplayIdOf[c]
    <3>1. listed[c] \in {<<>>, <<<<>>>>, <<cache[d]>>} /\ d \in Display
      BY <2>1, <2>3, DisplayOfAccepted DEF ListsTheCache
    <3>2. listed[c] \in {<<<<>>>>, <<cache[d]>>} /\ i = 1
      <4>1. 1..Len(<<>>) = {} /\ 1..Len(<<<<>>>>) = {1} /\ 1..Len(<<cache[d]>>) = {1}
        BY EmptySeq
      <4> QED
        BY <3>1, <4>1
    <3>3. listed[c][i] \in {<<>>, cache[d]}
      BY <3>2
    <3>4. cache[d] = <<>> \/ \E codes \in answers[d] : EachOnceInOrder(cache[d], codes)
      BY <2>1, <3>1 DEF CachesAnAnswer, Cached
    <3> QED
      BY <2>3, <3>3, <3>4
  <2> QED
    BY <2>2, <2>3
<1> QED
  BY <1>1, QueriesInductive, PTL

(***************************************************************************)
(* Whoever asks a display that has given languages is given the same, and  *)
(* is never sent away with an empty list: the cache is filled once, and a  *)
(* fetch is started only while it is empty (getLanguages).                 *)
(***************************************************************************)
THEOREM ListIsStableAlways == Spec => ListIsStable
<1> DEFINE Stable ==
             \A a, b \in {c \in LanguageCall : ~Refused(c)} :
               DisplayIdOf[a] = DisplayIdOf[b] /\ listed[a] \notin {<<>>, <<<<>>>>}
                 /\ listed'[b] # listed[b] => listed'[b] = listed[a]
<1>1. ASSUME QueriesInv, Next,
             NEW a \in {c \in LanguageCall : ~Refused(c)},
             NEW b \in {c \in LanguageCall : ~Refused(c)},
             DisplayIdOf[a] = DisplayIdOf[b], listed[a] \notin {<<>>, <<<<>>>>},
             listed'[b] # listed[b]
      PROVE  listed'[b] = listed[a]
  <2>1. listed[a] = <<cache[DisplayIdOf[b]]>> /\ Cached(DisplayIdOf[b])
    BY <1>1 DEF QueriesInv, ListsTheCache, Cached
  <2>2. DOMAIN listed = LanguageCall
    BY <1>1 DEF QueriesInv, TypeOK
  <2>3. ASSUME NEW c \in LanguageCall, ListFromCache(c)
        PROVE  listed'[b] = listed[a]
    <3>1. c = b /\ listed[c] = <<>>
      BY <1>1, <2>2, <2>3 DEF ListFromCache, NewList, Reply
    <3>2. listed'[b] = Append(<<>>, cache[DisplayIdOf[b]])
      BY <2>2, <2>3, <3>1 DEF ListFromCache, Reply
    <3> QED
      BY <2>1, <3>2
  <2>4. ~VoiceServer
    <3>1. fetching # NoCall => fetching # b
      BY <1>1, <2>1 DEF QueriesInv, FetchesOnce
    <3> QED
      BY <1>1, <2>2, <3>1 DEF VoiceServer, FetchAnswered, FetchFailed, Reply
  <2>5. \A c \in LanguageCall : ~RefuseList(c) /\ ~StartFetch(c)
    BY <1>1, <2>2 DEF RefuseList, StartFetch, Reply
  <2>6. /\ \A c \in StatusCall : ~StatusStep(c)
        /\ \A c \in LanguageCall \cup StatusCall : ~UsesMissingEngine(c)
        /\ ~Quiet
    BY <1>1 DEF StatusStep, UsesMissingEngine, Quiet, languageVars, vars
  <2> QED
    BY <1>1, <2>3, <2>4, <2>5, <2>6 DEF Next
<1>2. QueriesInv /\ [Next]_vars => [Stable]_vars
  BY <1>1
<1> QED
  BY <1>2, QueriesInductive, PTL DEF Spec, ListIsStable

(***************************************************************************)
(* With the configuration the package installs, no query ends the process, *)
(* and both displays can speak.                                            *)
(***************************************************************************)
THEOREM CompleteConfigServesAlways == Spec => []CompleteConfigServes
BY QueriesInductive, PTL DEF QueriesInv

(***************************************************************************)
(* The object that collects a status is deleted with the one reply, and no *)
(* callback comes for it afterwards, whatever could not be sent.           *)
(***************************************************************************)
THEOREM DeletedWithReplyAlways == Spec => []DeletedWithReply
BY QueriesInductive, PTL DEF QueriesInv, Status!StatusInv, DeletedWithReply

(***************************************************************************)
(* A client gets a status exactly if both services answered and both       *)
(* answers parsed, in whichever order they came.                           *)
(***************************************************************************)
THEOREM FailureIsReportedAlways == Spec => []FailureIsReported
BY QueriesInductive, PTL DEF QueriesInv, Status!StatusInv, FailureIsReported
===============================================================================
