----------------------------- MODULE ThrPoolProofs -----------------------------
(* Proofs for ThrPool: the counts of threads at a place and of elements in the  *)
(* queue, no lost signal, and every accepted job in exactly one place.          *)
EXTENDS ThrPool, FiniteSetTheorems, FunctionTheorems, TLAPS

--------------------------------------------------------------------------------
(* Counting.                                                                    *)

\* Thread t goes to s.
Goes(pc, t, s, new) == new = [pc EXCEPT ![t] = s]

\* A thread that goes from one place to another leaves the first and is counted at
\* the second.
LEMMA AtCount ==
    ASSUME NEW T, IsFiniteSet(T), NEW S, NEW pc \in [T -> S], NEW t \in T, NEW s \in S,
           NEW new, Goes(pc, t, s, new), NEW a
    PROVE  /\ IsFiniteSet(At(pc, T, a)) /\ Cardinality(At(pc, T, a)) \in Nat
           /\ Cardinality(At(new, T, a)) =
                 Cardinality(At(pc, T, a)) + (IF s = a THEN 1 ELSE 0)
                                           - (IF pc[t] = a THEN 1 ELSE 0)
<1> DEFINE A == At(pc, T, a)
           B == At(new, T, a)
<1> SUFFICES /\ IsFiniteSet(A) /\ Cardinality(A) \in Nat
             /\ Cardinality(B) = Cardinality(A) + (IF s = a THEN 1 ELSE 0)
                                                - (IF pc[t] = a THEN 1 ELSE 0)
  OBVIOUS
<1>1. IsFiniteSet(A) /\ Cardinality(A) \in Nat
  BY FS_Subset, FS_CardinalityType DEF At, Goes
<1>2. CASE s = a /\ pc[t] = a
  <2>1. B = A
    BY <1>2 DEF At, Goes
  <2> HIDE DEF A, B
  <2> QED
    BY <1>1, <1>2, <2>1
<1>3. CASE s = a /\ pc[t] # a
  <2>1. B = A \cup {t} /\ t \notin A
    BY <1>3 DEF At, Goes
  <2>2. Cardinality(A \cup {t}) = Cardinality(A) + 1
    BY <1>1, <2>1, FS_AddElement, Zenon
  <2> HIDE DEF A, B
  <2> QED
    BY <1>1, <1>3, <2>1, <2>2
<1>4. CASE s # a /\ pc[t] = a
  <2>1. B = A \ {t} /\ t \in A
    BY <1>4 DEF At, Goes
  <2>2. Cardinality(A \ {t}) = Cardinality(A) - 1
    BY <1>1, <2>1, FS_RemoveElement, Zenon
  <2> HIDE DEF A, B
  <2> QED
    BY <1>1, <1>4, <2>1, <2>2
<1>5. CASE s # a /\ pc[t] # a
  <2>1. B = A
    BY <1>5 DEF At, Goes
  <2> HIDE DEF A, B
  <2> QED
    BY <1>1, <1>5, <2>1
<1> QED
  BY <1>2, <1>3, <1>4, <1>5

\* How often j is in the queue.
Occ(q, j) == Cardinality({i \in 1..Len(q) : q[i] = j})

LEMMA OccType ==
    ASSUME NEW S, NEW q \in Seq(S), NEW j
    PROVE  IsFiniteSet({i \in 1..Len(q) : q[i] = j}) /\ Occ(q, j) \in Nat
<1>1. IsFiniteSet(1..Len(q))
  BY FS_Interval
<1>2. {i \in 1..Len(q) : q[i] = j} \in SUBSET (1..Len(q))
  OBVIOUS
<1>3. IsFiniteSet({i \in 1..Len(q) : q[i] = j})
  BY <1>1, <1>2, FS_Subset
<1> QED
  BY <1>3, FS_CardinalityType DEF Occ

LEMMA OccAppend ==
    ASSUME NEW S, NEW q \in Seq(S), NEW e \in S, NEW j
    PROVE  Occ(Append(q, e), j) = Occ(q, j) + (IF e = j THEN 1 ELSE 0)
<1> DEFINE A == {i \in 1..Len(q) : q[i] = j}
           B == {i \in 1..Len(Append(q, e)) : Append(q, e)[i] = j}
           n == Len(q) + 1
<1>0. IsFiniteSet(A) /\ Cardinality(A) \in Nat
  BY OccType, Zenon DEF Occ
<1>1. /\ Len(q) \in Nat /\ Len(Append(q, e)) = n /\ Append(q, e)[n] = e
      /\ \A i \in 1..Len(q) : Append(q, e)[i] = q[i]
  OBVIOUS
<1>2. n \notin A
  BY <1>1
<1>3. CASE e = j
  <2>1. B = A \cup {n}
    BY <1>1, <1>3
  <2>2. Cardinality(A \cup {n}) = Cardinality(A) + 1
    BY <1>0, <1>2, FS_AddElement, Zenon
  <2>3. Occ(Append(q, e), j) = Cardinality(B) /\ Occ(q, j) = Cardinality(A)
    BY DEF Occ
  <2> HIDE DEF A, B, n
  <2> QED
    BY <1>0, <1>3, <2>1, <2>2, <2>3
<1>4. CASE e # j
  <2>1. B = A
    BY <1>1, <1>4
  <2>2. Occ(Append(q, e), j) = Cardinality(B) /\ Occ(q, j) = Cardinality(A)
    BY DEF Occ
  <2> HIDE DEF A, B
  <2> QED
    BY <1>0, <1>4, <2>1, <2>2
<1> QED
  BY <1>3, <1>4

LEMMA OccTail ==
    ASSUME NEW S, NEW q \in Seq(S), q # <<>>, NEW j
    PROVE  Occ(Tail(q), j) = Occ(q, j) - (IF Head(q) = j THEN 1 ELSE 0)
<1> DEFINE A == {i \in 1..Len(q) : q[i] = j}
           B == {i \in 1..Len(Tail(q)) : Tail(q)[i] = j}
           C == A \ {1}
<1>0. IsFiniteSet(A) /\ Cardinality(A) \in Nat
  BY OccType, Zenon DEF Occ
<1>1. /\ Len(q) \in Nat /\ Len(q) > 0 /\ Len(Tail(q)) = Len(q) - 1 /\ Head(q) = q[1]
      /\ \A i \in 1..(Len(q) - 1) : Tail(q)[i] = q[i + 1]
  OBVIOUS
<1>2. IsFiniteSet(C) /\ Cardinality(C) = Cardinality(A) - (IF q[1] = j THEN 1 ELSE 0)
  <2>1. 1 \in A <=> q[1] = j
    BY <1>1
  <2>2. IsFiniteSet(C) /\ Cardinality(C) = IF 1 \in A THEN Cardinality(A) - 1 ELSE Cardinality(A)
    BY <1>0, FS_RemoveElement, Zenon
  <2> QED
    BY <1>0, <2>1, <2>2
<1>3. Cardinality(B) = Cardinality(C)
  <2> DEFINE f == [i \in C |-> i - 1]
  <2>1. \A i \in C : i \in Nat /\ i > 1 /\ i <= Len(q) /\ q[i] = j
    BY <1>1
  <2>2. f \in [C -> B]
    BY <1>1, <2>1
  <2>3. \A i, k \in C : f[i] = f[k] => i = k
    BY <2>1
  <2>4. \A i \in B : i + 1 \in C /\ f[i + 1] = i
    BY <1>1
  <2>5. f \in Bijection(C, B)
    BY <2>2, <2>3, <2>4, Fun_IsBij
  <2>6. ExistsBijection(C, B)
    BY <2>5 DEF ExistsBijection
  <2> HIDE DEF B, C
  <2> QED
    BY <1>2, <2>6, FS_Bijection
<1> QED
  BY <1>0, <1>1, <1>2, <1>3, Zenon DEF Occ

--------------------------------------------------------------------------------
(* Types, and who may be where.                                                 *)

\* Thread e is inside fifo::enq.
Inside(e) == epc[e] \in {"enq", "full"}

\* Jobs on offer are new, each of one producer, and the destructor runs alone.
OfferInv ==
    /\ accepted \subseteq 1..njobs
    /\ \A p \in Producers : epc[p] \in {"idle", "enq", "full"}
    /\ \A p \in Producers : Inside(p) => item[p] \in (1..njobs) \ accepted
    /\ \A p, r \in Producers : Inside(p) /\ Inside(r) /\ item[p] = item[r] => p = r
    /\ epc[Main] # "idle" => item[Main] = Pill /\ \A p \in Producers : epc[p] = "idle"

\* A worker holds a job while it runs it, and only then.
WorkInv ==
    \A w \in Workers : /\ wpc[w] = "run" => wjob[w] \in Jobs
                       /\ wpc[w] # "run" => wjob[w] = Pill

\* The destructor has pills to enqueue as long as it is enqueueing.
MainInv ==
    /\ epc[Main] \in {"idle", "join", "closed"} => pills = 0
    /\ Inside(Main) => pills > 0
    /\ epc[Main] = "closed" => AllJoined

BaseInv == TypeOK /\ OfferInv /\ WorkInv /\ MainInv

\* pthread_cond_signal wakes one waiting thread, if there is one.
LEMMA SignalEffect ==
    ASSUME NEW T, NEW pc, NEW a, NEW s, NEW new \in Signal(pc, T, a, s)
    PROVE  \/ At(pc, T, a) = {} /\ new = pc
           \/ \E t \in T : pc[t] = a /\ new = [pc EXCEPT ![t] = s]
BY DEF Signal, At

LEMMA BaseInit == Init => BaseInv
<1> SUFFICES ASSUME Init PROVE BaseInv
  OBVIOUS
<1>1. Cardinality(Workers) \in Nat
  BY PoolAssumption, FS_CardinalityType
<1>2. q_ \in Seq(Jobs \cup {Pill}) /\ Len(q_) = 0
  BY DEF Init
<1>3. TypeOK
  BY <1>1, <1>2, PoolAssumption DEF Init, TypeOK
<1>4. \A e \in Enqueuers : epc[e] = "idle"
  BY DEF Init
<1>5. OfferInv /\ MainInv
  BY <1>4 DEF OfferInv, MainInv, Init, Inside, Enqueuers
<1>6. WorkInv
  BY DEF WorkInv, Init
<1> QED
  BY <1>3, <1>5, <1>6 DEF BaseInv

\* A step that only wakes threads inside enq, or puts them back to sleep.
LEMMA OfferKept ==
    ASSUME OfferInv, MainInv, UNCHANGED <<accepted, njobs, item, pills>>,
           \A e \in Enqueuers : epc'[e] = epc[e] \/ (Inside(e) /\ Inside(e)'),
           epc[Main] = "closed" /\ AllJoined => AllJoined'
    PROVE  OfferInv' /\ MainInv'
<1>1. \A e \in Enqueuers : Inside(e)' <=> Inside(e)
  BY DEF Inside
<1>2. \A e \in Enqueuers, s \in {"idle", "join", "closed"} : epc'[e] = s <=> epc[e] = s
  BY DEF Inside
<1>3. Main \in Enqueuers /\ Producers \subseteq Enqueuers
  BY DEF Enqueuers
<1>4. \A p \in Producers : epc'[p] \in {"idle", "enq", "full"}
  BY <1>3 DEF OfferInv, Inside
<1>5. OfferInv'
  BY <1>1, <1>2, <1>3, <1>4 DEF OfferInv
<1>6. MainInv'
  BY <1>1, <1>2, <1>3 DEF MainInv
<1> QED
  BY <1>5, <1>6

LEMMA BaseNext == BaseInv /\ [Next]_vars => BaseInv'
<1> SUFFICES ASSUME BaseInv, [Next]_vars PROVE BaseInv'
  OBVIOUS
<1> USE PoolAssumption
<1> DEFINE WPc == {"deq", "empty", "run", "exit"}
           EPc == {"idle", "enq", "full", "join", "closed"}
           Q == Jobs \cup {Pill}
<1>0. /\ wpc \in [Workers -> WPc] /\ epc \in [Enqueuers -> EPc]
      /\ q_ \in Seq(Q) /\ (Capacity # 0 => Len(q_) <= Capacity) /\ Len(q_) \in Nat
      /\ item \in [Enqueuers -> Q] /\ wjob \in [Workers -> Q]
      /\ njobs \in 0..MaxJobs /\ pills \in 0..Cardinality(Workers)
      /\ blockadd_ \in BOOLEAN /\ accepted \in SUBSET Jobs /\ done \in SUBSET Jobs
      /\ Cardinality(Workers) \in Nat
  BY FS_CardinalityType DEF BaseInv, TypeOK
<1>00. /\ OfferInv /\ WorkInv /\ MainInv
       /\ Main \in Enqueuers /\ Producers \subseteq Enqueuers /\ Main \notin Producers
  BY DEF BaseInv, Enqueuers
<1>1. ASSUME NEW p \in Producers, addJob(p) PROVE BaseInv'
  <2>1. njobs' = njobs + 1 /\ njobs' \in 0..MaxJobs /\ njobs' \in Jobs
    BY <1>0, <1>1 DEF addJob, Jobs
  <2>2. /\ item' = [item EXCEPT ![p] = njobs'] /\ epc' = [epc EXCEPT ![p] = "enq"]
        /\ UNCHANGED <<wpc, wjob, pills, accepted>> /\ epc[Main] = "idle"
    BY <1>1, <2>1 DEF addJob
  <2>3. TypeOK'
    <3>1. item' \in [Enqueuers -> Q] /\ epc' \in [Enqueuers -> EPc]
      BY <1>0, <1>00, <2>1, <2>2
    <3> QED
      BY <1>0, <1>1, <2>1, <3>1 DEF addJob, TypeOK
  <2>4. /\ epc'[Main] = "idle" /\ epc'[p] = "enq" /\ item'[p] = njobs'
        /\ \A r \in Producers : r # p => epc'[r] = epc[r] /\ item'[r] = item[r]
    BY <1>0, <1>00, <2>2
  <2>5. accepted' \subseteq 1..njobs' /\ njobs' \notin accepted' /\ 1..njobs \subseteq 1..njobs'
    BY <1>0, <1>00, <2>1, <2>2 DEF OfferInv
  <2>6. ASSUME NEW r \in Producers, Inside(r)'
        PROVE  item'[r] \in (1..njobs') \ accepted'
    <3>1. CASE r = p
      BY <1>0, <2>1, <2>4, <2>5, <3>1
    <3>2. CASE r # p
      <4>1. Inside(r)
        BY <2>4, <2>6, <3>2 DEF Inside
      <4> QED
        BY <1>00, <2>2, <2>4, <2>5, <3>2, <4>1 DEF OfferInv
    <3> QED
      BY <3>1, <3>2
  <2>7. ASSUME NEW r \in Producers, r # p, Inside(r)' PROVE item'[r] # njobs'
    <3>1. Inside(r) /\ item'[r] = item[r]
      BY <2>4, <2>7 DEF Inside
    <3>2. item[r] \in 1..njobs
      BY <1>00, <3>1 DEF OfferInv
    <3> QED
      BY <1>0, <2>1, <3>1, <3>2
  <2>8. \A r, s \in Producers : Inside(r)' /\ Inside(s)' /\ item'[r] = item'[s] => r = s
    <3> SUFFICES ASSUME NEW r \in Producers, NEW s \in Producers, Inside(r)', Inside(s)',
                        item'[r] = item'[s]
                 PROVE  r = s
      OBVIOUS
    <3>1. CASE r = p \/ s = p
      BY <2>4, <2>7, <3>1
    <3>2. CASE r # p /\ s # p
      <4>1. Inside(r) /\ Inside(s) /\ item[r] = item[s]
        BY <2>4, <3>2 DEF Inside
      <4> QED
        BY <1>00, <4>1 DEF OfferInv
    <3> QED
      BY <3>1, <3>2
  <2>9. OfferInv'
    <3>1. \A r \in Producers : epc'[r] \in {"idle", "enq", "full"}
      BY <1>00, <2>4 DEF OfferInv
    <3> QED
      BY <2>4, <2>5, <2>6, <2>8, <3>1 DEF OfferInv
  <2>10. WorkInv' /\ MainInv'
    BY <1>00, <2>2, <2>4 DEF WorkInv, MainInv, Inside
  <2> QED
    BY <2>3, <2>9, <2>10 DEF BaseInv
<1>2. ASSUME NEW e \in Enqueuers, enq(e) PROVE BaseInv'
  <2>0. /\ epc[e] = "enq" /\ UNCHANGED <<blockadd_, wjob, item, njobs, done>>
        /\ e # Main => e \in Producers
    BY <1>2 DEF enq, Enqueuers
  <2>1. CASE ~HasRoom
    <3>1. /\ UNCHANGED <<q_, wpc, pills, accepted>>
          /\ epc' = [epc EXCEPT ![e] = IF e = Main \/ blockadd_ THEN "full" ELSE "idle"]
      BY <1>2, <2>1 DEF enq
    <3>2. TypeOK'
      BY <1>0, <2>0, <3>1 DEF TypeOK
    <3>3. /\ epc'[e] \in {"full", "idle"} /\ (e = Main => epc'[e] = "full")
          /\ \A f \in Enqueuers : f # e => epc'[f] = epc[f]
      BY <1>0, <3>1
    <3>4. OfferInv'
      <4>1. \A p \in Producers : /\ epc'[p] \in {"idle", "enq", "full"}
                                 /\ Inside(p)' => Inside(p)
                                 /\ epc[p] = "idle" => epc'[p] = "idle"
        BY <1>00, <2>0, <3>3 DEF OfferInv, Inside
      <4>2. epc'[Main] # "idle" => epc[Main] # "idle"
        BY <1>00, <2>0, <3>3
      <4> QED
        BY <1>00, <2>0, <3>1, <4>1, <4>2 DEF OfferInv
    <3>5. MainInv'
      <4>1. AllJoined' <=> AllJoined
        BY <3>1 DEF AllJoined
      <4> QED
        BY <1>00, <2>0, <3>1, <3>3, <4>1 DEF MainInv, Inside
    <3>6. WorkInv'
      BY <1>00, <2>0, <3>1 DEF WorkInv
    <3> QED
      BY <3>2, <3>4, <3>5, <3>6 DEF BaseInv
  <2>2. CASE HasRoom
    <3>1. /\ q_' = Append(q_, item[e])
          /\ wpc' \in Signal(wpc, Workers, "empty", "deq")
          /\ epc' = [epc EXCEPT ![e] = Enqueued(e)]
          /\ pills' = IF e = Main THEN pills - 1 ELSE pills
          /\ accepted' = IF e = Main THEN accepted ELSE accepted \cup {item[e]}
      BY <1>2, <2>2 DEF enq
    <3>2. \/ wpc' = wpc
          \/ \E w \in Workers : wpc[w] = "empty" /\ wpc' = [wpc EXCEPT ![w] = "deq"]
      BY <3>1, SignalEffect
    <3>3. /\ wpc' \in [Workers -> WPc]
          /\ \A w \in Workers : wpc'[w] # wpc[w] => wpc[w] = "empty" /\ wpc'[w] = "deq"
      BY <1>0, <3>2
    <3>4. WorkInv'
      BY <1>00, <2>0, <3>3 DEF WorkInv
    <3>5. q_' \in Seq(Q) /\ (Capacity # 0 => Len(q_') <= Capacity)
      BY <1>0, <2>2, <3>1 DEF HasRoom
    <3>6. epc' \in [Enqueuers -> EPc] /\ epc'[e] = Enqueued(e)
          /\ \A f \in Enqueuers : f # e => epc'[f] = epc[f]
      BY <1>0, <3>1 DEF Enqueued
    <3>7. CASE e = Main
      <4>1. pills > 0 /\ pills' = pills - 1 /\ accepted' = accepted
        BY <1>00, <2>0, <3>1, <3>7 DEF MainInv, Inside
      <4>2. TypeOK'
        BY <1>0, <2>0, <3>3, <3>5, <3>6, <4>1 DEF TypeOK
      <4>3. epc'[Main] = IF pills > 1 THEN "enq" ELSE "join"
        BY <3>6, <3>7 DEF Enqueued
      <4>4. MainInv'
        BY <1>0, <4>1, <4>3 DEF MainInv, Inside
      <4>5. \A p \in Producers : epc[p] = "idle" /\ epc'[p] = "idle"
        BY <1>00, <2>0, <3>6, <3>7 DEF OfferInv
      <4>6. OfferInv'
        BY <1>00, <2>0, <3>7, <4>1, <4>5 DEF OfferInv, Inside
      <4> QED
        BY <3>4, <4>2, <4>4, <4>6 DEF BaseInv
    <3>8. CASE e # Main
      <4>1. e \in Producers /\ epc'[e] = "idle" /\ pills' = pills
            /\ accepted' = accepted \cup {item[e]} /\ epc'[Main] = epc[Main]
        BY <1>00, <2>0, <3>1, <3>6, <3>8 DEF Enqueued
      <4>2. item[e] \in (1..njobs) \ accepted /\ Inside(e)
        BY <1>00, <2>0, <4>1 DEF OfferInv, Inside
      <4>3. accepted' \in SUBSET Jobs
        <5>1. item[e] \in Jobs
          BY <1>0, <4>2 DEF Jobs
        <5> QED
          BY <1>0, <4>1, <5>1
      <4>4. TypeOK'
        BY <1>0, <2>0, <3>3, <3>5, <3>6, <4>1, <4>3 DEF TypeOK
      <4>5. epc[Main] = "idle"
        BY <1>00, <2>0, <4>1 DEF OfferInv
      <4>6. MainInv'
        BY <1>00, <4>1, <4>5 DEF MainInv, Inside
      <4>7. ASSUME NEW p \in Producers, Inside(p)'
            PROVE  p # e /\ Inside(p) /\ item[p] # item[e]
        BY <1>00, <3>6, <4>1, <4>2, <4>7 DEF Inside, OfferInv
      <4>8. \A p \in Producers : epc'[p] \in {"idle", "enq", "full"}
        BY <1>00, <3>6, <4>1 DEF OfferInv
      <4>9. accepted' \subseteq 1..njobs'
        BY <1>00, <2>0, <4>1, <4>2, Zenon DEF OfferInv
      <4>10. OfferInv'
        BY <1>00, <2>0, <4>1, <4>5, <4>7, <4>8, <4>9 DEF OfferInv
      <4> QED
        BY <3>4, <4>4, <4>6, <4>10 DEF BaseInv
    <3> QED
      BY <3>7, <3>8
  <2> QED
    BY <2>1, <2>2
<1>3. ASSUME NEW w \in Workers, deq(w) PROVE BaseInv'
  <2>0. wpc[w] = "deq" /\ UNCHANGED <<blockadd_, item, njobs, pills, accepted, done>>
    BY <1>3 DEF deq
  <2>1. ~AllJoined
    BY <2>0 DEF AllJoined
  <2>2. CASE q_ = <<>>
    <3>1. wpc' = [wpc EXCEPT ![w] = "empty"] /\ UNCHANGED <<q_, wjob, epc>>
      BY <1>3, <2>2 DEF deq
    <3>2. TypeOK'
      BY <1>0, <2>0, <3>1 DEF TypeOK
    <3>3. WorkInv'
      BY <1>0, <1>00, <2>0, <3>1 DEF WorkInv
    <3>4. OfferInv' /\ MainInv'
      BY <1>00, <2>0, <2>1, <3>1, OfferKept
    <3> QED
      BY <3>2, <3>3, <3>4 DEF BaseInv
  <2>3. CASE q_ # <<>>
    <3>1. /\ q_' = Tail(q_)
          /\ wjob' = [wjob EXCEPT ![w] = Head(q_)]
          /\ wpc' = [wpc EXCEPT ![w] = IF Head(q_) = Pill THEN "exit" ELSE "run"]
          /\ epc' \in SignalSpace(Tail(q_))
      BY <1>3, <2>3 DEF deq
    <3>2. Head(q_) \in Q /\ q_' \in Seq(Q) /\ Len(q_') = Len(q_) - 1
      <4> HIDE DEF Q
      <4> QED
        BY <1>0, <2>3, <3>1
    <3>3. \/ epc' = epc
          \/ \E e \in Enqueuers : epc[e] = "full" /\ epc' = [epc EXCEPT ![e] = "enq"]
      <4>1. epc' = epc \/ epc' \in Signal(epc, Enqueuers, "full", "enq")
        BY <3>1 DEF SignalSpace
      <4> QED
        BY <4>1, SignalEffect
    <3>4. /\ epc' \in [Enqueuers -> EPc]
          /\ \A e \in Enqueuers : epc'[e] = epc[e] \/ (Inside(e) /\ Inside(e)')
      BY <1>0, <3>3 DEF Inside
    <3>5. wjob' \in [Workers -> Q] /\ wpc' \in [Workers -> WPc]
      BY <1>0, <3>1, <3>2
    <3>6. TypeOK'
      BY <1>0, <2>0, <3>2, <3>4, <3>5 DEF TypeOK
    <3>7. WorkInv'
      BY <1>0, <1>00, <3>1, <3>2 DEF WorkInv
    <3>8. OfferInv' /\ MainInv'
      BY <1>00, <2>0, <2>1, <3>4, OfferKept
    <3> QED
      BY <3>6, <3>7, <3>8 DEF BaseInv
  <2> QED
    BY <2>2, <2>3
<1>4. ASSUME NEW w \in Workers, Run(w) PROVE BaseInv'
  <2>0. /\ wpc[w] = "run" /\ UNCHANGED <<blockadd_, q_, epc, item, njobs, pills, accepted>>
        /\ done' = done \cup {wjob[w]} /\ wjob' = [wjob EXCEPT ![w] = Pill]
        /\ wpc' = [wpc EXCEPT ![w] = "deq"]
    BY <1>4 DEF Run
  <2>1. ~AllJoined
    BY <2>0 DEF AllJoined
  <2>2. done' \in SUBSET Jobs
    BY <1>0, <1>00, <2>0 DEF WorkInv
  <2>3. TypeOK'
    BY <1>0, <2>0, <2>2 DEF TypeOK
  <2>4. WorkInv'
    BY <1>0, <1>00, <2>0 DEF WorkInv
  <2>5. OfferInv' /\ MainInv'
    BY <1>00, <2>0, <2>1, OfferKept
  <2> QED
    BY <2>3, <2>4, <2>5 DEF BaseInv
<1>5. CASE Destroy
  <2>0. /\ \A e \in Enqueuers : epc[e] = "idle"
        /\ epc' = [epc EXCEPT ![Main] = "enq"] /\ item' = [item EXCEPT ![Main] = Pill]
        /\ pills' = Cardinality(Workers)
        /\ UNCHANGED <<blockadd_, q_, wpc, wjob, njobs, accepted, done>>
    BY <1>5 DEF Destroy
  <2>1. TypeOK'
    BY <1>0, <1>00, <2>0 DEF TypeOK
  <2>2. Cardinality(Workers) > 0
    BY <1>0, FS_EmptySet
  <2>3. /\ epc'[Main] = "enq" /\ item'[Main] = Pill
        /\ \A p \in Producers : epc'[p] = "idle"
    BY <1>0, <1>00, <2>0
  <2>4. OfferInv' /\ MainInv'
    BY <1>00, <2>0, <2>2, <2>3 DEF OfferInv, MainInv, Inside
  <2>5. WorkInv'
    BY <1>00, <2>0 DEF WorkInv
  <2> QED
    BY <2>1, <2>4, <2>5 DEF BaseInv
<1>6. CASE Join
  <2>0. /\ epc[Main] = "join" /\ AllJoined /\ epc' = [epc EXCEPT ![Main] = "closed"]
        /\ UNCHANGED <<blockadd_, q_, wpc, wjob, item, njobs, pills, accepted, done>>
    BY <1>6 DEF Join
  <2>1. TypeOK'
    BY <1>0, <1>00, <2>0 DEF TypeOK
  <2>2. epc'[Main] = "closed" /\ AllJoined' /\ \A p \in Producers : epc'[p] = epc[p]
    BY <1>0, <1>00, <2>0 DEF AllJoined
  <2>3. OfferInv'
    BY <1>00, <2>0, <2>2 DEF OfferInv, Inside
  <2>4. MainInv' /\ WorkInv'
    BY <1>00, <2>0, <2>2 DEF MainInv, WorkInv, Inside
  <2> QED
    BY <2>1, <2>3, <2>4 DEF BaseInv
<1>7. CASE SpuriousWakeup
  <2>0. UNCHANGED <<blockadd_, q_, wjob, item, njobs, pills, accepted, done>>
    BY <1>7 DEF SpuriousWakeup
  <2>1. \/ UNCHANGED epc /\ \E w \in Workers : wpc[w] = "empty" /\ wpc' = [wpc EXCEPT ![w] = "deq"]
        \/ UNCHANGED wpc /\ \E e \in Enqueuers : epc[e] = "full" /\ epc' = [epc EXCEPT ![e] = "enq"]
    BY <1>7 DEF SpuriousWakeup, At
  <2>2. /\ wpc' \in [Workers -> WPc] /\ epc' \in [Enqueuers -> EPc]
        /\ \A w \in Workers : wpc'[w] # wpc[w] => wpc[w] = "empty" /\ wpc'[w] = "deq"
        /\ \A e \in Enqueuers : epc'[e] = epc[e] \/ (Inside(e) /\ Inside(e)')
    BY <1>0, <2>1 DEF Inside
  <2>3. TypeOK'
    BY <1>0, <2>0, <2>2 DEF TypeOK
  <2>4. WorkInv'
    BY <1>00, <2>0, <2>2 DEF WorkInv
  <2>5. AllJoined => AllJoined'
    BY <2>2 DEF AllJoined
  <2>6. OfferInv' /\ MainInv'
    BY <1>00, <2>0, <2>2, <2>5, OfferKept
  <2> QED
    BY <2>3, <2>4, <2>6 DEF BaseInv
<1>8. CASE UNCHANGED vars
  BY <1>8 DEF vars, BaseInv, TypeOK, OfferInv, WorkInv, MainInv, Inside, AllJoined
<1> QED
  BY <1>1, <1>2, <1>3, <1>4, <1>5, <1>6, <1>7, <1>8 DEF Next

--------------------------------------------------------------------------------
(* No lost signal.                                                              *)

LEMMA SignalInit == Init => NoLostSignal
BY DEF Init, NoLostSignal, At

LEMMA SignalNext == BaseInv /\ NoLostSignal /\ [Next]_vars => NoLostSignal'
<1> SUFFICES ASSUME BaseInv, NoLostSignal, [Next]_vars PROVE NoLostSignal'
  OBVIOUS
<1> USE PoolAssumption
<1> DEFINE WPc == {"deq", "empty", "run", "exit"}
           EPc == {"idle", "enq", "full", "join", "closed"}
           Q == Jobs \cup {Pill}
           Empties == At(wpc, Workers, "empty") # {}
           Fulls == At(epc, Enqueuers, "full") # {}
           deqs == Cardinality(At(wpc, Workers, "deq"))
           enqs == Cardinality(At(epc, Enqueuers, "enq"))
           WaitersOK == Empties => Len(q_) <= deqs
           BlockedOK == Fulls => Capacity <= Len(q_) + enqs
<1>0. /\ wpc \in [Workers -> WPc] /\ epc \in [Enqueuers -> EPc] /\ q_ \in Seq(Q)
      /\ Len(q_) \in Nat /\ pills \in Nat
      /\ IsFiniteSet(Workers) /\ IsFiniteSet(Enqueuers)
      /\ Main \in Enqueuers /\ Producers \subseteq Enqueuers
  <2>1. IsFiniteSet(Enqueuers)
    BY FS_AddElement DEF Enqueuers
  <2>2. Cardinality(Workers) \in Nat
    BY FS_CardinalityType
  <2> QED
    BY <2>1, <2>2 DEF BaseInv, TypeOK, Enqueuers
<1>00. WaitersOK /\ BlockedOK /\ deqs \in Nat /\ enqs \in Nat
  <2>1. IsFiniteSet(At(wpc, Workers, "deq")) /\ IsFiniteSet(At(epc, Enqueuers, "enq"))
    BY <1>0, FS_Subset DEF At
  <2> QED
    BY <2>1, FS_CardinalityType DEF NoLostSignal
<1> SUFFICES WaitersOK' /\ BlockedOK'
  BY DEF NoLostSignal
<1>1. ASSUME NEW w \in Workers, NEW s \in WPc, Goes(wpc, w, s, wpc')
      PROVE  /\ deqs' = deqs + (IF s = "deq" THEN 1 ELSE 0) - (IF wpc[w] = "deq" THEN 1 ELSE 0)
             /\ Empties' /\ s # "empty" => Empties
  <2>1. deqs' = deqs + (IF s = "deq" THEN 1 ELSE 0) - (IF wpc[w] = "deq" THEN 1 ELSE 0)
    <3> HIDE DEF WPc
    <3> QED
      BY <1>0, <1>1, AtCount
  <2>2. Empties' /\ s # "empty" => Empties
    BY <1>0, <1>1 DEF At, Goes
  <2> QED
    BY <2>1, <2>2
<1>2. ASSUME NEW e \in Enqueuers, NEW s \in EPc, Goes(epc, e, s, epc')
      PROVE  /\ enqs' = enqs + (IF s = "enq" THEN 1 ELSE 0) - (IF epc[e] = "enq" THEN 1 ELSE 0)
             /\ Fulls' /\ s # "full" => Fulls
  <2>1. enqs' = enqs + (IF s = "enq" THEN 1 ELSE 0) - (IF epc[e] = "enq" THEN 1 ELSE 0)
    <3> HIDE DEF EPc
    <3> QED
      BY <1>0, <1>2, AtCount
  <2>2. Fulls' /\ s # "full" => Fulls
    BY <1>0, <1>2 DEF At, Goes
  <2> QED
    BY <2>1, <2>2
<1>3. UNCHANGED wpc => deqs' = deqs /\ (Empties' <=> Empties)
  BY DEF At
<1>4. UNCHANGED epc => enqs' = enqs /\ (Fulls' <=> Fulls)
  BY DEF At
<1>5. Empties <=> \E w \in Workers : wpc[w] = "empty"
  BY DEF At
<1> HIDE DEF Empties, Fulls, deqs, enqs
<1>6. ASSUME NEW p \in Producers, addJob(p) PROVE WaitersOK' /\ BlockedOK'
  <2>1. /\ Goes(epc, p, "enq", epc') /\ epc[p] = "idle" /\ UNCHANGED <<wpc, q_>>
    BY <1>6 DEF addJob, Goes
  <2>2. enqs' = enqs + 1 /\ (Fulls' => Fulls)
    BY <1>0, <1>00, <1>2, <2>1
  <2> QED
    BY <1>0, <1>00, <1>3, <2>1, <2>2
<1>7. ASSUME NEW e \in Enqueuers, enq(e) PROVE WaitersOK' /\ BlockedOK'
  <2>0. epc[e] = "enq"
    BY <1>7 DEF enq
  <2>1. CASE HasRoom
    <3>1. /\ q_' = Append(q_, item[e]) /\ wpc' \in Signal(wpc, Workers, "empty", "deq")
          /\ epc' = [epc EXCEPT ![e] = Enqueued(e)]
      BY <1>7, <2>1 DEF enq
    <3>2. Len(q_') = Len(q_) + 1
      BY <1>0, <3>1
    <3>3. enqs' >= enqs - 1 /\ enqs' \in Int /\ (Fulls' => Fulls)
      <4>1. PICK s \in {"idle", "enq", "join"} : Goes(epc, e, s, epc')
        BY <3>1, Zenon DEF Enqueued, Goes
      <4> QED
        BY <1>00, <1>2, <2>0, <4>1
    <3>4. BlockedOK'
      BY <1>0, <1>00, <3>2, <3>3
    <3>5. \/ ~Empties /\ wpc' = wpc
          \/ \E w \in Workers : wpc[w] = "empty" /\ Goes(wpc, w, "deq", wpc')
      BY <3>1, SignalEffect DEF Empties, Goes
    <3>6. ASSUME NEW w \in Workers, wpc[w] = "empty", Goes(wpc, w, "deq", wpc')
          PROVE  WaitersOK'
      <4>1. deqs' = deqs + 1
        BY <1>00, <1>1, <3>6
      <4>2. Empties
        BY <1>5, <3>6
      <4> QED
        BY <1>0, <1>00, <3>2, <4>1, <4>2
    <3> QED
      BY <1>3, <3>4, <3>5, <3>6
  <2>2. CASE ~HasRoom
    <3>1. UNCHANGED <<q_, wpc>>
      BY <1>7, <2>2 DEF enq
    <3>2. Capacity <= Len(q_) /\ Capacity \in Nat
      BY <1>0, <2>2 DEF HasRoom
    <3>3. enqs' \in Nat
      <4>1. IsFiniteSet(At(epc', Enqueuers, "enq"))
        BY <1>0, FS_Subset DEF At
      <4> QED
        BY <4>1, FS_CardinalityType DEF enqs
    <3> QED
      BY <1>0, <1>00, <1>3, <3>1, <3>2, <3>3
  <2> QED
    BY <2>1, <2>2
<1>8. ASSUME NEW w \in Workers, deq(w) PROVE WaitersOK' /\ BlockedOK'
  <2>0. wpc[w] = "deq"
    BY <1>8 DEF deq
  <2>1. CASE q_ = <<>>
    <3>0. Goes(wpc, w, "empty", wpc') /\ UNCHANGED <<q_, epc>>
      BY <1>8, <2>1 DEF deq, Goes
    <3>1. Goes(wpc, w, "empty", wpc') /\ UNCHANGED <<q_, epc>> /\ Len(q_') = 0
      BY <2>1, <3>0
    <3>2. deqs' = deqs - 1
      BY <1>00, <1>1, <2>0, <3>1
    <3>3. deqs' \in Nat
      <4>1. IsFiniteSet(At(wpc', Workers, "deq"))
        BY <1>0, FS_Subset DEF At
      <4> QED
        BY <4>1, FS_CardinalityType DEF deqs
    <3> QED
      BY <1>00, <1>4, <3>1, <3>3
  <2>2. CASE q_ # <<>>
    <3>1. /\ q_' = Tail(q_) /\ epc' \in SignalSpace(Tail(q_))
          /\ wpc' = [wpc EXCEPT ![w] = IF Head(q_) = Pill THEN "exit" ELSE "run"]
      BY <1>8, <2>2 DEF deq
    <3>2. PICK s \in {"exit", "run"} : Goes(wpc, w, s, wpc')
      BY <3>1, Zenon DEF Goes
    <3>3. Len(q_') = Len(q_) - 1 /\ Len(q_') \in Nat
      BY <1>0, <2>2, <3>1
    <3>4. deqs' = deqs - 1 /\ (Empties' => Empties)
      BY <1>00, <1>1, <2>0, <3>2
    <3>5. WaitersOK'
      BY <1>0, <1>00, <3>3, <3>4
    <3>6. CASE Capacity # 0 /\ Len(q_') < Capacity
      <4>1. \/ ~Fulls /\ epc' = epc
            \/ \E e \in Enqueuers : epc[e] = "full" /\ Goes(epc, e, "enq", epc')
        <5>1. epc' \in Signal(epc, Enqueuers, "full", "enq")
          BY <3>1, <3>6 DEF SignalSpace
        <5> QED
          BY <5>1, SignalEffect DEF Fulls, Goes
      <4>2. ASSUME NEW e \in Enqueuers, epc[e] = "full", Goes(epc, e, "enq", epc')
            PROVE  BlockedOK'
        <5>1. enqs' = enqs + 1 /\ (Fulls' => Fulls)
          BY <1>00, <1>2, <4>2
        <5> QED
          BY <1>0, <1>00, <3>3, <5>1
      <4> QED
        BY <1>4, <3>5, <4>1, <4>2
    <3>7. CASE ~ (Capacity # 0 /\ Len(q_') < Capacity)
      <4>1. epc' = epc /\ Capacity <= Len(q_')
        BY <3>1, <3>3, <3>7 DEF SignalSpace
      <4> QED
        BY <1>00, <1>4, <3>3, <3>5, <4>1
    <3> QED
      BY <3>6, <3>7
  <2> QED
    BY <2>1, <2>2
<1>9. ASSUME NEW w \in Workers, Run(w) PROVE WaitersOK' /\ BlockedOK'
  <2>1. wpc[w] = "run" /\ Goes(wpc, w, "deq", wpc') /\ UNCHANGED <<q_, epc>>
    BY <1>9 DEF Run, Goes
  <2>2. deqs' = deqs + 1 /\ (Empties' => Empties)
    BY <1>00, <1>1, <2>1
  <2> QED
    BY <1>0, <1>00, <1>4, <2>1, <2>2
<1>10. CASE Destroy
  <2>1. /\ \A e \in Enqueuers : epc[e] = "idle"
        /\ Goes(epc, Main, "enq", epc') /\ UNCHANGED <<q_, wpc>>
    BY <1>10 DEF Destroy, Goes
  <2>2. ~Fulls'
    BY <1>0, <2>1 DEF Fulls, At, Goes
  <2> QED
    BY <1>00, <1>3, <2>1, <2>2
<1>11. CASE Join
  <2>1. /\ epc[Main] = "join" /\ Goes(epc, Main, "closed", epc') /\ UNCHANGED <<q_, wpc>>
    BY <1>11 DEF Join, Goes
  <2>2. enqs' = enqs /\ (Fulls' => Fulls)
    BY <1>0, <1>00, <1>2, <2>1
  <2> QED
    BY <1>00, <1>3, <2>1, <2>2
<1>12. CASE SpuriousWakeup
  <2>0. q_' = q_
    BY <1>12 DEF SpuriousWakeup
  <2>1. \/ UNCHANGED epc /\ \E w \in Workers : wpc[w] = "empty" /\ Goes(wpc, w, "deq", wpc')
        \/ UNCHANGED wpc /\ \E e \in Enqueuers : epc[e] = "full" /\ Goes(epc, e, "enq", epc')
    BY <1>12 DEF SpuriousWakeup, At, Goes
  <2>2. ASSUME NEW w \in Workers, wpc[w] = "empty", Goes(wpc, w, "deq", wpc')
        PROVE  WaitersOK'
    <3>1. deqs' = deqs + 1 /\ (Empties' => Empties)
      BY <1>00, <1>1, <2>2
    <3> QED
      BY <1>0, <1>00, <2>0, <3>1
  <2>3. ASSUME NEW e \in Enqueuers, epc[e] = "full", Goes(epc, e, "enq", epc')
        PROVE  BlockedOK'
    <3>1. enqs' = enqs + 1 /\ (Fulls' => Fulls)
      BY <1>00, <1>2, <2>3
    <3> QED
      BY <1>0, <1>00, <2>0, <3>1
  <2> QED
    BY <1>00, <1>3, <1>4, <2>0, <2>1, <2>2, <2>3
<1>13. CASE UNCHANGED vars
  BY <1>00, <1>3, <1>4, <1>13 DEF vars
<1> QED
  BY <1>6, <1>7, <1>8, <1>9, <1>10, <1>11, <1>12, <1>13 DEF Next

(* No signal of the queue is lost, for any number of workers and producers, any *)
(* queue length and spurious wakeups included: fifo::enq always signals         *)
(* non_empty_c_, and fifo::deq signals has_space_c_ whenever there is space.    *)
THEOREM NoLostSignalHolds == Spec => []NoLostSignal
<1>1. Init => BaseInv /\ NoLostSignal
  BY BaseInit, SignalInit
<1>2. BaseInv /\ NoLostSignal /\ [Next]_vars => (BaseInv /\ NoLostSignal)'
  BY BaseNext, SignalNext
<1> QED
  BY <1>1, <1>2, PTL DEF Spec

--------------------------------------------------------------------------------
(* Every accepted job in exactly one place.                                     *)

\* The first part of JobInOnePlace, with its counts named.
PlaceInv ==
    \A j \in Jobs : Occ(q_, j) + Cardinality(At(wjob, Workers, j))
                        + (IF j \in done THEN 1 ELSE 0) = IF j \in accepted THEN 1 ELSE 0

LEMMA PlaceInit == Init => PlaceInv
<1> SUFFICES ASSUME Init, NEW j \in Jobs
             PROVE  /\ Occ(q_, j) = 0 /\ Cardinality(At(wjob, Workers, j)) = 0
                    /\ j \notin done /\ j \notin accepted
  BY DEF PlaceInv
<1>1. j # Pill
  BY PoolAssumption DEF Jobs, Pill
<1>2. {i \in 1..Len(q_) : q_[i] = j} = {}
  BY DEF Init
<1>3. At(wjob, Workers, j) = {}
  BY <1>1 DEF Init, At
<1> QED
  BY <1>2, <1>3, FS_EmptySet, Zenon DEF Init, Occ

LEMMA PlaceNext == BaseInv /\ PlaceInv /\ [Next]_vars => PlaceInv'
<1> SUFFICES ASSUME BaseInv, PlaceInv, [Next]_vars PROVE PlaceInv'
  OBVIOUS
<1> USE PoolAssumption
<1> DEFINE Q == Jobs \cup {Pill}
           held(j) == Cardinality(At(wjob, Workers, j))
           one(A, j) == IF j \in A THEN 1 ELSE 0
<1>0. /\ q_ \in Seq(Q) /\ wjob \in [Workers -> Q] /\ item \in [Enqueuers -> Q]
      /\ OfferInv /\ WorkInv
      /\ \A j \in Jobs : j # Pill
  BY DEF BaseInv, TypeOK, Jobs, Pill
<1>1. ASSUME NEW j \in Jobs
      PROVE  /\ Occ(q_, j) \in Nat /\ held(j) \in Nat
             /\ Occ(q_, j) + held(j) + one(done, j) = one(accepted, j)
  <2>1. IsFiniteSet(At(wjob, Workers, j))
    BY FS_Subset DEF At
  <2> QED
    BY <1>0, <2>1, OccType, FS_CardinalityType, Zenon DEF PlaceInv
<1>2. ASSUME NEW w \in Workers, NEW s \in Q, Goes(wjob, w, s, wjob'), NEW j
      PROVE  /\ held(j)' = held(j) + (IF s = j THEN 1 ELSE 0) - (IF wjob[w] = j THEN 1 ELSE 0)
             /\ held(j)' \in Nat
  <2> HIDE DEF Q
  <2>1. held(j)' = held(j) + (IF s = j THEN 1 ELSE 0) - (IF wjob[w] = j THEN 1 ELSE 0)
    BY <1>0, <1>2, AtCount
  <2>2. IsFiniteSet(At(wjob', Workers, j))
    BY FS_Subset DEF At
  <2> QED
    BY <2>1, <2>2, FS_CardinalityType
<1> SUFFICES ASSUME NEW j \in Jobs
             PROVE  Occ(q_', j) + held(j)' + one(done', j) = one(accepted', j)
  BY DEF PlaceInv
<1> HIDE DEF held
<1>3. UNCHANGED wjob => held(j)' = held(j)
  BY DEF held
<1>4. ASSUME UNCHANGED <<q_, wjob, done, accepted>>
      PROVE  Occ(q_', j) + held(j)' + one(done', j) = one(accepted', j)
  BY <1>1, <1>3, <1>4
<1>5. ASSUME NEW e \in Enqueuers, enq(e), HasRoom
      PROVE  Occ(q_', j) + held(j)' + one(done', j) = one(accepted', j)
  <2>1. /\ q_' = Append(q_, item[e]) /\ UNCHANGED <<wjob, done>> /\ epc[e] = "enq"
        /\ accepted' = IF e = Main THEN accepted ELSE accepted \cup {item[e]}
    BY <1>5 DEF enq
  <2>2. item[e] \in Q
    BY <1>0
  <2>3. Occ(q_', j) = Occ(q_, j) + (IF item[e] = j THEN 1 ELSE 0)
    <3> HIDE DEF Q
    <3> QED
      BY <1>0, <2>1, <2>2, OccAppend
  <2>4. CASE e = Main
    <3>1. item[e] # j
      BY <1>0, <2>1, <2>4 DEF OfferInv
    <3> QED
      BY <1>1, <1>3, <2>1, <2>3, <2>4, <3>1
  <2>5. CASE e # Main
    <3>1. e \in Producers /\ item[e] \notin accepted
      BY <1>0, <2>1, <2>5 DEF OfferInv, Inside, Enqueuers
    <3>2. /\ one(accepted', j) = one(accepted, j) + (IF item[e] = j THEN 1 ELSE 0)
          /\ one(done', j) = one(done, j)
          /\ one(done, j) \in Nat /\ one(accepted, j) \in Nat
      BY <2>1, <2>5, <3>1
    <3> HIDE DEF one
    <3> QED
      BY <1>1, <1>3, <2>1, <2>3, <3>2
  <2> QED
    BY <2>4, <2>5
<1>6. ASSUME NEW w \in Workers, deq(w), q_ # <<>>
      PROVE  Occ(q_', j) + held(j)' + one(done', j) = one(accepted', j)
  <2>1. /\ q_' = Tail(q_) /\ UNCHANGED <<done, accepted>> /\ wpc[w] = "deq"
        /\ Goes(wjob, w, Head(q_), wjob')
    BY <1>6 DEF deq, Goes
  <2>2. Head(q_) \in Q /\ wjob[w] # j
    <3>1. wjob[w] # j
      BY <1>0, <2>1 DEF WorkInv
    <3> HIDE DEF Q
    <3> QED
      BY <1>0, <1>6, <3>1
  <2>3. Occ(q_', j) = Occ(q_, j) - (IF Head(q_) = j THEN 1 ELSE 0)
    <3> HIDE DEF Q
    <3> QED
      BY <1>0, <1>6, <2>1, OccTail
  <2>4. held(j)' = held(j) + (IF Head(q_) = j THEN 1 ELSE 0)
    BY <1>1, <1>2, <2>1, <2>2
  <2> QED
    BY <1>1, <2>1, <2>3, <2>4
<1>7. ASSUME NEW w \in Workers, Run(w)
      PROVE  Occ(q_', j) + held(j)' + one(done', j) = one(accepted', j)
  <2>1. /\ UNCHANGED <<q_, accepted>> /\ Goes(wjob, w, Pill, wjob')
        /\ done' = done \cup {wjob[w]}
    BY <1>7 DEF Run, Goes
  <2>2. Pill \in Q /\ Pill # j
    BY <1>0
  <2>3. held(j)' = held(j) - (IF wjob[w] = j THEN 1 ELSE 0) /\ held(j)' \in Nat
    BY <1>1, <1>2, <2>1, <2>2
  <2>4. one(done', j) = one(done, j) + (IF wjob[w] = j THEN 1 ELSE 0)
    <3>1. wjob[w] = j => j \notin done
      BY <1>1, <2>3
    <3> QED
      BY <2>1, <3>1
  <2>5. one(done, j) \in Nat /\ one(accepted', j) = one(accepted, j)
    BY <2>1
  <2> HIDE DEF one
  <2> QED
    BY <1>1, <2>1, <2>3, <2>4, <2>5
<1>8. ASSUME NEW p \in Producers, addJob(p) PROVE UNCHANGED <<q_, wjob, done, accepted>>
  BY <1>8 DEF addJob
<1>9. ASSUME NEW e \in Enqueuers, enq(e), ~HasRoom PROVE UNCHANGED <<q_, wjob, done, accepted>>
  BY <1>9 DEF enq
<1>10. ASSUME NEW w \in Workers, deq(w), q_ = <<>> PROVE UNCHANGED <<q_, wjob, done, accepted>>
  BY <1>10 DEF deq
<1>11. Destroy \/ Join \/ SpuriousWakeup => UNCHANGED <<q_, wjob, done, accepted>>
  BY DEF Destroy, Join, SpuriousWakeup
<1>12. UNCHANGED vars => UNCHANGED <<q_, wjob, done, accepted>>
  BY DEF vars
<1> HIDE DEF one
<1> QED
  BY <1>4, <1>5, <1>6, <1>7, <1>8, <1>9, <1>10, <1>11, <1>12 DEF Next

--------------------------------------------------------------------------------
(* The pills, and what is left when the destructor returns.                     *)

\* Before the destructor there is no pill; afterwards those still to enqueue,
\* those in the queue and the workers that have taken one add up to the workers.
\* All jobs are ahead of the first pill.
PillInv ==
    /\ epc[Main] = "idle" => /\ \A i \in 1..Len(q_) : q_[i] # Pill
                             /\ \A w \in Workers : wpc[w] # "exit"
    /\ epc[Main] # "idle" =>
          Occ(q_, Pill) + Cardinality(At(wpc, Workers, "exit")) + pills = Cardinality(Workers)
    /\ \A i, k \in 1..Len(q_) : i < k /\ q_[i] = Pill => q_[k] = Pill
    /\ (\E w \in Workers : wpc[w] = "exit") => \A i \in 1..Len(q_) : q_[i] = Pill

LEMMA PillInit == Init => PillInv
<1> SUFFICES ASSUME Init PROVE PillInv
  OBVIOUS
<1>1. q_ = <<>> /\ epc[Main] = "idle" /\ \A w \in Workers : wpc[w] = "deq"
  BY DEF Init, Enqueuers
<1>2. Len(q_) = 0
  BY <1>1
<1> QED
  BY <1>1, <1>2 DEF PillInv

LEMMA PillNext == BaseInv /\ PillInv /\ [Next]_vars => PillInv'
<1> SUFFICES ASSUME BaseInv, PillInv, [Next]_vars PROVE PillInv'
  OBVIOUS
<1> USE PoolAssumption
<1> DEFINE WPc == {"deq", "empty", "run", "exit"}
           Q == Jobs \cup {Pill}
           exits == Cardinality(At(wpc, Workers, "exit"))
<1>0. /\ q_ \in Seq(Q) /\ Len(q_) \in Nat /\ wpc \in [Workers -> WPc] /\ pills \in Nat
      /\ epc \in [Enqueuers -> {"idle", "enq", "full", "join", "closed"}]
      /\ item \in [Enqueuers -> Q] /\ Main \in Enqueuers /\ Main \notin Producers
      /\ OfferInv /\ MainInv /\ Cardinality(Workers) \in Nat
      /\ exits \in Nat /\ Occ(q_, Pill) \in Nat
  <2>1. IsFiniteSet(At(wpc, Workers, "exit"))
    BY FS_Subset DEF At
  <2>2. q_ \in Seq(Q)
    BY DEF BaseInv, TypeOK
  <2> HIDE DEF Q
  <2>3. Occ(q_, Pill) \in Nat
    BY <2>2, OccType, Zenon
  <2>4. Cardinality(Workers) \in Nat /\ exits \in Nat
    BY <2>1, FS_CardinalityType
  <2> QED
    BY <2>2, <2>3, <2>4 DEF BaseInv, TypeOK, Enqueuers, Q
<1>1. ASSUME NEW w \in Workers, NEW s \in WPc, Goes(wpc, w, s, wpc')
      PROVE  exits' = exits + (IF s = "exit" THEN 1 ELSE 0) - (IF wpc[w] = "exit" THEN 1 ELSE 0)
  <2> HIDE DEF WPc
  <2> QED
    BY <1>0, <1>1, AtCount
<1>2. UNCHANGED wpc => exits' = exits
  OBVIOUS
<1> HIDE DEF exits
<1>3. ASSUME UNCHANGED <<q_, pills>>, epc'[Main] = "idle" <=> epc[Main] = "idle", exits' = exits,
             \A w \in Workers : wpc'[w] = "exit" <=> wpc[w] = "exit"
      PROVE  PillInv'
  BY <1>3, Zenon DEF PillInv, exits
<1>4. ASSUME NEW w \in Workers, NEW s \in WPc, Goes(wpc, w, s, wpc'), s # "exit", wpc[w] # "exit"
      PROVE  exits' = exits /\ \A v \in Workers : wpc'[v] = "exit" <=> wpc[v] = "exit"
  <2>1. exits' = exits
    BY <1>0, <1>1, <1>4
  <2> QED
    BY <1>0, <1>4, <2>1 DEF Goes
<1>5. ASSUME NEW p \in Producers, addJob(p) PROVE PillInv'
  <2>1. UNCHANGED <<q_, pills, wpc>> /\ epc'[Main] = epc[Main]
    BY <1>0, <1>5 DEF addJob
  <2> QED
    BY <1>2, <1>3, <2>1
<1>6. ASSUME NEW e \in Enqueuers, enq(e) PROVE PillInv'
  <2>0. epc[e] = "enq"
    BY <1>6 DEF enq
  <2>1. CASE ~HasRoom
    <3>1. UNCHANGED <<q_, pills, wpc>> /\ (epc'[Main] = "idle" <=> epc[Main] = "idle")
      BY <1>0, <1>6, <2>1 DEF enq
    <3> QED
      BY <1>2, <1>3, <3>1
  <2>2. CASE HasRoom
    <3>1. /\ q_' = Append(q_, item[e]) /\ wpc' \in Signal(wpc, Workers, "empty", "deq")
          /\ epc' = [epc EXCEPT ![e] = Enqueued(e)]
          /\ pills' = IF e = Main THEN pills - 1 ELSE pills
      BY <1>6, <2>2 DEF enq
    <3>2. exits' = exits /\ \A v \in Workers : wpc'[v] = "exit" <=> wpc[v] = "exit"
      <4>1. \/ wpc' = wpc
            \/ \E w \in Workers : wpc[w] = "empty" /\ Goes(wpc, w, "deq", wpc')
        BY <3>1, SignalEffect DEF Goes
      <4> QED
        BY <1>2, <1>4, <4>1
    <3>3. /\ Len(q_') = Len(q_) + 1 /\ q_'[Len(q_) + 1] = item[e]
          /\ \A i \in 1..Len(q_) : q_'[i] = q_[i]
      BY <1>0, <3>1
    <3>4. CASE e = Main
      <4>1. item[e] = Pill /\ Pill \in Q /\ pills' = pills - 1 /\ epc'[Main] # "idle"
        BY <1>0, <2>0, <3>1, <3>4 DEF OfferInv, Enqueued
      <4>2. Occ(q_', Pill) = Occ(q_, Pill) + 1
        <5>1. q_ \in Seq(Q) /\ Pill \in Q /\ q_' = Append(q_, Pill)
          BY <1>0, <3>1, <4>1
        <5> HIDE DEF Q
        <5> QED
          BY <5>1, OccAppend
      <4>3. Occ(q_', Pill) + exits' + pills' = Cardinality(Workers)
        <5>1. Occ(q_, Pill) + exits + pills = Cardinality(Workers)
          BY <2>0, <3>4 DEF PillInv, exits
        <5> QED
          BY <1>0, <3>2, <4>1, <4>2, <5>1
      <4>4. \A i, k \in 1..Len(q_') : i < k /\ q_'[i] = Pill => q_'[k] = Pill
        BY <1>0, <3>3, <4>1 DEF PillInv
      <4>5. (\E w \in Workers : wpc'[w] = "exit") => \A i \in 1..Len(q_') : q_'[i] = Pill
        BY <1>0, <3>2, <3>3, <4>1 DEF PillInv
      <4> QED
        BY <4>1, <4>3, <4>4, <4>5 DEF PillInv, exits
    <3>5. CASE e # Main
      <4>1. e \in Producers /\ item[e] # Pill /\ epc[Main] = "idle" /\ epc'[Main] = "idle"
        BY <1>0, <2>0, <3>1, <3>5 DEF OfferInv, Inside, Enqueuers, Pill
      <4>2. \A i \in 1..Len(q_') : q_'[i] # Pill
        <5>1. \A i \in 1..Len(q_) : q_[i] # Pill
          BY <4>1, Zenon DEF PillInv
        <5>2. \A n \in Nat : \A i \in 1..(n + 1) : i \in 1..n \/ i = n + 1
          OBVIOUS
        <5>3. \A i \in 1..Len(q_') : i \in 1..Len(q_) \/ i = Len(q_) + 1
          BY <1>0, <3>3, <5>2, Zenon
        <5> QED
          BY <3>3, <4>1, <5>1, <5>3, Zenon
      <4>3. \A w \in Workers : wpc'[w] # "exit"
        BY <3>2, <4>1, Zenon DEF PillInv
      <4> QED
        BY <4>1, <4>2, <4>3, ZenonT(40) DEF PillInv
    <3> QED
      BY <3>4, <3>5
  <2> QED
    BY <2>1, <2>2
<1>7. ASSUME NEW w \in Workers, deq(w) PROVE PillInv'
  <2>0. wpc[w] = "deq" /\ pills' = pills
    BY <1>7 DEF deq
  <2>1. CASE q_ = <<>>
    <3>1. UNCHANGED <<q_, epc>> /\ Goes(wpc, w, "empty", wpc')
      BY <1>7, <2>1 DEF deq, Goes
    <3> QED
      BY <1>3, <1>4, <2>0, <3>1
  <2>2. CASE q_ # <<>>
    <3>1. /\ q_' = Tail(q_) /\ epc' \in SignalSpace(Tail(q_))
          /\ Goes(wpc, w, IF Head(q_) = Pill THEN "exit" ELSE "run", wpc')
      BY <1>7, <2>2 DEF deq, Goes
    <3>2. /\ Len(q_) >= 1 /\ Len(q_') = Len(q_) - 1 /\ Head(q_) = q_[1]
          /\ \A i \in 1..Len(q_') : q_'[i] = q_[i + 1] /\ i \in 1..Len(q_) /\ i + 1 \in 1..Len(q_)
      BY <1>0, <2>2, <3>1
    <3>3. Occ(q_', Pill) = Occ(q_, Pill) - (IF Head(q_) = Pill THEN 1 ELSE 0)
      <4> HIDE DEF Q
      <4> QED
        BY <1>0, <2>2, <3>1, OccTail
    <3>4. epc'[Main] = "idle" <=> epc[Main] = "idle"
      <4>1. epc' = epc \/ epc' \in Signal(epc, Enqueuers, "full", "enq")
        BY <3>1 DEF SignalSpace
      <4> QED
        BY <1>0, <4>1, SignalEffect
    <3>5. \A i, k \in 1..Len(q_') : i < k /\ q_'[i] = Pill => q_'[k] = Pill
      <4> SUFFICES ASSUME NEW i \in 1..Len(q_'), NEW k \in 1..Len(q_'), i < k, q_'[i] = Pill
                   PROVE  q_'[k] = Pill
        OBVIOUS
      <4>1. i + 1 \in 1..Len(q_) /\ k + 1 \in 1..Len(q_) /\ i + 1 < k + 1
        BY <1>0, <3>2
      <4> QED
        BY <3>2, <4>1 DEF PillInv
    <3>6. CASE Head(q_) = Pill
      <4>1. Goes(wpc, w, "exit", wpc')
        BY <3>1, <3>6
      <4>2. exits' = exits + 1
        BY <1>0, <1>1, <2>0, <4>1
      <4>3. epc[Main] # "idle"
        <5>1. 1 \in 1..Len(q_) /\ q_[1] = Pill
          BY <1>0, <3>2, <3>6
        <5> QED
          BY <5>1 DEF PillInv
      <4>4. Occ(q_', Pill) + exits' + pills' = Cardinality(Workers)
        <5>1. Occ(q_, Pill) + exits + pills = Cardinality(Workers)
          BY <4>3 DEF PillInv, exits
        <5> QED
          BY <1>0, <2>0, <3>3, <3>6, <4>2, <5>1
      <4>5. \A i \in 1..Len(q_') : q_'[i] = Pill
        <5> SUFFICES ASSUME NEW i \in 1..Len(q_') PROVE q_[i + 1] = Pill
          BY <3>2
        <5>1. 1 \in 1..Len(q_) /\ i + 1 \in 1..Len(q_) /\ 1 < i + 1 /\ q_[1] = Pill
          BY <1>0, <3>2, <3>6
        <5> QED
          BY <5>1 DEF PillInv
      <4> QED
        BY <3>4, <3>5, <4>3, <4>4, <4>5 DEF PillInv, exits
    <3>7. CASE Head(q_) # Pill
      <4>1. Goes(wpc, w, "run", wpc')
        BY <3>1, <3>7
      <4>2. exits' = exits /\ \A v \in Workers : wpc'[v] = "exit" <=> wpc[v] = "exit"
        BY <1>4, <2>0, <4>1
      <4>3. epc[Main] # "idle" => Occ(q_', Pill) + exits' + pills' = Cardinality(Workers)
        <5>1. Occ(q_', Pill) = Occ(q_, Pill)
          BY <1>0, <3>3, <3>7
        <5> QED
          BY <2>0, <4>2, <5>1 DEF PillInv, exits
      <4>4. ~ \E v \in Workers : wpc'[v] = "exit"
        <5>1. 1 \in 1..Len(q_) /\ q_[1] # Pill
          BY <1>0, <3>2, <3>7
        <5> QED
          BY <4>2, <5>1 DEF PillInv
      <4>5. epc[Main] = "idle" => \A i \in 1..Len(q_') : q_'[i] # Pill
        BY <3>2 DEF PillInv
      <4> QED
        BY <3>4, <3>5, <4>3, <4>4, <4>5 DEF PillInv, exits
    <3> QED
      BY <3>6, <3>7
  <2> QED
    BY <2>1, <2>2
<1>8. ASSUME NEW w \in Workers, Run(w) PROVE PillInv'
  <2>1. UNCHANGED <<q_, epc, pills>> /\ Goes(wpc, w, "deq", wpc') /\ wpc[w] = "run"
    BY <1>8 DEF Run, Goes
  <2> QED
    BY <1>3, <1>4, <2>1
<1>9. CASE Destroy
  <2>1. /\ epc[Main] = "idle" /\ epc' = [epc EXCEPT ![Main] = "enq"]
        /\ pills' = Cardinality(Workers) /\ UNCHANGED <<q_, wpc>>
    BY <1>0, <1>9 DEF Destroy
  <2>2. epc'[Main] = "enq"
    BY <1>0, <2>1
  <2>3. Occ(q_, Pill) = 0
    <3>1. {i \in 1..Len(q_) : q_[i] = Pill} = {}
      BY <2>1 DEF PillInv
    <3> QED
      BY <3>1, FS_EmptySet, Zenon DEF Occ
  <2>4. exits = 0
    <3>1. At(wpc, Workers, "exit") = {}
      BY <2>1 DEF PillInv, At
    <3> QED
      BY <3>1, FS_EmptySet DEF exits
  <2>5. Occ(q_', Pill) + exits' + pills' = Cardinality(Workers)
    BY <1>0, <1>2, <2>1, <2>3, <2>4
  <2> QED
    BY <2>1, <2>2, <2>5 DEF PillInv, exits
<1>10. CASE Join
  <2>1. UNCHANGED <<q_, wpc, pills>> /\ epc'[Main] = "closed" /\ epc[Main] = "join"
    BY <1>0, <1>10 DEF Join
  <2> QED
    BY <1>2, <1>3, <2>1
<1>11. CASE SpuriousWakeup
  <2>0. UNCHANGED <<q_, pills>>
    BY <1>11 DEF SpuriousWakeup
  <2>1. \/ UNCHANGED epc /\ \E w \in Workers : wpc[w] = "empty" /\ Goes(wpc, w, "deq", wpc')
        \/ UNCHANGED wpc /\ \E e \in Enqueuers : epc[e] = "full" /\ epc' = [epc EXCEPT ![e] = "enq"]
    BY <1>11 DEF SpuriousWakeup, At, Goes
  <2>2. epc'[Main] = "idle" <=> epc[Main] = "idle"
    BY <1>0, <2>1
  <2>3. exits' = exits /\ \A v \in Workers : wpc'[v] = "exit" <=> wpc[v] = "exit"
    BY <1>2, <1>4, <2>1
  <2> QED
    BY <1>3, <2>0, <2>2, <2>3
<1>12. CASE UNCHANGED vars
  BY <1>2, <1>3, <1>12 DEF vars
<1> QED
  BY <1>5, <1>6, <1>7, <1>8, <1>9, <1>10, <1>11, <1>12 DEF Next

(* A job that addJob accepted is in the queue once, with one worker or done,    *)
(* never lost, run twice or left behind, for any number of workers, producers   *)
(* and jobs; and when ~ThrPool returns every accepted job has been run.         *)
THEOREM JobInOnePlaceHolds == Spec => []JobInOnePlace
<1> DEFINE Inv == BaseInv /\ PlaceInv /\ PillInv
<1>1. Init => Inv
  BY BaseInit, PlaceInit, PillInit
<1>2. Inv /\ [Next]_vars => Inv'
  BY BaseNext, PlaceNext, PillNext
<1>3. Inv => JobInOnePlace
  <2> SUFFICES ASSUME Inv PROVE JobInOnePlace
    OBVIOUS
  <2> USE PoolAssumption
  <2>1. \A j \in Jobs :
           Cardinality({i \in 1..Len(q_) : q_[i] = j}) + Cardinality({w \in Workers : wjob[w] = j})
              + (IF j \in done THEN 1 ELSE 0) = IF j \in accepted THEN 1 ELSE 0
    BY DEF PlaceInv, Occ, At
  <2>2. ASSUME epc[Main] = "closed" PROVE done = accepted /\ q_ = <<>>
    <3> DEFINE Q == Jobs \cup {Pill}
    <3>0. q_ \in Seq(Q) /\ Len(q_) \in Nat /\ Occ(q_, Pill) \in Nat /\ pills \in Nat
      <4>1. q_ \in Seq(Q)
        BY DEF BaseInv, TypeOK
      <4>2. pills \in Nat
        BY FS_CardinalityType DEF BaseInv, TypeOK
      <4> HIDE DEF Q
      <4>3. Occ(q_, Pill) \in Nat
        BY <4>1, OccType, Zenon
      <4> QED
        BY <4>1, <4>2, <4>3
    <3>1. \A w \in Workers : wpc[w] = "exit" /\ wjob[w] = Pill
      BY <2>2 DEF BaseInv, MainInv, WorkInv, AllJoined
    <3>2. At(wpc, Workers, "exit") = Workers
      BY <3>1 DEF At
    <3>3. Occ(q_, Pill) = 0
      <4>1. Occ(q_, Pill) + Cardinality(Workers) + pills = Cardinality(Workers)
        BY <2>2, <3>2 DEF PillInv
      <4>2. Cardinality(Workers) \in Nat
        BY FS_CardinalityType
      <4> QED
        BY <3>0, <4>1, <4>2
    <3>4. {i \in 1..Len(q_) : q_[i] = Pill} = {}
      <4>1. IsFiniteSet({i \in 1..Len(q_) : q_[i] = Pill})
        <5> HIDE DEF Q
        <5> QED
          BY <3>0, OccType
      <4> QED
        BY <3>3, <4>1, FS_EmptySet, Zenon DEF Occ
    <3>5. \A i \in 1..Len(q_) : q_[i] = Pill
      BY <3>1 DEF PillInv
    <3>6. q_ = <<>>
      <4>1. Len(q_) = 0
        BY <3>0, <3>4, <3>5
      <4> HIDE DEF Q
      <4> QED
        BY <3>0, <4>1
    <3>7. ASSUME NEW j \in Jobs PROVE j \in done <=> j \in accepted
      <4>1. j # Pill
        BY DEF Jobs, Pill
      <4>2. At(wjob, Workers, j) = {}
        BY <3>1, <4>1 DEF At
      <4>3. {i \in 1..Len(q_) : q_[i] = j} = {}
        BY <3>6
      <4>4. Occ(q_, j) = 0 /\ Cardinality(At(wjob, Workers, j)) = 0
        BY <4>2, <4>3, FS_EmptySet, Zenon DEF Occ
      <4> QED
        BY <4>4 DEF PlaceInv
    <3> QED
      BY <3>6, <3>7, Zenon DEF BaseInv, TypeOK
  <2> QED
    BY <2>1, <2>2 DEF JobInOnePlace
<1> QED
  BY <1>1, <1>2, <1>3, PTL DEF Spec
===============================================================================
