------------------------------- MODULE LockProofs -------------------------------
(* Proofs about LockServer, for any clients, locks and pool size, and about     *)
(* LockTester, for any number of threads and rounds.                            *)
EXTENDS LockTester, TLAPS

(* The job queue holds exactly calls that wait for a worker, each once. *)
QueueInv ==
    /\ \A i \in 1..Len(jobq) : pc[jobq[i]] \in {"acqq", "relq"}
    /\ \A i, j \in 1..Len(jobq) : jobq[i] = jobq[j] => i = j

(* Past the lookup or creation of the entry. *)
Using == {"test", "wait"} \cup Granted

(* Without a race one handler at a time creates an entry, and nobody uses the  *)
(* entry while it does.                                                         *)
CreateInv ==
    /\ \A c, d \in Clients : pc[c] \in Creating /\ pc[d] \in Creating => c = d
    /\ \A c \in Clients : pc[c] \in Using \cup {"assign"} => lid[c] \in inserted
    /\ \A c \in Clients : pc[c] = "insert" => lid[c] \notin inserted
    /\ \A c, d \in Clients : pc[c] = "assign" /\ pc[d] \in Using => lid[c] # lid[d]

(* Mutual exclusion without set-builder notation. *)
GrantInv ==
    /\ \A c, d \in Clients : pc[c] \in Granted /\ pc[d] \in Granted /\ lid[c] = lid[d] => c = d
    /\ \A c \in Clients : pc[c] \in Granted => isLocked[lid[c]]
    /\ \A l \in Locks : isLocked[l] => \E c \in Clients : pc[c] \in Granted /\ lid[c] = l

WakeInv ==
    \A l \in Locks : \A w \in Clients :
        ~isLocked[l] /\ pc[w] = "wait" /\ lid[w] = l
            => \E c \in Clients : pc[c] = "test" /\ lid[c] = l

(* The inductive invariant. *)
RaceFree == CreateInv /\ GrantInv /\ WakeInv

LockInv == QueueInv /\ (~raced => RaceFree)

--------------------------------------------------------------------------------
LEMMA LockTypeInit == Init \/ WarmInit => TypeOK
<1> SUFFICES ASSUME Init \/ WarmInit PROVE TypeOK
  OBVIOUS
<1>1. raced \in BOOLEAN
  BY Zenon DEF Init, WarmInit
<1>2. isLocked \in [Locks -> BOOLEAN]
  <2>1. isLocked = [l \in Locks |-> FALSE]
    BY DEF Init, WarmInit
  <2>2. FALSE \in BOOLEAN
    BY Zenon
  <2> QED BY <2>1, Zenon
<1>3. /\ pc \in [Clients -> Pc] /\ lid \in [Clients -> Locks]
      /\ jobq \in Seq(Clients) /\ inserted \in SUBSET Locks
  <2>1. pc = [c \in Clients |-> "idle"] /\ lid \in [Clients -> Locks] /\ jobq = <<>>
    BY DEF Init, WarmInit
  <2>2. inserted = {} \/ inserted = Locks
    BY DEF Init, WarmInit
  <2> QED BY <2>1, <2>2 DEF Pc
<1> QED BY <1>1, <1>2, <1>3 DEF TypeOK

LEMMA LockTypeNext == TypeOK /\ [Next]_vars => TypeOK'
<1> SUFFICES ASSUME TypeOK, [Next]_vars PROVE TypeOK'
  OBVIOUS
<1> USE DEF TypeOK, Pc, Running, Granted, Creating
<1>1. ASSUME NEW c \in Clients, NEW l \in Locks, Acquire(c, l) PROVE TypeOK'
  BY <1>1 DEF Acquire
<1>2. ASSUME NEW c \in Clients, Release(c) PROVE TypeOK'
  BY <1>2 DEF Release
<1>3. ASSUME NEW c \in Clients, Begin(c) PROVE TypeOK'
  BY <1>3 DEF Begin
<1>4. ASSUME NEW c \in Clients, Count(c) PROVE TypeOK'
  <2>1. raced' \in BOOLEAN
    BY <1>4, Zenon DEF Count
  <2> QED BY <1>4 DEF Count
<1>5. ASSUME NEW c \in Clients, Insert(c) PROVE TypeOK'
  <2>1. raced' \in BOOLEAN
    BY <1>5, Zenon DEF Insert
  <2>2. isLocked' \in [Locks -> BOOLEAN]
    BY <1>5 DEF Insert
  <2> QED BY <1>5 DEF Insert
<1>6. ASSUME NEW c \in Clients, Assign(c) PROVE TypeOK'
  <2>1. raced' \in BOOLEAN
    BY <1>6, Zenon DEF Assign
  <2> QED BY <1>6 DEF Assign
<1>7. ASSUME NEW c \in Clients, TestLock(c) PROVE TypeOK'
  <2>1. raced' \in BOOLEAN
    BY <1>7, Zenon DEF TestLock
  <2> QED BY <1>7, Zenon DEF TestLock
<1>8. ASSUME NEW c \in Clients, DoRelease(c) PROVE TypeOK'
  <2>1. raced' \in BOOLEAN
    BY <1>8, Zenon DEF DoRelease
  <2> QED BY <1>8 DEF DoRelease
<1>9. ASSUME NEW c \in Clients, SpuriousWakeup(c) PROVE TypeOK'
  BY <1>9 DEF SpuriousWakeup
<1>10. CASE UNCHANGED vars
  BY <1>10 DEF vars
<1> QED
  BY <1>1, <1>2, <1>3, <1>4, <1>5, <1>6, <1>7, <1>8, <1>9, <1>10 DEF Next, Handler

(* A step changes the queue only at its ends, and pc of a queued client only   *)
(* when it takes it off.                                                        *)
LEMMA QueueNext == TypeOK /\ QueueInv /\ [Next]_vars => QueueInv'
<1> SUFFICES ASSUME TypeOK, QueueInv, [Next]_vars PROVE QueueInv'
  OBVIOUS
<1> USE DEF TypeOK, QueueInv
<1>1. ASSUME NEW c \in Clients, jobq' = Append(jobq, c),
             pc[c] \in {"idle", "hold"}, pc'[c] \in {"acqq", "relq"},
             \A d \in Clients \ {c} : pc'[d] = pc[d]
      PROVE  QueueInv'
  <2>1. /\ Len(jobq') = Len(jobq) + 1 /\ jobq'[Len(jobq) + 1] = c
        /\ \A i \in 1..Len(jobq) : jobq'[i] = jobq[i] /\ jobq[i] \in Clients
    BY <1>1
  <2>2. \A i \in 1..Len(jobq) : jobq[i] # c
    BY <1>1, Zenon
  <2>3. \A i \in 1..Len(jobq') : i \in 1..Len(jobq) \/ i = Len(jobq) + 1
    BY <2>1
  <2>4. \A i \in 1..Len(jobq') : pc'[jobq'[i]] \in {"acqq", "relq"}
    BY <1>1
  <2>5. \A i, j \in 1..Len(jobq') : jobq'[i] = jobq'[j] => i = j
    BY <2>1, <2>2
  <2> QED BY <2>4, <2>5
<1>2. ASSUME NEW c \in Clients, Begin(c) PROVE QueueInv'
  <2>1. /\ Len(jobq') = Len(jobq) - 1
        /\ \A i \in 1..Len(jobq') : jobq'[i] = jobq[i + 1] /\ i + 1 \in 1..Len(jobq)
    BY <1>2 DEF Begin
  <2>2. \A i \in 1..Len(jobq') : jobq'[i] # c
    BY <1>2 DEF Begin
  <2>3. \A i \in 1..Len(jobq') : pc'[jobq'[i]] \in {"acqq", "relq"}
    BY <1>2 DEF Begin
  <2>4. \A i, j \in 1..Len(jobq') : jobq'[i] = jobq'[j] => i = j
    BY <2>1
  <2> QED BY <2>3, <2>4
<1>3. ASSUME jobq' = jobq,
             \A d \in Clients : pc[d] \in {"acqq", "relq"} => pc'[d] = pc[d]
      PROVE  QueueInv'
  BY <1>3
<1>4. ASSUME NEW c \in Clients, NEW l \in Locks, Acquire(c, l) PROVE QueueInv'
  BY <1>1, <1>4 DEF Acquire
<1>5. ASSUME NEW c \in Clients, Release(c) PROVE QueueInv'
  BY <1>5 DEF Release
<1>6. ASSUME NEW c \in Clients, Handler(c) \/ SpuriousWakeup(c) PROVE QueueInv'
  <2>1. CASE DoRelease(c)
    BY <2>1 DEF DoRelease, Signalled
  <2>2. CASE ~DoRelease(c)
    BY <1>6, <2>2 DEF Handler, Count, Insert, Assign, TestLock, SpuriousWakeup
  <2> QED BY <2>1, <2>2
<1>7. CASE UNCHANGED vars
  BY <1>7 DEF vars
<1> QED
  BY <1>2, <1>4, <1>5, <1>6, <1>7 DEF Next

(* Every step that does not race keeps the invariant of race-free behaviours. *)
LEMMA RaceFreeNext == TypeOK /\ QueueInv /\ ~raced /\ RaceFree /\ [Next]_vars /\ ~raced' => RaceFree'
<1> SUFFICES ASSUME TypeOK, QueueInv, ~raced, RaceFree, [Next]_vars, ~raced' PROVE RaceFree'
  OBVIOUS
<1> USE DEF TypeOK, RaceFree, CreateInv, GrantInv, WakeInv, Using, Granted, Creating
<1>1. ASSUME NEW c \in Clients, NEW l \in Locks, Acquire(c, l) PROVE RaceFree'
  BY <1>1 DEF Acquire
<1>2. ASSUME NEW c \in Clients, Release(c) PROVE RaceFree'
  BY <1>2 DEF Release
<1>3. ASSUME NEW c \in Clients, Begin(c) PROVE RaceFree'
  <2>1. pc[c] \in {"acqq", "relq"}
    BY <1>3 DEF Begin, QueueInv
  <2>2. lid' = lid /\ inserted' = inserted /\ isLocked' = isLocked
    BY <1>3 DEF Begin
  <2>3. CASE pc[c] = "acqq"
    <3>1. pc' = [pc EXCEPT ![c] = "count"]
      BY <1>3, <2>3 DEF Begin
    <3> QED BY <2>2, <2>3, <3>1
  <2>4. CASE pc[c] = "relq"
    <3>1. pc' = [pc EXCEPT ![c] = "release"]
      BY <1>3, <2>4 DEF Begin
    <3>2. CreateInv'
      BY <2>2, <2>4, <3>1
    <3>3. GrantInv' /\ WakeInv'
      BY <2>2, <2>4, <3>1
    <3> QED BY <3>2, <3>3
  <2> QED BY <2>1, <2>3, <2>4
<1>4. ASSUME NEW c \in Clients, Count(c) PROVE RaceFree'
  <2>1. /\ ~MapRace(c) /\ pc[c] = "count"
        /\ lid' = lid /\ inserted' = inserted /\ isLocked' = isLocked
    BY <1>4, Zenon DEF Count
  <2>2. CASE lid[c] \in inserted
    <3>1. pc' = [pc EXCEPT ![c] = "test"]
      BY <1>4, <2>1, <2>2 DEF Count
    <3>2. CreateInv'
      BY <2>1, <2>2, <3>1 DEF MapRace
    <3>3. GrantInv' /\ WakeInv'
      BY <2>1, <3>1
    <3> QED BY <3>2, <3>3
  <2>3. CASE lid[c] \notin inserted
    <3>1. pc' = [pc EXCEPT ![c] = "insert"]
      BY <1>4, <2>3 DEF Count
    <3>2. CreateInv'
      BY <2>1, <2>3, <3>1 DEF MapRace
    <3>3. GrantInv' /\ WakeInv'
      BY <2>1, <3>1
    <3> QED BY <3>2, <3>3
  <2> QED BY <2>2, <2>3
<1>5. ASSUME NEW c \in Clients, Insert(c) PROVE RaceFree'
  <2>1. ~MapRace(c) /\ pc[c] = "insert" /\ pc' = [pc EXCEPT ![c] = "assign"] /\ lid' = lid
        /\ inserted' = inserted \cup {lid[c]}
    BY <1>5, Zenon DEF Insert
  <2>2. ~isLocked[lid[c]]
    BY <2>1
  <2>3. \A l \in Locks : isLocked'[l] <=> isLocked[l]
    BY <1>5 DEF Insert
  <2>4. CreateInv'
    BY <2>1
  <2>5. GrantInv'
    BY <2>1, <2>3
  <2>6. WakeInv'
    BY <2>1, <2>3
  <2> QED BY <2>4, <2>5, <2>6
<1>6. ASSUME NEW c \in Clients, Assign(c) PROVE RaceFree'
  <2>1. ~MapRace(c) /\ pc[c] = "assign" /\ pc' = [pc EXCEPT ![c] = "test"] /\ lid' = lid
        /\ inserted' = inserted /\ isLocked' = [isLocked EXCEPT ![lid[c]] = FALSE]
    BY <1>6, Zenon DEF Assign
  <2>2. CreateInv'
    BY <2>1
  <2>3. \A l \in Locks : isLocked'[l] <=> isLocked[l]
    BY <2>1
  <2>4. GrantInv'
    BY <2>1
  <2>5. WakeInv'
    BY <2>1
  <2> QED BY <2>2, <2>4, <2>5
<1>7. ASSUME NEW c \in Clients, TestLock(c) PROVE RaceFree'
  <2>1. ~MapRace(c) /\ pc[c] = "test" /\ lid' = lid /\ inserted' = inserted
    BY <1>7, Zenon DEF TestLock
  <2>2. CASE isLocked[lid[c]]
    <3>1. pc' = [pc EXCEPT ![c] = "wait"] /\ isLocked' = isLocked
      BY <1>7, <2>2 DEF TestLock
    <3>2. CreateInv' /\ GrantInv'
      BY <2>1, <3>1
    <3>3. WakeInv'
      BY <2>1, <2>2, <3>1
    <3> QED BY <3>2, <3>3
  <2>3. CASE ~isLocked[lid[c]]
    <3>1. pc' = [pc EXCEPT ![c] = "hold"] /\ isLocked' = [isLocked EXCEPT ![lid[c]] = TRUE]
      BY <1>7, <2>3 DEF TestLock
    <3>2. CreateInv'
      BY <2>1, <3>1
    <3>3. GrantInv'
      BY <2>1, <2>3, <3>1
    <3>4. WakeInv'
      BY <2>1, <3>1
    <3> QED BY <3>2, <3>3, <3>4
  <2> QED BY <2>2, <2>3
<1>8. ASSUME NEW c \in Clients, DoRelease(c) PROVE RaceFree'
  BY <1>8 DEF DoRelease, MapRace, Signalled
<1>9. ASSUME NEW c \in Clients, SpuriousWakeup(c) PROVE RaceFree'
  BY <1>9 DEF SpuriousWakeup
<1>10. CASE UNCHANGED vars
  BY <1>10 DEF vars
<1> QED
  BY <1>1, <1>2, <1>3, <1>4, <1>5, <1>6, <1>7, <1>8, <1>9, <1>10, Zenon DEF Next, Handler

LEMMA LockInvNext == TypeOK /\ LockInv /\ [Next]_vars => LockInv'
<1> SUFFICES ASSUME TypeOK, LockInv, [Next]_vars PROVE LockInv'
  OBVIOUS
<1>1. QueueInv'
  BY QueueNext DEF LockInv
<1>2. raced => raced'
  BY Zenon DEF Next, vars, Acquire, Release, Begin, Handler, Count, Insert, Assign, TestLock,
         DoRelease, SpuriousWakeup
<1>3. ~raced' => RaceFree'
  BY <1>2, RaceFreeNext DEF LockInv
<1> QED BY <1>1, <1>3 DEF LockInv

LEMMA LockInvInit == Init \/ WarmInit => LockInv
<1> SUFFICES ASSUME Init \/ WarmInit PROVE LockInv
  OBVIOUS
<1>1. /\ pc = [c \in Clients |-> "idle"] /\ jobq = <<>>
      /\ isLocked = [l \in Locks |-> FALSE]
  BY DEF Init, WarmInit
<1>2. QueueInv
  BY <1>1 DEF QueueInv
<1>3. CreateInv
  BY <1>1 DEF CreateInv, Using, Granted, Creating
<1>4. GrantInv
  BY <1>1 DEF GrantInv, Granted
<1>5. WakeInv
  BY <1>1 DEF WakeInv
<1> QED BY <1>2, <1>3, <1>4, <1>5 DEF LockInv, RaceFree

--------------------------------------------------------------------------------
(* The variables of the lock server keep their types. *)
THEOREM LockTypeCorrect == Spec => []TypeOK
<1>1. Init => TypeOK
  BY LockTypeInit
<1> QED BY <1>1, LockTypeNext, PTL DEF Spec

(* Whatever the clients, locks and workers: unless a use of the map overlapped  *)
(* the creation of an entry, lock_server::acquire grants a lock to one client   *)
(* at a time.                                                                   *)
THEOREM RaceFreeMutualExclusionHolds == Spec => []RaceFreeMutualExclusion
<1>1. Init => TypeOK /\ LockInv
  BY LockTypeInit, LockInvInit
<1>2. TypeOK /\ LockInv /\ [Next]_vars => (TypeOK /\ LockInv)'
  BY LockTypeNext, LockInvNext
<1>3. TypeOK /\ LockInv => RaceFreeMutualExclusion
  BY DEF LockInv, RaceFree, GrantInv, RaceFreeMutualExclusion, MutualExclusion, GrantedTo
<1> QED BY <1>1, <1>2, <1>3, PTL DEF Spec

(* Under the same condition the signal of lock_server::release reaches a waiter *)
(* whenever the lock is free and somebody waits for it.                         *)
THEOREM NoLostWakeupHolds == Spec => []NoLostWakeup
<1>1. Init => TypeOK /\ LockInv
  BY LockTypeInit, LockInvInit
<1>2. TypeOK /\ LockInv /\ [Next]_vars => (TypeOK /\ LockInv)'
  BY LockTypeNext, LockInvNext
<1>3. TypeOK /\ LockInv => NoLostWakeup
  BY DEF LockInv, RaceFree, WakeInv, NoLostWakeup
<1> QED BY <1>1, <1>2, <1>3, PTL DEF Spec

--------------------------------------------------------------------------------
(* With every entry in place no handler ever creates one, so nothing races. *)
WarmInv == inserted = Locks /\ ~raced /\ \A c \in Clients : pc[c] \notin Creating

LEMMA WarmNext == TypeOK /\ QueueInv /\ WarmInv /\ [Next]_vars => WarmInv'
<1> SUFFICES ASSUME TypeOK, QueueInv, WarmInv, [Next]_vars PROVE WarmInv'
  OBVIOUS
<1>1. \A c \in Clients : ~MapRace(c)
  BY DEF WarmInv, MapRace
<1> USE DEF TypeOK, WarmInv, Creating
<1>2. ASSUME NEW c \in Clients, NEW l \in Locks, Acquire(c, l) PROVE WarmInv'
  BY <1>2 DEF Acquire
<1>3. ASSUME NEW c \in Clients, Release(c) \/ Begin(c) \/ SpuriousWakeup(c) PROVE WarmInv'
  BY <1>3 DEF Release, Begin, SpuriousWakeup
<1>4. ASSUME NEW c \in Clients, Count(c) \/ TestLock(c) PROVE WarmInv'
  BY <1>1, <1>4 DEF Count, TestLock
<1>5. ASSUME NEW c \in Clients, Insert(c) \/ Assign(c) PROVE FALSE
  BY <1>5 DEF Insert, Assign
<1>6. ASSUME NEW c \in Clients, DoRelease(c) PROVE WarmInv'
  BY <1>1, <1>6 DEF DoRelease
<1>7. CASE UNCHANGED vars
  BY <1>7 DEF vars
<1> QED BY <1>2, <1>3, <1>4, <1>5, <1>6, <1>7 DEF Next, Handler

(* The steps of the server as LockSpec sees them: TestLock that succeeds grants, *)
(* DoRelease gives back, and everything else changes nothing.                    *)
LEMMA RefinementStep ==
    TypeOK /\ LockInv /\ ~raced /\ [Next]_vars
        => [Abstract!Next]_([l \in Locks |-> GrantedTo(l)])
<1> SUFFICES ASSUME TypeOK, LockInv, ~raced, [Next]_vars
             PROVE  [Abstract!Next]_([l \in Locks |-> GrantedTo(l)])
  OBVIOUS
<1> USE DEF TypeOK, GrantedTo
<1>1. GrantInv
  BY DEF LockInv, RaceFree
<1>2. ASSUME lid' = lid, \A d \in Clients : pc'[d] \in Granted <=> pc[d] \in Granted
      PROVE  UNCHANGED [l \in Locks |-> GrantedTo(l)]
  BY <1>2
<1>3. ASSUME NEW c \in Clients, NEW l \in Locks, Acquire(c, l)
      PROVE  UNCHANGED [k \in Locks |-> GrantedTo(k)]
  <2>1. /\ pc[c] \notin Granted /\ pc'[c] \notin Granted
        /\ \A d \in Clients \ {c} : pc'[d] = pc[d] /\ lid'[d] = lid[d]
    BY <1>3 DEF Acquire, Granted
  <2>2. \A d \in Clients, k \in Locks :
            (pc[d] \in Granted /\ lid[d] = k) <=> (pc'[d] \in Granted /\ lid'[d] = k)
    BY <2>1
  <2> QED BY <2>2
<1>4. ASSUME NEW c \in Clients,
             Release(c) \/ Count(c) \/ Insert(c) \/ Assign(c) \/ SpuriousWakeup(c)
      PROVE  UNCHANGED [l \in Locks |-> GrantedTo(l)]
  BY <1>4 DEF Release, Count, Insert, Assign, SpuriousWakeup, Granted
<1>5. ASSUME NEW c \in Clients, Begin(c) PROVE UNCHANGED [l \in Locks |-> GrantedTo(l)]
  <2>1. pc[c] \in {"acqq", "relq"}
    BY <1>5 DEF Begin, LockInv, QueueInv
  <2> QED BY <1>5, <2>1 DEF Begin, Granted
<1>6. ASSUME NEW c \in Clients, TestLock(c)
      PROVE  Abstract!Next \/ UNCHANGED [l \in Locks |-> GrantedTo(l)]
  <2>1. CASE isLocked[lid[c]]
    BY <1>6, <2>1 DEF TestLock, Granted
  <2>2. CASE ~isLocked[lid[c]]
    <3>1. pc[c] = "test" /\ pc' = [pc EXCEPT ![c] = "hold"] /\ lid' = lid
      BY <1>6, <2>2 DEF TestLock
    <3>2. GrantedTo(lid[c]) = {}
      BY <1>1, <2>2 DEF GrantInv
    <3>3. \A l \in Locks : GrantedTo(l)' = IF l = lid[c] THEN {c} ELSE GrantedTo(l)
      BY <3>1, <3>2 DEF Granted
    <3>4. PICK l \in Locks : l = lid[c]
      OBVIOUS
    <3>5. Abstract!Grant(c, l)
      BY <3>2, <3>3, <3>4, Zenon DEF Abstract!Grant
    <3> QED BY <3>5 DEF Abstract!Next
  <2> QED BY <2>1, <2>2
<1>7. ASSUME NEW c \in Clients, DoRelease(c) PROVE Abstract!Next
  <2>1. /\ pc[c] = "release" /\ pc'[c] = "idle" /\ lid' = lid
        /\ \A d \in Clients \ {c} : pc'[d] \in Granted <=> pc[d] \in Granted
    BY <1>7 DEF DoRelease, Signalled, Granted
  <2>2. GrantedTo(lid[c]) = {c}
    BY <1>1, <2>1 DEF GrantInv, Granted
  <2>3. \A l \in Locks : GrantedTo(l)' = IF l = lid[c] THEN {} ELSE GrantedTo(l)
    BY <2>1, <2>2 DEF Granted
  <2>4. PICK l \in Locks : l = lid[c]
    OBVIOUS
  <2>5. Abstract!GiveBack(c, l)
    BY <2>2, <2>3, <2>4, Zenon DEF Abstract!GiveBack
  <2> QED BY <2>5 DEF Abstract!Next
<1>8. CASE UNCHANGED vars
  BY <1>8 DEF vars
<1> QED BY <1>3, <1>4, <1>5, <1>6, <1>7, <1>8 DEF Next, Handler

(* A lock server whose entries exist implements LockSpec: whatever the          *)
(* interleaving of its handlers, each lock goes from free to one client and     *)
(* back.                                                                        *)
THEOREM ImplementsLockSpecHolds == WarmSpec => ImplementsLockSpec
<1>1. WarmInit => TypeOK /\ LockInv /\ WarmInv
  BY LockTypeInit, LockInvInit DEF WarmInit, WarmInv, Creating
<1>2. WarmInit => Abstract!Init
  BY DEF WarmInit, Abstract!Init, GrantedTo, Granted
<1>3. TypeOK /\ LockInv /\ WarmInv /\ [Next]_vars => (TypeOK /\ LockInv /\ WarmInv)'
  BY LockTypeNext, LockInvNext, WarmNext DEF LockInv
<1>4. WarmInv => ~raced
  BY DEF WarmInv
<1> QED
  BY <1>1, <1>2, <1>3, <1>4, RefinementStep, PTL DEF WarmSpec, ImplementsLockSpec, Abstract!Spec

--------------------------------------------------------------------------------
(* lock_tester.                                                                 *)

Acquiring == {"acqq", "count", "insert", "assign", "test", "wait"}
Releasing == {"relq", "release"}

(* How far the call for a lock is: not begun or returned, acquire outstanding   *)
(* or granted, granted, release outstanding or returned.                        *)
Stages == {{"idle"}, Acquiring \cup {"hold"}, {"hold"}, Releasing \cup {"idle"}}

\* test1: what its position i means for lock a, whose calls thread0 stands for.
Stage0(i) ==
    IF i \in {1, 5, 9, 17} THEN {"idle"}
    ELSE IF i \in {2, 6, 10} THEN Acquiring \cup {"hold"}
    ELSE IF i \in {4, 8, 16} THEN Releasing \cup {"idle"}
    ELSE {"hold"}

\* The same for lock b and thread1.
Stage1(i) ==
    IF i = 12 THEN Acquiring \cup {"hold"}
    ELSE IF i = 13 THEN {"hold"}
    ELSE IF i = 14 THEN Releasing \cup {"idle"}
    ELSE {"idle"}

\* The tester's count of the grants of each lock at position i.
CountA(i) == IF i \in {3, 4, 7, 8, 11, 12, 13, 14, 15, 16} THEN 1 ELSE 0
CountB(i) == IF i \in {13, 14} THEN 1 ELSE 0

(* test1: what each position of the main thread means for its two locks, and    *)
(* that what it has acquired once has an entry.  One of the two calls is not    *)
(* outstanding, so that nothing uses the map while the other creates an entry.  *)
Test1Inv ==
    /\ at \in 1..17 /\ \A c \in Clients : step[c] = "acquire" /\ left[c] = 0
    /\ \A c \in Clients \ {thread0, thread1} : pc[c] = "idle"
    /\ pc[thread0] \in Stage0(at) /\ pc[thread1] \in Stage1(at)
    /\ pc[thread0] # "idle" => lid[thread0] = a
    /\ pc[thread1] # "idle" => lid[thread1] = b
    /\ ct[a] = CountA(at) /\ ct[b] = CountB(at)
    /\ at > 2 => a \in inserted
    /\ at > 12 => b \in inserted

(* test2 to test5: every entry exists, and the tester's count agrees with what  *)
(* the threads have been granted.                                               *)
LoopInv ==
    /\ inserted = Locks
    /\ \A c \in Clients :
          /\ pc[c] \notin Creating
          /\ pc[c] # "idle" => lid[c] = a
          /\ step[c] = "acquire" => pc[c] \in Releasing \cup {"idle"}
          /\ step[c] = "check_grant" => pc[c] \in Acquiring \cup {"hold"}
          /\ step[c] \in {"check_release", "release"} => pc[c] = "hold"
          /\ step[c] = "check_release" => ct[a] = 1
    /\ (\A c \in Clients : step[c] # "check_release") => ct[a] = 0

StepPc == {"acquire", "check_grant", "check_release", "release"}

TesterInv ==
    /\ TypeOK /\ LockInv /\ ~raced /\ ~failed
    /\ test \in 1..6 /\ ct \in [Locks -> Nat] /\ step \in [Clients -> StepPc]
    /\ test = 1 => Test1Inv
    /\ test # 1 => LoopInv

(* What the statements of test1 are. *)
LEMMA Test1Program ==
    /\ Len(Test1) = 16
    /\ \A i \in 1..16 :
          \/ i \in {1, 5, 9}   /\ Test1[i] = <<"acquire", a>>
          \/ i \in {2, 6, 10}  /\ Test1[i] = <<"check_grant", a>>
          \/ i \in {3, 7, 15}  /\ Test1[i] = <<"release", a>>
          \/ i \in {4, 8, 16}  /\ Test1[i] = <<"check_release", a>>
          \/ i = 11            /\ Test1[i] = <<"acquire", b>>
          \/ i = 12            /\ Test1[i] = <<"check_grant", b>>
          \/ i = 13            /\ Test1[i] = <<"release", b>>
          \/ i = 14            /\ Test1[i] = <<"check_release", b>>
  BY DEF Test1

\* At no position are both calls outstanding.
LEMMA Test1Stages ==
    ASSUME NEW i \in 1..17
    PROVE  /\ Stage0(i) \in Stages /\ Stage1(i) \in Stages
           /\ Stage0(i) \in {{"idle"}, {"hold"}} \/ Stage1(i) = {"idle"}
  BY DEF Stage0, Stage1, Stages

(* A step of the server moves the calls along and forgets no entry. *)
LEMMA ServerEffect ==
    ASSUME TypeOK, QueueInv, NEW c \in Clients, Begin(c) \/ Handler(c) \/ SpuriousWakeup(c)
    PROVE  /\ lid' = lid /\ inserted \subseteq inserted'
           /\ \A d \in Clients :
                 \/ pc'[d] = pc[d]
                 \/ pc[d] \in Acquiring /\ pc'[d] \in Acquiring \cup {"hold"}
                 \/ pc[d] \in Releasing /\ pc'[d] \in {"release", "idle"}
<1> USE DEF TypeOK, Acquiring, Releasing
<1>1. CASE Begin(c)
  <2>1. pc[c] \in {"acqq", "relq"}
    BY <1>1 DEF Begin, QueueInv
  <2> QED BY <1>1, <2>1 DEF Begin
<1>2. CASE Count(c) \/ Insert(c) \/ Assign(c) \/ TestLock(c) \/ SpuriousWakeup(c)
  BY <1>2 DEF Count, Insert, Assign, TestLock, SpuriousWakeup
<1>3. CASE DoRelease(c)
  BY <1>3 DEF DoRelease, Signalled
<1> QED BY <1>1, <1>2, <1>3 DEF Handler

(* Without another handler in the middle of a creation, a handler does not race *)
(* and begins to create an entry only if there is none.                         *)
LEMMA ServerCreates ==
    ASSUME TypeOK, ~raced, NEW c \in Clients, Begin(c) \/ Handler(c) \/ SpuriousWakeup(c),
           pc[c] \in Running => ~MapRace(c), inserted = Locks,
           \A d \in Clients : pc[d] \notin Creating
    PROVE  \A d \in Clients : pc'[d] \notin Creating
<1> USE DEF TypeOK, Creating
<1>1. CASE Begin(c)
  BY <1>1 DEF Begin
<1>2. CASE Count(c) \/ TestLock(c) \/ SpuriousWakeup(c)
  BY <1>2 DEF Count, TestLock, SpuriousWakeup, Running
<1>3. CASE Insert(c) \/ Assign(c)
  BY <1>3 DEF Insert, Assign
<1>4. CASE DoRelease(c)
  BY <1>4 DEF DoRelease
<1> QED BY <1>1, <1>2, <1>3, <1>4 DEF Handler

LEMMA ServerNoRace ==
    ASSUME ~raced, NEW c \in Clients, Begin(c) \/ Handler(c) \/ SpuriousWakeup(c),
           pc[c] \in Running => ~MapRace(c)
    PROVE  ~raced'
  BY ZenonT(40) DEF Begin, Handler, Count, Insert, Assign, TestLock, DoRelease, SpuriousWakeup,
         Running, Creating

(* Every step of the tester is one of the lock server and its clients, or none. *)
LEMMA TesterRuns == TesterInv /\ TesterNext => [Next]_vars
<1> SUFFICES ASSUME TesterInv, TesterNext PROVE [Next]_vars
  OBVIOUS
<1>0. thread0 \in Clients /\ thread1 \in Clients /\ a \in Locks /\ b \in Locks
  BY TesterAssumption
<1>1. CASE Test1Step
  <2>1. Test1[at][2] \in {a, b}
    <3>1. at \in 1..16
      <4>1. test = 1 /\ at <= Len(Test1)
        BY <1>1, Zenon DEF Test1Step
      <4>2. at \in 1..17
        BY <4>1 DEF TesterInv, Test1Inv
      <4> QED BY <4>1, <4>2, Test1Program
    <3> QED BY <3>1, Test1Program
  <2>2. \/ \E l \in {a, b} : Acquire(Slot(l), l)
        \/ \E l : Release(Slot(l))
        \/ UNCHANGED vars
    BY <1>1, <2>1 DEF Test1Step
  <2> QED BY <1>0, <2>2 DEF Next, Slot
<1>2. CASE NextTest \/ Abort
  BY <1>2 DEF NextTest, Abort
<1>3. ASSUME NEW c \in Clients, Thread(c) PROVE [Next]_vars
  BY <1>0, <1>3 DEF Thread, Next
<1>4. ASSUME NEW c \in Clients, Server(c) \/ SpuriousWakeup(c) PROVE [Next]_vars
  BY <1>4 DEF Server, Next
<1> QED BY <1>1, <1>2, <1>3, <1>4 DEF TesterNext

(* Steps of test1. *)
LEMMA Test1Next ==
    ASSUME TesterInv, Test1Step
    PROVE  ~failed' /\ ct' \in [Locks -> Nat] /\ Test1Inv'
<1> USE TesterAssumption
<1>0. /\ TypeOK /\ Test1Inv /\ ~failed /\ ct \in [Locks -> Nat] /\ a \in Locks /\ b \in Locks
      /\ thread0 \in Clients /\ thread1 \in Clients /\ thread0 # thread1 /\ a # b
  BY DEF TesterInv, Test1Step
<1>1. at \in 1..16 /\ at' = at + 1 /\ step' = step /\ left' = left
  BY <1>0, Test1Program DEF Test1Inv, Test1Step
<1>2. Slot(a) = thread0 /\ Slot(b) = thread1
  BY DEF Slot
<1>3. /\ pc \in [Clients -> Pc] /\ lid \in [Clients -> Locks]
  BY <1>0 DEF TypeOK
<1> DEFINE Op(n, l) == Test1[at][1] = n /\ Test1[at][2] = l
<1>4. ASSUME NEW l \in {a, b}, Op("acquire", l)
      PROVE  /\ pc[Slot(l)] = "idle" /\ pc' = [pc EXCEPT ![Slot(l)] = "acqq"]
             /\ lid' = [lid EXCEPT ![Slot(l)] = l] /\ UNCHANGED <<inserted, ct, failed>>
  BY <1>4 DEF Test1Step, Acquire
<1>5. ASSUME NEW l \in {a, b}, Op("release", l)
      PROVE  /\ pc[Slot(l)] = "hold" /\ pc' = [pc EXCEPT ![Slot(l)] = "relq"]
             /\ UNCHANGED <<lid, inserted, ct, failed>>
  BY <1>5 DEF Test1Step, Release
<1>6. ASSUME NEW l \in {a, b}, Op("check_grant", l)
      PROVE  pc[Slot(l)] = "hold" /\ check_grant(l) /\ UNCHANGED <<pc, lid, inserted>>
  BY <1>6 DEF Test1Step, vars
<1>7. ASSUME NEW l \in {a, b}, Op("check_release", l)
      PROVE  pc[Slot(l)] = "idle" /\ check_release(l) /\ UNCHANGED <<pc, lid, inserted>>
  BY <1>7 DEF Test1Step, vars
<1>8. \/ at \in {1, 5, 9}   /\ Op("acquire", a)
      \/ at \in {2, 6, 10}  /\ Op("check_grant", a)
      \/ at \in {3, 7, 15}  /\ Op("release", a)
      \/ at \in {4, 8, 16}  /\ Op("check_release", a)
      \/ at = 11            /\ Op("acquire", b)
      \/ at = 12            /\ Op("check_grant", b)
      \/ at = 13            /\ Op("release", b)
      \/ at = 14            /\ Op("check_release", b)
  BY <1>1, Test1Program
<1> HIDE DEF Op
<1>9. CASE at \in {1, 5, 9} /\ Op("acquire", a)
  <2>1. /\ pc' = [pc EXCEPT ![thread0] = "acqq"] /\ lid' = [lid EXCEPT ![thread0] = a]
        /\ UNCHANGED <<inserted, ct, failed>>
    BY <1>2, <1>4, <1>9
  <2>2. Stage0(at') = Acquiring \cup {"hold"} /\ Stage1(at') = Stage1(at)
    BY <1>1, <1>9 DEF Stage0, Stage1
  <2>3. CountA(at') = CountA(at) /\ CountB(at') = CountB(at)
    BY <1>1, <1>9 DEF CountA, CountB
  <2>4. at' \in 1..17 /\ (at' > 2 => at > 2) /\ ~(at' > 12)
    BY <1>1, <1>9
  <2>5. /\ pc'[thread0] \in Acquiring /\ lid'[thread0] = a
        /\ \A d \in Clients \ {thread0} : pc'[d] = pc[d] /\ lid'[d] = lid[d]
    BY <1>3, <2>1 DEF Acquiring
  <2>6. UNCHANGED <<inserted, ct, failed>>
    BY <2>1
  <2> QED BY <1>0, <1>1, <2>2, <2>3, <2>4, <2>5, <2>6 DEF Test1Inv
<1>10. CASE at \in {2, 6, 10} /\ Op("check_grant", a)
  <2>1. pc[thread0] = "hold" /\ check_grant(a) /\ UNCHANGED <<pc, lid, inserted>>
    BY <1>2, <1>6, <1>10
  <2>2. /\ CountA(at) = 0 /\ CountA(at') = 1 /\ CountB(at') = CountB(at)
    BY <1>1, <1>10 DEF CountA, CountB
  <2>3. Stage0(at') = {"hold"} /\ Stage1(at') = Stage1(at)
    BY <1>1, <1>10 DEF Stage0, Stage1
  <2>4. ct[a] = 0
    BY <1>0, <2>2 DEF Test1Inv
  <2>5. ct' = [ct EXCEPT ![a] = ct[a] + 1] /\ failed' = failed
    BY <2>1, <2>4 DEF check_grant
  <2>6. ct' \in [Locks -> Nat] /\ ct'[a] = 1 /\ ct'[b] = ct[b]
    BY <1>0, <2>4, <2>5
  <2>7. a \in inserted
    <3>1. lid[thread0] = a
      BY <1>0, <2>1 DEF Test1Inv
    <3> QED BY <2>1, <3>1 DEF TesterInv, LockInv, RaceFree, CreateInv, Using, Granted
  <2>8. at' \in 1..17 /\ ~(at' > 12)
    BY <1>1, <1>10
  <2> QED BY <1>0, <1>1, <2>1, <2>2, <2>3, <2>5, <2>7, <2>8 DEF Test1Inv
<1>11. CASE at \in {3, 7, 15} /\ Op("release", a)
  <2>1. pc[thread0] = "hold" /\ pc' = [pc EXCEPT ![thread0] = "relq"] /\ UNCHANGED <<lid, inserted, ct, failed>>
    BY <1>2, <1>5, <1>11
  <2>2. Stage0(at') = Releasing \cup {"idle"} /\ Stage1(at') = Stage1(at)
    BY <1>1, <1>11 DEF Stage0, Stage1
  <2>3. CountA(at') = CountA(at) /\ CountB(at') = CountB(at)
    BY <1>1, <1>11 DEF CountA, CountB
  <2>4. at' \in 1..17 /\ (at' > 2 => at > 2) /\ (at' > 12 => at > 12)
    BY <1>1, <1>11
  <2>5. /\ pc'[thread0] \in Releasing /\ lid'[thread0] = lid[thread0] /\ lid[thread0] = a
        /\ \A d \in Clients \ {thread0} : pc'[d] = pc[d] /\ lid'[d] = lid[d]
    BY <1>0, <1>3, <2>1 DEF Releasing, Test1Inv
  <2>6. UNCHANGED <<inserted, ct, failed>>
    BY <2>1
  <2> QED BY <1>0, <1>1, <2>2, <2>3, <2>4, <2>5, <2>6 DEF Test1Inv
<1>12. CASE at \in {4, 8, 16} /\ Op("check_release", a)
  <2>1. pc[thread0] = "idle" /\ check_release(a) /\ UNCHANGED <<pc, lid, inserted>>
    BY <1>2, <1>7, <1>12
  <2>2. /\ CountA(at) = 1 /\ CountA(at') = 0 /\ CountB(at') = CountB(at)
    BY <1>1, <1>12 DEF CountA, CountB
  <2>3. Stage0(at') = {"idle"} /\ Stage1(at') = Stage1(at)
    BY <1>1, <1>12 DEF Stage0, Stage1
  <2>4. ct[a] = 1
    BY <1>0, <2>2 DEF Test1Inv
  <2>5. ct' = [ct EXCEPT ![a] = ct[a] - 1] /\ failed' = failed
    BY <2>1, <2>4 DEF check_release
  <2>6. ct' \in [Locks -> Nat] /\ ct'[a] = 0 /\ ct'[b] = ct[b]
    BY <1>0, <2>4, <2>5
  <2>7. at' \in 1..17 /\ (at' > 2 => at > 2) /\ (at' > 12 => at > 12)
    BY <1>1, <1>12
  <2> QED BY <1>0, <1>1, <2>1, <2>2, <2>3, <2>5, <2>7 DEF Test1Inv
<1>13. CASE at = 11 /\ Op("acquire", b)
  <2>1. /\ pc' = [pc EXCEPT ![thread1] = "acqq"] /\ lid' = [lid EXCEPT ![thread1] = b]
        /\ UNCHANGED <<inserted, ct, failed>>
    BY <1>2, <1>4, <1>13
  <2>2. Stage1(at') = Acquiring \cup {"hold"} /\ Stage0(at') = Stage0(at)
    BY <1>1, <1>13 DEF Stage0, Stage1
  <2>3. CountA(at') = CountA(at) /\ CountB(at') = CountB(at)
    BY <1>1, <1>13 DEF CountA, CountB
  <2>4. at' \in 1..17 /\ (at' > 2 => at > 2) /\ ~(at' > 12)
    BY <1>1, <1>13
  <2>5. /\ pc'[thread1] \in Acquiring /\ lid'[thread1] = b
        /\ \A d \in Clients \ {thread1} : pc'[d] = pc[d] /\ lid'[d] = lid[d]
    BY <1>3, <2>1 DEF Acquiring
  <2>6. UNCHANGED <<inserted, ct, failed>>
    BY <2>1
  <2> QED BY <1>0, <1>1, <2>2, <2>3, <2>4, <2>5, <2>6 DEF Test1Inv
<1>14. CASE at = 12 /\ Op("check_grant", b)
  <2>1. pc[thread1] = "hold" /\ check_grant(b) /\ UNCHANGED <<pc, lid, inserted>>
    BY <1>2, <1>6, <1>14
  <2>2. /\ CountB(at) = 0 /\ CountB(at') = 1 /\ CountA(at') = CountA(at)
    BY <1>1, <1>14 DEF CountA, CountB
  <2>3. Stage1(at') = {"hold"} /\ Stage0(at') = Stage0(at)
    BY <1>1, <1>14 DEF Stage0, Stage1
  <2>4. ct[b] = 0
    BY <1>0, <2>2 DEF Test1Inv
  <2>5. ct' = [ct EXCEPT ![b] = ct[b] + 1] /\ failed' = failed
    BY <2>1, <2>4 DEF check_grant
  <2>6. ct' \in [Locks -> Nat] /\ ct'[b] = 1 /\ ct'[a] = ct[a]
    BY <1>0, <2>4, <2>5
  <2>7. b \in inserted
    <3>1. lid[thread1] = b
      BY <1>0, <2>1 DEF Test1Inv
    <3> QED BY <2>1, <3>1 DEF TesterInv, LockInv, RaceFree, CreateInv, Using, Granted
  <2>8. at' \in 1..17 /\ at > 2
    BY <1>1, <1>14
  <2> QED BY <1>0, <1>1, <2>1, <2>2, <2>3, <2>5, <2>7, <2>8 DEF Test1Inv
<1>15. CASE at = 13 /\ Op("release", b)
  <2>1. pc[thread1] = "hold" /\ pc' = [pc EXCEPT ![thread1] = "relq"] /\ UNCHANGED <<lid, inserted, ct, failed>>
    BY <1>2, <1>5, <1>15
  <2>2. Stage1(at') = Releasing \cup {"idle"} /\ Stage0(at') = Stage0(at)
    BY <1>1, <1>15 DEF Stage0, Stage1
  <2>3. CountA(at') = CountA(at) /\ CountB(at') = CountB(at)
    BY <1>1, <1>15 DEF CountA, CountB
  <2>4. at' \in 1..17 /\ (at' > 2 => at > 2) /\ (at' > 12 => at > 12)
    BY <1>1, <1>15
  <2>5. /\ pc'[thread1] \in Releasing /\ lid'[thread1] = lid[thread1] /\ lid[thread1] = b
        /\ \A d \in Clients \ {thread1} : pc'[d] = pc[d] /\ lid'[d] = lid[d]
    BY <1>0, <1>3, <2>1 DEF Releasing, Test1Inv
  <2>6. UNCHANGED <<inserted, ct, failed>>
    BY <2>1
  <2> QED BY <1>0, <1>1, <2>2, <2>3, <2>4, <2>5, <2>6 DEF Test1Inv
<1>16. CASE at = 14 /\ Op("check_release", b)
  <2>1. pc[thread1] = "idle" /\ check_release(b) /\ UNCHANGED <<pc, lid, inserted>>
    BY <1>2, <1>7, <1>16
  <2>2. /\ CountB(at) = 1 /\ CountB(at') = 0 /\ CountA(at') = CountA(at)
    BY <1>1, <1>16 DEF CountA, CountB
  <2>3. Stage1(at') = {"idle"} /\ Stage0(at') = Stage0(at)
    BY <1>1, <1>16 DEF Stage0, Stage1
  <2>4. ct[b] = 1
    BY <1>0, <2>2 DEF Test1Inv
  <2>5. ct' = [ct EXCEPT ![b] = ct[b] - 1] /\ failed' = failed
    BY <2>1, <2>4 DEF check_release
  <2>6. ct' \in [Locks -> Nat] /\ ct'[b] = 0 /\ ct'[a] = ct[a]
    BY <1>0, <2>4, <2>5
  <2>7. at' \in 1..17 /\ (at' > 2 => at > 2) /\ (at' > 12 => at > 12)
    BY <1>1, <1>16
  <2> QED BY <1>0, <1>1, <2>1, <2>2, <2>3, <2>5, <2>7 DEF Test1Inv
<1> QED BY <1>8, <1>9, <1>10, <1>11, <1>12, <1>13, <1>14, <1>15, <1>16

(* Steps of a thread of test2 to test5. *)
LEMMA ThreadNext ==
    ASSUME TesterInv, NEW c \in Clients, Thread(c), test # 1
    PROVE  ~failed' /\ ct' \in [Locks -> Nat] /\ step' \in [Clients -> StepPc] /\ LoopInv'
<1>0. /\ LoopInv /\ GrantInv /\ ~failed /\ ct \in [Locks -> Nat] /\ step \in [Clients -> StepPc]
      /\ pc \in [Clients -> Pc] /\ lid \in [Clients -> Locks] /\ a \in Locks
  BY TesterAssumption DEF TesterInv, TypeOK, LockInv, RaceFree
<1>1. CASE /\ step[c] = "acquire" /\ step' = [step EXCEPT ![c] = "check_grant"]
           /\ Acquire(c, a) /\ UNCHANGED <<ct, failed, left>>
  <2>1. /\ pc' = [pc EXCEPT ![c] = "acqq"] /\ lid' = [lid EXCEPT ![c] = a]
        /\ inserted' = inserted
    BY <1>1 DEF Acquire
  <2> QED BY <1>0, <1>1, <2>1 DEF LoopInv, StepPc, Acquiring, Creating
<1>2. CASE /\ step[c] = "check_grant" /\ pc[c] = "hold"
           /\ step' = [step EXCEPT ![c] = "check_release"]
           /\ check_grant(a) /\ UNCHANGED left /\ UNCHANGED vars
  <2>1. UNCHANGED <<pc, lid, inserted>>
    BY <1>2 DEF vars
  <2>2. \A d \in Clients : step[d] # "check_release"
    BY <1>0, <1>2 DEF LoopInv, GrantInv, Granted
  <2>3. ct[a] = 0
    BY <1>0, <2>2 DEF LoopInv
  <2>4. ct' = [ct EXCEPT ![a] = ct[a] + 1] /\ failed' = failed
    BY <1>2, <2>3 DEF check_grant
  <2>5. ct' \in [Locks -> Nat] /\ ct'[a] = 1
    BY <1>0, <2>3, <2>4
  <2> QED BY <1>0, <1>2, <2>1, <2>4, <2>5 DEF LoopInv, StepPc
<1>3. CASE /\ step[c] = "check_release" /\ step' = [step EXCEPT ![c] = "release"]
           /\ check_release(a) /\ UNCHANGED left /\ UNCHANGED vars
  <2>1. UNCHANGED <<pc, lid, inserted>>
    BY <1>3 DEF vars
  <2>2. ct[a] = 1 /\ pc[c] = "hold"
    BY <1>0, <1>3 DEF LoopInv
  <2>3. \A d \in Clients : step'[d] # "check_release"
    BY <1>0, <1>3 DEF LoopInv, GrantInv, Granted
  <2>4. ct' = [ct EXCEPT ![a] = ct[a] - 1] /\ failed' = failed
    BY <1>3, <2>2 DEF check_release
  <2>5. ct' \in [Locks -> Nat] /\ ct'[a] = 0
    BY <1>0, <2>2, <2>4
  <2> QED BY <1>0, <1>3, <2>1, <2>3, <2>4 DEF LoopInv, StepPc
<1>4. CASE /\ step[c] = "release" /\ step' = [step EXCEPT ![c] = "acquire"]
           /\ Release(c) /\ left' = [left EXCEPT ![c] = @ - 1] /\ UNCHANGED <<ct, failed>>
  <2>1. pc' = [pc EXCEPT ![c] = "relq"] /\ UNCHANGED <<lid, inserted>> /\ pc[c] = "hold"
    BY <1>4 DEF Release
  <2> QED BY <1>0, <1>4, <2>1 DEF LoopInv, StepPc, Releasing, Creating
<1> QED BY <1>1, <1>2, <1>3, <1>4 DEF Thread

(* Steps of the server while the tester runs. *)
LEMMA ServerNext ==
    ASSUME TesterInv, NEW c \in Clients, Begin(c) \/ Handler(c) \/ SpuriousWakeup(c),
           UNCHANGED testerVars
    PROVE  /\ ~raced'
           /\ test = 1 => Test1Inv'
           /\ test # 1 => LoopInv'
<1>0. /\ TypeOK /\ QueueInv /\ ~raced /\ UNCHANGED <<test, at, step, left, ct>>
      /\ thread0 \in Clients /\ thread1 \in Clients
  BY TesterAssumption DEF TesterInv, LockInv, testerVars
<1>1. /\ lid' = lid /\ inserted \subseteq inserted'
      /\ \A d \in Clients :
            \/ pc'[d] = pc[d]
            \/ pc[d] \in Acquiring /\ pc'[d] \in Acquiring \cup {"hold"}
            \/ pc[d] \in Releasing /\ pc'[d] \in {"release", "idle"}
  BY <1>0, ServerEffect
<1>2. ASSUME NEW d \in Clients, NEW S \in Stages, pc[d] \in S PROVE pc'[d] \in S
  BY <1>1, <1>2 DEF Acquiring, Releasing, Stages
<1>3. CASE test = 1
  <2>0. Test1Inv
    BY <1>3 DEF TesterInv
  <2>1. pc[thread0] \in {"idle", "hold"} \/ pc[thread1] \in {"idle", "hold"}
    <3>1. pc[thread0] \in Stage0(at) /\ pc[thread1] \in Stage1(at) /\ at \in 1..17
      BY <2>0 DEF Test1Inv
    <3>2. Stage0(at) \in {{"idle"}, {"hold"}} \/ Stage1(at) = {"idle"}
      BY <3>1, Test1Stages
    <3> QED BY <3>1, <3>2
  <2>2. pc[c] \in Running => ~MapRace(c)
    <3>1. \A d \in Clients : pc[d] \in Running => d \in {thread0, thread1}
      BY <2>0 DEF Test1Inv, Running, Creating
    <3>2. \A d \in Clients : pc[d] \in Creating => pc[d] \in Running
      BY DEF Running
    <3>3. ~("idle" \in Running) /\ ~("hold" \in Running)
      BY DEF Running, Creating
    <3> QED BY <2>1, <3>1, <3>2, <3>3 DEF MapRace
  <2>3. ~raced'
    BY <1>0, <2>2, ServerNoRace
  <2>4. Test1Inv'
    <3>1. \A d \in Clients \ {thread0, thread1} : pc'[d] = "idle"
      <4>1. {"idle"} \in Stages
        BY DEF Stages
      <4> QED BY <1>2, <2>0, <4>1 DEF Test1Inv
    <3>2. pc'[thread0] \in Stage0(at) /\ pc'[thread1] \in Stage1(at)
      <4>1. pc[thread0] \in Stage0(at) /\ pc[thread1] \in Stage1(at) /\ at \in 1..17
        BY <2>0 DEF Test1Inv
      <4>2. Stage0(at) \in Stages /\ Stage1(at) \in Stages
        BY <4>1, Test1Stages
      <4> QED BY <1>0, <1>2, <4>1, <4>2
    <3>3. \A d \in {thread0, thread1} : pc'[d] # "idle" => pc[d] # "idle"
      BY <1>0, <1>1 DEF Acquiring, Releasing
    <3>4. (at > 2 => a \in inserted') /\ (at > 12 => b \in inserted')
      BY <1>1, <2>0 DEF Test1Inv
    <3> QED BY <1>0, <1>1, <2>0, <3>1, <3>2, <3>3 DEF Test1Inv
  <2> QED BY <1>3, <2>3, <2>4
<1>4. CASE test # 1
  <2>0. LoopInv
    BY <1>4 DEF TesterInv
  <2>1. ~MapRace(c)
    BY <2>0 DEF LoopInv, MapRace
  <2>2. ~raced'
    BY <1>0, <2>1, ServerNoRace
  <2>3. \A d \in Clients : pc'[d] \notin Creating
    BY <1>0, <2>0, <2>1, ServerCreates DEF LoopInv
  <2>4. inserted' = Locks
    <3>1. inserted' \subseteq Locks
      BY <1>0, LockTypeNext DEF TypeOK, Next
    <3> QED BY <1>1, <2>0, <3>1, Zenon DEF LoopInv
  <2>5. LoopInv'
    <3>1. /\ {"hold"} \in Stages /\ Acquiring \cup {"hold"} \in Stages
          /\ Releasing \cup {"idle"} \in Stages
      BY DEF Stages
    <3>2. \A d \in Clients :
             /\ pc[d] = "hold" => pc'[d] = "hold"
             /\ pc[d] \in Acquiring \cup {"hold"} => pc'[d] \in Acquiring \cup {"hold"}
             /\ pc[d] \in Releasing \cup {"idle"} => pc'[d] \in Releasing \cup {"idle"}
      BY <1>2, <3>1
    <3>3. \A d \in Clients : pc'[d] # "idle" => pc[d] # "idle"
      BY <1>1 DEF Acquiring, Releasing
    <3> QED BY <1>0, <1>1, <2>0, <2>3, <2>4, <3>2, <3>3 DEF LoopInv
  <2> QED BY <1>4, <2>2, <2>5
<1> QED BY <1>3, <1>4

LEMMA TesterInvNext == TesterInv /\ [TesterNext]_<<vars, testerVars>> => TesterInv'
<1> SUFFICES ASSUME TesterInv, [TesterNext]_<<vars, testerVars>> PROVE TesterInv'
  OBVIOUS
<1>0. [Next]_vars
  BY TesterRuns
<1>1. TypeOK' /\ LockInv'
  BY <1>0, LockTypeNext, LockInvNext DEF TesterInv
<1>2. /\ ~raced /\ ~failed /\ test \in 1..6 /\ ct \in [Locks -> Nat]
      /\ step \in [Clients -> StepPc]
      /\ test = 1 => Test1Inv
      /\ test # 1 => LoopInv
  BY DEF TesterInv
<1>3. CASE Test1Step
  <2>1. ~failed' /\ ct' \in [Locks -> Nat] /\ Test1Inv'
    BY <1>3, Test1Next
  <2>2. test = 1 /\ UNCHANGED <<test, step>>
    BY <1>3, ZenonT(40) DEF Test1Step
  <2>3. raced' = raced
    BY <1>3, Zenon DEF Test1Step, Acquire, Release, vars
  <2> QED BY <1>1, <2>1, <2>2, <2>3 DEF TesterInv
<1>4. ASSUME NEW c \in Clients, Thread(c) PROVE TesterInv'
  <2>0. left[c] > 0 /\ test' = test
    BY <1>4 DEF Thread
  <2>1. test # 1 /\ test' = test
    <3>1. test = 1 => left[c] = 0
      BY <1>2 DEF Test1Inv
    <3> QED BY <2>0, <3>1
  <2>2. ~failed' /\ ct' \in [Locks -> Nat] /\ step' \in [Clients -> StepPc] /\ LoopInv'
    BY <1>4, <2>1, ThreadNext
  <2>3. raced' = raced
    BY <1>4 DEF Thread, Acquire, Release, vars
  <2> QED BY <1>1, <2>1, <2>2, <2>3 DEF TesterInv
<1>5. CASE NextTest
  <2>1. /\ test' = test + 1 /\ test < 6
        /\ UNCHANGED <<pc, lid, inserted, raced, step, ct, failed>>
    BY <1>5 DEF NextTest, vars
  <2>2. test' \in 1..6 /\ test' # 1
    BY <1>2, <2>1
  <2>3. LoopInv'
    <3>1. CASE test = 1
      <4>1. at > 16 /\ Test1Inv
        BY <1>2, <1>5, <3>1, Test1Program DEF NextTest
      <4>2. at = 17
        BY <4>1 DEF Test1Inv
      <4>3. /\ \A c \in Clients : pc[c] = "idle" /\ step[c] = "acquire"
            /\ a \in inserted /\ b \in inserted /\ ct[a] = 0
        BY <4>1 DEF Test1Inv, Stage0, Stage1, CountA
      <4>4. inserted = Locks
        BY <4>3, TesterAssumption DEF TesterInv, TypeOK
      <4> QED BY <2>1, <4>3, <4>4 DEF LoopInv, Creating
    <3>2. CASE test # 1
      BY <1>2, <2>1, <3>2 DEF LoopInv
    <3> QED BY <3>1, <3>2
  <2> QED BY <1>1, <2>1, <2>3 DEF TesterInv
<1>6. CASE Abort \/ UNCHANGED <<vars, testerVars>>
  <2>1. UNCHANGED <<pc, lid, inserted, raced, test, at, step, left, ct, failed>>
    BY <1>6 DEF Abort, vars, testerVars
  <2>2. (Test1Inv => Test1Inv') /\ (LoopInv => LoopInv')
    BY <2>1 DEF Test1Inv, LoopInv
  <2> QED BY <1>1, <2>1, <2>2 DEF TesterInv
<1>7. ASSUME NEW c \in Clients, Begin(c) \/ Handler(c) \/ SpuriousWakeup(c), UNCHANGED testerVars
      PROVE  TesterInv'
  <2>1. ~raced' /\ (test = 1 => Test1Inv') /\ (test # 1 => LoopInv')
    BY <1>7, ServerNext
  <2> QED BY <1>1, <1>7, <2>1 DEF TesterInv, testerVars
<1> QED BY <1>3, <1>4, <1>5, <1>6, <1>7 DEF TesterNext, Server

LEMMA TesterInvInit == TesterInit => TesterInv
<1> SUFFICES ASSUME TesterInit PROVE TesterInv
  OBVIOUS
<1>1. TypeOK /\ LockInv
  BY LockTypeInit, LockInvInit DEF TesterInit
<1>2. /\ test = 1 /\ at = 1 /\ ~failed /\ ~raced /\ ct = [l \in Locks |-> 0]
      /\ step = [c \in Clients |-> "acquire"] /\ left = [c \in Clients |-> 0]
      /\ pc = [c \in Clients |-> "idle"]
  BY DEF TesterInit, Init
<1>3. ct \in [Locks -> Nat] /\ ct[a] = 0 /\ ct[b] = 0 /\ step \in [Clients -> StepPc]
  BY <1>2, TesterAssumption DEF StepPc
<1>4. Test1Inv
  BY <1>2, TesterAssumption DEF Test1Inv, Stage0, Stage1, CountA, CountB
<1> QED BY <1>1, <1>2, <1>3, <1>4 DEF TesterInv

(* With any number of threads, rounds and workers, lock_tester never exits in   *)
(* check_grant or check_release, and no handler uses the map of locks while     *)
(* another creates an entry.                                                    *)
THEOREM TesterNeverFailsHolds == TesterSpec => []TesterNeverFails
<1>1. TesterInv => TesterNeverFails
  BY DEF TesterInv, TesterNeverFails
<1> QED BY <1>1, TesterInvInit, TesterInvNext, PTL DEF TesterSpec

(* Driven by lock_tester, from an empty map of locks, the lock server implements *)
(* LockSpec.                                                                     *)
THEOREM TesterImplementsLockSpec == TesterSpec => ImplementsLockSpec
<1>1. TesterInit => Abstract!Init
  BY DEF TesterInit, Init, Abstract!Init, GrantedTo, Granted
<1>2. TesterInv /\ [TesterNext]_<<vars, testerVars>>
         => [Abstract!Next]_([l \in Locks |-> GrantedTo(l)])
  <2> SUFFICES ASSUME TesterInv, [TesterNext]_<<vars, testerVars>>
               PROVE  [Abstract!Next]_([l \in Locks |-> GrantedTo(l)])
    OBVIOUS
  <2>1. [Next]_vars
    BY TesterRuns
  <2>2. TypeOK /\ LockInv /\ ~raced
    BY DEF TesterInv
  <2> QED BY <2>1, <2>2, RefinementStep
<1> QED
  BY <1>1, <1>2, TesterInvInit, TesterInvNext, PTL DEF TesterSpec, ImplementsLockSpec, Abstract!Spec

================================================================================
