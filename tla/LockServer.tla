------------------------------- MODULE LockServer -------------------------------
(* The lock server (src/lock_server.cc) as its clients (src/lock_client.cc)     *)
(* drive it: the acquire and release handlers run on the worker threads of the  *)
(* RPC server's pool, and an acquire of a held lock blocks its worker.  Each    *)
(* client thread has one call outstanding, so a handler is named by its client. *)
(*                                                                              *)
(* The std::map of locks is not protected by any mutex.  Creating an entry is   *)
(* two steps, and a handler that uses the map between the steps of another      *)
(* handler's creation is a data race, recorded in raced; what the code between  *)
(* lock and unlock of an entry's own mutex does is one step.                    *)
EXTENDS Naturals, Sequences, FiniteSets

CONSTANTS
    Clients,    \* client threads
    Locks,      \* lock ids in use
    NThreads    \* workers of the pool (10 in rpcs::rpcs)

ASSUME LockAssumption == NThreads \in Nat

VARIABLES
    pc,         \* where each client, or the handler it called, is
    lid,        \* the lock that client is concerned with
    jobq,       \* calls queued for a worker, oldest first
    inserted,   \* lock ids with an entry in locks
    isLocked,   \* lock_t::isLocked of each entry
    raced       \* some use of the map overlapped a creation

vars == <<pc, lid, jobq, inserted, isLocked, raced>>

Creating == {"insert", "assign"}
Running  == Creating \cup {"count", "test", "wait", "release"}
Granted  == {"hold", "relq", "release"}
Pc       == {"idle", "acqq"} \cup Running \cup Granted

(* The types of all variables. *)
TypeOK ==
    /\ pc \in [Clients -> Pc]
    /\ lid \in [Clients -> Locks]
    /\ jobq \in Seq(Clients)
    /\ inserted \in SUBSET Locks
    /\ isLocked \in [Locks -> BOOLEAN]
    /\ raced \in BOOLEAN

\* Whether a use of the map by c's handler now is a data race.
MapRace(c) == \E d \in Clients \ {c} : pc[d] \in Creating

GrantedTo(l) == {c \in Clients : pc[c] \in Granted /\ lid[c] = l}

--------------------------------------------------------------------------------
\* lock_client::acquire: the call is sent and queued for a worker.
Acquire(c, l) ==
    /\ pc[c] = "idle"
    /\ pc' = [pc EXCEPT ![c] = "acqq"] /\ lid' = [lid EXCEPT ![c] = l]
    /\ jobq' = Append(jobq, c)
    /\ UNCHANGED <<inserted, isLocked, raced>>

\* lock_client::release, by a client the lock was granted to.
Release(c) ==
    /\ pc[c] = "hold"
    /\ pc' = [pc EXCEPT ![c] = "relq"] /\ jobq' = Append(jobq, c)
    /\ UNCHANGED <<lid, inserted, isLocked, raced>>

\* A worker that is not inside a handler takes the oldest call.
Begin(c) ==
    /\ jobq # <<>> /\ Head(jobq) = c
    /\ Cardinality({d \in Clients : pc[d] \in Running}) < NThreads
    /\ jobq' = Tail(jobq)
    /\ pc' = [pc EXCEPT ![c] = IF @ = "acqq" THEN "count" ELSE "release"]
    /\ UNCHANGED <<lid, inserted, isLocked, raced>>

\* Mutant of Count: the entry is created again by every acquire.
CountAlwaysCreates(c) ==
    /\ pc[c] = "count"
    /\ pc' = [pc EXCEPT ![c] = "insert"]
    /\ raced' = (raced \/ MapRace(c))
    /\ UNCHANGED <<lid, jobq, inserted, isLocked>>

\* acquire: locks.count(lid).  It may overlook an entry while the tree is being
\* changed by another handler.
Count(c) ==
    /\ pc[c] = "count"
    /\ \/ lid[c] \in inserted /\ pc' = [pc EXCEPT ![c] = "test"]
       \/ (lid[c] \notin inserted \/ MapRace(c)) /\ pc' = [pc EXCEPT ![c] = "insert"]
    /\ raced' = (raced \/ MapRace(c))
    /\ UNCHANGED <<lid, jobq, inserted, isLocked>>

\* acquire: locks[lid] makes an entry where there is none ...
Insert(c) ==
    /\ pc[c] = "insert"
    /\ pc' = [pc EXCEPT ![c] = "assign"]
    /\ inserted' = inserted \cup {lid[c]}
    /\ isLocked' = [isLocked EXCEPT ![lid[c]] = @ /\ lid[c] \in inserted]
    /\ raced' = (raced \/ MapRace(c))
    /\ UNCHANGED <<lid, jobq>>

\* ... and = lock_t() overwrites it.
Assign(c) ==
    /\ pc[c] = "assign"
    /\ pc' = [pc EXCEPT ![c] = "test"]
    /\ isLocked' = [isLocked EXCEPT ![lid[c]] = FALSE]
    /\ raced' = (raced \/ MapRace(c))
    /\ UNCHANGED <<lid, jobq, inserted>>

\* Mutant of TestLock: isLocked is not set when the lock is granted.
TestLockUnset(c) ==
    /\ pc[c] = "test"
    /\ pc' = [pc EXCEPT ![c] = IF isLocked[lid[c]] THEN "wait" ELSE "hold"]
    /\ raced' = (raced \/ MapRace(c))
    /\ UNCHANGED <<lid, jobq, inserted, isLocked>>

\* acquire, with m held: wait on c while isLocked, else take the lock and return.
TestLock(c) ==
    /\ pc[c] = "test"
    /\ \/ isLocked[lid[c]] /\ pc' = [pc EXCEPT ![c] = "wait"] /\ UNCHANGED isLocked
       \/ /\ ~isLocked[lid[c]] /\ pc' = [pc EXCEPT ![c] = "hold"]
          /\ isLocked' = [isLocked EXCEPT ![lid[c]] = TRUE]
    /\ raced' = (raced \/ MapRace(c))
    /\ UNCHANGED <<lid, jobq, inserted>>

\* Mutant of Signalled: release does not signal.
SignalledNobody(l) == {{}}

\* The handlers that pthread_cond_signal may wake: one waiter, if there is one.
Signalled(l) ==
    LET W == {d \in Clients : pc[d] = "wait" /\ lid[d] = l}
    IN  IF W = {} THEN {{}} ELSE {{d} : d \in W}

\* lock_server::release: the whole handler, with m held.
DoRelease(c) ==
    /\ pc[c] = "release"
    /\ isLocked' = [isLocked EXCEPT ![lid[c]] = FALSE]
    /\ \E S \in Signalled(lid[c]) :
          pc' = [d \in Clients |-> IF d = c THEN "idle"
                                   ELSE IF d \in S THEN "test" ELSE pc[d]]
    /\ raced' = (raced \/ MapRace(c))
    /\ UNCHANGED <<lid, jobq, inserted>>

\* pthread_cond_wait may return without a signal; the while loop tests again.
SpuriousWakeup(c) ==
    /\ pc[c] = "wait"
    /\ pc' = [pc EXCEPT ![c] = "test"]
    /\ UNCHANGED <<lid, jobq, inserted, isLocked, raced>>

--------------------------------------------------------------------------------
Handler(c) == \/ Count(c) \/ Insert(c) \/ Assign(c) \/ TestLock(c) \/ DoRelease(c)

Next ==
    \E c \in Clients :
        \/ \E l \in Locks : Acquire(c, l)
        \/ Release(c) \/ Begin(c) \/ Handler(c) \/ SpuriousWakeup(c)

\* A server that has just started has no entries.
Init ==
    /\ pc = [c \in Clients |-> "idle"] /\ lid \in [Clients -> Locks]
    /\ jobq = <<>>
    /\ inserted = {}
    /\ isLocked = [l \in Locks |-> FALSE]
    /\ raced = FALSE

\* A server on which every lock has been acquired and released once, as
\* lock_tester does from one thread (test1) before it starts others.
WarmInit ==
    /\ pc = [c \in Clients |-> "idle"] /\ lid \in [Clients -> Locks]
    /\ jobq = <<>>
    /\ inserted = Locks
    /\ isLocked = [l \in Locks |-> FALSE]
    /\ raced = FALSE

Spec == Init /\ [][Next]_vars

WarmSpec == WarmInit /\ [][Next]_vars

\* Workers keep running, and a client gives back what it was granted.
Fairness == \A c \in Clients : WF_vars(Release(c)) /\ WF_vars(Begin(c)) /\ WF_vars(Handler(c))

FairSpec == Spec /\ Fairness

--------------------------------------------------------------------------------
(* Properties                                                                   *)

(* "check that the lock server doesn't grant the same lock to both clients"     *)
(* (lock_tester.cc:22): no lock is granted to two clients at once.              *)
MutualExclusion ==
    \A l \in Locks : \A c, d \in GrantedTo(l) : c = d

(* As long as no use of the map of locks has overlapped the creation of an      *)
(* entry, acquire grants a lock to one client at a time, and isLocked tells     *)
(* whether it is granted.                                                       *)
RaceFreeMutualExclusion == ~raced =>
    /\ MutualExclusion
    /\ \A l \in Locks : isLocked[l] <=> GrantedTo(l) # {}

(* As long as there was no such race, the signal of release is not lost: when   *)
(* a lock is free and handlers wait for it, one is already on its way to it.    *)
NoLostWakeup == ~raced =>
    \A l \in Locks :
        ~isLocked[l] /\ (\E c \in Clients : pc[c] = "wait" /\ lid[c] = l)
            => \E c \in Clients : pc[c] = "test" /\ lid[c] = l

(* With a worker for every client, a lock that some acquire asks for is always  *)
(* granted again to somebody: blocked handlers never use up the pool that the   *)
(* release they wait for needs.                                                 *)
LockServed ==
    [](~raced) => \A l \in Locks :
        (\E c \in Clients : pc[c] \in {"acqq", "count", "test", "wait"} /\ lid[c] = l)
            ~> GrantedTo(l) # {}

(* With the entries in place the server implements LockSpec. *)
Abstract == INSTANCE LockSpec WITH holders <- [l \in Locks |-> GrantedTo(l)]

ImplementsLockSpec == Abstract!Spec

================================================================================
