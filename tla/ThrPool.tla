-------------------------------- MODULE ThrPool --------------------------------
(* The thread pool (src/rpc/thr_pool.cc) and its bounded queue (src/rpc/fifo.h):*)
(* threads that add jobs, workers that take and run them, and the destructor,   *)
(* which stops every worker with a poison pill and joins it.  What a fifo does  *)
(* between locking m_ and releasing it, or waiting on a condition, is one step. *)
EXTENDS Naturals, Sequences, FiniteSets

CONSTANTS
    Workers,    \* th_
    Producers,  \* threads that call addJob
    Main,       \* the thread that runs the destructor
    Capacity,   \* max_ of the queue, 0 for none (100 * sz in the code)
    MaxJobs     \* bound: jobs ever added

ASSUME PoolAssumption ==
    /\ IsFiniteSet(Workers) /\ Workers # {}
    /\ IsFiniteSet(Producers) /\ Main \notin Producers
    /\ Capacity \in Nat /\ MaxJobs \in Nat

VARIABLES
    blockadd_,  \* whether addJob blocks when the queue is full
    q_,         \* queued jobs, oldest first
    wpc, wjob,  \* where each worker is, and the job it runs
    epc, item,  \* where each thread that enqueues is, and what it enqueues
    njobs,      \* jobs offered to addJob so far
    pills,      \* poison pills the destructor has still to enqueue
    accepted, done  \* history: jobs that addJob took, jobs that were run

vars == <<blockadd_, q_, wpc, wjob, epc, item, njobs, pills, accepted, done>>

Enqueuers == Producers \cup {Main}
Jobs      == 1..MaxJobs
Pill      == 0      \* j.f = NULL

(* The types of all variables. *)
TypeOK ==
    /\ blockadd_ \in BOOLEAN
    /\ q_ \in Seq(Jobs \cup {Pill}) /\ (Capacity # 0 => Len(q_) <= Capacity)
    /\ wpc \in [Workers -> {"deq", "empty", "run", "exit"}]
    /\ wjob \in [Workers -> Jobs \cup {Pill}]
    /\ epc \in [Enqueuers -> {"idle", "enq", "full", "join", "closed"}]
    /\ item \in [Enqueuers -> Jobs \cup {Pill}]
    /\ njobs \in 0..MaxJobs
    /\ pills \in 0..Cardinality(Workers)
    /\ accepted \in SUBSET Jobs /\ done \in SUBSET Jobs

At(pc, T, where) == {t \in T : pc[t] = where}

\* Mutant of Signal: the signal is lost.
SignalLost(pc, T, where, next) == {pc}

\* pthread_cond_signal: one of the threads T that wait at where, if any, goes on.
Signal(pc, T, where, next) ==
    IF At(pc, T, where) = {} THEN {pc}
    ELSE {[pc EXCEPT ![t] = next] : t \in At(pc, T, where)}

\* ThrPool::ThrPool: blocking is its default, rpcs asks for a pool that does not.
Init ==
    /\ blockadd_ \in BOOLEAN
    /\ q_ = <<>>
    /\ wpc = [w \in Workers |-> "deq"] /\ wjob = [w \in Workers |-> Pill]
    /\ epc = [e \in Enqueuers |-> "idle"] /\ item = [e \in Enqueuers |-> Pill]
    /\ njobs = 0 /\ pills = 0
    /\ accepted = {} /\ done = {}

--------------------------------------------------------------------------------
\* ThrPool::addJob is called.  Its comment asks that nobody adds a job once the
\* destructor has started.
addJob(p) ==
    /\ epc[p] = "idle" /\ epc[Main] = "idle" /\ njobs < MaxJobs
    /\ njobs' = njobs + 1
    /\ item' = [item EXCEPT ![p] = njobs + 1]
    /\ epc' = [epc EXCEPT ![p] = "enq"]
    /\ UNCHANGED <<blockadd_, q_, wpc, wjob, pills, accepted, done>>

\* Where a thread is once its element is in the queue: the destructor goes on to
\* its next pill and then to pthread_join.
Enqueued(e) == IF e # Main THEN "idle" ELSE IF pills > 1 THEN "enq" ELSE "join"

HasRoom == Capacity = 0 \/ Len(q_) < Capacity

\* Mutant of enq: the signal is sent only when the queue was empty.
enqSignalFirst(e) ==
    /\ epc[e] = "enq"
    /\ \/ /\ HasRoom
          /\ q_' = Append(q_, item[e])
          /\ wpc' \in IF q_ = <<>> THEN Signal(wpc, Workers, "empty", "deq") ELSE {wpc}
          /\ epc' = [epc EXCEPT ![e] = Enqueued(e)]
          /\ pills' = IF e = Main THEN pills - 1 ELSE pills
          /\ accepted' = IF e = Main THEN accepted ELSE accepted \cup {item[e]}
       \/ /\ ~HasRoom
          /\ epc' = [epc EXCEPT ![e] = IF e = Main \/ blockadd_ THEN "full" ELSE "idle"]
          /\ UNCHANGED <<q_, wpc, pills, accepted>>
    /\ UNCHANGED <<blockadd_, wjob, item, njobs, done>>

\* fifo::enq, from the lock, or from the return of pthread_cond_wait, to its
\* return or its next wait on has_space_c_.
enq(e) ==
    /\ epc[e] = "enq"
    /\ \/ /\ HasRoom
          /\ q_' = Append(q_, item[e])
          /\ wpc' \in Signal(wpc, Workers, "empty", "deq")
          /\ epc' = [epc EXCEPT ![e] = Enqueued(e)]
          /\ pills' = IF e = Main THEN pills - 1 ELSE pills
          /\ accepted' = IF e = Main THEN accepted ELSE accepted \cup {item[e]}
       \/ /\ ~HasRoom
          /\ epc' = [epc EXCEPT ![e] = IF e = Main \/ blockadd_ THEN "full" ELSE "idle"]
          /\ UNCHANGED <<q_, wpc, pills, accepted>>
    /\ UNCHANGED <<blockadd_, wjob, item, njobs, done>>

\* fifo::deq signals has_space_c_ when q, what is left, is below the maximum.
SignalSpace(q) ==
    IF Capacity # 0 /\ Len(q) < Capacity THEN Signal(epc, Enqueuers, "full", "enq") ELSE {epc}

\* Mutant of deq: the element is read but not popped.
deqNoPop(w) ==
    /\ wpc[w] = "deq"
    /\ \/ /\ q_ = <<>>
          /\ wpc' = [wpc EXCEPT ![w] = "empty"]
          /\ UNCHANGED <<wjob, epc>>
       \/ /\ q_ # <<>>
          /\ wjob' = [wjob EXCEPT ![w] = Head(q_)]
          /\ wpc' = [wpc EXCEPT ![w] = IF Head(q_) = Pill THEN "exit" ELSE "run"]
          /\ epc' \in SignalSpace(Tail(q_))
    /\ UNCHANGED <<blockadd_, q_, item, njobs, pills, accepted, done>>

\* fifo::deq of worker w, like enq, and what do_worker does with the element.
deq(w) ==
    /\ wpc[w] = "deq"
    /\ \/ /\ q_ = <<>>
          /\ wpc' = [wpc EXCEPT ![w] = "empty"]
          /\ UNCHANGED <<q_, wjob, epc>>
       \/ /\ q_ # <<>>
          /\ q_' = Tail(q_)
          /\ wjob' = [wjob EXCEPT ![w] = Head(q_)]
          /\ wpc' = [wpc EXCEPT ![w] = IF Head(q_) = Pill THEN "exit" ELSE "run"]
          /\ epc' \in SignalSpace(Tail(q_))
    /\ UNCHANGED <<blockadd_, item, njobs, pills, accepted, done>>

\* The job of worker w returns.
Run(w) ==
    /\ wpc[w] = "run"
    /\ done' = done \cup {wjob[w]}
    /\ wjob' = [wjob EXCEPT ![w] = Pill]
    /\ wpc' = [wpc EXCEPT ![w] = "deq"]
    /\ UNCHANGED <<blockadd_, q_, epc, item, njobs, pills, accepted>>

\* Mutant of Destroy: one pill for all the workers.
DestroyOnePill ==
    /\ \A e \in Enqueuers : epc[e] = "idle"
    /\ epc' = [epc EXCEPT ![Main] = "enq"]
    /\ item' = [item EXCEPT ![Main] = Pill]
    /\ pills' = 1
    /\ UNCHANGED <<blockadd_, q_, wpc, wjob, njobs, accepted, done>>

\* ThrPool::~ThrPool is called, by its comment only when no other thread uses or
\* will use the pool; it enqueues a pill for each worker.
Destroy ==
    /\ \A e \in Enqueuers : epc[e] = "idle"
    /\ epc' = [epc EXCEPT ![Main] = "enq"]
    /\ item' = [item EXCEPT ![Main] = Pill]
    /\ pills' = Cardinality(Workers)
    /\ UNCHANGED <<blockadd_, q_, wpc, wjob, njobs, accepted, done>>

\* What the pthread_join calls of the destructor wait for.
AllJoined == \A w \in Workers : wpc[w] = "exit"

Join ==
    /\ epc[Main] = "join" /\ AllJoined
    /\ epc' = [epc EXCEPT ![Main] = "closed"]
    /\ UNCHANGED <<blockadd_, q_, wpc, wjob, item, njobs, pills, accepted, done>>

\* pthread_cond_wait may return without a signal; both loops test again.
SpuriousWakeup ==
    /\ \/ \E w \in At(wpc, Workers, "empty") : wpc' = [wpc EXCEPT ![w] = "deq"] /\ UNCHANGED epc
       \/ \E e \in At(epc, Enqueuers, "full") : epc' = [epc EXCEPT ![e] = "enq"] /\ UNCHANGED wpc
    /\ UNCHANGED <<blockadd_, q_, wjob, item, njobs, pills, accepted, done>>

Next ==
    \/ \E p \in Producers : addJob(p)
    \/ \E e \in Enqueuers : enq(e)
    \/ \E w \in Workers : deq(w) \/ Run(w)
    \/ Destroy \/ Join \/ SpuriousWakeup

Spec == Init /\ [][Next]_vars

\* Every thread that can run does, and jobs return.
Fairness ==
    /\ \A e \in Enqueuers : WF_vars(enq(e))
    /\ \A w \in Workers : WF_vars(deq(w) \/ Run(w))
    /\ WF_vars(Join)

FairSpec == Spec /\ Fairness

--------------------------------------------------------------------------------
(* Properties                                                                   *)

(* No signal of the queue is lost: while some worker waits for non_empty_c_, at *)
(* least as many workers are on their way to the queue as it has elements, and  *)
(* while some thread waits for has_space_c_, at least as many threads are on    *)
(* their way to it as it has free places.                                       *)
NoLostSignal ==
    /\ At(wpc, Workers, "empty") # {} => Len(q_) <= Cardinality(At(wpc, Workers, "deq"))
    /\ At(epc, Enqueuers, "full") # {} =>
          Capacity <= Len(q_) + Cardinality(At(epc, Enqueuers, "enq"))

(* A job that addJob accepted is at every moment in exactly one place: once in  *)
(* the queue, with one worker, or done; and it is done when the destructor      *)
(* returns, which leaves nothing in the queue.                                  *)
JobInOnePlace ==
    /\ \A j \in Jobs :
          Cardinality({i \in 1..Len(q_) : q_[i] = j}) + Cardinality({w \in Workers : wjob[w] = j})
              + (IF j \in done THEN 1 ELSE 0) = IF j \in accepted THEN 1 ELSE 0
    /\ epc[Main] = "closed" => done = accepted /\ q_ = <<>>

(* The destructor returns: it never waits forever for space for its pills or    *)
(* for a worker, even when the queue was full of jobs.                          *)
DestructorReturns == epc[Main] = "enq" ~> epc[Main] = "closed"

(* Every accepted job is run. *)
AcceptedRuns == \A j \in Jobs : j \in accepted ~> j \in done

================================================================================
