------------------------------ MODULE LockTester ------------------------------
(* lock_tester (src/lock_tester.cc), run with all its tests against a lock      *)
(* server that has just started: test1 in one thread, then test2 to test5, in   *)
(* each of which threads acquire and release lock a in a loop and are joined.   *)
(* The tests differ in the number of threads and rounds; which lock_client a    *)
(* thread uses makes no difference to the server.  The tester's own check is    *)
(* ct, counted up by check_grant and down by check_release.                     *)
(*                                                                              *)
(* A client of LockServer is a thread with its one outstanding call.  In test1  *)
(* the main thread holds both locks; it uses the place of thread0 for its calls *)
(* about a and that of thread1 for b.                                           *)
EXTENDS LockServer

CONSTANTS
    thread0, thread1,   \* the first two threads
    a, b,               \* the locks
    Rounds              \* rounds of test3, test4 and test5 (10 in the code)

ASSUME TesterAssumption ==
    /\ {thread0, thread1} \subseteq Clients /\ thread0 # thread1
    /\ Locks = {a, b} /\ a # b
    /\ Rounds \in Nat \ {0}

VARIABLES
    test,       \* the test that runs; 6 after the last
    at,         \* position of the main thread in test1
    step,       \* where each thread is in its loop
    left,       \* the rounds it has left
    ct,         \* number of times each lock is held, as counted by the tester
    failed,     \* exit(1) in a check
    aborted     \* assert(ret == OK) failed in lock_client, as a call timed out

testerVars == <<test, at, step, left, ct, failed, aborted>>

Slot(l) == IF l = a THEN thread0 ELSE thread1

Test1 == << <<"acquire", a>>, <<"check_grant", a>>, <<"release", a>>, <<"check_release", a>>,
            <<"acquire", a>>, <<"check_grant", a>>, <<"release", a>>, <<"check_release", a>>,
            <<"acquire", a>>, <<"check_grant", a>>, <<"acquire", b>>, <<"check_grant", b>>,
            <<"release", b>>, <<"check_release", b>>, <<"release", a>>, <<"check_release", a>> >>

Threads(t) == IF t = 4 THEN {thread0, thread1} ELSE Clients

RoundsOf(t) == [c \in Clients |-> IF c \notin Threads(t) THEN 0 ELSE IF t = 2 THEN 1 ELSE Rounds]

TesterInit ==
    /\ Init
    /\ test = 1 /\ at = 1 /\ step = [c \in Clients |-> "acquire"]
    /\ left = [c \in Clients |-> 0]
    /\ ct = [l \in Locks |-> 0] /\ failed = FALSE /\ aborted = FALSE

--------------------------------------------------------------------------------
Alive == ~failed /\ ~aborted

check_grant(l) ==
    IF ct[l] # 0 THEN failed' = TRUE /\ UNCHANGED ct
    ELSE ct' = [ct EXCEPT ![l] = @ + 1] /\ UNCHANGED failed

check_release(l) ==
    IF ct[l] # 1 THEN failed' = TRUE /\ UNCHANGED ct
    ELSE ct' = [ct EXCEPT ![l] = @ - 1] /\ UNCHANGED failed

\* test1: each call has returned before the next statement.
Test1Step ==
    /\ Alive /\ test = 1 /\ at <= Len(Test1) /\ at' = at + 1
    /\ LET op == Test1[at][1]
           l  == Test1[at][2]
       IN  \/ op = "acquire" /\ Acquire(Slot(l), l) /\ UNCHANGED <<ct, failed>>
           \/ op = "release" /\ Release(Slot(l)) /\ UNCHANGED <<ct, failed>>
           \/ /\ op = "check_grant" /\ pc[Slot(l)] = "hold"
              /\ check_grant(l) /\ UNCHANGED vars
           \/ /\ op = "check_release" /\ pc[Slot(l)] = "idle"
              /\ check_release(l) /\ UNCHANGED vars
    /\ UNCHANGED <<test, step, left, aborted>>

\* Mutant of Thread: releases before it counts down.
ThreadReleasesFirst(c) ==
    /\ Alive /\ left[c] > 0
    /\ \/ /\ step[c] = "acquire" /\ step' = [step EXCEPT ![c] = "check_grant"]
          /\ Acquire(c, a) /\ UNCHANGED <<ct, failed, left>>
       \/ /\ step[c] = "check_grant" /\ pc[c] = "hold"
          /\ step' = [step EXCEPT ![c] = "release"]
          /\ check_grant(a) /\ UNCHANGED left /\ UNCHANGED vars
       \/ /\ step[c] = "release" /\ step' = [step EXCEPT ![c] = "check_release"]
          /\ Release(c) /\ UNCHANGED <<ct, failed, left>>
       \/ /\ step[c] = "check_release" /\ pc[c] = "idle"
          /\ step' = [step EXCEPT ![c] = "acquire"]
          /\ check_release(a) /\ left' = [left EXCEPT ![c] = @ - 1] /\ UNCHANGED vars
    /\ UNCHANGED <<test, at, aborted>>

\* The body of test2, test3, test4 and test5 in a thread.
Thread(c) ==
    /\ Alive /\ left[c] > 0
    /\ \/ /\ step[c] = "acquire" /\ step' = [step EXCEPT ![c] = "check_grant"]
          /\ Acquire(c, a) /\ UNCHANGED <<ct, failed, left>>
       \/ /\ step[c] = "check_grant" /\ pc[c] = "hold"
          /\ step' = [step EXCEPT ![c] = "check_release"]
          /\ check_grant(a) /\ UNCHANGED left /\ UNCHANGED vars
       \/ /\ step[c] = "check_release" /\ step' = [step EXCEPT ![c] = "release"]
          /\ check_release(a) /\ UNCHANGED left /\ UNCHANGED vars
       \/ /\ step[c] = "release" /\ step' = [step EXCEPT ![c] = "acquire"]
          /\ Release(c) /\ left' = [left EXCEPT ![c] = @ - 1] /\ UNCHANGED <<ct, failed>>
    /\ UNCHANGED <<test, at, aborted>>

\* main: when test1 has returned, or the threads are joined, the next test starts.
NextTest ==
    /\ Alive /\ test < 6 /\ test' = test + 1
    /\ IF test = 1 THEN at > Len(Test1)
       ELSE \A c \in Clients : left[c] = 0 /\ pc[c] = "idle"
    /\ left' = IF test' = 6 THEN left ELSE RoundsOf(test')
    /\ UNCHANGED <<vars, at, step, ct, failed, aborted>>

\* A call is not answered in to_max.  The whole tester ends; the server does not
\* know, and carries out the calls that are queued or wait for a lock.
Abort ==
    /\ Alive /\ \E c \in Clients : pc[c] \notin {"idle", "hold"}
    /\ aborted' = TRUE
    /\ UNCHANGED <<vars, test, at, step, left, ct, failed>>

Server(c) == (Begin(c) \/ Handler(c)) /\ UNCHANGED testerVars

TesterNext ==
    \/ Test1Step \/ NextTest \/ Abort
    \/ \E c \in Clients : Thread(c) \/ Server(c)
    \/ \E c \in Clients : SpuriousWakeup(c) /\ UNCHANGED testerVars

\* The threads of the tester and of the server run; calls may always time out.
TesterSpec ==
    /\ TesterInit /\ [][TesterNext]_<<vars, testerVars>>
    /\ WF_<<vars, testerVars>>(Test1Step \/ NextTest)
    /\ \A c \in Clients : /\ WF_<<vars, testerVars>>(Thread(c))
                          /\ WF_<<vars, testerVars>>(Begin(c) /\ UNCHANGED testerVars)
                          /\ WF_<<vars, testerVars>>(Handler(c) /\ UNCHANGED testerVars)

--------------------------------------------------------------------------------
(* Properties                                                                   *)

(* check_grant and check_release never end the tester, and no use of the map    *)
(* of locks overlaps a creation: test1 has acquired both locks, from one        *)
(* thread, before any two threads use the server.                               *)
TesterNeverFails == ~failed /\ ~raced

(* "Since rpcs uses a thread pool of 10 threads, we cannot test more than 10    *)
(* blocking rpc" (lock_tester.cc:15): with as many workers as threads, unless   *)
(* a call times out, the tester gets to its end.                                *)
TesterFinishes == [](~aborted) => <>(test = 6)

================================================================================
