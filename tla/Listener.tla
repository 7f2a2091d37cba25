-------------------------------- MODULE Listener --------------------------------
(* The life of an RPC server's connections (src/rpc/connection.cc,              *)
(* src/rpc/rpc.cc): the accept thread of tcpsconn, which lists connections by   *)
(* descriptor and drops dead ones; dispatch jobs, which hold a reference to the *)
(* connection their request came on; the connection that rpcs saves for each    *)
(* client; and the thread that destroys the server.                             *)
(*                                                                              *)
(* Of requests only what decides about references is kept.  What happens inside *)
(* send and the poll manager is in Connection, the reply window in Rpc.         *)
EXTENDS Naturals, FiniteSets, Bags

CONSTANTS
    MaxConns,   \* bound: connections accepted
    Fds,        \* descriptors
    Clients,    \* nonces of clients
    NoNonce,    \* a client without at-most-once logic: clt_nonce 0
    MaxJobs,    \* bound: jobs in the pool at a time
    MaxLeaks    \* bound: requests for an old instance

Conns == 1..MaxConns

ASSUME ListenerAssumption ==
    /\ MaxConns \in Nat /\ MaxJobs \in Nat /\ MaxLeaks \in Nat
    /\ Fds \subseteq Nat /\ IsFiniteSet(Fds)
    /\ IsFiniteSet(Clients) /\ NoNonce \notin Clients

VARIABLES
    life,       \* of each connection: "none" yet, "live", "dead", "deleted"
    refno_, fd_,
    listed,     \* tcpsconn::conns_: the connection at each descriptor, or 0
    saved,      \* rpcs::conns_: the connection of each client, or 0
    jobs,       \* the bag of dispatch jobs: where each is, its connection, its client
    leaked,     \* references that dispatch kept when it returned
    accepter,   \* where the accept thread is
    ch,         \* the connection it has just made
    todo,       \* the descriptors its loop, or that of ~tcpsconn, has still to visit
    main,       \* where the thread that owns the server is
    pipe,       \* whether the accept thread's pipe is open
    crashed,    \* a NULL or freed pointer was used
    stuck       \* history: closeconn closed a connection that a job was sending on

vars == <<life, refno_, fd_, listed, saved, jobs, leaked, accepter, ch, todo, main, pipe,
          crashed, stuck>>

Job == [pc : {"start", "old", "reply", "send"}, conn : Conns, clt : Clients \cup {NoNonce}]

(* The types of all variables. *)
TypeOK ==
    /\ life \in [Conns -> {"none", "live", "dead", "deleted"}]
    /\ refno_ \in [Conns -> Nat]
    /\ fd_ \in [Conns -> Fds \cup {0}]
    /\ listed \in [Fds -> Conns \cup {0}] /\ saved \in [Clients -> Conns \cup {0}]
    /\ IsABag(jobs) /\ BagToSet(jobs) \subseteq Job /\ BagCardinality(jobs) <= MaxJobs
    /\ leaked \in [Conns -> 0..MaxLeaks]
    /\ accepter \in {"select", "gc", "ref", "gone"} /\ ch \in Conns \cup {0}
    /\ todo \in SUBSET Fds
    /\ main \in {"running", "join", "close", "unlist", "pool", "done"}
    /\ pipe \in BOOLEAN /\ crashed \in BOOLEAN /\ stuck \in BOOLEAN

\* The server is constructed and its listener started.
Init ==
    /\ life = [c \in Conns |-> "none"]
    /\ refno_ = [c \in Conns |-> 0] /\ fd_ = [c \in Conns |-> 0]
    /\ listed = [f \in Fds |-> 0] /\ saved = [k \in Clients |-> 0]
    /\ jobs = EmptyBag /\ leaked = [c \in Conns |-> 0]
    /\ accepter = "select" /\ ch = 0 /\ todo = {}
    /\ main = "running" /\ pipe = TRUE /\ crashed = FALSE /\ stuck = FALSE

\* The reference counts become refs; a decref to 0 deletes a dead connection,
\* which closes its descriptor.
Refs(refs) ==
    LET Deleted(c) == life[c] = "dead" /\ refs[c] = 0 /\ refno_[c] > 0
    IN  /\ refno_' = refs
        /\ life' = [c \in Conns |-> IF Deleted(c) THEN "deleted" ELSE life[c]]
        /\ fd_' = [c \in Conns |-> IF Deleted(c) THEN 0 ELSE fd_[c]]

\* A bad pointer is used, and the process ends.
Crash == crashed' = TRUE /\ jobs' = EmptyBag

Least(S) == CHOOSE f \in S : \A g \in S : f <= g

--------------------------------------------------------------------------------
(* The accept thread                                                            *)

\* accept returns the lowest descriptor that is not open, and a connection is made;
\* the loop over conns_ begins.
Accept ==
    \E c \in Conns :
        LET closed == Fds \ {fd_[d] : d \in Conns}
            f      == Least(closed)
        IN
        /\ accepter = "select" /\ pipe /\ closed # {}
        /\ life[c] = "none" /\ \A d \in Conns : d < c => life[d] # "none"
        /\ life' = [life EXCEPT ![c] = "live"] /\ refno_' = [refno_ EXCEPT ![c] = 1]
        /\ fd_' = [fd_ EXCEPT ![c] = f] /\ ch' = c
        /\ todo' = {g \in Fds : listed[g] # 0} /\ accepter' = "gc"
        /\ UNCHANGED <<listed, saved, jobs, leaked, main, pipe, crashed, stuck>>

\* accept fails: pthread_exit.  Or select reports that the pipe is closed.
AcceptEnds ==
    /\ accepter = "select" /\ accepter' = "gone"
    /\ UNCHANGED <<life, refno_, fd_, listed, saved, jobs, leaked, ch, todo, main, pipe,
                   crashed, stuck>>

\* The head of the loop, with isdead(); or its end, and conns_[channo] = ch.
GcIsDead ==
    /\ accepter = "gc"
    /\ IF todo = {}
       THEN /\ listed' = [listed EXCEPT ![fd_[ch]] = ch] /\ ch' = 0 /\ accepter' = "select"
            /\ UNCHANGED todo
       ELSE /\ IF life[listed[Least(todo)]] = "dead" THEN accepter' = "ref" /\ UNCHANGED todo
               ELSE accepter' = "gc" /\ todo' = todo \ {Least(todo)}
            /\ UNCHANGED <<listed, ch>>
    /\ UNCHANGED <<life, refno_, fd_, saved, jobs, leaked, main, pipe, crashed, stuck>>

\* ref() == 1: decref and conns_.erase(i).  The loop goes on from the freed node of
\* i: it may find any of the later entries, its end, or crash.
GcRef ==
    LET f == Least(todo)
        c == listed[f]
    IN  /\ accepter = "ref" /\ accepter' = "gc"
        /\ IF refno_[c] # 1
           THEN todo' = todo \ {f} /\ UNCHANGED <<refno_, life, fd_, listed, jobs, crashed>>
           ELSE /\ Refs([refno_ EXCEPT ![c] = 0])
                /\ listed' = [listed EXCEPT ![f] = 0]
                /\ \/ todo' \in SUBSET (todo \ {f}) /\ UNCHANGED <<jobs, crashed>>
                   \/ todo' = {} /\ Crash
        /\ UNCHANGED <<saved, leaked, ch, main, pipe, stuck>>

--------------------------------------------------------------------------------
(* The poll manager's thread, and dispatch                                      *)

\* Mutant of Die: closes the descriptor.
DieCloses(c) ==
    /\ life[c] = "live" /\ life' = [life EXCEPT ![c] = "dead"]
    /\ fd_' = [fd_ EXCEPT ![c] = 0]
    /\ UNCHANGED <<refno_, listed, saved, jobs, leaked, accepter, ch, todo, main, pipe,
                   crashed, stuck>>

\* The peer closes the connection, or it fails: read_cb, write_cb or send sets
\* dead_ and has the descriptor removed.
Die(c) ==
    /\ life[c] = "live" /\ life' = [life EXCEPT ![c] = "dead"]
    /\ UNCHANGED <<refno_, fd_, listed, saved, jobs, leaked, accepter, ch, todo, main, pipe,
                   crashed, stuck>>

\* rpcs::got_pdu, when the pool takes the job.
got_pdu(c, k) ==
    /\ life[c] = "live" /\ BagCardinality(jobs) < MaxJobs
    /\ jobs' = jobs (+) SetToBag({[pc |-> "start", conn |-> c, clt |-> k]})
    /\ Refs([refno_ EXCEPT ![c] = @ + 1])
    /\ UNCHANGED <<listed, saved, leaked, accepter, ch, todo, main, pipe, crashed, stuck>>

Becomes(j, next) == jobs' = (jobs (-) SetToBag({j})) (+) SetToBag(next)
Goto(j, next) == Becomes(j, {[j EXCEPT !.pc = next]})

\* c->decref() at the end of dispatch, or where it drops the request.
Unref(j) ==
    /\ Refs([refno_ EXCEPT ![j.conn] = @ - 1])
    /\ Becomes(j, {})
    /\ UNCHANGED <<listed, saved, leaked, accepter, ch, todo, main, pipe, crashed, stuck>>

\* A request for an old instance is answered, and dispatch returns without decref.
OldInstance(j) ==
    /\ j.pc = "start" /\ Goto(j, "old")
    /\ BagCardinality([c \in {d \in Conns : leaked[d] > 0} |-> leaked[c]])
         + Cardinality({i \in BagToSet(jobs) : i.pc = "old"}) < MaxLeaks
    /\ UNCHANGED <<life, refno_, fd_, listed, saved, leaked, accepter, ch, todo, main, pipe,
                   crashed, stuck>>

OldSent(j) ==
    /\ j.pc = "old" /\ Becomes(j, {})
    /\ leaked' = [leaked EXCEPT ![j.conn] = @ + 1]
    /\ UNCHANGED <<life, refno_, fd_, listed, saved, accepter, ch, todo, main, pipe,
                   crashed, stuck>>

\* A header that cannot be read, or a proc that is not registered (yet): the
\* request is dropped.
Unregistered(j) == j.pc = "start" /\ Unref(j)

\* A request without a nonce goes straight to its handler.
WithoutNonce(j) ==
    /\ j.pc = "start" /\ j.clt = NoNonce /\ Goto(j, "reply")
    /\ UNCHANGED <<life, refno_, fd_, listed, saved, leaked, accepter, ch, todo, main, pipe,
                   crashed, stuck>>

\* Mutant of Save: the saved pointer has no reference of its own.
SaveNoRef(j) ==
    LET c == j.conn
        k == j.clt
    IN  /\ j.pc = "start" /\ k # NoNonce /\ Goto(j, "reply")
        /\ saved' = [saved EXCEPT ![k] = c]
        /\ UNCHANGED <<life, refno_, fd_, listed, leaked, accepter, ch, todo, main, pipe,
                       crashed, stuck>>

\* The connection is saved for the client, under conss_m_.
Save(j) ==
    LET c   == j.conn
        k   == j.clt
        old == saved[k]
    IN  /\ j.pc = "start" /\ k # NoNonce /\ Goto(j, "reply")
        /\ saved' = [saved EXCEPT ![k] = c]
        /\ IF old = c THEN UNCHANGED <<refno_, life, fd_>>
           ELSE Refs([d \in Conns |-> IF d = old THEN refno_[d] - 1
                                      ELSE IF d = c THEN refno_[d] + 1 ELSE refno_[d]])
        /\ UNCHANGED <<listed, leaked, accepter, ch, todo, main, pipe, crashed, stuck>>

\* A new request: the handler has run, and if the connection is dead the reply
\* goes to the saved one.  For a client without a nonce conns_[0] is NULL.
ReplyNew(j) ==
    LET c == j.conn
        k == j.clt
    IN  /\ j.pc = "reply"
        /\ IF life[c] # "dead" \/ (k # NoNonce /\ saved[k] = c)
           THEN Goto(j, "send") /\ UNCHANGED <<refno_, life, fd_, crashed>>
           ELSE IF k = NoNonce
           THEN Crash /\ UNCHANGED <<refno_, life, fd_>>
           ELSE /\ Becomes(j, {[j EXCEPT !.pc = "send", !.conn = saved[k]]})
                /\ Refs([d \in Conns |-> IF d = c THEN refno_[d] - 1
                                         ELSE IF d = saved[k] THEN refno_[d] + 1 ELSE refno_[d]])
                /\ UNCHANGED crashed
        /\ UNCHANGED <<listed, saved, leaked, accepter, ch, todo, main, pipe, stuck>>

\* DONE and FORGOTTEN are answered on the connection they came on.
ReplyOld(j) ==
    /\ j.pc = "reply" /\ j.clt # NoNonce /\ Goto(j, "send")
    /\ UNCHANGED <<life, refno_, fd_, listed, saved, leaked, accepter, ch, todo, main, pipe,
                   crashed, stuck>>

\* INPROGRESS is not answered.
InProgress(j) == j.pc = "reply" /\ j.clt # NoNonce /\ Unref(j)

\* send returns: the PDU is written, or the connection is dead.
Sent(j) == j.pc = "send" /\ Unref(j)

dispatch(j) ==
    \/ OldInstance(j) \/ OldSent(j) \/ Unregistered(j) \/ WithoutNonce(j) \/ Save(j)
    \/ ReplyNew(j) \/ ReplyOld(j) \/ InProgress(j) \/ Sent(j)

--------------------------------------------------------------------------------
(* The owner of the server                                                      *)

\* Mutant of ClosePipe: joins without closing the pipe.
ClosePipeNot ==
    /\ main = "running" /\ main' = "join"
    /\ UNCHANGED <<life, refno_, fd_, listed, saved, jobs, leaked, accepter, ch, todo, pipe,
                   crashed, stuck>>

\* ~rpcs, ~tcpsconn: close(pipe_[1]).
ClosePipe ==
    /\ main = "running" /\ main' = "join" /\ pipe' = FALSE
    /\ UNCHANGED <<life, refno_, fd_, listed, saved, jobs, leaked, accepter, ch, todo,
                   crashed, stuck>>

\* Mutant of Join: the loop over conns_ is left out.
JoinOnly ==
    /\ main = "join" /\ accepter = "gone" /\ main' = "close" /\ todo' = {}
    /\ UNCHANGED <<life, refno_, fd_, listed, saved, jobs, leaked, accepter, ch, pipe,
                   crashed, stuck>>

\* pthread_join, and the loop over conns_ begins.
Join ==
    /\ main = "join" /\ accepter = "gone" /\ main' = "close"
    /\ todo' = {f \in Fds : listed[f] # 0}
    /\ UNCHANGED <<life, refno_, fd_, listed, saved, jobs, leaked, accepter, ch, pipe,
                   crashed, stuck>>

\* closeconn of the next connection; it wakes no job that is inside send.
closeconn ==
    /\ main = "close"
    /\ IF todo = {} THEN main' = "pool" /\ UNCHANGED <<life, stuck>>
       ELSE LET c == listed[Least(todo)]
            IN  /\ main' = "unlist" /\ life' = [life EXCEPT ![c] = "dead"]
                /\ stuck' = (stuck \/ (life[c] = "live" /\
                                \E j \in BagToSet(jobs) : j.pc \in {"old", "send"} /\ j.conn = c))
    /\ UNCHANGED <<refno_, fd_, listed, saved, jobs, leaked, accepter, ch, todo, pipe, crashed>>

\* decref of the connection that was closed.
Unlist ==
    LET f == Least(todo) IN
    /\ main = "unlist" /\ main' = "close" /\ todo' = todo \ {f}
    /\ Refs([refno_ EXCEPT ![listed[f]] = @ - 1])
    /\ listed' = [listed EXCEPT ![f] = 0]
    /\ UNCHANGED <<saved, jobs, leaked, accepter, ch, pipe, crashed, stuck>>

\* delete dispatchpool_ waits for the jobs; then free_reply_window.
DeletePool ==
    /\ main = "pool" /\ jobs = EmptyBag
    /\ main' = "done"
    /\ UNCHANGED <<life, refno_, fd_, listed, saved, jobs, leaked, accepter, ch, todo, pipe,
                   crashed, stuck>>

--------------------------------------------------------------------------------
AcceptLoop == (AcceptEnds /\ ~pipe) \/ GcIsDead \/ GcRef
Destructor == Join \/ closeconn \/ Unlist \/ DeletePool

Next ==
    /\ ~crashed
    /\ \/ Accept \/ AcceptEnds \/ GcIsDead \/ GcRef
       \/ \E c \in Conns : Die(c)
       \/ \E c \in Conns, k \in Clients \cup {NoNonce} : got_pdu(c, k)
       \/ \E j \in BagToSet(jobs) : dispatch(j)
       \/ ClosePipe \/ Destructor

Spec == Init /\ [][Next]_vars

\* The threads run; a send ends when its PDU is written or its connection fails.
\* Of the jobs this is asked only while the destructor waits for them.
FairSpec ==
    /\ Spec
    /\ WF_vars(~crashed /\ AcceptLoop) /\ WF_vars(~crashed /\ Destructor)
    /\ WF_vars(main = "pool" /\ \E j \in BagToSet(jobs) : dispatch(j))

--------------------------------------------------------------------------------
(* Properties                                                                   *)

\* The jobs of the bag that are on connection c, each as often as it is there.
JobsOn(bag, c) == UNION {{j} \X (1..bag[j]) : j \in {i \in BagToSet(bag) : i.conn = c}}

Holders(c) ==
      Cardinality({f \in Fds : listed[f] = c}) + Cardinality({k \in Clients : saved[k] = c})
    + Cardinality(JobsOn(jobs, c)) + leaked[c] + (IF ch = c THEN 1 ELSE 0)

(* The reference count of a connection is the number of places that still point *)
(* to it (conns_ of the listener, conns_ of rpcs, jobs, and the references that *)
(* dispatch forgot), and it is deleted as soon as there is none: so the accept  *)
(* thread, a job and a save that replaces it never meet a deleted connection,   *)
(* whichever of them drops the last reference.                                  *)
RefsAccounted ==
    ~crashed => \A c \in Conns :
        life[c] # "none" => /\ refno_[c] = Holders(c)
                            /\ life[c] = "deleted" <=> refno_[c] = 0

(* A descriptor is given out again only when its connection has left conns_:    *)
(* what process_accept enters never replaces another connection, and every      *)
(* connection that is listed has its own descriptor.                            *)
NoEntryReplaced ==
    ~crashed => /\ ch # 0 => fd_[ch] \in Fds /\ listed[fd_[ch]] = 0
                /\ \A f \in Fds : listed[f] # 0 => fd_[listed[f]] = f

(* "must delete listener before dispatchpool" (rpc.cc:368): once ~tcpsconn has  *)
(* returned no connection is alive, so got_pdu never gives a job to a pool that *)
(* is being deleted; and when the destructor is over nobody points to a         *)
(* connection but rpcs::conns_ and the references that dispatch forgot.         *)
QuietAfterListener ==
    ~crashed => /\ main \in {"pool", "done"} => \A c \in Conns : life[c] # "live"
                /\ main = "done" => \A c \in Conns :
                      life[c] = "dead" => leaked[c] > 0 \/ \E k \in Clients : saved[k] = c

(* The destructor of the server returns: the accept thread sees the closed pipe *)
(* wherever it is, and the jobs end, unless one was sending on a connection     *)
(* that closeconn closed, or the process crashed.                               *)
ShutdownReturns == (main = "join") ~> (main = "done" \/ stuck \/ crashed)

================================================================================
