---------------------------------- MODULE Rpc ----------------------------------
(* The request/reply protocol of src/rpc/rpc.cc: rpcc (client) and rpcs        *)
(* (server), from rpcc::call1 to rpcs::dispatch and back, over TCP connections  *)
(* that may fail at any time.                                                   *)
(*                                                                              *)
(* A request header is packed once, before the first transmission, and never    *)
(* changes, so a request in flight is just its xid; hdr[c][x] is its header.     *)
(* call1 sends a request at most once on a given connection, so <<c, k, x>>     *)
(* (client, connection, xid) names one copy of a request and the dispatch job   *)
(* made from it.  Each section of code under one mutex is one action.           *)
EXTENDS Integers, Sequences, FiniteSets, XidRep

CONSTANTS
    Clients,    \* rpcc objects made with retrans = true: distinct nonces, never 0
    Threads,    \* bound: application threads that use one rpcc
    MaxXid,     \* bound: calls made by one client
    MaxConn,    \* bound: connections opened by one client
    Rounds,     \* timed waits of one call1 before its final deadline
    MaxNonce    \* bound: server instances; instance n has nonce_ = n

ASSUME RpcAssumption ==
    /\ Threads \in Nat /\ MaxXid \in Nat /\ MaxConn \in Nat /\ Rounds \in Nat /\ MaxNonce \in Nat
    /\ Rounds > 0 /\ MaxNonce > 0

Xids   == 1..MaxXid
Conns  == 1..MaxConn
Nonces == 1..MaxNonce

(* Values of caller::intret.  A handler's own result, never negative, is       *)
(* abstracted to the nonce of the instance that ran it, which is what rpcbind   *)
(* returns; 0 stands for "no reply yet" (ca.done = 0).                          *)
timeout_failure    == -1
atmostonce_failure == -4
oldsrv_failure     == -5

VARIABLES
    \* rpcc
    xid_, srv_nonce_,       \* bind_done_ is srv_nonce_ # 0: both are set together
    xid_rep_window_,        \* the sorted list as the set of its elements
    chan_,                  \* current connection, 0 for NULL
    call,                   \* the frame of each call1: pc, ch, round, ret
    hdr,                    \* the packed req_header of each call
    \* connections
    nconn,                  \* connections opened so far by each client
    cdead, sdead,           \* connections whose client / server end has dead_ set
    reqs, reps,             \* PDUs in flight on each connection, either way
    \* rpcs
    nonce_, reply_window_, conns_,
    job, buf,               \* dispatch: program counter, owner of its reply b1
    \* history
    exec,                   \* exec[n][c][x]: runs of the handler by instance n
    acked,                  \* highest xid_rep this instance took from each client
    freedSent               \* some dispatch sent a buffer after free()

cltVars  == <<xid_, srv_nonce_, xid_rep_window_, chan_, call, hdr>>
connVars == <<nconn, cdead, sdead>>
srvVars  == <<nonce_, reply_window_, conns_, job, buf>>
histVars == <<exec, acked, freedSent>>
vars     == <<cltVars, connVars, reqs, reps, srvVars, histVars>>

CallPc  == {"idle", "send", "wait", "over", "returned"}
JobPc   == {"none", "queued", "check", "run", "reply", "resend"}
Rets    == {0, timeout_failure, atmostonce_failure, oldsrv_failure} \cup Nonces
Frames  == {f \in [pc : CallPc, ch : 0..MaxConn, round : 0..Rounds, ret : Rets] :
               f.pc = "wait" => f.round < Rounds}
Headers == [proc : {"bind", "app"}, srv : Nonces \cup {0}, rep : 0..MaxXid]
Replies == [xid : 0..MaxXid, ret : Rets \ {0, timeout_failure}]

CltTypeOK ==
    /\ xid_ \in [Clients -> 1..(MaxXid + 1)]
    /\ srv_nonce_ \in [Clients -> Nonces \cup {0}]
    /\ xid_rep_window_ \in [Clients -> (SUBSET (0..MaxXid)) \ {{}}]
    /\ chan_ \in [Clients -> 0..MaxConn]
    /\ call \in [Clients -> [Xids -> Frames]]
    /\ hdr \in [Clients -> [Xids -> Headers]]

ConnTypeOK ==
    /\ nconn \in [Clients -> 0..MaxConn]
    /\ cdead \in [Clients -> SUBSET Conns] /\ sdead \in [Clients -> SUBSET Conns]
    /\ reqs \in [Clients -> [Conns -> Seq(Xids)]]
    /\ reps \in [Clients -> [Conns -> Seq(Replies)]]

SrvTypeOK ==
    /\ nonce_ \in Nonces
    /\ reply_window_ \in [Clients -> [Xids -> {"absent", "wip", "done"}]]
    /\ conns_ \in [Clients -> 0..MaxConn]
    /\ job \in [Clients -> [Conns -> [Xids -> JobPc]]]
    /\ buf \in [Clients -> [Conns -> [Xids -> {"own", "window", "freed"}]]]

HistTypeOK ==
    /\ exec \in [Nonces -> [Clients -> [Xids -> Nat]]]
    /\ acked \in [Clients -> 0..MaxXid]
    /\ freedSent \in BOOLEAN

(* The types of all variables; a reply_window_ entry is absent, "wip"          *)
(* (cb_present false) or "done" (cb_present true).                              *)
TypeOK == CltTypeOK /\ ConnTypeOK /\ SrvTypeOK /\ HistTypeOK

--------------------------------------------------------------------------------
Empty(c) == \A x \in Xids : reply_window_[c][x] = "absent"

\* The state of a call1 whose caller is in calls_.
Outstanding(c, x) == call[c][x].pc \in {"send", "wait", "over"}

\* A PDU written on connection k reaches the other end's buffer, or is lost
\* because either end is already dead.
Sent(q, c, k, m) ==
    IF k # 0 /\ k \notin cdead[c] \cup sdead[c]
    THEN [q EXCEPT ![c][k] = Append(@, m)] ELSE q

Init ==
    /\ xid_ = [c \in Clients |-> 1]
    /\ srv_nonce_ = [c \in Clients |-> 0]
    /\ xid_rep_window_ = [c \in Clients |-> {0}]
    /\ chan_ = [c \in Clients |-> 0]
    /\ call = [c \in Clients |-> [x \in Xids |->
                  [pc |-> "idle", ch |-> 0, round |-> 0, ret |-> 0]]]
    /\ hdr = [c \in Clients |-> [x \in Xids |->
                  [proc |-> "bind", srv |-> 0, rep |-> 0]]]
    /\ nconn = [c \in Clients |-> 0]
    /\ cdead = [c \in Clients |-> {}] /\ sdead = [c \in Clients |-> {}]
    /\ reqs = [c \in Clients |-> [k \in Conns |-> <<>>]]
    /\ reps = [c \in Clients |-> [k \in Conns |-> <<>>]]
    /\ nonce_ = 1
    /\ reply_window_ = [c \in Clients |-> [x \in Xids |-> "absent"]]
    /\ conns_ = [c \in Clients |-> 0]
    /\ job = [c \in Clients |-> [k \in Conns |-> [x \in Xids |-> "none"]]]
    /\ buf = [c \in Clients |-> [k \in Conns |-> [x \in Xids |-> "own"]]]
    /\ exec = [n \in Nonces |-> [c \in Clients |-> [x \in Xids |-> 0]]]
    /\ acked = [c \in Clients |-> 0]
    /\ freedSent = FALSE

--------------------------------------------------------------------------------
(* rpcc                                                                         *)

\* rpcc::call1 up to the first transmission.  A call that is not allowed before
\* (bind: after) binding returns bind_failure and changes nothing.
Call(c, p) ==
    LET x == xid_[c] IN
    /\ (p = "bind") <=> (srv_nonce_[c] = 0)
    /\ x <= MaxXid /\ Cardinality({y \in Xids : Outstanding(c, y)}) < Threads
    /\ xid_' = [xid_ EXCEPT ![c] = x + 1]
    /\ hdr' = [hdr EXCEPT ![c][x] = [proc |-> p, srv |-> srv_nonce_[c],
                                     rep |-> Front(xid_rep_window_[c])]]
    /\ call' = [call EXCEPT ![c][x] = [@ EXCEPT !.pc = "send"]]
    /\ UNCHANGED <<srv_nonce_, xid_rep_window_, chan_, connVars, reqs, reps, srvVars, histVars>>

\* Mutant of NextWait: one timed wait too many.
NextWaitLate(r) == IF r > Rounds THEN "over" ELSE "wait"

\* Where the loop of call1 goes once r of its timed waits are over.
NextWait(r) == IF r = Rounds THEN "over" ELSE "wait"

\* get_refconn, called with ch = old: it leaves in ch the current connection, a
\* new one when there is none or it is dead, or, when connecting fails, old.
get_refconn(c, old, ch) ==
    LET NoConn == chan_[c] = 0 \/ chan_[c] \in cdead[c]
        new    == nconn[c] + 1
    IN
    \/ ~NoConn /\ ch = chan_[c] /\ UNCHANGED <<chan_, nconn>>
    \/ /\ NoConn /\ new <= MaxConn /\ ch = new
       /\ chan_' = [chan_ EXCEPT ![c] = new] /\ nconn' = [nconn EXCEPT ![c] = new]
    \/ /\ NoConn /\ ch = old
       /\ chan_' = [chan_ EXCEPT ![c] = 0] /\ UNCHANGED nconn

\* The transmit branch of the loop of call1.
Transmit(c, x) ==
    LET k == call[c][x] IN
    /\ k.pc = "send"
    /\ \E ch \in 0..MaxConn :
          /\ get_refconn(c, k.ch, ch)
          /\ call' = [call EXCEPT ![c][x] = [k EXCEPT !.ch = ch, !.pc = NextWait(k.round)]]
          /\ reqs' = Sent(reqs, c, ch, x)
    /\ UNCHANGED <<xid_, srv_nonce_, xid_rep_window_, hdr, cdead, sdead, reps, srvVars, histVars>>

\* pthread_cond_timedwait returns because the reply is there ...
Wake(c, x) ==
    LET k == call[c][x] IN
    /\ k.pc = "wait" /\ k.ret # 0
    /\ call' = [call EXCEPT ![c][x] = [k EXCEPT !.pc = "over"]]
    /\ UNCHANGED <<xid_, srv_nonce_, xid_rep_window_, chan_, hdr, connVars, reqs, reps, srvVars, histVars>>

\* Mutant of Timeout: the final deadline is pushed back by every wait.
TimeoutForever(c, x) ==
    LET k == call[c][x] IN
    /\ k.pc = "wait" /\ k.ret = 0
    /\ call' = [call EXCEPT ![c][x] = [k EXCEPT !.pc =
                    IF k.ch = 0 \/ k.ch \in cdead[c] THEN "send" ELSE "wait"]]
    /\ UNCHANGED <<xid_, srv_nonce_, xid_rep_window_, chan_, hdr, connVars, reqs, reps, srvVars, histVars>>

\* ... or because nextdeadline passed.  Only a dead connection is retried.
Timeout(c, x) ==
    LET k == call[c][x] IN
    /\ k.pc = "wait" /\ k.ret = 0
    /\ call' = [call EXCEPT ![c][x] = [k EXCEPT !.round = k.round + 1,
                    !.pc = IF k.ch = 0 \/ k.ch \in cdead[c]
                           THEN "send" ELSE NextWait(k.round + 1)]]
    /\ UNCHANGED <<xid_, srv_nonce_, xid_rep_window_, chan_, hdr, connVars, reqs, reps, srvVars, histVars>>

\* The end of call1 (calls_.erase, update_xid_rep, the result) and, for a bind
\* that succeeded, of rpcc::bind.
Finish(c, x) ==
    LET k == call[c][x] IN
    /\ k.pc = "over"
    /\ xid_rep_window_' = [xid_rep_window_ EXCEPT ![c] = update_xid_rep(@, x)]
    /\ call' = [call EXCEPT ![c][x] = [pc |-> "returned", ch |-> 0, round |-> 0,
                     ret |-> IF k.ret = 0 THEN timeout_failure ELSE k.ret]]
    /\ srv_nonce_' = [srv_nonce_ EXCEPT
           ![c] = IF hdr[c][x].proc = "bind" /\ k.ret > 0 THEN k.ret ELSE @]
    /\ UNCHANGED <<xid_, chan_, hdr, connVars, reqs, reps, srvVars, histVars>>

\* Mutant of GotReply: the reply goes to any call that waits, not to its xid.
GotReplyAnyXid(c, k) ==
    LET r == Head(reps[c][k]) IN
    /\ reps[c][k] # <<>>
    /\ reps' = [reps EXCEPT ![c][k] = Tail(@)]
    /\ xid_rep_window_' = [xid_rep_window_ EXCEPT ![c] = update_xid_rep(@, r.xid)]
    /\ \E x \in Xids :
          call' = IF Outstanding(c, x) /\ call[c][x].ret = 0
                  THEN [call EXCEPT ![c][x] = [@ EXCEPT !.ret = r.ret]] ELSE call
    /\ UNCHANGED <<xid_, srv_nonce_, chan_, hdr, connVars, reqs, srvVars, histVars>>

\* rpcc::got_pdu: PollMgr's thread takes the next reply off connection k.
GotReply(c, k) ==
    LET r == Head(reps[c][k]) IN
    /\ reps[c][k] # <<>>
    /\ reps' = [reps EXCEPT ![c][k] = Tail(@)]
    /\ xid_rep_window_' = [xid_rep_window_ EXCEPT ![c] = update_xid_rep(@, r.xid)]
    /\ call' = IF r.xid \in Xids /\ Outstanding(c, r.xid) /\ call[c][r.xid].ret = 0
               THEN [call EXCEPT ![c][r.xid] = [@ EXCEPT !.ret = r.ret]] ELSE call
    /\ UNCHANGED <<xid_, srv_nonce_, chan_, hdr, connVars, reqs, srvVars, histVars>>

--------------------------------------------------------------------------------
(* Connections: either end may find out at any time that its connection failed, *)
(* and drops what it has not read.                                              *)

ClientDead(c, k) ==
    /\ k <= nconn[c] /\ k \notin cdead[c]
    /\ cdead' = [cdead EXCEPT ![c] = @ \cup {k}]
    /\ reps' = [reps EXCEPT ![c][k] = <<>>]
    /\ UNCHANGED <<cltVars, nconn, sdead, reqs, srvVars, histVars>>

ServerDead(c, k) ==
    /\ k <= nconn[c] /\ k \notin sdead[c]
    /\ sdead' = [sdead EXCEPT ![c] = @ \cup {k}]
    /\ reqs' = [reqs EXCEPT ![c][k] = <<>>]
    /\ UNCHANGED <<cltVars, nconn, cdead, reps, srvVars, histVars>>

--------------------------------------------------------------------------------
(* rpcs                                                                         *)

\* rpcs::got_pdu: the next request on connection k is queued for the pool.  A
\* full pool queue changes nothing: the PDU stays where it is.
GotRequest(c, k) ==
    /\ reqs[c][k] # <<>>
    /\ job' = [job EXCEPT ![c][k][Head(reqs[c][k])] = "queued"]
    /\ reqs' = [reqs EXCEPT ![c][k] = Tail(@)]
    /\ UNCHANGED <<cltVars, connVars, reps, nonce_, reply_window_, conns_, buf, histVars>>

\* Mutant of OldInstance: no check of the server nonce.
OldInstanceIgnored(c, x) == FALSE

\* Which requests dispatch refuses as meant for an earlier instance.
OldInstance(c, x) == hdr[c][x].srv # 0 /\ hdr[c][x].srv # nonce_

\* rpcs::dispatch up to checkduplicate_and_update.
Dispatch(c, k, x) ==
    /\ job[c][k][x] = "queued"
    /\ IF OldInstance(c, x)
       THEN /\ reps' = Sent(reps, c, k, [xid |-> x, ret |-> oldsrv_failure])
            /\ job' = [job EXCEPT ![c][k][x] = "none"]
            /\ UNCHANGED conns_
       ELSE /\ conns_' = [conns_ EXCEPT ![c] = k]
            /\ job' = [job EXCEPT ![c][k][x] = "check"]
            /\ UNCHANGED reps
    /\ UNCHANGED <<cltVars, connVars, reqs, nonce_, reply_window_, buf, histVars>>

\* Mutant of rpcstate: an entry without its reply yet is taken for a new request.
rpcstateNoProgress(c, x) ==
    IF Empty(c) \/ reply_window_[c][x] # "done" THEN "NEW"
    ELSE IF x <= hdr[c][x].rep THEN "FORGOTTEN" ELSE "DONE"

\* The verdict of checkduplicate_and_update on request x of client c.
rpcstate(c, x) ==
    IF Empty(c) THEN "NEW"
    ELSE IF x <= hdr[c][x].rep THEN "FORGOTTEN"
    ELSE CASE reply_window_[c][x] = "absent" -> "NEW"
           [] reply_window_[c][x] = "wip"    -> "INPROGRESS"
           [] reply_window_[c][x] = "done"   -> "DONE"

\* Mutant of Erased: one reply too many is forgotten.
ErasedOneMore(c, x) == IF Empty(c) THEN {} ELSE 1..(hdr[c][x].rep + 1)

\* The replies that xid_rep of request x lets the server forget.
Erased(c, x) == IF Empty(c) THEN {} ELSE 1..hdr[c][x].rep

\* checkduplicate_and_update, and the case of dispatch's switch it leads to, up
\* to the call of the handler (NEW) or the send of the recorded reply (DONE).
CheckDuplicate(c, k, x) ==
    LET stat == rpcstate(c, x)
        gone == Erased(c, x)
    IN
    /\ job[c][k][x] = "check"
    /\ reply_window_' = [reply_window_ EXCEPT ![c] = [y \in Xids |->
           IF y = x /\ stat = "NEW" THEN "wip"
           ELSE IF y \in gone THEN "absent" ELSE @[y]]]
    /\ job' = [job EXCEPT ![c][k][x] = CASE stat = "NEW"  -> "run"
                                         [] stat = "DONE" -> "resend"
                                         [] OTHER         -> "none"]
    /\ buf' = [buf EXCEPT ![c] = [l \in Conns |-> [y \in Xids |->
           IF l = k /\ y = x /\ stat = "DONE" THEN "window"
           ELSE IF y \in gone /\ @[l][y] = "window" THEN "freed" ELSE @[l][y]]]]
    /\ reps' = IF stat = "FORGOTTEN"
               THEN Sent(reps, c, k, [xid |-> x, ret |-> atmostonce_failure]) ELSE reps
    /\ exec' = IF stat = "NEW" THEN [exec EXCEPT ![nonce_][c][x] = @ + 1] ELSE exec
    /\ acked' = [acked EXCEPT ![c] = IF ~Empty(c) /\ hdr[c][x].rep > @
                                     THEN hdr[c][x].rep ELSE @]
    /\ UNCHANGED <<cltVars, connVars, reqs, nonce_, conns_, freedSent>>

\* The handler returns and add_reply records the reply, if the entry is still
\* there; a reply recorded before under the same xid is then nobody's to free.
AddReply(c, k, x) ==
    LET found == reply_window_[c][x] # "absent" IN
    /\ job[c][k][x] = "run"
    /\ job' = [job EXCEPT ![c][k][x] = "reply"]
    /\ reply_window_' = [reply_window_ EXCEPT ![c][x] = IF found THEN "done" ELSE @]
    /\ buf' = [buf EXCEPT ![c] = [l \in Conns |-> [y \in Xids |->
           IF y = x /\ l = k THEN (IF found THEN "window" ELSE "own")
           ELSE IF y = x /\ found /\ @[l][y] = "window" THEN "own" ELSE @[l][y]]]]
    /\ UNCHANGED <<cltVars, connVars, reqs, reps, nonce_, conns_, histVars>>

\* The connection a reply goes out on: a new reply changes to the client's latest
\* connection when its own is dead, a repeated one does not.
ReplyConn(c, k, x) ==
    IF job[c][k][x] = "reply" /\ k \in sdead[c] THEN conns_[c] ELSE k

\* dispatch sends b1.  What a freed buffer holds by now is undefined: any xid.
SendReply(c, k, x) ==
    /\ job[c][k][x] \in {"reply", "resend"}
    /\ \E y \in IF buf[c][k][x] = "freed" THEN 0..MaxXid ELSE {x} :
           reps' = Sent(reps, c, ReplyConn(c, k, x), [xid |-> y, ret |-> nonce_])
    /\ freedSent' = (freedSent \/ buf[c][k][x] = "freed")
    /\ job' = [job EXCEPT ![c][k][x] = "none"]
    /\ buf' = [buf EXCEPT ![c][k][x] = "own"]
    /\ UNCHANGED <<cltVars, connVars, reqs, nonce_, reply_window_, conns_, exec, acked>>

\* The server process dies and a new instance takes its place.
Restart ==
    /\ nonce_ < MaxNonce
    /\ nonce_' = nonce_ + 1
    /\ sdead' = [c \in Clients |-> 1..nconn[c]]
    /\ reqs' = [c \in Clients |-> [k \in Conns |-> <<>>]]
    /\ reply_window_' = [c \in Clients |-> [x \in Xids |-> "absent"]]
    /\ conns_' = [c \in Clients |-> 0]
    /\ job' = [c \in Clients |-> [k \in Conns |-> [x \in Xids |-> "none"]]]
    /\ buf' = [c \in Clients |-> [k \in Conns |-> [x \in Xids |-> "own"]]]
    /\ acked' = [c \in Clients |-> 0]
    /\ UNCHANGED <<cltVars, nconn, cdead, reps, exec, freedSent>>

--------------------------------------------------------------------------------
CallStep(c, x) == Transmit(c, x) \/ Wake(c, x) \/ Timeout(c, x) \/ Finish(c, x)

Next ==
    \/ \E c \in Clients :
          \/ \E p \in {"bind", "app"} : Call(c, p)
          \/ \E x \in Xids : CallStep(c, x)
          \/ \E k \in Conns : GotReply(c, k) \/ GotRequest(c, k)
                             \/ ClientDead(c, k) \/ ServerDead(c, k)
          \/ \E k \in Conns, x \in Xids :
                Dispatch(c, k, x) \/ CheckDuplicate(c, k, x)
                \/ AddReply(c, k, x) \/ SendReply(c, k, x)
    \/ Restart

Spec == Init /\ [][Next]_vars

\* Each thread inside call1 keeps running, and the clock does.
Fairness == \A c \in Clients, x \in Xids : WF_vars(CallStep(c, x))

FairSpec == Spec /\ Fairness

--------------------------------------------------------------------------------
(* Properties                                                                   *)

(* What reply_window_ really guarantees (rpcs::checkduplicate_and_update): one  *)
(* server instance runs the handler of a request at most once for as long as no *)
(* later request of that client has acknowledged it, and until then it keeps    *)
(* the request in the window.                                                   *)
AtMostOnceUntilAcked ==
    \A c \in Clients, x \in Xids : x > acked[c] =>
        /\ exec[nonce_][c][x] <= 1
        /\ exec[nonce_][c][x] = 1 => reply_window_[c][x] # "absent"

(* A client acknowledges only calls it no longer waits for: every xid up to the *)
(* xid_rep of a request packed by call1 has its reply or has been given up      *)
(* (rpcc::update_xid_rep from got_pdu and from the end of call1).  After a      *)
(* freed reply buffer has been sent the client may have seen a wrong xid.       *)
AcksOnlySettled ==
    ~freedSent => \A c \in Clients : \A x \in 1..(xid_[c] - 1) :
        \A y \in 1..hdr[c][x].rep : call[c][y].pc = "returned" \/ call[c][y].ret # 0

(* While a call is outstanding and unanswered, the instance it is addressed to  *)
(* has run its handler at most once and, once it has run it, still has the      *)
(* entry that stops a retransmission from running it again.                     *)
OutstandingRunsOnce ==
    ~freedSent => \A c \in Clients, x \in Xids :
        Outstanding(c, x) /\ call[c][x].ret = 0 =>
            /\ exec[nonce_][c][x] <= 1
            /\ exec[nonce_][c][x] = 1 => reply_window_[c][x] # "absent"

(* A call that returned a handler's result really was run, by the instance the  *)
(* result comes from; except for bind that is the instance the client is bound  *)
(* to, however often the server restarted in between (nonce check in dispatch). *)
ResultFromBoundInstance ==
    ~freedSent => \A c \in Clients, x \in Xids :
        LET n == call[c][x].ret IN
        n > 0 => /\ exec[n][c][x] > 0
                 /\ hdr[c][x].proc = "app" => n = hdr[c][x].srv

(* A request bound to one instance is never run by another: restarts do not    *)
(* defeat at-most-once, although a new instance starts with an empty window.   *)
OnlyBoundInstanceRuns ==
    \A c \in Clients, x \in Xids, n \in Nonces :
        exec[n][c][x] > 0 /\ hdr[c][x].proc = "app" => n = hdr[c][x].srv

(* dispatch sends a reply from a pointer into the window after it has released  *)
(* reply_window_m_, and another dispatch may have freed the buffer by then.     *)
(* The first time that happens, the call it would answer is already settled.    *)
FreedReplyUnwanted ==
    ~freedSent => \A c \in Clients, k \in Conns, x \in Xids :
        job[c][k][x] \in {"reply", "resend"} /\ buf[c][k][x] = "freed" =>
            call[c][x].pc = "returned" \/ call[c][x].ret # 0

(* Every call1 returns, whatever the server and the connections do.            *)
CallReturns ==
    \A c \in Clients, x \in Xids : Outstanding(c, x) ~> call[c][x].pc = "returned"

--------------------------------------------------------------------------------
(* "at-most-once delivery" (rpc.cc:5), "provide at most once semantics by       *)
(* maintaining a window of replies" (rpc.h:269): one instance never runs the    *)
(* handler of one request twice.                                                *)
AtMostOnce ==
    \A c \in Clients, x \in Xids : hdr[c][x].proc = "app" => exec[nonce_][c][x] <= 1

================================================================================
