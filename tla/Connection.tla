------------------------------- MODULE Connection -------------------------------
(* One connection of an RPC server (src/rpc/connection.cc) on the poll manager: *)
(* dispatch threads that send replies on it, the poll manager's thread in       *)
(* read_cb and write_cb, and the thread of tcpsconn that owns it, which drops   *)
(* it once it is dead or closes it.  Each stretch of code under m_ is one step. *)
(*                                                                              *)
(* Of the bytes of a PDU only how many are written counts; what is read is "no  *)
(* PDU", "part of one" or "one".                                                *)
EXTENDS PollMgr, FiniteSets

CONSTANTS
    Fd,         \* fd_: Fds = {Fd}
    Senders,    \* dispatch threads
    Owner,      \* the thread of tcpsconn: Threads = Senders \cup {Owner}
    None,       \* NULL
    PduSize     \* bound: how many partial writes a PDU may take

ASSUME ConnAssumption ==
    /\ Fds = {Fd} /\ Threads = Senders \cup {Owner} /\ Owner \notin Senders
    /\ IsFiniteSet(Senders) /\ None \notin Senders /\ PduSize \in Nat \ {0}

VARIABLES
    dead_, wpdu_, rpdu_, refno_,
    pc,         \* where each sender and the owner are
    full,       \* whether the socket takes no more bytes
    broken,     \* whether a write on the socket fails
    deleted,    \* whether the object has been deleted
    aborted,    \* whether an assertion has failed
    frag,       \* history: bytes on the wire of a PDU not completely written
    closed      \* history: closeconn closed a connection that worked

connVars == <<dead_, wpdu_, rpdu_, refno_, pc, full, broken, deleted, aborted, frag, closed>>
vars     == <<pollVars, connVars>>

NoPdu == [buf |-> None, sz |-> 0, solong |-> 0]

(* The types of all variables. *)
TypeOK ==
    /\ PollTypeOK
    /\ dead_ \in BOOLEAN
    /\ wpdu_ \in [buf : Senders \cup {None}, sz : {0, PduSize}, solong : {-1} \cup 0..PduSize]
    /\ rpdu_ \in {"none", "part", "full"}
    /\ refno_ \in 0..(Cardinality(Senders) + 1)
    /\ pc \in [Threads -> {"idle", "send", "space", "complete", "woken", "remove",
                           "removing", "finish", "open", "ref", "unref", "gone"}]
    /\ full \in BOOLEAN /\ broken \in BOOLEAN
    /\ deleted \in BOOLEAN /\ aborted \in BOOLEAN
    /\ frag \in 0..(PduSize - 1) /\ closed \in BOOLEAN

\* connection::connection.
Init ==
    /\ rfds_ = {Fd} /\ wfds_ = {} /\ callbacks_ = {Fd} /\ pipefd_ = 1
    /\ pending_change_ = FALSE /\ removing = [t \in Threads |-> "no"]
    /\ loop = "top" /\ readable = {} /\ writable = {}
    /\ dead_ = FALSE /\ wpdu_ = NoPdu /\ rpdu_ = "none" /\ refno_ = 1
    /\ pc = [t \in Threads |-> IF t = Owner THEN "open" ELSE "idle"]
    /\ full = FALSE /\ broken = FALSE
    /\ deleted = FALSE /\ aborted = FALSE /\ frag = 0 /\ closed = FALSE

Moved(where, next) == [t \in Threads |-> IF pc[t] = where THEN next ELSE pc[t]]
Goto(t, next)      == pc' = [pc EXCEPT ![t] = next]

--------------------------------------------------------------------------------
(* connection::send                                                             *)

\* writepdu of p: it writes n more bytes, none if the socket is full, or fails.
Wrote(p, n) ==
    /\ ~broken /\ p.solong + n <= p.sz
    /\ n > 0 => ~full
    /\ wpdu_' = [p EXCEPT !.solong = p.solong + n]
    /\ full' = (p.solong + n < p.sz)
    /\ frag' = (frag + n) % PduSize
    /\ UNCHANGED broken

WriteFails(p) ==
    /\ wpdu_' = [p EXCEPT !.solong = -1, !.sz = 0]
    /\ broken' = TRUE
    /\ UNCHANGED <<full, frag>>

\* send from locking m_, or from its wait on send_wait_, to its next wait, to
\* unlocking m_ because the write failed, or to its return.
Send(t) ==
    LET p == [buf |-> t, sz |-> PduSize, solong |-> 0] IN
    /\ pc[t] = "send"
    /\ \/ /\ dead_ /\ Goto(t, "unref")
          /\ UNCHANGED <<pollVars, dead_, wpdu_, full, broken, frag>>
       \/ /\ ~dead_ /\ wpdu_.buf # None /\ Goto(t, "space")
          /\ UNCHANGED <<pollVars, dead_, wpdu_, full, broken, frag>>
       \/ /\ ~dead_ /\ wpdu_.buf = None /\ ~broken /\ ~full
          /\ pc' = [Moved("space", "send") EXCEPT ![t] = "unref"]
          /\ UNCHANGED <<pollVars, dead_, wpdu_, full, broken, frag>>
       \/ /\ ~dead_ /\ wpdu_.buf = None
          /\ \E n \in 0..(PduSize - 1) : Wrote(p, n)
          /\ add_callback(Fd, {"w"}) /\ Goto(t, "complete")
          /\ UNCHANGED <<loopVars, dead_>>
       \/ /\ ~dead_ /\ wpdu_.buf = None
          /\ WriteFails(p) /\ dead_' = TRUE /\ Goto(t, "remove")
          /\ UNCHANGED pollVars
    /\ UNCHANGED <<rpdu_, refno_, deleted, aborted, closed>>

\* The condition of the loop in which send waits on send_complete_.
Incomplete == ~dead_ /\ wpdu_.solong >= 0 /\ wpdu_.solong < wpdu_.sz

SendWait(t) ==
    /\ pc[t] = "woken" /\ Incomplete /\ Goto(t, "complete")
    /\ UNCHANGED <<pollVars, dead_, wpdu_, rpdu_, refno_, full, broken, deleted, aborted, frag, closed>>

\* Mutant of SendDone: the condition is not tested again after the wait.
SendDoneIf(t) ==
    /\ pc[t] \in {"finish", "woken"}
    /\ wpdu_' = NoPdu
    /\ pc' = [Moved("space", "send") EXCEPT ![t] = "unref"]
    /\ UNCHANGED <<pollVars, dead_, rpdu_, refno_, full, broken, deleted, aborted, frag, closed>>

\* The end of send.
SendDone(t) ==
    /\ pc[t] = "finish" \/ (pc[t] = "woken" /\ ~Incomplete)
    /\ wpdu_' = NoPdu
    /\ pc' = [Moved("space", "send") EXCEPT ![t] = "unref"]
    /\ UNCHANGED <<pollVars, dead_, rpdu_, refno_, full, broken, deleted, aborted, frag, closed>>

SpuriousWakeup(t) ==
    /\ \/ pc[t] = "space" /\ Goto(t, "send")
       \/ pc[t] = "complete" /\ Goto(t, "woken")
    /\ UNCHANGED <<pollVars, dead_, wpdu_, rpdu_, refno_, full, broken, deleted, aborted, frag, closed>>

--------------------------------------------------------------------------------
(* closeconn, block_remove_fd, decref and the owner                             *)

\* ~tcpsconn calls closeconn.
closeconn ==
    /\ pc[Owner] = "open" /\ closed' = ~dead_
    /\ \/ dead_ /\ Goto(Owner, "unref") /\ UNCHANGED <<dead_, broken>>
       \/ ~dead_ /\ Goto(Owner, "remove") /\ dead_' = TRUE /\ broken' = TRUE
    /\ UNCHANGED <<pollVars, wpdu_, rpdu_, refno_, full, deleted, aborted, frag>>

\* process_accept tests isdead() ...
GcIsDead ==
    /\ pc[Owner] = "open" /\ dead_ /\ Goto(Owner, "ref")
    /\ UNCHANGED <<pollVars, dead_, wpdu_, rpdu_, refno_, full, broken, deleted, aborted, frag, closed>>

\* ... and then ref() == 1 before it drops the connection.
GcRef ==
    /\ pc[Owner] = "ref" /\ Goto(Owner, IF refno_ = 1 THEN "unref" ELSE "open")
    /\ UNCHANGED <<pollVars, dead_, wpdu_, rpdu_, refno_, full, broken, deleted, aborted, frag, closed>>

\* Mutant of Remove: the descriptor is left with the poll manager.
RemoveNot(t) ==
    /\ pc[t] = "remove" /\ Goto(t, IF t = Owner THEN "unref" ELSE "finish")
    /\ UNCHANGED <<pollVars, dead_, wpdu_, rpdu_, refno_, full, broken, deleted, aborted, frag, closed>>

Remove(t) ==
    /\ pc[t] = "remove" /\ Goto(t, "removing")
    /\ block_remove_fd(t, Fd)
    /\ UNCHANGED <<loopVars, dead_, wpdu_, rpdu_, refno_, full, broken, deleted, aborted, frag, closed>>

Removed(t) ==
    /\ pc[t] = "removing" /\ Goto(t, IF t = Owner THEN "unref" ELSE "finish")
    /\ fd_removed(t, Fd)
    /\ UNCHANGED <<loopVars, dead_, wpdu_, rpdu_, refno_, full, broken, deleted, aborted, frag, closed>>

\* decref; the last reference to a dead connection deletes it.
Unref(t) ==
    /\ pc[t] = "unref" /\ Goto(t, IF t = Owner THEN "gone" ELSE "idle")
    /\ refno_' = refno_ - 1
    /\ deleted' = (deleted \/ (refno_ = 1 /\ dead_))
    /\ UNCHANGED <<pollVars, dead_, wpdu_, rpdu_, full, broken, aborted, frag, closed>>

--------------------------------------------------------------------------------
(* The poll manager's thread                                                    *)

\* rpcs::got_pdu takes a reference and hands the PDU to a dispatch thread, which
\* sends one reply or none; or it refuses the PDU because the pool is full.
got_pdu ==
    \/ /\ \E t \in Senders : pc[t] = "idle" /\ \E next \in {"send", "unref"} : Goto(t, next)
       /\ refno_' = refno_ + 1 /\ rpdu_' = "none"
    \/ rpdu_' = "full" /\ UNCHANGED <<pc, refno_>>

\* Mutant of ReadFails: a sender that waits for its write is not told.
ReadFailsQuiet ==
    /\ rpdu_' = "none" /\ dead_' = TRUE
    /\ del_callback(Fd, CB_RDWR)
    /\ UNCHANGED <<pc, refno_>>

\* readpdu fails.
ReadFails ==
    /\ rpdu_' = "none" /\ dead_' = TRUE
    /\ del_callback(Fd, CB_RDWR)
    /\ pc' = Moved("complete", "woken") /\ UNCHANGED refno_

read_cb ==
    /\ TakeReadable(Fd)
    /\ \/ /\ Fd \notin callbacks_ \/ dead_
          /\ UNCHANGED <<fdVars, callbacks_, pending_change_, removing, dead_, rpdu_, refno_, pc>>
       \/ /\ Fd \in callbacks_ /\ ~dead_ /\ rpdu_ # "full" /\ rpdu_' = "part"
          /\ UNCHANGED <<fdVars, callbacks_, pending_change_, removing, dead_, refno_, pc>>
       \/ /\ Fd \in callbacks_ /\ ~dead_ /\ got_pdu
          /\ UNCHANGED <<fdVars, callbacks_, pending_change_, removing, dead_>>
       \/ Fd \in callbacks_ /\ ~dead_ /\ rpdu_ # "full" /\ ReadFails
    /\ UNCHANGED <<wpdu_, full, broken, deleted, aborted, frag, closed>>

\* write_cb asserts that the connection is not dead.
write_cb ==
    /\ TakeWritable(Fd)
    /\ aborted' = (Fd \in callbacks_ /\ dead_)
    /\ \/ /\ Fd \notin callbacks_ \/ dead_
          /\ UNCHANGED <<fdVars, callbacks_, pending_change_, removing, dead_, wpdu_, pc, full, broken, frag>>
       \/ /\ Fd \in callbacks_ /\ ~dead_ /\ wpdu_.sz = 0
          /\ del_callback(Fd, {"w"})
          /\ UNCHANGED <<dead_, wpdu_, pc, full, broken, frag>>
       \/ /\ Fd \in callbacks_ /\ ~dead_ /\ wpdu_.sz # 0 /\ wpdu_.solong = wpdu_.sz
          /\ pc' = Moved("complete", "woken")
          /\ UNCHANGED <<fdVars, callbacks_, pending_change_, removing, dead_, wpdu_, full, broken, frag>>
       \/ /\ Fd \in callbacks_ /\ ~dead_ /\ wpdu_.solong < wpdu_.sz
          /\ \E n \in IF full THEN {0} ELSE 1..PduSize : Wrote(wpdu_, n)
          /\ pc' = IF wpdu_'.solong < wpdu_.sz THEN pc ELSE Moved("complete", "woken")
          /\ UNCHANGED <<fdVars, callbacks_, pending_change_, removing, dead_>>
       \/ /\ Fd \in callbacks_ /\ ~dead_ /\ wpdu_.solong < wpdu_.sz
          /\ WriteFails(wpdu_) /\ dead_' = TRUE /\ del_callback(Fd, CB_RDWR)
          /\ pc' = Moved("complete", "woken")
    /\ UNCHANGED <<rpdu_, refno_, deleted, closed>>

\* A socket that failed is ready for everything; there may always be something
\* to read.
Loop ==
    /\ \/ LoopTop \/ LoopCopy \/ LoopEnd
       \/ \E R \in IF broken THEN {Fds} ELSE SUBSET Fds :
             Select(R, IF full /\ ~broken THEN {} ELSE Fds)
    /\ UNCHANGED connVars

LoopInterrupted == Interrupted /\ UNCHANGED connVars

\* The network (external): the peer takes bytes, or the connection fails.
Drain ==
    /\ full /\ full' = FALSE
    /\ UNCHANGED <<pollVars, dead_, wpdu_, rpdu_, refno_, pc, broken, deleted, aborted, frag, closed>>

SocketFails ==
    /\ ~broken /\ broken' = TRUE
    /\ UNCHANGED <<pollVars, dead_, wpdu_, rpdu_, refno_, pc, full, deleted, aborted, frag, closed>>

--------------------------------------------------------------------------------
Sender(t) == Send(t) \/ SendWait(t) \/ SendDone(t) \/ Remove(t) \/ Removed(t) \/ Unref(t)

Next ==
    /\ ~aborted
    /\ \/ \E t \in Senders : Sender(t) \/ SpuriousWakeup(t)
       \/ closeconn \/ GcIsDead \/ GcRef
       \/ Remove(Owner) \/ Removed(Owner) \/ Unref(Owner)
       \/ Loop \/ LoopInterrupted \/ read_cb \/ write_cb \/ Drain \/ SocketFails

Spec == Init /\ [][Next]_vars

\* Threads keep running, signals do not interrupt every select, and the peer
\* takes bytes from a connection that works.
Fairness ==
    /\ \A t \in Senders : WF_vars(~aborted /\ Sender(t))
    /\ WF_vars(~aborted /\ (Remove(Owner) \/ Removed(Owner)))
    /\ WF_vars(~aborted /\ (Loop \/ read_cb \/ write_cb))
    /\ SF_vars(~aborted /\ loop = "select" /\ Loop)
    /\ WF_vars(~aborted /\ Drain)

FairSpec == Spec /\ Fairness

--------------------------------------------------------------------------------
(* Properties                                                                   *)

(* A PDU of which some bytes are on the wire is finished before another begins: *)
(* its sender is still inside send and wpdu_ says how far it got, whatever      *)
(* wakes the waiting threads.  Otherwise the peer would lose the framing.       *)
WholePdus ==
    frag # 0 /\ ~dead_ =>
        /\ wpdu_.solong = frag
        /\ \E t \in Senders : wpdu_.buf = t /\ pc[t] \in {"complete", "woken"}

(* "A connection object is deleted only when the underlying connection is dead  *)
(* and the reference count reaches zero" (rpc.cc:39); then also no thread is    *)
(* still in one of its methods, the poll manager has no pointer to it, and      *)
(* nothing is left to write, as its destructor asserts.                         *)
DeletedOnlyWhenUnused ==
    deleted => /\ dead_ /\ refno_ = 0 /\ wpdu_.buf = None
               /\ Fd \notin callbacks_ \cup rfds_ \cup wfds_
               /\ \A t \in Threads : pc[t] \in {"idle", "gone"}

(* send "blocks until data is sent or connection has failed" (rpc.cc:14): the   *)
(* thread whose PDU is being written returns, and once the connection is dead   *)
(* every thread inside send does, unless closeconn is called in the meantime.   *)
SendReturns ==
    \A t \in Senders :
        (wpdu_.buf = t \/ (dead_ /\ pc[t] \in {"send", "space"}))
            ~> (pc[t] = "unref" \/ aborted \/ closed)

================================================================================
