--------------------------------- MODULE PollMgr ---------------------------------
(* The poll manager (src/rpc/pollmgr.cc, with SelectAIO): one thread that waits *)
(* in select for file descriptors and makes callbacks, and the calls by which   *)
(* other threads add and remove descriptors.  What a call does between locking  *)
(* m_ and releasing it, or waiting on changedone_c_, is one step.               *)
(*                                                                              *)
(* This module is the component alone: PollUsers adds threads that use it as    *)
(* connections do, Connection adds one connection.                              *)
EXTENDS Integers

CONSTANTS
    Fds,        \* file descriptors
    Threads,    \* threads that call block_remove_fd
    PipeCap     \* bound: bytes in the pipe that are counted

ASSUME PollAssumption == PipeCap \in Nat /\ PipeCap > 0

VARIABLES
    rfds_, wfds_,       \* SelectAIO: descriptors watched
    pipefd_,            \* SelectAIO: bytes in the pipe that interrupts select
    callbacks_,         \* descriptors with a callback object
    pending_change_,
    removing,           \* block_remove_fd of each thread: where it is
    loop,               \* wait_loop: where it is
    readable, writable  \* wait_loop: copies of rfds_, wfds_, then what is ready

fdVars   == <<rfds_, wfds_, pipefd_>>
loopVars == <<loop, readable, writable>>
pollVars == <<fdVars, callbacks_, pending_change_, removing, loopVars>>

CB_RDWR == {"r", "w"}

PollTypeOK ==
    /\ rfds_ \in SUBSET Fds /\ wfds_ \in SUBSET Fds /\ callbacks_ \in SUBSET Fds
    /\ pipefd_ \in 0..PipeCap
    /\ pending_change_ \in BOOLEAN
    /\ removing \in [Threads -> {"no", "wait", "woken"}]
    /\ loop \in {"top", "copy", "select", "calls"}
    /\ readable \in SUBSET Fds /\ writable \in SUBSET Fds

PollInit ==
    /\ rfds_ = {} /\ wfds_ = {} /\ callbacks_ = {} /\ pipefd_ = 0
    /\ pending_change_ = FALSE
    /\ removing = [t \in Threads |-> "no"]
    /\ loop = "top" /\ readable = {} /\ writable = {}

--------------------------------------------------------------------------------
\* One more byte in the pipe.
WritePipe == pipefd_' = IF pipefd_ < PipeCap THEN pipefd_ + 1 ELSE pipefd_

add_callback(fd, flag) ==
    /\ rfds_' = IF "r" \in flag THEN rfds_ \cup {fd} ELSE rfds_
    /\ wfds_' = IF "w" \in flag THEN wfds_ \cup {fd} ELSE wfds_
    /\ WritePipe
    /\ callbacks_' = callbacks_ \cup {fd}
    /\ UNCHANGED <<pending_change_, removing>>

\* Mutant of unwatch_fd: select is not interrupted.
unwatch_fdQuiet(fd, flag) ==
    /\ rfds_' = IF "r" \in flag THEN rfds_ \ {fd} ELSE rfds_
    /\ wfds_' = IF "w" \in flag THEN wfds_ \ {fd} ELSE wfds_
    /\ UNCHANGED pipefd_

unwatch_fd(fd, flag) ==
    /\ rfds_' = IF "r" \in flag THEN rfds_ \ {fd} ELSE rfds_
    /\ wfds_' = IF "w" \in flag THEN wfds_ \ {fd} ELSE wfds_
    /\ IF flag = CB_RDWR THEN WritePipe ELSE UNCHANGED pipefd_

del_callback(fd, flag) ==
    /\ unwatch_fd(fd, flag)
    /\ callbacks_' = IF fd \in rfds_' \cup wfds_' THEN callbacks_ ELSE callbacks_ \ {fd}
    /\ UNCHANGED <<pending_change_, removing>>

\* Mutant of block_remove_fd: it does not wait for the loop.
block_remove_fdNoWait(t, fd) ==
    /\ unwatch_fd(fd, CB_RDWR)
    /\ removing' = [removing EXCEPT ![t] = "woken"]
    /\ UNCHANGED <<callbacks_, pending_change_>>

\* block_remove_fd up to its wait on changedone_c_ ...
block_remove_fd(t, fd) ==
    /\ unwatch_fd(fd, CB_RDWR)
    /\ pending_change_' = TRUE
    /\ removing' = [removing EXCEPT ![t] = "wait"]
    /\ UNCHANGED callbacks_

\* ... and from there to its return.
fd_removed(t, fd) ==
    /\ removing[t] = "woken"
    /\ removing' = [removing EXCEPT ![t] = "no"]
    /\ callbacks_' = callbacks_ \ {fd}
    /\ UNCHANGED <<fdVars, pending_change_>>

--------------------------------------------------------------------------------
(* wait_loop                                                                    *)

\* Every thread that waits on changedone_c_ when pending_change_ is set goes on.
Broadcast ==
    /\ pending_change_' = FALSE
    /\ removing' = IF pending_change_
                   THEN [t \in Threads |-> IF removing[t] = "wait" THEN "woken" ELSE removing[t]]
                   ELSE removing

LoopTop ==
    /\ loop = "top" /\ loop' = "copy"
    /\ Broadcast
    /\ UNCHANGED <<fdVars, callbacks_, readable, writable>>

\* wait_ready copies the sets under SelectAIO's own mutex ...
LoopCopy ==
    /\ loop = "copy" /\ loop' = "select"
    /\ readable' = rfds_ /\ writable' = wfds_
    /\ UNCHANGED <<fdVars, callbacks_, pending_change_, removing>>

\* ... and select returns when a descriptor of the copies is ready (R: to read,
\* W: to write) or there is a byte in the pipe, of which it reads one.
Select(R, W) ==
    /\ loop = "select"
    /\ readable' = readable \cap R /\ writable' = writable \cap W
    /\ pipefd_ > 0 \/ readable' \cup writable' # {}
    /\ pipefd_' = IF pipefd_ > 0 THEN pipefd_ - 1 ELSE 0
    /\ loop' = IF readable' \cup writable' = {} THEN "top" ELSE "calls"
    /\ UNCHANGED <<rfds_, wfds_, callbacks_, pending_change_, removing>>

\* select is interrupted by a signal (EINTR).
Interrupted ==
    /\ loop = "select" /\ loop' = "top"
    /\ readable' = {} /\ writable' = {}
    /\ UNCHANGED <<fdVars, callbacks_, pending_change_, removing>>

\* The loops over readable and writable come to fd; the callback is made if
\* callbacks_[fd] is set.  The order of descriptors within a loop is left open.
TakeReadable(fd) ==
    /\ loop = "calls" /\ fd \in readable
    /\ readable' = readable \ {fd} /\ UNCHANGED <<loop, writable>>

TakeWritable(fd) ==
    /\ loop = "calls" /\ readable = {} /\ fd \in writable
    /\ writable' = writable \ {fd} /\ UNCHANGED <<loop, readable>>

LoopEnd ==
    /\ loop = "calls" /\ readable = {} /\ writable = {} /\ loop' = "top"
    /\ UNCHANGED <<fdVars, callbacks_, pending_change_, removing, readable, writable>>

================================================================================
