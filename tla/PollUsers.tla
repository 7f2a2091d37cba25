-------------------------------- MODULE PollUsers --------------------------------
(* PollMgr used the way connections use it (src/rpc/connection.cc): a new       *)
(* connection adds its descriptor, a connection that dies in a callback deletes *)
(* it there, one that dies elsewhere calls block_remove_fd; then the descriptor *)
(* is closed, and the next connection may be given the same number.             *)
EXTENDS PollMgr

CONSTANT None       \* no descriptor

ASSUME UsersAssumption == None \notin Fds

VARIABLES
    st,         \* the connection on each descriptor
    target,     \* the descriptor each thread removes
    cur, how,   \* the callback that runs now, if any: its descriptor, read or write
    fresh,      \* history: descriptors added since wait_ready copied the sets
    spurious    \* history: block_remove_fd returned without a signal

userVars == <<st, target, cur, how, fresh, spurious>>
vars     == <<pollVars, userVars>>

(* The types of all variables. *)
TypeOK ==
    /\ PollTypeOK
    /\ st \in [Fds -> {"closed", "open", "removing", "removed"}]
    /\ target \in [Threads -> Fds]
    /\ cur \in Fds \cup {None} /\ how \in CB_RDWR
    /\ fresh \in SUBSET Fds /\ spurious \in BOOLEAN

Init ==
    /\ PollInit
    /\ st = [fd \in Fds |-> "closed"]
    /\ target \in [Threads -> Fds]
    /\ cur = None /\ how = "r" /\ fresh = {} /\ spurious = FALSE

--------------------------------------------------------------------------------
\* connection::connection.
Open(fd) ==
    /\ st[fd] = "closed"
    /\ add_callback(fd, {"r"})
    /\ st' = [st EXCEPT ![fd] = "open"] /\ fresh' = fresh \cup {fd}
    /\ UNCHANGED <<loopVars, target, cur, how, spurious>>

\* connection::send, after a write that was not complete.
WatchWrite(fd) ==
    /\ st[fd] = "open" /\ fd \notin wfds_
    /\ add_callback(fd, {"w"})
    /\ UNCHANGED <<loopVars, userVars>>

\* connection::closeconn, or connection::send after a write that failed.
Remove(t, fd) ==
    /\ st[fd] = "open" /\ removing[t] = "no"
    /\ block_remove_fd(t, fd)
    /\ st' = [st EXCEPT ![fd] = "removing"] /\ target' = [target EXCEPT ![t] = fd]
    /\ UNCHANGED <<loopVars, cur, how, fresh, spurious>>

Removed(t) ==
    /\ fd_removed(t, target[t])
    /\ st' = [st EXCEPT ![target[t]] = "removed"]
    /\ UNCHANGED <<loopVars, target, cur, how, fresh, spurious>>

\* pthread_cond_wait may return without a signal; block_remove_fd goes on.
SpuriousWakeup(t) ==
    /\ removing[t] = "wait"
    /\ removing' = [removing EXCEPT ![t] = "woken"] /\ spurious' = TRUE
    /\ UNCHANGED <<fdVars, callbacks_, pending_change_, loopVars, st, target, cur, how, fresh>>

\* connection::~connection.
Close(fd) ==
    /\ st[fd] = "removed"
    /\ st' = [st EXCEPT ![fd] = "closed"]
    /\ UNCHANGED <<pollVars, target, cur, how, fresh, spurious>>

--------------------------------------------------------------------------------
\* wait_loop between callbacks.
Loop ==
    /\ cur = None
    /\ \/ LoopTop \/ LoopEnd \/ (\E R, W \in SUBSET Fds : Select(R, W))
       \/ LoopCopy
    /\ fresh' = IF loop = "copy" THEN {} ELSE fresh
    /\ UNCHANGED <<st, target, cur, how, spurious>>

LoopInterrupted == cur = None /\ Interrupted /\ UNCHANGED userVars

\* wait_loop comes to fd.
Callback(fd) ==
    /\ cur = None
    /\ \/ TakeReadable(fd) /\ how' = "r"
       \/ TakeWritable(fd) /\ how' = "w"
    /\ cur' = IF fd \in callbacks_ THEN fd ELSE None
    /\ UNCHANGED <<fdVars, callbacks_, pending_change_, removing, st, target, fresh, spurious>>

\* The callback returns: it did nothing to the poll manager, there was nothing to
\* write, or it found that the connection failed.
Return ==
    /\ cur # None /\ cur' = None
    /\ \/ UNCHANGED <<fdVars, callbacks_, pending_change_, removing, st>>
       \/ /\ how = "w" /\ st[cur] = "open"
          /\ del_callback(cur, {"w"}) /\ UNCHANGED st
       \/ /\ st[cur] = "open"
          /\ del_callback(cur, CB_RDWR) /\ st' = [st EXCEPT ![cur] = "removed"]
    /\ UNCHANGED <<loopVars, target, how, fresh, spurious>>

Next ==
    \/ \E fd \in Fds : Open(fd) \/ WatchWrite(fd) \/ Close(fd) \/ Callback(fd)
    \/ \E t \in Threads : Removed(t) \/ SpuriousWakeup(t) \/ \E fd \in Fds : Remove(t, fd)
    \/ Loop \/ LoopInterrupted \/ Return

Spec == Init /\ [][Next]_vars

\* The poll manager's thread keeps running, and so does a thread that was woken.
\* Nothing is assumed about sockets becoming ready, or about signals.
Fairness ==
    /\ WF_vars(Loop /\ loop # "select") /\ WF_vars(Loop /\ pipefd_ > 0)
    /\ WF_vars(\E fd \in Fds : Callback(fd)) /\ WF_vars(Return)
    /\ \A t \in Threads : WF_vars(Removed(t))

FairSpec == Spec /\ Fairness

--------------------------------------------------------------------------------
(* Properties                                                                   *)

(* "the return guarantees that callbacks related to fd will never be called     *)
(* again" (pollmgr.cc:58): when a connection is off the poll manager, by        *)
(* block_remove_fd or by its own callback, none of its callbacks runs and       *)
(* callbacks_ has no pointer to it, so that it can be deleted.  Nor does the    *)
(* next connection on the same descriptor get a read_cb for what select saw of  *)
(* the earlier one: readpdu asserts that read() does not return EAGAIN.         *)
(* block_remove_fd does not test anything after its wait, so this holds only as *)
(* long as no pthread_cond_wait returned without a signal.                      *)
NoCallbackAfterRemove ==
    ~spurious =>
        /\ \A fd \in Fds :
              st[fd] \in {"removed", "closed"} => cur # fd /\ fd \notin callbacks_
        /\ cur # None /\ how = "r" => cur \notin fresh

(* block_remove_fd returns, although the poll manager's thread may be blocked   *)
(* in select with no descriptor ready when it is called.                        *)
RemoveReturns == \A t \in Threads : removing[t] = "wait" ~> removing[t] = "no"

================================================================================
