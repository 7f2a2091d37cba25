----------------------------- MODULE RpcPartsProofs -----------------------------
(* Proofs for the parts of the RPC library that its protocol rests on: PollMgr  *)
(* and its users, where after a descriptor is removed no callback for it is     *)
(* running and none is made; the list of xids that a client acknowledges; the   *)
(* deadlines of call1.                                                          *)
EXTENDS PollUsers, XidWindow, Deadline, TLAPS

--------------------------------------------------------------------------------
(* PollMgr and its users. *)

(* Why no callback runs after a removal, as long as no wait returned without a  *)
(* signal.  A descriptor that is not open is in neither of SelectAIO's sets, so *)
(* that the next copies do not have it; at the top of the loop, where waiting   *)
(* threads are let go, the current copies are used up.  A callback that removes *)
(* its own descriptor has already taken it out of readable.                     *)
QuietInv ==
    /\ cur # None => loop = "calls" /\ cur \notin readable
    /\ loop \in {"top", "copy"} => readable = {} /\ writable = {}
    /\ \A fd \in Fds : st[fd] # "open" => fd \notin rfds_ /\ fd \notin wfds_
    /\ \A fd \in Fds : st[fd] \in {"removed", "closed"} =>
          fd \notin callbacks_ /\ fd \notin readable /\ cur # fd
    /\ \A t \in Threads : removing[t] # "no" => st[target[t]] = "removing"
    /\ \A t, u \in Threads :
          removing[t] # "no" /\ removing[u] # "no" /\ target[t] = target[u] => t = u
    /\ \A t \in Threads : removing[t] = "woken" =>
          target[t] \notin readable /\ target[t] \notin writable /\ cur # target[t]
    /\ \A fd \in fresh : fd \notin readable
    /\ cur # None /\ how = "r" => cur \notin fresh

PollInv == TypeOK /\ (~spurious => QuietInv)

LEMMA PollInvInit == Init => PollInv
<1> SUFFICES ASSUME Init PROVE PollInv
  OBVIOUS
<1>1. TypeOK
  <2>1. pipefd_ \in 0..PipeCap
    BY PollAssumption DEF Init, PollInit
  <2>2. PollTypeOK
    BY <2>1, Zenon DEF Init, PollInit, PollTypeOK
  <2> QED
    BY <2>2, Zenon DEF Init, TypeOK, CB_RDWR
<1>2. QuietInv
  BY UsersAssumption DEF Init, PollInit, QuietInv
<1> QED
  BY <1>1, <1>2 DEF PollInv

\* What the operations of PollMgr do to the sets of descriptors.
LEMMA UnwatchEffect ==
    ASSUME PollTypeOK, NEW fd \in Fds, NEW flag, unwatch_fd(fd, flag)
    PROVE  /\ rfds_' \subseteq rfds_ /\ wfds_' \subseteq wfds_
           /\ rfds_' \in SUBSET Fds /\ wfds_' \in SUBSET Fds /\ pipefd_' \in 0..PipeCap
           /\ flag = CB_RDWR => fd \notin rfds_' /\ fd \notin wfds_'
<1>1. pipefd_' \in 0..PipeCap
  BY PollAssumption DEF PollTypeOK, unwatch_fd, WritePipe
<1> QED
  BY <1>1 DEF PollTypeOK, unwatch_fd, CB_RDWR

LEMMA AddEffect ==
    ASSUME PollTypeOK, NEW fd \in Fds, NEW flag, add_callback(fd, flag)
    PROVE  /\ rfds_' \subseteq rfds_ \cup {fd} /\ wfds_' \subseteq wfds_ \cup {fd}
           /\ rfds_' \in SUBSET Fds /\ wfds_' \in SUBSET Fds /\ pipefd_' \in 0..PipeCap
           /\ callbacks_' = callbacks_ \cup {fd} /\ UNCHANGED <<pending_change_, removing>>
<1>1. pipefd_' \in 0..PipeCap
  BY PollAssumption DEF PollTypeOK, add_callback, WritePipe
<1> QED
  BY <1>1 DEF PollTypeOK, add_callback

LEMMA PollTypeNext == TypeOK /\ [Next]_vars => TypeOK'
<1> SUFFICES ASSUME TypeOK, [Next]_vars PROVE TypeOK'
  OBVIOUS
<1> USE DEF TypeOK, PollTypeOK
<1>0. PollTypeOK
  OBVIOUS
<1>1. ASSUME NEW fd \in Fds, Open(fd) PROVE TypeOK'
  <2>1. add_callback(fd, {"r"})
    BY <1>1 DEF Open
  <2> QED
    BY <1>1, AddEffect DEF Open, loopVars
<1>2. ASSUME NEW fd \in Fds, WatchWrite(fd) PROVE TypeOK'
  <2>1. add_callback(fd, {"w"})
    BY <1>2 DEF WatchWrite
  <2> QED
    BY <1>2, AddEffect DEF WatchWrite, loopVars, userVars
<1>3. ASSUME NEW t \in Threads, NEW fd \in Fds, Remove(t, fd) PROVE TypeOK'
  <2>1. unwatch_fd(fd, CB_RDWR)
    BY <1>3 DEF Remove, block_remove_fd
  <2> QED
    BY <1>3, UnwatchEffect DEF Remove, block_remove_fd, loopVars
<1>4. ASSUME NEW t \in Threads, Removed(t) PROVE TypeOK'
  BY <1>4 DEF Removed, fd_removed, loopVars, fdVars
<1>5. ASSUME NEW t \in Threads, SpuriousWakeup(t) PROVE TypeOK'
  BY <1>5 DEF SpuriousWakeup, loopVars, fdVars
<1>6. ASSUME NEW fd \in Fds, Close(fd) PROVE TypeOK'
  BY <1>6 DEF Close, pollVars, loopVars, fdVars
<1>7. ASSUME NEW fd \in Fds, Callback(fd) PROVE TypeOK'
  BY <1>7 DEF Callback, TakeReadable, TakeWritable, fdVars, CB_RDWR
<1>8. CASE Loop
  <2>0. fresh' \in SUBSET Fds /\ UNCHANGED <<st, target, cur, how, spurious>>
    BY <1>8 DEF Loop
  <2>1. CASE LoopTop
    <3>1. removing' \in [Threads -> {"no", "wait", "woken"}]
      BY <2>1 DEF LoopTop, Broadcast
    <3> QED
      BY <2>0, <2>1, Zenon DEF LoopTop, Broadcast, fdVars
  <2>2. CASE LoopEnd
    BY <2>0, <2>2 DEF LoopEnd, fdVars
  <2>3. ASSUME NEW R \in SUBSET Fds, NEW W \in SUBSET Fds, Select(R, W) PROVE TypeOK'
    <3>1. pipefd_' \in 0..PipeCap
      BY <2>3, PollAssumption DEF Select
    <3> QED
      BY <2>0, <2>3, <3>1 DEF Select
  <2>4. CASE LoopCopy
    BY <2>0, <2>4 DEF LoopCopy, fdVars
  <2> QED
    BY <1>8, <2>1, <2>2, <2>3, <2>4, Zenon DEF Loop
<1>9. CASE LoopInterrupted
  BY <1>9 DEF LoopInterrupted, Interrupted, userVars, fdVars
<1>10. CASE Return
  <2>0. /\ cur \in Fds /\ cur' = None
        /\ UNCHANGED <<loop, readable, writable, target, how, fresh, spurious>>
    BY <1>10 DEF Return, loopVars
  <2>1. CASE UNCHANGED <<fdVars, callbacks_, pending_change_, removing, st>>
    BY <2>0, <2>1 DEF fdVars
  <2>2. ASSUME NEW flag, del_callback(cur, flag),
               UNCHANGED st \/ st' = [st EXCEPT ![cur] = "removed"]
        PROVE  TypeOK'
    <3>1. unwatch_fd(cur, flag) /\ callbacks_' \subseteq callbacks_
          /\ UNCHANGED <<pending_change_, removing>>
      BY <2>2 DEF del_callback
    <3>2. st' \in [Fds -> {"closed", "open", "removing", "removed"}]
      BY <2>2
    <3> QED
      BY <2>0, <3>1, <3>2, UnwatchEffect
  <2> QED
    BY <1>10, <2>1, <2>2 DEF Return
<1>11. CASE UNCHANGED vars
  BY <1>11 DEF vars, pollVars, fdVars, loopVars, userVars
<1> QED
  BY <1>1, <1>2, <1>3, <1>4, <1>5, <1>6, <1>7, <1>8, <1>9, <1>10, <1>11, Zenon DEF Next

LEMMA PollInvNext == PollInv /\ [Next]_vars => PollInv'
<1> SUFFICES ASSUME PollInv, [Next]_vars, ~spurious' PROVE QuietInv'
  BY PollTypeNext DEF PollInv
<1>0. TypeOK /\ PollTypeOK
  BY DEF PollInv, TypeOK
<1>1. ~spurious
  <2> USE DEF Next, Open, WatchWrite, Close, Callback, Removed, SpuriousWakeup, Remove
  <2> QED
    BY DEF Loop, LoopInterrupted, Return, vars, userVars
<1>2. QuietInv
  BY <1>1 DEF PollInv
<1>3. /\ st \in [Fds -> {"closed", "open", "removing", "removed"}]
      /\ target \in [Threads -> Fds] /\ cur \in Fds \cup {None}
      /\ removing \in [Threads -> {"no", "wait", "woken"}]
      /\ fresh \subseteq Fds /\ None \notin Fds
  BY <1>0, UsersAssumption DEF TypeOK, PollTypeOK
<1>4. ASSUME NEW fd \in Fds, Open(fd) PROVE QuietInv'
  <2>1. add_callback(fd, {"r"})
    BY <1>4 DEF Open
  <2>2. /\ rfds_' \subseteq rfds_ \cup {fd} /\ wfds_' \subseteq wfds_ \cup {fd}
        /\ callbacks_' = callbacks_ \cup {fd} /\ UNCHANGED removing
    BY <1>0, <2>1, AddEffect
  <2>3. /\ st[fd] = "closed" /\ st' = [st EXCEPT ![fd] = "open"] /\ fresh' = fresh \cup {fd}
        /\ UNCHANGED <<loop, readable, writable, target, cur, how>>
    BY <1>4 DEF Open, loopVars
  <2> QED
    BY <1>2, <1>3, <2>2, <2>3 DEF QuietInv
<1>5. ASSUME NEW fd \in Fds, WatchWrite(fd) PROVE QuietInv'
  <2>1. add_callback(fd, {"w"})
    BY <1>5 DEF WatchWrite
  <2>2. /\ rfds_' \subseteq rfds_ \cup {fd} /\ wfds_' \subseteq wfds_ \cup {fd}
        /\ callbacks_' = callbacks_ \cup {fd} /\ UNCHANGED removing
    BY <1>0, <2>1, AddEffect
  <2>3. /\ st[fd] = "open"
        /\ UNCHANGED <<st, fresh, loop, readable, writable, target, cur, how>>
    BY <1>5 DEF WatchWrite, loopVars, userVars
  <2> QED
    BY <1>2, <2>2, <2>3 DEF QuietInv
<1>6. ASSUME NEW t \in Threads, NEW fd \in Fds, Remove(t, fd) PROVE QuietInv'
  <2>1. unwatch_fd(fd, CB_RDWR)
    BY <1>6 DEF Remove, block_remove_fd
  <2>2. /\ rfds_' \subseteq rfds_ /\ wfds_' \subseteq wfds_
        /\ fd \notin rfds_' /\ fd \notin wfds_'
    BY <1>0, <2>1, UnwatchEffect
  <2>3. /\ st[fd] = "open" /\ st' = [st EXCEPT ![fd] = "removing"]
        /\ removing[t] = "no" /\ removing' = [removing EXCEPT ![t] = "wait"]
        /\ target' = [target EXCEPT ![t] = fd]
        /\ UNCHANGED <<callbacks_, fresh, loop, readable, writable, cur, how>>
    BY <1>6 DEF Remove, block_remove_fd, loopVars
  <2>4. \A u \in Threads : u # t => removing'[u] = removing[u] /\ target'[u] = target[u]
    BY <2>3
  <2>5. removing'[t] = "wait" /\ target'[t] = fd /\ st'[fd] = "removing"
    BY <1>3, <2>3
  <2>6. \A u \in Threads : removing'[u] # "no" => st'[target'[u]] = "removing"
    BY <1>2, <1>3, <2>3 DEF QuietInv
  <2>7. \A u, v \in Threads :
           removing'[u] # "no" /\ removing'[v] # "no" /\ target'[u] = target'[v] => u = v
    BY <1>2, <1>3, <2>3 DEF QuietInv
  <2>8. \A u \in Threads : removing'[u] = "woken" =>
           target'[u] \notin readable' /\ target'[u] \notin writable' /\ cur' # target'[u]
    BY <1>2, <2>3 DEF QuietInv
  <2> QED
    BY <1>2, <1>3, <2>2, <2>3 DEF QuietInv
<1>7. ASSUME NEW t \in Threads, Removed(t) PROVE QuietInv'
  <2>1. /\ removing[t] = "woken" /\ removing' = [removing EXCEPT ![t] = "no"]
        /\ callbacks_' = callbacks_ \ {target[t]}
        /\ st' = [st EXCEPT ![target[t]] = "removed"]
        /\ UNCHANGED <<rfds_, wfds_, fresh, loop, readable, writable, target, cur, how>>
    BY <1>7 DEF Removed, fd_removed, loopVars, fdVars
  <2>2. /\ target[t] \in Fds /\ st[target[t]] = "removing"
        /\ target[t] \notin readable /\ cur # target[t]
    BY <1>2, <1>3, <2>1 DEF QuietInv
  <2>3. \A u \in Threads : removing'[u] # "no" => st'[target'[u]] = "removing"
    BY <1>2, <1>3, <2>1 DEF QuietInv
  <2> QED
    BY <1>2, <1>3, <2>1 DEF QuietInv
<1>8. ASSUME NEW t \in Threads, SpuriousWakeup(t) PROVE QuietInv'
  BY <1>8 DEF SpuriousWakeup
<1>9. ASSUME NEW fd \in Fds, Close(fd) PROVE QuietInv'
  <2>1. /\ st[fd] = "removed" /\ st' = [st EXCEPT ![fd] = "closed"]
        /\ UNCHANGED <<rfds_, wfds_, callbacks_, removing, loop, readable, writable>>
        /\ UNCHANGED <<target, cur, how, fresh>>
    BY <1>9 DEF Close, pollVars, loopVars, fdVars
  <2> QED
    BY <1>2, <2>1 DEF QuietInv
<1>10. ASSUME NEW fd \in Fds, Callback(fd) PROVE QuietInv'
  <2>1. /\ cur = None /\ cur' = IF fd \in callbacks_ THEN fd ELSE None
        /\ UNCHANGED <<rfds_, wfds_, callbacks_, removing, st, target, fresh, loop>>
        /\ loop = "calls"
    BY <1>10 DEF Callback, TakeReadable, TakeWritable, fdVars
  <2>2. CASE TakeReadable(fd) /\ how' = "r"
    <3>1. fd \in readable /\ readable' = readable \ {fd} /\ UNCHANGED writable
      BY <2>2 DEF TakeReadable
    <3> QED
      BY <1>2, <2>1, <3>1 DEF QuietInv
  <2>3. CASE TakeWritable(fd) /\ how' = "w"
    <3>1. /\ readable = {} /\ UNCHANGED readable
          /\ fd \in writable /\ writable' = writable \ {fd}
      BY <2>3 DEF TakeWritable
    <3> QED
      BY <1>2, <2>1, <2>3, <3>1 DEF QuietInv
  <2> QED
    BY <1>10, <2>2, <2>3 DEF Callback
<1>11. CASE Loop
  <2>0. /\ cur = None /\ UNCHANGED <<st, target, cur, how>>
        /\ fresh' = IF loop = "copy" THEN {} ELSE fresh
    BY <1>11 DEF Loop
  <2>1. CASE LoopTop
    <3>1. /\ loop = "top" /\ loop' = "copy"
          /\ UNCHANGED <<rfds_, wfds_, callbacks_, readable, writable, fresh>>
      BY <2>0, <2>1 DEF LoopTop, fdVars
    <3>2. \A t \in Threads : removing'[t] # "no" => removing[t] # "no"
      BY <2>1 DEF LoopTop, Broadcast
    <3>3. readable' = {} /\ writable' = {}
      BY <1>2, <3>1 DEF QuietInv
    <3> QED
      BY <1>2, <1>3, <2>0, <3>1, <3>2 DEF QuietInv
  <2>2. CASE LoopEnd
    BY <1>2, <2>0, <2>2 DEF LoopEnd, fdVars, QuietInv
  <2>3. ASSUME NEW R \in SUBSET Fds, NEW W \in SUBSET Fds, Select(R, W) PROVE QuietInv'
    <3>1. /\ loop = "select" /\ readable' \subseteq readable /\ writable' \subseteq writable
          /\ loop' = IF readable' \cup writable' = {} THEN "top" ELSE "calls"
          /\ UNCHANGED <<rfds_, wfds_, callbacks_, removing>>
      BY <2>3 DEF Select
    <3>2. loop' \in {"top", "copy"} => readable' = {} /\ writable' = {}
      BY <3>1
    <3> QED
      BY <1>2, <2>0, <3>1 DEF QuietInv
  <2>4. CASE LoopCopy
    <3>1. /\ loop = "copy" /\ loop' = "select" /\ readable' = rfds_ /\ writable' = wfds_
          /\ UNCHANGED <<rfds_, wfds_, callbacks_, removing>>
      BY <2>4 DEF LoopCopy, fdVars
    <3> QED
      BY <1>2, <1>3, <2>0, <3>1 DEF QuietInv
  <2> QED
    BY <1>11, <2>1, <2>2, <2>3, <2>4 DEF Loop
<1>12. CASE LoopInterrupted
  BY <1>2, <1>12 DEF LoopInterrupted, Interrupted, userVars, fdVars, QuietInv
<1>13. CASE Return
  <2>0. /\ cur \in Fds /\ cur # None /\ cur' = None
        /\ UNCHANGED <<loop, readable, writable, target, how, fresh>>
    BY <1>3, <1>13 DEF Return, loopVars
  <2>1. CASE UNCHANGED <<fdVars, callbacks_, pending_change_, removing, st>>
    BY <1>2, <1>3, <2>0, <2>1 DEF fdVars, QuietInv
  <2>2. CASE del_callback(cur, {"w"}) /\ UNCHANGED st
    <3>1. unwatch_fd(cur, {"w"}) /\ callbacks_' \subseteq callbacks_ /\ UNCHANGED removing
      BY <2>2 DEF del_callback
    <3>2. rfds_' \subseteq rfds_ /\ wfds_' \subseteq wfds_
      BY <1>0, <2>0, <3>1, UnwatchEffect
    <3> QED
      BY <1>2, <1>3, <2>0, <2>2, <3>1, <3>2 DEF QuietInv
  <2>3. CASE /\ st[cur] = "open" /\ del_callback(cur, CB_RDWR)
             /\ st' = [st EXCEPT ![cur] = "removed"]
    <3>1. /\ unwatch_fd(cur, CB_RDWR) /\ UNCHANGED removing
          /\ callbacks_' = IF cur \in rfds_' \cup wfds_' THEN callbacks_ ELSE callbacks_ \ {cur}
      BY <2>3 DEF del_callback
    <3>2. /\ rfds_' \subseteq rfds_ /\ wfds_' \subseteq wfds_
          /\ cur \notin rfds_' /\ cur \notin wfds_'
      BY <1>0, <2>0, <3>1, UnwatchEffect
    <3>3. callbacks_' = callbacks_ \ {cur}
      BY <3>1, <3>2
    <3> QED
      BY <1>2, <1>3, <2>0, <2>3, <3>1, <3>2 DEF QuietInv
  <2> QED
    BY <1>13, <2>1, <2>2, <2>3 DEF Return
<1>14. CASE UNCHANGED vars
  BY <1>2, <1>14 DEF vars, pollVars, fdVars, loopVars, userVars, QuietInv
<1> QED
  BY <1>4, <1>5, <1>6, <1>7, <1>8, <1>9, <1>10, <1>11, <1>12, <1>13, <1>14 DEF Next

(* For any number of descriptors and of threads that call block_remove_fd: once *)
(* block_remove_fd has returned for a descriptor, or a callback has removed its *)
(* own, no callback of that connection runs or is made, and no read_cb of the   *)
(* next connection on the same number is made for what select saw before it was *)
(* opened; provided no pthread_cond_wait returned without a signal.             *)
THEOREM NoCallbackAfterRemoveHolds == Spec => []NoCallbackAfterRemove
<1>1. PollInv => NoCallbackAfterRemove
  BY DEF PollInv, QuietInv, NoCallbackAfterRemove
<1> QED
  BY <1>1, PollInvInit, PollInvNext, PTL DEF Spec

--------------------------------------------------------------------------------
(* The list of acknowledged xids. *)

\* The xids on the list.
Held == {window[i] : i \in 1..Len(window)}

WindowTypes ==
    /\ window \in Seq(Nat) /\ Len(window) >= 1
    /\ it \in Nat /\ it <= Len(window) + 1
    /\ set \in SUBSET Nat /\ seen \in SUBSET Nat

(* Why the loops compute the set, at every step of them.  Compressed, the list  *)
(* is the set already before the loop has compressed it: a pop takes nothing    *)
(* away that Compress keeps.  What the iterator has passed is not the successor *)
(* of the front, so that at the end of the loop nothing is left to pop.  All    *)
(* xids up to the front were reported, and of the others exactly those on the   *)
(* list.                                                                        *)
WindowInv ==
    /\ WindowTypes
    /\ \A i, j \in 1..Len(window) : i <= j => window[i] <= window[j]
    /\ Compress(Held) = set
    /\ it = 0 => window[1] + 1 \notin Held
    /\ \A i \in 1..Len(window) : i < it => window[i] # window[1] + 1
    /\ 0..window[1] \subseteq seen
    /\ Held \subseteq seen /\ \A x \in seen : x >= window[1] => x \in Held

\* A least element is the front.
LEMMA FrontIs ==
    ASSUME NEW W \in SUBSET Nat, NEW m \in W, \A w \in W : m <= w
    PROVE  Front(W) = m
<1>1. Front(W) \in W /\ \A w \in W : Front(W) <= w
  BY Zenon DEF Front
<1>2. Front(W) <= m /\ m <= Front(W) /\ Front(W) \in Nat /\ m \in Nat
  BY <1>1, Zenon
<1> QED
  BY <1>2

LEMMA CompressIs ==
    ASSUME NEW W \in SUBSET Nat, NEW m \in W, \A w \in W : m <= w
    PROVE  Compress(W) = {n \in W : ~ (m..(n + 1) \subseteq W)}
BY FrontIs DEF Compress

\* Nothing is dropped where the successor of the front is missing.
LEMMA CompressGap ==
    ASSUME NEW W \in SUBSET Nat, NEW m \in W, \A w \in W : m <= w, m + 1 \notin W
    PROVE  Compress(W) = W
<1>1. \A n \in W : m + 1 \in m..(n + 1)
  OBVIOUS
<1>2. Compress(W) = {n \in W : ~ (m..(n + 1) \subseteq W)}
  BY CompressIs
<1> QED
  BY <1>1, <1>2, Zenon

\* To pop the front where its successor is there changes nothing.
LEMMA CompressPop ==
    ASSUME NEW W \in SUBSET Nat, NEW m \in W, \A w \in W : m <= w, m + 1 \in W
    PROVE  Compress(W \ {m}) = Compress(W)
<1>1. Compress(W) = {n \in W : ~ (m..(n + 1) \subseteq W)}
  BY CompressIs
<1>2. Compress(W \ {m}) = {n \in W \ {m} : ~ ((m + 1)..(n + 1) \subseteq W \ {m})}
  <2>1. \A w \in W \ {m} : m + 1 <= w
    OBVIOUS
  <2> QED
    BY <2>1, CompressIs
<1>3. m..(m + 1) \subseteq W
  OBVIOUS
<1>4. ASSUME NEW n \in W \ {m}
      PROVE  m..(n + 1) \subseteq W <=> (m + 1)..(n + 1) \subseteq W \ {m}
  OBVIOUS
<1> QED
  BY <1>1, <1>2, <1>3, <1>4

LEMMA WindowInvInit == WindowInit => WindowInv
<1> SUFFICES ASSUME WindowInit PROVE WindowInv
  OBVIOUS
<1>1. window \in Seq(Nat) /\ Len(window) = 1 /\ window[1] = 0
  BY DEF WindowInit
<1>2. Held = {0}
  BY <1>1 DEF Held
<1>3. Compress({0}) = {0}
  BY CompressGap
<1> QED
  BY <1>1, <1>2, <1>3 DEF WindowInit, WindowInv, WindowTypes

\* What the first for loop leaves: the xid is in the list, in its place.
LEMMA InsertEffect ==
    ASSUME WindowInv, NEW x \in Nat, InsertSorted(x)
    PROVE  /\ window' \in Seq(Nat) /\ Len(window') = Len(window) + 1
           /\ window'[1] = window[1]
           /\ Held' = Held \cup {x}
           /\ \A i, j \in 1..Len(window') : i <= j => window'[i] <= window'[j]
<1>1. PICK n \in 1..Len(window) :
          /\ \A i \in 1..n : window[i] <= x
          /\ n < Len(window) => window[n + 1] > x
          /\ window' = [i \in 1..(Len(window) + 1) |->
                          IF i <= n THEN window[i] ELSE IF i = n + 1 THEN x ELSE window[i - 1]]
  BY DEF InsertSorted
<1>2. window \in Seq(Nat)
  BY DEF WindowInv, WindowTypes
<1>3. Len(window) \in Nat /\ n \in Nat
  BY <1>2
<1>4. /\ window' \in Seq(Nat) /\ Len(window') = Len(window) + 1
      /\ \A i \in 1..(Len(window) + 1) : window'[i] =
            IF i <= n THEN window[i] ELSE IF i = n + 1 THEN x ELSE window[i - 1]
  BY <1>1, <1>2, <1>3
<1> DEFINE Old(i, k) == /\ k \in 1..Len(window) /\ window'[i] = window[k]
                        /\ (k <= n /\ i = k) \/ (k > n /\ i = k + 1)
<1>5. ASSUME NEW i \in 1..Len(window')
      PROVE  (i = n + 1 /\ window'[i] = x) \/ \E k \in 1..Len(window) : Old(i, k)
  <2>1. CASE i <= n
    <3>1. Old(i, i)
      BY <1>3, <1>4, <2>1
    <3>2. i \in 1..Len(window)
      BY <1>3, <2>1
    <3> QED
      BY <3>1, <3>2, Zenon
  <2>2. CASE i > n + 1
    <3>1. i - 1 \in 1..Len(window)
      BY <1>3, <1>4, <2>2
    <3>2. Old(i, i - 1)
      BY <1>3, <1>4, <2>2, <3>1
    <3> QED
      BY <3>1, <3>2, Zenon
  <2> QED
    BY <1>3, <1>4, <2>1, <2>2
<1>6. Held' = Held \cup {x}
  <2>1. ASSUME NEW e \in Held' PROVE e \in Held \cup {x}
    <3>1. PICK i \in 1..Len(window') : e = window'[i]
      BY DEF Held
    <3> QED
      BY <1>5, <3>1, Zenon DEF Held
  <2>2. x \in Held'
    <3>1. n + 1 \in 1..Len(window')
      BY <1>3, <1>4
    <3>2. x = window'[n + 1]
      BY <1>3, <1>4, <3>1
    <3> QED
      BY <3>1, <3>2, Zenon DEF Held
  <2>3. ASSUME NEW e \in Held PROVE e \in Held'
    <3>1. PICK i \in 1..Len(window) : e = window[i]
      BY DEF Held
    <3>2. CASE i <= n
      <4>1. i \in 1..Len(window') /\ i \in 1..n
        BY <1>3, <1>4, <3>2
      <4> QED
        BY <1>3, <1>4, <3>1, <4>1 DEF Held
    <3>3. CASE i > n
      <4>1. i + 1 \in 1..Len(window')
        BY <1>3, <1>4, <3>3
      <4>2. window'[i + 1] = window[i]
        BY <1>3, <1>4, <3>3
      <4> QED
        BY <3>1, <4>1, <4>2 DEF Held
    <3> QED
      BY <1>3, <3>2, <3>3
  <2> QED
    BY <2>1, <2>2, <2>3, Zenon
<1>7. \A i, j \in 1..Len(window) : i <= j => window[i] <= window[j]
  BY DEF WindowInv
<1>8. \A i \in (n + 1)..Len(window) : x < window[i]
  <2> SUFFICES ASSUME NEW i \in (n + 1)..Len(window) PROVE x < window[i]
    OBVIOUS
  <2>1. n + 1 \in 1..Len(window) /\ i \in 1..Len(window) /\ n + 1 <= i /\ n < Len(window)
    BY <1>3
  <2>2. window[n + 1] \in Nat /\ window[i] \in Nat
    BY <1>2, <2>1
  <2>3. x < window[n + 1]
    BY <1>1, <2>1, <2>2
  <2>4. window[n + 1] <= window[i]
    BY <1>7, <2>1
  <2> QED
    BY <2>2, <2>3, <2>4
<1>9. ASSUME NEW i \in 1..Len(window'), NEW j \in 1..Len(window'), i <= j
      PROVE  window'[i] <= window'[j]
  <2>1. \A k \in 1..Len(window) : window[k] \in Nat
    BY <1>2
  <2>2. ASSUME NEW k \in 1..Len(window), Old(i, k), NEW l \in 1..Len(window), Old(j, l)
        PROVE  window'[i] <= window'[j]
    <3>1. k <= l
      BY <1>3, <1>9, <2>2
    <3> QED
      BY <1>7, <2>2, <3>1
  <2>3. ASSUME NEW k \in 1..Len(window), Old(i, k), j = n + 1
        PROVE  window[k] <= x
    <3>1. k \in 1..n
      BY <1>3, <1>9, <2>3
    <3> QED
      BY <1>1, <3>1
  <2>4. ASSUME i = n + 1, NEW l \in 1..Len(window), Old(j, l)
        PROVE  x <= window[l]
    <3>1. l \in (n + 1)..Len(window)
      BY <1>3, <1>9, <2>4
    <3> QED
      BY <1>8, <2>1, <3>1
  <2> HIDE DEF Old
  <2>5. CASE i = n + 1 /\ window'[i] = x
    <3>1. CASE j = n + 1 /\ window'[j] = x
      BY <2>5, <3>1
    <3>2. ASSUME NEW l \in 1..Len(window), Old(j, l) PROVE window'[i] <= window'[j]
      BY <2>4, <2>5, <3>2 DEF Old
    <3> QED
      BY <1>5, <3>1, <3>2, Zenon
  <2>6. ASSUME NEW k \in 1..Len(window), Old(i, k) PROVE window'[i] <= window'[j]
    <3>1. CASE j = n + 1 /\ window'[j] = x
      BY <2>3, <2>6, <3>1 DEF Old
    <3> QED
      BY <1>5, <2>2, <2>6, <3>1, Zenon
  <2> QED
    BY <1>5, <2>5, <2>6, Zenon
<1>10. window'[1] = window[1]
  BY <1>3, <1>4
<1> QED
  BY <1>4, <1>6, <1>9, <1>10

\* What the loop at compress leaves when it pops the front.
LEMMA PopEffect ==
    ASSUME WindowInv, it > 0, it <= Len(window), window[1] + 1 = window[it],
           window' = Tail(window)
    PROVE  /\ window' \in Seq(Nat) /\ Len(window') = Len(window) - 1 /\ Len(window') >= 1
           /\ \A i \in 1..(Len(window) - 1) : window'[i] = window[i + 1]
           /\ \/ window'[1] = window[1] /\ Held' = Held
              \/ window'[1] = window[1] + 1 /\ Held' = Held \ {window[1]} /\ it = 2
<1>1. window \in Seq(Nat) /\ Len(window) \in Nat /\ Len(window) >= 1 /\ it \in Nat
  BY DEF WindowInv, WindowTypes
<1>2. \A i \in 1..Len(window) : window[i] \in Nat
  BY <1>1
<1>3. it >= 2
  BY <1>1, <1>2
<1>4. /\ window' \in Seq(Nat) /\ Len(window') = Len(window) - 1 /\ Len(window') >= 1
      /\ \A i \in 1..(Len(window) - 1) : window'[i] = window[i + 1]
  BY <1>1, <1>3
<1>5. \A i, j \in 1..Len(window) : i <= j => window[i] <= window[j]
  BY DEF WindowInv
<1>6. window'[1] = window[2]
  BY <1>1, <1>3, <1>4
<1>7. window[1] <= window[2] /\ window[2] <= window[1] + 1
  <2>1. 1 \in 1..Len(window) /\ 2 \in 1..Len(window) /\ it \in 1..Len(window)
    BY <1>1, <1>3
  <2> QED
    BY <1>3, <1>5, <2>1
<1>8. Held' = {window[i] : i \in 2..Len(window)}
  <2>1. ASSUME NEW e \in Held' PROVE e \in {window[i] : i \in 2..Len(window)}
    <3>1. PICK i \in 1..Len(window') : e = window'[i]
      BY DEF Held
    <3>2. i + 1 \in 2..Len(window) /\ e = window[i + 1]
      BY <1>1, <1>4, <3>1
    <3> QED
      BY <3>2
  <2>2. ASSUME NEW i \in 2..Len(window) PROVE window[i] \in Held'
    <3>1. i - 1 \in 1..Len(window') /\ window'[i - 1] = window[i]
      BY <1>1, <1>4
    <3> QED
      BY <3>1 DEF Held
  <2> QED
    BY <2>1, <2>2
<1>9. Held = {window[1]} \cup {window[i] : i \in 2..Len(window)}
  BY <1>1 DEF Held
<1>10. CASE window[2] = window[1]
  <2>1. window[2] \in {window[i] : i \in 2..Len(window)}
    BY <1>1, <1>3
  <2> QED
    BY <1>4, <1>6, <1>8, <1>9, <1>10, <2>1
<1>11. CASE window[2] = window[1] + 1
  <2>1. it = 2
    <3>1. \A i \in 1..Len(window) : i < it => window[i] # window[1] + 1
      BY DEF WindowInv
    <3> QED
      BY <1>1, <1>3, <1>11, <3>1
  <2>2. \A i \in 2..Len(window) : window[i] # window[1]
    <3> SUFFICES ASSUME NEW i \in 2..Len(window) PROVE window[i] # window[1]
      OBVIOUS
    <3>1. window[2] <= window[i]
      <4>1. 2 \in 1..Len(window) /\ i \in 1..Len(window) /\ 2 <= i
        BY <1>1
      <4> QED
        BY <1>5, <4>1
    <3> QED
      BY <1>1, <1>2, <1>11, <3>1
  <2> QED
    BY <1>4, <1>6, <1>8, <1>9, <1>11, <2>1, <2>2
<1> QED
  <2>1. window[1] \in Nat /\ window[2] \in Nat
    BY <1>1, <1>2, <1>3
  <2> QED
    BY <1>7, <1>10, <1>11, <2>1

\* The front of the list is the least element.
LEMMA HeldFacts ==
    ASSUME WindowInv
    PROVE  /\ Held \in SUBSET Nat /\ window[1] \in Held /\ window[1] \in Nat
           /\ \A y \in Held : window[1] <= y
           /\ \A i \in 1..Len(window) : window[i] \in Held
<1>1. window \in Seq(Nat) /\ Len(window) \in Nat /\ Len(window) >= 1 /\ 1 \in 1..Len(window)
  BY DEF WindowInv, WindowTypes
<1>2. \A i, j \in 1..Len(window) : i <= j => window[i] <= window[j]
  BY DEF WindowInv
<1>3. \A i \in 1..Len(window) : window[i] \in Nat /\ window[1] <= window[i]
  BY <1>1, <1>2
<1> QED
  BY <1>1, <1>3 DEF Held

\* update_xid_rep up to the label compress.
LEMMA WindowInvUpdate ==
    ASSUME WindowInv, NEW x \in Nat, Update(x)
    PROVE  WindowInv'
<1>1. /\ window \in Seq(Nat) /\ Len(window) \in Nat /\ Len(window) >= 1 /\ it = 0
      /\ set \in SUBSET Nat /\ seen \in SUBSET Nat
  BY DEF WindowInv, WindowTypes, Update
<1>2. /\ \A i, j \in 1..Len(window) : i <= j => window[i] <= window[j]
      /\ Compress(Held) = set /\ window[1] + 1 \notin Held
      /\ 0..window[1] \subseteq seen
      /\ Held \subseteq seen /\ \A y \in seen : y >= window[1] => y \in Held
  BY <1>1 DEF WindowInv
<1>3. /\ Held \in SUBSET Nat /\ window[1] \in Held /\ window[1] \in Nat
      /\ \A y \in Held : window[1] <= y
  BY HeldFacts, Zenon
<1>4. Held = set
  BY <1>2, <1>3, CompressGap
<1>5. Front(set) = window[1] /\ Head(window) = window[1]
  BY <1>1, <1>3, <1>4, FrontIs
<1>6. seen' = seen \cup {x}
  BY DEF Update
<1>7. CASE UpdateOld(x)
  <2>1. x <= window[1] /\ window' = window /\ it' = it /\ Held' = Held
    BY <1>5, <1>7 DEF UpdateOld, Held
  <2>2. set' = set /\ seen' = seen
    <3>1. x \in 0..window[1]
      BY <1>3, <2>1
    <3> QED
      BY <1>2, <1>5, <1>6, <2>1, <3>1 DEF Update, update_xid_rep
  <2> QED
    BY <2>1, <2>2 DEF WindowInv, WindowTypes
<1>8. CASE InsertSorted(x)
  <2>1. /\ window' \in Seq(Nat) /\ Len(window') = Len(window) + 1
        /\ window'[1] = window[1] /\ Held' = Held \cup {x}
        /\ \A i, j \in 1..Len(window') : i <= j => window'[i] <= window'[j]
    BY <1>8, InsertEffect
  <2>2. x > window[1] /\ it' = 2
    BY <1>5, <1>8 DEF InsertSorted
  <2>3. set' = Compress(Held')
    BY <1>1, <1>3, <1>4, <1>5, <2>1, <2>2 DEF Update, update_xid_rep
  <2>4. Compress(Held') \in SUBSET Nat
    BY <1>3, <2>1, Zenon DEF Compress
  <2>5. WindowTypes'
    <3>1. it' \in Nat /\ it' <= Len(window') + 1 /\ Len(window') >= 1
      BY <1>1, <2>1, <2>2
    <3>2. set' \in SUBSET Nat /\ seen' \in SUBSET Nat
      BY <1>1, <1>6, <2>3, <2>4
    <3> QED
      BY <2>1, <3>1, <3>2 DEF WindowTypes
  <2>6. \A i \in 1..Len(window') : i < it' => window'[i] # window'[1] + 1
    <3>1. window'[1] \in Nat
      BY <1>3, <2>1
    <3> QED
      BY <2>1, <2>2, <3>1
  <2>7. 0..window'[1] \subseteq seen' /\ Held' \subseteq seen'
    BY <1>2, <1>6, <2>1
  <2>8. \A y \in seen' : y >= window'[1] => y \in Held'
    BY <1>2, <1>6, <2>1
  <2>9. it' # 0
    BY <2>2
  <2> QED
    BY <2>1, <2>3, <2>5, <2>6, <2>7, <2>8, <2>9 DEF WindowInv
<1> QED
  BY <1>7, <1>8 DEF Update

\* One test of the loop at compress.
LEMMA WindowInvCompress ==
    ASSUME WindowInv, compress
    PROVE  WindowInv'
<1>1. /\ window \in Seq(Nat) /\ Len(window) \in Nat /\ Len(window) >= 1
      /\ it \in Nat /\ it > 0 /\ it <= Len(window) + 1
      /\ set' = set /\ seen' = seen /\ set \in SUBSET Nat /\ seen \in SUBSET Nat
  BY DEF WindowInv, WindowTypes, compress
<1>2. /\ \A i, j \in 1..Len(window) : i <= j => window[i] <= window[j]
      /\ Compress(Held) = set
      /\ \A i \in 1..Len(window) : i < it => window[i] # window[1] + 1
      /\ 0..window[1] \subseteq seen
      /\ Held \subseteq seen /\ \A y \in seen : y >= window[1] => y \in Held
  BY <1>1 DEF WindowInv
<1>3. CASE it > Len(window)
  <2>1. it' = 0 /\ window' = window /\ Held' = Held
    BY <1>3 DEF compress, Held
  <2>2. window[1] + 1 \notin Held
    BY <1>1, <1>2, <1>3 DEF Held
  <2> QED
    BY <1>1, <1>2, <2>1, <2>2 DEF WindowInv, WindowTypes
<1>4. CASE it <= Len(window) /\ window[1] + 1 # window[it]
  <2>1. it' = it + 1 /\ window' = window /\ Held' = Held
    BY <1>1, <1>4 DEF compress, Held
  <2>2. \A i \in 1..Len(window) : i < it + 1 => window[i] # window[1] + 1
    BY <1>1, <1>2, <1>4
  <2> QED
    BY <1>1, <1>2, <1>4, <2>1, <2>2 DEF WindowInv, WindowTypes
<1>5. CASE it <= Len(window) /\ window[1] + 1 = window[it]
  <2>1. it' = it - 1 /\ window' = Tail(window)
    BY <1>1, <1>5 DEF compress
  <2>2. /\ window' \in Seq(Nat) /\ Len(window') = Len(window) - 1 /\ Len(window') >= 1
        /\ \A i \in 1..(Len(window) - 1) : window'[i] = window[i + 1]
        /\ \/ window'[1] = window[1] /\ Held' = Held
           \/ window'[1] = window[1] + 1 /\ Held' = Held \ {window[1]} /\ it = 2
    BY <1>1, <1>5, <2>1, PopEffect
  <2>3. /\ Held \in SUBSET Nat /\ window[1] \in Held /\ window[1] \in Nat
        /\ \A y \in Held : window[1] <= y
        /\ window[1] + 1 \in Held
    <3>1. it \in 1..Len(window)
      BY <1>1, <1>5
    <3> QED
      BY <1>5, <3>1, HeldFacts, Zenon
  <2>4. Compress(Held') = set
    BY <1>2, <2>2, <2>3, CompressPop, Zenon
  <2>5. WindowTypes'
    BY <1>1, <1>5, <2>1, <2>2 DEF WindowTypes
  <2>6. ASSUME NEW i \in 1..Len(window'), NEW j \in 1..Len(window'), i <= j
        PROVE  window'[i] <= window'[j]
    <3>1. i + 1 \in 1..Len(window) /\ j + 1 \in 1..Len(window) /\ i + 1 <= j + 1
      BY <1>1, <2>2, <2>6
    <3>2. window'[i] = window[i + 1] /\ window'[j] = window[j + 1]
      BY <1>1, <2>2, Zenon
    <3> QED
      BY <1>2, <3>1, <3>2
  <2>7. ASSUME NEW i \in 1..Len(window'), i < it' PROVE window'[i] # window'[1] + 1
    <3>1. /\ i + 1 \in 1..Len(window) /\ i + 1 < it /\ it # 2
          /\ window'[i] = window[i + 1]
      BY <1>1, <2>1, <2>2, <2>7
    <3> QED
      BY <1>2, <2>2, <3>1
  <2>8. it' # 0
    <3>1. it # 1
      BY <1>5, <2>3
    <3> QED
      BY <1>1, <2>1, <3>1
  <2>9. 0..window'[1] \subseteq seen
    <3>1. 0..(window[1] + 1) \subseteq 0..window[1] \cup {window[1] + 1}
      BY <2>3
    <3> QED
      BY <1>2, <2>2, <2>3, <3>1
  <2>10. Held' \subseteq seen
    BY <1>2, <2>2
  <2>11. ASSUME NEW y \in seen, y >= window'[1] PROVE y \in Held'
    <3>1. y \in Nat
      BY <1>1
    <3>2. y >= window[1]
      BY <2>2, <2>3, <2>11, <3>1
    <3>3. y \in Held
      BY <1>2, <3>2
    <3> QED
      BY <2>2, <2>3, <2>11, <3>1, <3>3
  <2> QED
    BY <1>1, <2>4, <2>5, <2>6, <2>7, <2>8, <2>9, <2>10, <2>11 DEF WindowInv
<1> QED
  BY <1>1, <1>3, <1>4, <1>5

(* For any number of xids and any length of the list: when update_xid_rep       *)
(* returns, the list is in order, holds exactly the elements of the set that    *)
(* Rpc keeps in its place, and its front is the greatest xid up to which every  *)
(* xid has been reported, whatever the order and the repetition of the calls.   *)
THEOREM ListIsSetHolds == WindowSpec => []ListIsSet
<1>1. WindowInv /\ [WindowNext]_windowVars => WindowInv'
  <2> SUFFICES ASSUME WindowInv, [WindowNext]_windowVars PROVE WindowInv'
    OBVIOUS
  <2>1. ASSUME NEW x \in 0..MaxXid, Update(x) PROVE WindowInv'
    <3>1. x \in Nat
      BY WindowAssumption
    <3> QED
      BY <2>1, <3>1, WindowInvUpdate
  <2>2. CASE UNCHANGED windowVars
    BY <2>2 DEF windowVars, WindowInv, WindowTypes, Held
  <2> QED
    BY <2>1, <2>2, WindowInvCompress DEF WindowNext
<1>2. WindowInv => ListIsSet
  <2> SUFFICES ASSUME WindowInv, it = 0 PROVE ListIsSet
    BY DEF ListIsSet
  <2>1. /\ window \in Seq(Nat) /\ Len(window) \in Nat /\ Len(window) >= 1
        /\ Head(window) = window[1] /\ DOMAIN window = 1..Len(window)
    BY DEF WindowInv, WindowTypes
  <2>2. /\ \A i, j \in 1..Len(window) : i <= j => window[i] <= window[j]
        /\ Compress(Held) = set /\ window[1] + 1 \notin Held
        /\ 0..window[1] \subseteq seen
        /\ Held \subseteq seen /\ \A y \in seen : y >= window[1] => y \in Held
    BY DEF WindowInv
  <2>3. /\ Held \in SUBSET Nat /\ window[1] \in Held /\ window[1] \in Nat
        /\ \A y \in Held : window[1] <= y
    BY HeldFacts, Zenon
  <2>4. {window[i] : i \in DOMAIN window} = set
    BY <2>1, <2>2, <2>3, CompressGap, Zenon DEF Held
  <2>5. \A i \in 1..(Len(window) - 1) : window[i] <= window[i + 1]
    <3> SUFFICES ASSUME NEW i \in 1..(Len(window) - 1) PROVE window[i] <= window[i + 1]
      OBVIOUS
    <3>1. i \in 1..Len(window) /\ i + 1 \in 1..Len(window) /\ i <= i + 1
      BY <2>1
    <3> QED
      BY <2>2, <3>1
  <2>6. window[1] + 1 \notin seen
    BY <2>2, <2>3
  <2> QED
    BY <2>1, <2>2, <2>4, <2>5, <2>6 DEF ListIsSet
<1> QED
  BY <1>1, <1>2, WindowInvInit, PTL DEF WindowSpec

--------------------------------------------------------------------------------
(* The deadlines of call1. *)

LEMMA NatTimes ==
    ASSUME NEW x \in Nat, NEW y \in Nat
    PROVE  x * y \in Nat
OBVIOUS

\* Division with remainder.
LEMMA DivMod ==
    ASSUME NEW b \in Nat, NEW m \in Nat, m > 0
    PROVE  b = m * (b \div m) + (b % m) /\ b % m \in 0..(m - 1) /\ b \div m \in Nat
<1>1. b \div m \in Int /\ b % m \in Int
  OBVIOUS
<1>2. b % m >= 0
  OBVIOUS
<1>3. b % m < m
  OBVIOUS
<1>4. b = m * (b \div m) + (b % m)
  OBVIOUS
<1>5. b \div m >= 0
  OBVIOUS
<1> QED
  BY <1>1, <1>2, <1>3, <1>4, <1>5

\* The units of time, and the largest int.
LEMMA SecondIs ==
    /\ Second \in Nat /\ Second > 0 /\ MsPerSec \in Nat /\ NsPerMs \in Nat
    /\ MsPerSec > 0 /\ NsPerMs > 0 /\ IntMax \in Nat /\ Slack \in Nat
<1>1. /\ MsPerSec \in Nat /\ NsPerMs \in Nat /\ MsPerSec > 0 /\ NsPerMs > 0
      /\ IntMax \in Nat /\ Slack \in Nat
  BY DeadlineAssumption
<1>2. ASSUME NEW m \in Nat, NEW n \in Nat, m > 0, n > 0 PROVE m * n \in Nat /\ m * n > 0
  BY <1>2
<1> QED
  BY <1>1, <1>2 DEF Second

\* The values of a struct timespec here: the clock starts after the epoch.
Times == [tv_sec : Nat, tv_nsec : Nat]

\* add_timespec adds the milliseconds, carries at most one second, and leaves
\* tv_nsec alone when they are whole seconds.
LEMMA AddTime ==
    ASSUME NEW c \in Times, c.tv_nsec < Second, NEW b \in Nat
    PROVE  /\ add_timespec(c, b) \in Times
           /\ add_timespec(c, b).tv_sec >= c.tv_sec
           /\ add_timespec(c, b).tv_nsec <= Second
           /\ Ns(add_timespec(c, b)) = Ns(c) + b * NsPerMs
           /\ b % MsPerSec = 0 => add_timespec(c, b).tv_nsec = c.tv_nsec
<1> DEFINE q == b \div MsPerSec
           r == b % MsPerSec
           rn == r * NsPerMs
           sec == c.tv_sec + q
           nsec == c.tv_nsec + rn
           carry == CHOOSE k \in 0..2 : /\ nsec - k * Second <= Second
                                        /\ k > 0 => nsec - (k - 1) * Second > Second
<1>1. /\ c.tv_sec \in Nat /\ c.tv_nsec \in Nat /\ Second \in Nat
      /\ c = [tv_sec |-> c.tv_sec, tv_nsec |-> c.tv_nsec]
  BY SecondIs DEF Times
<1>2. q \in Nat /\ r \in 0..(MsPerSec - 1) /\ b = MsPerSec * q + r
  BY SecondIs, DivMod
<1>3. rn \in Nat /\ rn <= Second - NsPerMs /\ b * NsPerMs = q * Second + rn
  <2>1. ASSUME NEW m \in Nat, NEW n \in Nat, NEW x \in Nat, NEW y \in Nat, y < m
        PROVE  /\ y * n \in Nat
               /\ y * n <= (m * n) - n
               /\ (m * x + y) * n = x * (m * n) + y * n
    <3>1. y * n <= (m - 1) * n
      BY <2>1
    <3> QED
      BY <3>1
  <2> HIDE DEF q, r
  <2> QED
    BY <1>2, <2>1, SecondIs DEF Second
<1>4. add_timespec(c, b) = [tv_sec |-> sec + carry, tv_nsec |-> nsec - carry * Second]
  BY DEF add_timespec
<1> HIDE DEF q, rn
<1>5. nsec \in Nat /\ nsec < 2 * Second /\ sec \in Nat /\ sec >= c.tv_sec
  BY <1>1, <1>2, <1>3, SecondIs
<1> HIDE DEF sec, nsec
<1>6. /\ carry \in 0..2 /\ nsec - carry * Second <= Second
      /\ carry > 0 => nsec - (carry - 1) * Second > Second
  <2>1. \E k \in 0..2 : /\ nsec - k * Second <= Second
                        /\ k > 0 => nsec - (k - 1) * Second > Second
    <3>1. CASE nsec <= Second
      <4>1. nsec - 0 * Second <= Second /\ ~ (0 > 0)
        BY <1>1, <1>5, <3>1
      <4> QED
        BY <4>1
    <3>2. CASE nsec > Second
      <4>1. nsec - 1 * Second <= Second /\ nsec - (1 - 1) * Second > Second
        BY <1>1, <1>5, <3>2
      <4> QED
        BY <4>1
    <3> QED
      BY <1>1, <1>5, <3>1, <3>2
  <2> QED
    BY <2>1, Zenon
<1> HIDE DEF carry
<1>7. (carry = 0 /\ nsec <= Second) \/ (carry = 1 /\ nsec > Second)
  BY <1>1, <1>5, <1>6
<1>8. CASE carry = 0 /\ nsec <= Second
  <2>1. add_timespec(c, b) = [tv_sec |-> sec, tv_nsec |-> nsec]
    BY <1>1, <1>4, <1>5, <1>8
  <2>2. sec * Second + nsec = (c.tv_sec * Second + c.tv_nsec) + b * NsPerMs
    BY <1>1, <1>2, <1>3 DEF sec, nsec
  <2>3. r = 0 => nsec = c.tv_nsec
    BY <1>1, SecondIs DEF nsec, rn
  <2> QED
    BY <1>5, <1>8, <2>1, <2>2, <2>3 DEF Times, Ns
<1>9. CASE carry = 1 /\ nsec > Second
  <2>1. add_timespec(c, b) = [tv_sec |-> sec + 1, tv_nsec |-> nsec - Second]
    BY <1>1, <1>4, <1>5, <1>9
  <2>2. (sec + 1) * Second + (nsec - Second) = (c.tv_sec * Second + c.tv_nsec) + b * NsPerMs
    BY <1>1, <1>2, <1>3 DEF sec, nsec
  <2>3. r # 0
    BY <1>1, <1>9, SecondIs DEF nsec, rn
  <2>4. sec + 1 \in Nat /\ nsec - Second \in Nat /\ nsec - Second <= Second
    BY <1>1, <1>5, <1>9
  <2> QED
    BY <1>1, <1>5, <2>1, <2>2, <2>3, <2>4 DEF Times, Ns
<1> QED
  BY <1>7, <1>8, <1>9

\* The sign of cmp_timespec is that of the difference, where tv_nsec is at most a second.
LEMMA CmpTime ==
    ASSUME NEW a \in Times, NEW b \in Times, a.tv_nsec <= Second, b.tv_nsec <= Second
    PROVE  /\ cmp_timespec(a, b) > 0 => Ns(a) >= Ns(b)
           /\ ~ (cmp_timespec(a, b) > 0) => Ns(a) <= Ns(b)
           /\ cmp_timespec(a, b) >= 0 => Ns(a) >= Ns(b)
<1>1. ASSUME NEW x \in Nat, NEW y \in Nat, NEW z \in Nat, x < y
      PROVE  x * z + z <= y * z
  <2>1. (x + 1) * z <= y * z
    BY <1>1
  <2> QED
    BY <2>1
<1>2. /\ a.tv_sec \in Nat /\ a.tv_nsec \in Nat /\ b.tv_sec \in Nat /\ b.tv_nsec \in Nat
      /\ Second \in Nat
  BY SecondIs DEF Times
<1>3. CASE a.tv_sec < b.tv_sec
  <2>1. a.tv_sec * Second + Second <= b.tv_sec * Second
    BY <1>1, <1>2, <1>3
  <2> QED
    BY <1>2, <1>3, <2>1 DEF cmp_timespec, Ns
<1>4. CASE b.tv_sec < a.tv_sec
  <2>1. b.tv_sec * Second + Second <= a.tv_sec * Second
    BY <1>1, <1>2, <1>4
  <2> QED
    BY <1>2, <1>4, <2>1 DEF cmp_timespec, Ns
<1>5. CASE a.tv_sec = b.tv_sec
  BY <1>2, <1>5 DEF cmp_timespec, Ns
<1> QED
  BY <1>2, <1>3, <1>4, <1>5

\* A factor cancels, up to a remainder that is less than it.
LEMMA Cancel ==
    ASSUME NEW x \in Int, NEW y \in Int, NEW n \in Nat, NEW r \in Nat, r < n,
           x * n + r >= y * n
    PROVE  x >= y
<1>1. SUFFICES ASSUME x < y PROVE FALSE
  OBVIOUS
<1>2. (x + 1) * n <= y * n
  BY <1>1
<1> QED
  BY <1>2

\* Whole seconds have no remainder.
LEMMA MultipleMod ==
    ASSUME NEW q \in Nat, NEW m \in Nat, m > 0
    PROVE  (q * m) % m = 0
<1> DEFINE d == (q * m) \div m
           r == (q * m) % m
<1>1. q * m \in Nat
  BY NatTimes
<1>2. q * m = m * d + r /\ r \in 0..(m - 1) /\ d \in Nat
  BY <1>1, DivMod
<1> HIDE DEF d, r
<1>3. d * m + r >= q * m
  BY <1>2
<1>4. d >= q
  BY <1>2, <1>3, Cancel
<1>5. q * m + 0 >= d * m
  BY <1>2
<1>6. q >= d
  BY <1>2, <1>5, Cancel
<1>7. d = q
  BY <1>2, <1>4, <1>6
<1> QED
  BY <1>2, <1>7 DEF r

\* As diff_timespec measures it, no less time has passed.
LEMMA DiffTime ==
    ASSUME NEW end \in Times, NEW begin \in Times, NEW t \in Nat,
           Ns(end) >= Ns(begin) + t * NsPerMs
    PROVE  diff_timespec(end, begin) >= t
<1> DEFINE s == end.tv_sec - begin.tv_sec
<1>1. /\ end.tv_sec \in Nat /\ end.tv_nsec \in Nat
      /\ begin.tv_sec \in Nat /\ begin.tv_nsec \in Nat
      /\ MsPerSec \in Nat /\ NsPerMs \in Nat /\ NsPerMs > 0 /\ s \in Int
  BY SecondIs DEF Times
<1>2. s * (MsPerSec * NsPerMs) + end.tv_nsec >= begin.tv_nsec + t * NsPerMs
  BY <1>1 DEF Ns, Second
<1>3. s * (MsPerSec * NsPerMs) = (s * MsPerSec) * NsPerMs /\ s * MsPerSec \in Int
  BY <1>1
<1> HIDE DEF s
<1>4. CASE end.tv_nsec > begin.tv_nsec
  <2> DEFINE d == end.tv_nsec - begin.tv_nsec
             k == d \div NsPerMs
             r == d % NsPerMs
  <2>1. d \in Nat
    BY <1>1, <1>4
  <2>2. diff_timespec(end, begin) = s * MsPerSec + k
    BY <1>4 DEF diff_timespec, s
  <2> HIDE DEF d
  <2>3. d = NsPerMs * k + r /\ r \in 0..(NsPerMs - 1) /\ k \in Nat
    BY <1>1, <2>1, DivMod
  <2> HIDE DEF k, r
  <2>4. (s * MsPerSec + k) * NsPerMs + r >= t * NsPerMs
    <3>1. (s * MsPerSec + k) * NsPerMs = (s * MsPerSec) * NsPerMs + NsPerMs * k
      BY <1>1, <1>3, <2>3
    <3>2. (s * MsPerSec) * NsPerMs + d >= t * NsPerMs
      BY <1>1, <1>2, <1>3 DEF d
    <3> QED
      BY <1>1, <2>3, <3>1, <3>2
  <2>5. s * MsPerSec + k \in Int
    BY <1>3, <2>3
  <2>6. s * MsPerSec + k >= t
    BY <1>1, <2>3, <2>4, <2>5, Cancel
  <2> QED
    BY <2>2, <2>6
<1>5. CASE ~ (end.tv_nsec > begin.tv_nsec)
  <2> DEFINE d == begin.tv_nsec - end.tv_nsec
             k == d \div NsPerMs
             r == d % NsPerMs
  <2>1. d \in Nat
    BY <1>1, <1>5
  <2>2. diff_timespec(end, begin) = s * MsPerSec - k
    BY <1>5 DEF diff_timespec, s
  <2> HIDE DEF d
  <2>3. d = NsPerMs * k + r /\ r \in 0..(NsPerMs - 1) /\ k \in Nat
    BY <1>1, <2>1, DivMod
  <2> HIDE DEF k, r
  <2>4. (s * MsPerSec - k) * NsPerMs + 0 >= t * NsPerMs
    <3>1. (s * MsPerSec - k) * NsPerMs = (s * MsPerSec) * NsPerMs - NsPerMs * k
      BY <1>1, <1>3, <2>3
    <3>2. (s * MsPerSec) * NsPerMs >= d + t * NsPerMs
      BY <1>1, <1>2, <1>3 DEF d
    <3> QED
      BY <1>1, <2>3, <3>1, <3>2
  <2>5. s * MsPerSec - k \in Int
    BY <1>3, <2>3
  <2>6. s * MsPerSec - k >= t
    BY <1>1, <2>4, <2>5, Cancel
  <2> QED
    BY <2>2, <2>6
<1> QED
  BY <1>4, <1>5

\* A tick is one nanosecond.
LEMMA TickTime ==
    ASSUME clock \in Times, clock.tv_nsec < Second, clock.tv_sec >= 1, Tick
    PROVE  /\ clock' \in Times /\ clock'.tv_nsec < Second /\ clock'.tv_sec >= 1
           /\ Ns(clock') = Ns(clock) + 1
<1>1. clock.tv_sec \in Nat /\ clock.tv_nsec \in Nat /\ Second \in Nat /\ Second > 0
  BY SecondIs DEF Times
<1>2. CASE clock.tv_nsec + 1 < Second
  <2>1. clock' = [tv_sec |-> clock.tv_sec, tv_nsec |-> clock.tv_nsec + 1]
    BY <1>2 DEF Tick, Times
  <2> QED
    BY <1>1, <1>2, <2>1 DEF Times, Ns
<1>3. CASE ~ (clock.tv_nsec + 1 < Second)
  <2>1. clock' = [tv_sec |-> clock.tv_sec + 1, tv_nsec |-> 0]
    BY <1>3 DEF Tick
  <2>2. (clock.tv_sec + 1) * Second = clock.tv_sec * Second + clock.tv_nsec + 1
    BY <1>1, <1>3
  <2> QED
    BY <1>1, <2>1, <2>2 DEF Times, Ns
<1> QED
  BY <1>2, <1>3

\* When the timeout has passed, in nanoseconds.
End == Ns(start) + to * NsPerMs

DeadlineTypes ==
    /\ clock \in Times /\ clock.tv_nsec < Second /\ clock.tv_sec >= 1
    /\ start \in Times /\ to \in 0..IntMax /\ waits \in Nat /\ done \in BOOLEAN
    /\ waiting \in {"begin", "loop", "wait", "returned"}
    /\ finaldeadline \in Times /\ finaldeadline.tv_nsec <= Second
    /\ nextdeadline \in Times /\ nextdeadline.tv_nsec <= Second

\* curr_to is the length of the k-th wait, and no overflow was on the way.
Length(k) ==
    /\ k \in 1..Len(Lengths) /\ curr_to = Lengths[k] /\ curr_to - to_min <= to
    /\ \E q \in Nat : curr_to = q * MsPerSec

BeginInv == clock = start /\ waits = 0

\* At the head of the loop.  tv_sec = 0 says that the wait for the final deadline
\* is over; otherwise the time of all waits so far has passed.
LoopInv ==
    /\ to % MsPerSec = 0 => finaldeadline.tv_nsec < Second
    /\ finaldeadline.tv_sec = 0 => Ns(clock) >= End
    /\ finaldeadline.tv_sec # 0 =>
          /\ Ns(finaldeadline) = End
          /\ Length(waits + 1)
          /\ Ns(clock) >= Ns(start) + (curr_to - to_min) * NsPerMs

\* In a wait: it does not end after the final deadline, nor before its own length.
WaitInv ==
    /\ to % MsPerSec = 0 => finaldeadline.tv_nsec < Second /\ nextdeadline.tv_nsec < Second
    /\ Length(waits)
    /\ finaldeadline.tv_sec = 0 => Ns(nextdeadline) = End
    /\ finaldeadline.tv_sec # 0 =>
          /\ Ns(finaldeadline) = End
          /\ Ns(nextdeadline) <= End
          /\ Ns(nextdeadline) >= Ns(start) + (2 * curr_to - to_min) * NsPerMs

(* Why the timeout is kept.  The k-th wait begins when Lengths[k] - to_min      *)
(* milliseconds have passed, so that it begins at all only if these are not     *)
(* beyond the timeout, and the next length, where it is used, fits an int.  The *)
(* time that has passed is read off the deadline that cmp_timespec compared     *)
(* with the clock, which needs tv_nsec <= 1000000000 on both sides.             *)
DeadlineInv ==
    /\ DeadlineTypes
    /\ waiting = "begin" => BeginInv
    /\ waiting = "loop" => LoopInv
    /\ waiting = "wait" => WaitInv
    /\ waiting = "returned" /\ ~done => Ns(clock) >= End

\* The lengths of the waits.
LEMMA LengthFacts ==
    /\ \A k \in 1..Len(Lengths) : Lengths[k] \in 0..IntMax
    /\ Len(Lengths) \in Nat /\ 1 \in 1..Len(Lengths) /\ Lengths[1] = to_min
    /\ to_min \in Nat /\ to_min = MsPerSec
    /\ \A k \in 1..(Len(Lengths) - 1) : Lengths[k + 1] = 2 * Lengths[k]
    /\ 2 * Lengths[Len(Lengths)] > IntMax + to_min
BY LengthsAssumption, SecondIs DEF to_min

LEMMA NsIsNat ==
    ASSUME NEW a \in Times
    PROVE  Ns(a) \in Nat
<1>1. a.tv_sec \in Nat /\ a.tv_nsec \in Nat
  BY DEF Times
<1>2. a.tv_sec * Second \in Nat
  BY <1>1, NatTimes, SecondIs
<1> QED
  BY <1>1, <1>2 DEF Ns

LEMMA DeadlineInvInit == DeadlineInit => DeadlineInv
<1> SUFFICES ASSUME DeadlineInit PROVE DeadlineInv
  OBVIOUS
<1>1. PICK n \in 0..(Second - 1) : clock = [tv_sec |-> 1, tv_nsec |-> n]
  BY DEF DeadlineInit
<1>2. clock \in Times /\ clock.tv_nsec < Second /\ clock.tv_sec >= 1
  BY <1>1, SecondIs DEF Times
<1>3. NoTime \in Times /\ NoTime.tv_nsec <= Second
  BY SecondIs DEF NoTime, Times
<1>4. to \in 0..IntMax
  BY DeadlineAssumption DEF DeadlineInit
<1> QED
  BY <1>2, <1>3, <1>4, Zenon DEF DeadlineInit, DeadlineInv, DeadlineTypes, BeginInv

LEMMA DeadlineInvTick ==
    ASSUME DeadlineInv, Tick
    PROVE  DeadlineInv'
<1>1. clock \in Times /\ clock.tv_nsec < Second /\ clock.tv_sec >= 1 /\ start \in Times
  BY DEF DeadlineInv, DeadlineTypes
<1>2. /\ clock' \in Times /\ clock'.tv_nsec < Second /\ clock'.tv_sec >= 1
      /\ Ns(clock') = Ns(clock) + 1
  BY <1>1, TickTime
<1>3. UNCHANGED <<start, to, curr_to, finaldeadline, nextdeadline, waiting, waits, done>>
  BY DEF Tick
<1>4. DeadlineTypes'
  BY <1>2, <1>3 DEF DeadlineInv, DeadlineTypes
<1>5. waiting \in {"loop", "wait"}
  BY DEF Tick
<1>6. ASSUME NEW x, Ns(clock) >= x, x \in Int PROVE Ns(clock') >= x
  BY <1>1, <1>2, <1>6, NsIsNat
<1>7. End \in Int
  <2>1. to \in Nat
    BY SecondIs DEF DeadlineInv, DeadlineTypes
  <2>2. to * NsPerMs \in Nat /\ Ns(start) \in Nat
    BY <1>1, <2>1, NatTimes, NsIsNat, SecondIs
  <2> QED
    BY <2>2 DEF End
<1>8. Length(waits + 1) => Length(waits + 1)'
  BY <1>3 DEF Length
<1>9. Length(waits) => Length(waits)'
  BY <1>3 DEF Length
<1>10. End' = End
  BY <1>3 DEF End
<1>11. CASE waiting = "loop"
  <2>1. LoopInv
    BY <1>11 DEF DeadlineInv
  <2>2. ASSUME finaldeadline.tv_sec # 0
        PROVE  Ns(start) + (curr_to - to_min) * NsPerMs \in Int
    <3>1. curr_to \in Int
      BY <2>1, <2>2, LengthFacts DEF LoopInv, Length
    <3>2. ASSUME NEW x \in Int, NEW y \in Int PROVE x * y \in Int
      OBVIOUS
    <3> QED
      BY <1>1, <3>1, <3>2, NsIsNat, SecondIs, LengthFacts
  <2>3. LoopInv'
    BY <1>3, <1>6, <1>7, <1>8, <1>10, <2>1, <2>2 DEF LoopInv
  <2> QED
    BY <1>3, <1>4, <1>11, <2>3 DEF DeadlineInv
<1>12. CASE waiting = "wait"
  <2>1. WaitInv
    BY <1>12 DEF DeadlineInv
  <2>2. WaitInv'
    BY <1>3, <1>9, <1>10, <2>1 DEF WaitInv
  <2> QED
    BY <1>3, <1>4, <1>12, <2>2 DEF DeadlineInv
<1> QED
  BY <1>5, <1>11, <1>12

LEMMA DeadlineInvBegin ==
    ASSUME DeadlineInv, Begin
    PROVE  DeadlineInv'
<1>1. /\ DeadlineTypes /\ clock = start /\ waits = 0 /\ clock.tv_sec \in Nat /\ to \in Nat
      /\ clock \in Times /\ clock.tv_nsec < Second /\ clock.tv_sec >= 1
  BY SecondIs DEF DeadlineInv, DeadlineTypes, BeginInv, Begin, Times
<1>2. /\ waiting' = "loop" /\ finaldeadline' = add_timespec(clock, to) /\ curr_to' = to_min
      /\ UNCHANGED <<clock, start, to, nextdeadline, waits, done>>
  BY DEF Begin
<1>3. /\ finaldeadline' \in Times /\ finaldeadline'.tv_sec >= clock.tv_sec
      /\ finaldeadline'.tv_nsec <= Second /\ Ns(finaldeadline') = Ns(clock) + to * NsPerMs
      /\ to % MsPerSec = 0 => finaldeadline'.tv_nsec = clock.tv_nsec
  BY <1>1, <1>2, AddTime
<1>4. finaldeadline'.tv_sec \in Nat
  BY <1>3 DEF Times
<1>5. DeadlineTypes'
  BY <1>1, <1>2, <1>3 DEF DeadlineTypes
<1>6. Length(waits + 1)'
  <2>1. to_min = 1 * MsPerSec /\ to_min - to_min <= to
    BY <1>1, LengthFacts, SecondIs
  <2> QED
    BY <1>1, <1>2, <2>1, LengthFacts DEF Length
<1>7. (Ns(clock) >= Ns(start) + (curr_to - to_min) * NsPerMs)'
  <2>1. (to_min - to_min) * NsPerMs = 0
    BY LengthFacts, SecondIs
  <2> QED
    BY <1>1, <1>2, <2>1, NsIsNat
<1>8. LoopInv'
  BY <1>1, <1>2, <1>3, <1>4, <1>6, <1>7 DEF LoopInv, End
<1> QED
  BY <1>2, <1>5, <1>8 DEF DeadlineInv

LEMMA DeadlineInvReply ==
    ASSUME DeadlineInv, GotReply
    PROVE  DeadlineInv'
<1>1. UNCHANGED <<clock, start, to, curr_to, finaldeadline, nextdeadline, waiting, waits>>
  BY DEF GotReply
<1>2. (BeginInv => BeginInv') /\ (LoopInv => LoopInv') /\ (WaitInv => WaitInv')
  <2>1. End' = End /\ (Length(waits) => Length(waits)') /\ (Length(waits + 1) => Length(waits + 1)')
    BY <1>1 DEF End, Length
  <2> QED
    BY <1>1, <2>1 DEF BeginInv, LoopInv, WaitInv
<1>3. DeadlineTypes'
  BY <1>1 DEF DeadlineInv, DeadlineTypes, GotReply
<1> QED
  BY <1>1, <1>2, <1>3 DEF DeadlineInv, GotReply

LEMMA DeadlineInvLoop ==
    ASSUME DeadlineInv, CallLoop
    PROVE  DeadlineInv'
<1>1. /\ DeadlineTypes /\ LoopInv /\ waiting = "loop" /\ Second \in Nat
      /\ clock \in Times /\ clock.tv_nsec < Second /\ start \in Times
      /\ finaldeadline \in Times /\ finaldeadline.tv_nsec <= Second
      /\ finaldeadline.tv_nsec \in Nat
  BY SecondIs DEF DeadlineInv, DeadlineTypes, CallLoop, Times
<1>2. UNCHANGED <<clock, start, to, curr_to, done>>
  BY DEF CallLoop
<1>3. End' = End
  BY <1>2 DEF End
<1>4. CASE finaldeadline.tv_sec = 0
  <2>1. waiting' = "returned" /\ UNCHANGED <<finaldeadline, nextdeadline, waits>>
    BY <1>4 DEF CallLoop
  <2>2. DeadlineTypes'
    BY <1>1, <1>2, <2>1 DEF DeadlineTypes
  <2>3. Ns(clock') >= End'
    BY <1>1, <1>2, <1>3, <1>4 DEF LoopInv
  <2> QED
    BY <2>1, <2>2, <2>3 DEF DeadlineInv
<1>5. CASE finaldeadline.tv_sec # 0
  <2> DEFINE next == add_timespec(clock, curr_to)
             last == cmp_timespec(next, finaldeadline) > 0
  <2>1. /\ nextdeadline' = IF last THEN finaldeadline ELSE next
        /\ finaldeadline' = IF last THEN [finaldeadline EXCEPT !.tv_sec = 0] ELSE finaldeadline
        /\ waiting' = "wait" /\ waits' = waits + 1
    BY <1>5 DEF CallLoop
  <2>2. /\ Ns(finaldeadline) = End /\ Length(waits + 1)
        /\ Ns(clock) >= Ns(start) + (curr_to - to_min) * NsPerMs
        /\ to % MsPerSec = 0 => finaldeadline.tv_nsec < Second
    BY <1>1, <1>5 DEF LoopInv
  <2>3. curr_to \in Nat /\ curr_to % MsPerSec = 0
    <3>1. PICK q \in Nat : curr_to = q * MsPerSec
      BY <2>2 DEF Length
    <3>2. curr_to \in Nat
      BY <2>2, LengthFacts DEF Length
    <3> QED
      BY <3>1, <3>2, SecondIs, MultipleMod
  <2>4. /\ next \in Times /\ next.tv_nsec <= Second /\ next.tv_nsec = clock.tv_nsec
        /\ Ns(next) = Ns(clock) + curr_to * NsPerMs
    BY <1>1, <2>3, AddTime
  <2> HIDE DEF next
  <2>5. Length(waits)'
    BY <1>2, <2>1, <2>2 DEF Length
  <2>6. waits' \in Nat
    BY <1>1, <2>1 DEF DeadlineTypes
  <2>7. CASE last
    <3>1. nextdeadline' = finaldeadline
      BY <2>1, <2>7
    <3>2. finaldeadline' = [tv_sec |-> 0, tv_nsec |-> finaldeadline.tv_nsec]
      <4>1. finaldeadline' = [finaldeadline EXCEPT !.tv_sec = 0]
        BY <2>1, <2>7
      <4> QED
        BY <1>1, <4>1 DEF Times
    <3>3. finaldeadline' \in Times /\ finaldeadline'.tv_nsec = finaldeadline.tv_nsec
          /\ finaldeadline'.tv_sec = 0
      BY <1>1, <3>2 DEF Times
    <3>4. DeadlineTypes'
      BY <1>1, <1>2, <2>1, <2>6, <3>1, <3>3 DEF DeadlineTypes
    <3>5. WaitInv'
      BY <1>2, <1>3, <2>2, <2>5, <3>1, <3>3 DEF WaitInv
    <3> QED
      BY <2>1, <3>4, <3>5 DEF DeadlineInv
  <2>8. CASE ~last
    <3>1. nextdeadline' = next /\ finaldeadline' = finaldeadline
      BY <2>1, <2>8
    <3>2. Ns(next) <= Ns(finaldeadline)
      BY <1>1, <2>4, <2>8, CmpTime
    <3>3. Ns(next) >= Ns(start) + (2 * curr_to - to_min) * NsPerMs
      <4>1. ASSUME NEW x \in Int, NEW y \in Int, NEW n \in Int
            PROVE  (x - y) * n \in Int /\ x * n \in Int /\ (2 * x - y) * n = (x - y) * n + x * n
        OBVIOUS
      <4>2. /\ (curr_to - to_min) * NsPerMs \in Int /\ curr_to * NsPerMs \in Int
            /\ (2 * curr_to - to_min) * NsPerMs = (curr_to - to_min) * NsPerMs + curr_to * NsPerMs
        BY <2>3, <4>1, LengthFacts, SecondIs
      <4>3. Ns(clock) \in Int /\ Ns(start) \in Int
        BY <1>1, NsIsNat
      <4> QED
        BY <2>2, <2>4, <4>2, <4>3
    <3>4. DeadlineTypes'
      BY <1>1, <1>2, <2>1, <2>4, <2>6, <3>1 DEF DeadlineTypes
    <3>5. WaitInv'
      BY <1>1, <1>2, <1>3, <1>5, <2>2, <2>4, <2>5, <3>1, <3>2, <3>3 DEF WaitInv
    <3> QED
      BY <2>1, <3>4, <3>5 DEF DeadlineInv
  <2> QED
    BY <2>7, <2>8
<1> QED
  BY <1>4, <1>5

\* A length that is twice the current one and not beyond the timeout fits an int.
LEMMA NextLength ==
    ASSUME DeadlineTypes, NEW k \in Nat, Length(k), 2 * curr_to - to_min <= to
    PROVE  /\ k + 1 \in 1..Len(Lengths) /\ Lengths[k + 1] = 2 * curr_to
           /\ Doubled(curr_to) = 2 * curr_to
           /\ \E q \in Nat : 2 * curr_to = q * MsPerSec
<1>1. k \in 1..Len(Lengths) /\ curr_to = Lengths[k] /\ curr_to \in Nat /\ to <= IntMax /\ to \in Nat
  BY LengthFacts, SecondIs DEF Length, DeadlineTypes
<1>2. k # Len(Lengths)
  BY <1>1, LengthFacts, SecondIs
<1>3. k \in 1..(Len(Lengths) - 1) /\ k + 1 \in 1..Len(Lengths)
  BY <1>1, <1>2, LengthFacts
<1>4. Lengths[k + 1] = 2 * curr_to /\ Lengths[k + 1] \in 0..IntMax
  BY <1>1, <1>3, LengthFacts
<1>5. Doubled(curr_to) = 2 * curr_to
  <2> DEFINE x == 2 * curr_to
             m == 2 * (IntMax + 1)
  <2>1. x \in Nat /\ x <= IntMax /\ m \in Nat /\ x < m /\ m > 0
    BY <1>1, <1>4, SecondIs
  <2>2. x = m * (x \div m) + (x % m) /\ x % m \in 0..(m - 1) /\ x \div m \in Nat
    BY <2>1, DivMod, Zenon
  <2>3. x % m = x
    <3> DEFINE d == x \div m
    <3>1. d = 0
      <4> SUFFICES ASSUME d >= 1 PROVE FALSE
        BY <2>2
      <4> HIDE DEF x, m, d
      <4>1. m * d >= m
        <5>1. d \in Nat
          BY <2>2 DEF d
        <5> QED
          BY <2>1, <5>1
      <4> QED
        BY <2>1, <2>2, <4>1 DEF d
    <3> QED
      BY <2>1, <2>2, <3>1
  <2> QED
    BY <2>1, <2>3 DEF Doubled
<1>6. \E q \in Nat : 2 * curr_to = q * MsPerSec
  <2>1. PICK q \in Nat : curr_to = q * MsPerSec
    BY DEF Length
  <2>2. 2 * curr_to = (2 * q) * MsPerSec /\ 2 * q \in Nat
    BY <2>1, SecondIs
  <2> QED
    BY <2>2
<1> QED
  BY <1>3, <1>4, <1>5, <1>6

LEMMA DeadlineInvWaitOver ==
    ASSUME DeadlineInv, WaitOver
    PROVE  DeadlineInv'
<1>1. /\ DeadlineTypes /\ WaitInv /\ waiting = "wait" /\ Second \in Nat
      /\ clock \in Times /\ clock.tv_nsec < Second /\ clock.tv_nsec \in Nat
      /\ nextdeadline \in Times /\ nextdeadline.tv_nsec <= Second
      /\ start \in Times /\ to \in 0..IntMax /\ waits \in Nat
  BY SecondIs DEF DeadlineInv, DeadlineTypes, WaitOver, Times
<1>2. UNCHANGED <<clock, start, to, finaldeadline, nextdeadline, waits, done>>
  BY DEF WaitOver
<1>3. waiting' \in {"loop", "returned"}
  BY DEF WaitOver
<1>4. DeadlineTypes'
  BY <1>1, <1>2, <1>3 DEF DeadlineTypes
<1>5. End' = End
  BY <1>2 DEF End
<1>6. CASE done
  <2>1. waiting' = "returned" /\ done'
    BY <1>2, <1>6 DEF WaitOver
  <2> QED
    BY <1>4, <2>1 DEF DeadlineInv
<1>7. CASE ~done
  <2>1. waiting' = "loop" /\ curr_to' = Doubled(curr_to) /\ cmp_timespec(clock, nextdeadline) >= 0
    BY <1>7 DEF WaitOver
  <2>2. Ns(clock) >= Ns(nextdeadline)
    BY <1>1, <2>1, CmpTime
  <2>3. Ns(clock) \in Int /\ Ns(nextdeadline) \in Int /\ Ns(start) \in Int
    BY <1>1, NsIsNat
  <2>4. CASE finaldeadline.tv_sec = 0
    <3>1. Ns(clock') >= End'
      BY <1>1, <1>2, <1>5, <2>2, <2>4 DEF WaitInv
    <3>2. LoopInv'
      BY <1>1, <1>2, <2>4, <3>1 DEF LoopInv, WaitInv
    <3> QED
      BY <1>4, <2>1, <3>2 DEF DeadlineInv
  <2>5. CASE finaldeadline.tv_sec # 0
    <3>1. /\ Length(waits) /\ Ns(finaldeadline) = End /\ Ns(nextdeadline) <= End
          /\ Ns(nextdeadline) >= Ns(start) + (2 * curr_to - to_min) * NsPerMs
      BY <1>1, <2>5 DEF WaitInv
    <3>2. curr_to \in Nat
      BY <3>1, LengthFacts DEF Length
    <3>3. 2 * curr_to - to_min <= to
      <4>1. /\ 2 * curr_to - to_min \in Int /\ to \in Int /\ NsPerMs \in Nat /\ NsPerMs > 0
        BY <1>1, <3>2, LengthFacts, SecondIs
      <4>2. to * NsPerMs + 0 >= (2 * curr_to - to_min) * NsPerMs
        <5>1. ASSUME NEW x \in Int, NEW y \in Int PROVE x * y \in Int
          OBVIOUS
        <5>2. to * NsPerMs \in Int /\ (2 * curr_to - to_min) * NsPerMs \in Int
          BY <4>1, <5>1
        <5> QED
          BY <2>3, <3>1, <5>2 DEF End
      <4>3. to >= 2 * curr_to - to_min
        BY <4>1, <4>2, Cancel
      <4> QED
        BY <4>1, <4>3
    <3>4. /\ waits + 1 \in 1..Len(Lengths) /\ Lengths[waits + 1] = 2 * curr_to
          /\ Doubled(curr_to) = 2 * curr_to
          /\ \E q \in Nat : 2 * curr_to = q * MsPerSec
      BY <1>1, <3>1, <3>3, NextLength
    <3>5. curr_to' = 2 * curr_to
      BY <2>1, <3>4
    <3>6. Length(waits + 1)'
      BY <1>2, <3>3, <3>4, <3>5 DEF Length
    <3>7. Ns(clock) >= Ns(start) + (curr_to' - to_min) * NsPerMs
      <4>1. ASSUME NEW x \in Int, NEW y \in Int PROVE x * y \in Int
        OBVIOUS
      <4>2. (2 * curr_to - to_min) * NsPerMs \in Int
        BY <3>2, <4>1, LengthFacts, SecondIs
      <4> QED
        BY <2>2, <2>3, <3>1, <3>5, <4>2
    <3>8. LoopInv'
      BY <1>1, <1>2, <1>5, <2>5, <3>1, <3>6, <3>7 DEF LoopInv, WaitInv
    <3> QED
      BY <1>4, <2>1, <3>8 DEF DeadlineInv
  <2> QED
    BY <2>4, <2>5
<1> QED
  BY <1>6, <1>7

LEMMA DeadlineInvHolds == DeadlineSpec => []DeadlineInv
<1>1. DeadlineInv /\ [DeadlineNext]_deadlineVars => DeadlineInv'
  <2> SUFFICES ASSUME DeadlineInv, [DeadlineNext]_deadlineVars PROVE DeadlineInv'
    OBVIOUS
  <2>1. CASE UNCHANGED deadlineVars
    BY <2>1, Zenon DEF deadlineVars, DeadlineInv, DeadlineTypes, BeginInv, LoopInv, WaitInv, Length, End
  <2> QED
    BY <2>1, DeadlineInvTick, DeadlineInvBegin, DeadlineInvLoop, DeadlineInvWaitOver,
       DeadlineInvReply DEF DeadlineNext
<1> QED
  BY <1>1, DeadlineInvInit, PTL DEF DeadlineSpec

(* For every timeout an int holds, any clock and any delay of the thread: call1 *)
(* returns timeout_failure only when the whole timeout has passed, also as      *)
(* diff_timespec measures it; no wait is set to end later than that; and the    *)
(* waits are the doubled lengths, used only while curr_to <<= 1 fits an int.    *)
THEOREM TimeoutKeptHolds == DeadlineSpec => []TimeoutKept
<1>1. DeadlineInv => TimeoutKept
  <2> SUFFICES ASSUME DeadlineInv PROVE TimeoutKept
    OBVIOUS
  <2>1. ASSUME waiting = "wait"
        PROVE  /\ Ns(nextdeadline) <= Ns(start) + to * NsPerMs
               /\ waits \in 1..Len(Lengths) /\ curr_to = Lengths[waits] /\ curr_to - to_min <= to
    <3>1. WaitInv
      BY <2>1 DEF DeadlineInv
    <3>2. Ns(nextdeadline) \in Nat
      BY NsIsNat DEF DeadlineInv, DeadlineTypes
    <3> QED
      BY <3>1, <3>2 DEF WaitInv, Length, End
  <2>2. ASSUME waiting = "returned", ~done
        PROVE  /\ Ns(clock) >= Ns(start) + to * NsPerMs
               /\ diff_timespec(clock, start) >= to
    <3>1. Ns(clock) >= Ns(start) + to * NsPerMs
      BY <2>2 DEF DeadlineInv, End
    <3>2. clock \in Times /\ start \in Times /\ to \in Nat
      BY SecondIs DEF DeadlineInv, DeadlineTypes
    <3> QED
      BY <3>1, <3>2, DiffTime
  <2> QED
    BY <2>1, <2>2 DEF TimeoutKept
<1> QED
  BY <1>1, DeadlineInvHolds, PTL

(* For every timeout of whole seconds: add_timespec gives call1 only deadlines  *)
(* whose tv_nsec is below 1000000000, which pthread_cond_timedwait accepts.     *)
THEOREM WholeSecondsAcceptedHolds == DeadlineSpec => []WholeSecondsAccepted
<1>1. DeadlineInv => WholeSecondsAccepted
  BY DEF DeadlineInv, WaitInv, WholeSecondsAccepted, ValidDeadline
<1> QED
  BY <1>1, DeadlineInvHolds, PTL
================================================================================
