---------------------------- MODULE ConnectionProofs ----------------------------
(* Proofs for Connection: PDUs are written one after the other, and the object  *)
(* is deleted only when nothing uses it.                                        *)
EXTENDS Connection, FiniteSetTheorems, TLAPS

\* The threads that hold a reference.
Users == {t \in Threads : pc[t] \notin {"idle", "gone"}}

\* Where a sender whose PDU is wpdu_ can be.
Writing == {"complete", "woken", "remove", "removing", "finish"}

(* wpdu_ belongs to the one thread that is between its first write and the end  *)
(* of send, and as long as the connection works it says how far the PDU on the  *)
(* wire has got.                                                                *)
WriteInv ==
    /\ \A t \in Senders : pc[t] \in Writing <=> wpdu_.buf = t
    /\ \A t \in Threads : pc[t] \in {"remove", "removing", "finish"} => dead_
    /\ ~dead_ /\ wpdu_.buf = None => wpdu_ = NoPdu /\ frag = 0
    /\ ~dead_ /\ wpdu_.buf # None =>
          /\ wpdu_.sz = PduSize /\ wpdu_.solong >= 0
          /\ frag = IF wpdu_.solong = PduSize THEN 0 ELSE wpdu_.solong

\* The poll manager has no pointer to the connection, or a thread is about to
\* remove it.
Removal ==
    \/ \E t \in Threads : pc[t] = "remove"
    \/ /\ Fd \notin rfds_ /\ Fd \notin wfds_
       /\ Fd \in callbacks_ => \E t \in Threads : pc[t] = "removing"

(* The count is that of the threads that use the object, and a dead connection  *)
(* is known to the poll manager only while one of them is about to remove it.   *)
RefInv ==
    /\ refno_ = Cardinality(Users)
    /\ dead_ => Removal
    /\ deleted => dead_ /\ Users = {}

ConnInv == TypeOK /\ WriteInv /\ RefInv

LEMMA ConnThreads == Fd \in Fds /\ Owner \in Threads /\ \A t \in Senders : t \in Threads /\ t # None
BY ConnAssumption

LEMMA ConnInvInit == Init => ConnInv
<1> SUFFICES ASSUME Init PROVE ConnInv
  OBVIOUS
<1> USE DEF Init
<1>1. Users = {Owner}
  BY ConnThreads DEF Users
<1>2. refno_ = Cardinality(Users)
  BY <1>1, FS_Singleton, Zenon
<1>3. Cardinality(Senders) \in Nat
  BY ConnAssumption, FS_CardinalityType
<1>4. TypeOK
  <2>0. pipefd_ \in 0..PipeCap
    BY PollAssumption
  <2>1. PollTypeOK
    BY <2>0, ConnThreads, Zenon DEF PollTypeOK
  <2>2. wpdu_ \in [buf : Senders \cup {None}, sz : {0, PduSize}, solong : {-1} \cup 0..PduSize]
    BY ConnAssumption DEF NoPdu
  <2>3. refno_ \in 0..(Cardinality(Senders) + 1) /\ frag \in 0..(PduSize - 1)
    BY <1>3, ConnAssumption
  <2> QED
    BY <2>1, <2>2, <2>3, Zenon DEF TypeOK
<1>5. WriteInv
  BY ConnThreads, ConnAssumption DEF WriteInv, Writing, NoPdu
<1>6. RefInv
  BY <1>2 DEF RefInv
<1> QED
  BY <1>4, <1>5, <1>6 DEF ConnInv

--------------------------------------------------------------------------------
(* The operations of the poll manager on the only descriptor.                   *)

LEMMA AddType ==
    ASSUME PollTypeOK, NEW flag, add_callback(Fd, flag), UNCHANGED loopVars
    PROVE  PollTypeOK'
<1>1. pipefd_' \in 0..PipeCap
  BY PollAssumption DEF PollTypeOK, add_callback, WritePipe
<1> QED
  BY <1>1, ConnThreads DEF PollTypeOK, add_callback, loopVars

LEMMA UnwatchType ==
    ASSUME PollTypeOK, NEW flag, unwatch_fd(Fd, flag)
    PROVE  /\ rfds_' \in SUBSET Fds /\ wfds_' \in SUBSET Fds /\ pipefd_' \in 0..PipeCap
           /\ rfds_' \subseteq rfds_ /\ wfds_' \subseteq wfds_
           /\ flag = CB_RDWR => Fd \notin rfds_' /\ Fd \notin wfds_'
<1>1. pipefd_' \in 0..PipeCap
  BY PollAssumption DEF PollTypeOK, unwatch_fd, WritePipe
<1> QED
  BY <1>1 DEF PollTypeOK, unwatch_fd, CB_RDWR

LEMMA DelType ==
    ASSUME PollTypeOK, NEW flag, del_callback(Fd, flag),
           loop' = loop, readable' \in SUBSET Fds, writable' \in SUBSET Fds
    PROVE  /\ PollTypeOK'
           /\ flag = CB_RDWR => Fd \notin rfds_' /\ Fd \notin wfds_' /\ Fd \notin callbacks_'
<1>1. unwatch_fd(Fd, flag) /\ UNCHANGED <<pending_change_, removing>>
  BY DEF del_callback
<1>2. callbacks_' \in SUBSET Fds
  BY DEF del_callback, PollTypeOK
<1>3. PollTypeOK'
  BY <1>1, <1>2, UnwatchType DEF PollTypeOK
<1>4. flag = CB_RDWR => Fd \notin rfds_' /\ Fd \notin wfds_' /\ Fd \notin callbacks_'
  BY <1>1, UnwatchType DEF del_callback
<1> QED
  BY <1>3, <1>4

LEMMA LoopType ==
    ASSUME PollTypeOK,
           \/ LoopTop \/ LoopCopy \/ LoopEnd \/ Interrupted
           \/ \E R \in SUBSET Fds, W \in SUBSET Fds : Select(R, W)
    PROVE  PollTypeOK' /\ UNCHANGED <<rfds_, wfds_, callbacks_>>
<1> USE DEF PollTypeOK
<1>1. CASE LoopTop
  <2>1. removing' \in [Threads -> {"no", "wait", "woken"}]
    BY <1>1 DEF LoopTop, Broadcast
  <2> QED
    BY <1>1, <2>1, Zenon DEF LoopTop, Broadcast, fdVars
<1>2. CASE LoopCopy
  BY <1>2 DEF LoopCopy, fdVars
<1>3. CASE LoopEnd
  BY <1>3 DEF LoopEnd, fdVars
<1>4. CASE Interrupted
  BY <1>4 DEF Interrupted, fdVars
<1>5. ASSUME NEW R \in SUBSET Fds, NEW W \in SUBSET Fds, Select(R, W)
      PROVE  PollTypeOK' /\ UNCHANGED <<rfds_, wfds_, callbacks_>>
  <2>1. pipefd_' \in 0..PipeCap
    BY <1>5, PollAssumption DEF Select
  <2> QED
    BY <1>5, <2>1 DEF Select
<1> QED
  BY <1>1, <1>2, <1>3, <1>4, <1>5

--------------------------------------------------------------------------------
(* Types                                                                        *)

Pdus == [buf : Senders \cup {None}, sz : {0, PduSize}, solong : {-1} \cup 0..PduSize]
PCs  == {"idle", "send", "space", "complete", "woken", "remove",
         "removing", "finish", "open", "ref", "unref", "gone"}

LEMMA WriteType ==
    ASSUME TypeOK, NEW p \in Pdus, (\E n \in 0..PduSize : Wrote(p, n)) \/ WriteFails(p)
    PROVE  /\ wpdu_' \in Pdus /\ wpdu_'.buf = p.buf
           /\ frag' \in 0..(PduSize - 1) /\ full' \in BOOLEAN /\ broken' \in BOOLEAN
<1>1. ASSUME NEW n \in 0..PduSize, Wrote(p, n)
      PROVE  /\ wpdu_' \in Pdus /\ wpdu_'.buf = p.buf
             /\ frag' \in 0..(PduSize - 1) /\ full' \in BOOLEAN /\ broken' \in BOOLEAN
  <2>1. frag' \in 0..(PduSize - 1)
    BY <1>1, ConnAssumption DEF Wrote, TypeOK
  <2>2. p.solong + n \in {-1} \cup 0..PduSize
    BY <1>1, ConnAssumption DEF Wrote, Pdus
  <2>3. wpdu_' \in Pdus /\ wpdu_'.buf = p.buf
    BY <1>1, <2>2 DEF Wrote, Pdus
  <2> QED
    BY <1>1, <2>1, <2>3 DEF Wrote, TypeOK
<1>2. CASE WriteFails(p)
  <2>1. wpdu_' \in Pdus /\ wpdu_'.buf = p.buf
    BY <1>2, Zenon DEF WriteFails, Pdus
  <2> QED
    BY <1>2, <2>1 DEF WriteFails, TypeOK
<1> QED
  BY <1>1, <1>2

LEMMA PcType ==
    ASSUME pc \in [Threads -> PCs]
    PROVE  /\ \A t : \A next \in PCs : Goto(t, next) => pc' \in [Threads -> PCs]
           /\ \A from, next \in PCs : Moved(from, next) \in [Threads -> PCs]
BY DEF Goto, Moved

LEMMA RefsType ==
    ASSUME NEW S \in SUBSET Threads
    PROVE  Cardinality(S) \in 0..(Cardinality(Senders) + 1) /\ IsFiniteSet(S)
<1>1. IsFiniteSet(Threads) /\ Cardinality(Threads) = Cardinality(Senders) + 1
  BY ConnAssumption, FS_AddElement
<1>2. IsFiniteSet(S) /\ Cardinality(S) <= Cardinality(Threads)
  BY <1>1, FS_Subset
<1> QED
  BY <1>1, <1>2, FS_CardinalityType, ConnAssumption

LEMMA ConnTypeNext ==
    ASSUME TypeOK, [Next]_vars, refno_' = Cardinality(Users')
    PROVE  TypeOK'
<1> DEFINE Same  == UNCHANGED pollVars
           Typed == /\ PollTypeOK /\ dead_ \in BOOLEAN /\ wpdu_ \in Pdus
                    /\ rpdu_ \in {"none", "part", "full"} /\ pc \in [Threads -> PCs]
                    /\ full \in BOOLEAN /\ broken \in BOOLEAN
                    /\ deleted \in BOOLEAN /\ aborted \in BOOLEAN
                    /\ frag \in 0..(PduSize - 1) /\ closed \in BOOLEAN
<1>0. Typed
  BY DEF TypeOK, Pdus, PCs
<1>1. refno_' \in 0..(Cardinality(Senders) + 1)
  BY RefsType DEF Users
<1> SUFFICES Typed'
  BY <1>1 DEF TypeOK, Pdus, PCs
<1>2. ASSUME Same PROVE PollTypeOK'
  BY <1>0, <1>2 DEF pollVars, fdVars, loopVars, PollTypeOK
<1>3. ASSUME NEW t, NEW next \in PCs, Goto(t, next) PROVE pc' \in [Threads -> PCs]
  BY <1>0, <1>3, PcType
<1>4. ASSUME pc' = Moved("complete", "woken") \/
             \E t \in Threads : pc' = [Moved("space", "send") EXCEPT ![t] = "unref"]
      PROVE  pc' \in [Threads -> PCs]
  BY <1>0, <1>4, Zenon DEF Moved, PCs
<1>5. ASSUME NEW t \in Senders, Send(t) PROVE Typed'
  <2> DEFINE p == [buf |-> t, sz |-> PduSize, solong |-> 0]
  <2>0. UNCHANGED <<rpdu_, refno_, deleted, aborted, closed>> /\ p \in Pdus
    BY <1>5, ConnAssumption DEF Send, Pdus
  <2>1. CASE /\ Same /\ UNCHANGED <<dead_, wpdu_, full, broken, frag>>
             /\ \/ Goto(t, "unref") \/ Goto(t, "space")
                \/ pc' = [Moved("space", "send") EXCEPT ![t] = "unref"]
    <3>1. "unref" \in PCs /\ "space" \in PCs /\ t \in Threads
      BY ConnThreads DEF PCs
    <3>2. pc' \in [Threads -> PCs]
      BY <2>1, <3>1, <1>3, <1>4
    <3> QED
      BY <1>0, <1>2, <2>0, <2>1, <3>2
  <2>2. ASSUME NEW n \in 0..(PduSize - 1), Wrote(p, n), add_callback(Fd, {"w"}),
               Goto(t, "complete"), UNCHANGED <<loopVars, dead_>>
        PROVE  Typed'
    <3>1. pc' \in [Threads -> PCs]
      BY <2>2, <1>3 DEF PCs
    <3>2. PollTypeOK'
      BY <1>0, <2>2, AddType
    <3>3. n \in 0..PduSize
      BY ConnAssumption
    <3>4. wpdu_' \in Pdus /\ frag' \in 0..(PduSize - 1) /\ full' \in BOOLEAN /\ broken' \in BOOLEAN
      BY <2>0, <2>2, <3>3, WriteType
    <3> QED
      BY <1>0, <2>0, <2>2, <3>1, <3>2, <3>4
  <2>3. CASE WriteFails(p) /\ dead_' = TRUE /\ Goto(t, "remove") /\ Same
    <3>1. pc' \in [Threads -> PCs]
      BY <2>3, <1>3 DEF PCs
    <3>2. wpdu_' \in Pdus /\ frag' \in 0..(PduSize - 1) /\ full' \in BOOLEAN /\ broken' \in BOOLEAN
      BY <2>0, <2>3, WriteType
    <3> QED
      BY <1>0, <1>2, <2>0, <2>3, <3>1, <3>2
  <2> QED
    BY <1>5, <2>1, <2>2, <2>3, Zenon DEF Send
<1>6. ASSUME NEW t \in Threads, SendWait(t) \/ SendDone(t) \/ SpuriousWakeup(t) PROVE Typed'
  <2>0. /\ Same /\ UNCHANGED <<dead_, rpdu_, refno_, full, broken, deleted, aborted, frag, closed>>
        /\ wpdu_' \in {wpdu_, NoPdu}
    BY <1>6 DEF SendWait, SendDone, SpuriousWakeup
  <2>1. pc' \in [Threads -> PCs]
    <3>1. \/ \E next \in {"complete", "send", "woken"} : Goto(t, next)
          \/ pc' = [Moved("space", "send") EXCEPT ![t] = "unref"]
      BY <1>6 DEF SendWait, SendDone, SpuriousWakeup
    <3>2. \A next \in {"complete", "send", "woken"} : next \in PCs
      BY DEF PCs
    <3> QED
      BY <3>1, <3>2, <1>3, <1>4
  <2>2. NoPdu \in Pdus
    BY ConnAssumption DEF NoPdu, Pdus
  <2> QED
    BY <1>0, <1>2, <2>0, <2>1, <2>2
<1>7. CASE closeconn \/ GcIsDead \/ GcRef
  <2>0. /\ Same /\ UNCHANGED <<wpdu_, rpdu_, refno_, full, deleted, aborted, frag>>
        /\ dead_' \in {dead_, TRUE} /\ broken' \in {broken, TRUE} /\ closed' \in {closed, ~dead_}
    BY <1>7, Zenon DEF closeconn, GcIsDead, GcRef
  <2>1. pc' \in [Threads -> PCs]
    BY <1>7, <1>3 DEF closeconn, GcIsDead, GcRef, PCs
  <2> QED
    BY <1>0, <1>2, <2>0, <2>1, Zenon
<1>8. ASSUME NEW t \in Threads, Remove(t) \/ Removed(t) PROVE Typed'
  <2>0. UNCHANGED <<loopVars, dead_, wpdu_, rpdu_, refno_, full, broken, deleted, aborted, frag, closed>>
    BY <1>8 DEF Remove, Removed
  <2>1. pc' \in [Threads -> PCs]
    BY <1>8, <1>3 DEF Remove, Removed, PCs
  <2>2. PollTypeOK'
    <3>1. CASE Remove(t)
      <4>1. unwatch_fd(Fd, CB_RDWR)
        BY <3>1 DEF Remove, block_remove_fd
      <4> QED
        BY <1>0, <2>0, <3>1, <4>1, UnwatchType DEF Remove, block_remove_fd, loopVars, PollTypeOK
    <3>2. CASE Removed(t)
      BY <1>0, <2>0, <3>2 DEF Removed, fd_removed, fdVars, loopVars, PollTypeOK
    <3> QED
      BY <1>8, <3>1, <3>2
  <2> QED
    BY <1>0, <2>0, <2>1, <2>2
<1>9. ASSUME NEW t \in Threads, Unref(t) PROVE Typed'
  <2>1. pc' \in [Threads -> PCs]
    BY <1>9, <1>3 DEF Unref, PCs
  <2> QED
    BY <1>0, <1>2, <1>9, <2>1 DEF Unref
<1>10. CASE Loop \/ LoopInterrupted
  <2>1. PollTypeOK'
    BY <1>0, <1>10, LoopType DEF Loop, LoopInterrupted
  <2> QED
    BY <1>0, <1>10, <2>1 DEF Loop, LoopInterrupted, connVars
<1>11. CASE read_cb
  <2>0. /\ UNCHANGED <<wpdu_, full, broken, deleted, aborted, frag, closed>>
        /\ loop' = loop /\ readable' \in SUBSET Fds /\ writable' \in SUBSET Fds
    BY <1>0, <1>11 DEF read_cb, TakeReadable, PollTypeOK
  <2>1. CASE /\ UNCHANGED <<fdVars, callbacks_, pending_change_, removing, dead_>>
             /\ UNCHANGED <<rpdu_, pc>> \/ (rpdu_' = "part" /\ UNCHANGED pc) \/ got_pdu
    <3>1. pc' \in [Threads -> PCs]
      BY <1>0, <2>1, <1>3 DEF got_pdu, PCs
    <3>2. rpdu_' \in {"none", "part", "full"}
      BY <1>0, <2>1 DEF got_pdu
    <3>3. PollTypeOK'
      BY <1>0, <2>0, <2>1 DEF PollTypeOK, fdVars
    <3> QED
      BY <1>0, <2>0, <2>1, <3>1, <3>2, <3>3
  <2>2. CASE ReadFails
    <3>1. pc' \in [Threads -> PCs]
      BY <2>2, <1>4 DEF ReadFails, PCs
    <3>2. PollTypeOK'
      BY <1>0, <2>0, <2>2, DelType DEF ReadFails
    <3> QED
      BY <1>0, <2>0, <2>2, <3>1, <3>2 DEF ReadFails
  <2> QED
    BY <1>11, <2>1, <2>2 DEF read_cb
<1>12. CASE write_cb
  <2>0. /\ UNCHANGED <<rpdu_, refno_, deleted, closed>> /\ aborted' \in BOOLEAN
        /\ loop' = loop /\ readable' \in SUBSET Fds /\ writable' \in SUBSET Fds
    BY <1>0, <1>12 DEF write_cb, TakeWritable, PollTypeOK
  <2>1. PollTypeOK'
    <3>1. CASE UNCHANGED <<fdVars, callbacks_, pending_change_, removing>>
      BY <1>0, <2>0, <3>1 DEF PollTypeOK, fdVars
    <3>2. ASSUME NEW flag, del_callback(Fd, flag) PROVE PollTypeOK'
      BY <1>0, <2>0, <3>2, DelType
    <3> QED
      BY <1>12, <3>1, <3>2 DEF write_cb
  <2>2. pc' \in [Threads -> PCs]
    <3>1. pc' = pc \/ pc' = Moved("complete", "woken")
      BY <1>12 DEF write_cb
    <3> QED
      BY <1>0, <1>4, <3>1 DEF PCs
  <2>3. /\ wpdu_' \in Pdus /\ frag' \in 0..(PduSize - 1)
        /\ full' \in BOOLEAN /\ broken' \in BOOLEAN
    <3>1. \/ UNCHANGED <<wpdu_, full, broken, frag>>
          \/ \E n \in IF full THEN {0} ELSE 1..PduSize : Wrote(wpdu_, n)
          \/ WriteFails(wpdu_)
      BY <1>12 DEF write_cb
    <3>2. \A n \in IF full THEN {0} ELSE 1..PduSize : n \in 0..PduSize
      BY ConnAssumption
    <3> QED
      BY <1>0, <3>1, <3>2, WriteType
  <2>4. dead_' \in BOOLEAN
    BY <1>0, <1>12, Zenon DEF write_cb
  <2> QED
    BY <1>0, <2>0, <2>1, <2>2, <2>3, <2>4
<1>13. CASE Drain \/ SocketFails
  BY <1>0, <1>2, <1>13, Zenon DEF Drain, SocketFails
<1>14. CASE UNCHANGED vars
  BY <1>0, <1>2, <1>14 DEF vars, connVars
<1> QED
  BY <1>5, <1>6, <1>7, <1>8, <1>9, <1>10, <1>11, <1>12, <1>13, <1>14, ConnThreads DEF Next, Sender

--------------------------------------------------------------------------------
(* WriteInv                                                                     *)

\* Where every thread is after a step.
LEMMA PcAfter ==
    ASSUME TypeOK, NEW t \in Threads, NEW next, NEW from, NEW to
    PROVE  /\ Goto(t, next) => \A u \in Threads : pc'[u] = IF u = t THEN next ELSE pc[u]
           /\ pc' = Moved(from, to) =>
                 \A u \in Threads : pc'[u] = IF pc[u] = from THEN to ELSE pc[u]
           /\ pc' = [Moved(from, to) EXCEPT ![t] = next] =>
                 \A u \in Threads : pc'[u] = IF u = t THEN next ELSE IF pc[u] = from THEN to ELSE pc[u]
BY Zenon DEF TypeOK, Goto, Moved

\* A step that leaves wpdu_ and frag alone, and moves threads only outside a write
\* or, after a wait, within it.
LEMMA WriteKept ==
    ASSUME TypeOK, WriteInv, UNCHANGED <<wpdu_, frag>>, dead_ => dead_',
           \A t \in Senders : pc'[t] \in Writing <=> pc[t] \in Writing,
           \A t \in Threads : pc'[t] \in {"remove", "removing", "finish"} => dead_'
    PROVE  WriteInv'
BY DEF WriteInv

\* A part of a PDU of which k bytes were written is written.
LEMMA FragAfter ==
    ASSUME NEW k \in 0..PduSize, NEW n \in 0..PduSize, k + n <= PduSize, k < PduSize
    PROVE  (k + n) % PduSize = IF k + n = PduSize THEN 0 ELSE k + n
BY ConnAssumption

LEMMA WriteNext == ConnInv /\ [Next]_vars => WriteInv'
<1> SUFFICES ASSUME ConnInv, [Next]_vars PROVE WriteInv'
  OBVIOUS
<1>0. /\ TypeOK /\ WriteInv /\ PduSize \in Nat \ {0}
      /\ \A t \in Senders : t \in Threads /\ t # None /\ t # Owner
  BY ConnAssumption, ConnThreads DEF ConnInv
<1>1. ASSUME NEW t \in Senders, Send(t) PROVE WriteInv'
  <2> DEFINE p == [buf |-> t, sz |-> PduSize, solong |-> 0]
  <2>1. CASE /\ UNCHANGED <<dead_, wpdu_, frag>>
             /\ \/ Goto(t, "unref") \/ Goto(t, "space")
                \/ pc' = [Moved("space", "send") EXCEPT ![t] = "unref"]
    <3>1. pc[t] = "send"
      BY <1>1 DEF Send
    <3>2. \A u \in Threads : \/ pc'[u] = pc[u]
                             \/ u = t /\ pc'[u] \in {"unref", "space"}
                             \/ pc[u] = "space" /\ pc'[u] = "send"
      BY <1>0, <2>1, PcAfter
    <3> QED
      BY <1>0, <2>1, <3>1, <3>2, WriteKept DEF WriteInv, Writing
  <2>2. ASSUME ~dead_, wpdu_.buf = None, NEW n \in 0..(PduSize - 1), Wrote(p, n),
               Goto(t, "complete"), UNCHANGED dead_
        PROVE  WriteInv'
    <3>1. \A u \in Threads : pc'[u] = IF u = t THEN "complete" ELSE pc[u]
      BY <1>0, <2>2, PcAfter
    <3>2. frag = 0 /\ \A u \in Senders : pc[u] \notin Writing
      BY <1>0, <2>2 DEF WriteInv
    <3>3. wpdu_' = [buf |-> t, sz |-> PduSize, solong |-> n] /\ frag' = n
      <4>1. n % PduSize = n
        BY <1>0
      <4> QED
        BY <2>2, <3>2, <4>1 DEF Wrote
    <3> QED
      BY <1>0, <2>2, <3>1, <3>2, <3>3 DEF WriteInv, Writing
  <2>3. CASE ~dead_ /\ wpdu_.buf = None /\ WriteFails(p) /\ dead_' = TRUE /\ Goto(t, "remove")
    <3>1. \A u \in Threads : pc'[u] = IF u = t THEN "remove" ELSE pc[u]
      BY <1>0, <2>3, PcAfter
    <3>2. \A u \in Senders : pc[u] \notin Writing
      BY <1>0, <2>3 DEF WriteInv
    <3>3. wpdu_'.buf = t
      BY <2>3 DEF WriteFails
    <3> QED
      BY <1>0, <2>3, <3>1, <3>2, <3>3 DEF WriteInv, Writing
  <2> QED
    BY <1>1, <2>1, <2>2, <2>3, Zenon DEF Send
<1>2. ASSUME NEW t \in Senders, SendWait(t) \/ SpuriousWakeup(t) PROVE WriteInv'
  <2>1. \/ pc[t] = "woken" /\ Goto(t, "complete")
        \/ pc[t] = "space" /\ Goto(t, "send")
        \/ pc[t] = "complete" /\ Goto(t, "woken")
    BY <1>2 DEF SendWait, SpuriousWakeup
  <2>2. \A u \in Threads : \/ pc'[u] = pc[u]
                           \/ pc[u] \in {"woken", "complete"} /\ pc'[u] \in {"woken", "complete"}
                           \/ pc[u] = "space" /\ pc'[u] = "send"
    BY <1>0, <2>1, PcAfter
  <2>3. UNCHANGED <<dead_, wpdu_, frag>>
    BY <1>2 DEF SendWait, SpuriousWakeup
  <2> QED
    BY <1>0, <2>2, <2>3, WriteKept DEF WriteInv, Writing
<1>3. ASSUME NEW t \in Senders, SendDone(t) PROVE WriteInv'
  <2>1. /\ UNCHANGED <<dead_, frag>> /\ wpdu_' = NoPdu
        /\ pc[t] = "finish" \/ (pc[t] = "woken" /\ ~Incomplete)
        /\ pc' = [Moved("space", "send") EXCEPT ![t] = "unref"]
    BY <1>3 DEF SendDone
  <2>2. \A u \in Threads : pc'[u] = IF u = t THEN "unref" ELSE IF pc[u] = "space" THEN "send" ELSE pc[u]
    BY <1>0, <2>1 DEF Moved, TypeOK
  <2>3. wpdu_.buf = t
    BY <1>0, <2>1 DEF WriteInv, Writing
  <2>4. ~dead_ => frag = 0
    BY <1>0, <2>1, <2>3 DEF WriteInv, Incomplete, TypeOK
  <2> QED
    BY <1>0, <2>1, <2>2, <2>3, <2>4 DEF WriteInv, Writing, NoPdu
<1>4. CASE closeconn \/ GcIsDead \/ GcRef
  <2>1. \E next \in {"unref", "remove", "ref", "open"} :
            Goto(Owner, next) /\ (next = "remove" => dead_') /\ pc[Owner] \in {"open", "ref"}
    BY <1>4 DEF closeconn, GcIsDead, GcRef
  <2>2. \A u \in Threads : \/ pc'[u] = pc[u]
                           \/ u = Owner /\ pc'[u] \in {"unref", "remove", "ref", "open"} /\
                                 (pc'[u] = "remove" => dead_')
    BY <1>0, <2>1, ConnThreads, PcAfter
  <2>3. UNCHANGED <<wpdu_, frag>> /\ (dead_ => dead_')
    BY <1>4 DEF closeconn, GcIsDead, GcRef
  <2> QED
    BY <1>0, <2>2, <2>3, WriteKept DEF WriteInv, Writing
<1>5. ASSUME NEW t \in Threads, Remove(t) \/ Removed(t) PROVE WriteInv'
  <2>1. /\ UNCHANGED <<dead_, wpdu_, frag>> /\ pc[t] \in {"remove", "removing"}
        /\ \E next \in {"removing", "unref", "finish"} :
              Goto(t, next) /\ (next = "unref" => t = Owner)
    BY <1>5 DEF Remove, Removed
  <2>2. \A u \in Threads : \/ pc'[u] = pc[u]
                           \/ u = t /\ pc'[u] \in {"removing", "finish"}
                           \/ u = Owner /\ pc'[u] = "unref"
    BY <1>0, <2>1, PcAfter
  <2> QED
    BY <1>0, <2>1, <2>2, WriteKept DEF WriteInv, Writing
<1>6. ASSUME NEW t \in Threads, Unref(t) PROVE WriteInv'
  <2>1. /\ UNCHANGED <<dead_, wpdu_, frag>> /\ pc[t] = "unref"
        /\ \E next \in {"gone", "idle"} : Goto(t, next)
    BY <1>6 DEF Unref
  <2>2. \A u \in Threads : pc'[u] = pc[u] \/ (u = t /\ pc'[u] \in {"gone", "idle"})
    BY <1>0, <2>1, PcAfter
  <2> QED
    BY <1>0, <2>1, <2>2, WriteKept DEF WriteInv, Writing
<1>7. CASE Loop \/ LoopInterrupted \/ Drain \/ SocketFails \/ UNCHANGED vars
  <2>1. UNCHANGED <<dead_, wpdu_, frag, pc>>
    BY <1>7 DEF Loop, LoopInterrupted, Drain, SocketFails, vars, connVars
  <2> QED
    BY <1>0, <2>1, WriteKept DEF WriteInv
<1>8. CASE read_cb
  <2>0. UNCHANGED <<wpdu_, frag>>
    BY <1>8 DEF read_cb
  <2>1. CASE UNCHANGED <<dead_, pc>>
    BY <1>0, <2>0, <2>1, WriteKept DEF WriteInv
  <2>2. ASSUME NEW t \in Senders, pc[t] = "idle", NEW next \in {"send", "unref"}, Goto(t, next),
               UNCHANGED dead_
        PROVE  WriteInv'
    <3>1. \A u \in Threads : pc'[u] = IF u = t THEN next ELSE pc[u]
      BY <1>0, <2>2, PcAfter
    <3> QED
      BY <1>0, <2>0, <2>2, <3>1, WriteKept DEF WriteInv, Writing
  <2>3. CASE dead_' /\ pc' = Moved("complete", "woken")
    <3>1. \A u \in Threads : pc'[u] = IF pc[u] = "complete" THEN "woken" ELSE pc[u]
      BY <1>0, <2>3, ConnThreads, PcAfter
    <3> QED
      BY <1>0, <2>0, <2>3, <3>1, WriteKept DEF WriteInv, Writing
  <2> QED
    BY <1>8, <2>1, <2>2, <2>3 DEF read_cb, got_pdu, ReadFails
<1>9. CASE write_cb
  <2>1. pc' = pc \/ pc' = Moved("complete", "woken")
    BY <1>9 DEF write_cb
  <2>2. \A u \in Threads : pc'[u] = pc[u] \/ (pc[u] = "complete" /\ pc'[u] = "woken")
    BY <1>0, <2>1, ConnThreads, PcAfter
  <2>3. CASE UNCHANGED <<dead_, wpdu_, frag>>
    BY <1>0, <2>2, <2>3, WriteKept DEF WriteInv, Writing
  <2>4. ASSUME ~dead_, wpdu_.solong < wpdu_.sz, UNCHANGED dead_,
               NEW n \in 0..PduSize, Wrote(wpdu_, n)
        PROVE  WriteInv'
    <3>1. wpdu_.buf # None
      BY <1>0, <2>4 DEF WriteInv, NoPdu
    <3>2. /\ wpdu_.sz = PduSize /\ wpdu_.solong \in 0..PduSize /\ wpdu_.solong < PduSize
          /\ frag = wpdu_.solong
      BY <1>0, <2>4, <3>1 DEF WriteInv, TypeOK
    <3>3. /\ wpdu_'.buf = wpdu_.buf /\ wpdu_'.sz = PduSize /\ wpdu_'.solong = wpdu_.solong + n
          /\ wpdu_.solong + n <= PduSize /\ frag' = (wpdu_.solong + n) % PduSize
      BY <1>0, <2>4, <3>2 DEF Wrote, TypeOK
    <3>4. frag' = IF wpdu_.solong + n = PduSize THEN 0 ELSE wpdu_.solong + n
      BY <3>2, <3>3, FragAfter
    <3>5. /\ \A u \in Senders : pc'[u] \in Writing <=> wpdu_'.buf = u
          /\ \A u \in Threads : pc'[u] \in {"remove", "removing", "finish"} => dead_'
      BY <1>0, <2>2, <2>4, <3>3 DEF WriteInv, Writing
    <3>6. wpdu_.solong + n >= 0
      BY <3>2
    <3> QED
      BY <3>1, <3>3, <3>4, <3>5, <3>6 DEF WriteInv
  <2>5. CASE WriteFails(wpdu_) /\ dead_' = TRUE
    <3>1. wpdu_'.buf = wpdu_.buf
      BY <1>0, <2>5 DEF WriteFails, TypeOK
    <3> QED
      BY <1>0, <2>2, <2>5, <3>1 DEF WriteInv, Writing
  <2>6. \A n \in IF full THEN {0} ELSE 1..PduSize : n \in 0..PduSize
    BY <1>0
  <2> QED
    BY <1>9, <2>3, <2>4, <2>5, <2>6, Zenon DEF write_cb
<1> QED
  BY <1>1, <1>2, <1>3, <1>4, <1>5, <1>6, <1>7, <1>8, <1>9, ConnThreads DEF Next, Sender

--------------------------------------------------------------------------------
(* RefInv                                                                       *)

\* A step that takes and drops no reference, and tells the poll manager nothing
\* unless the connection works.
LEMMA RefKept ==
    ASSUME RefInv, UNCHANGED <<refno_, deleted>>,
           \A t \in Threads : pc'[t] \in {"idle", "gone"} <=> pc[t] \in {"idle", "gone"},
           dead_ => dead_',
           dead_' => Removal'
    PROVE  RefInv'
<1>1. Users' = Users
  BY DEF Users
<1> QED
  BY <1>1 DEF RefInv

\* As RefKept, when nobody leaves "remove" or "removing" and the poll manager's
\* sets stay.
LEMMA RefIdle ==
    ASSUME RefInv, UNCHANGED <<refno_, deleted, dead_, rfds_, wfds_, callbacks_>>,
           \A t \in Threads : /\ pc'[t] \in {"idle", "gone"} <=> pc[t] \in {"idle", "gone"}
                              /\ pc[t] = "remove" => pc'[t] = "remove"
                              /\ pc[t] = "removing" => pc'[t] = "removing"
    PROVE  RefInv'
<1>1. dead_' => Removal'
  BY DEF RefInv, Removal
<1> QED
  BY <1>1, RefKept

LEMMA RefNext == ConnInv /\ [Next]_vars => RefInv'
<1> SUFFICES ASSUME ConnInv, [Next]_vars PROVE RefInv'
  OBVIOUS
<1>0. /\ TypeOK /\ PollTypeOK /\ WriteInv /\ RefInv /\ Owner \in Threads
      /\ \A t \in Senders : t \in Threads /\ t # Owner
  BY ConnAssumption, ConnThreads DEF ConnInv, TypeOK
<1>1. ASSUME NEW t \in Senders, Send(t) PROVE RefInv'
  <2>0. UNCHANGED <<refno_, deleted>> /\ pc[t] = "send"
    BY <1>1 DEF Send
  <2>1. CASE /\ UNCHANGED <<pollVars, dead_>>
             /\ \/ Goto(t, "unref") \/ Goto(t, "space")
                \/ pc' = [Moved("space", "send") EXCEPT ![t] = "unref"]
    <3>1. \A u \in Threads : \/ pc'[u] = pc[u]
                             \/ u = t /\ pc'[u] \in {"unref", "space"}
                             \/ pc[u] = "space" /\ pc'[u] = "send"
      BY <1>0, <2>1, PcAfter
    <3>2. UNCHANGED <<rfds_, wfds_, callbacks_>>
      BY <2>1 DEF pollVars, fdVars
    <3> QED
      BY <1>0, <2>0, <2>1, <3>1, <3>2, RefIdle
  <2>2. CASE ~dead_ /\ Goto(t, "complete") /\ UNCHANGED dead_
    <3>1. \A u \in Threads : pc'[u] = IF u = t THEN "complete" ELSE pc[u]
      BY <1>0, <2>2, PcAfter
    <3> QED
      BY <1>0, <2>0, <2>2, <3>1, RefKept DEF Removal
  <2>3. CASE ~dead_ /\ dead_' = TRUE /\ Goto(t, "remove")
    <3>1. \A u \in Threads : pc'[u] = IF u = t THEN "remove" ELSE pc[u]
      BY <1>0, <2>3, PcAfter
    <3> QED
      BY <1>0, <2>0, <2>3, <3>1, RefKept DEF Removal
  <2> QED
    BY <1>1, <2>1, <2>2, <2>3, Zenon DEF Send
<1>2. ASSUME NEW t \in Senders, SendWait(t) \/ SpuriousWakeup(t) \/ SendDone(t) PROVE RefInv'
  <2>0. /\ UNCHANGED <<refno_, deleted, dead_, rfds_, wfds_, callbacks_>>
        /\ pc[t] \in {"woken", "space", "complete", "finish"}
    BY <1>2 DEF SendWait, SpuriousWakeup, SendDone, pollVars, fdVars
  <2>1. \/ Goto(t, "complete") \/ Goto(t, "send") \/ Goto(t, "woken")
        \/ pc' = [Moved("space", "send") EXCEPT ![t] = "unref"]
    BY <1>2 DEF SendWait, SpuriousWakeup, SendDone
  <2>2. \A u \in Threads : \/ pc'[u] = pc[u]
                           \/ u = t /\ pc'[u] \in {"complete", "send", "woken", "unref"}
                           \/ pc[u] = "space" /\ pc'[u] = "send"
    BY <1>0, <2>1, PcAfter
  <2> QED
    BY <1>0, <2>0, <2>2, RefIdle
<1>3. CASE closeconn \/ GcIsDead \/ GcRef
  <2>0. UNCHANGED <<refno_, deleted, rfds_, wfds_, callbacks_>> /\ pc[Owner] \in {"open", "ref"}
    BY <1>3 DEF closeconn, GcIsDead, GcRef, pollVars, fdVars
  <2>1. CASE UNCHANGED dead_
    <3>1. \E next \in {"unref", "ref", "open"} : Goto(Owner, next)
      BY <1>0, <1>3, <2>1 DEF closeconn, GcIsDead, GcRef
    <3>2. \A u \in Threads : pc'[u] = pc[u] \/ (u = Owner /\ pc'[u] \in {"unref", "ref", "open"})
      BY <1>0, <3>1, PcAfter
    <3> QED
      BY <1>0, <2>0, <2>1, <3>2, RefIdle
  <2>2. CASE ~dead_ /\ dead_' /\ Goto(Owner, "remove")
    <3>1. \A u \in Threads : pc'[u] = IF u = Owner THEN "remove" ELSE pc[u]
      BY <1>0, <2>2, PcAfter
    <3> QED
      BY <1>0, <2>0, <2>2, <3>1, RefKept DEF Removal
  <2> QED
    BY <1>3, <2>1, <2>2 DEF closeconn, GcIsDead, GcRef
<1>4. ASSUME NEW t \in Threads, Remove(t) PROVE RefInv'
  <2>1. UNCHANGED <<refno_, deleted, dead_, callbacks_>> /\ pc[t] = "remove" /\ unwatch_fd(Fd, CB_RDWR)
    BY <1>4 DEF Remove, block_remove_fd
  <2>2. \A u \in Threads : pc'[u] = IF u = t THEN "removing" ELSE pc[u]
    BY <1>0, <1>4, PcAfter DEF Remove
  <2>3. Fd \notin rfds_' /\ Fd \notin wfds_'
    BY <1>0, <2>1, UnwatchType
  <2> QED
    BY <1>0, <2>1, <2>2, <2>3, RefKept DEF Removal
<1>5. ASSUME NEW t \in Threads, Removed(t) PROVE RefInv'
  <2>1. /\ UNCHANGED <<refno_, deleted, dead_, rfds_, wfds_>> /\ pc[t] = "removing"
        /\ callbacks_' = callbacks_ \ {Fd}
        /\ \E next \in {"unref", "finish"} : Goto(t, next)
    BY <1>5 DEF Removed, fd_removed, fdVars
  <2>2. \A u \in Threads : pc'[u] = pc[u] \/ (u = t /\ pc'[u] \in {"unref", "finish"})
    BY <1>0, <2>1, PcAfter
  <2>3. dead_' => Removal'
    BY <1>0, <2>1, <2>2 DEF RefInv, Removal
  <2> QED
    BY <1>0, <2>1, <2>2, <2>3, RefKept
<1>6. ASSUME NEW t \in Threads, Unref(t) PROVE RefInv'
  <2>1. /\ UNCHANGED <<dead_, rfds_, wfds_, callbacks_>> /\ pc[t] = "unref"
        /\ refno_' = refno_ - 1 /\ deleted' = (deleted \/ (refno_ = 1 /\ dead_))
        /\ \E next \in {"gone", "idle"} : Goto(t, next)
    BY <1>6 DEF Unref, pollVars, fdVars
  <2>2. /\ \A u \in Threads : u # t => pc'[u] = pc[u]
        /\ pc'[t] \in {"gone", "idle"}
    BY <1>0, <2>1, PcAfter
  <2>3. Users' = Users \ {t} /\ t \in Users
    BY <2>1, <2>2 DEF Users
  <2>4. IsFiniteSet(Users)
    BY RefsType DEF Users
  <2>5. refno_' = Cardinality(Users')
    BY <1>0, <2>1, <2>3, <2>4, FS_RemoveElement, Zenon DEF RefInv
  <2>6. deleted' => dead_' /\ Users' = {}
    <3>1. CASE deleted
      BY <1>0, <2>3, <3>1 DEF RefInv
    <3>2. CASE refno_ = 1 /\ dead_
      <4>1. Cardinality(Users') = 0 /\ IsFiniteSet(Users')
        BY <2>1, <2>3, <2>4, <2>5, <3>2, FS_RemoveElement
      <4> QED
        BY <2>1, <3>2, <4>1, FS_EmptySet
    <3> QED
      BY <2>1, <3>1, <3>2, Zenon
  <2>7. dead_' => Removal'
    BY <1>0, <2>1, <2>2 DEF RefInv, Removal
  <2> QED
    BY <2>5, <2>6, <2>7 DEF RefInv
<1>7. CASE Loop \/ LoopInterrupted \/ Drain \/ SocketFails \/ UNCHANGED vars
  <2>1. UNCHANGED <<refno_, deleted, dead_, pc>>
    BY <1>7 DEF Loop, LoopInterrupted, Drain, SocketFails, vars, connVars
  <2>2. UNCHANGED <<rfds_, wfds_, callbacks_>>
    <3>1. CASE Loop \/ LoopInterrupted
      BY <1>0, <3>1, LoopType DEF Loop, LoopInterrupted
    <3>2. CASE Drain \/ SocketFails \/ UNCHANGED vars
      BY <3>2 DEF Drain, SocketFails, vars, pollVars, fdVars
    <3> QED
      BY <1>7, <3>1, <3>2
  <2> QED
    BY <1>0, <2>1, <2>2, RefIdle
<1>8. CASE read_cb
  <2>0. UNCHANGED deleted
    BY <1>8 DEF read_cb
  <2>1. CASE UNCHANGED <<fdVars, callbacks_, dead_, refno_, pc>>
    BY <1>0, <2>0, <2>1, RefIdle DEF fdVars
  <2>2. ASSUME ~dead_, UNCHANGED dead_, refno_' = refno_ + 1,
               NEW t \in Senders, pc[t] = "idle", NEW next \in {"send", "unref"}, Goto(t, next)
        PROVE  RefInv'
    <3>1. \A u \in Threads : pc'[u] = IF u = t THEN next ELSE pc[u]
      BY <1>0, <2>2, PcAfter
    <3>2. Users' = Users \cup {t} /\ t \notin Users
      BY <1>0, <2>2, <3>1 DEF Users
    <3>3. IsFiniteSet(Users)
      BY RefsType DEF Users
    <3>4. refno_' = Cardinality(Users')
      BY <1>0, <2>2, <3>2, <3>3, FS_AddElement DEF RefInv
    <3> QED
      BY <1>0, <2>0, <2>2, <3>4 DEF RefInv
  <2>3. CASE ReadFails /\ ~dead_
    <3>1. \A u \in Threads : pc'[u] = IF pc[u] = "complete" THEN "woken" ELSE pc[u]
      BY <1>0, <2>3, PcAfter DEF ReadFails
    <3>2. Fd \notin rfds_' /\ Fd \notin wfds_' /\ Fd \notin callbacks_'
      <4>1. loop' = loop /\ readable' \in SUBSET Fds /\ writable' \in SUBSET Fds
        BY <1>0, <1>8 DEF read_cb, TakeReadable, PollTypeOK
      <4> QED
        BY <1>0, <2>3, <4>1, DelType DEF ReadFails
    <3> QED
      BY <1>0, <2>0, <2>3, <3>1, <3>2, RefKept DEF ReadFails, Removal
  <2> QED
    BY <1>8, <2>1, <2>2, <2>3 DEF read_cb, got_pdu
<1>9. CASE write_cb
  <2>0. UNCHANGED <<refno_, deleted>>
    BY <1>9 DEF write_cb
  <2>1. pc' = pc \/ pc' = Moved("complete", "woken")
    BY <1>9 DEF write_cb
  <2>2. \A u \in Threads : pc'[u] = pc[u] \/ (pc[u] = "complete" /\ pc'[u] = "woken")
    BY <1>0, <2>1, ConnThreads, PcAfter
  <2>3. CASE UNCHANGED <<fdVars, callbacks_, dead_>>
    BY <1>0, <2>0, <2>2, <2>3, RefIdle DEF fdVars
  <2>4. CASE ~dead_ /\ UNCHANGED dead_
    BY <1>0, <2>0, <2>2, <2>4, RefKept DEF Removal
  <2>5. CASE dead_' = TRUE /\ del_callback(Fd, CB_RDWR)
    <3>1. Fd \notin rfds_' /\ Fd \notin wfds_' /\ Fd \notin callbacks_'
      <4>1. loop' = loop /\ readable' \in SUBSET Fds /\ writable' \in SUBSET Fds
        BY <1>0, <1>9 DEF write_cb, TakeWritable, PollTypeOK
      <4> QED
        BY <1>0, <2>5, <4>1, DelType
    <3> QED
      BY <1>0, <2>0, <2>2, <2>5, <3>1, RefKept DEF Removal
  <2> QED
    BY <1>9, <2>3, <2>4, <2>5, Zenon DEF write_cb
<1> QED
  BY <1>1, <1>2, <1>3, <1>4, <1>5, <1>6, <1>7, <1>8, <1>9, ConnThreads DEF Next, Sender

--------------------------------------------------------------------------------
LEMMA ConnInvHolds == Spec => []ConnInv
<1>1. ConnInv /\ [Next]_vars => ConnInv'
  <2> SUFFICES ASSUME ConnInv, [Next]_vars PROVE ConnInv'
    OBVIOUS
  <2>1. WriteInv' /\ RefInv'
    BY WriteNext, RefNext
  <2>2. TypeOK'
    BY <2>1, ConnTypeNext DEF ConnInv, RefInv
  <2> QED
    BY <2>1, <2>2 DEF ConnInv
<1> QED
  BY <1>1, ConnInvInit, PTL DEF Spec

(* However many threads send on a connection, and whatever wakes them: a PDU of *)
(* which a part is on the wire is still that of a thread inside send, and the   *)
(* next one is not begun before it is complete (connection::send, write_cb).    *)
THEOREM WholePdusHolds == Spec => []WholePdus
<1>1. ConnInv => WholePdus
  <2> SUFFICES ASSUME ConnInv, frag # 0, ~dead_ PROVE WholePdus
    BY DEF WholePdus
  <2>1. wpdu_.buf # None /\ wpdu_.solong = frag
    BY DEF ConnInv, WriteInv
  <2>2. wpdu_.buf \in Senders
    BY <2>1 DEF ConnInv, TypeOK
  <2>3. pc[wpdu_.buf] \in {"complete", "woken"}
    BY <2>2, ConnThreads DEF ConnInv, WriteInv, Writing
  <2> QED
    BY <2>1, <2>2, <2>3 DEF WholePdus
<1> QED
  BY <1>1, ConnInvHolds, PTL

(* decref deletes a connection only when it is dead and no thread can use it    *)
(* any more: not one inside send or closeconn, not the owner, and not the poll  *)
(* manager; and ~connection's assertion that nothing is left to write holds.    *)
THEOREM DeletedOnlyWhenUnusedHolds == Spec => []DeletedOnlyWhenUnused
<1>1. ConnInv => DeletedOnlyWhenUnused
  <2> SUFFICES ASSUME ConnInv, deleted PROVE DeletedOnlyWhenUnused
    BY DEF DeletedOnlyWhenUnused
  <2>1. dead_ /\ Users = {}
    BY DEF ConnInv, RefInv
  <2>2. \A t \in Threads : pc[t] \in {"idle", "gone"}
    BY <2>1 DEF Users
  <2>3. refno_ = 0
    BY <2>1, FS_EmptySet DEF ConnInv, RefInv
  <2>4. wpdu_.buf = None
    BY <2>2, ConnThreads DEF ConnInv, TypeOK, WriteInv, Writing
  <2>5. Fd \notin callbacks_ \cup rfds_ \cup wfds_
    BY <2>1, <2>2 DEF ConnInv, RefInv, Removal
  <2> QED
    BY <2>1, <2>2, <2>3, <2>4, <2>5 DEF DeletedOnlyWhenUnused
<1> QED
  BY <1>1, ConnInvHolds, PTL

================================================================================
