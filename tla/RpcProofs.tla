------------------------------- MODULE RpcProofs -------------------------------
(* Theorems about Rpc, for any set of clients and any values of the bounds.     *)
EXTENDS Rpc, WellFoundedInduction, TLAPS

--------------------------------------------------------------------------------
(* The acknowledgement window.                                                  *)

\* Every non-empty set of naturals has a least element.
LEMMA MinExists ==
    ASSUME NEW S \in SUBSET Nat, S # {}
    PROVE  \E m \in S : \A w \in S : m <= w
<1>1. IsWellFoundedOn(OpToRel(<, Nat), Nat)
  BY NatLessThanWellFounded, Zenon
<1>2. PICK m \in S : \A w \in S : ~ (<<w, m>> \in OpToRel(<, Nat))
  BY <1>1, WFMin, Zenon
<1>3. \A w \in S : ~ (w < m)
  BY <1>2, Zenon DEF OpToRel
<1> QED
  BY <1>3

\* Every non-empty set of naturals with an upper bound has a greatest element.
LEMMA MaxExists ==
    ASSUME NEW N \in Nat, NEW S \in SUBSET (0..N), S # {}
    PROVE  \E m \in S : \A w \in S : w <= m
<1> DEFINE T == {n \in 0..N : (N - n) \in S}
<1>1. T \in SUBSET Nat /\ T # {}
  <2>1. PICK s \in S : TRUE
    BY Zenon
  <2>2. (N - s) \in 0..N /\ N - (N - s) = s
    OBVIOUS
  <2> QED
    BY <2>2
<1>2. PICK t \in T : \A u \in T : t <= u
  BY <1>1, MinExists, Zenon
<1>3. \A w \in S : (N - w) \in T
  <2> TAKE w \in S
  <2>1. N - (N - w) = w /\ (N - w) \in 0..N
    OBVIOUS
  <2> QED
    BY <2>1
<1>4. \A w \in S : w <= N - t
  <2> TAKE w \in S
  <2>1. t <= N - w /\ w \in 0..N /\ t \in 0..N
    BY <1>2, <1>3
  <2> QED
    BY <2>1
<1> QED
  BY <1>2, <1>4

\* front() of a window is its least element.
LEMMA FrontIsMin ==
    ASSUME NEW W \in SUBSET Nat, W # {}
    PROVE  Front(W) \in W /\ \A w \in W : Front(W) <= w
BY MinExists, Zenon DEF Front

\* compress never empties the window, and what it pops is acknowledged by the
\* new front: everything up to there was in the window or below its old front.
LEMMA CompressFront ==
    ASSUME NEW N \in Nat, NEW W \in SUBSET (0..N), W # {}
    PROVE  /\ Compress(W) \in SUBSET W /\ Compress(W) # {}
           /\ Front(W)..Front(Compress(W)) \subseteq W
<1>0. \A w \in W : w \in Nat
  OBVIOUS
<1>1. PICK m \in Nat : m \in W /\ \A w \in W : w <= m
  BY <1>0, MaxExists, Zenon
<1>2. PICK a \in Nat : a = Front(W) /\ a \in W /\ \A w \in W : a <= w
  <2>1. W \in SUBSET Nat
    BY <1>0
  <2> QED
    BY <1>0, <2>1, FrontIsMin, Zenon
<1>3. m \in Compress(W)
  <2>1. (m + 1) \in a..(m + 1)
    BY <1>1, <1>2
  <2>2. (m + 1) \notin W
    BY <1>1
  <2> QED
    BY <1>1, <1>2, <2>1, <2>2 DEF Compress
<1>4. Compress(W) \in SUBSET W /\ Compress(W) # {}
  BY <1>3 DEF Compress
<1>5. PICK f \in Nat : /\ f = Front(Compress(W)) /\ f \in Compress(W)
                       /\ \A n \in Compress(W) : f <= n
  <2>1. Compress(W) \in SUBSET Nat
    BY <1>0, <1>4, Zenon
  <2> QED
    BY <1>4, <2>1, FrontIsMin
<1>6. ASSUME NEW y \in a..f, y \notin W
      PROVE  FALSE
  <2> DEFINE Gap == {g \in Nat : a <= g /\ g <= f /\ g \notin W}
  <2>1. PICK g \in Gap : \A h \in Gap : g <= h
    <3>1. y \in Gap
      BY <1>6
    <3>2. Gap \in SUBSET Nat /\ Gap # {}
      BY <3>1
    <3> HIDE DEF Gap
    <3> QED
      BY <3>2, MinExists
  <2>2. g \in Nat /\ g > a /\ g < f
    <3>1. g \in Nat /\ a <= g /\ g <= f /\ g \notin W
      BY <2>1
    <3>2. f \in W
      BY <1>4, <1>5
    <3> QED
      BY <1>2, <3>1, <3>2
  <2>3. (g - 1) \in W
    <3>1. (g - 1) \in Nat /\ a <= g - 1 /\ g - 1 <= f /\ ~ (g <= g - 1)
      BY <2>2
    <3> QED
      BY <2>1, <3>1
  <2>4. g \in a..((g - 1) + 1)
    BY <2>2
  <2>5. (g - 1) \in Compress(W)
    BY <1>2, <2>1, <2>3, <2>4 DEF Compress
  <2> QED
    BY <1>5, <2>2, <2>5
<1> QED
  BY <1>2, <1>4, <1>5, <1>6

\* update_xid_rep adds nothing but x to the window, keeps it non-empty, and moves
\* its front only over values that are in the window.
LEMMA UpdateXidRep ==
    ASSUME NEW W \in SUBSET (0..MaxXid), W # {}, NEW x \in 0..MaxXid
    PROVE  /\ update_xid_rep(W, x) \in SUBSET (W \cup {x})
           /\ update_xid_rep(W, x) # {}
           /\ Front(W) \in 0..MaxXid
           /\ \A y \in 1..Front(update_xid_rep(W, x)) :
                 y <= Front(W) \/ y \in W \cup {x}
<1>1. PICK a \in 0..MaxXid : a = Front(W) /\ a \in W /\ \A w \in W : a <= w
  <2>1. W \in SUBSET Nat
    BY RpcAssumption
  <2> QED
    BY <2>1, FrontIsMin, Zenon
<1>2. CASE x <= a
  <2>1. update_xid_rep(W, x) = W
    BY <1>1, <1>2 DEF update_xid_rep
  <2> QED
    BY <1>1, <2>1, RpcAssumption
<1>3. CASE ~ (x <= a)
  <2> DEFINE V == W \cup {x}
  <2>1. update_xid_rep(W, x) = Compress(V)
    BY <1>1, <1>3 DEF update_xid_rep
  <2>2. V \in SUBSET (0..MaxXid) /\ V # {} /\ V \in SUBSET Nat
    BY RpcAssumption
  <2>3. PICK b \in 0..MaxXid : b = Front(V) /\ b \in V /\ \A w \in V : b <= w
    <3> HIDE DEF V
    <3> QED
      BY <2>2, FrontIsMin, Zenon
  <2>4. b = a
    <3>1. b <= a
      BY <1>1, <2>3
    <3>2. b \in W
      BY <1>3, <2>3, <3>1, RpcAssumption
    <3>3. a <= b
      BY <1>1, <3>2
    <3> QED
      BY <3>1, <3>3, RpcAssumption
  <2>5. /\ Compress(V) \in SUBSET V /\ Compress(V) # {}
        /\ b..Front(Compress(V)) \subseteq V
    <3> HIDE DEF V
    <3> QED
      BY <2>2, <2>3, CompressFront, RpcAssumption, Zenon
  <2>6. PICK f \in 0..MaxXid : f = Front(Compress(V))
    <3>1. Compress(V) \in SUBSET Nat
      BY <2>2, <2>5, Zenon
    <3>2. Front(Compress(V)) \in Compress(V)
      BY <2>5, <3>1, FrontIsMin
    <3> QED
      BY <2>2, <2>5, <3>2, Zenon
  <2>7. ASSUME NEW y \in 1..f PROVE y <= a \/ y \in V
    <3>1. CASE y <= a
      BY <3>1
    <3>2. CASE ~ (y <= a)
      <4>1. y \in b..f
        BY <2>4, <2>6, <2>7, <3>2, <1>1, RpcAssumption
      <4> QED
        BY <2>5, <2>6, <4>1
    <3> QED
      BY <3>1, <3>2
  <2> QED
    BY <1>1, <2>1, <2>5, <2>6, <2>7
<1> QED
  BY <1>1, <1>2, <1>3, RpcAssumption

--------------------------------------------------------------------------------
(* Type correctness.                                                            *)

\* Sending on a connection keeps the queues of PDUs well typed.
LEMMA SentType ==
    ASSUME NEW M, NEW q \in [Clients -> [Conns -> Seq(M)]], NEW c \in Clients,
           NEW k \in 0..MaxConn, NEW m \in M
    PROVE  Sent(q, c, k, m) \in [Clients -> [Conns -> Seq(M)]]
<1>1. CASE k # 0 /\ k \notin cdead[c] \cup sdead[c]
  <2>1. k \in Conns
    BY <1>1, RpcAssumption DEF Conns
  <2>2. Append(q[c][k], m) \in Seq(M)
    BY <2>1
  <2> QED
    BY <1>1, <2>1, <2>2 DEF Sent
<1>2. CASE ~ (k # 0 /\ k \notin cdead[c] \cup sdead[c])
  BY <1>2 DEF Sent
<1> QED
  BY <1>1, <1>2

LEMMA TypeInit == Init => TypeOK
<1> SUFFICES ASSUME Init PROVE TypeOK
  OBVIOUS
<1> USE RpcAssumption DEF Init
<1>1. CltTypeOK
  BY DEF CltTypeOK, Frames, Headers, Nonces, Rets, CallPc
<1>2. ConnTypeOK
  BY DEF ConnTypeOK
<1>3. SrvTypeOK
  BY DEF SrvTypeOK, Nonces, JobPc
<1>4. HistTypeOK
  <2>1. exec \in [Nonces -> [Clients -> [Xids -> Nat]]] /\ acked \in [Clients -> 0..MaxXid]
    OBVIOUS
  <2>2. freedSent \in BOOLEAN
    BY Zenon
  <2> QED
    BY <2>1, <2>2, Zenon DEF HistTypeOK
<1> QED
  BY <1>1, <1>2, <1>3, <1>4 DEF TypeOK

\* A step that leaves a part of the state alone leaves its types alone.
LEMMA CltKept == CltTypeOK /\ UNCHANGED cltVars => CltTypeOK'
BY Zenon DEF CltTypeOK, cltVars

LEMMA ConnKept ==
    ConnTypeOK /\ UNCHANGED connVars /\ UNCHANGED reqs /\ UNCHANGED reps => ConnTypeOK'
BY Zenon DEF ConnTypeOK, connVars

LEMMA SrvKept == SrvTypeOK /\ UNCHANGED srvVars => SrvTypeOK'
BY Zenon DEF SrvTypeOK, srvVars

LEMMA HistKept == HistTypeOK /\ UNCHANGED histVars => HistTypeOK'
BY Zenon DEF HistTypeOK, histVars

LEMMA TypeClient ==
    ASSUME TypeOK, NEW c \in Clients, NEW x \in Xids, CallStep(c, x)
    PROVE  TypeOK'
<1> USE RpcAssumption
<1> DEFINE k == call[c][x]
<1>0. CltTypeOK /\ ConnTypeOK /\ SrvTypeOK /\ HistTypeOK /\ k \in Frames
  BY DEF TypeOK, CltTypeOK
<1>1. CASE Transmit(c, x)
  <2>1. PICK ch \in 0..MaxConn :
           /\ get_refconn(c, k.ch, ch)
           /\ call' = [call EXCEPT ![c][x] = [k EXCEPT !.ch = ch, !.pc = NextWait(k.round)]]
           /\ reqs' = Sent(reqs, c, ch, x)
    BY <1>1, Zenon DEF Transmit
  <2>2. [k EXCEPT !.ch = ch, !.pc = NextWait(k.round)] \in Frames
    <3>1. NextWait(k.round) \in CallPc /\ (NextWait(k.round) = "wait" => k.round < Rounds)
      BY <1>0 DEF Frames, NextWait, CallPc
    <3> QED
      BY <1>0, <3>1, Zenon DEF Frames
  <2>3. call' \in [Clients -> [Xids -> Frames]]
    BY <1>0, <2>1, <2>2 DEF CltTypeOK
  <2>4. reqs' \in [Clients -> [Conns -> Seq(Xids)]]
    BY <1>0, <2>1, SentType, Zenon DEF ConnTypeOK
  <2>5. chan_' \in [Clients -> 0..MaxConn] /\ nconn' \in [Clients -> 0..MaxConn]
    <3>1. chan_ \in [Clients -> 0..MaxConn] /\ nconn \in [Clients -> 0..MaxConn]
      BY <1>0 DEF CltTypeOK, ConnTypeOK
    <3>2. nconn[c] + 1 <= MaxConn => nconn[c] + 1 \in 0..MaxConn
      BY <3>1
    <3>3. \/ chan_' = chan_ /\ nconn' = nconn
          \/ /\ nconn[c] + 1 <= MaxConn /\ chan_' = [chan_ EXCEPT ![c] = nconn[c] + 1]
             /\ nconn' = [nconn EXCEPT ![c] = nconn[c] + 1]
          \/ chan_' = [chan_ EXCEPT ![c] = 0] /\ nconn' = nconn
      BY <2>1 DEF get_refconn
    <3> QED
      BY <3>1, <3>2, <3>3
  <2>6. CltTypeOK' /\ ConnTypeOK'
    BY <1>0, <1>1, <2>3, <2>4, <2>5, Zenon DEF Transmit, CltTypeOK, ConnTypeOK
  <2>7. SrvTypeOK' /\ HistTypeOK'
    BY <1>0, <1>1, SrvKept, HistKept, Zenon DEF Transmit
  <2> QED
    BY <2>6, <2>7 DEF TypeOK
<1>2. CASE Wake(c, x)
  <2>1. [k EXCEPT !.pc = "over"] \in Frames
    BY <1>0 DEF Frames, CallPc
  <2>2. CltTypeOK'
    BY <1>0, <1>2, <2>1 DEF Wake, CltTypeOK
  <2>3. ConnTypeOK' /\ SrvTypeOK' /\ HistTypeOK'
    BY <1>0, <1>2, ConnKept, SrvKept, HistKept, Zenon DEF Wake
  <2> QED
    BY <2>2, <2>3 DEF TypeOK
<1>3. CASE Timeout(c, x)
  <2> DEFINE pc == IF k.ch = 0 \/ k.ch \in cdead[c] THEN "send" ELSE NextWait(k.round + 1)
  <2>1. [k EXCEPT !.round = k.round + 1, !.pc = pc] \in Frames
    <3>1. k.pc = "wait"
      BY <1>3 DEF Timeout
    <3>2. k.round + 1 \in 0..Rounds /\ pc \in CallPc /\ (pc = "wait" => k.round + 1 < Rounds)
      BY <1>0, <3>1 DEF Frames, NextWait, CallPc
    <3> QED
      BY <1>0, <3>2, Zenon DEF Frames
  <2>2. call' = [call EXCEPT ![c][x] = [k EXCEPT !.round = k.round + 1, !.pc = pc]]
    BY <1>3 DEF Timeout
  <2> HIDE DEF pc
  <2>3. CltTypeOK'
    BY <1>0, <1>3, <2>1, <2>2 DEF Timeout, CltTypeOK
  <2>4. ConnTypeOK' /\ SrvTypeOK' /\ HistTypeOK'
    BY <1>0, <1>3, ConnKept, SrvKept, HistKept, Zenon DEF Timeout
  <2> QED
    BY <2>3, <2>4 DEF TypeOK
<1>4. CASE Finish(c, x)
  <2> DEFINE ret == IF k.ret = 0 THEN timeout_failure ELSE k.ret
             W   == xid_rep_window_[c]
  <2>1. update_xid_rep(W, x) \in (SUBSET (0..MaxXid)) \ {{}}
    <3>1. W \in SUBSET (0..MaxXid) /\ W # {} /\ x \in 0..MaxXid
      BY <1>0 DEF CltTypeOK, Xids
    <3> HIDE DEF W
    <3>2. update_xid_rep(W, x) \in SUBSET (W \cup {x}) /\ update_xid_rep(W, x) # {}
      BY <3>1, UpdateXidRep
    <3> QED
      BY <3>1, <3>2, Zenon
  <2>2. [pc |-> "returned", ch |-> 0, round |-> 0, ret |-> ret] \in Frames
    BY <1>0 DEF Frames, CallPc, Rets
  <2>3. /\ xid_rep_window_' \in [Clients -> (SUBSET (0..MaxXid)) \ {{}}]
        /\ call' \in [Clients -> [Xids -> Frames]]
    BY <1>0, <1>4, <2>1, <2>2 DEF Finish, CltTypeOK
  <2>4. srv_nonce_' \in [Clients -> Nonces \cup {0}]
    <3>1. k.ret > 0 => k.ret \in Nonces
      BY <1>0 DEF Frames, Rets, timeout_failure, atmostonce_failure, oldsrv_failure
    <3> QED
      BY <1>0, <1>4, <3>1 DEF Finish, CltTypeOK
  <2>5. CltTypeOK'
    BY <1>0, <1>4, <2>3, <2>4 DEF Finish, CltTypeOK
  <2>6. ConnTypeOK' /\ SrvTypeOK' /\ HistTypeOK'
    BY <1>0, <1>4, ConnKept, SrvKept, HistKept, Zenon DEF Finish
  <2> QED
    BY <2>5, <2>6 DEF TypeOK
<1> QED
  BY <1>1, <1>2, <1>3, <1>4 DEF CallStep

LEMMA TypeNet ==
    ASSUME TypeOK, NEW c \in Clients, NEW k \in Conns,
           GotReply(c, k) \/ GotRequest(c, k) \/ ClientDead(c, k) \/ ServerDead(c, k)
    PROVE  TypeOK'
<1> USE RpcAssumption
<1>0. CltTypeOK /\ ConnTypeOK /\ SrvTypeOK /\ HistTypeOK
  BY DEF TypeOK
<1>1. CASE GotReply(c, k)
  <2> DEFINE r == Head(reps[c][k])
             W == xid_rep_window_[c]
  <2>1. r \in Replies /\ Tail(reps[c][k]) \in Seq(Replies)
    <3>1. reps[c][k] \in Seq(Replies)
      BY <1>0 DEF ConnTypeOK
    <3>2. reps[c][k] # <<>>
      BY <1>1, Zenon DEF GotReply
    <3> QED
      BY <3>1, <3>2
  <2>2. update_xid_rep(W, r.xid) \in (SUBSET (0..MaxXid)) \ {{}}
    <3>1. W \in SUBSET (0..MaxXid) /\ W # {}
      BY <1>0 DEF CltTypeOK
    <3>2. r.xid \in 0..MaxXid
      BY <2>1 DEF Replies
    <3> HIDE DEF W, r
    <3>3. update_xid_rep(W, r.xid) \in SUBSET (W \cup {r.xid}) /\ update_xid_rep(W, r.xid) # {}
      BY <3>1, <3>2, UpdateXidRep
    <3> QED
      BY <3>1, <3>2, <3>3, Zenon
  <2>3. call' \in [Clients -> [Xids -> Frames]]
    <3> DEFINE v == [call[c][r.xid] EXCEPT !.ret = r.ret]
    <3>1. ASSUME r.xid \in Xids PROVE v \in Frames
      <4> HIDE DEF r
      <4>1. call[c][r.xid] \in Frames
        BY <1>0, <3>1 DEF CltTypeOK
      <4>2. r.ret \in Rets
        BY <2>1 DEF Replies
      <4> QED
        BY <4>1, <4>2 DEF Frames
    <3>2. call' = call \/ (r.xid \in Xids /\ call' = [call EXCEPT ![c][r.xid] = v])
      BY <1>1, Zenon DEF GotReply
    <3>3. call \in [Clients -> [Xids -> Frames]]
      BY <1>0 DEF CltTypeOK
    <3> HIDE DEF v, r
    <3> QED
      BY <3>1, <3>2, <3>3
  <2>4. /\ reps' \in [Clients -> [Conns -> Seq(Replies)]]
        /\ xid_rep_window_' \in [Clients -> (SUBSET (0..MaxXid)) \ {{}}]
    BY <1>0, <1>1, <2>1, <2>2, Zenon DEF GotReply, CltTypeOK, ConnTypeOK
  <2>5. CltTypeOK' /\ ConnTypeOK'
    BY <1>0, <1>1, <2>3, <2>4, Zenon DEF GotReply, CltTypeOK, ConnTypeOK, connVars
  <2>6. SrvTypeOK' /\ HistTypeOK'
    BY <1>0, <1>1, SrvKept, HistKept, Zenon DEF GotReply
  <2> QED
    BY <2>5, <2>6 DEF TypeOK
<1>2. CASE GotRequest(c, k)
  <2>1. Head(reqs[c][k]) \in Xids /\ Tail(reqs[c][k]) \in Seq(Xids)
    BY <1>0, <1>2 DEF GotRequest, ConnTypeOK
  <2>2. ConnTypeOK'
    BY <1>0, <1>2, <2>1 DEF GotRequest, ConnTypeOK, connVars
  <2>3. SrvTypeOK'
    BY <1>0, <1>2, <2>1 DEF GotRequest, SrvTypeOK, JobPc
  <2>4. CltTypeOK' /\ HistTypeOK'
    BY <1>0, <1>2, CltKept, HistKept, Zenon DEF GotRequest
  <2> QED
    BY <2>2, <2>3, <2>4 DEF TypeOK
<1>3. CASE ClientDead(c, k)
  <2>1. ConnTypeOK'
    BY <1>0, <1>3 DEF ClientDead, ConnTypeOK
  <2>2. CltTypeOK' /\ SrvTypeOK' /\ HistTypeOK'
    BY <1>0, <1>3, CltKept, SrvKept, HistKept, Zenon DEF ClientDead
  <2> QED
    BY <2>1, <2>2 DEF TypeOK
<1>4. CASE ServerDead(c, k)
  <2>1. ConnTypeOK'
    BY <1>0, <1>4 DEF ServerDead, ConnTypeOK
  <2>2. CltTypeOK' /\ SrvTypeOK' /\ HistTypeOK'
    BY <1>0, <1>4, CltKept, SrvKept, HistKept, Zenon DEF ServerDead
  <2> QED
    BY <2>1, <2>2 DEF TypeOK
<1> QED
  BY <1>1, <1>2, <1>3, <1>4

LEMMA TypeServer ==
    ASSUME TypeOK, NEW c \in Clients, NEW k \in Conns, NEW x \in Xids,
           \/ Dispatch(c, k, x) \/ CheckDuplicate(c, k, x)
           \/ AddReply(c, k, x) \/ SendReply(c, k, x)
    PROVE  TypeOK'
<1> USE RpcAssumption
<1>0. /\ CltTypeOK /\ ConnTypeOK /\ SrvTypeOK /\ HistTypeOK
      /\ k \in 0..MaxConn /\ x \in 0..MaxXid
      /\ reps \in [Clients -> [Conns -> Seq(Replies)]]
  BY DEF TypeOK, ConnTypeOK, Conns, Xids
<1>1. CASE Dispatch(c, k, x)
  <2>1. [xid |-> x, ret |-> oldsrv_failure] \in Replies
    BY <1>0 DEF Replies, Rets, oldsrv_failure, timeout_failure
  <2>2. reps' \in [Clients -> [Conns -> Seq(Replies)]]
    BY <1>0, <1>1, <2>1, SentType, SMTT(20) DEF Dispatch
  <2>3. ConnTypeOK'
    BY <1>0, <1>1, <2>2 DEF Dispatch, ConnTypeOK, connVars
  <2>4. SrvTypeOK'
    <3>1. job' \in [Clients -> [Conns -> [Xids -> JobPc]]]
      <4>1. PICK v \in JobPc : job' = [job EXCEPT ![c][k][x] = v]
        BY <1>1 DEF Dispatch, JobPc
      <4> QED
        BY <1>0, <4>1 DEF SrvTypeOK
    <3>2. conns_' \in [Clients -> 0..MaxConn]
      BY <1>0, <1>1, Zenon DEF Dispatch, SrvTypeOK
    <3> QED
      BY <1>0, <1>1, <3>1, <3>2 DEF Dispatch, SrvTypeOK
  <2>5. CltTypeOK' /\ HistTypeOK'
    BY <1>0, <1>1, CltKept, HistKept, Zenon DEF Dispatch
  <2> QED
    BY <2>3, <2>4, <2>5 DEF TypeOK
<1>2. CASE CheckDuplicate(c, k, x)
  <2>1. [xid |-> x, ret |-> atmostonce_failure] \in Replies
    BY <1>0 DEF Replies, Rets, atmostonce_failure, timeout_failure
  <2>2. reps' \in [Clients -> [Conns -> Seq(Replies)]]
    BY <1>0, <1>2, <2>1, SentType DEF CheckDuplicate
  <2>3. ConnTypeOK'
    BY <1>0, <1>2, <2>2 DEF CheckDuplicate, ConnTypeOK, connVars
  <2>4. reply_window_' \in [Clients -> [Xids -> {"absent", "wip", "done"}]]
    BY <1>0, <1>2 DEF CheckDuplicate, SrvTypeOK
  <2>5. job' \in [Clients -> [Conns -> [Xids -> JobPc]]]
    BY <1>0, <1>2 DEF CheckDuplicate, SrvTypeOK, JobPc
  <2>6. buf' \in [Clients -> [Conns -> [Xids -> {"own", "window", "freed"}]]]
    BY <1>0, <1>2 DEF CheckDuplicate, SrvTypeOK
  <2>7. SrvTypeOK'
    BY <1>0, <1>2, <2>4, <2>5, <2>6 DEF CheckDuplicate, SrvTypeOK
  <2>8. exec' \in [Nonces -> [Clients -> [Xids -> Nat]]]
    <3>1. exec' = exec \/ exec' = [exec EXCEPT ![nonce_][c][x] = @ + 1]
      BY <1>2 DEF CheckDuplicate
    <3>2. nonce_ \in Nonces /\ exec \in [Nonces -> [Clients -> [Xids -> Nat]]]
      BY <1>0 DEF SrvTypeOK, HistTypeOK
    <3>3. PICK v \in Nat : exec' = exec \/ exec' = [exec EXCEPT ![nonce_][c][x] = v]
      BY <3>1, <3>2
    <3>4. CASE exec' = exec
      BY <3>2, <3>4
    <3>5. CASE exec' = [exec EXCEPT ![nonce_][c][x] = v]
      <4>1. [exec[nonce_] EXCEPT ![c][x] = v] \in [Clients -> [Xids -> Nat]]
        BY <3>2
      <4>2. exec' = [exec EXCEPT ![nonce_] = [exec[nonce_] EXCEPT ![c][x] = v]]
        BY <3>2, <3>5
      <4> QED
        BY <3>2, <4>1, <4>2
    <3> QED
      BY <3>3, <3>4, <3>5
  <2>9. acked' \in [Clients -> 0..MaxXid]
    <3>1. hdr[c][x].rep \in 0..MaxXid /\ acked \in [Clients -> 0..MaxXid]
      BY <1>0 DEF CltTypeOK, Headers, HistTypeOK
    <3> QED
      BY <1>2, <3>1 DEF CheckDuplicate
  <2>10. freedSent' \in BOOLEAN
    BY <1>0, <1>2 DEF CheckDuplicate, HistTypeOK
  <2>11. HistTypeOK'
    BY <2>8, <2>9, <2>10, Zenon DEF HistTypeOK
  <2>12. CltTypeOK'
    BY <1>0, <1>2, CltKept, Zenon DEF CheckDuplicate
  <2> QED
    BY <2>3, <2>7, <2>11, <2>12 DEF TypeOK
<1>3. CASE AddReply(c, k, x)
  <2>1. reply_window_' \in [Clients -> [Xids -> {"absent", "wip", "done"}]]
    BY <1>0, <1>3 DEF AddReply, SrvTypeOK
  <2>2. buf' \in [Clients -> [Conns -> [Xids -> {"own", "window", "freed"}]]]
    BY <1>0, <1>3 DEF AddReply, SrvTypeOK
  <2>3. SrvTypeOK'
    <3>1. job' \in [Clients -> [Conns -> [Xids -> JobPc]]]
      BY <1>0, <1>3 DEF AddReply, SrvTypeOK, JobPc
    <3> QED
      BY <1>0, <1>3, <2>1, <2>2, <3>1 DEF AddReply, SrvTypeOK
  <2>4. CltTypeOK' /\ ConnTypeOK' /\ HistTypeOK'
    BY <1>0, <1>3, CltKept, ConnKept, HistKept, Zenon DEF AddReply
  <2> QED
    BY <2>3, <2>4 DEF TypeOK
<1>4. CASE SendReply(c, k, x)
  <2>1. ReplyConn(c, k, x) \in 0..MaxConn /\ nonce_ \in Nonces
    BY <1>0 DEF ReplyConn, SrvTypeOK
  <2>2. PICK y \in 0..MaxXid :
           reps' = Sent(reps, c, ReplyConn(c, k, x), [xid |-> y, ret |-> nonce_])
    BY <1>0, <1>4 DEF SendReply
  <2>3. [xid |-> y, ret |-> nonce_] \in Replies
    BY <2>1 DEF Replies, Rets, Nonces, timeout_failure
  <2>4. ConnTypeOK'
    <3>1. reps' \in [Clients -> [Conns -> Seq(Replies)]]
      BY <1>0, <2>1, <2>2, <2>3, SentType
    <3> QED
      BY <1>0, <1>4, <3>1 DEF SendReply, ConnTypeOK, connVars
  <2>5. SrvTypeOK'
    <3>1. job' \in [Clients -> [Conns -> [Xids -> JobPc]]]
      BY <1>0, <1>4 DEF SendReply, SrvTypeOK, JobPc
    <3>2. buf' \in [Clients -> [Conns -> [Xids -> {"own", "window", "freed"}]]]
      BY <1>0, <1>4 DEF SendReply, SrvTypeOK
    <3>3. UNCHANGED <<nonce_, reply_window_, conns_>>
      BY <1>4 DEF SendReply
    <3> QED
      BY <1>0, <3>1, <3>2, <3>3 DEF SrvTypeOK
  <2>6. HistTypeOK'
    <3>1. freedSent' \in BOOLEAN
      BY <1>4, Zenon DEF SendReply
    <3>2. exec' = exec /\ acked' = acked
      BY <1>4 DEF SendReply
    <3> QED
      BY <1>0, <3>1, <3>2, Zenon DEF HistTypeOK
  <2>7. CltTypeOK'
    BY <1>0, <1>4, CltKept, Zenon DEF SendReply
  <2> QED
    BY <2>4, <2>5, <2>6, <2>7 DEF TypeOK
<1> QED
  BY <1>1, <1>2, <1>3, <1>4

LEMMA TypeNext == TypeOK /\ [Next]_vars => TypeOK'
<1> SUFFICES ASSUME TypeOK, [Next]_vars PROVE TypeOK'
  OBVIOUS
<1> USE RpcAssumption
<1>0. CltTypeOK /\ ConnTypeOK /\ SrvTypeOK /\ HistTypeOK
  BY DEF TypeOK
<1>1. ASSUME NEW c \in Clients, NEW p \in {"bind", "app"}, Call(c, p)
      PROVE  TypeOK'
  <2> DEFINE x == xid_[c]
             h == [proc |-> p, srv |-> srv_nonce_[c], rep |-> Front(xid_rep_window_[c])]
  <2>1. x \in Xids /\ x + 1 \in 1..(MaxXid + 1)
    BY <1>0, <1>1 DEF Call, CltTypeOK, Xids
  <2>2. Front(xid_rep_window_[c]) \in 0..MaxXid
    <3>1. xid_rep_window_[c] \in SUBSET (0..MaxXid) /\ xid_rep_window_[c] # {}
      BY <1>0 DEF CltTypeOK
    <3>2. xid_rep_window_[c] \in SUBSET Nat
      BY <3>1
    <3> QED
      BY <3>1, <3>2, FrontIsMin
  <2>3. h \in Headers
    BY <1>0, <2>2 DEF CltTypeOK, Headers
  <2>4. [call[c][x] EXCEPT !.pc = "send"] \in Frames
    <3>1. call[c][x] \in Frames
      BY <1>0, <2>1 DEF CltTypeOK
    <3> HIDE DEF x
    <3> QED
      BY <3>1 DEF Frames, CallPc
  <2>5. hdr' = [hdr EXCEPT ![c][x] = h]
    BY <1>1 DEF Call
  <2> HIDE DEF h
  <2>6. CltTypeOK'
    BY <1>0, <1>1, <2>1, <2>3, <2>4, <2>5 DEF Call, CltTypeOK
  <2>7. ConnTypeOK' /\ SrvTypeOK' /\ HistTypeOK'
    BY <1>0, <1>1, ConnKept, SrvKept, HistKept, Zenon DEF Call
  <2> QED
    BY <2>6, <2>7 DEF TypeOK
<1>2. CASE Restart
  <2>1. ConnTypeOK'
    BY <1>0, <1>2 DEF Restart, ConnTypeOK, Conns
  <2>2. SrvTypeOK'
    BY <1>0, <1>2 DEF Restart, SrvTypeOK, JobPc, Nonces
  <2>3. acked' \in [Clients -> 0..MaxXid]
    BY <1>2 DEF Restart
  <2>4. HistTypeOK'
    BY <1>0, <1>2, <2>3 DEF Restart, HistTypeOK
  <2>5. CltTypeOK'
    BY <1>0, <1>2, CltKept, Zenon DEF Restart
  <2> QED
    BY <2>1, <2>2, <2>4, <2>5 DEF TypeOK
<1>3. CASE UNCHANGED vars
  BY <1>3, CltKept, ConnKept, SrvKept, HistKept, Zenon DEF TypeOK, vars
<1> QED
  BY <1>1, <1>2, <1>3, TypeClient, TypeNet, TypeServer DEF Next

(* Every variable keeps its type, whatever the clients, the server and the      *)
(* connections do.                                                              *)
THEOREM TypeCorrect == Spec => []TypeOK
BY TypeInit, TypeNext, PTL DEF Spec

--------------------------------------------------------------------------------
(* At most once until acknowledged.                                             *)

\* No instance that has not started yet has run anything.
FutureIdle ==
    \A n \in Nonces, c \in Clients, x \in Xids : n > nonce_ => exec[n][c][x] = 0

ServerInv == TypeOK /\ AtMostOnceUntilAcked /\ FutureIdle

\* Only three kinds of step touch the reply window or run a handler.
LEMMA WindowSteps ==
    ASSUME [Next]_vars
    PROVE  \/ UNCHANGED <<nonce_, reply_window_, exec, acked>>
           \/ \E c \in Clients, k \in Conns, x \in Xids :
                 CheckDuplicate(c, k, x) \/ AddReply(c, k, x)
           \/ Restart
<1>1. ASSUME NEW c \in Clients, NEW p \in {"bind", "app"}, Call(c, p)
      PROVE  UNCHANGED <<nonce_, reply_window_, exec, acked>>
  BY <1>1 DEF Call, srvVars, histVars
<1>2. ASSUME NEW c \in Clients, NEW x \in Xids, CallStep(c, x)
      PROVE  UNCHANGED <<nonce_, reply_window_, exec, acked>>
  BY <1>2, ZenonT(40) DEF CallStep, Transmit, Wake, Timeout, Finish, srvVars, histVars
<1>3. ASSUME NEW c \in Clients, NEW k \in Conns,
             GotReply(c, k) \/ GotRequest(c, k) \/ ClientDead(c, k) \/ ServerDead(c, k)
      PROVE  UNCHANGED <<nonce_, reply_window_, exec, acked>>
  BY <1>3, Zenon DEF GotReply, GotRequest, ClientDead, ServerDead, srvVars, histVars
<1>4. ASSUME NEW c \in Clients, NEW k \in Conns, NEW x \in Xids,
             Dispatch(c, k, x) \/ SendReply(c, k, x)
      PROVE  UNCHANGED <<nonce_, reply_window_, exec, acked>>
  BY <1>4 DEF Dispatch, SendReply, srvVars, histVars
<1>5. CASE UNCHANGED vars
  BY <1>5 DEF vars, srvVars, histVars
<1> QED
  BY <1>1, <1>2, <1>3, <1>4, <1>5 DEF Next

LEMMA ServerInvNext == ServerInv /\ [Next]_vars => ServerInv'
<1> SUFFICES ASSUME ServerInv, [Next]_vars PROVE ServerInv'
  OBVIOUS
<1> USE RpcAssumption
<1>0. TypeOK /\ TypeOK' /\ AtMostOnceUntilAcked /\ FutureIdle
  BY TypeNext DEF ServerInv
<1>1. CASE UNCHANGED <<nonce_, reply_window_, exec, acked>>
  BY <1>0, <1>1 DEF ServerInv, AtMostOnceUntilAcked, FutureIdle
<1>2. ASSUME NEW c \in Clients, NEW k \in Conns, NEW x \in Xids, AddReply(c, k, x)
      PROVE  ServerInv'
  <2>1. UNCHANGED <<nonce_, exec, acked>>
    BY <1>2 DEF AddReply, histVars
  <2>2. \A d \in Clients, y \in Xids :
           reply_window_[d][y] # "absent" => reply_window_'[d][y] # "absent"
    BY <1>0, <1>2 DEF AddReply, TypeOK, SrvTypeOK
  <2> QED
    BY <1>0, <2>1, <2>2 DEF ServerInv, AtMostOnceUntilAcked, FutureIdle
<1>3. ASSUME NEW c \in Clients, NEW k \in Conns, NEW x \in Xids, CheckDuplicate(c, k, x)
      PROVE  ServerInv'
  <2> DEFINE rep == hdr[c][x].rep
  <2>1. /\ nonce_' = nonce_ /\ nonce_ \in Nonces
        /\ rep \in 0..MaxXid /\ acked[c] \in 0..MaxXid
        /\ exec \in [Nonces -> [Clients -> [Xids -> Nat]]]
        /\ reply_window_ \in [Clients -> [Xids -> {"absent", "wip", "done"}]]
        /\ acked \in [Clients -> 0..MaxXid]
    <3>1. nonce_' = nonce_
      BY <1>3 DEF CheckDuplicate
    <3>2. nonce_ \in Nonces /\ reply_window_ \in [Clients -> [Xids -> {"absent", "wip", "done"}]]
      BY <1>0 DEF TypeOK, SrvTypeOK
    <3>3. exec \in [Nonces -> [Clients -> [Xids -> Nat]]] /\ acked \in [Clients -> 0..MaxXid]
      BY <1>0 DEF TypeOK, HistTypeOK
    <3>4. hdr[c][x] \in Headers
      BY <1>0 DEF TypeOK, CltTypeOK
    <3>5. rep \in 0..MaxXid
      BY <3>4 DEF Headers
    <3> QED
      BY <3>1, <3>2, <3>3, <3>5
  <2>2. ASSUME NEW d \in Clients, NEW y \in Xids, d # c
        PROVE  /\ reply_window_'[d][y] = reply_window_[d][y] /\ acked'[d] = acked[d]
               /\ \A n \in Nonces : exec'[n][d][y] = exec[n][d][y]
    BY <1>3, <2>1, <2>2 DEF CheckDuplicate
  <2>3. /\ acked[c] <= acked'[c]
        /\ acked'[c] \in 0..MaxXid
        /\ ~Empty(c) => rep <= acked'[c]
    BY <1>3, <2>1 DEF CheckDuplicate
  <2>4. ASSUME NEW y \in Xids, y > acked'[c]
        PROVE  y > acked[c] /\ y \notin Erased(c, x)
    <3>1. y \in Nat /\ acked[c] \in Nat /\ acked'[c] \in Nat /\ rep \in Nat
      <4> HIDE DEF rep
      <4>1. y \in Nat
        BY DEF Xids
      <4>2. acked[c] \in Nat /\ rep \in Nat
        BY <2>1
      <4>3. acked'[c] \in Nat
        BY <2>3
      <4> QED
        BY <4>1, <4>2, <4>3
    <3>2. y > acked[c]
      BY <2>3, <2>4, <3>1
    <3>3. CASE Empty(c)
      BY <3>2, <3>3 DEF Erased
    <3>4. CASE ~Empty(c)
      <4>1. y > rep
        BY <2>3, <2>4, <3>1, <3>4
      <4> QED
        BY <3>1, <3>2, <3>4, <4>1 DEF Erased
    <3> QED
      BY <3>3, <3>4
  <2>5. ASSUME NEW y \in Xids
        PROVE  reply_window_'[c][y] = IF y = x /\ rpcstate(c, x) = "NEW" THEN "wip"
                                      ELSE IF y \in Erased(c, x) THEN "absent"
                                      ELSE reply_window_[c][y]
    BY <1>3, <2>1 DEF CheckDuplicate
  <2>6. CASE rpcstate(c, x) = "NEW"
    <3>1. reply_window_[c][x] = "absent"
      BY <2>1, <2>6 DEF rpcstate, Empty
    <3>2. \A n \in Nonces, y \in Xids : exec'[n][c][y] =
             IF n = nonce_ /\ y = x THEN exec[n][c][y] + 1 ELSE exec[n][c][y]
      BY <1>3, <2>1, <2>6 DEF CheckDuplicate
    <3>3. ASSUME NEW y \in Xids, y > acked'[c]
          PROVE  exec'[nonce_][c][y] <= 1 /\
                 (exec'[nonce_][c][y] = 1 => reply_window_'[c][y] # "absent")
      <4>1. y > acked[c] /\ y \notin Erased(c, x)
        BY <2>4, <3>3
      <4>2. /\ exec[nonce_][c][y] <= 1 /\ exec[nonce_][c][y] \in Nat
            /\ exec[nonce_][c][y] = 1 => reply_window_[c][y] # "absent"
        <5>1. exec[nonce_][c][y] \in Nat
          BY <2>1
        <5> QED
          BY <1>0, <4>1, <5>1 DEF AtMostOnceUntilAcked
      <4>3. CASE y = x
        <5>1. exec[nonce_][c][x] = 0
          BY <3>1, <4>2, <4>3
        <5>2. exec'[nonce_][c][x] = 1
          BY <2>1, <3>2, <5>1
        <5>3. reply_window_'[c][x] = "wip"
          BY <2>5, <2>6
        <5> QED
          BY <4>3, <5>2, <5>3
      <4>4. CASE y # x
        BY <2>1, <2>5, <3>2, <4>1, <4>2, <4>4
      <4> QED
        BY <4>3, <4>4
    <3>4. ASSUME NEW n \in Nonces, NEW y \in Xids, n > nonce_ PROVE exec'[n][c][y] = 0
      <4>1. exec[n][c][y] = 0
        BY <1>0, <3>4 DEF FutureIdle
      <4>2. n # nonce_
        BY <2>1, <3>4 DEF Nonces
      <4> QED
        BY <3>2, <4>1, <4>2
    <3>5. AtMostOnceUntilAcked'
      <4> SUFFICES ASSUME NEW d \in Clients, NEW y \in Xids, y > acked'[d]
                   PROVE  /\ exec'[nonce_][d][y] <= 1
                          /\ exec'[nonce_][d][y] = 1 => reply_window_'[d][y] # "absent"
        BY <2>1 DEF AtMostOnceUntilAcked
      <4>1. CASE d = c
        BY <3>3, <4>1
      <4>2. CASE d # c
        <5>1. /\ reply_window_'[d][y] = reply_window_[d][y] /\ acked'[d] = acked[d]
              /\ exec'[nonce_][d][y] = exec[nonce_][d][y]
          BY <2>1, <2>2, <4>2
        <5> QED
          BY <1>0, <5>1 DEF AtMostOnceUntilAcked
      <4> QED
        BY <4>1, <4>2
    <3>6. FutureIdle'
      <4> SUFFICES ASSUME NEW n \in Nonces, NEW d \in Clients, NEW y \in Xids, n > nonce_
                   PROVE  exec'[n][d][y] = 0
        BY <2>1 DEF FutureIdle
      <4>1. exec[n][d][y] = 0
        BY <1>0 DEF FutureIdle
      <4>2. CASE d = c
        BY <3>4, <4>2
      <4>3. CASE d # c
        BY <2>2, <4>1, <4>3
      <4> QED
        BY <4>2, <4>3
    <3> QED
      BY <1>0, <3>5, <3>6 DEF ServerInv
  <2>7. CASE rpcstate(c, x) # "NEW"
    <3>1. exec' = exec
      BY <1>3, <2>7 DEF CheckDuplicate
    <3>2. ASSUME NEW y \in Xids, y > acked'[c]
          PROVE  y > acked[c] /\ reply_window_'[c][y] = reply_window_[c][y]
      BY <2>5, <2>7, <2>4, <3>2
    <3>3. AtMostOnceUntilAcked'
      <4> SUFFICES ASSUME NEW d \in Clients, NEW y \in Xids, y > acked'[d]
                   PROVE  /\ exec[nonce_][d][y] <= 1
                          /\ exec[nonce_][d][y] = 1 => reply_window_'[d][y] # "absent"
        BY <2>1, <3>1 DEF AtMostOnceUntilAcked
      <4>1. y > acked[d] /\ reply_window_'[d][y] = reply_window_[d][y]
        <5>1. CASE d = c
          BY <3>2, <5>1
        <5>2. CASE d # c
          BY <2>2, <5>2
        <5> QED
          BY <5>1, <5>2
      <4> QED
        BY <1>0, <4>1 DEF AtMostOnceUntilAcked
    <3> QED
      BY <1>0, <2>1, <3>1, <3>3 DEF ServerInv, FutureIdle
  <2> QED
    BY <2>6, <2>7
<1>4. CASE Restart
  <2>1. /\ nonce_' = nonce_ + 1 /\ exec' = exec /\ nonce_ \in Nonces /\ nonce_' \in Nonces
    BY <1>0, <1>4 DEF Restart, TypeOK, SrvTypeOK
  <2>2. \A n \in Nonces, c \in Clients, x \in Xids : n >= nonce_' => exec'[n][c][x] = 0
    BY <1>0, <2>1 DEF FutureIdle, Nonces
  <2>3. \A c \in Clients, x \in Xids : exec'[nonce_'][c][x] = 0
    BY <2>1, <2>2 DEF Nonces
  <2>4. AtMostOnceUntilAcked'
    BY <2>3 DEF AtMostOnceUntilAcked
  <2>5. FutureIdle'
    BY <2>1, <2>2 DEF FutureIdle, Nonces
  <2> QED
    BY <1>0, <2>4, <2>5 DEF ServerInv
<1> QED
  BY <1>1, <1>2, <1>3, <1>4, WindowSteps

LEMMA ServerInvInit == Init => ServerInv
<1> SUFFICES ASSUME Init PROVE ServerInv
  OBVIOUS
<1>1. \A n \in Nonces, c \in Clients, x \in Xids : exec[n][c][x] = 0
  BY DEF Init
<1>2. nonce_ \in Nonces
  BY TypeInit DEF TypeOK, SrvTypeOK
<1> QED
  BY <1>1, <1>2, TypeInit DEF ServerInv, AtMostOnceUntilAcked, FutureIdle

(* One server instance runs the handler of a request at most once until a later *)
(* request of the same client acknowledges it, and keeps it in reply_window_    *)
(* until then: the guarantee of checkduplicate_and_update, for any number of    *)
(* clients, calls, connections, retransmissions and restarts.                   *)
THEOREM AtMostOnceUntilAckedHolds == Spec => []AtMostOnceUntilAcked
<1>1. ServerInv => AtMostOnceUntilAcked
  BY DEF ServerInv
<1> QED
  BY <1>1, ServerInvInit, ServerInvNext, PTL DEF Spec

--------------------------------------------------------------------------------
(* What a step can do to a call.                                                *)

\* The call has its answer or has been given up.
Settled(c, x) == call[c][x].pc = "returned" \/ call[c][x].ret # 0

\* Only call1 takes an xid and packs a header.
LEMMA XidEffect ==
    ASSUME TypeOK, [Next]_vars, NEW c \in Clients
    PROVE  \/ xid_'[c] = xid_[c] /\ hdr'[c] = hdr[c]
           \/ /\ xid_[c] \in Xids /\ xid_'[c] = xid_[c] + 1
              /\ \E p \in {"bind", "app"} : Call(c, p)
<1> USE RpcAssumption
<1>1. ASSUME NEW d \in Clients, NEW p \in {"bind", "app"}, Call(d, p)
      PROVE  \/ xid_'[c] = xid_[c] /\ hdr'[c] = hdr[c]
             \/ xid_[c] \in Xids /\ xid_'[c] = xid_[c] + 1 /\ Call(c, p)
  <2>0. xid_ \in [Clients -> 1..(MaxXid + 1)] /\ hdr \in [Clients -> [Xids -> Headers]]
    BY DEF TypeOK, CltTypeOK
  <2>1. CASE d = c
    BY <1>1, <2>0, <2>1 DEF Call, Xids
  <2>2. CASE d # c
    BY <1>1, <2>0, <2>2 DEF Call
  <2> QED
    BY <2>1, <2>2
<1>2. ASSUME NEW d \in Clients, NEW x \in Xids, CallStep(d, x)
      PROVE  xid_' = xid_ /\ hdr' = hdr
  BY <1>2, ZenonT(40) DEF CallStep, Transmit, Wake, Timeout, Finish
<1>3. ASSUME NEW d \in Clients, NEW k \in Conns,
             GotReply(d, k) \/ GotRequest(d, k) \/ ClientDead(d, k) \/ ServerDead(d, k)
      PROVE  xid_' = xid_ /\ hdr' = hdr
  BY <1>3, ZenonT(40) DEF GotReply, GotRequest, ClientDead, ServerDead, cltVars
<1>4. ASSUME NEW d \in Clients, NEW k \in Conns, NEW x \in Xids,
             \/ Dispatch(d, k, x) \/ CheckDuplicate(d, k, x)
             \/ AddReply(d, k, x) \/ SendReply(d, k, x)
      PROVE  xid_' = xid_ /\ hdr' = hdr
  BY <1>4, Zenon DEF Dispatch, CheckDuplicate, AddReply, SendReply, cltVars
<1>5. CASE Restart
  BY <1>5, Zenon DEF Restart, cltVars
<1>6. CASE UNCHANGED vars
  BY <1>6, Zenon DEF vars, cltVars
<1> QED
  BY <1>1, <1>2, <1>3, <1>4, <1>5, <1>6, Zenon DEF Next

\* Calls are changed by their own thread and by the replies that arrive.
LEMMA CallEffect ==
    ASSUME TypeOK, [Next]_vars, NEW c \in Clients, NEW x \in Xids
    PROVE  \/ call'[c][x] = call[c][x]
           \/ x = xid_[c] /\ \E p \in {"bind", "app"} : Call(c, p)
           \/ /\ Outstanding(c, x) /\ Outstanding(c, x)' /\ call'[c][x].ret = call[c][x].ret
           \/ Finish(c, x)
           \/ /\ Outstanding(c, x) /\ Outstanding(c, x)' /\ call[c][x].ret = 0
              /\ \E k \in Conns : /\ reps[c][k] # <<>> /\ Head(reps[c][k]).xid = x
                                  /\ call'[c][x].ret = Head(reps[c][k]).ret
<1> USE RpcAssumption
<1> DEFINE Effect == \/ call'[c][x] = call[c][x]
                     \/ x = xid_[c] /\ \E p \in {"bind", "app"} : Call(c, p)
                     \/ Outstanding(c, x) /\ Outstanding(c, x)' /\ call'[c][x].ret = call[c][x].ret
                     \/ Finish(c, x)
                     \/ /\ Outstanding(c, x) /\ Outstanding(c, x)' /\ call[c][x].ret = 0
                        /\ \E k \in Conns : /\ reps[c][k] # <<>> /\ Head(reps[c][k]).xid = x
                                            /\ call'[c][x].ret = Head(reps[c][k]).ret
<1> SUFFICES Effect
  BY Zenon
<1>0. call \in [Clients -> [Xids -> Frames]] /\ reps \in [Clients -> [Conns -> Seq(Replies)]]
  BY Zenon DEF TypeOK, CltTypeOK, ConnTypeOK
<1>1. ASSUME NEW d \in Clients, NEW p \in {"bind", "app"}, Call(d, p)
      PROVE  Effect
  <2>1. CASE d = c /\ x = xid_[c]
    BY <1>1, <2>1, Zenon
  <2>2. CASE ~ (d = c /\ x = xid_[c])
    BY <1>0, <1>1, <2>2 DEF Call
  <2> QED
    BY <2>1, <2>2, Zenon
<1>2. ASSUME NEW d \in Clients, NEW y \in Xids, CallStep(d, y)
      PROVE  Effect
  <2> DEFINE f == call[d][y]
  <2>0. f \in Frames
    BY <1>0
  <2>1. ASSUME f.pc \in {"send", "wait"}, call' = [call EXCEPT ![d][y] = call'[d][y]],
               call'[d][y].pc \in {"send", "wait", "over"}, call'[d][y].ret = f.ret
        PROVE  Effect
    <3>1. CASE d = c /\ y = x
      <4>1. Outstanding(c, x)
        BY <2>1, <3>1, Zenon DEF Outstanding
      <4>2. Outstanding(c, x)' /\ call'[c][x].ret = call[c][x].ret
        BY <2>1, <3>1, Zenon DEF Outstanding
      <4> QED
        BY <4>1, <4>2, Zenon
    <3>2. CASE ~ (d = c /\ y = x)
      <4>1. call'[c][x] = call[c][x]
        BY <1>0, <2>1, <3>2
      <4> QED
        BY <4>1, Zenon
    <3> QED
      BY <3>1, <3>2, Zenon
  <2>2. CASE Transmit(d, y)
    <3>1. PICK ch \in 0..MaxConn :
             call' = [call EXCEPT ![d][y] = [f EXCEPT !.ch = ch, !.pc = NextWait(f.round)]]
      BY <2>2, Zenon DEF Transmit
    <3>2. call'[d][y] = [f EXCEPT !.ch = ch, !.pc = NextWait(f.round)]
      BY <1>0, <3>1, Zenon
    <3>3. call'[d][y].pc \in {"send", "wait", "over"} /\ call'[d][y].ret = f.ret
      BY <2>0, <3>2 DEF Frames, NextWait
    <3>4. f.pc \in {"send", "wait"}
      BY <2>2 DEF Transmit
    <3> QED
      BY <2>1, <3>1, <3>2, <3>3, <3>4, Zenon
  <2>3. CASE Wake(d, y)
    <3>1. f.pc \in {"send", "wait"} /\ call' = [call EXCEPT ![d][y] = [f EXCEPT !.pc = "over"]]
      BY <2>3 DEF Wake
    <3>2. call'[d][y] = [f EXCEPT !.pc = "over"]
      BY <1>0, <3>1
    <3>3. call'[d][y].pc = "over" /\ call'[d][y].ret = f.ret
      BY <2>0, <3>2 DEF Frames
    <3> QED
      BY <2>1, <3>1, <3>2, <3>3, Zenon
  <2>4. CASE Timeout(d, y)
    <3> DEFINE g == [f EXCEPT !.round = f.round + 1,
                        !.pc = IF f.ch = 0 \/ f.ch \in cdead[d]
                               THEN "send" ELSE NextWait(f.round + 1)]
    <3>1. g.pc \in {"send", "wait", "over"} /\ g.ret = f.ret
      BY <2>0 DEF Frames, NextWait
    <3>2. f.pc \in {"send", "wait"} /\ call' = [call EXCEPT ![d][y] = g]
      BY <2>4 DEF Timeout
    <3> HIDE DEF g
    <3>3. call'[d][y] = g
      BY <1>0, <3>2
    <3> QED
      BY <2>1, <3>1, <3>2, <3>3, ZenonT(40)
  <2>5. CASE Finish(d, y)
    <3>1. CASE d = c /\ y = x
      BY <2>5, <3>1, Zenon
    <3>2. CASE ~ (d = c /\ y = x)
      BY <1>0, <2>5, <3>2, Zenon DEF Finish
    <3> QED
      BY <3>1, <3>2, Zenon
  <2> QED
    BY <1>2, <2>2, <2>3, <2>4, <2>5, Zenon DEF CallStep
<1>3. ASSUME NEW d \in Clients, NEW k \in Conns, GotReply(d, k)
      PROVE  Effect
  <2> DEFINE r == Head(reps[d][k])
  <2>1. reps[d][k] # <<>>
    BY <1>3, ZenonT(40) DEF GotReply
  <2>2. \/ call' = call
        \/ /\ r.xid \in Xids /\ Outstanding(d, r.xid) /\ call[d][r.xid].ret = 0
           /\ call' = [call EXCEPT ![d][r.xid] = [call[d][r.xid] EXCEPT !.ret = r.ret]]
    BY <1>3, Zenon DEF GotReply
  <2>3. CASE d = c /\ r.xid = x /\ call' # call
    <3>1. /\ Outstanding(c, x) /\ call[c][x].ret = 0
          /\ call' = [call EXCEPT ![c][x] = [call[c][x] EXCEPT !.ret = r.ret]]
      BY <2>2, <2>3, Zenon
    <3>2. call'[c][x] = [call[c][x] EXCEPT !.ret = r.ret] /\ call[c][x] \in Frames
      BY <1>0, <3>1
    <3>3. call'[c][x].ret = r.ret /\ call'[c][x].pc = call[c][x].pc
      BY <3>2 DEF Frames
    <3> QED
      BY <2>1, <2>3, <3>1, <3>3 DEF Outstanding
  <2>4. CASE ~ (d = c /\ r.xid = x /\ call' # call)
    <3> HIDE DEF r
    <3>1. CASE call' = call
      BY <3>1, Zenon
    <3>2. CASE call' # call
      <4>1. call' = [call EXCEPT ![d][r.xid] = [call[d][r.xid] EXCEPT !.ret = r.ret]]
        BY <2>2, <3>2
      <4>2. call'[c][x] = call[c][x]
        BY <1>0, <2>4, <3>2, <4>1
      <4> QED
        BY <4>2
    <3> QED
      BY <3>1, <3>2, Zenon
  <2> QED
    BY <2>3, <2>4, Zenon
<1>4. ASSUME NEW d \in Clients, NEW k \in Conns,
             GotRequest(d, k) \/ ClientDead(d, k) \/ ServerDead(d, k)
      PROVE  call' = call
  BY <1>4 DEF GotRequest, ClientDead, ServerDead, cltVars
<1>5. ASSUME NEW d \in Clients, NEW k \in Conns, NEW y \in Xids,
             \/ Dispatch(d, k, y) \/ CheckDuplicate(d, k, y)
             \/ AddReply(d, k, y) \/ SendReply(d, k, y)
      PROVE  call' = call
  BY <1>5, Zenon DEF Dispatch, CheckDuplicate, AddReply, SendReply, cltVars
<1>6. CASE Restart
  BY <1>6, Zenon DEF Restart, cltVars
<1>7. CASE UNCHANGED vars
  BY <1>7, Zenon DEF vars, cltVars
<1>8. call' = call => Effect
  BY Zenon
<1> HIDE DEF Effect
<1>9. CASE Next
  BY <1>1, <1>2, <1>3, <1>4, <1>5, <1>6, <1>8, <1>9, Zenon DEF Next
<1> QED
  BY <1>7, <1>9

\* A handler is run by the verdict NEW of checkduplicate_and_update only.
LEMMA ExecEffect ==
    ASSUME TypeOK, [Next]_vars, NEW n \in Nonces, NEW c \in Clients, NEW x \in Xids
    PROVE  \/ exec'[n][c][x] = exec[n][c][x]
           \/ /\ exec'[n][c][x] = exec[n][c][x] + 1
              /\ n = nonce_ /\ \E k \in Conns : CheckDuplicate(c, k, x)
<1>0. exec \in [Nonces -> [Clients -> [Xids -> Nat]]] /\ nonce_ \in Nonces
  BY DEF TypeOK, HistTypeOK, SrvTypeOK
<1>1. ASSUME NEW d \in Clients, NEW k \in Conns, NEW y \in Xids, CheckDuplicate(d, k, y)
      PROVE  \/ exec'[n][c][x] = exec[n][c][x]
             \/ /\ exec'[n][c][x] = exec[n][c][x] + 1
                /\ n = nonce_ /\ d = c /\ y = x
  <2>1. exec' = exec \/ exec' = [exec EXCEPT ![nonce_][d][y] = @ + 1]
    BY <1>1 DEF CheckDuplicate
  <2>2. CASE n = nonce_ /\ d = c /\ y = x
    BY <1>0, <2>1, <2>2
  <2>3. CASE ~ (n = nonce_ /\ d = c /\ y = x)
    <3>1. [exec EXCEPT ![nonce_][d][y] = @ + 1][n][c][x] = exec[n][c][x]
      BY <1>0, <2>3
    <3> QED
      BY <2>1, <3>1, ZenonT(40)
  <2> QED
    BY <2>2, <2>3, Zenon
<1>2. ASSUME NEW d \in Clients, NEW k \in Conns, NEW y \in Xids, AddReply(d, k, y)
      PROVE  exec' = exec
  BY <1>2 DEF AddReply, histVars
<1>3. CASE Restart
  BY <1>3 DEF Restart
<1> QED
  BY <1>1, <1>2, <1>3, WindowSteps, Zenon

\* The life of one request in the server's pool.
LEMMA JobEffect ==
    ASSUME TypeOK, [Next]_vars, NEW c \in Clients, NEW k \in Conns, NEW x \in Xids
    PROVE  \/ job'[c][k][x] = job[c][k][x] /\ nonce_' = nonce_
           \/ job'[c][k][x] = "none"
           \/ job'[c][k][x] = "queued" /\ reqs[c][k] # <<>> /\ Head(reqs[c][k]) = x
           \/ /\ job[c][k][x] = "queued" /\ job'[c][k][x] = "check"
              /\ ~OldInstance(c, x) /\ nonce_' = nonce_
           \/ job'[c][k][x] \in {"run", "resend"} /\ CheckDuplicate(c, k, x)
           \/ job'[c][k][x] = "reply" /\ AddReply(c, k, x)
<1> DEFINE Effect == \/ job'[c][k][x] = job[c][k][x] /\ nonce_' = nonce_
                     \/ job'[c][k][x] = "none"
                     \/ job'[c][k][x] = "queued" /\ reqs[c][k] # <<>> /\ Head(reqs[c][k]) = x
                     \/ /\ job[c][k][x] = "queued" /\ job'[c][k][x] = "check"
                        /\ ~OldInstance(c, x) /\ nonce_' = nonce_
                     \/ job'[c][k][x] \in {"run", "resend"} /\ CheckDuplicate(c, k, x)
                     \/ job'[c][k][x] = "reply" /\ AddReply(c, k, x)
<1> SUFFICES Effect
  BY Zenon
<1>0. /\ job \in [Clients -> [Conns -> [Xids -> JobPc]]]
      /\ reqs \in [Clients -> [Conns -> Seq(Xids)]]
  BY DEF TypeOK, SrvTypeOK, ConnTypeOK
<1>1. ASSUME NEW d \in Clients, NEW p \in {"bind", "app"}, Call(d, p)
      PROVE  job' = job /\ nonce_' = nonce_
  BY <1>1 DEF Call, srvVars
<1>2. ASSUME NEW d \in Clients, NEW y \in Xids, CallStep(d, y)
      PROVE  job' = job /\ nonce_' = nonce_
  BY <1>2, Zenon DEF CallStep, Transmit, Wake, Timeout, Finish, srvVars
<1>3. ASSUME NEW d \in Clients, NEW l \in Conns,
             GotReply(d, l) \/ ClientDead(d, l) \/ ServerDead(d, l)
      PROVE  job' = job /\ nonce_' = nonce_
  BY <1>3, Zenon DEF GotReply, ClientDead, ServerDead, srvVars
<1>4. ASSUME NEW d \in Clients, NEW l \in Conns, GotRequest(d, l)
      PROVE  Effect
  <2> DEFINE h == Head(reqs[d][l])
  <2>1. /\ reqs[d][l] # <<>> /\ job' = [job EXCEPT ![d][l][h] = "queued"] /\ nonce_' = nonce_
    BY <1>4 DEF GotRequest
  <2>2. CASE d = c /\ l = k /\ h = x
    BY <1>0, <2>1, <2>2
  <2>3. CASE ~ (d = c /\ l = k /\ h = x)
    <3> HIDE DEF h
    <3>1. job'[c][k][x] = job[c][k][x]
      BY <1>0, <2>1, <2>3
    <3> QED
      BY <2>1, <3>1, Zenon
  <2> QED
    BY <2>2, <2>3, Zenon
<1>5. ASSUME NEW d \in Clients, NEW l \in Conns, NEW y \in Xids, NEW s,
             job' = [job EXCEPT ![d][l][y] = s], ~ (d = c /\ l = k /\ y = x)
      PROVE  job'[c][k][x] = job[c][k][x]
  BY <1>0, <1>5
<1>6. ASSUME NEW d \in Clients, NEW l \in Conns, NEW y \in Xids, Dispatch(d, l, y)
      PROVE  Effect
  <2>1. nonce_' = nonce_ /\ job[d][l][y] = "queued"
    BY <1>6, Zenon DEF Dispatch
  <2>2. PICK s \in {"none", "check"} : /\ job' = [job EXCEPT ![d][l][y] = s]
                                       /\ s = "check" => ~OldInstance(d, y)
    <3>1. CASE OldInstance(d, y)
      BY <1>6, <3>1 DEF Dispatch
    <3>2. CASE ~OldInstance(d, y)
      BY <1>6, <3>2 DEF Dispatch
    <3> QED
      BY <3>1, <3>2
  <2>3. CASE d = c /\ l = k /\ y = x
    <3>1. job'[c][k][x] = s
      BY <1>0, <2>2, <2>3
    <3> QED
      BY <2>1, <2>2, <2>3, <3>1
  <2>4. CASE ~ (d = c /\ l = k /\ y = x)
    BY <1>5, <2>1, <2>2, <2>4, Zenon
  <2> QED
    BY <2>3, <2>4, Zenon
<1>7. ASSUME NEW d \in Clients, NEW l \in Conns, NEW y \in Xids, CheckDuplicate(d, l, y)
      PROVE  Effect
  <2>1. PICK s \in {"run", "resend", "none"} : job' = [job EXCEPT ![d][l][y] = s]
    BY <1>7, ZenonT(40) DEF CheckDuplicate
  <2>2. nonce_' = nonce_
    BY <1>7 DEF CheckDuplicate
  <2>3. CASE d = c /\ l = k /\ y = x
    <3>1. job'[c][k][x] = s
      BY <1>0, <2>1, <2>3
    <3> QED
      BY <1>7, <2>3, <3>1, Zenon
  <2>4. CASE ~ (d = c /\ l = k /\ y = x)
    BY <1>5, <2>1, <2>2, <2>4
  <2> QED
    BY <2>3, <2>4, Zenon
<1>8. ASSUME NEW d \in Clients, NEW l \in Conns, NEW y \in Xids, AddReply(d, l, y)
      PROVE  Effect
  <2>1. job' = [job EXCEPT ![d][l][y] = "reply"] /\ nonce_' = nonce_
    BY <1>8 DEF AddReply
  <2>2. CASE d = c /\ l = k /\ y = x
    <3>1. job'[c][k][x] = "reply"
      BY <1>0, <2>1, <2>2
    <3> QED
      BY <1>8, <2>2, <3>1
  <2>3. CASE ~ (d = c /\ l = k /\ y = x)
    BY <1>5, <2>1, <2>3
  <2> QED
    BY <2>2, <2>3, Zenon
<1>9. ASSUME NEW d \in Clients, NEW l \in Conns, NEW y \in Xids, SendReply(d, l, y)
      PROVE  Effect
  <2>1. job' = [job EXCEPT ![d][l][y] = "none"] /\ nonce_' = nonce_
    BY <1>9 DEF SendReply
  <2> QED
    BY <1>0, <2>1
<1>10. CASE Restart
  <2>1. job'[c][k][x] = "none"
    BY <1>10 DEF Restart
  <2> QED
    BY <2>1
<1>11. CASE UNCHANGED vars
  BY <1>11 DEF vars, srvVars
<1>12. job' = job /\ nonce_' = nonce_ => Effect
  BY Zenon
<1> HIDE DEF Effect
<1>13. CASE Next
  BY <1>1, <1>2, <1>3, <1>4, <1>6, <1>7, <1>8, <1>9, <1>10, <1>12, <1>13, Zenon DEF Next
<1> QED
  BY <1>11, <1>13

\* A message sent is appended to one queue, or lost.
LEMMA SentEffect ==
    ASSUME NEW q \in {reqs, reps}, TypeOK, NEW d \in Clients,
           NEW l \in Conns \cup {0}, NEW m, NEW c \in Clients, NEW k \in Conns
    PROVE  \/ Sent(q, d, l, m)[c][k] = q[c][k]
           \/ d = c /\ l = k /\ Sent(q, d, l, m)[c][k] = Append(q[c][k], m)
<1>0. PICK S : q \in [Clients -> [Conns -> Seq(S)]]
  BY DEF TypeOK, ConnTypeOK
<1>1. CASE d = c /\ l = k
  BY <1>0, <1>1 DEF Sent
<1>2. CASE ~ (d = c /\ l = k)
  BY <1>0, <1>2 DEF Sent
<1> QED
  BY <1>1, <1>2, Zenon

LEMMA SeqGrows ==
    ASSUME NEW S, NEW T, S \subseteq T, NEW s \in Seq(S)
    PROVE  s \in Seq(T)
<1>1. Len(s) \in Nat /\ s \in [1..Len(s) -> S]
  OBVIOUS
<1>2. s \in [1..Len(s) -> T]
  BY <1>1
<1> QED
  BY <1>1, <1>2

LEMMA RequestEffect ==
    ASSUME TypeOK, [Next]_vars, NEW c \in Clients, NEW k \in Conns
    PROVE  \/ reqs'[c][k] = reqs[c][k]
           \/ reqs'[c][k] = <<>>
           \/ reqs[c][k] # <<>> /\ reqs'[c][k] = Tail(reqs[c][k])
           \/ \E x \in Xids : Outstanding(c, x) /\ reqs'[c][k] = Append(reqs[c][k], x)
<1> DEFINE Effect == \/ reqs'[c][k] = reqs[c][k]
                     \/ reqs'[c][k] = <<>>
                     \/ reqs[c][k] # <<>> /\ reqs'[c][k] = Tail(reqs[c][k])
                     \/ \E x \in Xids : Outstanding(c, x) /\ reqs'[c][k] = Append(reqs[c][k], x)
<1> SUFFICES Effect
  BY Zenon
<1> USE RpcAssumption
<1>0. reqs \in [Clients -> [Conns -> Seq(Xids)]]
  BY DEF TypeOK, ConnTypeOK
<1>1. ASSUME NEW d \in Clients, NEW p \in {"bind", "app"}, Call(d, p)
      PROVE  reqs' = reqs
  BY <1>1 DEF Call
<1>2. ASSUME NEW d \in Clients, NEW y \in Xids, Transmit(d, y)
      PROVE  Effect
  <2>1. PICK ch \in 0..MaxConn : reqs' = Sent(reqs, d, ch, y)
    BY <1>2 DEF Transmit
  <2>2. ch \in Conns \cup {0}
    BY DEF Conns
  <2>3. \/ Sent(reqs, d, ch, y)[c][k] = reqs[c][k]
        \/ d = c /\ Sent(reqs, d, ch, y)[c][k] = Append(reqs[c][k], y)
    BY <2>2, SentEffect
  <2>4. Outstanding(d, y)
    BY <1>2 DEF Transmit, Outstanding
  <2> QED
    BY <2>1, <2>3, <2>4, Zenon
<1>3. ASSUME NEW d \in Clients, NEW y \in Xids, Wake(d, y) \/ Timeout(d, y) \/ Finish(d, y)
      PROVE  reqs' = reqs
  BY <1>3 DEF Wake, Timeout, Finish
<1>4. ASSUME NEW d \in Clients, NEW l \in Conns, GotReply(d, l) \/ ClientDead(d, l)
      PROVE  reqs' = reqs
  BY <1>4, Zenon DEF GotReply, ClientDead
<1>5. ASSUME NEW d \in Clients, NEW l \in Conns, GotRequest(d, l)
      PROVE  Effect
  <2>1. reqs[d][l] # <<>> /\ reqs' = [reqs EXCEPT ![d][l] = Tail(reqs[d][l])]
    BY <1>5 DEF GotRequest
  <2> QED
    BY <1>0, <2>1
<1>6. ASSUME NEW d \in Clients, NEW l \in Conns, ServerDead(d, l)
      PROVE  Effect
  <2>1. reqs' = [reqs EXCEPT ![d][l] = <<>>]
    BY <1>6 DEF ServerDead
  <2> QED
    BY <1>0, <2>1
<1>7. ASSUME NEW d \in Clients, NEW l \in Conns, NEW y \in Xids,
             \/ Dispatch(d, l, y) \/ CheckDuplicate(d, l, y)
             \/ AddReply(d, l, y) \/ SendReply(d, l, y)
      PROVE  reqs' = reqs
  BY <1>7, Zenon DEF Dispatch, CheckDuplicate, AddReply, SendReply
<1>8. CASE Restart
  BY <1>8 DEF Restart
<1>9. CASE UNCHANGED vars
  BY <1>9 DEF vars
<1>10. reqs' = reqs => Effect
  OBVIOUS
<1> HIDE DEF Effect
<1>11. CASE Next
  BY <1>1, <1>2, <1>3, <1>4, <1>5, <1>6, <1>7, <1>8, <1>10, <1>11, Zenon DEF Next, CallStep
<1> QED
  BY <1>9, <1>11

================================================================================
