----------------------------- MODULE RpcReplyProofs -----------------------------
(* Invariance proofs for Rpc that need both ends: what requests, jobs, replies  *)
(* and acknowledgements on their way say about the calls they belong to.        *)
EXTENDS RpcProofs

--------------------------------------------------------------------------------
(* What has been sent, run or answered belongs to an xid that call1 has used.   *)

\* An xid not used yet is idle, and its header is blank.
IdleInv ==
    \A c \in Clients, x \in Xids :
        /\ call[c][x].pc = "idle" <=> x >= xid_[c]
        /\ call[c][x].pc = "idle" =>
              call[c][x].ret = 0 /\ hdr[c][x].rep = 0 /\ hdr[c][x].proc = "bind"

\* Requests, jobs and handlers that ran are of calls that were made.
UsedInv ==
    \A c \in Clients :
        /\ \A k \in Conns : reqs[c][k] \in Seq(1..(xid_[c] - 1))
        /\ \A k \in Conns, x \in Xids : job[c][k][x] # "none" => x < xid_[c]
        /\ \A n \in Nonces, x \in Xids : exec[n][c][x] > 0 => x < xid_[c]

PackedInv == TypeOK /\ IdleInv /\ UsedInv

LEMMA PackedInit == Init => PackedInv
<1> SUFFICES ASSUME Init PROVE PackedInv
  OBVIOUS
<1> USE RpcAssumption
<1>1. TypeOK
  BY TypeInit
<1>2. IdleInv
  BY DEF Init, IdleInv, Xids
<1>3. UsedInv
  <2> SUFFICES ASSUME NEW c \in Clients
               PROVE  /\ \A k \in Conns : reqs[c][k] \in Seq(1..(xid_[c] - 1))
                      /\ \A k \in Conns, x \in Xids : job[c][k][x] # "none" => x < xid_[c]
                      /\ \A n \in Nonces, x \in Xids : exec[n][c][x] > 0 => x < xid_[c]
    BY DEF UsedInv
  <2>1. \A k \in Conns : reqs[c][k] = <<>>
    BY DEF Init
  <2>2. \A k \in Conns, x \in Xids : job[c][k][x] = "none"
    BY DEF Init
  <2>3. \A n \in Nonces, x \in Xids : exec[n][c][x] = 0
    BY DEF Init
  <2>4. \A S : <<>> \in Seq(S)
    OBVIOUS
  <2>5. \A k \in Conns : reqs[c][k] \in Seq(1..(xid_[c] - 1))
    BY <2>1, <2>4, Zenon
  <2> QED
    BY <2>2, <2>3, <2>5
<1> QED
  BY <1>1, <1>2, <1>3 DEF PackedInv

\* Used xids stay used, settled calls stay settled and handlers stay run.
LEMMA Growing ==
    ASSUME PackedInv, [Next]_vars, NEW c \in Clients
    PROVE  /\ xid_[c] <= xid_'[c] /\ xid_[c] \in Nat /\ xid_'[c] \in Nat
           /\ \A x \in Xids : Settled(c, x) => Settled(c, x)'
           /\ \A x \in Xids : x < xid_[c] => hdr'[c][x] = hdr[c][x]
           /\ \A n \in Nonces, x \in Xids : exec[n][c][x] > 0 => exec'[n][c][x] > 0
<1> USE RpcAssumption
<1>0. TypeOK /\ TypeOK' /\ IdleInv
  BY TypeNext DEF PackedInv
<1>1. xid_[c] \in Nat /\ xid_'[c] \in Nat
  BY <1>0 DEF TypeOK, CltTypeOK
<1>2. xid_[c] <= xid_'[c]
  BY <1>0, <1>1, XidEffect
<1>3. ASSUME NEW x \in Xids, Settled(c, x) PROVE Settled(c, x)'
  <2>0. x \in Nat /\ call[c][x] \in Frames
    BY <1>0 DEF Xids, TypeOK, CltTypeOK
  <2>1. CASE call'[c][x] = call[c][x]
    BY <1>3, <2>1 DEF Settled
  <2>2. ~ (x = xid_[c] /\ \E p \in {"bind", "app"} : Call(c, p))
    BY <1>0, <1>1, <1>3, <2>0 DEF IdleInv, Settled
  <2>3. CASE Outstanding(c, x) /\ Outstanding(c, x)' /\ call'[c][x].ret = call[c][x].ret
    BY <1>3, <2>3 DEF Settled, Outstanding
  <2>4. CASE Finish(c, x)
    <3>1. call'[c][x].pc = "returned"
      BY <1>0, <2>4, Zenon DEF Finish, TypeOK, CltTypeOK
    <3> QED
      BY <3>1 DEF Settled
  <2>5. CASE Outstanding(c, x) /\ call[c][x].ret = 0
    BY <1>3, <2>5 DEF Settled, Outstanding
  <2> QED
    BY <1>0, <2>1, <2>2, <2>3, <2>4, <2>5, CallEffect
<1>4. ASSUME NEW x \in Xids, x < xid_[c] PROVE hdr'[c][x] = hdr[c][x]
  <2>1. ASSUME NEW p \in {"bind", "app"}, Call(c, p) PROVE hdr'[c][x] = hdr[c][x]
    BY <1>0, <1>1, <1>4, <2>1 DEF Call, TypeOK, CltTypeOK, Xids
  <2> QED
    BY <1>0, <2>1, XidEffect
<1>5. ASSUME NEW n \in Nonces, NEW x \in Xids, exec[n][c][x] > 0 PROVE exec'[n][c][x] > 0
  <2>1. exec[n][c][x] \in Nat
    BY <1>0 DEF TypeOK, HistTypeOK
  <2> QED
    BY <1>0, <1>5, <2>1, ExecEffect
<1> QED
  BY <1>1, <1>2, <1>3, <1>4, <1>5

LEMMA PackedNext == PackedInv /\ [Next]_vars => PackedInv'
<1> SUFFICES ASSUME PackedInv, [Next]_vars PROVE PackedInv'
  OBVIOUS
<1> USE RpcAssumption
<1>0. TypeOK /\ TypeOK' /\ IdleInv /\ UsedInv
  BY TypeNext DEF PackedInv
<1>1. IdleInv'
  <2> SUFFICES ASSUME NEW c \in Clients, NEW x \in Xids
               PROVE  /\ call'[c][x].pc = "idle" <=> x >= xid_'[c]
                      /\ call'[c][x].pc = "idle" =>
                            /\ call'[c][x].ret = 0
                            /\ hdr'[c][x].rep = 0 /\ hdr'[c][x].proc = "bind"
    BY DEF IdleInv
  <2>0. /\ x \in Nat /\ xid_[c] \in Nat /\ xid_'[c] \in Nat
        /\ call \in [Clients -> [Xids -> Frames]] /\ call[c][x] \in Frames
        /\ xid_ \in [Clients -> 1..(MaxXid + 1)] /\ hdr \in [Clients -> [Xids -> Headers]]
    BY <1>0 DEF Xids, TypeOK, CltTypeOK
  <2>1. /\ call[c][x].pc = "idle" <=> x >= xid_[c]
        /\ call[c][x].pc = "idle" =>
              call[c][x].ret = 0 /\ hdr[c][x].rep = 0 /\ hdr[c][x].proc = "bind"
    BY <1>0 DEF IdleInv
  <2>2. ASSUME NEW p \in {"bind", "app"}, Call(c, p)
        PROVE  /\ call'[c][x].pc = "idle" <=> x >= xid_'[c]
               /\ call'[c][x].pc = "idle" => call'[c][x] = call[c][x] /\ hdr'[c][x] = hdr[c][x]
    <3>1. CASE x = xid_[c]
      <4>1. call'[c][x] = [call[c][x] EXCEPT !.pc = "send"] /\ xid_'[c] = x + 1
        BY <2>0, <2>2, <3>1 DEF Call
      <4>2. call'[c][x].pc = "send"
        BY <2>0, <4>1 DEF Frames
      <4> QED
        BY <2>0, <4>1, <4>2
    <3>2. CASE x # xid_[c]
      <4>1. call'[c][x] = call[c][x] /\ hdr'[c][x] = hdr[c][x] /\ xid_'[c] = xid_[c] + 1
        BY <2>0, <2>2, <3>2 DEF Call
      <4> QED
        BY <2>0, <2>1, <3>2, <4>1
    <3> QED
      BY <3>1, <3>2
  <2>3. CASE xid_'[c] = xid_[c] /\ hdr'[c] = hdr[c]
    <3>1. CASE call'[c][x] = call[c][x]
      BY <2>1, <2>3, <3>1
    <3>2. ~ \E p \in {"bind", "app"} : Call(c, p)
      BY <2>0, <2>3 DEF Call
    <3>3. CASE Outstanding(c, x) /\ Outstanding(c, x)'
      BY <2>1, <2>3, <3>3 DEF Outstanding
    <3>4. CASE Finish(c, x)
      <4>1. call[c][x].pc = "over" /\ call'[c][x].pc = "returned"
        BY <2>0, <3>4 DEF Finish
      <4> QED
        BY <2>1, <2>3, <4>1
    <3> QED
      BY <1>0, <3>1, <3>2, <3>3, <3>4, CallEffect
  <2> QED
    BY <1>0, <2>1, <2>2, <2>3, XidEffect
<1>2. UsedInv'
  <2> SUFFICES ASSUME NEW c \in Clients
               PROVE  /\ \A k \in Conns : reqs'[c][k] \in Seq(1..(xid_'[c] - 1))
                      /\ \A k \in Conns, x \in Xids : job'[c][k][x] # "none" => x < xid_'[c]
                      /\ \A n \in Nonces, x \in Xids : exec'[n][c][x] > 0 => x < xid_'[c]
    BY DEF UsedInv
  <2>0. xid_[c] <= xid_'[c] /\ xid_[c] \in Nat /\ xid_'[c] \in Nat /\ Xids \subseteq Nat
    BY Growing DEF Xids
  <2>1. ASSUME NEW k \in Conns PROVE reqs'[c][k] \in Seq(1..(xid_'[c] - 1))
    <3> DEFINE S == 1..(xid_'[c] - 1)
    <3>1. 1..(xid_[c] - 1) \subseteq S
      BY <2>0
    <3>2. reqs[c][k] \in Seq(1..(xid_[c] - 1))
      BY <1>0 DEF UsedInv
    <3>3. reqs[c][k] \in Seq(S)
      BY <3>1, <3>2, SeqGrows, Zenon
    <3>4. ASSUME NEW x \in Xids, Outstanding(c, x) PROVE x \in S
      BY <1>0, <2>0, <3>4 DEF IdleInv, Outstanding, Xids
    <3> HIDE DEF S
    <3>5. ASSUME reqs'[c][k] = Tail(reqs[c][k]), reqs[c][k] # <<>>
          PROVE  reqs'[c][k] \in Seq(S)
      BY <3>3, <3>5
    <3>6. ASSUME NEW x \in Xids, Outstanding(c, x), reqs'[c][k] = Append(reqs[c][k], x)
          PROVE  reqs'[c][k] \in Seq(S)
      <4>1. x \in S
        BY <3>4, <3>6
      <4> QED
        BY <3>3, <3>6, <4>1
    <3>7. <<>> \in Seq(S)
      OBVIOUS
    <3>8. reqs'[c][k] \in Seq(S)
      BY <1>0, <3>3, <3>5, <3>6, <3>7, RequestEffect, Zenon
    <3> QED
      BY <3>8 DEF S
  <2>2. ASSUME NEW k \in Conns, NEW x \in Xids, job'[c][k][x] # "none" PROVE x < xid_'[c]
    <3>1. CASE job[c][k][x] # "none"
      BY <1>0, <2>0, <3>1 DEF UsedInv
    <3>2. CASE reqs[c][k] # <<>> /\ Head(reqs[c][k]) = x
      <4> DEFINE S == 1..(xid_[c] - 1)
      <4>1. reqs[c][k] \in Seq(S)
        BY <1>0 DEF UsedInv
      <4> HIDE DEF S
      <4>2. x \in S
        BY <3>2, <4>1
      <4> QED
        BY <2>0, <4>2 DEF S
    <3>3. CheckDuplicate(c, k, x) => job[c][k][x] # "none"
      BY DEF CheckDuplicate
    <3>4. AddReply(c, k, x) => job[c][k][x] # "none"
      BY DEF AddReply
    <3> QED
      BY <1>0, <2>2, <3>1, <3>2, <3>3, <3>4, JobEffect
  <2>3. ASSUME NEW n \in Nonces, NEW x \in Xids, exec'[n][c][x] > 0 PROVE x < xid_'[c]
    <3>1. CASE exec[n][c][x] > 0
      BY <1>0, <2>0, <3>1 DEF UsedInv
    <3>2. ASSUME NEW k \in Conns, CheckDuplicate(c, k, x) PROVE x < xid_'[c]
      <4>1. job[c][k][x] # "none"
        BY <3>2 DEF CheckDuplicate
      <4> QED
        BY <1>0, <2>0, <4>1 DEF UsedInv
    <3> QED
      BY <1>0, <2>3, <3>1, <3>2, ExecEffect
  <2> QED
    BY <2>1, <2>2, <2>3
<1> QED
  BY <1>0, <1>1, <1>2 DEF PackedInv

--------------------------------------------------------------------------------
(* Requests bound to an instance.                                               *)

\* A request that is not for bind carries a nonce, and whatever is past the
\* nonce check of dispatch is for this instance.
BoundInv ==
    /\ \A c \in Clients, x \in Xids : hdr[c][x].proc = "app" => hdr[c][x].srv # 0
    /\ \A c \in Clients, k \in Conns, x \in Xids :
          job[c][k][x] \notin {"none", "queued"} => ~OldInstance(c, x)
    /\ OnlyBoundInstanceRuns

LEMMA BoundInit == Init => BoundInv
<1> SUFFICES ASSUME Init PROVE BoundInv
  OBVIOUS
<1>1. \A c \in Clients, x \in Xids : hdr[c][x].proc = "bind"
  BY DEF Init
<1>2. \A c \in Clients, k \in Conns, x \in Xids : job[c][k][x] = "none"
  BY DEF Init
<1> QED
  BY <1>1, <1>2 DEF BoundInv, OnlyBoundInstanceRuns

LEMMA BoundNext == PackedInv /\ BoundInv /\ [Next]_vars => BoundInv'
<1> SUFFICES ASSUME PackedInv, BoundInv, [Next]_vars PROVE BoundInv'
  OBVIOUS
<1> USE RpcAssumption
<1>0. TypeOK /\ TypeOK' /\ PackedInv' /\ IdleInv /\ UsedInv /\ UsedInv' /\ OnlyBoundInstanceRuns
  BY PackedNext DEF PackedInv, BoundInv
<1>1. ASSUME NEW c \in Clients, NEW x \in Xids, hdr'[c][x].proc = "app"
      PROVE  hdr'[c][x].srv # 0
  <2>0. /\ hdr \in [Clients -> [Xids -> Headers]]
        /\ hdr[c][x].proc = "app" => hdr[c][x].srv # 0
    BY <1>0 DEF TypeOK, CltTypeOK, BoundInv
  <2>1. ASSUME NEW p \in {"bind", "app"}, Call(c, p) PROVE hdr'[c][x].srv # 0
    <3>1. hdr'[c][x] = IF x = xid_[c] THEN [proc |-> p, srv |-> srv_nonce_[c],
                                            rep |-> Front(xid_rep_window_[c])]
                       ELSE hdr[c][x]
      BY <2>0, <2>1 DEF Call
    <3>2. p = "app" => srv_nonce_[c] # 0
      BY <2>1 DEF Call
    <3> QED
      BY <1>1, <2>0, <3>1, <3>2
  <2> QED
    BY <1>0, <1>1, <2>0, <2>1, XidEffect
<1>2. ASSUME NEW c \in Clients, NEW x \in Xids, x < xid_[c] PROVE hdr'[c][x] = hdr[c][x]
  BY <1>2, Growing
<1>3. ASSUME NEW c \in Clients, NEW k \in Conns, NEW x \in Xids,
             job'[c][k][x] \notin {"none", "queued"}
      PROVE  ~OldInstance(c, x)'
  <2>1. job[c][k][x] \notin {"none", "queued"} => ~OldInstance(c, x)
    BY DEF BoundInv
  <2>2. CheckDuplicate(c, k, x) => nonce_' = nonce_ /\ job[c][k][x] = "check"
    BY DEF CheckDuplicate
  <2>3. AddReply(c, k, x) => nonce_' = nonce_ /\ job[c][k][x] = "run"
    BY DEF AddReply
  <2>4. /\ job[c][k][x] # "none" /\ nonce_' = nonce_
        /\ job[c][k][x] \notin {"none", "queued"} \/ ~OldInstance(c, x)
    BY <1>0, <1>3, <2>2, <2>3, JobEffect
  <2>5. ~OldInstance(c, x)
    BY <2>1, <2>4
  <2>6. x < xid_[c]
    BY <1>0, <2>4 DEF UsedInv
  <2>7. hdr'[c][x] = hdr[c][x]
    BY <1>2, <2>6
  <2> QED
    BY <2>4, <2>5, <2>7 DEF OldInstance
<1>4. ASSUME NEW c \in Clients, NEW x \in Xids, NEW n \in Nonces,
             exec'[n][c][x] > 0, hdr'[c][x].proc = "app"
      PROVE  n = hdr'[c][x].srv
  <2>1. CASE exec[n][c][x] > 0
    <3>1. hdr'[c][x] = hdr[c][x]
      BY <1>0, <1>2, <2>1 DEF UsedInv
    <3> QED
      BY <1>0, <1>4, <2>1, <3>1 DEF OnlyBoundInstanceRuns
  <2>2. ASSUME NEW k \in Conns, n = nonce_, CheckDuplicate(c, k, x) PROVE n = hdr'[c][x].srv
    <3>1. job[c][k][x] = "check"
      BY <2>2 DEF CheckDuplicate
    <3>2. hdr'[c][x] = hdr[c][x]
      BY <1>0, <1>2, <3>1 DEF UsedInv
    <3>3. ~OldInstance(c, x) /\ hdr[c][x].srv # 0
      BY <1>1, <1>4, <3>1, <3>2 DEF BoundInv
    <3> QED
      BY <2>2, <3>2, <3>3 DEF OldInstance
  <2> QED
    BY <1>0, <1>4, <2>1, <2>2, ExecEffect
<1> QED
  BY <1>1, <1>3, <1>4 DEF BoundInv, OnlyBoundInstanceRuns

--------------------------------------------------------------------------------
(* Replies and the calls they answer.                                           *)

\* An entry of the reply window, and a job past the window check, mean that this
\* instance has run the handler.
RunInv ==
    \A c \in Clients, x \in Xids :
        (\/ reply_window_[c][x] # "absent"
         \/ \E k \in Conns : job[c][k][x] \in {"run", "reply", "resend"})
        => exec[nonce_][c][x] > 0

LEMMA RunInit == Init => RunInv
BY DEF Init, RunInv

LEMMA RunNext == PackedInv /\ RunInv /\ [Next]_vars => RunInv'
<1> SUFFICES ASSUME PackedInv, RunInv, [Next]_vars PROVE RunInv'
  OBVIOUS
<1>0. /\ TypeOK /\ nonce_ \in Nonces
      /\ exec \in [Nonces -> [Clients -> [Xids -> Nat]]]
      /\ reply_window_ \in [Clients -> [Xids -> {"absent", "wip", "done"}]]
  BY DEF PackedInv, TypeOK, SrvTypeOK, HistTypeOK
<1>1. CASE Restart
  <2>1. \A c \in Clients, x \in Xids : reply_window_'[c][x] = "absent"
    BY <1>1 DEF Restart
  <2>2. \A c \in Clients, k \in Conns, x \in Xids : job'[c][k][x] = "none"
    BY <1>1 DEF Restart
  <2> QED
    BY <2>1, <2>2 DEF RunInv
<1>2. CASE ~Restart
  <2> SUFFICES ASSUME NEW c \in Clients, NEW x \in Xids,
                      \/ reply_window_'[c][x] # "absent"
                      \/ \E k \in Conns : job'[c][k][x] \in {"run", "reply", "resend"}
               PROVE  exec'[nonce_'][c][x] > 0
    BY DEF RunInv
  <2>1. nonce_' = nonce_
    <3>1. ASSUME NEW d \in Clients, NEW k \in Conns, NEW y \in Xids,
                 CheckDuplicate(d, k, y) \/ AddReply(d, k, y)
          PROVE  nonce_' = nonce_
      BY <3>1 DEF CheckDuplicate, AddReply
    <3> QED
      BY <1>2, <3>1, WindowSteps
  <2>2. CASE exec[nonce_][c][x] > 0
    BY <1>0, <2>1, <2>2, Growing
  <2>3. ASSUME NEW k \in Conns, CheckDuplicate(c, k, x), rpcstate(c, x) = "NEW"
        PROVE  exec'[nonce_'][c][x] > 0
    <3>1. exec' = [exec EXCEPT ![nonce_][c][x] = @ + 1]
      BY <2>3 DEF CheckDuplicate
    <3>2. exec'[nonce_][c][x] = exec[nonce_][c][x] + 1 /\ exec[nonce_][c][x] \in Nat
      BY <1>0, <3>1
    <3> QED
      BY <2>1, <3>2
  <2>4. ASSUME reply_window_[c][x] = "absent", reply_window_'[c][x] # "absent"
        PROVE  \E k \in Conns : CheckDuplicate(c, k, x) /\ rpcstate(c, x) = "NEW"
    <3>1. ASSUME NEW d \in Clients, NEW k \in Conns, NEW y \in Xids, AddReply(d, k, y)
          PROVE  FALSE
      BY <1>0, <2>4, <3>1 DEF AddReply
    <3>2. ASSUME NEW d \in Clients, NEW k \in Conns, NEW y \in Xids, CheckDuplicate(d, k, y)
          PROVE  d = c /\ y = x /\ rpcstate(c, x) = "NEW"
      <4>1. d = c
        BY <1>0, <2>4, <3>2 DEF CheckDuplicate
      <4>2. reply_window_'[c][x] = IF x = y /\ rpcstate(c, y) = "NEW" THEN "wip"
                                   ELSE IF x \in Erased(c, y) THEN "absent"
                                   ELSE reply_window_[c][x]
        BY <1>0, <3>2, <4>1 DEF CheckDuplicate
      <4> QED
        BY <2>4, <4>1, <4>2
    <3> QED
      BY <1>2, <2>4, <3>1, <3>2, WindowSteps
  <2>5. ASSUME NEW k \in Conns, job'[c][k][x] \in {"run", "reply", "resend"},
               job[c][k][x] \notin {"run", "reply", "resend"}
        PROVE  CheckDuplicate(c, k, x) /\
               (rpcstate(c, x) = "NEW" \/ reply_window_[c][x] # "absent")
    <3>1. ~AddReply(c, k, x)
      BY <2>5 DEF AddReply
    <3>2. CheckDuplicate(c, k, x)
      BY <1>0, <2>5, <3>1, JobEffect
    <3>3. rpcstate(c, x) \in {"NEW", "DONE"}
      BY <1>0, <2>5, <3>2 DEF CheckDuplicate, PackedInv, TypeOK, SrvTypeOK
    <3>4. rpcstate(c, x) = "DONE" => reply_window_[c][x] # "absent"
      BY <1>0 DEF rpcstate
    <3> QED
      BY <3>2, <3>3, <3>4
  <2> QED
    BY <2>2, <2>3, <2>4, <2>5 DEF RunInv
<1> QED
  BY <1>1, <1>2

\* What the server sends.
LEMMA ReplyEffect ==
    ASSUME TypeOK, [Next]_vars, NEW c \in Clients, NEW k \in Conns
    PROVE  \/ reps'[c][k] = reps[c][k]
           \/ reps'[c][k] = <<>>
           \/ reps[c][k] # <<>> /\ reps'[c][k] = Tail(reps[c][k])
           \/ \E l \in Conns, x \in Xids, n \in {oldsrv_failure, atmostonce_failure} :
                 /\ job[c][l][x] # "none"
                 /\ reps'[c][k] = Append(reps[c][k], [xid |-> x, ret |-> n])
           \/ \E l \in Conns, x \in Xids, y \in 0..MaxXid :
                 /\ SendReply(c, l, x) /\ (buf[c][l][x] = "freed" \/ y = x)
                 /\ reps'[c][k] = Append(reps[c][k], [xid |-> y, ret |-> nonce_])
<1> DEFINE Refusal == \E l \in Conns, x \in Xids, n \in {oldsrv_failure, atmostonce_failure} :
                         /\ job[c][l][x] # "none"
                         /\ reps'[c][k] = Append(reps[c][k], [xid |-> x, ret |-> n])
           Result == \E l \in Conns, x \in Xids, y \in 0..MaxXid :
                        /\ SendReply(c, l, x) /\ (buf[c][l][x] = "freed" \/ y = x)
                        /\ reps'[c][k] = Append(reps[c][k], [xid |-> y, ret |-> nonce_])
           Effect == \/ reps'[c][k] = reps[c][k]
                     \/ reps'[c][k] = <<>>
                     \/ reps[c][k] # <<>> /\ reps'[c][k] = Tail(reps[c][k])
                     \/ Refusal \/ Result
<1> SUFFICES Effect
  BY Zenon
<1> USE RpcAssumption
<1>0. reps \in [Clients -> [Conns -> Seq(Replies)]] /\ conns_ \in [Clients -> 0..MaxConn]
  BY DEF TypeOK, ConnTypeOK, SrvTypeOK
<1>1. ASSUME NEW d \in Clients, NEW p \in {"bind", "app"}, Call(d, p)
      PROVE  reps' = reps
  BY <1>1 DEF Call
<1>2. ASSUME NEW d \in Clients, NEW y \in Xids, CallStep(d, y)
      PROVE  reps' = reps
  BY <1>2, Zenon DEF CallStep, Transmit, Wake, Timeout, Finish
<1>3. ASSUME NEW d \in Clients, NEW l \in Conns, GotRequest(d, l) \/ ServerDead(d, l)
      PROVE  reps' = reps
  BY <1>3 DEF GotRequest, ServerDead
<1>4. ASSUME NEW d \in Clients, NEW l \in Conns, GotReply(d, l)
      PROVE  Effect
  <2>1. reps[d][l] # <<>> /\ reps' = [reps EXCEPT ![d][l] = Tail(reps[d][l])]
    BY <1>4, ZenonT(40) DEF GotReply
  <2> QED
    BY <1>0, <2>1
<1>5. ASSUME NEW d \in Clients, NEW l \in Conns, ClientDead(d, l)
      PROVE  Effect
  <2>1. reps' = [reps EXCEPT ![d][l] = <<>>]
    BY <1>5 DEF ClientDead
  <2> QED
    BY <1>0, <2>1
<1>6. ASSUME NEW d \in Clients, NEW l \in Conns, NEW y \in Xids,
             Dispatch(d, l, y) \/ CheckDuplicate(d, l, y)
      PROVE  Effect
  <2>1. job[d][l][y] # "none"
    BY <1>6 DEF Dispatch, CheckDuplicate
  <2>2. \/ reps' = reps
        \/ \E n \in {oldsrv_failure, atmostonce_failure} :
              reps' = Sent(reps, d, l, [xid |-> y, ret |-> n])
    <3>1. CASE Dispatch(d, l, y)
      BY <3>1 DEF Dispatch
    <3>2. CASE CheckDuplicate(d, l, y)
      BY <3>2 DEF CheckDuplicate
    <3> QED
      BY <1>6, <3>1, <3>2
  <2>3. CASE reps' = reps
    BY <2>3
  <2>4. ASSUME NEW n \in {oldsrv_failure, atmostonce_failure},
               reps' = Sent(reps, d, l, [xid |-> y, ret |-> n])
        PROVE  Effect
    <3> DEFINE m == [xid |-> y, ret |-> n]
    <3> HIDE DEF m
    <3>1. \/ Sent(reps, d, l, m)[c][k] = reps[c][k]
          \/ d = c /\ Sent(reps, d, l, m)[c][k] = Append(reps[c][k], m)
      BY SentEffect
    <3>2. \/ reps'[c][k] = reps[c][k]
          \/ d = c /\ reps'[c][k] = Append(reps[c][k], m)
      BY <2>4, <3>1, Zenon DEF m
    <3>3. d = c /\ reps'[c][k] = Append(reps[c][k], m) => Refusal
      BY <2>1 DEF m
    <3> QED
      BY <3>2, <3>3, ZenonT(40)
  <2> QED
    BY <2>2, <2>3, <2>4, Zenon
<1>7. ASSUME NEW d \in Clients, NEW l \in Conns, NEW z \in Xids, SendReply(d, l, z)
      PROVE  Effect
  <2>0. z \in 0..MaxXid
    BY DEF Xids
  <2>1. PICK y \in 0..MaxXid :
           /\ buf[d][l][z] = "freed" \/ y = z
           /\ reps' = Sent(reps, d, ReplyConn(d, l, z), [xid |-> y, ret |-> nonce_])
    BY <1>7, <2>0 DEF SendReply
  <2>2. ReplyConn(d, l, z) \in Conns \cup {0}
    BY <1>0 DEF ReplyConn, Conns
  <2> DEFINE m == [xid |-> y, ret |-> nonce_]
             rc == ReplyConn(d, l, z)
  <2>3. reps' = Sent(reps, d, rc, m)
    BY <2>1
  <2>4. d = c /\ reps'[c][k] = Append(reps[c][k], m) => Result
    BY <1>7, <2>1
  <2> HIDE DEF m, rc, Result
  <2>5. \/ Sent(reps, d, rc, m)[c][k] = reps[c][k]
        \/ d = c /\ Sent(reps, d, rc, m)[c][k] = Append(reps[c][k], m)
    BY <2>2, SentEffect DEF rc
  <2> QED
    BY <2>3, <2>4, <2>5, Zenon
<1>8. ASSUME NEW d \in Clients, NEW l \in Conns, NEW y \in Xids, AddReply(d, l, y)
      PROVE  reps' = reps
  BY <1>8 DEF AddReply
<1>9. CASE Restart
  BY <1>9 DEF Restart
<1>10. CASE UNCHANGED vars
  BY <1>10 DEF vars
<1>11. reps' = reps => Effect
  OBVIOUS
<1> HIDE DEF Effect
<1>12. CASE Next
  BY <1>1, <1>2, <1>3, <1>4, <1>5, <1>6, <1>7, <1>8, <1>9, <1>11, <1>12, Zenon DEF Next
<1> QED
  BY <1>10, <1>12

\* The replies that are true of the server: what they say has been run, has.
Truthful(c) == {m \in Replies : /\ m.xid \in 1..(xid_[c] - 1)
                                /\ m.ret > 0 => exec[m.ret][c][m.xid] > 0}

\* As long as no freed buffer has been sent, every reply on its way is true, and
\* so is every result that call1 holds or has returned.
ReplyInv ==
    ~freedSent => \A c \in Clients :
        /\ \A k \in Conns : reps[c][k] \in Seq(Truthful(c))
        /\ \A x \in Xids : call[c][x].ret > 0 => exec[call[c][x].ret][c][x] > 0

LEMMA ReplyInit == Init => ReplyInv
<1> SUFFICES ASSUME Init, NEW c \in Clients
             PROVE  /\ \A k \in Conns : reps[c][k] \in Seq(Truthful(c))
                    /\ \A x \in Xids : call[c][x].ret > 0 => exec[call[c][x].ret][c][x] > 0
  BY DEF ReplyInv
<1>1. \A k \in Conns : reps[c][k] = <<>>
  BY DEF Init
<1>2. \A x \in Xids : call[c][x].ret = 0
  BY DEF Init
<1>3. <<>> \in Seq(Truthful(c))
  OBVIOUS
<1>4. \A k \in Conns : reps[c][k] \in Seq(Truthful(c))
  BY <1>1, <1>3, ZenonT(40)
<1> QED
  BY <1>2, <1>4

\* Once a freed buffer has been sent it has been sent.
LEMMA FreedEffect ==
    ASSUME [Next]_vars, ~freedSent'
    PROVE  /\ ~freedSent
           /\ \A c \in Clients, k \in Conns, x \in Xids :
                 SendReply(c, k, x) => buf[c][k][x] # "freed"
<1>1. \A c \in Clients, p \in {"bind", "app"} : Call(c, p) => freedSent' = freedSent
  BY DEF Call, histVars
<1>2. ASSUME NEW c \in Clients, NEW x \in Xids, CallStep(c, x)
      PROVE  freedSent' = freedSent
  BY <1>2, Zenon DEF CallStep, Transmit, Wake, Timeout, Finish, histVars
<1>3. ASSUME NEW c \in Clients, NEW k \in Conns,
             GotReply(c, k) \/ GotRequest(c, k) \/ ClientDead(c, k) \/ ServerDead(c, k)
      PROVE  freedSent' = freedSent
  BY <1>3, ZenonT(40) DEF GotReply, GotRequest, ClientDead, ServerDead, histVars
<1>4. ASSUME NEW c \in Clients, NEW k \in Conns, NEW x \in Xids,
             Dispatch(c, k, x) \/ CheckDuplicate(c, k, x) \/ AddReply(c, k, x)
      PROVE  freedSent' = freedSent
  BY <1>4 DEF Dispatch, CheckDuplicate, AddReply, histVars
<1>5. \A c \in Clients, k \in Conns, x \in Xids :
         SendReply(c, k, x) => ~freedSent /\ buf[c][k][x] # "freed"
  BY ZenonT(40) DEF SendReply
<1>6. Restart => freedSent' = freedSent
  BY DEF Restart
<1>7. UNCHANGED vars => freedSent' = freedSent
  BY DEF vars, histVars
<1>8. \/ freedSent' = freedSent
      \/ \E c \in Clients, k \in Conns, x \in Xids : SendReply(c, k, x)
  BY <1>1, <1>2, <1>3, <1>4, <1>6, <1>7, Zenon DEF Next
<1> QED
  BY <1>5, <1>8

LEMMA ReplyNext ==
    PackedInv /\ RunInv /\ ReplyInv /\ [Next]_vars => ReplyInv'
<1> SUFFICES ASSUME PackedInv, RunInv, ReplyInv, [Next]_vars, ~freedSent', NEW c \in Clients
             PROVE  /\ \A k \in Conns : reps'[c][k] \in Seq(Truthful(c)')
                    /\ \A x \in Xids :
                          call'[c][x].ret > 0 => exec'[call'[c][x].ret][c][x] > 0
  BY DEF ReplyInv
<1> USE RpcAssumption
<1>0. /\ TypeOK /\ TypeOK' /\ UsedInv /\ ~freedSent /\ xid_[c] \in Nat /\ xid_'[c] \in Nat
      /\ xid_[c] <= xid_'[c]
      /\ reps \in [Clients -> [Conns -> Seq(Replies)]]
      /\ nonce_ \in Nonces
  BY FreedEffect, TypeNext, Growing, Zenon DEF PackedInv, TypeOK, ConnTypeOK, SrvTypeOK
<1>1. \A r \in Rets : r > 0 => r \in Nonces
  BY DEF Rets, Nonces, timeout_failure, atmostonce_failure, oldsrv_failure
<1>2. Truthful(c) \subseteq Truthful(c)'
  <2> SUFFICES ASSUME NEW m \in Truthful(c) PROVE m \in Truthful(c)'
    OBVIOUS
  <2>1. m \in Replies /\ m.xid \in 1..(xid_[c] - 1) /\ m.ret \in Rets /\ m.xid \in Xids
    BY <1>0 DEF Truthful, Replies, Xids, TypeOK, CltTypeOK
  <2>2. m.xid \in 1..(xid_'[c] - 1)
    BY <1>0, <2>1
  <2>3. m.ret > 0 => exec'[m.ret][c][m.xid] > 0
    BY <1>1, <2>1, Growing, Zenon DEF Truthful
  <2> QED
    BY <2>1, <2>2, <2>3, Zenon DEF Truthful
<1>3. ASSUME NEW k \in Conns PROVE reps'[c][k] \in Seq(Truthful(c)')
  <2> DEFINE T == Truthful(c)'
  <2>1. reps[c][k] \in Seq(T)
    BY <1>0, <1>2, SeqGrows, Zenon DEF ReplyInv
  <2>2. ASSUME NEW l \in Conns, NEW x \in Xids, job[c][l][x] # "none",
               NEW n \in {oldsrv_failure, atmostonce_failure}
        PROVE  [xid |-> x, ret |-> n] \in T
    <3>1. x \in 1..(xid_'[c] - 1)
      BY <1>0, <2>2 DEF UsedInv, Xids
    <3>2. ~ (n > 0) /\ n \in Rets \ {0, timeout_failure}
      BY DEF Rets, timeout_failure, atmostonce_failure, oldsrv_failure
    <3>3. [xid |-> x, ret |-> n] \in Replies
      BY <3>2 DEF Replies, Xids
    <3> QED
      BY <3>1, <3>2, <3>3 DEF Truthful
  <2>3. ASSUME NEW l \in Conns, NEW x \in Xids, SendReply(c, l, x)
        PROVE  [xid |-> x, ret |-> nonce_] \in T
    <3>1. job[c][l][x] \in {"reply", "resend"}
      BY <2>3 DEF SendReply
    <3>2. exec[nonce_][c][x] > 0 /\ x \in 1..(xid_'[c] - 1)
      BY <1>0, <3>1 DEF RunInv, UsedInv, Xids
    <3>3. exec'[nonce_][c][x] > 0
      BY <1>0, <3>2, Growing
    <3>4. nonce_ \in Rets \ {0, timeout_failure}
      BY <1>0 DEF Rets, Nonces, timeout_failure
    <3>5. [xid |-> x, ret |-> nonce_] \in Replies
      BY <3>4 DEF Replies, Xids
    <3> QED
      BY <3>2, <3>3, <3>5 DEF Truthful
  <2> HIDE DEF T
  <2>4. ASSUME NEW m \in T, reps'[c][k] = Append(reps[c][k], m)
        PROVE  reps'[c][k] \in Seq(T)
    BY <2>1, <2>4
  <2>5. reps[c][k] # <<>> /\ reps'[c][k] = Tail(reps[c][k]) => reps'[c][k] \in Seq(T)
    BY <2>1
  <2>6. <<>> \in Seq(T)
    OBVIOUS
  <2>7. ASSUME NEW l \in Conns, NEW x \in Xids, NEW y \in 0..MaxXid, SendReply(c, l, x),
               buf[c][l][x] = "freed" \/ y = x
        PROVE  [xid |-> y, ret |-> nonce_] \in T
    BY <2>3, <2>7, FreedEffect
  <2>8. reps'[c][k] \in Seq(T)
    BY <1>0, <2>1, <2>2, <2>4, <2>5, <2>6, <2>7, ReplyEffect, ZenonT(40)
  <2> QED
    BY <2>8 DEF T
<1>4. ASSUME NEW x \in Xids, call'[c][x].ret > 0
      PROVE  exec'[call'[c][x].ret][c][x] > 0
  <2>0. /\ call \in [Clients -> [Xids -> Frames]] /\ call[c][x] \in Frames
        /\ call[c][x].ret \in Rets /\ call[c][x].ret \in Int
    <3>1. call \in [Clients -> [Xids -> Frames]]
      BY <1>0, Zenon DEF TypeOK, CltTypeOK
    <3>2. call[c][x] \in Frames
      BY <1>4, <3>1
    <3>3. call[c][x].ret \in Rets
      BY <3>2 DEF Frames
    <3>4. Rets \subseteq Int
      BY DEF Rets, Nonces, timeout_failure, atmostonce_failure, oldsrv_failure
    <3> QED
      BY <3>1, <3>2, <3>3, <3>4, Zenon
  <2>1. CASE call'[c][x].ret = call[c][x].ret
    <3>1. exec[call[c][x].ret][c][x] > 0 /\ call[c][x].ret \in Nonces
      BY <1>0, <1>1, <1>4, <2>0, <2>1, ZenonT(40) DEF ReplyInv
    <3> QED
      BY <2>1, <3>1, Growing, ZenonT(40)
  <2>2. CASE x = xid_[c] /\ \E p \in {"bind", "app"} : Call(c, p)
    <3>1. call'[c][x] = [call[c][x] EXCEPT !.pc = "send"]
      BY <2>0, <2>2 DEF Call
    <3>2. call'[c][x].ret = call[c][x].ret
      BY <2>0, <3>1 DEF Frames
    <3> QED
      BY <2>1, <3>2
  <2>3. CASE Finish(c, x)
    <3>1. call'[c][x].ret = IF call[c][x].ret = 0 THEN timeout_failure ELSE call[c][x].ret
      BY <2>0, <2>3 DEF Finish
    <3>2. call'[c][x].ret = call[c][x].ret
      BY <1>4, <3>1 DEF timeout_failure
    <3> QED
      BY <2>1, <3>2
  <2>4. ASSUME NEW k \in Conns, reps[c][k] # <<>>, Head(reps[c][k]).xid = x,
               call'[c][x].ret = Head(reps[c][k]).ret
        PROVE  exec'[call'[c][x].ret][c][x] > 0
    <3> DEFINE T == Truthful(c)
               m == Head(reps[c][k])
    <3>1. reps[c][k] \in Seq(T)
      BY <1>0 DEF ReplyInv
    <3>2. m \in T
      <4> HIDE DEF T
      <4> QED
        BY <2>4, <3>1
    <3>3. m.ret \in Rets /\ (m.ret > 0 => exec[m.ret][c][m.xid] > 0)
      BY <3>2, ZenonT(40) DEF Truthful, Replies
    <3> HIDE DEF m
    <3>4. exec[m.ret][c][x] > 0 /\ m.ret \in Nonces
      BY <1>1, <1>4, <2>4, <3>3, Zenon DEF m
    <3> QED
      BY <2>4, <3>4, Growing, Zenon DEF m
  <2> QED
    BY <1>0, <2>1, <2>2, <2>3, <2>4, CallEffect, ZenonT(40)
<1> QED
  BY <1>3, <1>4

--------------------------------------------------------------------------------
(* Acknowledgements.                                                            *)

\* As long as no freed buffer has been sent: what the client has in or below its
\* window, what a header acknowledges, what the server has taken as acknowledged
\* and what it has freed are all xids of settled calls.
SettleInv ==
    ~freedSent => \A c \in Clients :
        /\ \A y \in Xids : y <= Front(xid_rep_window_[c]) \/ y \in xid_rep_window_[c]
                              => Settled(c, y)
        /\ \A x, y \in Xids : y <= hdr[c][x].rep => Settled(c, y)
        /\ \A y \in Xids : y <= acked[c] => Settled(c, y)
        /\ \A k \in Conns, x \in Xids : buf[c][k][x] = "freed" => Settled(c, x)

LEMMA SettleInit == Init => SettleInv
<1> SUFFICES ASSUME Init, NEW c \in Clients
             PROVE  /\ \A y \in Xids : ~ (y <= Front(xid_rep_window_[c]))
                                       /\ y \notin xid_rep_window_[c]
                    /\ \A x, y \in Xids : ~ (y <= hdr[c][x].rep)
                    /\ \A y \in Xids : ~ (y <= acked[c])
                    /\ \A k \in Conns, x \in Xids : buf[c][k][x] # "freed"
  BY DEF SettleInv
<1>1. xid_rep_window_[c] = {0} /\ acked[c] = 0
  BY DEF Init
<1>2. Front({0}) = 0
  <2>1. {0} # {} /\ {0} \in SUBSET Nat
    OBVIOUS
  <2> QED
    BY <2>1, FrontIsMin
<1>3. \A x \in Xids : hdr[c][x].rep = 0
  BY DEF Init
<1>4. \A k \in Conns, x \in Xids : buf[c][k][x] = "own"
  BY DEF Init
<1>5. \A y \in Xids : y \in Nat /\ y # 0
  BY RpcAssumption DEF Xids
<1> QED
  BY <1>1, <1>2, <1>3, <1>4, <1>5

\* The client's window takes in the xid of a call that ends or of a reply.
LEMMA RepWindowEffect ==
    ASSUME TypeOK, [Next]_vars, NEW c \in Clients
    PROVE  \/ xid_rep_window_'[c] = xid_rep_window_[c]
           \/ \E x \in Xids : /\ Finish(c, x)
                              /\ xid_rep_window_'[c] = update_xid_rep(xid_rep_window_[c], x)
           \/ \E k \in Conns : /\ GotReply(c, k)
                               /\ xid_rep_window_'[c] = update_xid_rep(xid_rep_window_[c],
                                                                       Head(reps[c][k]).xid)
<1> DEFINE Effect == \/ xid_rep_window_'[c] = xid_rep_window_[c]
                     \/ \E x \in Xids :
                           /\ Finish(c, x)
                           /\ xid_rep_window_'[c] = update_xid_rep(xid_rep_window_[c], x)
                     \/ \E k \in Conns :
                           /\ GotReply(c, k)
                           /\ xid_rep_window_'[c] = update_xid_rep(xid_rep_window_[c],
                                                                   Head(reps[c][k]).xid)
<1> SUFFICES Effect
  OBVIOUS
<1>0. xid_rep_window_ \in [Clients -> (SUBSET (0..MaxXid)) \ {{}}]
  BY DEF TypeOK, CltTypeOK
<1>1. \A d \in Clients, p \in {"bind", "app"} : Call(d, p) => UNCHANGED xid_rep_window_
  BY DEF Call
<1>2. \A d \in Clients, y \in Xids :
         Transmit(d, y) \/ Wake(d, y) \/ Timeout(d, y) => UNCHANGED xid_rep_window_
  BY ZenonT(40) DEF Transmit, Wake, Timeout
<1>3. ASSUME NEW d \in Clients, NEW y \in Xids, Finish(d, y)
      PROVE  Effect
  <2>1. xid_rep_window_' = [xid_rep_window_ EXCEPT ![d] = update_xid_rep(@, y)]
    BY <1>3 DEF Finish
  <2> QED
    BY <1>0, <1>3, <2>1
<1>4. ASSUME NEW d \in Clients, NEW k \in Conns, GotReply(d, k)
      PROVE  Effect
  <2>1. xid_rep_window_' = [xid_rep_window_ EXCEPT
                              ![d] = update_xid_rep(@, Head(reps[d][k]).xid)]
    BY <1>4, Zenon DEF GotReply
  <2> QED
    BY <1>0, <1>4, <2>1
<1>5. \A d \in Clients, k \in Conns :
         GotRequest(d, k) \/ ClientDead(d, k) \/ ServerDead(d, k) => UNCHANGED xid_rep_window_
  BY DEF GotRequest, ClientDead, ServerDead, cltVars
<1>6. ASSUME NEW d \in Clients, NEW k \in Conns, NEW y \in Xids,
             \/ Dispatch(d, k, y) \/ CheckDuplicate(d, k, y)
             \/ AddReply(d, k, y) \/ SendReply(d, k, y)
      PROVE  UNCHANGED xid_rep_window_
  BY <1>6, Zenon DEF Dispatch, CheckDuplicate, AddReply, SendReply, cltVars
<1>7. Restart => UNCHANGED xid_rep_window_
  BY DEF Restart, cltVars
<1>8. UNCHANGED vars => UNCHANGED xid_rep_window_
  BY DEF vars, cltVars
<1>9. xid_rep_window_' = xid_rep_window_ => Effect
  OBVIOUS
<1> HIDE DEF Effect
<1> QED
  BY <1>1, <1>2, <1>3, <1>4, <1>5, <1>6, <1>7, <1>8, <1>9, Zenon DEF Next, CallStep

\* The server takes acknowledgements from headers, and frees what they cover.
LEMMA AckEffect ==
    ASSUME TypeOK, [Next]_vars, NEW c \in Clients
    PROVE  /\ \/ acked'[c] <= acked[c]
              \/ \E x \in Xids : acked'[c] = hdr[c][x].rep
           /\ \A k \in Conns, x \in Xids : buf'[c][k][x] = "freed" =>
                 buf[c][k][x] = "freed" \/ \E y \in Xids : x <= hdr[c][y].rep
<1> DEFINE Acks == acked'[c] <= acked[c] \/ \E x \in Xids : acked'[c] = hdr[c][x].rep
           Frees == \A k \in Conns, x \in Xids : buf'[c][k][x] = "freed" =>
                       buf[c][k][x] = "freed" \/ \E y \in Xids : x <= hdr[c][y].rep
<1> SUFFICES Acks /\ Frees
  OBVIOUS
<1> USE RpcAssumption
<1>0. /\ acked \in [Clients -> 0..MaxXid] /\ acked[c] \in Nat
      /\ buf \in [Clients -> [Conns -> [Xids -> {"own", "window", "freed"}]]]
      /\ \A x \in Xids : hdr[c][x].rep \in Nat /\ x \in Nat
  <2>1. /\ acked \in [Clients -> 0..MaxXid]
        /\ buf \in [Clients -> [Conns -> [Xids -> {"own", "window", "freed"}]]]
        /\ hdr \in [Clients -> [Xids -> Headers]]
    BY Zenon DEF TypeOK, HistTypeOK, SrvTypeOK, CltTypeOK
  <2>2. \A x \in Xids : hdr[c][x] \in Headers
    BY <2>1
  <2>3. \A x \in Xids : hdr[c][x].rep \in Nat /\ x \in Nat
    BY <2>2 DEF Headers, Xids
  <2> QED
    BY <2>1, <2>3
<1>1. \A d \in Clients, p \in {"bind", "app"} : Call(d, p) => UNCHANGED <<acked, buf>>
  BY DEF Call, srvVars, histVars
<1>2. ASSUME NEW d \in Clients, NEW y \in Xids, CallStep(d, y)
      PROVE  UNCHANGED <<acked, buf>>
  BY <1>2, ZenonT(40) DEF CallStep, Transmit, Wake, Timeout, Finish, srvVars, histVars
<1>3. ASSUME NEW d \in Clients, NEW k \in Conns,
             GotReply(d, k) \/ GotRequest(d, k) \/ ClientDead(d, k) \/ ServerDead(d, k)
      PROVE  UNCHANGED <<acked, buf>>
  BY <1>3, Zenon DEF GotReply, GotRequest, ClientDead, ServerDead, srvVars, histVars
<1>4. \A d \in Clients, k \in Conns, y \in Xids : Dispatch(d, k, y) => UNCHANGED <<acked, buf>>
  BY DEF Dispatch, histVars
<1>5. ASSUME NEW d \in Clients, NEW k \in Conns, NEW y \in Xids, CheckDuplicate(d, k, y)
      PROVE  Acks /\ Frees
  <2>1. Acks
    <3>1. acked' = [acked EXCEPT ![d] = IF ~Empty(d) /\ hdr[d][y].rep > @
                                        THEN hdr[d][y].rep ELSE @]
      BY <1>5 DEF CheckDuplicate
    <3>2. acked'[c] = acked[c] \/ (d = c /\ acked'[c] = hdr[c][y].rep)
      BY <1>0, <3>1
    <3> QED
      BY <1>0, <3>2
  <2>2. ASSUME NEW l \in Conns, NEW x \in Xids, buf'[c][l][x] = "freed", buf[c][l][x] # "freed"
        PROVE  x <= hdr[c][y].rep
    <3>1. d = c
      BY <1>0, <1>5, <2>2 DEF CheckDuplicate
    <3>2. x \in Erased(c, y)
      BY <1>0, <1>5, <2>2, <3>1 DEF CheckDuplicate
    <3> QED
      BY <1>0, <3>2 DEF Erased
  <2> QED
    BY <2>1, <2>2
<1>6. ASSUME NEW d \in Clients, NEW k \in Conns, NEW y \in Xids, AddReply(d, k, y)
      PROVE  Acks /\ Frees
  <2>1. acked' = acked
    BY <1>6 DEF AddReply, histVars
  <2>2. \A l \in Conns, x \in Xids : buf'[c][l][x] = "freed" => buf[c][l][x] = "freed"
    BY <1>0, <1>6 DEF AddReply
  <2> QED
    BY <1>0, <2>1, <2>2
<1>7. ASSUME NEW d \in Clients, NEW k \in Conns, NEW y \in Xids, SendReply(d, k, y)
      PROVE  Acks /\ Frees
  <2>1. acked' = acked /\ buf' = [buf EXCEPT ![d][k][y] = "own"]
    BY <1>7 DEF SendReply
  <2>2. \A l \in Conns, x \in Xids : buf'[c][l][x] = "freed" => buf[c][l][x] = "freed"
    BY <1>0, <2>1
  <2> QED
    BY <1>0, <2>1, <2>2
<1>8. CASE Restart
  <2>1. acked'[c] = 0 /\ \A l \in Conns, x \in Xids : buf'[c][l][x] = "own"
    BY <1>8 DEF Restart
  <2> QED
    BY <1>0, <2>1
<1>9. UNCHANGED vars => UNCHANGED <<acked, buf>>
  BY DEF vars, srvVars, histVars
<1>10. UNCHANGED <<acked, buf>> => Acks /\ Frees
  BY <1>0
<1> HIDE DEF Acks, Frees
<1> QED
  BY <1>1, <1>2, <1>3, <1>4, <1>5, <1>6, <1>7, <1>8, <1>9, <1>10, Zenon DEF Next

LEMMA SettleNext ==
    PackedInv /\ ReplyInv /\ SettleInv /\ [Next]_vars => SettleInv'
<1> SUFFICES ASSUME PackedInv, ReplyInv, SettleInv, [Next]_vars, ~freedSent', NEW c \in Clients
             PROVE  /\ \A y \in Xids : \/ y <= Front(xid_rep_window_'[c])
                                       \/ y \in xid_rep_window_'[c]
                                       => Settled(c, y)'
                    /\ \A x, y \in Xids : y <= hdr'[c][x].rep => Settled(c, y)'
                    /\ \A y \in Xids : y <= acked'[c] => Settled(c, y)'
                    /\ \A k \in Conns, x \in Xids : buf'[c][k][x] = "freed" => Settled(c, x)'
  BY DEF SettleInv
<1> USE RpcAssumption
<1> DEFINE W == xid_rep_window_[c]
<1>0. /\ TypeOK /\ IdleInv /\ ~freedSent
      /\ W \in (SUBSET (0..MaxXid)) \ {{}}
      /\ acked[c] \in Nat /\ acked'[c] \in Nat
      /\ \A x \in Xids : x \in 0..MaxXid /\ x \in Nat /\ x > 0
  <2>1. TypeOK /\ TypeOK' /\ IdleInv
    BY TypeNext DEF PackedInv
  <2>2. W \in (SUBSET (0..MaxXid)) \ {{}}
    BY <2>1 DEF TypeOK, CltTypeOK
  <2>3. acked[c] \in Nat /\ acked'[c] \in Nat
    BY <2>1 DEF TypeOK, HistTypeOK
  <2>4. ~freedSent
    BY FreedEffect
  <2> QED
    BY <2>1, <2>2, <2>3, <2>4 DEF Xids
<1>1. /\ \A y \in Xids : y <= Front(W) \/ y \in W => Settled(c, y)'
      /\ \A x, y \in Xids : y <= hdr[c][x].rep => Settled(c, y)'
      /\ \A y \in Xids : y <= acked[c] => Settled(c, y)'
      /\ \A k \in Conns, x \in Xids : buf[c][k][x] = "freed" => Settled(c, x)'
  <2>1. \A y \in Xids : Settled(c, y) => Settled(c, y)'
    BY Growing
  <2>2. /\ \A y \in Xids : y <= Front(W) \/ y \in W => Settled(c, y)
        /\ \A x, y \in Xids : y <= hdr[c][x].rep => Settled(c, y)
        /\ \A y \in Xids : y <= acked[c] => Settled(c, y)
        /\ \A k \in Conns, x \in Xids : buf[c][k][x] = "freed" => Settled(c, x)
    BY <1>0 DEF SettleInv
  <2> QED
    BY <2>1, <2>2
<1>2. ASSUME NEW x \in 0..MaxXid, xid_rep_window_'[c] = update_xid_rep(W, x),
             x \in Xids => Settled(c, x)', NEW y \in Xids,
             y <= Front(xid_rep_window_'[c]) \/ y \in xid_rep_window_'[c]
      PROVE  Settled(c, y)'
  <2> DEFINE U == update_xid_rep(W, x)
  <2>1. /\ U \subseteq W \cup {x}
        /\ \A z \in 1..Front(U) : z <= Front(W) \/ z \in W \cup {x}
        /\ Front(U) \in 0..MaxXid
    <3> HIDE DEF W
    <3>1. /\ U \in SUBSET (W \cup {x}) /\ U # {}
          /\ \A z \in 1..Front(U) : z <= Front(W) \/ z \in W \cup {x}
      BY <1>0, UpdateXidRep
    <3> HIDE DEF U
    <3>2. U \in SUBSET (0..MaxXid) /\ U \in SUBSET Nat
      BY <1>0, <3>1
    <3>3. Front(U) \in U
      BY <3>1, <3>2, FrontIsMin
    <3> QED
      BY <3>1, <3>2, <3>3, Zenon
  <2>2. y \in 1..Front(U) \/ y \in U
    <3> HIDE DEF U
    <3> QED
      BY <1>0, <1>2, <2>1 DEF U
  <2>3. y <= Front(W) \/ y \in W \/ y = x
    BY <2>1, <2>2
  <2> QED
    BY <1>1, <1>2, <2>3
<1>3. ASSUME NEW y \in Xids, y <= Front(xid_rep_window_'[c]) \/ y \in xid_rep_window_'[c]
      PROVE  Settled(c, y)'
  <2>1. ASSUME NEW x \in Xids, Finish(c, x) PROVE Settled(c, x)'
    <3>1. call'[c][x].pc = "returned"
      BY <1>0, <2>1, ZenonT(40) DEF Finish, TypeOK, CltTypeOK
    <3> QED
      BY <3>1 DEF Settled
  <2>2. ASSUME NEW k \in Conns, GotReply(c, k)
        PROVE  \E z \in Xids : z = Head(reps[c][k]).xid /\ Settled(c, z)'
    <3> DEFINE T == Truthful(c)
               m == Head(reps[c][k])
    <3>1. reps[c][k] \in Seq(T) /\ reps[c][k] # <<>>
      BY <1>0, <2>2, Zenon DEF ReplyInv, GotReply
    <3>2. m \in T
      <4> HIDE DEF T
      <4> QED
        BY <3>1
    <3>3. m.xid \in 1..(xid_[c] - 1) /\ m.ret # 0
      BY <3>2, Zenon DEF Truthful, Replies
    <3>4. PICK z \in Xids : z = m.xid /\ ~ (z >= xid_[c])
      <4>1. xid_[c] \in 1..(MaxXid + 1)
        BY <1>0 DEF TypeOK, CltTypeOK
      <4> HIDE DEF m
      <4>2. m.xid \in 1..MaxXid /\ ~ (m.xid >= xid_[c])
        BY <3>3, <4>1
      <4> QED
        BY <4>2 DEF Xids
    <3>5. call[c][z].pc # "idle" /\ call \in [Clients -> [Xids -> Frames]]
      BY <1>0, <3>4, Zenon DEF IdleInv, TypeOK, CltTypeOK
    <3>6. CASE Settled(c, z)
      BY <3>4, <3>6, Growing, Zenon
    <3>7. CASE ~Settled(c, z)
      <4>1. Outstanding(c, z) /\ call[c][z].ret = 0
        BY <3>5, <3>7 DEF Settled, Outstanding, Frames, CallPc
      <4>2. call' = [call EXCEPT ![c][z] = [@ EXCEPT !.ret = m.ret]]
        BY <2>2, <3>4, <4>1, Zenon DEF GotReply
      <4>3. call'[c][z] = [call[c][z] EXCEPT !.ret = m.ret] /\ call[c][z] \in Frames
        BY <3>5, <4>2
      <4>4. call'[c][z].ret = m.ret
        BY <4>3 DEF Frames
      <4>5. Settled(c, z)'
        BY <3>3, <4>4 DEF Settled
      <4> QED
        BY <3>4, <4>5
    <3> QED
      BY <3>6, <3>7
  <2>3. CASE xid_rep_window_'[c] = W
    BY <1>1, <1>3, <2>3
  <2>4. ASSUME NEW x \in Xids, Finish(c, x), xid_rep_window_'[c] = update_xid_rep(W, x)
        PROVE  Settled(c, y)'
    BY <1>0, <1>2, <1>3, <2>1, <2>4, ZenonT(40)
  <2>5. ASSUME NEW k \in Conns, GotReply(c, k),
               xid_rep_window_'[c] = update_xid_rep(W, Head(reps[c][k]).xid)
        PROVE  Settled(c, y)'
    BY <1>0, <1>2, <1>3, <2>2, <2>5, Zenon
  <2> QED
    BY <1>0, <2>3, <2>4, <2>5, RepWindowEffect
<1>4. ASSUME NEW x \in Xids, NEW y \in Xids, y <= hdr'[c][x].rep
      PROVE  Settled(c, y)'
  <2>1. CASE hdr'[c] = hdr[c]
    BY <1>1, <1>4, <2>1
  <2>2. ASSUME NEW p \in {"bind", "app"}, Call(c, p) PROVE Settled(c, y)'
    <3>1. hdr \in [Clients -> [Xids -> Headers]]
      BY <1>0 DEF TypeOK, CltTypeOK
    <3>2. hdr'[c][x].rep = hdr[c][x].rep \/ hdr'[c][x].rep = Front(W)
      BY <2>2, <3>1 DEF Call
    <3> QED
      BY <1>1, <1>4, <3>2
  <2> QED
    BY <1>0, <2>1, <2>2, XidEffect
<1>5. ASSUME NEW y \in Xids, y <= acked'[c] PROVE Settled(c, y)'
  <2>1. CASE acked'[c] <= acked[c]
    BY <1>0, <1>1, <1>5, <2>1
  <2>2. CASE \E x \in Xids : acked'[c] = hdr[c][x].rep
    BY <1>1, <1>5, <2>2, ZenonT(40)
  <2> QED
    BY <1>0, <2>1, <2>2, AckEffect
<1>6. ASSUME NEW k \in Conns, NEW x \in Xids, buf'[c][k][x] = "freed" PROVE Settled(c, x)'
  BY <1>0, <1>1, <1>6, AckEffect
<1> QED
  BY <1>3, <1>4, <1>5, <1>6

--------------------------------------------------------------------------------
(* The invariant of Rpc from which all theorems of this module follow.          *)
RpcInv == PackedInv /\ BoundInv /\ RunInv /\ ReplyInv /\ SettleInv

(* No step of a client, a server instance or the network breaks it.             *)
LEMMA RpcInvHolds == Spec => []RpcInv
<1>1. Init => RpcInv
  BY PackedInit, BoundInit, RunInit, ReplyInit, SettleInit DEF RpcInv
<1>2. RpcInv /\ [Next]_vars => RpcInv'
  BY PackedNext, BoundNext, RunNext, ReplyNext, SettleNext DEF RpcInv
<1> QED
  BY <1>1, <1>2, PTL DEF Spec

(* A request bound to one server instance is never run by another, however many *)
(* times the server restarts and however long requests stay on the way (the     *)
(* nonce check of rpcs::dispatch).                                              *)
THEOREM OnlyBoundInstanceRunsHolds == Spec => []OnlyBoundInstanceRuns
<1>1. RpcInv => OnlyBoundInstanceRuns
  BY DEF RpcInv, BoundInv
<1> QED
  BY <1>1, RpcInvHolds, PTL

(* A result that call1 holds or has returned is the result of a handler that    *)
(* was run for that xid by the instance the client is bound to.                 *)
THEOREM ResultFromBoundInstanceHolds == Spec => []ResultFromBoundInstance
<1>1. RpcInv => ResultFromBoundInstance
  <2> SUFFICES ASSUME RpcInv, ~freedSent, NEW c \in Clients, NEW x \in Xids, call[c][x].ret > 0
               PROVE  /\ exec[call[c][x].ret][c][x] > 0
                      /\ hdr[c][x].proc = "app" => call[c][x].ret = hdr[c][x].srv
    BY DEF ResultFromBoundInstance
  <2>1. exec[call[c][x].ret][c][x] > 0
    BY DEF RpcInv, ReplyInv
  <2>2. call[c][x] \in Frames
    BY DEF RpcInv, PackedInv, TypeOK, CltTypeOK
  <2>3. call[c][x].ret \in Nonces
    BY <2>2 DEF Frames, Rets, Nonces, timeout_failure, atmostonce_failure, oldsrv_failure
  <2> QED
    BY <2>1, <2>3, ZenonT(40) DEF RpcInv, BoundInv, OnlyBoundInstanceRuns
<1> QED
  BY <1>1, RpcInvHolds, PTL

(* A header never acknowledges a call that its client still waits for           *)
(* (rpcc::update_xid_rep).                                                      *)
THEOREM AcksOnlySettledHolds == Spec => []AcksOnlySettled
<1>1. RpcInv => AcksOnlySettled
  <2> SUFFICES ASSUME RpcInv, ~freedSent, NEW c \in Clients, NEW x \in 1..(xid_[c] - 1),
                      NEW y \in 1..hdr[c][x].rep
               PROVE  call[c][y].pc = "returned" \/ call[c][y].ret # 0
    BY DEF AcksOnlySettled
  <2>1. x \in Xids
    BY RpcAssumption DEF RpcInv, PackedInv, TypeOK, CltTypeOK, Xids
  <2>2. hdr[c][x].rep \in 0..MaxXid
    BY <2>1 DEF RpcInv, PackedInv, TypeOK, CltTypeOK, Headers
  <2>3. y \in Xids /\ y <= hdr[c][x].rep
    BY <2>2, RpcAssumption DEF Xids
  <2>4. Settled(c, y)
    BY <2>1, <2>3 DEF RpcInv, SettleInv
  <2> QED
    BY <2>4 DEF Settled
<1> QED
  BY <1>1, RpcInvHolds, PTL

(* While call1 waits for its answer, retransmissions included, the server has   *)
(* run the handler at most once and remembers that it has: the two halves,      *)
(* the client's acknowledgements and the server's window, fit together.         *)
THEOREM OutstandingRunsOnceHolds == Spec => []OutstandingRunsOnce
<1>1. RpcInv /\ AtMostOnceUntilAcked => OutstandingRunsOnce
  <2> SUFFICES ASSUME RpcInv, AtMostOnceUntilAcked, ~freedSent, NEW c \in Clients, NEW x \in Xids,
                      Outstanding(c, x), call[c][x].ret = 0
               PROVE  /\ exec[nonce_][c][x] <= 1
                      /\ exec[nonce_][c][x] = 1 => reply_window_[c][x] # "absent"
    BY DEF OutstandingRunsOnce
  <2>1. ~Settled(c, x)
    BY DEF Settled, Outstanding
  <2>2. x \in Nat /\ acked[c] \in Nat
    BY RpcAssumption DEF Xids, RpcInv, PackedInv, TypeOK, HistTypeOK
  <2>3. x > acked[c]
    BY <2>1, <2>2 DEF RpcInv, SettleInv
  <2> QED
    BY <2>3 DEF AtMostOnceUntilAcked
<1> QED
  BY <1>1, RpcInvHolds, AtMostOnceUntilAckedHolds, PTL

(* When dispatch is about to send a reply buffer that another dispatch has      *)
(* freed, and none has been sent before, nobody waits for that reply any more.  *)
THEOREM FreedReplyUnwantedHolds == Spec => []FreedReplyUnwanted
<1>1. RpcInv => FreedReplyUnwanted
  BY DEF RpcInv, SettleInv, FreedReplyUnwanted, Settled
<1> QED
  BY <1>1, RpcInvHolds, PTL

================================================================================
