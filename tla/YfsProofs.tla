------------------------------- MODULE YfsProofs -------------------------------
(* Proofs about Yfs, for any mounts, names and inums, and about FileData.        *)
EXTENDS MCYfs, FileData, TLAPS

(* Every file listed in s has its extent. *)
Safe(s, E) == \A i \in 1..Len(s) : isfile(s[i].inum) => s[i].inum \in E

(* The inductive invariant: besides the directory itself, every copy of it that *)
(* some put may still write, and every file about to be entered.                *)
DirInv ==
    /\ Safe(root, exists)
    /\ \A m \in Mounts : Safe(snap[m], exists)
    /\ \A m \in Mounts : pc[m] = "putdir" /\ isfile(req[m].inum) => req[m].inum \in exists
    /\ \A p \in late : p.id = Root => Safe(p.content, exists)

(* create and mkdir work on a new inum, and only they put. *)
ReqInv ==
    \A m \in Mounts :
        /\ req[m].op \in {"create", "mkdir"} => req[m].inum \in Files \cup Dirs
        /\ pc[m] \in {"putfile", "putdir"} => req[m].op \in {"create", "mkdir"}
        /\ pc[m] = "putfile" => req[m].inum \in Files

YfsInv == TypeOK /\ ReqInv /\ DirInv

--------------------------------------------------------------------------------
LEMMA SafeGrows ==
    ASSUME NEW s, NEW E, NEW F, E \subseteq F, Safe(s, E)
    PROVE  Safe(s, F)
  BY DEF Safe

LEMMA SafeAppend ==
    ASSUME NEW s \in Seq(Entry), NEW e \in Entry, NEW E, Safe(s, E),
           isfile(e.inum) => e.inum \in E
    PROVE  Safe(Append(s, e), E) /\ Append(s, e) \in Seq(Entry)
<1>1. /\ Append(s, e) \in Seq(Entry)
      /\ Len(Append(s, e)) = Len(s) + 1
      /\ \A i \in 1..Len(s) : Append(s, e)[i] = s[i]
      /\ Append(s, e)[Len(s) + 1] = e
  OBVIOUS
<1>2. \A i \in 1..(Len(s) + 1) : i \in 1..Len(s) \/ i = Len(s) + 1
  OBVIOUS
<1> QED BY <1>1, <1>2 DEF Safe

LEMMA YfsInit == Init => YfsInv
<1> SUFFICES ASSUME Init PROVE YfsInv
  OBVIOUS
<1>1. /\ exists \in SUBSET Inums /\ root \in Seq(Entry) /\ late \in SUBSET Puts
      /\ live \in SUBSET Entry /\ snap \in [Mounts -> Seq(Entry)]
      /\ replies \in [Mounts -> 0..2]
  BY DEF Init, Inums
<1>2. pc \in [Mounts -> CallPc \cup {"idle", "absent", "done"}]
  BY DEF Init
<1>3. failed \in [Mounts -> BOOLEAN]
  <2>1. failed = [m \in Mounts |-> FALSE]
    BY DEF Init
  <2>2. FALSE \in BOOLEAN
    BY Zenon
  <2> QED BY <2>1, <2>2, Zenon
<1>4. req \in [Mounts -> Requests] /\ \A m \in Mounts : req[m].op = "getattr"
  BY DEF Init
<1>5. TypeOK
  BY <1>1, <1>2, <1>3, <1>4 DEF TypeOK
<1>6. ReqInv
  BY <1>4 DEF ReqInv, Init
<1>7. DirInv
  BY DEF DirInv, Safe, Init
<1> QED BY <1>5, <1>6, <1>7 DEF YfsInv

(* A new request. *)
LEMMA StartStep ==
    ASSUME YfsInv, NEW m \in Mounts, NEW r \in Requests, NEW first \in {"get", "getattr"},
           r.op \in {"create", "mkdir"} => r.inum \in Files \cup Dirs,
           Start(m, r, first)
    PROVE  YfsInv'
<1> USE DEF YfsInv, TypeOK, Start
<1>1. failed' \in [Mounts -> BOOLEAN]
  <2>1. FALSE \in BOOLEAN
    BY Zenon
  <2> QED BY <2>1, Zenon
<1>2. /\ req' \in [Mounts -> Requests] /\ replies' \in [Mounts -> 0..2]
      /\ snap' \in [Mounts -> Seq(Entry)]
  OBVIOUS
<1>3. pc' \in [Mounts -> CallPc \cup {"idle", "absent", "done"}]
  BY DEF CallPc
<1>4. ReqInv'
  BY DEF ReqInv
<1>5. DirInv'
  <2>1. \A x \in Mounts : Safe(snap'[x], exists')
    BY DEF DirInv, Safe
  <2>2. \A x \in Mounts : pc'[x] = "putdir" => pc[x] = "putdir" /\ req'[x] = req[x]
    OBVIOUS
  <2> QED BY <2>1, <2>2 DEF DirInv
<1> QED BY <1>1, <1>2, <1>3, <1>4, <1>5

LEMMA RequestStep ==
    ASSUME YfsInv, NEW m \in Mounts, Request(m) \/ RequestNew(m)
    PROVE  YfsInv'
<1> USE DEF YfsInv, TypeOK, Requests, Inums
<1>1. ASSUME NEW n \in Names, Start(m, [op |-> "lookup", name |-> n, inum |-> Root], "get")
      PROVE  YfsInv'
  BY <1>1, StartStep, Zenon
<1>2. ASSUME NEW op \in {"readdir", "getattr", "create", "mkdir"}, NEW i \in Inums,
             NEW first \in {"get", "getattr"},
             op \in {"create", "mkdir"} => i \in Files \cup Dirs,
             Start(m, [req[m] EXCEPT !.op = op, !.inum = i], first)
      PROVE  YfsInv'
  <2>1. PICK r \in Requests : r = [req[m] EXCEPT !.op = op, !.inum = i]
    BY ZenonT(40)
  <2>2. r.op = op /\ r.inum = i
    BY <2>1
  <2>3. Start(m, r, first)
    BY <1>2, <2>1
  <2> HIDE DEF YfsInv, TypeOK, Requests
  <2> QED BY <1>2, <2>2, <2>3, StartStep
<1> HIDE DEF YfsInv, TypeOK, Requests
<1>3. CASE Request(m)
  BY <1>1, <1>2, <1>3, ZenonT(40) DEF Request
<1>4. CASE RequestNew(m)
  BY <1>2, <1>4, Zenon DEF RequestNew
<1> QED BY <1>3, <1>4

LEMMA GetStep ==
    ASSUME YfsInv, NEW m \in Mounts, Get(m)
    PROVE  YfsInv'
<1> USE DEF YfsInv, TypeOK
<1>1. failed' \in [Mounts -> BOOLEAN]
  <2>1. TRUE \in BOOLEAN
    BY Zenon
  <2> QED BY <2>1, Zenon DEF Get
<1>2. /\ exists' = exists /\ root' = root /\ late' = late /\ live' = live
      /\ pc[m] = "get"
  BY DEF Get
<1>3. /\ pc' \in [Mounts -> CallPc \cup {"idle", "absent", "done"}]
      /\ replies' \in [Mounts -> 0..2]
  <2>1. \E w \in CallPc \cup {"idle", "absent", "done"} : pc' = [pc EXCEPT ![m] = w]
    BY DEF Get, Reply, CallPc
  <2>2. replies' = replies \/ \E n \in 0..2 : replies' = [replies EXCEPT ![m] = n]
    BY DEF Get, Reply
  <2> QED BY <2>1, <2>2, Zenon
<1>4. /\ snap' \in [Mounts -> Seq(Entry)]
      /\ \A x \in Mounts : snap'[x] = snap[x] \/ snap'[x] = root
  BY ZenonT(40) DEF Get
<1>5. \A x \in Mounts \ {m} : req'[x] = req[x] /\ pc'[x] = pc[x]
  BY DEF Get, Reply
<1>6. CASE req' = req
  <2>1. ReqInv'
    <3>1. pc'[m] \in {"putfile", "putdir"} => req[m].op \in {"create", "mkdir"}
      BY DEF Get, Reply
    <3>2. pc'[m] = "putfile" => isfile(req[m].inum)
      BY DEF Get, Reply
    <3> QED BY <1>5, <1>6, <3>1, <3>2 DEF ReqInv, isfile
  <2>2. pc'[m] = "putdir" => ~isfile(req[m].inum)
    BY DEF Get, Reply
  <2>3. DirInv'
    BY <1>2, <1>4, <1>5, <1>6, <2>2, Zenon DEF DirInv
  <2> QED BY <1>1, <1>2, <1>3, <1>4, <1>6, <2>1, <2>3
<1>7. CASE req' # req
  <2>1. PICK i \in Matches(m) : req' = [req EXCEPT ![m] = [req[m] EXCEPT !.inum = root[i].inum]]
    BY <1>7, Zenon DEF Get
  <2>2. req[m].op = "lookup" /\ pc' = [pc EXCEPT ![m] = "getattr"]
    BY <1>7 DEF Get
  <2>3. root[i].inum \in Inums
    <3>1. root[i] \in Entry
      BY DEF Matches
    <3> QED BY <3>1 DEF Entry, Inums
  <2>4. PICK r \in Requests : r = [req[m] EXCEPT !.inum = root[i].inum]
    BY <2>3, Zenon DEF Requests
  <2>5. req' = [req EXCEPT ![m] = r] /\ r.op = "lookup"
    BY <2>1, <2>2, <2>4 DEF Requests
  <2>6. req' \in [Mounts -> Requests] /\ ReqInv'
    BY <1>5, <2>2, <2>5 DEF ReqInv
  <2>7. DirInv'
    BY <1>2, <1>4, <1>5, <2>2, Zenon DEF DirInv
  <2> QED BY <1>1, <1>2, <1>3, <1>4, <2>6, <2>7
<1> QED BY <1>6, <1>7

(* A put that is carried out, at once or late. *)
LEMMA putKeeps ==
    ASSUME NEW i \in Files \cup {Root}, NEW t \in Seq(Entry), TypeOK, DirInv, put(i, t),
           i = Root => Safe(t, exists)
    PROVE  /\ exists \subseteq exists' /\ i \in exists'
           /\ exists' \in SUBSET Inums /\ root' \in Seq(Entry)
           /\ Safe(root', exists')
           /\ \A m \in Mounts : Safe(snap[m], exists')
           /\ \A p \in late : p.id = Root => Safe(p.content, exists')
<1>1. exists' = exists \cup {i}
  BY DEF put
<1>2. Safe(root', exists)
  BY DEF put, DirInv
<1>3. /\ Safe(root', exists') /\ \A m \in Mounts : Safe(snap[m], exists')
      /\ \A p \in late : p.id = Root => Safe(p.content, exists')
  BY <1>1, <1>2, SafeGrows DEF DirInv
<1> QED BY <1>1, <1>3, Zenon DEF put, TypeOK, Inums

(* A put that times out. *)
LEMMA putTimesOut ==
    ASSUME NEW i \in Files \cup {Root}, NEW t \in Seq(Entry), TypeOK, DirInv,
           i = Root => Safe(t, exists),
           late' = late \/ late' = late \cup {[id |-> i, content |-> t]}
    PROVE  late' \in SUBSET Puts /\ \A p \in late' : p.id = Root => Safe(p.content, exists)
<1>1. PICK q \in Puts : q = [id |-> i, content |-> t]
  BY Zenon DEF Puts
<1>2. q.id = i /\ q.content = t
  BY <1>1
<1>3. late' \subseteq late \cup {q}
  BY <1>1
<1> QED BY <1>2, <1>3 DEF TypeOK, DirInv

LEMMA PutStep ==
    ASSUME YfsInv, NEW m \in Mounts, NEW i \in Files \cup {Root}, NEW t \in Seq(Entry),
           NEW next \in {"putdir", "getattr"}, Put(m, i, t, next),
           i = Root => Safe(t, exists),
           next = "putdir" => i = req[m].inum /\ req[m].op \in {"create", "mkdir"},
           UNCHANGED <<req, live>>,
           snap' = snap \/ snap' = [snap EXCEPT ![m] = <<>>]
    PROVE  YfsInv'
<1> DEFINE Done == put(i, t) /\ pc' = [pc EXCEPT ![m] = next] /\ UNCHANGED <<replies, failed, late>>
<1>1. /\ snap' \in [Mounts -> Seq(Entry)]
      /\ \A E : (\A x \in Mounts : Safe(snap[x], E)) => \A x \in Mounts : Safe(snap'[x], E)
  <2>1. \A x \in Mounts : snap'[x] = snap[x] \/ snap'[x] = <<>>
    BY DEF YfsInv, TypeOK
  <2>2. \A E : Safe(<<>>, E)
    BY DEF Safe
  <2>3. snap' \in [Mounts -> Seq(Entry)]
    <3>0. <<>> \in Seq(Entry)
      OBVIOUS
    <3>1. PICK e \in Seq(Entry) : e = <<>>
      BY <3>0, Zenon
    <3>2. snap' = snap \/ snap' = [snap EXCEPT ![m] = e]
      BY <3>1
    <3> QED BY <3>2 DEF YfsInv, TypeOK
  <2> QED BY <2>1, <2>2, <2>3
<1>2. CASE Done
  <2>1. /\ exists \subseteq exists' /\ i \in exists'
        /\ exists' \in SUBSET Inums /\ root' \in Seq(Entry)
        /\ Safe(root', exists')
        /\ \A x \in Mounts : Safe(snap[x], exists')
        /\ \A p \in late : p.id = Root => Safe(p.content, exists')
    BY <1>2, putKeeps, Zenon DEF YfsInv
  <2>2. pc' = [pc EXCEPT ![m] = next] /\ UNCHANGED <<replies, failed, late>>
    BY <1>2
  <2>3. TypeOK'
    BY <1>1, <2>1, <2>2 DEF YfsInv, TypeOK, CallPc
  <2>4. ReqInv'
    BY <2>2 DEF YfsInv, TypeOK, ReqInv
  <2>5. DirInv'
    BY <1>1, <2>1, <2>2 DEF YfsInv, TypeOK, DirInv
  <2> QED BY <2>3, <2>4, <2>5 DEF YfsInv
<1>3. CASE ~Done
  <2>1. /\ failed' = [failed EXCEPT ![m] = TRUE] /\ Reply(m, 1, "done")
        /\ late' = late \/ late' = late \cup {[id |-> i, content |-> t]}
        /\ UNCHANGED <<exists, root>>
    BY <1>3 DEF Put
  <2>2. late' \in SUBSET Puts /\ \A p \in late' : p.id = Root => Safe(p.content, exists)
    BY <2>1, putTimesOut DEF YfsInv
  <2>3. failed' \in [Mounts -> BOOLEAN]
    <3>1. TRUE \in BOOLEAN
      BY Zenon
    <3> QED BY <2>1, <3>1, Zenon DEF YfsInv, TypeOK
  <2>4. pc' = [pc EXCEPT ![m] = "done"] /\ replies' = [replies EXCEPT ![m] = 1]
    BY <2>1 DEF Reply
  <2>5. TypeOK'
    BY <1>1, <2>1, <2>2, <2>3, <2>4 DEF YfsInv, TypeOK, CallPc
  <2>6. ReqInv'
    BY <2>4 DEF YfsInv, TypeOK, ReqInv
  <2>7. DirInv'
    BY <1>1, <2>1, <2>2, <2>4 DEF YfsInv, TypeOK, DirInv
  <2> QED BY <2>5, <2>6, <2>7 DEF YfsInv
<1> QED BY <1>2, <1>3

LEMMA PutFileStep ==
    ASSUME YfsInv, NEW m \in Mounts, PutFile(m)
    PROVE  YfsInv'
<1>1. /\ req[m].inum \in Files /\ req[m].op \in {"create", "mkdir"}
      /\ <<>> \in Seq(Entry) /\ Root \notin Files
  BY YfsAssumption DEF PutFile, YfsInv, ReqInv
<1>2. Put(m, req[m].inum, <<>>, "putdir") /\ UNCHANGED <<req, live>> /\ snap' = snap
  BY DEF PutFile
<1>3. PICK i \in Files : i = req[m].inum
  BY <1>1
<1>4. Put(m, i, <<>>, "putdir")
  BY <1>2, <1>3
<1> QED BY <1>1, <1>2, <1>3, <1>4, PutStep, Zenon

LEMMA PutDirStep ==
    ASSUME YfsInv, NEW m \in Mounts, PutDir(m)
    PROVE  YfsInv'
<1>1. /\ snap[m] \in Seq(Entry) /\ Safe(snap[m], exists)
      /\ isfile(req[m].inum) => req[m].inum \in exists
  BY DEF PutDir, YfsInv, TypeOK, DirInv
<1>2. NewEntry(m) \in Entry /\ NewEntry(m).inum = req[m].inum
  BY DEF PutDir, YfsInv, TypeOK, ReqInv, NewEntry, Entry, Requests
<1>3. Appended(m) \in Seq(Entry) /\ Safe(Appended(m), exists)
  BY <1>1, <1>2, SafeAppend DEF Appended
<1>4. PICK t \in Seq(Entry) : t = Appended(m)
  BY <1>3
<1>5. Put(m, Root, t, "getattr") /\ UNCHANGED <<req, live>> /\ snap' = [snap EXCEPT ![m] = <<>>]
  BY <1>4 DEF PutDir
<1> QED BY <1>3, <1>4, <1>5, PutStep, Zenon

LEMMA GetattrStep ==
    ASSUME YfsInv, NEW m \in Mounts, Getattr(m)
    PROVE  YfsInv'
<1>1. UNCHANGED <<exists, root, req, snap, late>>
  BY DEF Getattr
<1>2. pc' = [pc EXCEPT ![m] = "done"] /\ \E n \in 0..2 : replies' = [replies EXCEPT ![m] = n]
  BY DEF Getattr, Reply
<1>3. failed' \in [Mounts -> BOOLEAN]
  <2>1. PICK b \in BOOLEAN : b <=> req[m].inum \in exists
    BY Zenon
  <2>2. failed' = failed \/ failed' = [failed EXCEPT ![m] = b]
    BY <2>1, Zenon DEF Getattr
  <2> QED BY <2>2, Zenon DEF YfsInv, TypeOK
<1>4. live' \in SUBSET Entry
  <2>1. req[m].op = "create" => NewEntry(m) \in Entry
    BY DEF YfsInv, TypeOK, ReqInv, NewEntry, Entry, Requests
  <2> QED BY <2>1 DEF Getattr, YfsInv, TypeOK
<1>5. TypeOK'
  BY <1>1, <1>2, <1>3, <1>4, Zenon DEF YfsInv, TypeOK, CallPc
<1>6. ReqInv' /\ DirInv'
  BY <1>1, <1>2 DEF YfsInv, TypeOK, ReqInv, DirInv
<1> QED BY <1>5, <1>6 DEF YfsInv

LEMMA LatePutStep ==
    ASSUME YfsInv, LatePut
    PROVE  YfsInv'
<1>1. PICK p \in late : put(p.id, p.content) /\ late' = late \ {p}
  BY DEF LatePut
<1>2. p \in Puts /\ (p.id = Root => Safe(p.content, exists))
  BY DEF YfsInv, TypeOK, DirInv
<1>3. PICK i \in Files \cup {Root}, t \in Seq(Entry) : i = p.id /\ t = p.content
  BY <1>2 DEF Puts
<1>4. put(i, t)
  BY <1>1, <1>3
<1>5. /\ exists \subseteq exists' /\ i \in exists'
      /\ exists' \in SUBSET Inums /\ root' \in Seq(Entry)
      /\ Safe(root', exists')
      /\ \A m \in Mounts : Safe(snap[m], exists')
      /\ \A q \in late : q.id = Root => Safe(q.content, exists')
  BY <1>2, <1>3, <1>4, putKeeps, Zenon DEF YfsInv
<1>6. UNCHANGED <<pc, req, snap, replies, failed, live>>
  BY DEF LatePut
<1>7. TypeOK'
  BY <1>1, <1>5, <1>6 DEF YfsInv, TypeOK
<1>8. ReqInv' /\ DirInv'
  BY <1>1, <1>5, <1>6 DEF YfsInv, ReqInv, DirInv
<1> QED BY <1>7, <1>8 DEF YfsInv

LEMMA CrashStep ==
    ASSUME YfsInv, NEW m \in Mounts, Crash(m)
    PROVE  YfsInv'
<1>1. /\ UNCHANGED <<exists, root, req, replies, failed, late, live>>
      /\ pc' = [pc EXCEPT ![m] = "idle"] /\ snap' = [snap EXCEPT ![m] = <<>>]
  BY DEF Crash
<1>2. TypeOK'
  BY <1>1 DEF YfsInv, TypeOK, CallPc
<1>3. ReqInv'
  BY <1>1 DEF YfsInv, TypeOK, ReqInv
<1>4. DirInv'
  <2>1. Safe(<<>>, exists)
    BY DEF Safe
  <2>2. \A x \in Mounts : Safe(snap'[x], exists)
    BY <1>1, <2>1 DEF YfsInv, TypeOK, DirInv
  <2> QED BY <1>1, <2>2 DEF YfsInv, TypeOK, DirInv
<1> QED BY <1>2, <1>3, <1>4 DEF YfsInv

LEMMA YfsNext == YfsInv /\ [Next]_vars => YfsInv'
<1> SUFFICES ASSUME YfsInv, [Next]_vars PROVE YfsInv'
  OBVIOUS
<1>1. CASE UNCHANGED vars
  BY <1>1 DEF vars, YfsInv, TypeOK, ReqInv, DirInv
<1>2. CASE Next
  BY <1>2, RequestStep, GetStep, PutFileStep, PutDirStep, GetattrStep, LatePutStep, CrashStep
     DEF Next
<1> QED BY <1>1, <1>2

--------------------------------------------------------------------------------
(* The variables of the name space keep their types; in particular what create  *)
(* writes back is a directory.                                                  *)
THEOREM YfsTypeCorrect == Spec => []TypeOK
<1>1. YfsInv => TypeOK
  BY DEF YfsInv
<1> QED BY <1>1, YfsInit, YfsNext, PTL DEF Spec

(* For any number of mounts that interleave, time out and crash, the directory  *)
(* never lists a file that has no extent (order of the puts in                  *)
(* yfs_client::create).                                                         *)
THEOREM NoDanglingFileHolds == Spec => []NoDanglingFile
<1>1. YfsInv => NoDanglingFile
  BY DEF YfsInv, DirInv, Safe, NoDanglingFile, Entries
<1> QED BY <1>1, YfsInit, YfsNext, PTL DEF Spec

--------------------------------------------------------------------------------
(* Answers.                                                                     *)

(* RepliedOnce, and what lookup needs for it: the file it is about to ask       *)
(* getattr for was listed, so that its extent exists.                           *)
AnswerInv ==
    /\ RepliedOnce
    /\ \A m \in Mounts :
          pc[m] = "getattr" /\ req[m].op = "lookup" => req[m].inum \in exists \cup Dirs

(* The step of one mount leaves the requests of the others alone. *)
LEMMA MountStep ==
    ASSUME TypeOK, NEW m \in Mounts, NEW x \in Mounts, x # m,
           \/ Request(m) \/ RequestNew(m) \/ Get(m) \/ PutFile(m)
           \/ PutDir(m) \/ Getattr(m) \/ Crash(m)
    PROVE  /\ pc'[x] = pc[x] /\ req'[x] = req[x] /\ snap'[x] = snap[x]
           /\ replies'[x] = replies[x] /\ failed'[x] = failed[x]
<1> USE DEF TypeOK
<1>1. ASSUME NEW r, NEW first, Start(m, r, first)
      PROVE  /\ pc'[x] = pc[x] /\ req'[x] = req[x] /\ snap'[x] = snap[x]
             /\ replies'[x] = replies[x] /\ failed'[x] = failed[x]
  BY <1>1 DEF Start
<1>2. CASE Request(m)
  BY <1>1, <1>2, ZenonT(40) DEF Request
<1>3. CASE RequestNew(m)
  BY <1>1, <1>3, Zenon DEF RequestNew
<1>4. CASE Get(m)
  BY <1>4 DEF Get, Reply
<1>5. CASE PutFile(m)
  BY <1>5 DEF PutFile, Put, Reply
<1>6. CASE PutDir(m)
  BY <1>6 DEF PutDir, Put, Reply
<1>7. CASE Getattr(m)
  BY <1>7 DEF Getattr, Reply
<1>8. CASE Crash(m)
  BY <1>8 DEF Crash
<1> QED BY <1>2, <1>3, <1>4, <1>5, <1>6, <1>7, <1>8, Zenon

(* No step takes an extent away. *)
LEMMA ExistsGrows == [Next]_vars => exists \subseteq exists'
<1> SUFFICES ASSUME [Next]_vars PROVE exists \subseteq exists'
  OBVIOUS
<1>1. ASSUME NEW m \in Mounts, Request(m) \/ RequestNew(m) PROVE exists' = exists
  BY <1>1, Zenon DEF Request, RequestNew, Start
<1>2. ASSUME NEW m \in Mounts, PutFile(m) \/ PutDir(m) PROVE exists \subseteq exists'
  BY <1>2 DEF PutFile, PutDir, Put, put
<1>3. ASSUME NEW m \in Mounts, Get(m) \/ Getattr(m) \/ Crash(m) PROVE exists' = exists
  BY <1>3 DEF Get, Getattr, Crash
<1>4. LatePut => exists \subseteq exists'
  BY DEF LatePut, put
<1> QED BY <1>1, <1>2, <1>3, <1>4 DEF Next, vars

(* What a step of mount m does to its own answer. *)
Answered(m) ==
    /\ pc[m] = "done" /\ ~failed[m] =>
          replies[m] = 1 \/ (req[m].op = "lookup" /\ req[m].inum \in Dirs)
    /\ pc[m] = "getattr" /\ req[m].op = "lookup" => req[m].inum \in exists \cup Dirs

LEMMA AnswerStep ==
    ASSUME YfsInv, NEW m \in Mounts, Answered(m),
           \/ Request(m) \/ RequestNew(m) \/ Get(m) \/ PutFile(m)
           \/ PutDir(m) \/ Getattr(m) \/ Crash(m)
    PROVE  Answered(m)'
<1>0. /\ pc \in [Mounts -> CallPc \cup {"idle", "absent", "done"}] /\ req \in [Mounts -> Requests]
      /\ replies \in [Mounts -> 0..2] /\ failed \in [Mounts -> BOOLEAN]
      /\ root \in Seq(Entry)
  BY DEF YfsInv, TypeOK
<1>1. ASSUME NEW r, NEW first \in {"get", "getattr"}, Start(m, r, first),
             r.op = "lookup" => first = "get"
      PROVE  Answered(m)'
  BY <1>0, <1>1 DEF Start, Answered
<1>2. CASE Request(m)
  <2>1. ASSUME NEW op \in {"readdir", "getattr", "create", "mkdir"}, NEW i
        PROVE  [req[m] EXCEPT !.op = op, !.inum = i].op # "lookup"
    BY <1>0 DEF Requests
  <2> QED BY <1>1, <1>2, <2>1, Zenon DEF Request
<1>3. CASE RequestNew(m)
  BY <1>1, <1>3, Zenon DEF RequestNew
<1>4. CASE Get(m)
  <2>1. CASE pc' # [pc EXCEPT ![m] = "getattr"]
    <3>1. \/ pc'[m] = "done" /\ (replies'[m] = 1 \/ failed'[m] = TRUE)
          \/ pc'[m] \in {"absent", "putfile", "putdir"}
      BY <1>0, <1>4, <2>1 DEF Get, Reply
    <3> QED BY <3>1 DEF Answered
  <2>2. CASE pc' = [pc EXCEPT ![m] = "getattr"]
    <3>1. PICK i \in Matches(m) :
             req' = [req EXCEPT ![m] = [req[m] EXCEPT !.inum = root[i].inum]]
      <4>1. pc'[m] = "getattr"
        BY <1>0, <2>2
      <4> QED BY <1>0, <1>4, <4>1 DEF Get, Reply
    <3>2. exists' = exists
      BY <1>4 DEF Get
    <3>3. i \in 1..Len(root) /\ root[i] \in Entry
      BY <1>0 DEF Matches
    <3>4. root[i].inum \in exists \cup Dirs
      BY <3>3, Zenon DEF YfsInv, DirInv, Safe, isfile, Entry
    <3>5. req'[m].inum = root[i].inum /\ pc'[m] = "getattr"
      BY <1>0, <2>2, <3>1 DEF Requests
    <3> QED BY <3>2, <3>4, <3>5 DEF Answered
  <2> QED BY <2>1, <2>2
<1>5. CASE PutFile(m) \/ PutDir(m)
  <2>1. pc[m] \in {"putfile", "putdir"} /\ req' = req
    BY <1>5 DEF PutFile, PutDir
  <2>2. req'[m].op # "lookup"
    BY <2>1 DEF YfsInv, ReqInv
  <2>3. \/ pc'[m] \in {"putdir", "getattr"}
        \/ pc'[m] = "done" /\ replies'[m] = 1
    BY <1>0, <1>5 DEF PutFile, PutDir, Put, Reply
  <2> QED BY <2>2, <2>3, Zenon DEF Answered
<1>6. CASE Getattr(m)
  <2>1. /\ pc[m] = "getattr" /\ pc' = [pc EXCEPT ![m] = "done"]
        /\ UNCHANGED <<exists, req>>
    BY <1>6, Zenon DEF Getattr, Reply
  <2>2. pc'[m] = "done"
    BY <1>0, <2>1
  <2>3. \/ replies'[m] = 1
        \/ req[m].op = "lookup" /\ (req[m].inum \in exists => failed'[m])
    BY <1>0, <1>6, Zenon DEF Getattr, Reply
  <2> QED BY <2>1, <2>2, <2>3, Zenon DEF Answered
<1>7. CASE Crash(m)
  BY <1>0, <1>7 DEF Crash, Answered
<1> QED BY <1>2, <1>3, <1>4, <1>5, <1>6, <1>7

LEMMA AnswerNext == YfsInv /\ AnswerInv /\ [Next]_vars => AnswerInv'
<1> SUFFICES ASSUME YfsInv, AnswerInv, [Next]_vars, NEW x \in Mounts PROVE Answered(x)'
  BY DEF AnswerInv, RepliedOnce, Answered
<1>0. TypeOK /\ Answered(x)
  BY DEF YfsInv, AnswerInv, RepliedOnce, Answered
<1>1. ASSUME pc'[x] = pc[x], req'[x] = req[x], replies'[x] = replies[x], failed'[x] = failed[x]
      PROVE  Answered(x)'
  BY <1>0, <1>1, ExistsGrows DEF Answered
<1>2. ASSUME NEW m \in Mounts,
             \/ Request(m) \/ RequestNew(m) \/ Get(m) \/ PutFile(m)
             \/ PutDir(m) \/ Getattr(m) \/ Crash(m)
      PROVE  Answered(x)'
  <2>1. CASE x = m
    BY <1>0, <1>2, <2>1, AnswerStep
  <2>2. CASE x # m
    BY <1>0, <1>1, <1>2, <2>2, MountStep
  <2> QED BY <2>1, <2>2
<1>3. CASE LatePut
  BY <1>1, <1>3 DEF LatePut
<1>4. CASE UNCHANGED vars
  BY <1>1, <1>4 DEF vars
<1> QED BY <1>2, <1>3, <1>4 DEF Next

(* A request that no call failed for is answered exactly once, except a lookup  *)
(* of a name that mkdir entered, which fuseserver_lookup answers twice; for any *)
(* number of mounts, names and inums.                                           *)
THEOREM RepliedOnceHolds == Spec => []RepliedOnce
<1>1. Init => AnswerInv
  BY DEF Init, AnswerInv, RepliedOnce
<1>2. AnswerInv => RepliedOnce
  BY DEF AnswerInv
<1> QED BY <1>1, <1>2, YfsInit, YfsNext, AnswerNext, PTL DEF Spec

--------------------------------------------------------------------------------
(* The listing, as long as the caller of create is alone.                       *)

(* Nobody else writes the directory between create's get and its put, so what   *)
(* create read is the directory; the name that its lookup did not find is still *)
(* missing; and what it wrote is there when it answers.                         *)
ListInv ==
    /\ late = {}
    /\ \A m, n \in Mounts : InCreate(m) /\ InCreate(n) => m = n
    /\ LiveFilesListed /\ NamesOnce
    /\ \A m \in Mounts : InCreate(m) => \A i \in 1..Len(root) : root[i].name # req[m].name
    /\ \A m \in Mounts : pc[m] \in {"putfile", "putdir"} => snap[m] = root
    /\ \A m \in Mounts : pc[m] = "getattr" /\ req[m].op = "create" => NewEntry(m) \in Entries(root)

LEMMA AppendEntries ==
    ASSUME NEW s \in Seq(Entry), NEW e \in Entry
    PROVE  Entries(s) \subseteq Entries(Append(s, e)) /\ e \in Entries(Append(s, e))
<1> DEFINE t == Append(s, e)
<1>1. /\ Len(s) \in Nat /\ Len(t) = Len(s) + 1 /\ t[Len(s) + 1] = e
      /\ \A i \in 1..Len(s) : t[i] = s[i]
  OBVIOUS
<1>2. \A i \in 1..Len(s) : i \in 1..Len(t)
  BY <1>1
<1>3. Len(s) + 1 \in 1..Len(t)
  BY <1>1
<1> HIDE DEF t
<1>4. Entries(s) \subseteq Entries(t) /\ e \in Entries(t)
  BY <1>1, <1>2, <1>3 DEF Entries
<1> QED BY <1>4 DEF t

\* Nor does a new name make a directory list one twice.
LEMMA AppendNamesOnce ==
    ASSUME NEW s \in Seq(Entry), NEW e \in Entry,
           \A i, j \in 1..Len(s) : s[i].name = s[j].name => i = j,
           \A i \in 1..Len(s) : s[i].name # e.name
    PROVE  LET t == Append(s, e)
           IN  \A i, j \in 1..Len(t) : t[i].name = t[j].name => i = j
<1> DEFINE t == Append(s, e)
<1>1. Len(s) \in Nat /\ Len(t) = Len(s) + 1 /\ t[Len(s) + 1] = e /\ \A i \in 1..Len(s) : t[i] = s[i]
  OBVIOUS
<1> HIDE DEF t
<1>2. ASSUME NEW i \in 1..Len(t), NEW j \in 1..Len(t), t[i].name = t[j].name PROVE i = j
  <2>1. CASE i \in 1..Len(s) /\ j \in 1..Len(s)
    BY <1>1, <1>2, <2>1
  <2>2. CASE i = Len(s) + 1 /\ j \in 1..Len(s)
    BY <1>1, <1>2, <2>2
  <2>3. CASE i \in 1..Len(s) /\ j = Len(s) + 1
    BY <1>1, <1>2, <2>3
  <2> QED
    BY <1>1, <2>1, <2>2, <2>3
<1> QED
  BY <1>2 DEF t

(* What an undisturbed step leaves in place. *)
LEMMA AloneNext ==
    ASSUME MCNext, ~disturbed'
    PROVE  /\ ~disturbed /\ Next /\ late' = {}
           /\ \A m, n \in Mounts : InCreate(m)' /\ InCreate(n)' => m = n
           /\ \A m \in Mounts : pc'[m] = "absent" => ~failed'[m]
  BY DEF MCNext

(* A step of mount m that leaves the directory alone. *)
LEMMA ListKept ==
    ASSUME TypeOK, ListInv, root' = root, late' = {}, NEW m \in Mounts,
           \A x \in Mounts : x # m => pc'[x] = pc[x] /\ req'[x] = req[x] /\ snap'[x] = snap[x],
           \A x, n \in Mounts : InCreate(x)' /\ InCreate(n)' => x = n,
           live' \subseteq Entries(root),
           InCreate(m)' => \A i \in 1..Len(root) : root[i].name # req'[m].name,
           pc'[m] \in {"putfile", "putdir"} => snap'[m] = root,
           pc'[m] = "getattr" /\ req'[m].op = "create" => NewEntry(m)' \in Entries(root)
    PROVE  ListInv'
<1>1. LiveFilesListed' /\ NamesOnce'
  BY Zenon DEF ListInv, LiveFilesListed, NamesOnce
<1>2. ASSUME NEW x \in Mounts, InCreate(x)' PROVE \A i \in 1..Len(root') : root'[i].name # req'[x].name
  <2>1. CASE x = m
    BY <1>2, <2>1, Zenon
  <2>2. CASE x # m
    <3>1. InCreate(x) /\ req'[x] = req[x]
      BY <1>2, <2>2 DEF InCreate
    <3> QED BY <3>1 DEF ListInv
  <2> QED BY <2>1, <2>2, Zenon
<1>3. \A x \in Mounts : pc'[x] \in {"putfile", "putdir"} => snap'[x] = root'
  BY DEF ListInv
<1>4. ASSUME NEW x \in Mounts, pc'[x] = "getattr", req'[x].op = "create"
      PROVE  NewEntry(x)' \in Entries(root')
  <2>1. CASE x = m
    BY <1>4, <2>1
  <2>2. CASE x # m
    <3>1. pc[x] = "getattr" /\ req[x].op = "create" /\ NewEntry(x)' = NewEntry(x)
      BY <1>4, <2>2 DEF NewEntry
    <3> QED BY <3>1 DEF ListInv
  <2> QED BY <2>1, <2>2
<1> QED BY <1>1, <1>2, <1>3, <1>4, Zenon DEF ListInv

LEMMA ListNext == YfsInv /\ ListInv /\ MCNext /\ ~disturbed' => ListInv'
<1> SUFFICES ASSUME YfsInv, ListInv, MCNext, ~disturbed' PROVE ListInv'
  OBVIOUS
<1>0. /\ TypeOK /\ Next /\ late' = {} /\ late = {} /\ root \in Seq(Entry)
      /\ pc \in [Mounts -> CallPc \cup {"idle", "absent", "done"}] /\ req \in [Mounts -> Requests]
      /\ snap \in [Mounts -> Seq(Entry)] /\ failed \in [Mounts -> BOOLEAN]
      /\ \A m, n \in Mounts : InCreate(m)' /\ InCreate(n)' => m = n
      /\ \A m \in Mounts : pc'[m] = "absent" => ~failed'[m]
  BY AloneNext, Zenon DEF YfsInv, TypeOK, ListInv
<1>1. ASSUME NEW m \in Mounts, NEW x \in Mounts, x # m,
             \/ Request(m) \/ RequestNew(m) \/ Get(m) \/ PutFile(m)
             \/ PutDir(m) \/ Getattr(m) \/ Crash(m)
      PROVE  pc'[x] = pc[x] /\ req'[x] = req[x] /\ snap'[x] = snap[x]
  BY <1>0, <1>1, MountStep, Zenon
<1>2. ASSUME NEW m \in Mounts, root' = root, live' \subseteq Entries(root),
             \/ Request(m) \/ RequestNew(m) \/ Get(m) \/ PutFile(m)
             \/ PutDir(m) \/ Getattr(m) \/ Crash(m),
             InCreate(m)' => \A i \in 1..Len(root) : root[i].name # req'[m].name,
             pc'[m] \in {"putfile", "putdir"} => snap'[m] = root,
             pc'[m] = "getattr" /\ req'[m].op = "create" => NewEntry(m)' \in Entries(root)
      PROVE  ListInv'
  BY <1>0, <1>1, <1>2, ListKept, Zenon
<1>3. live \subseteq Entries(root)
  BY DEF ListInv, LiveFilesListed
<1>4. ASSUME NEW m \in Mounts, Request(m) PROVE ListInv'
  <2>1. root' = root /\ live' = live
    BY <1>4, ZenonT(40) DEF Request, Start
  <2>2. /\ pc'[m] \in {"get", "getattr"} /\ req'[m].op \in {"lookup", "readdir", "getattr"}
    <3>1. ASSUME NEW n \in Names, Start(m, [op |-> "lookup", name |-> n, inum |-> Root], "get")
          PROVE  pc'[m] = "get" /\ req'[m].op = "lookup"
      BY <1>0, <3>1 DEF Start
    <3>2. ASSUME NEW op, NEW i, NEW first, Start(m, [req[m] EXCEPT !.op = op, !.inum = i], first)
          PROVE  pc'[m] = first /\ req'[m].op = op
      BY <1>0, <3>2 DEF Start, Requests
    <3> QED BY <1>4, <3>1, <3>2, Zenon DEF Request
  <2>3. ~InCreate(m)'
    BY <2>2 DEF InCreate
  <2> QED BY <1>2, <1>3, <1>4, <2>1, <2>2, <2>3
<1>5. ASSUME NEW m \in Mounts, RequestNew(m) PROVE ListInv'
  <2>1. root' = root /\ live' = live /\ pc[m] = "absent"
    BY <1>5, ZenonT(40) DEF RequestNew, Start
  <2>2. pc'[m] = "get" /\ req'[m].name = req[m].name
    <3>1. ASSUME NEW op, NEW i, Start(m, [req[m] EXCEPT !.op = op, !.inum = i], "get")
          PROVE  pc'[m] = "get" /\ req'[m].name = req[m].name
      BY <1>0, <3>1 DEF Start, Requests
    <3> QED BY <1>5, <3>1, Zenon DEF RequestNew
  <2>3. \A i \in 1..Len(root) : root[i].name # req'[m].name
    BY <2>1, <2>2 DEF ListInv, InCreate
  <2> QED BY <1>2, <1>3, <1>5, <2>1, <2>2, <2>3, Zenon
<1>6. ASSUME NEW m \in Mounts, Get(m) PROVE ListInv'
  <2>1. root' = root /\ live' = live /\ pc[m] = "get"
    BY <1>6 DEF Get
  <2>2. CASE pc'[m] = "absent"
    <3>1. ~failed'[m]
      BY <1>0, <2>2, Zenon
    <3>2. req' = req /\ Matches(m) = {}
      BY <1>0, <1>6, <2>2, <3>1 DEF Get, Reply
    <3>3. \A i \in 1..Len(root) : root[i].name # req'[m].name
      BY <3>2 DEF Matches
    <3> QED BY <1>2, <1>3, <1>6, <2>1, <2>2, <3>3, Zenon
  <2>3. CASE pc'[m] \in {"putfile", "putdir"}
    <3>1. /\ req[m].op \in {"create", "mkdir"} /\ req' = req /\ snap' = [snap EXCEPT ![m] = root]
      BY <1>0, <1>6, <2>3 DEF Get, Reply
    <3>2. InCreate(m) /\ snap'[m] = root
      BY <1>0, <2>1, <3>1 DEF InCreate
    <3>3. \A i \in 1..Len(root) : root[i].name # req'[m].name
      BY <3>1, <3>2 DEF ListInv
    <3> QED BY <1>2, <1>3, <1>6, <2>1, <2>3, <3>2, <3>3
  <2>4. CASE pc'[m] = "done"
    BY <1>2, <1>3, <1>6, <2>1, <2>4 DEF InCreate
  <2>5. CASE pc'[m] = "getattr"
    <3>1. req'[m].op = "lookup"
      BY <1>0, <1>6, <2>5 DEF Get, Reply, Requests
    <3> QED BY <1>2, <1>3, <1>6, <2>1, <2>5, <3>1 DEF InCreate
  <2>6. pc'[m] \in {"absent", "putfile", "putdir", "done", "getattr"}
    BY <1>0, <1>6 DEF Get, Reply
  <2> QED BY <2>2, <2>3, <2>4, <2>5, <2>6
<1>7. ASSUME NEW m \in Mounts, PutFile(m) PROVE ListInv'
  <2>1. /\ pc[m] = "putfile" /\ UNCHANGED <<req, snap, live>>
        /\ Put(m, req[m].inum, <<>>, "putdir")
    BY <1>7 DEF PutFile
  <2>2. req[m].inum # Root /\ InCreate(m)
    BY <2>1, YfsAssumption DEF YfsInv, ReqInv, InCreate
  <2>3. root' = root /\ pc'[m] \in {"putdir", "done"}
    BY <1>0, <2>1, <2>2 DEF Put, put, Reply
  <2>4. snap[m] = root /\ \A i \in 1..Len(root) : root[i].name # req[m].name
    BY <2>1, <2>2 DEF ListInv
  <2> QED BY <1>2, <1>3, <1>7, <2>1, <2>3, <2>4
<1>8. ASSUME NEW m \in Mounts, PutDir(m) PROVE ListInv'
  <2>1. /\ pc[m] = "putdir" /\ UNCHANGED <<req, live>>
        /\ Put(m, Root, Appended(m), "getattr")
    BY <1>8 DEF PutDir
  <2>2. InCreate(m)
    BY <2>1 DEF YfsInv, ReqInv, InCreate
  <2>3. CASE root' = root /\ pc'[m] = "done"
    BY <1>2, <1>3, <1>8, <2>1, <2>3 DEF InCreate
  <2>4. CASE root' = Appended(m) /\ pc'[m] = "getattr"
    <3>1. NewEntry(m) \in Entry
      BY <2>1 DEF YfsInv, TypeOK, ReqInv, NewEntry, Entry, Requests
    <3>2. NewEntry(m).name = req[m].name /\ NewEntry(m)' = NewEntry(m)
      BY <2>1, ZenonT(40) DEF NewEntry
    <3>3. snap[m] = root /\ \A i \in 1..Len(root) : root[i].name # NewEntry(m).name
      BY <2>1, <2>2, <3>2, Zenon DEF ListInv
    <3>4. root' = Append(root, NewEntry(m))
      BY <2>4, <3>3, Zenon DEF Appended
    <3>5. /\ Entries(root) \subseteq Entries(root') /\ NewEntry(m) \in Entries(root')
      BY <1>0, <3>1, <3>4, AppendEntries, Zenon
    <3>6. \A i, j \in 1..Len(root') : root'[i].name = root'[j].name => i = j
      <4>1. \A i, j \in 1..Len(root) : root[i].name = root[j].name => i = j
        BY DEF ListInv, NamesOnce
      <4> QED BY <1>0, <3>1, <3>3, <3>4, <4>1, AppendNamesOnce
    <3>7. ASSUME NEW x \in Mounts PROVE ~InCreate(x)'
      <4>1. CASE x = m
        BY <2>4, <4>1 DEF InCreate
      <4>2. CASE x # m
        <5>1. ~InCreate(x)
          BY <2>2, <4>2 DEF ListInv
        <5>2. pc'[x] = pc[x] /\ req'[x] = req[x]
          BY <1>1, <1>8, <4>2
        <5> QED BY <5>1, <5>2 DEF InCreate
      <4> QED BY <4>1, <4>2
    <3>8. ASSUME NEW x \in Mounts PROVE pc'[x] \notin {"putfile", "putdir"}
      <4>1. req'[x] = req[x] /\ (x # m => pc'[x] = pc[x])
        BY <1>1, <1>8, <2>1, Zenon
      <4>2. pc'[x] \in {"putfile", "putdir"} => pc'[x] = pc[x]
        BY <2>4, <4>1
      <4>3. pc'[x] \in {"putfile", "putdir"} => req'[x].op \in {"create", "mkdir"}
        BY <4>1, <4>2 DEF YfsInv, ReqInv
      <4> QED BY <3>7, <4>3 DEF InCreate
    <3>9. ASSUME NEW x \in Mounts, pc'[x] = "getattr", req'[x].op = "create"
          PROVE  NewEntry(x)' \in Entries(root')
      <4>1. CASE x = m
        BY <3>2, <3>5, <4>1
      <4>2. CASE x # m
        <5>1. pc[x] = "getattr" /\ req[x].op = "create" /\ NewEntry(x)' = NewEntry(x)
          BY <1>1, <1>8, <2>1, <3>9, <4>2, Zenon DEF NewEntry
        <5> QED BY <3>5, <5>1 DEF ListInv
      <4> QED BY <4>1, <4>2
    <3>10. LiveFilesListed' /\ NamesOnce'
      BY <1>3, <2>1, <3>5, <3>6 DEF LiveFilesListed, NamesOnce
    <3> QED BY <1>0, <3>7, <3>8, <3>9, <3>10, Zenon DEF ListInv
  <2>5. (root' = root /\ pc'[m] = "done") \/ (root' = Appended(m) /\ pc'[m] = "getattr")
    BY <1>0, <2>1 DEF Put, put, Reply
  <2> QED BY <2>3, <2>4, <2>5
<1>9. ASSUME NEW m \in Mounts, Getattr(m) PROVE ListInv'
  <2>1. pc[m] = "getattr" /\ pc'[m] = "done" /\ root' = root
    BY <1>0, <1>9 DEF Getattr, Reply
  <2>2. live' = live \/ (req[m].op = "create" /\ live' = live \cup {NewEntry(m)})
    BY <1>9, Zenon DEF Getattr
  <2>3. live' \subseteq Entries(root)
    BY <1>3, <2>1, <2>2, Zenon DEF ListInv
  <2> QED BY <1>2, <1>9, <2>1, <2>3, Zenon DEF InCreate
<1>10. ASSUME NEW m \in Mounts, Crash(m) PROVE ListInv'
  <2>1. root' = root /\ live' = live /\ pc'[m] = "idle"
    BY <1>0, <1>10 DEF Crash
  <2> QED BY <1>2, <1>3, <1>10, <2>1, Zenon DEF InCreate
<1>11. ~LatePut
  BY <1>0 DEF LatePut
<1> QED BY <1>0, <1>4, <1>5, <1>6, <1>7, <1>8, <1>9, <1>10, <1>11 DEF Next

(* As long as one mount at a time is between the lookup before a create and the *)
(* put of the directory, no lookup before a create timed out and no put is on   *)
(* its way: every file whose create was answered with success is listed, and no *)
(* name twice; for any number of mounts, names and inums, and whatever requests *)
(* crash or time out.                                                           *)
THEOREM UndisturbedListingHolds == MCSpec => []UndisturbedListing
<1> DEFINE Inv == YfsInv /\ (~disturbed => ListInv)
<1>1. MCInit => Inv
  <2> SUFFICES ASSUME MCInit PROVE ListInv
    BY YfsInit, Zenon DEF MCInit
  <2>1. \A m \in Mounts : pc[m] = "idle"
    BY DEF MCInit, Init
  <2>2. root = <<>> /\ late = {} /\ live = {} /\ Len(root) = 0
    BY DEF MCInit, Init
  <2> QED BY <2>1, <2>2 DEF ListInv, InCreate, LiveFilesListed, NamesOnce
<1>2. Inv /\ [MCNext]_mcVars => Inv'
  <2> SUFFICES ASSUME Inv, [MCNext]_mcVars PROVE Inv'
    OBVIOUS
  <2>1. CASE MCNext
    <3>1. YfsInv'
      BY <2>1, YfsNext DEF MCNext
    <3>2. ~disturbed' => ~disturbed
      BY <2>1 DEF MCNext
    <3> QED BY <2>1, <3>1, <3>2, ListNext
  <2>2. CASE UNCHANGED mcVars
    <3>1. UNCHANGED vars /\ disturbed' = disturbed
      BY <2>2 DEF mcVars
    <3>2. YfsInv'
      BY <3>1, YfsNext
    <3>3. ListInv => ListInv'
      BY <3>1, ZenonT(40) DEF vars, ListInv, InCreate, LiveFilesListed, NamesOnce, NewEntry
    <3> QED BY <3>1, <3>2, <3>3
  <2> QED BY <2>1, <2>2
<1>3. Inv => UndisturbedListing
  BY DEF ListInv, UndisturbedListing
<1> QED BY <1>1, <1>2, <1>3, PTL DEF MCSpec

--------------------------------------------------------------------------------
(* The content of a file                                                        *)

LEMMA WholeSeq == ASSUME NEW S, NEW s \in Seq(S) PROVE SubSeq(s, 1, Len(s)) = s
OBVIOUS

LEMMA SubSeqIsSeq ==
    ASSUME NEW S, NEW s \in Seq(S), NEW m \in Nat, NEW n \in Nat, m >= 1, n <= Len(s)
    PROVE  SubSeq(s, m, n) \in Seq(S)
OBVIOUS

LEMMA EmptySubSeq ==
    ASSUME NEW S, NEW s \in Seq(S), NEW m \in Nat, m > Len(s)
    PROVE  SubSeq(s, m, Len(s)) = <<>>
OBVIOUS

\* yfs_client::read gives what POSIX says.
LEMMA SubstrIsRead ==
    ASSUME NEW S, NEW s \in Seq(S), NEW off \in Nat, NEW n \in Nat
    PROVE  Substr(s, off, n) = PosixRead(s, off, n)
<1>1. CASE off >= Len(s)
  <2>1. SubSeq(s, off + 1, Len(s)) = <<>>
    BY <1>1, EmptySubSeq
  <2>2. ~ off + n < Len(s)
    BY <1>1
  <2> QED
    BY <1>1, <2>1, <2>2 DEF Substr, PosixRead
<1>2. CASE ~ off >= Len(s)
  BY <1>2 DEF Substr, PosixRead
<1> QED
  BY <1>1, <1>2

\* yfs_client::write, inside the file or at its end and without a NUL.
LEMMA WrittenIsWrite ==
    ASSUME NEW S, NEW s \in Seq(S), NEW off \in Nat, NEW d \in Seq(S), off <= Len(s), CString(d) = d
    PROVE  Written(s, off, d) = PosixWrite(s, off, d) /\ Written(s, off, d) \in Seq(S)
<1>1. PosixWrite(s, off, d) = SubSeq(s, 1, off) \o d \o SubSeq(s, off + Len(d) + 1, Len(s))
  <2>1. ~ off > Len(s)
    OBVIOUS
  <2> QED
    BY <2>1, Zenon DEF PosixWrite
<1>2. CASE off = Len(s)
  <2>1. SubSeq(s, 1, off) = s
    BY <1>2, WholeSeq
  <2>2. SubSeq(s, off + Len(d) + 1, Len(s)) = <<>>
    <3>1. off + Len(d) + 1 \in Nat /\ off + Len(d) + 1 > Len(s)
      BY <1>2
    <3> QED
      BY <3>1, EmptySubSeq
  <2>3. PosixWrite(s, off, d) = s \o d
    <3>1. s \o d \in Seq(S)
      OBVIOUS
    <3>2. s \o d \o <<>> = s \o d
      BY <3>1
    <3> QED
      BY <1>1, <2>1, <2>2, <3>2, Zenon
  <2> QED
    BY <1>2, <2>3 DEF Written
<1>3. CASE off < Len(s)
  <2>1. Written(s, off, d) = PosixWrite(s, off, d)
    <3>1. ~ off >= Len(s)
      BY <1>3
    <3> QED
      BY <1>1, <3>1, Zenon DEF Written
  <2>2. SubSeq(s, 1, off) \in Seq(S)
    BY <1>3, SubSeqIsSeq
  <2>3. SubSeq(s, off + Len(d) + 1, Len(s)) \in Seq(S)
    BY SubSeqIsSeq
  <2> QED
    BY <1>1, <2>1, <2>2, <2>3
<1> QED
  BY <1>2, <1>3

LEMMA ResizedIs ==
    ASSUME NEW S, 0 \in S, NEW s \in Seq(S), NEW n \in Nat
    PROVE  /\ Resized(s, n) \in Seq(S) /\ Len(Resized(s, n)) = n
           /\ n = Len(s) => Resized(s, n) = s
<1>1. CASE n <= Len(s)
  <2>1. Resized(s, n) = SubSeq(s, 1, n)
    BY <1>1 DEF Resized
  <2>2. SubSeq(s, 1, n) \in Seq(S) /\ Len(SubSeq(s, 1, n)) = n
    BY <1>1
  <2> QED
    BY <2>1, <2>2, WholeSeq
<1>2. CASE ~ n <= Len(s)
  <2>1. Zeros(n - Len(s)) \in Seq(S) /\ Len(Zeros(n - Len(s))) = n - Len(s)
    <3> DEFINE k == n - Len(s)
    <3>1. k \in Nat
      BY <1>2
    <3> HIDE DEF k
    <3>2. Zeros(k) \in Seq(S) /\ Len(Zeros(k)) = k
      BY <3>1 DEF Zeros
    <3> QED
      BY <3>2 DEF k
  <2>2. Resized(s, n) = s \o Zeros(n - Len(s))
    BY <1>2 DEF Resized
  <2> QED
    BY <1>2, <2>1, <2>2
<1> QED
  BY <1>1, <1>2

(* Besides FileIsPosix: eAttr.size is the length of the string, what            *)
(* yfs_client::write has read is still the content when it puts, and a request  *)
(* in progress has no answer yet.                                               *)
FileInv ==
    /\ asked.off \in Nat /\ asked.len \in Nat /\ asked.data \in Seq(Bytes \cup {0})
    /\ phase # "idle" => answer.status = "none"
    /\ ~deviated =>
          /\ content \in Seq(Bytes \cup {0}) /\ content = file /\ size = Len(content)
          /\ phase = "put" => got = content
          /\ answer.status = "buf" => answer.buf = PosixRead(file, asked.off, asked.len)
          /\ answer.status = "attr" => answer.size = Len(file)

(* No request breaks it, whether its calls succeed, fail or are executed without *)
(* an answer.                                                                    *)
LEMMA FileInvHolds == FileSpec => []FileInv
<1> DEFINE S == Bytes \cup {0}
<1>1. FileInit => FileInv
  BY DEF FileInit, FileInv
<1>2. FileInv /\ [FileNext]_fileVars => FileInv'
  <2> SUFFICES ASSUME FileInv, [FileNext]_fileVars PROVE FileInv'
    OBVIOUS
  <2>1. ASSUME NEW r, NEW first, StartFile(r, first),
               r.off \in Nat, r.len \in Nat, r.data \in Seq(S), first # "put"
        PROVE  FileInv'
    BY <2>1, Zenon DEF StartFile, FileInv
  <2>2. CASE StartRead
    <3>1. PICK o \in 0..MaxOff, n \in 0..MaxWrite :
             StartFile([off |-> o, len |-> n, data |-> <<>>], "read")
      BY <2>2 DEF StartRead
    <3>2. o \in Nat /\ n \in Nat /\ <<>> \in Seq(S)
      BY FileAssumption
    <3> QED
      BY <2>1, <3>1, <3>2, Zenon
  <2>3. CASE StartWrite
    <3>1. PICK o \in 0..MaxOff, d \in Data :
             StartFile([off |-> o, len |-> Len(d), data |-> d], "get")
      BY <2>3 DEF StartWrite
    <3>2. PICK n \in 1..MaxWrite : d \in [1..n -> S]
      BY DEF Data
    <3>3. o \in Nat /\ d \in Seq(S) /\ Len(d) \in Nat
      BY <3>2, FileAssumption
    <3> QED
      BY <2>1, <3>1, <3>3
  <2>4. CASE StartSetattr
    <3>1. PICK o \in 0..MaxOff : StartFile([off |-> o, len |-> 0, data |-> <<>>], "setattr")
      BY <2>4 DEF StartSetattr
    <3>2. o \in Nat /\ <<>> \in Seq(S)
      BY FileAssumption
    <3> QED
      BY <2>1, <3>1, <3>2, Zenon
  <2>5. CASE SetattrOther \/ CallFails
    <3>1. /\ UNCHANGED <<content, size, asked, file, deviated>>
          /\ phase' = "idle" /\ answer'.status = "err"
      BY <2>5 DEF SetattrOther, CallFails, Answer
    <3> QED
      BY <3>1 DEF FileInv
  <2>6. CASE Read
    <3>1. ~deviated => Substr(content, asked.off, asked.len) = PosixRead(file, asked.off, asked.len)
      BY SubstrIsRead DEF FileInv
    <3> QED
      BY <2>6, <3>1 DEF Read, Answer, FileInv
  <2>7. CASE WriteGet
    BY <2>7 DEF WriteGet, FileInv
  <2>8. CASE WritePut
    <3> DEFINE buf == Written(got, asked.off, asked.data)
    <3>1. CASE /\ Answer([status |-> "err"]) /\ UNCHANGED <<content, size, file, deviated, asked>>
      BY <3>1 DEF Answer, FileInv
    <3>2. CASE /\ content' = buf /\ size' = Len(buf)
               /\ \E a \in {"write", "err"} : Answer([status |-> a])
               /\ file' = PosixWrite(file, asked.off, asked.data)
               /\ deviated' = (deviated \/ asked.off > Len(got) \/ CString(asked.data) # asked.data)
               /\ UNCHANGED asked
      <4>1. phase' = "idle" /\ answer'.status \notin {"buf", "attr"}
        BY <3>2 DEF Answer
      <4>2. ASSUME ~deviated' PROVE buf = file' /\ buf \in Seq(S)
        <5>1. got = content /\ got = file /\ got \in Seq(S) /\ asked.off \in Nat /\ asked.data \in Seq(S)
          BY <2>8, <3>2, <4>2, ZenonT(40) DEF WritePut, FileInv
        <5>2. asked.off <= Len(got) /\ CString(asked.data) = asked.data
          <6>1. ~ asked.off > Len(got) /\ CString(asked.data) = asked.data
            BY <3>2, <4>2, Zenon
          <6> QED
            BY <5>1, <6>1
        <5> QED
          BY <3>2, <5>1, <5>2, WrittenIsWrite
      <4> HIDE DEF buf
      <4> QED
        BY <3>2, <4>1, <4>2 DEF FileInv
    <3> QED
      BY <2>8, <3>1, <3>2 DEF WritePut
  <2>9. CASE Setattr
    <3> DEFINE newSize == asked.off % 2^SizeBits
    <3>1. /\ \/ newSize = size /\ UNCHANGED <<content, size>>
             \/ newSize # size /\ content' = Resized(content, newSize) /\ size' = newSize
          /\ file' = Resized(file, asked.off) /\ deviated' = (deviated \/ newSize # asked.off)
          /\ UNCHANGED asked
      BY <2>9 DEF Setattr
    <3>2. phase' # "put" /\ answer'.status \notin {"buf", "attr"} /\ (phase' # "idle" => answer'.status = "none")
      BY <2>9 DEF Setattr, Answer, FileInv
    <3> HIDE DEF newSize
    <3>3. ASSUME ~deviated' PROVE content' \in Seq(S) /\ content' = file' /\ size' = Len(content')
      <4>1. newSize = asked.off /\ asked.off \in Nat /\ content \in Seq(S) /\ content = file /\ size = Len(content)
        BY <3>1, <3>3, Zenon DEF FileInv
      <4>2. /\ Resized(content, newSize) \in Seq(S) /\ Len(Resized(content, newSize)) = newSize
            /\ newSize = Len(content) => Resized(content, newSize) = content
        BY <4>1, ResizedIs, Zenon
      <4> QED
        BY <3>1, <4>1, <4>2
    <3> QED
      BY <3>1, <3>2, <3>3, Zenon DEF FileInv
  <2>10. CASE Getfile
    BY <2>10 DEF Getfile, Answer, FileInv
  <2>11. CASE UNCHANGED fileVars
    BY <2>11 DEF fileVars, FileInv
  <2> QED
    BY <2>2, <2>3, <2>4, <2>5, <2>6, <2>7, <2>8, <2>9, <2>10, <2>11 DEF FileNext
<1> QED
  BY <1>1, <1>2, PTL DEF FileSpec

(* After any sequence of reads, writes and truncations of any sizes, the extent *)
(* and the answers are those of POSIX, until a write starts beyond the end of   *)
(* the file or has a NUL, or a size does not fit: yfs_client::write and         *)
(* extent_server::setattr keep the string and eAttr.size together.              *)
THEOREM FileIsPosixHolds == FileSpec => []FileIsPosix
<1>1. FileInv => FileIsPosix
  BY DEF FileInv, FileIsPosix
<1> QED
  BY <1>1, FileInvHolds, PTL

================================================================================
