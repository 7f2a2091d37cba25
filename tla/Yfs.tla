---------------------------------- MODULE Yfs ----------------------------------
(* The file system's name space: the FUSE handlers of src/fuse.cc and the       *)
(* yfs_client operations they call (src/yfs_client.cc), run by several mounts   *)
(* over one extent server (src/extent_server.cc).                               *)
(*                                                                              *)
(* fuse_session_loop gives each mount one request at a time; a request is a     *)
(* sequence of extent_client calls, and other mounts run between them.  A call  *)
(* is an RPC: it may time out, and a put that timed out may still be carried    *)
(* out at any later time.  The root directory is the sequence of its entries;   *)
(* names stand for strings none of which occurs, as ilookup searches for it,    *)
(* inside another entry.  There is no other directory: mkdir enters a name but  *)
(* makes no extent, and getattr, lookup and readdir of it fail.                 *)
EXTENDS Naturals, Sequences, FiniteSets

CONSTANTS
    Mounts,         \* yfs_client processes
    Names,          \* file names
    Root,           \* extent 1
    Files, Dirs,    \* inums that random() may give a new file, a new directory
    Timeouts,       \* whether extent_client calls may time out
    MaxEntries,     \* bound: entries of the directory when a create starts
    MaxLate         \* bound: timed out puts on their way at the same time

ASSUME YfsAssumption ==
    /\ Root \notin Files \cup Dirs /\ Files \cap Dirs = {}
    /\ Timeouts \in BOOLEAN /\ MaxEntries \in Nat /\ MaxLate \in Nat

VARIABLES
    exists,     \* ids in extents
    root,       \* content of extent 1
    pc,         \* the next extent_client call of each mount's request
    req,        \* the request: op, name, inum (the parent is always Root)
    snap,       \* dirContent, as create read it
    replies,    \* fuse_reply_* calls made for the request so far
    failed,     \* whether a call of the request timed out
    late,       \* puts that timed out and are still on their way
    live        \* history: entries whose create was answered with success

vars == <<exists, root, pc, req, snap, replies, failed, late, live>>

Inums    == Files \cup Dirs \cup {Root}
Entry    == [name : Names, inum : Files \cup Dirs]
Requests == [op : {"lookup", "create", "mkdir", "readdir", "getattr"}, name : Names, inum : Inums]
Puts     == [id : Files \cup {Root}, content : Seq(Entry)]
CallPc   == {"get", "putfile", "putdir", "getattr"}

(* The types of all variables. *)
TypeOK ==
    /\ exists \in SUBSET Inums
    /\ root \in Seq(Entry)
    /\ pc \in [Mounts -> CallPc \cup {"idle", "absent", "done"}]
    /\ req \in [Mounts -> Requests]
    /\ snap \in [Mounts -> Seq(Entry)]
    /\ replies \in [Mounts -> 0..2]
    /\ failed \in [Mounts -> BOOLEAN]
    /\ late \in SUBSET Puts
    /\ live \in SUBSET Entry

Entries(s) == {s[i] : i \in 1..Len(s)}

isfile(i) == i \in Files

Init ==
    /\ exists = {Root} /\ root = <<>>
    /\ pc = [m \in Mounts |-> "idle"]
    /\ req \in [Mounts -> {r \in Requests : r.op = "getattr" /\ r.inum = Root}]
    /\ snap = [m \in Mounts |-> <<>>]
    /\ replies = [m \in Mounts |-> 0]
    /\ failed = [m \in Mounts |-> FALSE]
    /\ late = {} /\ live = {}

--------------------------------------------------------------------------------
(* The kernel (external): it looks a name up before it creates it.              *)

Start(m, r, first) ==
    /\ req' = [req EXCEPT ![m] = r]
    /\ pc' = [pc EXCEPT ![m] = first]
    /\ replies' = [replies EXCEPT ![m] = 0] /\ failed' = [failed EXCEPT ![m] = FALSE]
    /\ snap' = [snap EXCEPT ![m] = <<>>]
    /\ UNCHANGED <<exists, root, late, live>>

\* fuseserver_lookup, fuseserver_readdir, fuseserver_getattr.
Request(m) ==
    /\ pc[m] \notin CallPc
    /\ \/ \E n \in Names : Start(m, [op |-> "lookup", name |-> n, inum |-> Root], "get")
       \/ Start(m, [req[m] EXCEPT !.op = "readdir", !.inum = Root], "get")
       \/ \E i \in Files \cup {Root} :
             Start(m, [req[m] EXCEPT !.op = "getattr", !.inum = i], "getattr")

\* Mutant of RequestNew: the new inum may be that of the root.
RequestNewRoot(m) ==
    /\ pc[m] = "absent" /\ Len(root) < MaxEntries
    /\ \E i \in Files \cup {Root} :
          Start(m, [req[m] EXCEPT !.op = "create", !.inum = i], "get")

\* fuseserver_create or fuseserver_mknod, or fuseserver_mkdir, of the name whose
\* lookup just failed: the handler draws the new inum at random.
RequestNew(m) ==
    /\ pc[m] = "absent" /\ Len(root) < MaxEntries
    /\ \/ \E f \in Files : Start(m, [req[m] EXCEPT !.op = "create", !.inum = f], "get")
       \/ \E d \in Dirs : Start(m, [req[m] EXCEPT !.op = "mkdir", !.inum = d], "get")

--------------------------------------------------------------------------------
(* The handlers, call by call.                                                  *)

\* The handler makes n fuse_reply_* calls and returns.
Reply(m, n, where) ==
    /\ replies' = [replies EXCEPT ![m] = n]
    /\ pc' = [pc EXCEPT ![m] = where]

\* The positions of the entries that ilookup may stop at; it takes the first.
Matches(m) == {i \in 1..Len(root) : root[i].name = req[m].name}

\* extent_client::get of the directory in ilookup, create and getDirContent, and
\* what follows up to the next call or the reply.
Get(m) ==
    /\ pc[m] = "get"
    /\ \/ /\ req[m].op = "lookup" /\ Matches(m) = {}
          /\ Reply(m, 1, "absent") /\ UNCHANGED <<req, snap, failed>>
       \/ /\ req[m].op = "lookup"
          /\ \E i \in Matches(m) :
                /\ \A j \in Matches(m) : i <= j
                /\ req' = [req EXCEPT ![m] = [@ EXCEPT !.inum = root[i].inum]]
          /\ pc' = [pc EXCEPT ![m] = "getattr"] /\ UNCHANGED <<replies, snap, failed>>
       \/ /\ req[m].op = "readdir"
          /\ Reply(m, 1, "done") /\ UNCHANGED <<req, snap, failed>>
       \/ /\ req[m].op \in {"create", "mkdir"}
          /\ snap' = [snap EXCEPT ![m] = root]
          /\ pc' = [pc EXCEPT ![m] = IF isfile(req[m].inum) THEN "putfile" ELSE "putdir"]
          /\ UNCHANGED <<req, replies, failed>>
       \/ /\ Timeouts /\ failed' = [failed EXCEPT ![m] = TRUE]
          /\ Reply(m, IF req[m].op = "readdir" THEN 0 ELSE 1,
                      IF req[m].op = "lookup" THEN "absent" ELSE "done")
          /\ UNCHANGED <<req, snap>>
    /\ UNCHANGED <<exists, root, late, live>>

\* extent_server::put.
put(i, s) == exists' = exists \cup {i} /\ root' = IF i = Root THEN s ELSE root

\* A call of extent_client::put in create.  When it times out create returns
\* IOERR, and the put never happens or is still to come.
Put(m, i, s, next) ==
    \/ /\ put(i, s)
       /\ pc' = [pc EXCEPT ![m] = next]
       /\ UNCHANGED <<replies, failed, late>>
    \/ /\ Timeouts
       /\ failed' = [failed EXCEPT ![m] = TRUE] /\ Reply(m, 1, "done")
       /\ \/ late' = late
          \/ Cardinality(late) < MaxLate /\ late' = late \cup {[id |-> i, content |-> s]}
       /\ UNCHANGED <<exists, root>>

\* Mutant of PutFile: the parent is written even if the file cannot be.
PutFileIgnoresError(m) ==
    /\ pc[m] = "putfile"
    /\ \/ put(req[m].inum, <<>>)
       \/ Timeouts /\ UNCHANGED <<exists, root>>
    /\ pc' = [pc EXCEPT ![m] = "putdir"]
    /\ UNCHANGED <<req, snap, replies, failed, late, live>>

\* create puts the new, empty file before it enters it into the parent.
PutFile(m) ==
    /\ pc[m] = "putfile"
    /\ Put(m, req[m].inum, <<>>, "putdir")
    /\ UNCHANGED <<req, snap, live>>

NewEntry(m) == [name |-> req[m].name, inum |-> req[m].inum]

\* Mutant of Appended: the entry replaces what create read.
AppendedNot(m) == <<NewEntry(m)>>

\* dirContent with the new entry, as create writes it back.
Appended(m) == Append(snap[m], NewEntry(m))

PutDir(m) ==
    /\ pc[m] = "putdir"
    /\ Put(m, Root, Appended(m), "getattr")
    /\ snap' = [snap EXCEPT ![m] = <<>>]
    /\ UNCHANGED <<req, live>>

\* Mutant of Getattr: no return after the error reply of any handler.
GetattrNoReturn(m) ==
    /\ pc[m] = "getattr"
    /\ Reply(m, IF req[m].inum \in exists THEN 1 ELSE 2, "done")
    /\ UNCHANGED <<exists, root, req, snap, failed, late, live>>

\* extent_client::getattr, the last call of getattr, lookup, createhelper and
\* mkdir, and the reply.  It fails for an extent that does not exist; lookup then
\* replies with an error and goes on to reply with the entry.
Getattr(m) ==
    LET r == req[m] IN
    /\ pc[m] = "getattr"
    /\ \/ /\ r.inum \in exists /\ Reply(m, 1, "done")
          /\ live' = IF r.op = "create" THEN live \cup {NewEntry(m)} ELSE live
          /\ UNCHANGED failed
       \/ /\ r.inum \notin exists \/ Timeouts
          /\ failed' = [failed EXCEPT ![m] = r.inum \in exists]
          /\ Reply(m, IF r.op = "lookup" THEN 2 ELSE 1, "done")
          /\ UNCHANGED live
    /\ UNCHANGED <<exists, root, req, snap, late>>

\* A put that timed out is carried out after all.
LatePut ==
    /\ \E p \in late : put(p.id, p.content) /\ late' = late \ {p}
    /\ UNCHANGED <<pc, req, snap, replies, failed, live>>

\* A mount's process dies in the middle of a request and is started again.
Crash(m) ==
    /\ pc[m] \in CallPc
    /\ pc' = [pc EXCEPT ![m] = "idle"] /\ snap' = [snap EXCEPT ![m] = <<>>]
    /\ UNCHANGED <<exists, root, req, replies, failed, late, live>>

Next ==
    \/ \E m \in Mounts : \/ Request(m) \/ RequestNew(m) \/ Get(m) \/ PutFile(m)
                         \/ PutDir(m) \/ Getattr(m) \/ Crash(m)
    \/ LatePut

Spec == Init /\ [][Next]_vars

--------------------------------------------------------------------------------
(* Properties                                                                   *)

(* Whatever mounts interleave, time out or crash: a file that the directory     *)
(* lists has its extent (yfs_client::create puts the file before the parent and *)
(* gives up when that fails).                                                   *)
NoDanglingFile == \A e \in Entries(root) : isfile(e.inum) => e.inum \in exists

(* A request is answered exactly once, unless a call it made timed out or it    *)
(* looked up a name that mkdir left in the directory without an extent.         *)
RepliedOnce ==
    \A m \in Mounts : pc[m] = "done" /\ ~failed[m] =>
        replies[m] = 1 \/ (req[m].op = "lookup" /\ req[m].inum \in Dirs)

(* "make sure all the live files are there" (test-lab-2.pl:72): a file whose    *)
(* create was answered with success stays in the directory.                     *)
LiveFilesListed == live \subseteq Entries(root)

(* "appears more than once in the directory" is an error (test-lab-2.pl:93): a  *)
(* directory lists each name once.                                              *)
NamesOnce ==
    \A i, j \in 1..Len(root) : root[i].name = root[j].name => i = j

================================================================================
