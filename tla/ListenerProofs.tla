----------------------------- MODULE ListenerProofs -----------------------------
(* Proofs for Listener: the references to connections are accounted for, the    *)
(* listener's table loses no connection, and nothing is left when it is gone.   *)
EXTENDS Listener, FiniteSetTheorems, TLAPS

\* The types that the proofs use.
ListenerTypes ==
    /\ life \in [Conns -> {"none", "live", "dead", "deleted"}]
    /\ refno_ \in [Conns -> Nat]
    /\ fd_ \in [Conns -> Fds \cup {0}]
    /\ listed \in [Fds -> Conns \cup {0}] /\ saved \in [Clients -> Conns \cup {0}]
    /\ IsABag(jobs) /\ BagToSet(jobs) \subseteq Job
    /\ \A c \in Conns : IsFiniteSet(JobsOn(jobs, c))
    /\ leaked \in [Conns -> Nat] /\ ch \in Conns \cup {0} /\ todo \in SUBSET Fds
    /\ accepter \in {"select", "gc", "ref", "gone"}
    /\ main \in {"running", "join", "close", "unlist", "pool", "done"}

(* The count of every connection is the number of its holders.  A connection    *)
(* that has none is deleted, because the count of a live one never falls to 0:  *)
(* the accept thread or its table still holds it.  A job whose client has been  *)
(* saved finds a connection to reply on.                                        *)
CountInv ==
    /\ \A c \in Conns : refno_[c] = Holders(c)
    /\ \A c \in Conns : life[c] \in {"none", "deleted"} <=> refno_[c] = 0
    /\ \A c \in Conns : life[c] = "live" => ch = c \/ \E f \in Fds : listed[f] = c
    /\ \A j \in BagToSet(jobs) : j.pc = "reply" /\ j.clt # NoNonce => saved[j.clt] # 0

(* Connections that are not deleted have descriptors of their own, by which     *)
(* they are listed; what the accept thread has just made is not listed yet.     *)
FdInv ==
    /\ \A c \in Conns : life[c] \in {"live", "dead"} => fd_[c] \in Fds
    /\ \A c, d \in Conns :
          life[c] \in {"live", "dead"} /\ life[d] \in {"live", "dead"} /\ fd_[c] = fd_[d] => c = d
    /\ \A f \in Fds : listed[f] # 0 => fd_[listed[f]] = f
    /\ ch # 0 => \A f \in Fds : listed[f] # ch

(* Where the accept thread and the destructor are in their loops over conns_.   *)
LoopInv ==
    /\ ch # 0 <=> accepter \in {"gc", "ref"}
    /\ accepter \in {"gc", "ref"} \/ main \in {"close", "unlist"} => \A f \in todo : listed[f] # 0
    /\ accepter = "ref" \/ main = "unlist" => todo # {} /\ life[listed[Least(todo)]] = "dead"
    /\ main \in {"close", "unlist", "pool", "done"} => accepter = "gone"
    /\ main \in {"close", "unlist"} => \A f \in Fds \ todo : listed[f] = 0
    /\ main \in {"pool", "done"} => \A f \in Fds : listed[f] = 0
    /\ main = "done" => jobs = EmptyBag

(* Until a bad pointer is used all of this holds.                               *)
ListenerInv == ~crashed => ListenerTypes /\ CountInv /\ FdInv /\ LoopInv

--------------------------------------------------------------------------------
(* Counting                                                                     *)

LEMMA JobsOnElement ==
    ASSUME NEW B, NEW c, NEW x
    PROVE  x \in JobsOn(B, c) <=>
               \E j \in DOMAIN B : j.conn = c /\ \E n \in 1..B[j] : x = <<j, n>>
BY DEF JobsOn, BagToSet

LEMMA JobsOnGrows ==
    ASSUME NEW B, NEW C, NEW c,
           \A i \in DOMAIN B : i.conn = c => i \in DOMAIN C /\ C[i] = B[i]
    PROVE  JobsOn(B, c) \subseteq JobsOn(C, c)
<1> SUFFICES ASSUME NEW x \in JobsOn(B, c) PROVE x \in JobsOn(C, c)
  OBVIOUS
<1>1. PICK j \in DOMAIN B : j.conn = c /\ \E n \in 1..B[j] : x = <<j, n>>
  BY JobsOnElement
<1>2. j \in DOMAIN C /\ C[j] = B[j]
  BY <1>1
<1> QED
  BY <1>1, <1>2, JobsOnElement

\* What a bag is when a job leaves it, or comes to it.
LEMMA BagWithout ==
    ASSUME NEW B, IsABag(B), NEW j \in DOMAIN B
    PROVE  LET C == B (-) SetToBag({j}) IN
           /\ IsABag(C) /\ DOMAIN C = IF B[j] = 1 THEN DOMAIN B \ {j} ELSE DOMAIN B
           /\ \A i \in DOMAIN C : C[i] = IF i = j THEN B[i] - 1 ELSE B[i]
BY DEF IsABag, (-), SetToBag

LEMMA BagWith ==
    ASSUME NEW B, IsABag(B), NEW j
    PROVE  LET C == B (+) SetToBag({j}) IN
           /\ IsABag(C) /\ DOMAIN C = DOMAIN B \cup {j}
           /\ \A i \in DOMAIN C : C[i] = IF i # j THEN B[i] ELSE IF j \in DOMAIN B THEN B[j] + 1 ELSE 1
BY DEF IsABag, (+), SetToBag

LEMMA JobLeaves ==
    ASSUME NEW B, IsABag(B), NEW j \in DOMAIN B, NEW c, IsFiniteSet(JobsOn(B, c))
    PROVE  LET C == B (-) SetToBag({j}) IN
           /\ IsFiniteSet(JobsOn(C, c))
           /\ Cardinality(JobsOn(C, c)) = Cardinality(JobsOn(B, c)) - (IF j.conn = c THEN 1 ELSE 0)
<1> DEFINE C == B (-) SetToBag({j})
<1>1. /\ IsABag(C) /\ DOMAIN C = IF B[j] = 1 THEN DOMAIN B \ {j} ELSE DOMAIN B
      /\ \A i \in DOMAIN C : C[i] = IF i = j THEN B[i] - 1 ELSE B[i]
  BY BagWithout, Zenon
<1>2. \A i \in DOMAIN B : B[i] \in Nat /\ B[i] > 0
  BY DEF IsABag
<1> HIDE DEF C
<1>3. CASE j.conn = c
  <2>1. <<j, B[j]>> \in JobsOn(B, c)
    BY <1>2, <1>3, JobsOnElement
  <2>2. JobsOn(C, c) = JobsOn(B, c) \ {<<j, B[j]>>}
    <3>1. ASSUME NEW x \in JobsOn(C, c) PROVE x \in JobsOn(B, c) \ {<<j, B[j]>>}
      <4>1. PICK i \in DOMAIN C : i.conn = c /\ \E n \in 1..C[i] : x = <<i, n>>
        BY <3>1, JobsOnElement
      <4>2. PICK n \in 1..C[i] : x = <<i, n>>
        BY <4>1
      <4>3. i \in DOMAIN B /\ n \in 1..B[i] /\ (i = j => n # B[j])
        BY <1>1, <1>2, <4>2
      <4> QED
        BY <4>1, <4>2, <4>3, JobsOnElement
    <3>2. ASSUME NEW x \in JobsOn(B, c), x # <<j, B[j]>> PROVE x \in JobsOn(C, c)
      <4>1. PICK i \in DOMAIN B : i.conn = c /\ \E n \in 1..B[i] : x = <<i, n>>
        BY <3>2, JobsOnElement
      <4>2. PICK n \in 1..B[i] : x = <<i, n>>
        BY <4>1
      <4>3. i \in DOMAIN C /\ n \in 1..C[i]
        BY <1>1, <1>2, <3>2, <4>2
      <4> QED
        BY <4>1, <4>2, <4>3, JobsOnElement
    <3> QED
      BY <3>1, <3>2
  <2> QED
    BY <1>3, <2>1, <2>2, FS_RemoveElement, ZenonT(40) DEF C
<1>4. CASE j.conn # c
  <2>1. \A i \in DOMAIN C : i.conn = c => i \in DOMAIN B /\ C[i] = B[i]
    BY <1>1, <1>4
  <2>2. \A i \in DOMAIN B : i.conn = c => i \in DOMAIN C /\ C[i] = B[i]
    BY <1>1, <1>4
  <2>3. JobsOn(C, c) \subseteq JobsOn(B, c) /\ JobsOn(B, c) \subseteq JobsOn(C, c)
    BY <2>1, <2>2, JobsOnGrows
  <2>4. JobsOn(C, c) = JobsOn(B, c)
    BY <2>3
  <2>5. Cardinality(JobsOn(B, c)) \in Nat
    BY FS_CardinalityType
  <2> QED
    BY <1>4, <2>4, <2>5 DEF C
<1> QED
  BY <1>3, <1>4

LEMMA JobComes ==
    ASSUME NEW B, IsABag(B), NEW j, NEW c, IsFiniteSet(JobsOn(B, c))
    PROVE  LET C == B (+) SetToBag({j}) IN
           /\ IsFiniteSet(JobsOn(C, c))
           /\ Cardinality(JobsOn(C, c)) = Cardinality(JobsOn(B, c)) + (IF j.conn = c THEN 1 ELSE 0)
<1> DEFINE C == B (+) SetToBag({j})
           last == IF j \in DOMAIN B THEN B[j] + 1 ELSE 1
<1>1. /\ IsABag(C) /\ DOMAIN C = DOMAIN B \cup {j}
      /\ \A i \in DOMAIN C : C[i] = IF i # j THEN B[i] ELSE last
  BY BagWith, ZenonT(40)
<1>2. \A i \in DOMAIN B : B[i] \in Nat /\ B[i] > 0
  BY DEF IsABag
<1> HIDE DEF C
<1>3. CASE j.conn = c
  <2>1. <<j, last>> \notin JobsOn(B, c)
    <3> SUFFICES ASSUME <<j, last>> \in JobsOn(B, c) PROVE FALSE
      OBVIOUS
    <3>1. PICK i \in DOMAIN B : \E n \in 1..B[i] : <<j, last>> = <<i, n>>
      BY JobsOnElement
    <3>2. i = j /\ last \in 1..B[j]
      BY <3>1
    <3> QED
      BY <1>2, <3>2
  <2>2. JobsOn(C, c) = JobsOn(B, c) \cup {<<j, last>>}
    <3>1. ASSUME NEW x \in JobsOn(C, c) PROVE x \in JobsOn(B, c) \cup {<<j, last>>}
      <4>1. PICK i \in DOMAIN C : i.conn = c /\ \E n \in 1..C[i] : x = <<i, n>>
        BY <3>1, JobsOnElement
      <4>2. PICK n \in 1..C[i] : x = <<i, n>>
        BY <4>1
      <4>3. CASE i = j /\ n = last
        BY <4>2, <4>3
      <4>4. CASE i # j \/ n # last
        <5>1. i \in DOMAIN B /\ n \in 1..B[i]
          BY <1>1, <1>2, <4>2, <4>4
        <5> QED
          BY <4>1, <4>2, <5>1, JobsOnElement
      <4> QED
        BY <4>3, <4>4
    <3>2. ASSUME NEW x \in JobsOn(B, c) PROVE x \in JobsOn(C, c)
      <4>1. PICK i \in DOMAIN B : i.conn = c /\ \E n \in 1..B[i] : x = <<i, n>>
        BY <3>2, JobsOnElement
      <4>2. PICK n \in 1..B[i] : x = <<i, n>>
        BY <4>1
      <4>3. i \in DOMAIN C /\ n \in 1..C[i]
        BY <1>1, <1>2, <4>2
      <4> QED
        BY <4>1, <4>2, <4>3, JobsOnElement
    <3>3. <<j, last>> \in JobsOn(C, c)
      <4>1. j \in DOMAIN C /\ last \in 1..C[j]
        BY <1>1, <1>2
      <4> QED
        BY <1>3, <4>1, JobsOnElement
    <3> QED
      BY <3>1, <3>2, <3>3
  <2> QED
    <3> HIDE DEF last
    <3>1. /\ IsFiniteSet(JobsOn(C, c))
          /\ Cardinality(JobsOn(C, c)) = Cardinality(JobsOn(B, c)) + 1
      BY <2>1, <2>2, FS_AddElement
    <3> QED
      BY <1>3, <3>1 DEF C
<1>4. CASE j.conn # c
  <2>1. \A i \in DOMAIN C : i.conn = c => i \in DOMAIN B /\ C[i] = B[i]
    BY <1>1, <1>4
  <2>2. \A i \in DOMAIN B : i.conn = c => i \in DOMAIN C /\ C[i] = B[i]
    BY <1>1, <1>4
  <2>3. JobsOn(C, c) \subseteq JobsOn(B, c) /\ JobsOn(B, c) \subseteq JobsOn(C, c)
    BY <2>1, <2>2, JobsOnGrows
  <2>4. JobsOn(C, c) = JobsOn(B, c)
    BY <2>3
  <2>5. Cardinality(JobsOn(B, c)) \in Nat
    BY FS_CardinalityType
  <2> QED
    BY <1>4, <2>4, <2>5 DEF C
<1> QED
  BY <1>3, <1>4

\* How often a table f on S has c.
Entries(S, f, c) == Cardinality({x \in S : f[x] = c})

LEMMA EntryChanges ==
    ASSUME NEW S, IsFiniteSet(S), NEW f, NEW g, NEW x \in S, NEW c,
           \A y \in S \ {x} : g[y] = f[y]
    PROVE  Entries(S, g, c)
             = Entries(S, f, c) - (IF f[x] = c THEN 1 ELSE 0) + (IF g[x] = c THEN 1 ELSE 0)
<1> DEFINE Old == {y \in S : f[y] = c}
           New == {y \in S : g[y] = c}
<1>1. IsFiniteSet(Old) /\ Cardinality(Old) \in Nat
  BY FS_Subset, FS_CardinalityType
<1> SUFFICES Cardinality(New) = Cardinality(Old) - (IF f[x] = c THEN 1 ELSE 0) + (IF g[x] = c THEN 1 ELSE 0)
  BY DEF Entries
<1>2. CASE f[x] = c /\ g[x] # c
  <2>1. New = Old \ {x} /\ x \in Old
    BY <1>2
  <2> HIDE DEF Old, New
  <2>2. Cardinality(New) = Cardinality(Old) - 1
    BY <1>1, <2>1, FS_RemoveElement, Zenon
  <2> QED
    BY <1>1, <1>2, <2>2
<1>3. CASE f[x] # c /\ g[x] = c
  <2>1. New = Old \cup {x} /\ x \notin Old
    BY <1>3
  <2> HIDE DEF Old, New
  <2>2. Cardinality(New) = Cardinality(Old) + 1
    BY <1>1, <2>1, FS_AddElement, Zenon
  <2> QED
    BY <1>1, <1>3, <2>2
<1>4. CASE (f[x] = c) <=> (g[x] = c)
  <2>1. New = Old
    BY <1>4
  <2> HIDE DEF Old, New
  <2> QED
    BY <1>1, <1>4, <2>1
<1> QED
  BY <1>2, <1>3, <1>4

\* jobs' has no job that is not in jobs or new, and one less on the connection
\* from and one more on the connection to (0 stands for none).
JobsBecome(new, from, to) ==
    /\ IsABag(jobs') /\ BagToSet(jobs') \subseteq BagToSet(jobs) \cup new
    /\ \A c \in Conns :
          /\ IsFiniteSet(JobsOn(jobs', c))
          /\ Cardinality(JobsOn(jobs', c)) = Cardinality(JobsOn(jobs, c))
                - (IF from = c THEN 1 ELSE 0) + (IF to = c THEN 1 ELSE 0)

LEMMA NoConn == 0 \notin Conns
BY ListenerAssumption DEF Conns

LEMMA JobStarts ==
    ASSUME ListenerTypes, NEW i \in Job, jobs' = jobs (+) SetToBag({i})
    PROVE  JobsBecome({i}, 0, i.conn)
<1>0. IsABag(jobs)
  BY DEF ListenerTypes
<1>1. IsABag(jobs') /\ DOMAIN jobs' = DOMAIN jobs \cup {i}
  BY <1>0, BagWith, Zenon
<1>2. ASSUME NEW c \in Conns
      PROVE  /\ IsFiniteSet(JobsOn(jobs', c))
             /\ Cardinality(JobsOn(jobs', c))
                  = Cardinality(JobsOn(jobs, c)) - (IF 0 = c THEN 1 ELSE 0) + (IF i.conn = c THEN 1 ELSE 0)
  <2>1. IsFiniteSet(JobsOn(jobs, c)) /\ Cardinality(JobsOn(jobs, c)) \in Nat
    BY FS_CardinalityType DEF ListenerTypes
  <2>2. /\ IsFiniteSet(JobsOn(jobs', c))
        /\ Cardinality(JobsOn(jobs', c)) = Cardinality(JobsOn(jobs, c)) + (IF i.conn = c THEN 1 ELSE 0)
    BY <2>1, JobComes DEF ListenerTypes
  <2> QED
    BY <2>1, <2>2, NoConn
<1> QED
  BY <1>1, <1>2 DEF JobsBecome, BagToSet

LEMMA JobEnds ==
    ASSUME ListenerTypes, NEW j \in BagToSet(jobs), Becomes(j, {})
    PROVE  JobsBecome({}, j.conn, 0)
<1> DEFINE B == jobs (-) SetToBag({j})
<1>1. IsABag(B) /\ DOMAIN B \subseteq DOMAIN jobs
  BY BagWithout, ZenonT(40) DEF ListenerTypes, BagToSet
<1>2. jobs' = B
  <2>1. jobs' = B (+) SetToBag({})
    BY DEF Becomes
  <2> HIDE DEF B
  <2> QED
    BY <1>1, <2>1 DEF IsABag, (+), SetToBag
<1>3. ASSUME NEW c \in Conns
      PROVE  /\ IsFiniteSet(JobsOn(B, c))
             /\ Cardinality(JobsOn(B, c))
                  = Cardinality(JobsOn(jobs, c)) - (IF j.conn = c THEN 1 ELSE 0) + (IF 0 = c THEN 1 ELSE 0)
  <2>1. IsFiniteSet(JobsOn(jobs, c)) /\ Cardinality(JobsOn(jobs, c)) \in Nat
    BY FS_CardinalityType DEF ListenerTypes
  <2>2. /\ IsFiniteSet(JobsOn(B, c))
        /\ Cardinality(JobsOn(B, c)) = Cardinality(JobsOn(jobs, c)) - (IF j.conn = c THEN 1 ELSE 0)
    BY <2>1, JobLeaves DEF ListenerTypes, BagToSet
  <2> HIDE DEF B
  <2> QED
    BY <2>1, <2>2, NoConn
<1> HIDE DEF B
<1> QED
  BY <1>1, <1>2, <1>3 DEF JobsBecome, BagToSet

LEMMA JobBecomes ==
    ASSUME ListenerTypes, NEW j \in BagToSet(jobs), NEW i, Becomes(j, {i})
    PROVE  JobsBecome({i}, j.conn, i.conn)
<1> DEFINE B == jobs (-) SetToBag({j})
<1>1. IsABag(B) /\ DOMAIN B \subseteq DOMAIN jobs
  BY BagWithout, ZenonT(40) DEF ListenerTypes, BagToSet
<1>2. jobs' = B (+) SetToBag({i})
  BY DEF Becomes
<1>3. ASSUME NEW c \in Conns
      PROVE  /\ IsFiniteSet(JobsOn(B, c)) /\ Cardinality(JobsOn(jobs, c)) \in Nat
             /\ Cardinality(JobsOn(B, c)) = Cardinality(JobsOn(jobs, c)) - (IF j.conn = c THEN 1 ELSE 0)
  <2>1. IsFiniteSet(JobsOn(jobs, c)) /\ Cardinality(JobsOn(jobs, c)) \in Nat
    BY FS_CardinalityType DEF ListenerTypes
  <2> QED
    BY <2>1, JobLeaves DEF ListenerTypes, BagToSet
<1> HIDE DEF B
<1>4. ASSUME NEW c \in Conns
      PROVE  /\ IsFiniteSet(JobsOn(jobs', c))
             /\ Cardinality(JobsOn(jobs', c)) = Cardinality(JobsOn(B, c)) + (IF i.conn = c THEN 1 ELSE 0)
  BY <1>1, <1>2, <1>3, JobComes
<1>5. IsABag(jobs') /\ DOMAIN jobs' = DOMAIN B \cup {i}
  BY <1>1, <1>2, BagWith, Zenon
<1> QED
  BY <1>1, <1>3, <1>4, <1>5 DEF JobsBecome, BagToSet

--------------------------------------------------------------------------------
(* References                                                                   *)

Listings(c) == Entries(Fds, listed, c)
Savings(c)  == Entries(Clients, saved, c)
OnJobs(c)   == Cardinality(JobsOn(jobs, c))

LEMMA HoldersAre ==
    ASSUME ListenerTypes, NEW c \in Conns
    PROVE  /\ Listings(c) \in Nat /\ Savings(c) \in Nat /\ OnJobs(c) \in Nat /\ leaked[c] \in Nat
           /\ Holders(c) = Listings(c) + Savings(c) + OnJobs(c) + leaked[c] + (IF ch = c THEN 1 ELSE 0)
           /\ \A f \in Fds : listed[f] = c => Listings(c) > 0
           /\ \A k \in Clients : saved[k] = c => Savings(c) > 0
           /\ \A j \in BagToSet(jobs) : j.conn = c => OnJobs(c) > 0
<1>1. ASSUME NEW S, IsFiniteSet(S) PROVE Cardinality(S) \in Nat /\ (S # {} => Cardinality(S) > 0)
  BY <1>1, FS_CardinalityType, FS_EmptySet
<1>2. Listings(c) \in Nat /\ \A f \in Fds : listed[f] = c => Listings(c) > 0
  <2>1. IsFiniteSet({f \in Fds : listed[f] = c})
    BY ListenerAssumption, FS_Subset
  <2> QED
    BY <1>1, <2>1 DEF Listings, Entries
<1>3. Savings(c) \in Nat /\ \A k \in Clients : saved[k] = c => Savings(c) > 0
  <2>1. IsFiniteSet({k \in Clients : saved[k] = c})
    BY ListenerAssumption, FS_Subset
  <2> QED
    BY <1>1, <2>1 DEF Savings, Entries
<1>4. OnJobs(c) \in Nat /\ \A j \in BagToSet(jobs) : j.conn = c => OnJobs(c) > 0
  <2>1. IsFiniteSet(JobsOn(jobs, c))
    BY DEF ListenerTypes
  <2>2. ASSUME NEW j \in BagToSet(jobs), j.conn = c PROVE JobsOn(jobs, c) # {}
    <3>1. j \in DOMAIN jobs /\ 1 \in 1..jobs[j]
      BY DEF ListenerTypes, IsABag, BagToSet
    <3>2. <<j, 1>> \in JobsOn(jobs, c)
      BY <2>2, <3>1, JobsOnElement
    <3> QED
      BY <3>2
  <2> QED
    BY <1>1, <2>1, <2>2 DEF OnJobs
<1>5. leaked[c] \in Nat
  BY DEF ListenerTypes
<1> QED
  BY <1>2, <1>3, <1>4, <1>5 DEF Holders, Listings, Savings, OnJobs, Entries

LEMMA SavingsDiffer ==
    ASSUME NEW k \in Clients, \A y \in Clients \ {k} : saved'[y] = saved[y], NEW c
    PROVE  Savings(c)' = Savings(c) - (IF saved[k] = c THEN 1 ELSE 0) + (IF saved'[k] = c THEN 1 ELSE 0)
<1>1. IsFiniteSet(Clients)
  BY ListenerAssumption
<1> QED
  BY <1>1, EntryChanges DEF Savings

LEMMA SavingsNext ==
    ASSUME ListenerTypes, NEW k \in Clients, NEW v, saved' = [saved EXCEPT ![k] = v], NEW c
    PROVE  Savings(c)' = Savings(c) - (IF saved[k] = c THEN 1 ELSE 0) + (IF v = c THEN 1 ELSE 0)
<1>1. saved'[k] = v /\ \A y \in Clients \ {k} : saved'[y] = saved[y]
  BY DEF ListenerTypes
<1> QED
  BY <1>1, SavingsDiffer

LEMMA ListingsDiffer ==
    ASSUME NEW f \in Fds, \A y \in Fds \ {f} : listed'[y] = listed[y], NEW c
    PROVE  Listings(c)' = Listings(c) - (IF listed[f] = c THEN 1 ELSE 0) + (IF listed'[f] = c THEN 1 ELSE 0)
<1>1. IsFiniteSet(Fds)
  BY ListenerAssumption
<1> QED
  BY <1>1, EntryChanges DEF Listings

LEMMA ListingsNext ==
    ASSUME ListenerTypes, NEW f \in Fds, NEW v, listed' = [listed EXCEPT ![f] = v], NEW c
    PROVE  Listings(c)' = Listings(c) - (IF listed[f] = c THEN 1 ELSE 0) + (IF v = c THEN 1 ELSE 0)
<1>1. listed'[f] = v /\ \A y \in Fds \ {f} : listed'[y] = listed[y]
  BY DEF ListenerTypes
<1> QED
  BY <1>1, ListingsDiffer

\* Whatever is pointed to has not been deleted.
LEMMA HeldIsOpen ==
    ASSUME ListenerTypes, CountInv, NEW c \in Conns,
           \/ ch = c \/ \E f \in Fds : listed[f] = c
           \/ \E k \in Clients : saved[k] = c
           \/ \E j \in BagToSet(jobs) : j.conn = c
    PROVE  refno_[c] > 0 /\ life[c] \in {"live", "dead"}
<1>1. refno_[c] = Holders(c)
  BY DEF CountInv
<1>2. refno_[c] > 0
  BY <1>1, HoldersAre
<1> QED
  BY <1>2 DEF CountInv, ListenerTypes

\* Refs, when the new counts are right: only a dead connection is deleted.
LEMMA RefsStep ==
    ASSUME ListenerTypes, CountInv, FdInv, NEW refs \in [Conns -> Nat], Refs(refs), UNCHANGED ch,
           \A c \in Conns : refs[c] = Holders(c)',
           \A c \in Conns : refno_[c] = 0 => refs[c] = 0,
           \A c \in Conns : life[c] = "live" => refs[c] > 0,
           \A c \in Conns : life[c] = "live" => ch = c \/ \E f \in Fds : listed'[f] = c,
           \A f \in Fds : listed'[f] \in {listed[f], 0},
           \A f \in Fds : \A c \in Conns : listed'[f] = c => refs[c] > 0,
           \A j \in BagToSet(jobs') : j.pc = "reply" /\ j.clt # NoNonce => saved'[j.clt] # 0
    PROVE  /\ CountInv' /\ FdInv'
           /\ life' \in [Conns -> {"none", "live", "dead", "deleted"}]
           /\ refno_' \in [Conns -> Nat] /\ fd_' \in [Conns -> Fds \cup {0}]
           /\ \A c \in Conns : refs[c] > 0 => life'[c] = life[c]
<1>1. /\ refno_' = refs
      /\ life' \in [Conns -> {"none", "live", "dead", "deleted"}]
      /\ fd_' \in [Conns -> Fds \cup {0}]
  BY DEF Refs, ListenerTypes
<1>2. \A c \in Conns :
         /\ refs[c] > 0 => life'[c] = life[c] /\ fd_'[c] = fd_[c]
         /\ refs[c] = 0 /\ refno_[c] > 0 => life'[c] = "deleted"
         /\ refno_[c] = 0 => life'[c] = life[c] /\ fd_'[c] = fd_[c]
  <2> TAKE c \in Conns
  <2>1. refs[c] \in Nat /\ refno_[c] \in Nat
    BY DEF ListenerTypes
  <2>2. refs[c] = 0 /\ refno_[c] > 0 => life[c] = "dead"
    BY <2>1 DEF CountInv, ListenerTypes
  <2> QED
    BY <2>1, <2>2 DEF Refs
<1>3. \A c \in Conns : refs[c] \in Nat /\ refno_[c] \in Nat
  BY DEF ListenerTypes
<1>4. \A c \in Conns : life'[c] \in {"none", "deleted"} <=> refs[c] = 0
  BY <1>2, <1>3 DEF CountInv
<1>5. \A c \in Conns : life'[c] = "live" => life[c] = "live"
  BY <1>2, <1>3
<1>6. CountInv'
  BY <1>1, <1>4, <1>5 DEF CountInv
<1>7. \A c \in Conns : life'[c] \in {"live", "dead"} =>
         refs[c] > 0 /\ life[c] = life'[c] /\ fd_'[c] = fd_[c]
  BY <1>2, <1>3, <1>4
<1>8. \A f \in Fds : listed'[f] # 0 => listed'[f] = listed[f] /\ listed[f] \in Conns /\ refs[listed[f]] > 0
  BY DEF ListenerTypes
<1>9. FdInv'
  <2>1. \A f \in Fds : listed'[f] # 0 => fd_'[listed'[f]] = f
    BY <1>2, <1>8 DEF FdInv
  <2>2. ch' # 0 => \A f \in Fds : listed'[f] # ch'
    BY <1>8 DEF FdInv
  <2>3. \A c \in Conns : life'[c] \in {"live", "dead"} => fd_'[c] \in Fds
    BY <1>7 DEF FdInv
  <2>4. \A c, d \in Conns :
           life'[c] \in {"live", "dead"} /\ life'[d] \in {"live", "dead"} /\ fd_'[c] = fd_'[d] => c = d
    BY <1>7 DEF FdInv
  <2> QED
    BY <2>1, <2>2, <2>3, <2>4 DEF FdInv
<1> QED
  BY <1>1, <1>2, <1>6, <1>9

--------------------------------------------------------------------------------
(* The loops                                                                    *)

LEMMA LeastIsIn ==
    ASSUME NEW S \in SUBSET Fds, S # {}
    PROVE  Least(S) \in S
<1> DEFINE R == OpToRel(<, Nat)
<1>0. S \subseteq Nat
  BY ListenerAssumption
<1>1. IsWellFoundedOn(R, Nat)
  BY NatLessThanWellFounded, Zenon
<1>2. \A x, y \in Nat : <<x, y>> \in R <=> x < y
  BY DEF OpToRel
<1> HIDE DEF R
<1>3. PICK x \in S : \A y \in S : ~ (<<y, x>> \in R)
  BY <1>0, <1>1, WFMin, Zenon
<1>4. ASSUME NEW y \in S PROVE x <= y
  <2>1. x \in Nat /\ y \in Nat /\ ~ (<<y, x>> \in R)
    BY <1>0, <1>3
  <2>2. ~ (y < x)
    BY <1>2, <2>1
  <2> QED
    BY <2>1, <2>2
<1> QED
  BY <1>4 DEF Least

\* A step that neither lists nor unlists, and moves neither thread.
LEMMA LoopKept ==
    ASSUME ListenerTypes, CountInv, LoopInv, UNCHANGED <<listed, ch, todo, accepter, main>>,
           \A c \in Conns : life[c] = "dead" /\ (\E f \in Fds : listed[f] = c) => life'[c] = "dead",
           main = "done" => jobs' = jobs
    PROVE  LoopInv'
<1>1. accepter = "ref" \/ main = "unlist" => life'[listed[Least(todo)]] = "dead"
  <2> SUFFICES ASSUME accepter = "ref" \/ main = "unlist"
               PROVE  life'[listed[Least(todo)]] = "dead"
    OBVIOUS
  <2>1. todo \in SUBSET Fds /\ todo # {} /\ life[listed[Least(todo)]] = "dead"
    BY DEF LoopInv, ListenerTypes
  <2>2. Least(todo) \in Fds /\ Least(todo) \in todo
    BY <2>1, LeastIsIn
  <2>3. listed[Least(todo)] \in Conns
    BY <2>2 DEF LoopInv, ListenerTypes
  <2> QED
    BY <2>1, <2>2, <2>3
<1> QED
  BY <1>1 DEF LoopInv

--------------------------------------------------------------------------------
(* dispatch and got_pdu                                                         *)

\* What a job, or a step that makes one, does to the types, the counts and the
\* loops: the thread of the listener and the destructor are not disturbed.
LEMMA JobsStep ==
    ASSUME ListenerTypes, NEW new \in SUBSET Job, NEW from, NEW to, JobsBecome(new, from, to),
           UNCHANGED <<listed, accepter, ch, todo, main>>,
           saved' \in [Clients -> Conns \cup {0}], leaked' \in [Conns -> Nat],
           life' \in [Conns -> {"none", "live", "dead", "deleted"}],
           refno_' \in [Conns -> Nat], fd_' \in [Conns -> Fds \cup {0}]
    PROVE  /\ ListenerTypes'
           /\ \A c \in Conns : Holders(c)' =
                 Listings(c) + Savings(c)' + leaked'[c] + (IF ch = c THEN 1 ELSE 0)
                 + (OnJobs(c) - (IF from = c THEN 1 ELSE 0) + (IF to = c THEN 1 ELSE 0))
<1>1. ListenerTypes'
  BY DEF ListenerTypes, JobsBecome
<1>2. ASSUME NEW c \in Conns
      PROVE  Holders(c)' = Listings(c) + Savings(c)' + leaked'[c] + (IF ch = c THEN 1 ELSE 0)
                 + (OnJobs(c) - (IF from = c THEN 1 ELSE 0) + (IF to = c THEN 1 ELSE 0))
  <2> DEFINE n == OnJobs(c) - (IF from = c THEN 1 ELSE 0) + (IF to = c THEN 1 ELSE 0)
             o == IF ch = c THEN 1 ELSE 0
  <2>1. OnJobs(c)' = n
    BY DEF OnJobs, JobsBecome
  <2>2. Listings(c)' = Listings(c)
    BY DEF Listings, Entries
  <2>3. Holders(c)' = Listings(c)' + Savings(c)' + OnJobs(c)' + leaked'[c] + o
    BY DEF Holders, Listings, Savings, OnJobs, Entries
  <2>4. Listings(c) \in Nat /\ OnJobs(c) \in Nat /\ leaked'[c] \in Nat
    BY HoldersAre
  <2>5. Savings(c)' \in Nat
    <3>1. IsFiniteSet({k \in Clients : saved'[k] = c})
      BY ListenerAssumption, FS_Subset
    <3> QED
      BY <3>1, FS_CardinalityType DEF Savings, Entries
  <2>6. n \in Int /\ o \in Int
    BY <2>4
  <2> HIDE DEF n, o
  <2>7. Holders(c)' = Listings(c) + Savings(c)' + leaked'[c] + o + n
    BY <2>1, <2>2, <2>3, <2>4, <2>5, <2>6
  <2> QED
    BY <2>7 DEF n, o
<1> QED
  BY <1>1, <1>2

\* A job goes on, and nothing else changes.
LEMMA JobMoves ==
    ASSUME ListenerTypes, CountInv, FdInv, LoopInv, NEW j \in BagToSet(jobs),
           NEW i \in Job, i.conn = j.conn, Becomes(j, {i}),
           UNCHANGED <<life, refno_, fd_, listed, saved, leaked, accepter, ch, todo, main>>,
           i.pc = "reply" /\ i.clt # NoNonce => saved[i.clt] # 0, main # "done"
    PROVE  ListenerTypes' /\ CountInv' /\ FdInv' /\ LoopInv'
<1>1. JobsBecome({i}, j.conn, j.conn)
  BY JobBecomes
<1>2. ListenerTypes'
  BY <1>1, JobsStep, ZenonT(40) DEF ListenerTypes
<1>3. \A c \in Conns : Holders(c)' = Holders(c)
  <2> TAKE c \in Conns
  <2>1. OnJobs(c)' = OnJobs(c) - (IF j.conn = c THEN 1 ELSE 0) + (IF j.conn = c THEN 1 ELSE 0)
    BY <1>1 DEF OnJobs, JobsBecome
  <2>2. OnJobs(c)' = OnJobs(c)
    BY <2>1, HoldersAre
  <2> QED
    BY <2>2 DEF Holders, OnJobs
<1>4. \A k \in BagToSet(jobs') : k.pc = "reply" /\ k.clt # NoNonce => saved'[k.clt] # 0
  BY <1>1 DEF JobsBecome, CountInv
<1>5. CountInv'
  BY <1>3, <1>4 DEF CountInv
<1>6. FdInv'
  BY DEF FdInv
<1>7. LoopInv'
  BY LoopKept
<1> QED
  BY <1>2, <1>5, <1>6, <1>7

\* A step of a job that changes counts.
LEMMA JobRefs ==
    ASSUME ListenerTypes, CountInv, FdInv, LoopInv, main # "done",
           NEW new \in SUBSET Job, NEW from, NEW to, JobsBecome(new, from, to),
           NEW refs \in [Conns -> Nat], Refs(refs),
           UNCHANGED <<listed, leaked, accepter, ch, todo, main>>,
           saved' \in [Clients -> Conns \cup {0}],
           \A c \in Conns : refs[c] = Holders(c)',
           \A c \in Conns : refno_[c] = 0 => refs[c] = 0,
           \A i \in BagToSet(jobs') : i.pc = "reply" /\ i.clt # NoNonce => saved'[i.clt] # 0
    PROVE  ListenerTypes' /\ CountInv' /\ FdInv' /\ LoopInv'
<1>1. /\ life' \in [Conns -> {"none", "live", "dead", "deleted"}]
      /\ refno_' \in [Conns -> Nat] /\ fd_' \in [Conns -> Fds \cup {0}]
  BY DEF Refs, ListenerTypes
<1>2. leaked' \in [Conns -> Nat]
  BY DEF ListenerTypes
<1>3. ListenerTypes'
  BY <1>1, <1>2, JobsStep
<1>4. ASSUME NEW c \in Conns, ch = c \/ \E f \in Fds : listed[f] = c PROVE refs[c] > 0
  <2>1. /\ Listings(c) \in Nat /\ leaked[c] \in Nat
        /\ \A f \in Fds : listed[f] = c => Listings(c) > 0
    BY HoldersAre
  <2>2. /\ Holders(c)' = Listings(c)' + Savings(c)' + OnJobs(c)' + leaked'[c] + (IF ch = c THEN 1 ELSE 0)
        /\ Listings(c)' = Listings(c)
    BY DEF Holders, Listings, Savings, OnJobs, Entries
  <2>3. Savings(c)' \in Nat /\ OnJobs(c)' \in Nat
    <3>1. IsFiniteSet({k \in Clients : saved'[k] = c})
      BY ListenerAssumption, FS_Subset
    <3>2. IsFiniteSet(JobsOn(jobs', c))
      BY DEF JobsBecome
    <3> QED
      BY <3>1, <3>2, FS_CardinalityType DEF Savings, OnJobs, Entries
  <2> QED
    BY <1>4, <2>1, <2>2, <2>3
<1>5. \A c \in Conns : life[c] = "live" => ch = c \/ \E f \in Fds : listed'[f] = c
  BY DEF CountInv
<1>6. /\ CountInv' /\ FdInv'
      /\ \A c \in Conns : refs[c] > 0 => life'[c] = life[c]
  BY <1>4, <1>5, RefsStep
<1>7. LoopInv'
  BY <1>4, <1>6, LoopKept
<1> QED
  BY <1>3, <1>6, <1>7

Good == ListenerTypes /\ CountInv /\ FdInv /\ LoopInv

\* While a job runs the server is not yet destroyed, and its connection is there.
LEMMA JobRuns ==
    ASSUME Good, NEW j \in BagToSet(jobs)
    PROVE  /\ j \in Job /\ j.conn \in Conns /\ main # "done"
           /\ refno_[j.conn] > 0 /\ OnJobs(j.conn) > 0
           /\ \A c \in Conns : refno_[c] \in Nat
<1>1. j \in Job /\ j.conn \in Conns
  BY DEF Good, ListenerTypes, Job
<1>2. main # "done"
  BY DEF Good, LoopInv, EmptyBag, SetToBag, BagToSet
<1>3. refno_[j.conn] > 0
  BY <1>1, HeldIsOpen DEF Good
<1>4. OnJobs(j.conn) > 0
  BY <1>1, HoldersAre DEF Good
<1> QED
  BY <1>1, <1>2, <1>3, <1>4 DEF Good, ListenerTypes

LEMMA UnrefNext == ASSUME Good, NEW j \in BagToSet(jobs), Unref(j) PROVE Good'
<1> DEFINE refs == [refno_ EXCEPT ![j.conn] = @ - 1]
<1>0. ListenerTypes /\ CountInv /\ FdInv /\ LoopInv
  BY DEF Good
<1>1. JobsBecome({}, j.conn, 0)
  BY <1>0, JobEnds DEF Unref
<1>2. /\ j.conn \in Conns /\ main # "done" /\ refno_[j.conn] > 0
      /\ \A c \in Conns : refno_[c] \in Nat
  BY JobRuns
<1>3. refs \in [Conns -> Nat] /\ Refs(refs)
  BY <1>0, <1>2 DEF Unref, ListenerTypes
<1>4. ASSUME NEW c \in Conns PROVE refs[c] = Holders(c)'
  <2>1. /\ Listings(c) \in Nat /\ Savings(c) \in Nat /\ OnJobs(c) \in Nat /\ leaked[c] \in Nat
        /\ refno_[c] = Listings(c) + Savings(c) + OnJobs(c) + leaked[c] + (IF ch = c THEN 1 ELSE 0)
    BY <1>0, HoldersAre DEF CountInv
  <2>2. OnJobs(c)' = OnJobs(c) - (IF j.conn = c THEN 1 ELSE 0)
    BY <1>1, <2>1, NoConn DEF JobsBecome, OnJobs
  <2>3. Holders(c)' = Listings(c) + Savings(c) + OnJobs(c)' + leaked[c] + (IF ch = c THEN 1 ELSE 0)
    BY DEF Unref, Holders, Listings, Savings, OnJobs, Entries
  <2>4. refs[c] = refno_[c] - (IF j.conn = c THEN 1 ELSE 0)
    BY <1>0, <1>2 DEF ListenerTypes
  <2> HIDE DEF refs
  <2> DEFINE d == IF j.conn = c THEN 1 ELSE 0
             h == IF ch = c THEN 1 ELSE 0
  <2>5. /\ d \in Int /\ h \in Int
        /\ refno_[c] = Listings(c) + Savings(c) + OnJobs(c) + leaked[c] + h
        /\ Holders(c)' = Listings(c) + Savings(c) + OnJobs(c)' + leaked[c] + h
        /\ OnJobs(c)' = OnJobs(c) - d /\ refs[c] = refno_[c] - d
    BY <2>1, <2>2, <2>3, <2>4
  <2> HIDE DEF d, h
  <2> QED
    BY <2>1, <2>5
<1>5. \A c \in Conns : refno_[c] = 0 => refs[c] = 0
  BY <1>0, <1>2 DEF ListenerTypes
<1>6. \A i \in BagToSet(jobs') : i.pc = "reply" /\ i.clt # NoNonce => saved'[i.clt] # 0
  BY <1>0, <1>1 DEF JobsBecome, CountInv, Unref
<1>7. /\ saved' \in [Clients -> Conns \cup {0}]
      /\ UNCHANGED <<listed, leaked, accepter, ch, todo, main>>
  BY <1>0 DEF Unref, ListenerTypes
<1> HIDE DEF refs
<1> QED
  BY <1>0, <1>1, <1>2, <1>3, <1>4, <1>5, <1>6, <1>7, JobRefs DEF Good

LEMMA SaveNext == ASSUME Good, NEW j \in BagToSet(jobs), Save(j) PROVE Good'
<1> DEFINE c   == j.conn
           k   == j.clt
           old == saved[k]
           i   == [j EXCEPT !.pc = "reply"]
           refs == [d \in Conns |-> IF d = old THEN refno_[d] - 1
                                    ELSE IF d = c THEN refno_[d] + 1 ELSE refno_[d]]
<1>0. ListenerTypes /\ CountInv /\ FdInv /\ LoopInv
  BY DEF Good
<1>1. /\ j \in Job /\ c \in Conns /\ main # "done" /\ refno_[c] > 0
      /\ \A d \in Conns : refno_[d] \in Nat
  BY JobRuns
<1>2. k \in Clients
  BY <1>1, Zenon DEF Save, Job
<1>3. i \in Job /\ i.conn = c /\ i.clt = k /\ Becomes(j, {i})
  BY <1>1 DEF Save, Goto, Job
<1>4. /\ saved' = [saved EXCEPT ![k] = c] /\ saved' \in [Clients -> Conns \cup {0}]
      /\ saved'[k] # 0
      /\ UNCHANGED <<listed, leaked, accepter, ch, todo, main>>
  BY <1>0, <1>1, <1>2, NoConn DEF Save, ListenerTypes
<1>5. CASE old = c
  <2>1. UNCHANGED <<life, refno_, fd_, saved>>
    BY <1>0, <1>2, <1>4, <1>5 DEF Save, ListenerTypes
  <2>2. saved[i.clt] # 0
    BY <1>1, <1>3, <1>5, NoConn
  <2> QED
    BY <1>0, <1>1, <1>3, <1>4, <2>1, <2>2, JobMoves, Zenon DEF Good
<1>6. CASE old # c
  <2>1. JobsBecome({i}, c, c)
    BY <1>0, <1>3, JobBecomes, Zenon
  <2>2. Refs(refs)
    BY <1>6 DEF Save
  <2>3. \A d \in Conns : d = old => refno_[d] > 0
    BY <1>0, <1>2, HeldIsOpen
  <2>4. refs \in [Conns -> Nat]
    <3>1. ASSUME NEW d \in Conns PROVE refs[d] \in Nat
      BY <1>1, <2>3
    <3> QED
      BY <3>1
  <2>5. ASSUME NEW d \in Conns PROVE refs[d] = Holders(d)'
    <3>1. /\ Listings(d) \in Nat /\ Savings(d) \in Nat /\ OnJobs(d) \in Nat /\ leaked[d] \in Nat
          /\ refno_[d] = Listings(d) + Savings(d) + OnJobs(d) + leaked[d] + (IF ch = d THEN 1 ELSE 0)
      BY <1>0, HoldersAre DEF CountInv
    <3>2. OnJobs(d)' = OnJobs(d) - (IF c = d THEN 1 ELSE 0) + (IF c = d THEN 1 ELSE 0)
      BY <2>1 DEF JobsBecome, OnJobs
    <3>3. Savings(d)' = Savings(d) - (IF old = d THEN 1 ELSE 0) + (IF c = d THEN 1 ELSE 0)
      BY <1>0, <1>2, <1>4, SavingsNext, Zenon
    <3>4. Holders(d)' = Listings(d) + Savings(d)' + OnJobs(d)' + leaked[d] + (IF ch = d THEN 1 ELSE 0)
      BY <1>4 DEF Holders, Listings, Savings, OnJobs, Entries
    <3>5. refs[d] = refno_[d] - (IF old = d THEN 1 ELSE 0) + (IF c = d THEN 1 ELSE 0)
      BY <1>1, <1>6
    <3> HIDE DEF refs, old, c
    <3> QED
      BY <3>1, <3>2, <3>3, <3>4, <3>5
  <2>6. \A d \in Conns : refno_[d] = 0 => refs[d] = 0
    BY <1>1, <2>3
  <2>7. \A g \in BagToSet(jobs') : g.pc = "reply" /\ g.clt # NoNonce => saved'[g.clt] # 0
    <3> TAKE g \in BagToSet(jobs')
    <3>1. CASE g = i
      BY <1>3, <1>4, <3>1
    <3>2. CASE g \in BagToSet(jobs)
      <4>1. g \in Job
        BY <1>0, <3>2 DEF ListenerTypes
      <4>2. g.clt \in Clients \/ g.clt = NoNonce
        BY <4>1 DEF Job
      <4> QED
        BY <1>0, <1>1, <1>4, <3>2, <4>2, NoConn DEF CountInv, ListenerTypes
    <3> QED
      BY <2>1, <3>1, <3>2 DEF JobsBecome
  <2> HIDE DEF refs, i
  <2>8. {i} \in SUBSET Job
    BY <1>3
  <2> QED
    BY <1>0, <1>1, <1>4, <2>1, <2>2, <2>4, <2>5, <2>6, <2>7, <2>8, JobRefs DEF Good
<1> QED
  BY <1>5, <1>6

LEMMA ReplyNewNext == ASSUME Good, NEW j \in BagToSet(jobs), ReplyNew(j), ~crashed' PROVE Good'
<1> DEFINE c == j.conn
           k == j.clt
           new == saved[k]
<1>0. ListenerTypes /\ CountInv /\ FdInv /\ LoopInv
  BY DEF Good
<1>1. /\ j \in Job /\ c \in Conns /\ main # "done" /\ refno_[c] > 0 /\ OnJobs(c) > 0
      /\ \A d \in Conns : refno_[d] \in Nat
  BY JobRuns
<1>2. UNCHANGED <<listed, saved, leaked, accepter, ch, todo, main>>
  BY DEF ReplyNew
<1>3. CASE Goto(j, "send") /\ UNCHANGED <<refno_, life, fd_>>
  <2> DEFINE i == [j EXCEPT !.pc = "send"]
  <2>1. i \in Job /\ i.conn = c /\ i.pc = "send" /\ Becomes(j, {i})
    BY <1>1, <1>3 DEF Goto, Job
  <2> HIDE DEF i
  <2> QED
    BY <1>0, <1>1, <1>2, <1>3, <2>1, JobMoves DEF Good
<1>4. CASE /\ k # NoNonce /\ ~(k # NoNonce /\ new = c)
           /\ Becomes(j, {[j EXCEPT !.pc = "send", !.conn = new]})
           /\ Refs([d \in Conns |-> IF d = c THEN refno_[d] - 1
                                    ELSE IF d = new THEN refno_[d] + 1 ELSE refno_[d]])
  <2> DEFINE i    == [j EXCEPT !.pc = "send", !.conn = new]
             refs == [d \in Conns |-> IF d = c THEN refno_[d] - 1
                                      ELSE IF d = new THEN refno_[d] + 1 ELSE refno_[d]]
  <2>1. k \in Clients /\ j.pc = "reply"
    BY <1>1, <1>4 DEF Job, ReplyNew
  <2>2. new \in Conns /\ new # c
    BY <1>0, <1>4, <2>1 DEF CountInv, ListenerTypes
  <2>3. i \in Job /\ i.conn = new /\ i.pc = "send"
    BY <1>1, <2>2, Zenon DEF Job
  <2>4. refno_[new] > 0
    BY <1>0, <2>1, <2>2, HeldIsOpen
  <2>5. JobsBecome({i}, c, new)
    BY <1>0, <1>4, <2>3, JobBecomes, ZenonT(40)
  <2>6. refs \in [Conns -> Nat] /\ Refs(refs)
    <3>1. ASSUME NEW d \in Conns PROVE refs[d] \in Nat
      BY <1>1
    <3> QED
      BY <1>4, <3>1
  <2>7. ASSUME NEW d \in Conns PROVE refs[d] = Holders(d)'
    <3>1. /\ Listings(d) \in Nat /\ Savings(d) \in Nat /\ OnJobs(d) \in Nat /\ leaked[d] \in Nat
          /\ refno_[d] = Listings(d) + Savings(d) + OnJobs(d) + leaked[d] + (IF ch = d THEN 1 ELSE 0)
      BY <1>0, HoldersAre DEF CountInv
    <3>2. OnJobs(d)' = OnJobs(d) - (IF c = d THEN 1 ELSE 0) + (IF new = d THEN 1 ELSE 0)
      BY <2>5 DEF JobsBecome, OnJobs
    <3>3. Holders(d)' = Listings(d) + Savings(d) + OnJobs(d)' + leaked[d] + (IF ch = d THEN 1 ELSE 0)
      BY <1>2 DEF Holders, Listings, Savings, OnJobs, Entries
    <3>4. refs[d] = refno_[d] - (IF c = d THEN 1 ELSE 0) + (IF new = d THEN 1 ELSE 0)
      BY <1>1, <2>2
    <3> HIDE DEF refs, new, c
    <3> QED
      BY <3>1, <3>2, <3>3, <3>4
  <2>8. \A d \in Conns : refno_[d] = 0 => refs[d] = 0
    BY <1>1, <2>4
  <2>9. \A g \in BagToSet(jobs') : g.pc = "reply" /\ g.clt # NoNonce => saved'[g.clt] # 0
    BY <1>0, <1>2, <2>3, <2>5, Zenon DEF JobsBecome, CountInv
  <2>10. {i} \in SUBSET Job /\ saved' \in [Clients -> Conns \cup {0}]
    BY <1>0, <1>2, <2>3 DEF ListenerTypes
  <2> HIDE DEF refs, i
  <2> QED
    BY <1>0, <1>1, <1>2, <2>5, <2>6, <2>7, <2>8, <2>9, <2>10, JobRefs DEF Good
<1> QED
  BY <1>3, <1>4 DEF ReplyNew, Crash

LEMMA OldSentNext == ASSUME Good, NEW j \in BagToSet(jobs), OldSent(j) PROVE Good'
<1>0. ListenerTypes /\ CountInv /\ FdInv /\ LoopInv
  BY DEF Good
<1>1. JobsBecome({}, j.conn, 0)
  BY <1>0, JobEnds DEF OldSent
<1>2. j.conn \in Conns /\ main # "done"
  BY JobRuns
<1>3. /\ UNCHANGED <<life, refno_, fd_, listed, saved, accepter, ch, todo, main>>
      /\ leaked' = [leaked EXCEPT ![j.conn] = @ + 1] /\ leaked' \in [Conns -> Nat]
  BY <1>0, <1>2 DEF OldSent, ListenerTypes
<1>4. ListenerTypes'
  BY <1>0, <1>1, <1>3, JobsStep, ZenonT(40) DEF ListenerTypes
<1>5. ASSUME NEW c \in Conns PROVE Holders(c)' = Holders(c)
  <2>1. /\ Listings(c) \in Nat /\ Savings(c) \in Nat /\ OnJobs(c) \in Nat /\ leaked[c] \in Nat
        /\ Holders(c) = Listings(c) + Savings(c) + OnJobs(c) + leaked[c] + (IF ch = c THEN 1 ELSE 0)
    BY <1>0, HoldersAre
  <2>2. OnJobs(c)' = OnJobs(c) - (IF j.conn = c THEN 1 ELSE 0)
    BY <1>1, <2>1, NoConn DEF JobsBecome, OnJobs
  <2>3. leaked'[c] = leaked[c] + (IF j.conn = c THEN 1 ELSE 0)
    BY <1>0, <1>2, <1>3, <2>1 DEF ListenerTypes
  <2>4. Holders(c)' = Listings(c) + Savings(c) + OnJobs(c)' + leaked'[c] + (IF ch = c THEN 1 ELSE 0)
    BY <1>3 DEF Holders, Listings, Savings, OnJobs, Entries
  <2> DEFINE d == IF j.conn = c THEN 1 ELSE 0
             h == IF ch = c THEN 1 ELSE 0
  <2>5. /\ d \in Int /\ h \in Int
        /\ Holders(c) = Listings(c) + Savings(c) + OnJobs(c) + leaked[c] + h
        /\ Holders(c)' = Listings(c) + Savings(c) + OnJobs(c)' + leaked'[c] + h
        /\ OnJobs(c)' = OnJobs(c) - d /\ leaked'[c] = leaked[c] + d
    BY <2>1, <2>2, <2>3, <2>4
  <2> HIDE DEF d, h
  <2> QED
    BY <2>1, <2>5
<1>6. \A i \in BagToSet(jobs') : i.pc = "reply" /\ i.clt # NoNonce => saved'[i.clt] # 0
  BY <1>0, <1>1, <1>3, ZenonT(40) DEF JobsBecome, CountInv
<1>7. CountInv' /\ FdInv'
  <2>1. CountInv'
    BY <1>0, <1>3, <1>5, <1>6, ZenonT(40) DEF CountInv
  <2>2. FdInv'
    BY <1>0, <1>3, ZenonT(40) DEF FdInv
  <2> QED
    BY <2>1, <2>2
<1>8. LoopInv'
  BY <1>0, <1>2, <1>3, LoopKept
<1> QED
  BY <1>4, <1>7, <1>8 DEF Good

LEMMA DispatchNext ==
    ASSUME Good, NEW j \in BagToSet(jobs), dispatch(j), ~crashed'
    PROVE  Good'
<1>0. ListenerTypes /\ CountInv /\ FdInv /\ LoopInv /\ j \in Job /\ main # "done"
  BY JobRuns DEF Good
<1>1. CASE OldInstance(j) \/ WithoutNonce(j) \/ ReplyOld(j)
  <2>1. PICK next \in {"old", "reply", "send"} :
           Goto(j, next) /\ (next = "reply" => j.clt = NoNonce)
    BY <1>1 DEF OldInstance, WithoutNonce, ReplyOld
  <2> DEFINE i == [j EXCEPT !.pc = next]
  <2>2. i \in Job /\ i.conn = j.conn /\ i.clt = j.clt /\ i.pc = next /\ Becomes(j, {i})
    BY <1>0, <2>1 DEF Goto, Job
  <2>3. UNCHANGED <<life, refno_, fd_, listed, saved, leaked, accepter, ch, todo, main>>
    BY <1>1 DEF OldInstance, WithoutNonce, ReplyOld
  <2> HIDE DEF i
  <2> QED
    BY <1>0, <2>1, <2>2, <2>3, JobMoves DEF Good
<1>2. CASE OldSent(j)
  BY <1>2, OldSentNext
<1>3. CASE Unregistered(j) \/ InProgress(j) \/ Sent(j)
  BY <1>3, UnrefNext DEF Unregistered, InProgress, Sent
<1>4. CASE Save(j)
  BY <1>4, SaveNext
<1>5. CASE ReplyNew(j)
  BY <1>5, ReplyNewNext
<1> QED
  BY <1>1, <1>2, <1>3, <1>4, <1>5 DEF dispatch

\* A connection that works is held by the listener, so that after ~tcpsconn there
\* is none.
LEMMA LiveIsListed ==
    ASSUME Good, NEW c \in Conns, life[c] = "live"
    PROVE  main \notin {"pool", "done"}
BY NoConn DEF Good, CountInv, LoopInv

LEMMA GotPduNext ==
    ASSUME Good, NEW c \in Conns, NEW k \in Clients \cup {NoNonce}, got_pdu(c, k)
    PROVE  Good'
<1> DEFINE i    == [pc |-> "start", conn |-> c, clt |-> k]
           refs == [refno_ EXCEPT ![c] = @ + 1]
<1>0. ListenerTypes /\ CountInv /\ FdInv /\ LoopInv
  BY DEF Good
<1>1. i \in Job /\ i.conn = c /\ i.pc = "start"
  BY DEF Job
<1>2. jobs' = jobs (+) SetToBag({i}) /\ Refs(refs) /\ life[c] = "live"
      /\ UNCHANGED <<listed, saved, leaked, accepter, ch, todo, main>>
  BY DEF got_pdu
<1> HIDE DEF i
<1>3. JobsBecome({i}, 0, c)
  BY <1>0, <1>1, <1>2, JobStarts
<1>4. main # "done"
  BY <1>2, LiveIsListed
<1>5. refs \in [Conns -> Nat]
  BY <1>0 DEF ListenerTypes
<1>6. ASSUME NEW d \in Conns PROVE refs[d] = Holders(d)'
  <2>1. /\ Listings(d) \in Nat /\ Savings(d) \in Nat /\ OnJobs(d) \in Nat /\ leaked[d] \in Nat
        /\ refno_[d] = Listings(d) + Savings(d) + OnJobs(d) + leaked[d] + (IF ch = d THEN 1 ELSE 0)
    BY <1>0, HoldersAre DEF CountInv
  <2>2. OnJobs(d)' = OnJobs(d) + (IF c = d THEN 1 ELSE 0)
    BY <1>3, <2>1, NoConn DEF JobsBecome, OnJobs
  <2>3. Holders(d)' = Listings(d) + Savings(d) + OnJobs(d)' + leaked[d] + (IF ch = d THEN 1 ELSE 0)
    BY <1>2, Zenon DEF Holders, Listings, Savings, OnJobs, Entries
  <2>4. refs[d] = refno_[d] + (IF c = d THEN 1 ELSE 0)
    BY <1>0, <2>1 DEF ListenerTypes
  <2> HIDE DEF refs
  <2> QED
    BY <2>1, <2>2, <2>3, <2>4
<1>7. \A d \in Conns : refno_[d] = 0 => refs[d] = 0
  BY <1>0, <1>2 DEF ListenerTypes, CountInv
<1>8. \A g \in BagToSet(jobs') : g.pc = "reply" /\ g.clt # NoNonce => saved'[g.clt] # 0
  BY <1>0, <1>1, <1>2, <1>3, Zenon DEF JobsBecome, CountInv
<1>9. {i} \in SUBSET Job /\ saved' \in [Clients -> Conns \cup {0}]
  BY <1>0, <1>1, <1>2 DEF ListenerTypes
<1> HIDE DEF refs
<1> QED
  BY <1>0, <1>2, <1>3, <1>4, <1>5, <1>6, <1>7, <1>8, <1>9, JobRefs, Zenon DEF Good

--------------------------------------------------------------------------------
(* The accept thread                                                            *)

LEMMA AcceptNext == ASSUME Good, Accept PROVE Good'
<1> DEFINE closed == Fds \ {fd_[d] : d \in Conns}
           f      == Least(closed)
<1>0. ListenerTypes /\ CountInv /\ FdInv /\ LoopInv
  BY DEF Good
<1>1. PICK c \in Conns :
        /\ accepter = "select" /\ closed # {} /\ life[c] = "none"
        /\ life' = [life EXCEPT ![c] = "live"] /\ refno_' = [refno_ EXCEPT ![c] = 1]
        /\ fd_' = [fd_ EXCEPT ![c] = f] /\ ch' = c
        /\ todo' = {g \in Fds : listed[g] # 0} /\ accepter' = "gc"
        /\ UNCHANGED <<listed, saved, jobs, leaked, main, pipe, crashed, stuck>>
  BY ZenonT(40) DEF Accept
<1>2. f \in Fds /\ \A d \in Conns : fd_[d] # f
  BY <1>1, LeastIsIn
<1> HIDE DEF f, closed
<1>3. ch = 0 /\ main \in {"running", "join"}
  BY <1>0, <1>1 DEF LoopInv, ListenerTypes
<1>4. /\ \A d \in Conns : life'[d] = IF d = c THEN "live" ELSE life[d]
      /\ \A d \in Conns : refno_'[d] = IF d = c THEN 1 ELSE refno_[d]
      /\ \A d \in Conns : fd_'[d] = IF d = c THEN f ELSE fd_[d]
  BY <1>0, <1>1 DEF ListenerTypes
<1>5. ListenerTypes'
  BY <1>0, <1>1, <1>2 DEF ListenerTypes
<1>6. ASSUME NEW d \in Conns PROVE refno_'[d] = Holders(d)'
  <2>1. /\ Listings(d) \in Nat /\ Savings(d) \in Nat /\ OnJobs(d) \in Nat /\ leaked[d] \in Nat
        /\ refno_[d] = Listings(d) + Savings(d) + OnJobs(d) + leaked[d] + (IF ch = d THEN 1 ELSE 0)
    BY <1>0, HoldersAre, Zenon DEF CountInv
  <2>2. Holders(d)' = Listings(d) + Savings(d) + OnJobs(d) + leaked[d] + (IF c = d THEN 1 ELSE 0)
    BY <1>1, Zenon DEF Holders, Listings, Savings, OnJobs, Entries
  <2>3. refno_[c] = 0 /\ ch # d
    BY <1>0, <1>1, <1>3, NoConn, ZenonT(40) DEF CountInv
  <2>4. CASE d = c
    <3> DEFINE others == Listings(d) + Savings(d) + OnJobs(d) + leaked[d]
    <3>1. others \in Int
      BY <2>1
    <3>2. refno_[d] = others + 0 /\ Holders(d)' = others + 1
      BY <2>1, <2>2, <2>3, <2>4
    <3> HIDE DEF others
    <3> QED
      BY <1>4, <2>3, <2>4, <3>1, <3>2
  <2>5. CASE d # c
    <3>1. refno_[d] = Listings(d) + Savings(d) + OnJobs(d) + leaked[d] + 0
      BY <2>1, <2>3
    <3>2. Holders(d)' = Listings(d) + Savings(d) + OnJobs(d) + leaked[d] + 0
      BY <2>2, <2>5
    <3> QED
      BY <1>4, <2>5, <3>1, <3>2
  <2> QED
    BY <2>4, <2>5
<1>7. \A g \in Fds : listed[g] # c
  BY <1>0, <1>1, HeldIsOpen
<1>8. CountInv'
  <2>1. \A d \in Conns : life'[d] \in {"none", "deleted"} <=> refno_'[d] = 0
    BY <1>0, <1>4 DEF CountInv
  <2>2. \A d \in Conns : life'[d] = "live" => ch' = d \/ \E g \in Fds : listed'[g] = d
    BY <1>0, <1>1, <1>3, <1>4, NoConn DEF CountInv
  <2>3. \A j \in BagToSet(jobs') : j.pc = "reply" /\ j.clt # NoNonce => saved'[j.clt] # 0
    BY <1>0, <1>1 DEF CountInv
  <2> QED
    BY <1>6, <2>1, <2>2, <2>3 DEF CountInv
<1>9. FdInv'
  <2>1. \A g \in Fds : listed'[g] # 0 => fd_'[listed'[g]] = g
    BY <1>0, <1>1, <1>4, <1>7 DEF FdInv, ListenerTypes
  <2>2. \A d \in Conns : life'[d] \in {"live", "dead"} => fd_'[d] \in Fds
    BY <1>0, <1>2, <1>4 DEF FdInv
  <2>3. \A d, e \in Conns :
           life'[d] \in {"live", "dead"} /\ life'[e] \in {"live", "dead"} /\ fd_'[d] = fd_'[e] => d = e
    BY <1>0, <1>2, <1>4 DEF FdInv
  <2> QED
    BY <1>1, <1>7, <2>1, <2>2, <2>3 DEF FdInv
<1>10. LoopInv'
  BY <1>1, <1>3, NoConn DEF LoopInv
<1> QED
  BY <1>5, <1>8, <1>9, <1>10 DEF Good

\* The holders of all connections, when only the listener's table changes.
LEMMA ListStep ==
    ASSUME ListenerTypes, NEW f \in Fds, NEW v \in Conns \cup {0}, listed' = [listed EXCEPT ![f] = v],
           UNCHANGED <<saved, jobs, leaked>>, NEW c \in Conns
    PROVE  Holders(c)' = Savings(c) + OnJobs(c) + leaked[c] + (IF ch' = c THEN 1 ELSE 0)
             + (Listings(c) - (IF listed[f] = c THEN 1 ELSE 0) + (IF v = c THEN 1 ELSE 0))
<1> DEFINE n == Listings(c) - (IF listed[f] = c THEN 1 ELSE 0) + (IF v = c THEN 1 ELSE 0)
           o == IF ch' = c THEN 1 ELSE 0
<1>1. Listings(c)' = n
  BY ListingsNext, ZenonT(40)
<1>2. Holders(c)' = Listings(c)' + Savings(c) + OnJobs(c) + leaked[c] + o
  BY DEF Holders, Listings, Savings, OnJobs, Entries
<1>3. Savings(c) \in Nat /\ OnJobs(c) \in Nat /\ leaked[c] \in Nat /\ n \in Int /\ o \in Int
  BY HoldersAre
<1> HIDE DEF n, o
<1>4. Holders(c)' = Savings(c) + OnJobs(c) + leaked[c] + o + n
  BY <1>1, <1>2, <1>3
<1> QED
  BY <1>4 DEF n, o

LEMMA GcIsDeadNext == ASSUME Good, GcIsDead PROVE Good'
<1>0. ListenerTypes /\ CountInv /\ FdInv /\ LoopInv
  BY DEF Good
<1>1. /\ accepter = "gc" /\ ch # 0 /\ ch \in Conns /\ main \in {"running", "join"}
      /\ UNCHANGED <<life, refno_, fd_, saved, jobs, leaked, main>>
  BY <1>0 DEF GcIsDead, LoopInv, ListenerTypes
<1>2. CASE /\ todo = {} /\ listed' = [listed EXCEPT ![fd_[ch]] = ch] /\ ch' = 0
           /\ accepter' = "select" /\ UNCHANGED todo
  <2>1. life[ch] \in {"live", "dead"}
    BY <1>0, <1>1, HeldIsOpen
  <2>2. fd_[ch] \in Fds /\ \A f \in Fds : listed[f] # ch
    BY <1>0, <1>1, <2>1 DEF FdInv
  <2>3. listed[fd_[ch]] = 0
    <3> SUFFICES ASSUME listed[fd_[ch]] # 0 PROVE FALSE
      OBVIOUS
    <3> DEFINE d == listed[fd_[ch]]
    <3>1. d \in Conns /\ fd_[d] = fd_[ch]
      BY <1>0, <2>2 DEF FdInv, ListenerTypes
    <3>2. life[d] \in {"live", "dead"}
      BY <1>0, <2>2, <3>1, HeldIsOpen
    <3> HIDE DEF d
    <3>3. d = ch
      BY <1>0, <1>1, <2>1, <3>1, <3>2 DEF FdInv
    <3> QED
      BY <2>2, <3>3 DEF d
  <2>4. \A f \in Fds : listed'[f] = IF f = fd_[ch] THEN ch ELSE listed[f]
    BY <1>0, <1>2 DEF ListenerTypes
  <2>5. ListenerTypes'
    BY <1>0, <1>1, <1>2, ZenonT(40) DEF ListenerTypes
  <2>6. ASSUME NEW c \in Conns PROVE refno_'[c] = Holders(c)'
    <3>1. /\ Listings(c) \in Nat /\ Savings(c) \in Nat /\ OnJobs(c) \in Nat /\ leaked[c] \in Nat
          /\ refno_[c] = Listings(c) + Savings(c) + OnJobs(c) + leaked[c] + (IF ch = c THEN 1 ELSE 0)
      BY <1>0, HoldersAre DEF CountInv
    <3>2. Holders(c)' = Savings(c) + OnJobs(c) + leaked[c] + (IF ch' = c THEN 1 ELSE 0)
             + (Listings(c) - (IF listed[fd_[ch]] = c THEN 1 ELSE 0) + (IF ch = c THEN 1 ELSE 0))
      BY <1>0, <1>1, <1>2, <2>2, ListStep, ZenonT(40)
    <3>3. c # 0
      BY NoConn
    <3> DEFINE h == IF ch = c THEN 1 ELSE 0
    <3>4. /\ h \in Int /\ refno_[c] = Listings(c) + Savings(c) + OnJobs(c) + leaked[c] + h
          /\ Holders(c)' = Savings(c) + OnJobs(c) + leaked[c] + 0 + (Listings(c) - 0 + h)
      BY <1>2, <2>3, <3>1, <3>2, <3>3
    <3>5. refno_'[c] = refno_[c]
      BY <1>1
    <3> HIDE DEF h
    <3> QED
      BY <3>1, <3>4, <3>5
  <2>7. CountInv'
    <3>1. \A c \in Conns : life'[c] = "live" => ch' = c \/ \E f \in Fds : listed'[f] = c
      BY <1>0, <1>1, <2>2, <2>3, <2>4, NoConn DEF CountInv
    <3> QED
      BY <1>0, <1>1, <2>6, <3>1, ZenonT(40) DEF CountInv
  <2>8. FdInv'
    BY <1>0, <1>1, <1>2, <2>4 DEF FdInv
  <2>9. LoopInv'
    BY <1>0, <1>1, <1>2 DEF LoopInv
  <2> QED
    BY <2>5, <2>7, <2>8, <2>9 DEF Good
<1>3. CASE todo # {} /\ UNCHANGED <<listed, ch>> /\
           \/ life[listed[Least(todo)]] = "dead" /\ accepter' = "ref" /\ UNCHANGED todo
           \/ accepter' = "gc" /\ todo' = todo \ {Least(todo)}
  <2>0. /\ UNCHANGED <<listed, ch>> /\ todo' \subseteq todo /\ accepter' \in {"gc", "ref"}
        /\ accepter' = "ref" => UNCHANGED todo /\ life[listed[Least(todo)]] = "dead"
    BY <1>3
  <2>1. ListenerTypes'
    BY <1>0, <1>1, <2>0 DEF ListenerTypes
  <2>2. \A c \in Conns : Holders(c)' = Holders(c)
    BY <1>1, <2>0 DEF Holders
  <2>3. CountInv' /\ FdInv'
    <3>1. CountInv'
      BY <1>0, <1>1, <2>0, <2>2 DEF CountInv
    <3>2. FdInv'
      BY <1>0, <1>1, <2>0 DEF FdInv
    <3> QED
      BY <3>1, <3>2, Zenon
  <2>4. LoopInv'
    BY <1>0, <1>1, <1>3, <2>0 DEF LoopInv
  <2> QED
    BY <2>1, <2>3, <2>4 DEF Good
<1> QED
  BY <1>2, <1>3 DEF GcIsDead

\* conns_ drops a dead connection and its reference.
LEMMA UnlistStep ==
    ASSUME Good, NEW f \in Fds, NEW c \in Conns, listed[f] = c, life[c] = "dead",
           Refs([refno_ EXCEPT ![c] = @ - 1]), listed' = [listed EXCEPT ![f] = 0],
           UNCHANGED <<saved, jobs, leaked, ch>>
    PROVE  /\ CountInv' /\ FdInv'
           /\ life' \in [Conns -> {"none", "live", "dead", "deleted"}]
           /\ refno_' \in [Conns -> Nat] /\ fd_' \in [Conns -> Fds \cup {0}]
           /\ \A d \in Conns : d # c => life'[d] = life[d]
           /\ \A g \in Fds : listed'[g] = IF g = f THEN 0 ELSE listed[g]
<1> DEFINE refs == [refno_ EXCEPT ![c] = @ - 1]
<1>0. ListenerTypes /\ CountInv /\ FdInv
  BY DEF Good
<1>1. refno_[c] > 0 /\ \A d \in Conns : refno_[d] \in Nat
  BY <1>0, HeldIsOpen DEF ListenerTypes
<1>2. \A d \in Conns : refs[d] = refno_[d] - (IF d = c THEN 1 ELSE 0)
  BY <1>0, <1>1 DEF ListenerTypes
<1>3. refs \in [Conns -> Nat]
  BY <1>0, <1>1 DEF ListenerTypes
<1>4. \A g \in Fds : listed'[g] = IF g = f THEN 0 ELSE listed[g]
  BY <1>0 DEF ListenerTypes
<1>5. \A g \in Fds : listed[g] = c => g = f
  BY <1>0, NoConn DEF FdInv
<1> HIDE DEF refs
<1>6. ASSUME NEW d \in Conns PROVE refs[d] = Holders(d)'
  <2>1. /\ Listings(d) \in Nat /\ Savings(d) \in Nat /\ OnJobs(d) \in Nat /\ leaked[d] \in Nat
        /\ refno_[d] = Listings(d) + Savings(d) + OnJobs(d) + leaked[d] + (IF ch = d THEN 1 ELSE 0)
    BY <1>0, HoldersAre, Zenon DEF CountInv
  <2>2. Listings(d)' = Listings(d) - (IF listed[f] = d THEN 1 ELSE 0) + (IF 0 = d THEN 1 ELSE 0)
    <3>1. listed'[f] = 0 /\ \A g \in Fds \ {f} : listed'[g] = listed[g]
      BY <1>4
    <3> QED
      BY <3>1, ListingsDiffer
  <2>3. Listings(d)' = Listings(d) - (IF d = c THEN 1 ELSE 0)
    BY <2>1, <2>2, NoConn
  <2>4. Holders(d)' = Listings(d)' + Savings(d) + OnJobs(d) + leaked[d] + (IF ch = d THEN 1 ELSE 0)
    BY DEF Holders, Listings, Savings, OnJobs, Entries
  <2> QED
    BY <1>2, <2>1, <2>3, <2>4
<1>7. ASSUME NEW d \in Conns, ch = d \/ \E g \in Fds : listed'[g] = d PROVE d # c /\ refs[d] > 0
  <2>1. d # c
    BY <1>0, <1>4, <1>5, <1>7, NoConn DEF FdInv
  <2>2. refno_[d] > 0
    BY <1>0, <1>4, <1>7, NoConn, HeldIsOpen
  <2> QED
    BY <1>1, <1>2, <2>1, <2>2
<1>8. \A d \in Conns : life[d] = "live" => ch = d \/ \E g \in Fds : listed'[g] = d
  BY <1>0, <1>4 DEF CountInv
<1>9. \A d \in Conns : refno_[d] = 0 => refs[d] = 0
  BY <1>1, <1>2
<1>10. \A j \in BagToSet(jobs') : j.pc = "reply" /\ j.clt # NoNonce => saved'[j.clt] # 0
  BY <1>0 DEF CountInv
<1>11. Refs(refs)
  BY DEF refs
<1>12. \A g \in Fds : listed'[g] \in {listed[g], 0}
  BY <1>4
<1>13. /\ CountInv' /\ FdInv'
       /\ life' \in [Conns -> {"none", "live", "dead", "deleted"}]
       /\ refno_' \in [Conns -> Nat] /\ fd_' \in [Conns -> Fds \cup {0}]
  BY <1>0, <1>3, <1>6, <1>7, <1>8, <1>9, <1>10, <1>11, <1>12, RefsStep, Zenon
<1>14. ASSUME NEW d \in Conns, d # c PROVE life'[d] = life[d]
  <2>1. refs[d] = refno_[d]
    BY <1>1, <1>2, <1>14
  <2> QED
    BY <1>1, <1>11, <2>1 DEF Refs
<1> QED
  BY <1>4, <1>13, <1>14

LEMMA GcRefNext == ASSUME Good, GcRef, ~crashed' PROVE Good'
<1> DEFINE f == Least(todo)
           c == listed[f]
<1>0. ListenerTypes /\ CountInv /\ FdInv /\ LoopInv
  BY DEF Good
<1>1. /\ accepter = "ref" /\ accepter' = "gc"
      /\ \/ todo' = todo \ {f} /\ UNCHANGED <<refno_, life, fd_, listed, jobs>>
         \/ /\ refno_[c] = 1 /\ Refs([refno_ EXCEPT ![c] = 0])
            /\ listed' = [listed EXCEPT ![f] = 0]
            /\ todo' \in SUBSET (todo \ {f}) /\ UNCHANGED jobs
      /\ UNCHANGED <<saved, leaked, ch, main>>
  BY DEF GcRef, Crash
<1>2. todo \in SUBSET Fds /\ todo # {} /\ life[c] = "dead" /\ main \in {"running", "join"} /\ ch # 0
  BY <1>0, <1>1 DEF LoopInv, ListenerTypes
<1>3. f \in todo /\ f \in Fds
  BY <1>2, LeastIsIn
<1>4. c \in Conns
  BY <1>0, <1>1, <1>3 DEF LoopInv, ListenerTypes
<1> HIDE DEF f
<1>5. CASE todo' = todo \ {f} /\ UNCHANGED <<refno_, life, fd_, listed, jobs>>
  <2>1. ListenerTypes'
    BY <1>0, <1>1, <1>2, <1>5 DEF ListenerTypes
  <2>2. \A d \in Conns : Holders(d)' = Holders(d)
    BY <1>1, <1>5 DEF Holders
  <2>3. CountInv' /\ FdInv'
    BY <1>0, <1>1, <1>5, <2>2 DEF CountInv, FdInv
  <2>4. LoopInv'
    BY <1>0, <1>1, <1>2, <1>5 DEF LoopInv
  <2> QED
    BY <2>1, <2>3, <2>4 DEF Good
<1>6. CASE /\ refno_[c] = 1 /\ Refs([refno_ EXCEPT ![c] = 0])
           /\ listed' = [listed EXCEPT ![f] = 0]
           /\ todo' \in SUBSET (todo \ {f}) /\ UNCHANGED jobs
  <2> HIDE DEF c
  <2>1. listed[f] = c
    BY DEF c
  <2>2. [refno_ EXCEPT ![c] = 0] = [refno_ EXCEPT ![c] = @ - 1]
    BY <1>0, <1>4, <1>6 DEF ListenerTypes
  <2>3. Refs([refno_ EXCEPT ![c] = @ - 1])
    BY <1>6, <2>2
  <2>4. /\ CountInv' /\ FdInv'
        /\ life' \in [Conns -> {"none", "live", "dead", "deleted"}]
        /\ refno_' \in [Conns -> Nat] /\ fd_' \in [Conns -> Fds \cup {0}]
        /\ \A g \in Fds : listed'[g] = IF g = f THEN 0 ELSE listed[g]
    BY <1>1, <1>2, <1>3, <1>4, <1>6, <2>1, <2>3, UnlistStep, Zenon
  <2>5. ListenerTypes'
    BY <1>0, <1>1, <1>2, <1>6, <2>4, ZenonT(40) DEF ListenerTypes
  <2>6. \A g \in todo' : listed'[g] # 0
    BY <1>0, <1>1, <1>2, <1>6, <2>4 DEF LoopInv
  <2>7. LoopInv'
    BY <1>1, <1>2, <2>6 DEF LoopInv
  <2> QED
    BY <2>4, <2>5, <2>7 DEF Good
<1> QED
  BY <1>1, <1>5, <1>6, Zenon

\* A live connection dies.
LEMMA DieStep ==
    ASSUME Good, NEW c \in Conns, life[c] \in {"live", "dead"}, life' = [life EXCEPT ![c] = "dead"],
           UNCHANGED <<refno_, fd_, listed, saved, jobs, leaked, ch>>
    PROVE  /\ life' \in [Conns -> {"none", "live", "dead", "deleted"}]
           /\ CountInv' /\ FdInv'
           /\ \A d \in Conns : life'[d] = IF d = c THEN "dead" ELSE life[d]
<1>0. ListenerTypes /\ CountInv /\ FdInv
  BY DEF Good
<1>1. /\ life' \in [Conns -> {"none", "live", "dead", "deleted"}]
      /\ \A d \in Conns : life'[d] = IF d = c THEN "dead" ELSE life[d]
  BY <1>0 DEF ListenerTypes
<1>2. \A d \in Conns : Holders(d)' = Holders(d)
  BY DEF Holders
<1>3. CountInv'
  <2>1. \A d \in Conns : life'[d] \in {"none", "deleted"} <=> life[d] \in {"none", "deleted"}
    BY <1>1
  <2>2. \A d \in Conns : life'[d] = "live" => life[d] = "live"
    BY <1>1
  <2> QED
    BY <1>0, <1>2, <2>1, <2>2 DEF CountInv
<1>4. FdInv'
  <2>1. \A d \in Conns : life'[d] \in {"live", "dead"} <=> life[d] \in {"live", "dead"}
    BY <1>1
  <2> QED
    BY <1>0, <2>1 DEF FdInv
<1> QED
  BY <1>1, <1>3, <1>4

LEMMA DieNext == ASSUME Good, NEW c \in Conns, Die(c) PROVE Good'
<1>0. ListenerTypes /\ CountInv /\ FdInv /\ LoopInv
  BY DEF Good
<1>1. /\ life' \in [Conns -> {"none", "live", "dead", "deleted"}]
      /\ CountInv' /\ FdInv'
      /\ \A d \in Conns : life'[d] = IF d = c THEN "dead" ELSE life[d]
  BY DieStep, ZenonT(40) DEF Die
<1>2. ListenerTypes'
  BY <1>0, <1>1 DEF ListenerTypes, Die
<1>3. LoopInv'
  BY <1>0, <1>1, LoopKept DEF Die
<1> QED
  BY <1>1, <1>2, <1>3 DEF Good

--------------------------------------------------------------------------------
(* The owner of the server                                                      *)

LEMMA StoppingNext ==
    ASSUME Good, AcceptEnds \/ ClosePipe \/ Join \/ DeletePool PROVE Good'
<1>0. ListenerTypes /\ CountInv /\ FdInv /\ LoopInv
  BY DEF Good
<1>1. UNCHANGED <<life, refno_, fd_, listed, saved, jobs, leaked, ch>>
  BY DEF AcceptEnds, ClosePipe, Join, DeletePool
<1>2. \A d \in Conns : Holders(d)' = Holders(d)
  BY <1>1, Zenon DEF Holders
<1>3. CountInv' /\ FdInv'
  BY <1>0, <1>1, <1>2 DEF CountInv, FdInv
<1>4. CASE AcceptEnds
  BY <1>0, <1>1, <1>3, <1>4, ZenonT(40) DEF AcceptEnds, ListenerTypes, LoopInv, Good
<1>5. CASE ClosePipe
  BY <1>0, <1>1, <1>3, <1>5, ZenonT(40) DEF ClosePipe, ListenerTypes, LoopInv, Good
<1>6. CASE Join
  BY <1>0, <1>1, <1>3, <1>6, ZenonT(40) DEF Join, ListenerTypes, LoopInv, Good
<1>7. CASE DeletePool
  BY <1>0, <1>1, <1>3, <1>7, ZenonT(40) DEF DeletePool, ListenerTypes, LoopInv, Good
<1> QED
  BY <1>4, <1>5, <1>6, <1>7

LEMMA CloseconnNext == ASSUME Good, closeconn PROVE Good'
<1>0. ListenerTypes /\ CountInv /\ FdInv /\ LoopInv
  BY DEF Good
<1>1. /\ main = "close" /\ accepter = "gone" /\ ch = 0 /\ todo \in SUBSET Fds
      /\ UNCHANGED <<refno_, fd_, listed, saved, jobs, leaked, accepter, ch, todo>>
  BY <1>0 DEF closeconn, LoopInv, ListenerTypes
<1>2. CASE todo = {} /\ main' = "pool" /\ UNCHANGED life
  <2>1. \A d \in Conns : Holders(d)' = Holders(d)
    BY <1>1 DEF Holders
  <2>2. CountInv' /\ FdInv'
    BY <1>0, <1>1, <1>2, <2>1 DEF CountInv, FdInv
  <2>3. ListenerTypes'
    BY <1>0, <1>1, <1>2 DEF ListenerTypes
  <2>4. LoopInv'
    BY <1>0, <1>1, <1>2 DEF LoopInv
  <2> QED
    BY <2>2, <2>3, <2>4 DEF Good
<1>3. CASE todo # {} /\ main' = "unlist" /\ life' = [life EXCEPT ![listed[Least(todo)]] = "dead"]
  <2> DEFINE f == Least(todo)
             c == listed[f]
  <2>1. f \in todo /\ f \in Fds
    BY <1>1, <1>3, LeastIsIn
  <2>2. c \in Conns
    BY <1>0, <1>1, <2>1 DEF LoopInv, ListenerTypes
  <2>3. life[c] \in {"live", "dead"}
    BY <1>0, <2>1, <2>2, HeldIsOpen
  <2>4. life' = [life EXCEPT ![c] = "dead"] /\ listed[Least(todo)] = c
    BY <1>3
  <2> HIDE DEF c, f
  <2>5. /\ life' \in [Conns -> {"none", "live", "dead", "deleted"}]
        /\ CountInv' /\ FdInv'
        /\ \A d \in Conns : life'[d] = IF d = c THEN "dead" ELSE life[d]
    BY <1>1, <2>2, <2>3, <2>4, DieStep, ZenonT(40)
  <2>6. ListenerTypes'
    BY <1>0, <1>1, <1>3, <2>5 DEF ListenerTypes
  <2>7. LoopInv'
    BY <1>0, <1>1, <1>3, <2>2, <2>4, <2>5 DEF LoopInv
  <2> QED
    BY <2>5, <2>6, <2>7 DEF Good
<1> QED
  BY <1>2, <1>3, ZenonT(40) DEF closeconn

LEMMA UnlistNext == ASSUME Good, Unlist PROVE Good'
<1> DEFINE f == Least(todo)
           c == listed[f]
<1>0. ListenerTypes /\ CountInv /\ FdInv /\ LoopInv
  BY DEF Good
<1>1. /\ main = "unlist" /\ main' = "close" /\ todo' = todo \ {f}
      /\ Refs([refno_ EXCEPT ![c] = @ - 1])
      /\ listed' = [listed EXCEPT ![f] = 0]
      /\ UNCHANGED <<saved, jobs, leaked, accepter, ch>>
  BY DEF Unlist
<1>2. todo \in SUBSET Fds /\ todo # {} /\ life[c] = "dead" /\ accepter = "gone" /\ ch = 0
  BY <1>0, <1>1 DEF LoopInv, ListenerTypes
<1>3. f \in todo /\ f \in Fds
  BY <1>2, LeastIsIn
<1>4. c \in Conns
  BY <1>0, <1>1, <1>3 DEF LoopInv, ListenerTypes
<1>5. listed[f] = c
  OBVIOUS
<1> HIDE DEF f, c
<1>6. /\ CountInv' /\ FdInv'
      /\ life' \in [Conns -> {"none", "live", "dead", "deleted"}]
      /\ refno_' \in [Conns -> Nat] /\ fd_' \in [Conns -> Fds \cup {0}]
      /\ \A g \in Fds : listed'[g] = IF g = f THEN 0 ELSE listed[g]
  BY <1>1, <1>2, <1>3, <1>4, <1>5, UnlistStep, Zenon
<1>7. ListenerTypes'
  BY <1>0, <1>1, <1>6, ZenonT(40) DEF ListenerTypes
<1>8. LoopInv'
  <2>1. \A g \in todo' : listed'[g] # 0
    BY <1>0, <1>1, <1>2, <1>6 DEF LoopInv
  <2>2. \A g \in Fds \ todo' : listed'[g] = 0
    BY <1>0, <1>1, <1>6 DEF LoopInv
  <2> QED
    BY <1>1, <1>2, <2>1, <2>2 DEF LoopInv
<1> QED
  BY <1>6, <1>7, <1>8 DEF Good

--------------------------------------------------------------------------------
(* The invariant                                                                *)

LEMMA ListenerInit == Init => ListenerInv
<1> SUFFICES ASSUME Init PROVE Good
  BY DEF Good, ListenerInv
<1>1. DOMAIN jobs = {} /\ IsABag(jobs)
  BY DEF Init, EmptyBag, SetToBag, IsABag
<1>2. ASSUME NEW c PROVE JobsOn(jobs, c) = {}
  <2>1. \A x : x \notin JobsOn(jobs, c)
    BY <1>1, JobsOnElement
  <2> QED
    BY <2>1
<1>3. ListenerTypes
  <2>1. \A c \in Conns : IsFiniteSet(JobsOn(jobs, c))
    BY <1>2, FS_EmptySet
  <2>2. BagToSet(jobs) \subseteq Job
    BY <1>1 DEF BagToSet
  <2> QED
    BY <1>1, <2>1, <2>2 DEF Init, ListenerTypes
<1>4. ASSUME NEW c \in Conns PROVE Holders(c) = 0
  <2>0. Cardinality({}) = 0
    BY FS_EmptySet
  <2>1. Cardinality({f \in Fds : listed[f] = c}) = 0
    <3>1. {f \in Fds : listed[f] = c} = {}
      BY NoConn DEF Init
    <3> QED
      BY <2>0, <3>1
  <2>2. Cardinality({k \in Clients : saved[k] = c}) = 0
    <3>1. {k \in Clients : saved[k] = c} = {}
      BY NoConn DEF Init
    <3> QED
      BY <2>0, <3>1
  <2>3. Cardinality(JobsOn(jobs, c)) = 0
    BY <1>2, <2>0
  <2>4. leaked[c] = 0 /\ ch # c
    BY NoConn DEF Init
  <2>5. Holders(c) = 0 + 0 + 0 + 0 + 0
    BY <2>1, <2>2, <2>3, <2>4, Zenon DEF Holders
  <2> QED
    BY <2>5
<1>5. CountInv
  BY <1>1, <1>4 DEF Init, CountInv, BagToSet
<1>6. FdInv /\ LoopInv
  BY DEF Init, FdInv, LoopInv
<1> QED
  BY <1>3, <1>5, <1>6 DEF Good

\* Where nothing that the invariant is about changes.
LEMMA GoodStutters == ASSUME Good, UNCHANGED vars PROVE Good'
<1>1. \A c \in Conns : Holders(c)' = Holders(c)
  BY DEF vars, Holders
<1>2. ListenerTypes'
  BY DEF vars, Good, ListenerTypes
<1>3. CountInv'
  BY <1>1, Zenon DEF vars, Good, CountInv
<1>4. FdInv' /\ LoopInv'
  BY DEF vars, Good, FdInv, LoopInv
<1> QED
  BY <1>2, <1>3, <1>4 DEF Good

LEMMA ListenerNext == ListenerInv /\ [Next]_vars => ListenerInv'
<1> SUFFICES ASSUME ListenerInv, [Next]_vars, ~crashed' PROVE Good'
  BY DEF ListenerInv, Good
<1>1. CASE UNCHANGED vars
  <2>1. Good
    BY <1>1 DEF ListenerInv, Good, vars
  <2> QED
    BY <1>1, <2>1, GoodStutters
<1>2. CASE Next
  <2>0. Good
    BY <1>2 DEF Next, ListenerInv, Good
  <2>1. CASE Accept
    BY <2>0, <2>1, AcceptNext
  <2>2. CASE GcIsDead
    BY <2>0, <2>2, GcIsDeadNext
  <2>3. CASE GcRef
    BY <2>0, <2>3, GcRefNext
  <2>4. CASE \E c \in Conns : Die(c)
    BY <2>0, <2>4, DieNext
  <2>5. CASE \E c \in Conns, k \in Clients \cup {NoNonce} : got_pdu(c, k)
    BY <2>0, <2>5, GotPduNext
  <2>6. CASE \E j \in BagToSet(jobs) : dispatch(j)
    BY <2>0, <2>6, DispatchNext
  <2>7. CASE AcceptEnds \/ ClosePipe \/ Join \/ DeletePool
    BY <2>0, <2>7, StoppingNext
  <2>8. CASE closeconn
    BY <2>0, <2>8, CloseconnNext
  <2>9. CASE Unlist
    BY <2>0, <2>9, UnlistNext
  <2> QED
    BY <1>2, <2>1, <2>2, <2>3, <2>4, <2>5, <2>6, <2>7, <2>8, <2>9 DEF Next, Destructor
<1> QED
  BY <1>1, <1>2

(* No step of the accept thread, a job or the destructor breaks the invariant.   *)
LEMMA ListenerInvHolds == Spec => []ListenerInv
BY ListenerInit, ListenerNext, PTL DEF Spec

--------------------------------------------------------------------------------
(* The theorems                                                                 *)

(* RefsAccounted: for any number of connections, descriptors and clients, what  *)
(* incref and decref have counted is the number of places that point to the     *)
(* connection, and it is deleted as soon as, and only when, there is none.      *)
THEOREM RefsAccountedHolds == Spec => []RefsAccounted
<1>1. ListenerInv => RefsAccounted
  <2> SUFFICES ASSUME ListenerInv, ~crashed, NEW c \in Conns, life[c] # "none"
               PROVE  refno_[c] = Holders(c) /\ (life[c] = "deleted" <=> refno_[c] = 0)
    BY DEF RefsAccounted
  <2> QED
    BY DEF ListenerInv, CountInv
<1> QED
  BY <1>1, ListenerInvHolds, PTL

(* NoEntryReplaced: accept returns no descriptor by which a connection is still *)
(* listed, because close follows only upon the last decref: conns_[channo] = ch *)
(* in process_accept never overwrites an entry.                                 *)
THEOREM NoEntryReplacedHolds == Spec => []NoEntryReplaced
<1>1. ListenerInv => NoEntryReplaced
  <2> SUFFICES ASSUME Good PROVE NoEntryReplaced
    BY DEF ListenerInv, Good, NoEntryReplaced
  <2>0. ListenerTypes /\ CountInv /\ FdInv
    BY DEF Good
  <2>1. ASSUME ch # 0 PROVE fd_[ch] \in Fds /\ listed[fd_[ch]] = 0
    <3>1. ch \in Conns
      BY <2>0, <2>1 DEF ListenerTypes
    <3>2. life[ch] \in {"live", "dead"}
      BY <2>0, <3>1, HeldIsOpen
    <3>3. fd_[ch] \in Fds
      BY <2>0, <3>1, <3>2 DEF FdInv
    <3>4. ASSUME listed[fd_[ch]] # 0 PROVE FALSE
      <4> DEFINE d == listed[fd_[ch]]
      <4>1. d \in Conns /\ fd_[d] = fd_[ch] /\ d # ch
        BY <2>0, <2>1, <3>3, <3>4 DEF FdInv, ListenerTypes
      <4>2. life[d] \in {"live", "dead"}
        BY <2>0, <3>3, <4>1, HeldIsOpen
      <4> HIDE DEF d
      <4> QED
        BY <2>0, <3>1, <3>2, <4>1, <4>2 DEF FdInv
    <3> QED
      BY <3>3, <3>4
  <2> QED
    BY <2>0, <2>1 DEF NoEntryReplaced, FdInv
<1> QED
  BY <1>1, ListenerInvHolds, PTL

(* QuietAfterListener: "must delete listener before dispatchpool" (rpc.cc:368)  *)
(* is enough.  When ~tcpsconn has returned every connection is dead, so no job  *)
(* comes to the pool that is deleted next; after that only rpcs::conns_ and the *)
(* references dispatch forgot keep a connection.                                *)
THEOREM QuietAfterListenerHolds == Spec => []QuietAfterListener
<1>1. ListenerInv => QuietAfterListener
  <2> SUFFICES ASSUME Good PROVE QuietAfterListener
    BY DEF ListenerInv, Good, QuietAfterListener
  <2>1. main \in {"pool", "done"} => \A c \in Conns : life[c] # "live"
    BY LiveIsListed
  <2>2. ASSUME main = "done", NEW c \in Conns, life[c] = "dead", ~ leaked[c] > 0
        PROVE  \E k \in Clients : saved[k] = c
    <3>0. ListenerTypes /\ CountInv /\ LoopInv
      BY DEF Good
    <3>1. refno_[c] # 0 /\ refno_[c] = Holders(c)
      BY <2>2, <3>0 DEF CountInv
    <3>2. jobs = EmptyBag /\ ch # c /\ \A f \in Fds : listed[f] = 0
      BY <2>2, <3>0, NoConn DEF LoopInv
    <3>3. {f \in Fds : listed[f] = c} = {}
      BY <3>2, NoConn
    <3>4. JobsOn(jobs, c) = {}
      <4>1. DOMAIN jobs = {}
        BY <3>2 DEF EmptyBag, SetToBag
      <4>2. \A x : x \notin JobsOn(jobs, c)
        BY <4>1, JobsOnElement
      <4> QED
        BY <4>2
    <3>5. leaked[c] = 0
      BY <2>2, <3>0 DEF ListenerTypes
    <3>6. Cardinality({}) = 0
      BY FS_EmptySet
    <3>7. Cardinality({k \in Clients : saved[k] = c}) # 0
      <4> DEFINE S == Cardinality({k \in Clients : saved[k] = c})
      <4>1. Holders(c) = 0 + S + 0 + 0 + 0
        BY <3>2, <3>3, <3>4, <3>5, <3>6 DEF Holders
      <4>2. S = 0 => Holders(c) = 0
        BY <4>1
      <4> QED
        BY <3>1, <4>2
    <3> QED
      BY <3>6, <3>7
  <2> QED
    BY <2>1, <2>2 DEF QuietAfterListener
<1> QED
  BY <1>1, ListenerInvHolds, PTL

================================================================================
