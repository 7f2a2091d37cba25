--------------------------------- MODULE MCYfs ---------------------------------
(* Yfs for TLC, with a history variable for what the missing locks would rule   *)
(* out.  Mounts, names and new inums are interchangeable.                       *)
EXTENDS Yfs, TLC

CONSTANT
    MaxDisturbed    \* bound: entries of the directory once it was disturbed

ASSUME MCAssumption == MaxDisturbed \in Nat

VARIABLE
    disturbed   \* history: two mounts were creating at once, a lookup timed out,
                \* or a put came late

mcVars == <<vars, disturbed>>

\* From the lookup that did not find the name to the put of the directory.
InCreate(m) ==
    \/ pc[m] = "absent"
    \/ req[m].op \in {"create", "mkdir"} /\ pc[m] \in {"get", "putfile", "putdir"}

MCInit == Init /\ disturbed = FALSE

MCNext ==
    /\ Next
    /\ disturbed' =
          \/ disturbed \/ late' # {}
          \/ \E m, n \in Mounts : m # n /\ InCreate(m)' /\ InCreate(n)'
          \/ \E m \in Mounts : pc'[m] = "absent" /\ failed'[m]
    /\ disturbed' => Len(root') <= MaxDisturbed

MCSpec == MCInit /\ [][MCNext]_mcVars

Symmetry == Permutations(Mounts) \cup Permutations(Names) \cup Permutations(Files)

(* As long as the caller of create is alone, which is what "the caller holds a  *)
(* lock on the extent" (extent_client.cc:10) asks for, a file whose create was  *)
(* answered with success stays in the directory, whatever other mounts do       *)
(* before and after and whatever crashes or fails; and create, which does not   *)
(* look for the name itself, never lists a name twice.                          *)
UndisturbedListing == ~disturbed => LiveFilesListed /\ NamesOnce

================================================================================
