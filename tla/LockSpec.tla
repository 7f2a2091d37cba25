-------------------------------- MODULE LockSpec --------------------------------
(* What the lock service promises its clients: each lock is granted to one      *)
(* client at a time, and only the client that was granted it gives it back.     *)

CONSTANTS Clients, Locks

VARIABLE holders    \* holders[l]: the clients that l is granted to

Init == holders = [l \in Locks |-> {}]

Grant(c, l) == holders[l] = {} /\ holders' = [holders EXCEPT ![l] = {c}]

GiveBack(c, l) == holders[l] = {c} /\ holders' = [holders EXCEPT ![l] = {}]

Next == \E c \in Clients, l \in Locks : Grant(c, l) \/ GiveBack(c, l)

Spec == Init /\ [][Next]_holders

================================================================================
