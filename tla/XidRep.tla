--------------------------------- MODULE XidRep ---------------------------------
(* rpcc::xid_rep_window_ (src/rpc/rpc.cc) as a set of xids: the acknowledged    *)
(* xids that the window still holds.  XidWindow shows that the sorted list and  *)
(* the loops of the code compute this.                                          *)
EXTENDS Naturals

Front(W) == CHOOSE m \in W : \A w \in W : m <= w

\* Mutant of Compress: drops everything below the newest xid, gaps or not.
CompressGaps(W) == {n \in W : \A m \in W : m <= n}

\* Pops the front while its successor is in the window too.
Compress(W) == {n \in W : ~ (Front(W)..(n + 1) \subseteq W)}

update_xid_rep(W, x) == IF x <= Front(W) THEN W ELSE Compress(W \cup {x})

================================================================================
