------------------------------- MODULE XidWindow -------------------------------
(* rpcc::update_xid_rep (src/rpc/rpc.cc) with the list it works on: the sorted  *)
(* insertion, which keeps duplicates, and the loop that pops the front through  *)
(* an iterator into the same list.  The loop is one step per test of its        *)
(* iterator, a call is over when no step of it is left.                         *)
EXTENDS XidRep, Sequences

CONSTANTS
    MaxXid,     \* bound: xids
    MaxLen      \* bound: length of the list, duplicates included

ASSUME WindowAssumption == MaxXid \in Nat /\ MaxLen \in Nat /\ MaxLen > 0

VARIABLES
    window,     \* xid_rep_window_, the list
    it,         \* the position of the iterator at label compress, 0 between calls
    set,        \* the same window as Rpc keeps it
    seen        \* every xid update_xid_rep has been called with, and 0

windowVars == <<window, it, set, seen>>

WindowInit == window = <<0>> /\ it = 0 /\ set = {0} /\ seen = {0}

\* The xid is not beyond the front.
UpdateOld(x) == x <= Head(window) /\ UNCHANGED <<window, it>>

\* The first for loop: before the first greater element, else at the end.
InsertSorted(x) ==
    /\ x > Head(window)
    /\ \E n \in 1..Len(window) :
          /\ \A i \in 1..n : window[i] <= x
          /\ n < Len(window) => window[n + 1] > x
          /\ window' = [i \in 1..(Len(window) + 1) |->
                          IF i <= n THEN window[i] ELSE IF i = n + 1 THEN x ELSE window[i - 1]]
    /\ it' = 2

Update(x) ==
    /\ it = 0 /\ Len(window) < MaxLen
    /\ UpdateOld(x) \/ InsertSorted(x)
    /\ set' = update_xid_rep(set, x)
    /\ seen' = seen \cup {x}

\* Mutant of compress: at most one pop for each position of the iterator.
compressOnce ==
    /\ it > 0
    /\ IF it > Len(window) THEN it' = 0 /\ UNCHANGED window
       ELSE IF window[1] + 1 = window[it] THEN window' = Tail(window) /\ it' = it
       ELSE it' = it + 1 /\ UNCHANGED window
    /\ UNCHANGED <<set, seen>>

\* The loop at label compress.  pop_front moves the element that the iterator
\* points to one place forward.
compress ==
    /\ it > 0
    /\ IF it > Len(window) THEN it' = 0 /\ UNCHANGED window
       ELSE IF window[1] + 1 = window[it] THEN window' = Tail(window) /\ it' = it - 1
       ELSE it' = it + 1 /\ UNCHANGED window
    /\ UNCHANGED <<set, seen>>

WindowNext == compress \/ \E x \in 0..MaxXid : Update(x)

WindowSpec == WindowInit /\ [][WindowNext]_windowVars

--------------------------------------------------------------------------------
(* In whatever order replies arrive and calls give up, and however often the    *)
(* same xid is reported, after each call the list is in order and holds exactly *)
(* the elements of the set that Rpc keeps in its place; its front, which call1  *)
(* packs as xid_rep, is the greatest xid up to which every xid has been         *)
(* reported.                                                                    *)
ListIsSet ==
    it = 0 =>
        /\ {window[i] : i \in DOMAIN window} = set
        /\ \A i \in 1..(Len(window) - 1) : window[i] <= window[i + 1]
        /\ 0..Head(window) \subseteq seen /\ Head(window) + 1 \notin seen

================================================================================
