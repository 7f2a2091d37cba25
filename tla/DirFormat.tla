----------------------------- MODULE DirFormat ------------------------------
(***************************************************************************)
(* The text of a directory: create appends to it, ilookup searches it,     *)
(* getDirContent takes it apart, and fuseserver_readdir hands the result   *)
(* to the kernel page by page.  Beside the text, entries is what was       *)
(* created.  (The calls and mounts around these functions are in Yfs.)     *)
(*                                                                         *)
(* A character is a number: a digit is its value, 10 is the colon, and     *)
(* larger ones are letters.                                                *)
(***************************************************************************)
EXTENDS Integers, Sequences

LOCAL INSTANCE SequencesExt

CONSTANTS NameChars,   \* characters of names
          MaxName,     \* longest name
          DirInums,    \* inums that random() may give
          MaxCreated,  \* entries of the directory
          PageSize     \* the size that the kernel gives readdir, in cells

Colon == 10
FileNames == BoundedSeq(NameChars, MaxName) \ {<<>>}

(* fuse_dirent_size: a fixed part, then the name. *)
fuse_dirent_size(name) == 1 + Len(name)

ASSUME DirAssumption ==
    /\ NameChars \subseteq Nat /\ DirInums \subseteq Nat \ {0}
    /\ MaxName \in Nat /\ MaxCreated \in Nat
    /\ PageSize \in Nat /\ PageSize > MaxName   \* a page holds any one dirent

VARIABLES text,       \* the directory's extent
          entries,    \* what was created, in order
          reading,    \* the kernel's readdir: "idle", "reading", "ended", "garbled"
          offset,     \* the offset of its next request
          delivered,  \* the entries it has
          grown       \* history: an entry was created since it began

dirVars == <<text, entries, reading, offset, delivered, grown>>

-----------------------------------------------------------------------------
(* filename: the decimal digits of an inum. *)
filename(inum) ==
    LET k == CHOOSE k \in 1..20 : 10^(k - 1) <= inum /\ inum < 10^k
    IN  [j \in 1..k |-> (inum \div 10^(k - j)) % 10]

Numeral(s) == LET digit(acc, c) == acc * 10 + c IN FoldLeft(digit, 0, s)

(* stringToid takes every character for a digit. *)
stringToid(s) == Numeral(s)

(* n2i: istream >> takes the digits at the beginning; none of them give 0. *)
n2i(s) ==
    LET k == CHOOSE k \in 0..Len(s) :
                 /\ \A i \in 1..k : s[i] < 10
                 /\ k < Len(s) => s[k + 1] >= 10
    IN  Numeral(SubSeq(s, 1, k))

(* string::find from a position; 0 for npos. *)
Find(s, t, from) ==
    LET at == {i \in from..(Len(s) - Len(t) + 1) : SubSeq(s, i, i + Len(t) - 1) = t}
    IN  IF at = {} THEN 0 ELSE CHOOSE i \in at : \A j \in at : i <= j

(* The new content that create puts. *)
AppendEntry(content, name, inum) ==
    (IF content = <<>> THEN <<>> ELSE Append(content, Colon))
        \o name \o <<Colon>> \o filename(inum)

(* Mutant of ilookup: searches for the name without a colon behind it. *)
ilookupPrefix(content, name) ==
    LET content_cp == Append(content, Colon)
        head == Find(content_cp, name, 1)
        from == head + Len(name) + 1
        tail == Find(content_cp, <<Colon>>, from)
    IN  IF head = 0 THEN 0
        ELSE n2i(SubSeq(content_cp, from, (IF tail = 0 THEN Len(content_cp) + 1 ELSE tail) - 1))

ilookup(content, name) ==
    LET content_cp == Append(content, Colon)
        head == Find(content_cp, Append(name, Colon), 1)
        from == head + Len(name) + 1
        tail == Find(content_cp, <<Colon>>, from)
    IN  IF head = 0 THEN 0
        ELSE n2i(SubSeq(content_cp, from, (IF tail = 0 THEN Len(content_cp) + 1 ELSE tail) - 1))

(* The loop of getDirContent: fields are names and inums in turn. *)
ScanField(acc, c) ==
    IF c # Colon THEN [acc EXCEPT !.field = Append(@, c)]
    ELSE IF acc.cycleTime % 2 = 0
    THEN [acc EXCEPT !.cycleTime = @ + 1, !.tempName = acc.field, !.field = <<>>]
    ELSE [acc EXCEPT !.cycleTime = @ + 1, !.field = <<>>,
                     !.out = Append(@, [name |-> acc.tempName,
                                        inum |-> stringToid(acc.field)])]

(* Mutant of getDirContent: nothing is done for the last field. *)
getDirContentShort(content) ==
    FoldLeft(ScanField, [cycleTime |-> 0, tempName |-> <<>>, field |-> <<>>, out |-> <<>>],
             content).out

(* Of the last field, substr(begin, end) takes at most as many characters as   *)
(* there are before the last colon.                                            *)
getDirContent(content) ==
    LET s    == FoldLeft(ScanField, [cycleTime |-> 0, tempName |-> <<>>,
                                     field |-> <<>>, out |-> <<>>], content)
        end  == Len(content) - Len(s.field) - 1
        last == SubSeq(s.field, 1, IF Len(s.field) < end THEN Len(s.field) ELSE end)
    IN  IF s.cycleTime = 0 THEN <<>>
        ELSE Append(s.out, [name |-> s.tempName, inum |-> stringToid(last)])

-----------------------------------------------------------------------------
DirInit ==
    /\ text = <<>> /\ entries = <<>>
    /\ reading = "idle" /\ offset = 0 /\ delivered = <<>> /\ grown = FALSE

(* The kernel creates a name that lookup did not find: ilookup gave 0, or an   *)
(* inum without extent, for which fuseserver_lookup replies ENOENT.            *)
Create(name, inum) ==
    /\ Len(entries) < MaxCreated
    /\ LET used == {entries[k].inum : k \in DOMAIN entries}
       IN  inum \notin used /\ ilookup(text, name) \notin used
    /\ text' = AppendEntry(text, name, inum)
    /\ entries' = Append(entries, [name |-> name, inum |-> inum])
    /\ grown' = (grown \/ reading # "idle")
    /\ UNCHANGED <<reading, offset, delivered>>

(* The kernel opens the directory to list it. *)
Opendir ==
    /\ reading # "reading" /\ reading' = "reading"
    /\ offset' = 0 /\ delivered' = <<>> /\ grown' = FALSE
    /\ UNCHANGED <<text, entries>>

(* Mutant of dirbuf_add: the offset of a dirent is where it begins. *)
dirbuf_addOldsize(b, e) ==
    LET oldsize == IF b = <<>> THEN 0 ELSE b[Len(b)].end
        size    == oldsize + fuse_dirent_size(e.name)
    IN  Append(b, [entry |-> e, begin |-> oldsize, end |-> size, off |-> oldsize])

(* A dirent with where it begins and ends in the buffer, and its offset. *)
dirbuf_add(b, e) ==
    LET oldsize == IF b = <<>> THEN 0 ELSE b[Len(b)].end
        size    == oldsize + fuse_dirent_size(e.name)
    IN  Append(b, [entry |-> e, begin |-> oldsize, end |-> size, off |-> size])

(* fuseserver_readdir makes the whole buffer, last entry first, for each       *)
(* request; reply_buf_limited sends at most a page from the offset, and the    *)
(* kernel takes the dirents that are whole.  An offset inside a dirent gives   *)
(* it garbage.                                                                 *)
Readdir ==
    LET b     == FoldLeft(dirbuf_add, <<>>, Reverse(getDirContent(text)))
        size  == IF b = <<>> THEN 0 ELSE b[Len(b)].end
        limit == IF offset + PageSize < size THEN offset + PageSize ELSE size
        page  == SelectSeq(b, LAMBDA d : d.begin >= offset /\ d.end <= limit)
    IN  /\ reading = "reading"
        /\ IF offset >= size
           THEN reading' = "ended" /\ UNCHANGED <<offset, delivered>>
           ELSE IF \E k \in DOMAIN b : b[k].begin = offset
           THEN /\ delivered' = delivered \o [k \in DOMAIN page |-> page[k].entry]
                /\ offset' = page[Len(page)].off /\ UNCHANGED reading
           ELSE reading' = "garbled" /\ UNCHANGED <<offset, delivered>>
        /\ UNCHANGED <<text, entries, grown>>

DirNext ==
    \/ \E name \in FileNames, inum \in DirInums : Create(name, inum)
    \/ Opendir
    \/ Readdir

-----------------------------------------------------------------------------
(* No name has a colon in it; yfs_client does not escape one. *)
PlainNames == \A k \in DOMAIN entries : ~Contains(entries[k].name, Colon)

(* The last inum is not longer than all that comes before its colon, as it     *)
(* is in a directory with one entry of a short name.                           *)
LastFits ==
    entries # <<>> =>
        LET last == Len(filename(entries[Len(entries)].inum))
        IN  last <= Len(text) - last - 1

(***************************************************************************)
(* getDirContent gives back what the creates wrote, entry by entry and in  *)
(* order, in every directory of plain names whose last inum fits the       *)
(* length that is passed to substr.                                        *)
(***************************************************************************)
ListsWhatWasCreated == PlainNames /\ LastFits => getDirContent(text) = entries

(***************************************************************************)
(* ilookup, which looks for a substring, finds every created name with its *)
(* own inum: a create comes after a lookup that found nothing, and an      *)
(* entry added later is behind the first match.  A name of digits alone    *)
(* is left out, for it may end an earlier inum.  And it finds no name that *)
(* was not created, unless a name or an inum in the directory ends with it. *)
(***************************************************************************)
LookupFindsCreated ==
    PlainNames =>
        /\ \A k \in DOMAIN entries :
              (\E i \in DOMAIN entries[k].name : entries[k].name[i] > Colon)
                  => ilookup(text, entries[k].name) = entries[k].inum
        /\ \A name \in FileNames :
              /\ ~Contains(name, Colon)
              /\ \A k \in DOMAIN entries : /\ ~IsSuffix(name, entries[k].name)
                                           /\ ~IsSuffix(name, filename(entries[k].inum))
              => ilookup(text, name) = 0

(***************************************************************************)
(* A listing that no create disturbs gives the kernel what getDirContent   *)
(* found, each entry once, however it falls into pages: the offset of a    *)
(* dirent is where the next request finds the next one in a new buffer.    *)
(***************************************************************************)
ListingComplete ==
    ~grown =>
        /\ reading # "garbled"
        /\ IsPrefix(delivered, Reverse(getDirContent(text)))
        /\ reading = "ended" => Len(delivered) = Len(getDirContent(text))
=============================================================================
