-------------------------------- MODULE FileData --------------------------------
(* The content of one file: fuseserver_read, fuseserver_write and               *)
(* fuseserver_setattr (src/fuse.cc), the yfs_client operations behind them      *)
(* (src/yfs_client.cc) and the extent server's put, get and setattr, for one    *)
(* mount, beside what POSIX says the file contains.  A byte is 0 (NUL) or a     *)
(* member of Bytes.                                                             *)
EXTENDS Naturals, Sequences

CONSTANTS
    Bytes,      \* bytes that a write may contain
    MaxWrite,   \* bound: bytes of one read or write
    MaxOff,     \* bound: offsets and sizes
    maxextent,  \* largest extent that put takes
    SizeBits    \* width of extent_protocol::attr::size

ASSUME FileAssumption ==
    /\ MaxWrite \in Nat /\ MaxOff \in Nat /\ maxextent \in Nat /\ SizeBits \in Nat
    /\ maxextent < 2^SizeBits

VARIABLES
    content, size,  \* the extent: its string, and eAttr.size
    phase, asked,   \* the request in progress: its next call; off, len, data
    got,            \* content, as yfs_client::write read it
    answer,         \* what the last request was answered with
    file,           \* what the file contains according to POSIX
    deviated        \* history: the code has done what POSIX does not ask for, with a
                    \* write beyond the end or with a NUL, or a size that is too wide

fileVars == <<content, size, phase, asked, got, answer, file, deviated>>

Data     == UNION {[1..n -> Bytes \cup {0}] : n \in 1..MaxWrite}
FileRequests == [off : 0..MaxOff, len : 0..MaxWrite, data : Data \cup {<<>>}]

(* The types of all variables. *)
FileTypeOK ==
    /\ content \in Seq(Bytes \cup {0}) /\ size \in Nat
    /\ phase \in {"idle", "read", "get", "put", "setattr", "getfile"}
    /\ asked \in FileRequests
    /\ got \in Seq(Bytes \cup {0})
    /\ answer.status \in {"none", "err", "buf", "write", "attr"}
    /\ file \in Seq(Bytes \cup {0}) /\ deviated \in BOOLEAN

FileInit ==
    /\ content = <<>> /\ size = 0
    /\ phase = "idle" /\ asked = [off |-> 0, len |-> 0, data |-> <<>>]
    /\ got = <<>> /\ answer = [status |-> "none"] /\ file = <<>> /\ deviated = FALSE

--------------------------------------------------------------------------------
(* POSIX                                                                        *)

Zeros(n) == [i \in 1..n |-> 0]

\* s cut to n bytes, or filled up with zeros.
Resized(s, n) == IF n <= Len(s) THEN SubSeq(s, 1, n) ELSE s \o Zeros(n - Len(s))

PosixRead(s, off, n) == SubSeq(s, off + 1, IF off + n < Len(s) THEN off + n ELSE Len(s))

PosixWrite(s, off, d) ==
    LET t == IF off > Len(s) THEN Resized(s, off) ELSE s
    IN  SubSeq(t, 1, off) \o d \o SubSeq(t, off + Len(d) + 1, Len(t))

--------------------------------------------------------------------------------
(* Requests                                                                     *)

StartFile(r, first) ==
    /\ phase = "idle" /\ phase' = first
    /\ asked' = r /\ answer' = [status |-> "none"]
    /\ UNCHANGED <<content, size, got, file, deviated>>

StartRead ==
    \E o \in 0..MaxOff, n \in 0..MaxWrite : StartFile([off |-> o, len |-> n, data |-> <<>>], "read")

StartWrite ==
    \E o \in 0..MaxOff, d \in Data :
        StartFile([off |-> o, len |-> Len(d), data |-> d], "get")

\* setattr of the size, to off.
StartSetattr == \E o \in 0..MaxOff : StartFile([off |-> o, len |-> 0, data |-> <<>>], "setattr")

\* setattr of anything but the size.
SetattrOther ==
    /\ phase = "idle" /\ answer' = [status |-> "err"]
    /\ UNCHANGED <<content, size, phase, asked, got, file, deviated>>

Answer(a) == answer' = a /\ phase' = "idle"

\* The extent server is not reached before the RPC times out.
CallFails ==
    /\ phase # "idle" /\ Answer([status |-> "err"]) /\ got' = <<>>
    /\ UNCHANGED <<content, size, asked, file, deviated>>

\* yfs_client::read: nothing at or after the end, else content.substr(off, size).
Substr(s, off, n) ==
    IF off >= Len(s) THEN <<>> ELSE SubSeq(s, off + 1, IF off + n < Len(s) THEN off + n ELSE Len(s))

\* yfs_client::read and the reply of fuseserver_read.
Read ==
    /\ phase = "read"
    /\ Answer([status |-> "buf", buf |-> Substr(content, asked.off, asked.len)])
    /\ UNCHANGED <<content, size, asked, got, file, deviated>>

\* yfs_client::write: get.
WriteGet ==
    /\ phase = "get" /\ phase' = "put" /\ got' = content
    /\ UNCHANGED <<content, size, asked, answer, file, deviated>>

\* The data as yfs_client::write sees it: fuseserver_write passes a char pointer
\* for a std::string, which ends at the first NUL.
CString(d) ==
    LET n == CHOOSE n \in 0..Len(d) : /\ \A i \in 1..n : d[i] # 0
                                      /\ n < Len(d) => d[n + 1] = 0
    IN  SubSeq(d, 1, n)

\* Mutant of Written: replace() is given no length, the rest of the file is lost.
WrittenToEnd(s, off, d) ==
    IF off >= Len(s) THEN s \o CString(d) ELSE SubSeq(s, 1, off) \o CString(d)

\* What yfs_client::write makes of content s: it appends, or replaces Len(d) bytes.
Written(s, off, d) ==
    IF off >= Len(s) THEN s \o CString(d)
    ELSE SubSeq(s, 1, off) \o CString(d) \o SubSeq(s, off + Len(d) + 1, Len(s))

\* extent_server::put, and the reply of fuseserver_write; or put is executed but
\* its reply does not come before the RPC times out.
WritePut ==
    LET buf == Written(got, asked.off, asked.data) IN
    /\ phase = "put" /\ got' = <<>>
    /\ \/ /\ Len(buf) > maxextent
          /\ Answer([status |-> "err"]) /\ UNCHANGED <<content, size, file, deviated>>
       \/ /\ Len(buf) <= maxextent
          /\ content' = buf /\ size' = Len(buf)
          /\ \E a \in {"write", "err"} : Answer([status |-> a])
          /\ file' = PosixWrite(file, asked.off, asked.data)
          /\ deviated' = (deviated \/ asked.off > Len(got) \/ CString(asked.data) # asked.data)
    /\ UNCHANGED asked

\* extent_server::setattr; as for put its reply may be lost.
Setattr ==
    LET newSize == asked.off % 2^SizeBits IN
    /\ phase = "setattr"
    /\ \/ newSize = size /\ UNCHANGED <<content, size>>
       \/ newSize # size /\ content' = Resized(content, newSize) /\ size' = newSize
    /\ file' = Resized(file, asked.off) /\ deviated' = (deviated \/ newSize # asked.off)
    /\ \/ phase' = "getfile" /\ UNCHANGED answer
       \/ Answer([status |-> "err"])
    /\ UNCHANGED <<asked, got>>

\* yfs_client::getfile and the reply of fuseserver_setattr.
Getfile ==
    /\ phase = "getfile" /\ Answer([status |-> "attr", size |-> size])
    /\ UNCHANGED <<content, size, asked, got, file, deviated>>

FileNext ==
    \/ StartRead \/ StartWrite \/ StartSetattr \/ SetattrOther \/ CallFails
    \/ Read \/ WriteGet \/ WritePut \/ Setattr \/ Getfile

FileSpec == FileInit /\ [][FileNext]_fileVars

--------------------------------------------------------------------------------
(* Properties                                                                   *)

(* After any sequence of writes and truncations, until a write starts beyond    *)
(* the end of the file (which yfs_client::write appends without a gap) or has a *)
(* NUL, or a size is cut to SizeBits, the extent holds what POSIX says, and so  *)
(* do the answers of read and setattr; an operation that fails has its whole    *)
(* effect or none, and a write that is too big for put changes nothing.         *)
FileIsPosix ==
    ~deviated =>
        /\ content = file
        /\ answer.status = "buf" => answer.buf = PosixRead(file, asked.off, asked.len)
        /\ answer.status = "attr" => answer.size = Len(file)

================================================================================
