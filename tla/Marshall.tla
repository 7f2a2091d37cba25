------------------------------ MODULE Marshall ------------------------------
(***************************************************************************)
(* One call through the stubs: rpcc::call marshals the arguments, the      *)
(* handler that rpcs::reg made unmarshals them by its own signature, runs  *)
(* the method and marshals its result, rpcc::call_m unmarshals that.  The  *)
(* two signatures are chosen apart, as two programs compiled apart do.     *)
(*                                                                         *)
(* A byte has Base values (256 in the code); a value is a sequence of      *)
(* numbers tagged with its C++ type, and an int is four bytes.             *)
(***************************************************************************)
EXTENDS Integers, Sequences

LOCAL INSTANCE SequencesExt

CONSTANTS Base,            \* values of a byte
          DEFAULT_RPC_SZ,  \* first size of a marshall's buffer
          MaxArgs          \* longest argument list

ASSUME MarshallAssumption ==
    /\ Base \in Nat /\ Base % 2 = 0 /\ Base > 0
    /\ DEFAULT_RPC_SZ \in Nat /\ DEFAULT_RPC_SZ >= 24
    /\ MaxArgs \in Nat

VARIABLES stage,    \* "call", "sent", "answered", "returned"; or a process is "gone"
          args,     \* the caller's arguments
          request,  \* the marshall object of the request
          handled,  \* what dispatch saw: header, and the handler's arguments
          result,   \* what the method returned: its int and its R
          reply,    \* the marshall object of the reply
          outcome   \* what call_m returns: its int, and r if it is set

stubVars == <<stage, args, request, handled, result, reply, outcome>>

(* The widths in bytes of the numbers a type is made of. *)
Widths == [char |-> <<1>>, short |-> <<2>>, int |-> <<4>>, ull |-> <<8>>,
           attr |-> <<4, 4, 4, 4>>]

Int32 == Base * Base * Base * Base
RPC_HEADER_SZ == 4 + 5 * 4

(* A negative int as the unsigned number that is sent. *)
Negative(n) == Int32 - n
unmarshal_args_failure == Negative(2)
unmarshal_reply_failure == Negative(3)

-----------------------------------------------------------------------------
(* marshall: bytes up to _ind, the capacity, and whether a write went past it. *)
marshall == [buf |-> [i \in 1..RPC_HEADER_SZ |-> 0], capa |-> DEFAULT_RPC_SZ,
             overrun |-> FALSE]

(* rawbyte of every byte of s.  Each call doubles a full buffer; s is shorter *)
(* than the buffer, so this happens once at most.                             *)
rawbyte(m, s) ==
    LET n    == Len(s)
        capa == IF Len(m.buf) + n > m.capa THEN 2 * m.capa ELSE m.capa
    IN  [buf |-> m.buf \o s, capa |-> capa,
         overrun |-> m.overrun \/ Len(m.buf) + n > capa]

rawbytes(m, s) ==
    LET n    == Len(s)
        capa == IF Len(m.buf) + n <= m.capa THEN m.capa
                ELSE IF m.capa > n THEN 2 * m.capa ELSE m.capa + n
    IN  [buf |-> m.buf \o s, capa |-> capa,
         overrun |-> m.overrun \/ Len(m.buf) + n > capa]

(* The n bytes of x, most significant first. *)
BigEndian(x, n) == [i \in 1..n |-> (x \div Base^(n - i)) % Base]

(* operator<< of every type. *)
Put(m, a) ==
    IF a.type = "string" THEN rawbytes(rawbyte(m, BigEndian(Len(a.v), 4)), a.v)
    ELSE rawbyte(m, FlattenSeq([i \in DOMAIN a.v |-> BigEndian(a.v[i], Widths[a.type][i])]))

(* pack_req_header, pack_reply_header: over the bytes behind the size. *)
PackHeader(m, fields) ==
    LET bytes == FlattenSeq([i \in DOMAIN fields |-> BigEndian(fields[i], 4)])
    IN  [m EXCEPT !.buf = SubSeq(@, 1, 4) \o bytes
                             \o SubSeq(@, 5 + Len(bytes), Len(@))]

(* What the channel delivers: the buffer up to _ind, the size filled in. *)
Pdu(m) == BigEndian(Len(m.buf), 4) \o SubSeq(m.buf, 5, Len(m.buf))

-----------------------------------------------------------------------------
(* unmarshall: _buf with its _sz, _ind, _ok, and whether a read left _buf,   *)
(* which ends the process; a read returns a number too.                      *)
unmarshall(b, i) == [buf |-> b, ind |-> i, ok |-> TRUE, over |-> FALSE]

(* unmarshall::rawbyte, called for the i-th time: a char, so the unsigned     *)
(* result is sign-extended; and 0 behind the end.                            *)
ReadByte(u, i) ==
    IF u.ind + i > Len(u.buf) THEN 0
    ELSE LET c == u.buf[u.ind + i] IN IF c < Base \div 2 THEN c ELSE Int32 - Base + c

(* u after n calls of rawbyte. *)
Advance(u, n) ==
    IF u.ind + n > Len(u.buf) THEN [u EXCEPT !.ind = Len(u.buf), !.ok = FALSE]
    ELSE [u EXCEPT !.ind = @ + n]

(* Mutant of GetNumber: without & 0xff. *)
GetNumberUnmasked(u, n) ==
    LET x[i \in 0..n] == IF i = 0 THEN 0 ELSE x[i - 1] * Base + ReadByte(u, i)
    IN  [x |-> x[n], u |-> Advance(u, n)]

GetNumber(u, n) ==
    LET x[i \in 0..n] == IF i = 0 THEN 0 ELSE x[i - 1] * Base + (ReadByte(u, i) % Base)
    IN  [x |-> x[n], u |-> Advance(u, n)]

(* operator>> of a string: rawbytes only if the size was read.  The sum of   *)
(* _ind and the size is unsigned, and may wrap.                              *)
GetString(u) ==
    LET size == GetNumber(u, 4)
        w    == size.u
    IN  IF ~w.ok THEN [v |-> <<>>, u |-> w]
        ELSE IF (w.ind + size.x) % Int32 > Len(w.buf)
        THEN [v |-> <<>>, u |-> [w EXCEPT !.ok = FALSE]]
        ELSE IF w.ind + size.x > Len(w.buf)
        THEN [v |-> <<>>, u |-> [w EXCEPT !.over = TRUE]]
        ELSE [v |-> SubSeq(w.buf, w.ind + 1, w.ind + size.x),
              u |-> [w EXCEPT !.ind = @ + size.x]]

(* operator>> of every type. *)
Get(u, type) ==
    LET number(acc, w) == LET r == GetNumber(acc.u, w)
                          IN  [v |-> Append(acc.v, r.x), u |-> r.u]
        r == IF type = "string" THEN GetString(u)
             ELSE FoldLeft(number, [v |-> <<>>, u |-> u], Widths[type])
    IN  [a |-> [type |-> type, v |-> r.v], u |-> r.u]

GetAll(u, types) ==
    LET next(acc, t) == LET r == Get(acc.u, t)
                        IN  [as |-> Append(acc.as, r.a), u |-> r.u]
    IN  FoldLeft(next, [as |-> <<>>, u |-> u], types)

(* unpack_req_header, unpack_reply_header: n ints, then past the header. *)
UnpackHeader(u, n) ==
    [fields |-> [i \in 1..n |-> GetNumber([u EXCEPT !.ind = 4 * i], 4).x],
     u |-> [Advance([u EXCEPT !.ind = 4], 4 * n) EXCEPT !.ind = RPC_HEADER_SZ]]

(* unmarshall::take_in. *)
TakeIn(u) ==
    [buf |-> u.buf, ind |-> RPC_HEADER_SZ, ok |-> Len(u.buf) >= RPC_HEADER_SZ, over |-> FALSE]

okdone(u) == u.ok /\ u.ind = Len(u.buf)

-----------------------------------------------------------------------------
(* The values that are tried: of a number, 0 and ones with high bits set. *)
Numbers(w) == {0, Base^w - 1} \cup (IF w = 4 THEN {Base^3} ELSE {})
Strings == {<<>>, <<Base - 1>>, <<0, 0, 0, 0>>}
Types == {"char", "short", "int", "ull", "string", "attr"}

Values(type) ==
    IF type = "string" THEN {[type |-> type, v |-> s] : s \in Strings}
    ELSE IF type = "attr" THEN {[type |-> type, v |-> <<1, Base, Base^3, Int32 - 1>>]}
    ELSE {[type |-> type, v |-> <<x>>] : x \in Numbers(Widths[type][1])}

TypedValues == UNION {Values(t) : t \in Types}
Signatures == BoundedSeq(Types, MaxArgs)
TypesOf(as) == [i \in DOMAIN as |-> as[i].type]

(* xid, proc, clt_nonce, srv_nonce, xid_rep: five values, some with high bits. *)
Header == <<1, Int32 - 1, Int32 \div 2, Base + 2, 0>>

NoResult == [ret |-> 0, r |-> [type |-> "none", v |-> <<>>]]

StubInit ==
    /\ stage = "call" /\ args \in BoundedSeq(TypedValues, MaxArgs)
    /\ request = marshall /\ reply = marshall
    /\ handled = [header |-> <<>>, ran |-> FALSE, args |-> <<>>]
    /\ result = NoResult /\ outcome = NoResult

(* rpcc::call and the marshalling in call1. *)
Call ==
    /\ stage = "call" /\ stage' = "sent"
    /\ request' = PackHeader(FoldLeft(Put, marshall, args), Header)
    /\ UNCHANGED <<args, handled, result, reply, outcome>>

(* rpcs::dispatch of a new request, with a handler of signature sig. *)
Dispatch(sig) ==
    LET h   == UnpackHeader(unmarshall(Pdu(request), 0), 5)
        got == GetAll(h.u, sig)
        ran == ~got.u.over /\ okdone(got.u)
    IN  /\ stage = "sent" /\ h.u.ok
        /\ stage' = IF got.u.over THEN "gone" ELSE "answered"
        /\ handled' = [header |-> h.fields, ran |-> ran, args |-> got.as]
        /\ IF ran
           THEN \E r \in TypedValues, b \in {0, 5} :      \* sob->*meth
                    /\ result' = [ret |-> b, r |-> r]
                    /\ reply' = PackHeader(Put(marshall, r), <<h.fields[1], b>>)
           ELSE IF got.u.over THEN UNCHANGED <<result, reply>>
           ELSE /\ result' = [NoResult EXCEPT !.ret = unmarshal_args_failure]
                /\ reply' = PackHeader(marshall, <<h.fields[1], unmarshal_args_failure>>)
        /\ UNCHANGED <<args, request, outcome>>

(* Mutant of Return: call_m does not ask for okdone. *)
ReturnUnchecked(type) ==
    LET h == UnpackHeader(unmarshall(Pdu(reply), 0), 2)
        r == Get(TakeIn(h.u), type)
        over == h.fields[2] < Int32 \div 2 /\ r.u.over
    IN  /\ stage = "answered" /\ h.u.ok /\ h.fields[1] = Header[1]
        /\ stage' = IF over THEN "gone" ELSE "returned"
        /\ outcome' = IF h.fields[2] >= Int32 \div 2 THEN [NoResult EXCEPT !.ret = h.fields[2]]
                      ELSE [ret |-> h.fields[2], r |-> r.a]
        /\ UNCHANGED <<args, request, handled, result, reply>>

(* rpcc::got_pdu of the reply and call_m, for a caller that wants a type. *)
Return(type) ==
    LET h == UnpackHeader(unmarshall(Pdu(reply), 0), 2)
        r == Get(TakeIn(h.u), type)
        intret == h.fields[2]
        over == h.fields[2] < Int32 \div 2 /\ r.u.over
    IN  /\ stage = "answered" /\ h.u.ok /\ h.fields[1] = Header[1]
        /\ stage' = IF over THEN "gone" ELSE "returned"
        /\ outcome' = IF intret >= Int32 \div 2 THEN [NoResult EXCEPT !.ret = intret]
                      ELSE [ret |-> IF okdone(r.u) THEN intret ELSE unmarshal_reply_failure,
                            r |-> r.a]
        /\ UNCHANGED <<args, request, handled, result, reply>>

StubNext ==
    \/ Call
    \/ \E sig \in Signatures : Dispatch(sig)
    \/ \E type \in Types : Return(type)

-----------------------------------------------------------------------------
(* Everything after the header of a request, or of a reply. *)
Body(m) == SubSeq(m.buf, RPC_HEADER_SZ + 1, Len(m.buf))
BodyOf(as) == Body(FoldLeft(Put, marshall, as))

(***************************************************************************)
(* dispatch reads the header that call1 packed, although the arguments     *)
(* were marshalled and the buffer reallocated before; no write goes past   *)
(* _capa, whatever the lengths.  The method is run only on arguments that  *)
(* account for every byte of the request; with the caller's own types it   *)
(* is run, and on the caller's arguments.  (Other types with the same      *)
(* bytes, as a ull for two ints, are accepted; and an int that is read as  *)
(* the size of a string may end the server.)                               *)
(***************************************************************************)
HandlerGetsArguments ==
    /\ ~request.overrun
    /\ stage \notin {"call", "sent"} =>
          /\ handled.header = Header
          /\ handled.ran => BodyOf(handled.args) = Body(request)
          /\ TypesOf(handled.args) = TypesOf(args) => handled.ran /\ handled.args = args

(***************************************************************************)
(* call_m returns the method's int only with a result that accounts for    *)
(* every byte of the reply, and the method's own result if the types       *)
(* agree; a request that the handler refused is never reported as success. *)
(* The reply too stays within _capa.                                       *)
(***************************************************************************)
CallerGetsResult ==
    /\ ~reply.overrun
    /\ stage = "returned" =>
          /\ handled.ran /\ outcome.ret = result.ret => BodyOf(<<outcome.r>>) = Body(reply)
          /\ ~handled.ran => outcome.ret = unmarshal_args_failure
          /\ outcome.ret \in {result.ret, unmarshal_reply_failure}
    /\ handled.ran /\ outcome.r.type = result.r.type => outcome = result
=============================================================================
