------------------------------ MODULE Marshall ------------------------------
(***************************************************************************)
(* The messages of the rpc library (rpc/marshall.h): how a request or a    *)
(* reply is laid out in a buffer and taken apart again.                    *)
(*                                                                         *)
(* A buffer is a sequence of cells.  A cell is a 4-byte number or one      *)
(* character of a string, so sizes and positions are counted in cells.     *)
(* Checksums are off (RPC_CHECKSUMMING is not defined).                    *)
(***************************************************************************)
EXTENDS ExtentProtocol, Sequences, SequencesExt

\* How many numbers fit in a cell (2^32): an extentid_t takes two cells.
CONSTANT Word

ASSUME WordAssumption == Word \in Nat \ {0}

rpc_sz_t     == 1
req_header   == <<"xid", "proc", "clt_nonce", "srv_nonce", "xid_rep">>
reply_header == <<"xid", "ret">>

\* Mutant: the room for the smaller header.
static_max_min(A, B) == IF A > B THEN B ELSE A

static_max(A, B) == IF A > B THEN A ELSE B

RPC_HEADER_SZ == static_max(Len(req_header), Len(reply_header)) + rpc_sz_t

\* A new buffer: malloc'd room for the header, and nothing behind it.  What a
\* header leaves unset is never read (here 0).
marshall == [k \in 1..RPC_HEADER_SZ |-> 0]

\* Writes at the head of the buffer and puts _ind back, so what would lie
\* behind the content is not sent.  The cell before the header is the channel's.
pack_header(m, cells) ==
  [k \in DOMAIN m |-> IF k - rpc_sz_t \in DOMAIN cells THEN cells[k - rpc_sz_t] ELSE m[k]]

pack_req_header(m, h) ==
  pack_header(m, [k \in DOMAIN req_header |-> h[req_header[k]]])

pack_reply_header(m, h) ==
  pack_header(m, [k \in DOMAIN reply_header |-> h[reply_header[k]]])

\* operator<<
Cells(type, v) ==
  CASE type = "int"    -> <<v>>
    [] type = "ull"    -> <<v \div Word, v % Word>>
    [] type = "string" -> <<Len(v)>> \o v
    [] type = "attr"   -> <<v.type, v.atime, v.mtime, v.ctime, v.size>>

\* m << a1, and m << a2 for a method of two arguments.
Put(m, types, values) ==
  IF Len(types) = 1 THEN m \o Cells(types[1], values[1])
                    ELSE m \o Cells(types[1], values[1]) \o Cells(types[2], values[2])

-----------------------------------------------------------------------------
(* Taking apart.  An unmarshall is a buffer, a place in it and whether      *)
(* every read so far found what it looked for.  A read returns the value    *)
(* and the unmarshall after it.                                             *)

unmarshall(b) == [buf |-> b, ind |-> 0, ok |-> TRUE]

unpack(u) ==
  IF u.ind < Len(u.buf)
  THEN [v |-> u.buf[u.ind + 1], u |-> [u EXCEPT !.ind = @ + 1]]
  ELSE [v |-> 0, u |-> [u EXCEPT !.ok = FALSE]]

rawbytes(u, n) ==
  IF u.ok /\ u.ind + n <= Len(u.buf)
  THEN [v |-> SubSeq(u.buf, u.ind + 1, u.ind + n), u |-> [u EXCEPT !.ind = @ + n]]
  ELSE [v |-> <<>>, u |-> [u EXCEPT !.ok = FALSE]]

\* One unpack for each field of a header or of a struct.
unpack_all(u, fields) ==
  LET fits  == u.ind + Len(fields) <= Len(u.buf)
      at(f) == u.ind + (CHOOSE k \in DOMAIN fields : fields[k] = f)
  IN  [v |-> [f \in ToSet(fields) |-> IF at(f) \in DOMAIN u.buf THEN u.buf[at(f)] ELSE 0],
       u |-> [buf |-> u.buf, ind |-> IF fits THEN u.ind + Len(fields) ELSE Len(u.buf),
              ok |-> u.ok /\ fits]]

unpack_header(u, fields) ==
  LET x == unpack_all([u EXCEPT !.ind = rpc_sz_t], fields)
  IN  [v |-> x.v, u |-> [x.u EXCEPT !.ind = RPC_HEADER_SZ]]

unpack_req_header(u)   == unpack_header(u, req_header)
unpack_reply_header(u) == unpack_header(u, reply_header)

\* operator>>
Read(u, type) ==
  CASE type = "int"    -> unpack(u)
    [] type = "ull"    -> LET high == unpack(u)
                              low  == unpack(high.u)
                          IN  [v |-> high.v * Word + low.v, u |-> low.u]
    [] type = "string" -> LET n == unpack(u) IN rawbytes(n.u, n.v)
    [] type = "attr"   -> unpack_all(u, <<"type", "atime", "mtime", "ctime", "size">>)

\* u >> a1, and u >> a2 for a method of two arguments.
Take(u, types) ==
  LET a1 == Read(u, types[1])
      a2 == Read(a1.u, types[2])
  IN  IF Len(types) = 1 THEN [v |-> <<a1.v>>, u |-> a1.u]
                        ELSE [v |-> <<a1.v, a2.v>>, u |-> a2.u]

okdone(u) == u.ok /\ u.ind = Len(u.buf)
=============================================================================
