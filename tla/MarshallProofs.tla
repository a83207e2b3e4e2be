--------------------------- MODULE MarshallProofs ---------------------------
(***************************************************************************)
(* What is read from a message is what was written to it, for headers and  *)
(* contents of every type, whatever the width of a cell.                   *)
(***************************************************************************)
EXTENDS Marshall, SequenceTheorems, TLAPS

\* The values of a type, with the characters S.
Attrs == [type : Int, atime : Int, mtime : Int, ctime : Int, size : Int]
OfType(S, type, v) ==
  \/ type = "int" /\ v \in Int
  \/ type = "ull" /\ v \in Nat
  \/ type = "string" /\ v \in Seq(S)
  \/ type = "attr" /\ v \in Attrs

\* The cells c lie in the buffer b behind place i.
Holds(b, i, c) ==
  i + Len(c) <= Len(b) /\ \A k \in 1..Len(c) : b[i + k] = c[k]

Reader(b, i) == [buf |-> b, ind |-> i, ok |-> TRUE]

\* A read moves the place and leaves the buffer.
LEMMA Moved ==
  ASSUME NEW b, NEW i, NEW n
  PROVE  [Reader(b, i) EXCEPT !.ind = n] = Reader(b, n)
<1> DEFINE ok == TRUE
<1>1. [[buf |-> b, ind |-> i, ok |-> ok] EXCEPT !.ind = n] = [buf |-> b, ind |-> n, ok |-> ok]
  <2> HIDE DEF ok
  <2> QED OBVIOUS
<1> QED BY <1>1 DEF Reader

\* An int is read back: unpack gives the cell and moves by one.
LEMMA ReadInt ==
  ASSUME NEW S, NEW b \in Seq(S), NEW i \in Nat, NEW v, Holds(b, i, <<v>>)
  PROVE  unpack(Reader(b, i)) = [v |-> v, u |-> Reader(b, i + 1)]
<1>1. i + 1 <= Len(b) /\ b[i + 1] = v
  BY DEF Holds
<1>2. i < Len(b)
  BY <1>1
<1> QED BY <1>1, <1>2 DEF unpack, Reader

\* An extentid_t is read back from its two cells.
LEMMA ReadUll ==
  ASSUME NEW S, NEW b \in Seq(S), NEW i \in Nat, NEW v \in Nat, Holds(b, i, Cells("ull", v))
  PROVE  Read(Reader(b, i), "ull") = [v |-> v, u |-> Reader(b, i + 2)]
<1>1. Cells("ull", v) = <<v \div Word, v % Word>>
  BY DEF Cells
<1>2. i + 2 <= Len(b) /\ b[i + 1] = v \div Word /\ b[i + 1 + 1] = v % Word
  <2>1. \A k \in 1..2 : b[i + k] = <<v \div Word, v % Word>>[k]
    BY <1>1 DEF Holds
  <2>2. b[i + 1] = v \div Word /\ b[i + 2] = v % Word /\ i + 2 = i + 1 + 1
    BY <2>1
  <2> QED BY <1>1, <2>2 DEF Holds
<1>3. unpack(Reader(b, i)) = [v |-> v \div Word, u |-> Reader(b, i + 1)]
  <2>1. Holds(b, i, <<v \div Word>>)
    BY <1>2 DEF Holds
  <2> QED BY <2>1, ReadInt
<1>4. unpack(Reader(b, i + 1)) = [v |-> v % Word, u |-> Reader(b, i + 2)]
  <2>1. Holds(b, i + 1, <<v % Word>>)
    BY <1>2 DEF Holds
  <2>2. unpack(Reader(b, i + 1)) = [v |-> v % Word, u |-> Reader(b, i + 1 + 1)]
    BY <2>1, ReadInt
  <2>3. i + 1 + 1 = i + 2
    OBVIOUS
  <2> QED BY <2>2, <2>3
<1>5. (v \div Word) * Word + (v % Word) = v
  BY WordAssumption
<1> QED BY <1>3, <1>4, <1>5 DEF Read

\* A string is read back: its length, then as many characters.
LEMMA ReadString ==
  ASSUME NEW S, NEW b \in Seq(S), NEW i \in Nat, NEW T, NEW v \in Seq(T),
         Holds(b, i, Cells("string", v))
  PROVE  Read(Reader(b, i), "string") = [v |-> v, u |-> Reader(b, i + 1 + Len(v))]
<1>1. Cells("string", v) = <<Len(v)>> \o v
  BY DEF Cells
<1> DEFINE n == Len(v)
           c == <<n>> \o v
<1>2. /\ n \in Nat /\ Len(c) = n + 1 /\ c[1] = n
      /\ \A k \in 1..n : c[k + 1] = v[k]
  <2>1. <<n>> \in Seq(T \cup {n}) /\ v \in Seq(T \cup {n}) /\ n \in Nat
    OBVIOUS
  <2>2. Len(<<n>>) = 1 /\ <<n>>[1] = n
    OBVIOUS
  <2> HIDE DEF n
  <2>3. /\ Len(<<n>> \o v) = 1 + Len(v)
        /\ \A k \in 1..(1 + Len(v)) :
             (<<n>> \o v)[k] = IF k <= 1 THEN <<n>>[k] ELSE v[k - 1]
    BY <2>1, <2>2, ConcatProperties
  <2>4. Len(v) = n
    BY DEF n
  <2> QED BY <2>1, <2>2, <2>3, <2>4
<1>3. i + (n + 1) <= Len(b) /\ \A k \in 1..(n + 1) : b[i + k] = c[k]
  BY <1>1, <1>2 DEF Holds
<1>4. unpack(Reader(b, i)) = [v |-> n, u |-> Reader(b, i + 1)]
  <2>1. Holds(b, i, <<n>>)
    <3>1. b[i + 1] = n
      BY <1>2, <1>3
    <3> QED BY <1>2, <1>3, <3>1 DEF Holds
  <2> QED BY <2>1, ReadInt
<1>5. SubSeq(b, i + 1 + 1, i + 1 + n) = v
  <2> DEFINE s == SubSeq(b, i + 1 + 1, i + 1 + n)
  <2>1. n \in Nat /\ Len(b) \in Nat /\ \A k \in i + 1 + 1 .. i + 1 + n : b[k] \in S
    BY <1>2, <1>3
  <2>2. /\ s \in Seq(S)
        /\ Len(s) = IF i + 1 + 1 <= i + 1 + n THEN (i + 1 + n) - (i + 1 + 1) + 1 ELSE 0
        /\ \A k \in 1 .. (i + 1 + n) - (i + 1 + 1) + 1 : s[k] = b[i + 1 + 1 + k - 1]
    BY <2>1, SubSeqProperties
  <2> HIDE DEF s, n, c
  <2>3. Len(s) = n /\ (i + 1 + n) - (i + 1 + 1) + 1 = n
    BY <2>1, <2>2
  <2>4. ASSUME NEW k \in 1..n PROVE s[k] = v[k]
    <3>1. s[k] = b[i + 1 + 1 + k - 1] /\ i + 1 + 1 + k - 1 = i + (k + 1) /\ k + 1 \in 1..(n + 1)
      BY <2>1, <2>2, <2>3
    <3> QED BY <1>2, <1>3, <3>1
  <2>5. s \in Seq(S \cup T) /\ v \in Seq(S \cup T) /\ n = Len(v)
    BY <2>2 DEF n
  <2>6. s = v
    BY <2>3, <2>4, <2>5, SeqEqual
  <2> QED BY <2>6 DEF s
<1>6. rawbytes(Reader(b, i + 1), n) = [v |-> v, u |-> Reader(b, i + 1 + n)]
  <2> DEFINE u == Reader(b, i + 1)
  <2>1. n \in Nat /\ i + 1 + n <= Len(b)
    BY <1>2, <1>3
  <2>2. u.ok /\ u.ind = i + 1 /\ u.buf = b
    BY DEF Reader
  <2>a. [u EXCEPT !.ind = i + 1 + n] = Reader(b, i + 1 + n)
    BY Moved
  <2> HIDE DEF u, n
  <2>3. rawbytes(u, n) = [v |-> SubSeq(b, i + 1 + 1, i + 1 + n), u |-> [u EXCEPT !.ind = @ + n]]
    BY <2>1, <2>2 DEF rawbytes
  <2> QED BY <1>5, <2>2, <2>3, <2>a DEF u
<1> QED BY <1>4, <1>6 DEF Read

\* h is a record with these fields, and its values lie in b behind place i.
Laid(b, i, h, fields) ==
  /\ \A k, l \in DOMAIN fields : fields[k] = fields[l] => k = l
  /\ h = [f \in ToSet(fields) |-> h[f]]
  /\ i + Len(fields) <= Len(b)
  /\ \A k \in 1..Len(fields) : b[i + k] = h[fields[k]]

\* Fields of a header or a struct that lie in the buffer are read back, each from its own cell.
LEMMA UnpackAll ==
  ASSUME NEW S, NEW b \in Seq(S), NEW i \in Nat, NEW F, NEW fields \in Seq(F), NEW h,
         Laid(b, i, h, fields)
  PROVE  unpack_all(Reader(b, i), fields) = [v |-> h, u |-> Reader(b, i + Len(fields))]
<1> DEFINE at(f) == i + (CHOOSE k \in DOMAIN fields : fields[k] = f)
           fits  == i + Len(fields) <= Len(b)
           u     == Reader(b, i)
           w     == [f \in ToSet(fields) |-> IF at(f) \in DOMAIN b THEN b[at(f)] ELSE 0]
<1>1. Len(fields) \in Nat /\ DOMAIN fields = 1..Len(fields) /\ DOMAIN b = 1..Len(b) /\ Len(b) \in Nat
  OBVIOUS
<1>a. /\ \A k, l \in DOMAIN fields : fields[k] = fields[l] => k = l
      /\ i + Len(fields) <= Len(b)
      /\ \A k \in 1..Len(fields) : b[i + k] = h[fields[k]]
  BY DEF Laid
<1>b. h = [f \in ToSet(fields) |-> h[f]]
  BY DEF Laid
<1>2. ASSUME NEW f \in ToSet(fields) PROVE at(f) \in DOMAIN b /\ b[at(f)] = h[f]
  <2>1. PICK k \in DOMAIN fields : fields[k] = f
    BY DEF ToSet
  <2>2. (CHOOSE l \in DOMAIN fields : fields[l] = f) = k
    BY <1>a, <2>1
  <2>3. at(f) = i + k
    BY <2>2
  <2> HIDE DEF at
  <2>4. k \in 1..Len(fields) /\ i + k \in 1..Len(b) /\ b[i + k] = h[fields[k]]
    BY <1>1, <1>a, <2>1
  <2> QED BY <1>1, <2>1, <2>3, <2>4
<1>3. w = h
  <2> HIDE DEF at
  <2> QED BY <1>2, <1>b
<1>4. u.ind = i /\ u.buf = b /\ u.ok = TRUE
  BY DEF Reader
<1>5. unpack_all(u, fields) =
        [v |-> w, u |-> [buf |-> b, ind |-> IF fits THEN i + Len(fields) ELSE Len(b), ok |-> TRUE /\ fits]]
  BY DEF unpack_all, Reader
<1>6. [buf |-> b, ind |-> IF fits THEN i + Len(fields) ELSE Len(b), ok |-> TRUE /\ fits]
        = Reader(b, i + Len(fields))
  BY <1>a DEF Reader
<1> QED BY <1>3, <1>5, <1>6

\* The attributes of an extent are read back, field by field.
LEMMA ReadAttr ==
  ASSUME NEW S, NEW b \in Seq(S), NEW i \in Nat,
         NEW v \in Attrs,
         Holds(b, i, Cells("attr", v))
  PROVE  Read(Reader(b, i), "attr") = [v |-> v, u |-> Reader(b, i + 5)]
<1> DEFINE fields == <<"type", "atime", "mtime", "ctime", "size">>
           F == {"type", "atime", "mtime", "ctime", "size"}
           c == <<v.type, v.atime, v.mtime, v.ctime, v.size>>
<1>1. Cells("attr", v) = c
  BY DEF Cells
<1>2. /\ fields \in Seq(F) /\ Len(fields) = 5 /\ DOMAIN fields = 1..5
      /\ \A k, l \in DOMAIN fields : fields[k] = fields[l] => k = l
  <2>1. fields \in Seq(F) /\ Len(fields) = 5
    OBVIOUS
  <2>2. /\ fields[1] = "type" /\ fields[2] = "atime" /\ fields[3] = "mtime"
        /\ fields[4] = "ctime" /\ fields[5] = "size"
    OBVIOUS
  <2> HIDE DEF fields
  <2> QED BY <2>1, <2>2
<1>3. v = [f \in ToSet(fields) |-> v[f]]
  <2>1. ToSet(fields) = {"type", "atime", "mtime", "ctime", "size"}
    BY DEF ToSet
  <2> QED BY <2>1 DEF Attrs
<1>4. Len(c) = 5 /\ \A k \in 1..5 : c[k] = v[fields[k]]
  OBVIOUS
<1> HIDE DEF fields, c, F
<1>5. i + Len(fields) <= Len(b) /\ \A k \in 1..Len(fields) : b[i + k] = v[fields[k]]
  BY <1>1, <1>2, <1>4 DEF Holds
<1>6. unpack_all(Reader(b, i), fields) = [v |-> v, u |-> Reader(b, i + Len(fields))]
  <2>1. fields \in Seq(F) /\ Laid(b, i, v, fields)
    BY <1>2, <1>3, <1>5 DEF Laid
  <2> QED BY <2>1, UnpackAll
<1>7. unpack_all(Reader(b, i), fields) = [v |-> v, u |-> Reader(b, i + 5)]
  BY <1>2, <1>6
<1> QED BY <1>7 DEF Read, fields

-----------------------------------------------------------------------------
(* Any type.                                                               *)

\* operator<< writes cells of the alphabet.
LEMMA CellsTyped ==
  ASSUME NEW S, Int \subseteq S, NEW type, NEW v, OfType(S, type, v)
  PROVE  Cells(type, v) \in Seq(S)
<1>1. CASE type = "int" /\ v \in Int
  BY <1>1 DEF Cells
<1>2. CASE type = "ull" /\ v \in Nat
  <2>1. v \div Word \in S /\ v % Word \in S
    BY <1>2, WordAssumption
  <2> QED BY <1>2, <2>1 DEF Cells
<1>3. CASE type = "string" /\ v \in Seq(S)
  <2>1. <<Len(v)>> \in Seq(S)
    BY <1>3
  <2>2. <<Len(v)>> \o v \in Seq(S)
    BY <1>3, <2>1, ConcatProperties
  <2> QED BY <1>3, <2>2 DEF Cells
<1>4. CASE type = "attr" /\ v \in Attrs
  BY <1>4 DEF Cells, Attrs
<1> QED BY <1>1, <1>2, <1>3, <1>4 DEF OfType

\* operator>> of a type reads back what operator<< of that type wrote, and stops behind it.
LEMMA ReadCells ==
  ASSUME NEW S, Int \subseteq S, NEW b \in Seq(S), NEW i \in Nat, NEW type, NEW v,
         OfType(S, type, v), Holds(b, i, Cells(type, v))
  PROVE  Read(Reader(b, i), type) = [v |-> v, u |-> Reader(b, i + Len(Cells(type, v)))]
<1>1. CASE type = "int" /\ v \in Int
  <2>1. Cells(type, v) = <<v>> /\ Len(<<v>>) = 1
    BY <1>1 DEF Cells
  <2>2. Read(Reader(b, i), type) = unpack(Reader(b, i))
    BY <1>1 DEF Read
  <2> QED BY <2>1, <2>2, ReadInt
<1>2. CASE type = "ull" /\ v \in Nat
  <2>1. Len(Cells(type, v)) = 2
    BY <1>2 DEF Cells
  <2> QED BY <1>2, <2>1, ReadUll
<1>3. CASE type = "string" /\ v \in Seq(S)
  <2>1. Len(<<Len(v)>> \o v) = 1 + Len(v)
    <3>1. <<Len(v)>> \in Seq(S) /\ Len(<<Len(v)>>) = 1
      BY <1>3
    <3> QED BY <1>3, <3>1, ConcatProperties
  <2>2. Len(Cells(type, v)) = 1 + Len(v) /\ Len(v) \in Nat
    BY <1>3, <2>1 DEF Cells
  <2>3. i + 1 + Len(v) = i + (1 + Len(v))
    BY <2>2
  <2> QED BY <1>3, <2>2, <2>3, ReadString
<1>4. CASE type = "attr" /\ v \in Attrs
  <2>1. Len(Cells(type, v)) = 5
    BY <1>4 DEF Cells
  <2> QED BY <1>4, <2>1, ReadAttr
<1> QED BY <1>1, <1>2, <1>3, <1>4 DEF OfType

\* The room for a header is that of the larger one, and the cell of the channel.
LEMMA HeaderSize == RPC_HEADER_SZ = 6
<1>1. Len(req_header) = 5 /\ Len(reply_header) = 2
  BY DEF req_header, reply_header
<1> QED BY <1>1 DEF RPC_HEADER_SZ, static_max, rpc_sz_t

\* A new buffer has just the room for a header.
LEMMA NewBuffer ==
  ASSUME NEW S, Int \subseteq S
  PROVE  marshall \in Seq(S) /\ Len(marshall) = 6
BY HeaderSize DEF marshall

\* The buffer b has the cells h of a header and the content c.
Packed(S, b, h, c) ==
  /\ b \in Seq(S) /\ Len(b) = 6 + Len(c)
  /\ \A k \in 1..Len(h) : b[1 + k] = h[k]
  /\ Holds(b, 6, c)

\* A header lies in front of the content, and overwrites nothing of it.
LEMMA HeaderPacked ==
  ASSUME NEW S, Int \subseteq S, NEW c \in Seq(S), NEW h \in Seq(S), Len(h) <= 5,
         NEW b, b = pack_header(marshall \o c, h)
  PROVE  Packed(S, b, h, c)
<1> DEFINE m == marshall \o c
<1>1. Len(c) \in Nat /\ Len(h) \in Nat /\ DOMAIN h = 1..Len(h)
  OBVIOUS
<1>2. /\ m \in Seq(S) /\ Len(m) = 6 + Len(c)
      /\ \A k \in 1..(6 + Len(c)) : m[k] = IF k <= 6 THEN marshall[k] ELSE c[k - 6]
  <2>1. marshall \in Seq(S) /\ Len(marshall) = 6
    BY NewBuffer
  <2>2. /\ m \in Seq(S) /\ Len(m) = Len(marshall) + Len(c)
        /\ \A k \in 1..(Len(marshall) + Len(c)) :
             m[k] = IF k <= Len(marshall) THEN marshall[k] ELSE c[k - Len(marshall)]
    BY <2>1, ConcatProperties
  <2> HIDE DEF m
  <2> QED BY <2>1, <2>2
<1>3. b = [k \in 1..(6 + Len(c)) |-> IF k - 1 \in 1..Len(h) THEN h[k - 1] ELSE m[k]]
  <2>1. b = pack_header(m, h)
    OBVIOUS
  <2> HIDE DEF m
  <2>2. DOMAIN m = 1..(6 + Len(c))
    BY <1>2
  <2>3. b = [k \in DOMAIN m |-> IF k - 1 \in DOMAIN h THEN h[k - 1] ELSE m[k]]
    BY <2>1 DEF pack_header, rpc_sz_t
  <2> QED BY <1>1, <2>2, <2>3
<1> HIDE DEF m
<1>4. b \in Seq(S) /\ Len(b) = 6 + Len(c)
  BY <1>1, <1>2, <1>3
<1>5. \A k \in 1..Len(h) : b[1 + k] = h[k]
  BY <1>1, <1>3
<1>6. ASSUME NEW k \in 1..Len(c) PROVE b[6 + k] = c[k]
  <2>1. 6 + k \in 1..(6 + Len(c)) /\ (6 + k) - 1 \notin 1..Len(h) /\ (6 + k) - 6 = k /\ ~ (6 + k <= 6)
    BY <1>1
  <2> QED BY <1>2, <1>3, <2>1
<1> QED BY <1>1, <1>4, <1>5, <1>6 DEF Packed, Holds

\* Unpacking a header leaves the reader at the content.
LEMMA HeaderUnpacked ==
  ASSUME NEW S, NEW b \in Seq(S), NEW F, NEW fields \in Seq(F), NEW h, Laid(b, 1, h, fields)
  PROVE  unpack_header(unmarshall(b), fields) = [v |-> h, u |-> Reader(b, 6)]
<1>1. unmarshall(b) = Reader(b, 0)
  BY DEF unmarshall, Reader
<1>2. [unmarshall(b) EXCEPT !.ind = rpc_sz_t] = Reader(b, 1)
  BY <1>1, Moved DEF rpc_sz_t
<1>3. unpack_all(Reader(b, 1), fields) = [v |-> h, u |-> Reader(b, 1 + Len(fields))]
  BY UnpackAll
<1> DEFINE x == unpack_all(Reader(b, 1), fields)
<1>4. x.v = h /\ x.u = Reader(b, 1 + Len(fields))
  BY <1>3
<1>5. [x.u EXCEPT !.ind = RPC_HEADER_SZ] = Reader(b, 6)
  BY <1>4, Moved, HeaderSize
<1>6. unpack_header(unmarshall(b), fields) = [v |-> x.v, u |-> [x.u EXCEPT !.ind = RPC_HEADER_SZ]]
  BY <1>2 DEF unpack_header
<1> HIDE DEF x
<1> QED BY <1>4, <1>5, <1>6

ReqHeader   == [xid : Int, proc : Int, clt_nonce : Int, srv_nonce : Int, xid_rep : Int]
ReplyHeader == [xid : Int, ret : Int]

\* The header of a request is read as it was packed, and the content follows it.
LEMMA ReqHeaderRead ==
  ASSUME NEW S, Int \subseteq S, NEW c \in Seq(S), NEW h \in ReqHeader,
         NEW b, b = pack_req_header(marshall \o c, h)
  PROVE  /\ b \in Seq(S) /\ Len(b) = 6 + Len(c) /\ Holds(b, 6, c)
         /\ unpack_req_header(unmarshall(b)) = [v |-> h, u |-> Reader(b, 6)]
<1> DEFINE cells == [k \in DOMAIN req_header |-> h[req_header[k]]]
           F == {"xid", "proc", "clt_nonce", "srv_nonce", "xid_rep"}
<1>1. /\ req_header \in Seq(F) /\ Len(req_header) = 5 /\ DOMAIN req_header = 1..5
      /\ \A k, l \in DOMAIN req_header : req_header[k] = req_header[l] => k = l
  <2>1. req_header \in Seq(F) /\ Len(req_header) = 5
    BY DEF req_header
  <2>2. /\ req_header[1] = "xid" /\ req_header[2] = "proc" /\ req_header[3] = "clt_nonce"
        /\ req_header[4] = "srv_nonce" /\ req_header[5] = "xid_rep"
    BY DEF req_header
  <2> QED BY <2>1, <2>2
<1>2. h = [f \in ToSet(req_header) |-> h[f]]
  <2>1. ToSet(req_header) = F
    BY DEF ToSet, req_header
  <2> QED BY <2>1 DEF ReqHeader
<1>3. cells \in Seq(S) /\ Len(cells) = 5
  <2>1. ASSUME NEW k \in 1..5 PROVE h[req_header[k]] \in S
    <3>1. \A f \in F : h[f] \in Int
      BY DEF ReqHeader
    <3> HIDE DEF F
    <3>2. req_header \in Seq(F) /\ k \in 1..Len(req_header)
      BY <1>1
    <3>3. req_header[k] \in F
      BY <3>2
    <3> QED BY <3>1, <3>3
  <2> QED BY <1>1, <2>1
<1>4. \A k \in 1..5 : cells[k] = h[req_header[k]]
  BY <1>1
<1>5. b = pack_header(marshall \o c, cells)
  BY DEF pack_req_header
<1> HIDE DEF cells, F
<1>6. /\ b \in Seq(S) /\ Len(b) = 6 + Len(c) /\ Holds(b, 6, c)
      /\ \A k \in 1..5 : b[1 + k] = cells[k]
  <2>1. Len(cells) <= 5
    BY <1>3
  <2>2. Packed(S, b, cells, c)
    BY <1>3, <1>5, <2>1, HeaderPacked
  <2> QED BY <1>3, <2>2 DEF Packed
<1>7. Laid(b, 1, h, req_header)
  BY <1>1, <1>2, <1>4, <1>6 DEF Laid
<1>8. unpack_req_header(unmarshall(b)) = [v |-> h, u |-> Reader(b, 6)]
  BY <1>1, <1>6, <1>7, HeaderUnpacked DEF unpack_req_header
<1> QED BY <1>6, <1>8

\* So is the header of a reply.
LEMMA ReplyHeaderRead ==
  ASSUME NEW S, Int \subseteq S, NEW c \in Seq(S), NEW h \in ReplyHeader,
         NEW b, b = pack_reply_header(marshall \o c, h)
  PROVE  /\ b \in Seq(S) /\ Len(b) = 6 + Len(c) /\ Holds(b, 6, c)
         /\ unpack_reply_header(unmarshall(b)) = [v |-> h, u |-> Reader(b, 6)]
<1> DEFINE cells == [k \in DOMAIN reply_header |-> h[reply_header[k]]]
           F == {"xid", "ret"}
<1>1. /\ reply_header \in Seq(F) /\ Len(reply_header) = 2 /\ DOMAIN reply_header = 1..2
      /\ \A k, l \in DOMAIN reply_header : reply_header[k] = reply_header[l] => k = l
  <2>1. reply_header \in Seq(F) /\ Len(reply_header) = 2
    BY DEF reply_header
  <2>2. reply_header[1] = "xid" /\ reply_header[2] = "ret"
    BY DEF reply_header
  <2> QED BY <2>1, <2>2
<1>2. h = [f \in ToSet(reply_header) |-> h[f]]
  <2>1. ToSet(reply_header) = F
    BY DEF ToSet, reply_header
  <2> QED BY <2>1 DEF ReplyHeader
<1>3. cells \in Seq(S) /\ Len(cells) = 2
  <2>1. ASSUME NEW k \in 1..2 PROVE h[reply_header[k]] \in S
    <3>1. \A f \in F : h[f] \in Int
      BY DEF ReplyHeader
    <3> HIDE DEF F
    <3>2. reply_header \in Seq(F) /\ k \in 1..Len(reply_header)
      BY <1>1
    <3>3. reply_header[k] \in F
      BY <3>2
    <3> QED BY <3>1, <3>3
  <2> QED BY <1>1, <2>1
<1>4. \A k \in 1..2 : cells[k] = h[reply_header[k]]
  BY <1>1
<1>5. b = pack_header(marshall \o c, cells)
  BY DEF pack_reply_header
<1> HIDE DEF cells, F
<1>6. /\ b \in Seq(S) /\ Len(b) = 6 + Len(c) /\ Holds(b, 6, c)
      /\ \A k \in 1..2 : b[1 + k] = cells[k]
  <2>1. Len(cells) <= 5
    BY <1>3
  <2>2. Packed(S, b, cells, c)
    BY <1>3, <1>5, <2>1, HeaderPacked
  <2> QED BY <1>3, <2>2 DEF Packed
<1>7. Laid(b, 1, h, reply_header)
  BY <1>1, <1>2, <1>4, <1>6 DEF Laid
<1>8. unpack_reply_header(unmarshall(b)) = [v |-> h, u |-> Reader(b, 6)]
  BY <1>1, <1>6, <1>7, HeaderUnpacked DEF unpack_reply_header
<1> QED BY <1>6, <1>8
-----------------------------------------------------------------------------
(* Whole messages.                                                         *)

\* The values of a call or of a reply, one or two, have the types.
Typed(S, types, values) ==
  \/ /\ types = <<types[1]>> /\ values = <<values[1]>>
     /\ OfType(S, types[1], values[1])
  \/ /\ types = <<types[1], types[2]>> /\ values = <<values[1], values[2]>>
     /\ OfType(S, types[1], values[1]) /\ OfType(S, types[2], values[2])

\* What Put writes behind the room for the header.
Content(types, values) ==
  IF Len(types) = 1 THEN Cells(types[1], values[1])
                    ELSE Cells(types[1], values[1]) \o Cells(types[2], values[2])

\* Put leaves the room for the header as it is.
LEMMA PutContent ==
  ASSUME NEW S, Int \subseteq S, NEW types, NEW values, Typed(S, types, values)
  PROVE  /\ Content(types, values) \in Seq(S)
         /\ Put(marshall, types, values) = marshall \o Content(types, values)
<1>1. CASE Len(types) = 1
  <2>1. OfType(S, types[1], values[1])
    BY DEF Typed
  <2> QED BY <1>1, <2>1, CellsTyped DEF Content, Put
<1>2. CASE Len(types) # 1
  <2>1. OfType(S, types[1], values[1]) /\ OfType(S, types[2], values[2])
    <3>1. types = <<types[1]>> => Len(types) = 1
      <4>1. ASSUME NEW y, types = <<y>> PROVE Len(types) = 1
        BY <4>1
      <4> QED BY <4>1
    <3> QED BY <1>2, <3>1 DEF Typed
  <2> DEFINE c1 == Cells(types[1], values[1])
             c2 == Cells(types[2], values[2])
  <2>2. c1 \in Seq(S) /\ c2 \in Seq(S) /\ marshall \in Seq(S)
    BY <2>1, CellsTyped, NewBuffer
  <2>3. Content(types, values) = c1 \o c2 /\ Put(marshall, types, values) = (marshall \o c1) \o c2
    BY <1>2 DEF Content, Put
  <2> HIDE DEF c1, c2
  <2>4. c1 \o c2 \in Seq(S)
    BY <2>2, ConcatProperties
  <2>5. (marshall \o c1) \o c2 = marshall \o (c1 \o c2)
    BY <2>2, ConcatAssociative
  <2> QED BY <2>3, <2>4, <2>5
<1> QED BY <1>1, <1>2

\* The values are read as they were put, and nothing is left behind them.
LEMMA ContentRead ==
  ASSUME NEW S, Int \subseteq S, NEW types, NEW values, Typed(S, types, values),
         NEW b \in Seq(S), Holds(b, 6, Content(types, values)),
         Len(b) = 6 + Len(Content(types, values))
  PROVE  Take(Reader(b, 6), types) = [v |-> values, u |-> Reader(b, Len(b))]
<1>1. CASE types = <<types[1]>> /\ values = <<values[1]>> /\ OfType(S, types[1], values[1])
  <2> DEFINE c1 == Cells(types[1], values[1])
             a1 == Read(Reader(b, 6), types[1])
  <2>1. Len(types) = 1
    <3>1. ASSUME NEW y, types = <<y>> PROVE Len(types) = 1
      BY <3>1
    <3> QED BY <1>1, <3>1
  <2>2. Content(types, values) = c1
    BY <2>1 DEF Content
  <2>3. a1 = [v |-> values[1], u |-> Reader(b, 6 + Len(c1))]
    BY <1>1, <2>2, ReadCells
  <2>4. Take(Reader(b, 6), types) = [v |-> <<a1.v>>, u |-> a1.u]
    BY <2>1 DEF Take
  <2> HIDE DEF a1, c1
  <2> QED BY <1>1, <2>2, <2>3, <2>4
<1>2. CASE /\ types = <<types[1], types[2]>> /\ values = <<values[1], values[2]>>
           /\ OfType(S, types[1], values[1]) /\ OfType(S, types[2], values[2])
  <2> DEFINE c1 == Cells(types[1], values[1])
             c2 == Cells(types[2], values[2])
             c  == c1 \o c2
             a1 == Read(Reader(b, 6), types[1])
             a2 == Read(a1.u, types[2])
  <2>1. Len(types) # 1
    <3>1. ASSUME NEW y, NEW z, types = <<y, z>> PROVE Len(types) # 1
      BY <3>1
    <3> QED BY <1>2, <3>1
  <2>2. Content(types, values) = c
    BY <2>1 DEF Content
  <2>3. c1 \in Seq(S) /\ c2 \in Seq(S)
    BY <1>2, CellsTyped
  <2>a. Take(Reader(b, 6), types) = [v |-> <<a1.v, a2.v>>, u |-> a2.u]
    BY <2>1 DEF Take
  <2> HIDE DEF c1, c2
  <2>4. /\ Len(c) = Len(c1) + Len(c2) /\ Len(c1) \in Nat /\ Len(c2) \in Nat
        /\ \A k \in 1..(Len(c1) + Len(c2)) : c[k] = IF k <= Len(c1) THEN c1[k] ELSE c2[k - Len(c1)]
    BY <2>3, ConcatProperties
  <2>5. 6 + Len(c) <= Len(b) /\ (\A k \in 1..Len(c) : b[6 + k] = c[k]) /\ Len(b) = 6 + Len(c)
    BY <2>2 DEF Holds
  <2> HIDE DEF c
  <2>6. Holds(b, 6, c1)
    BY <2>4, <2>5 DEF Holds
  <2>7. Holds(b, 6 + Len(c1), c2)
    <3>1. ASSUME NEW k \in 1..Len(c2) PROVE b[6 + Len(c1) + k] = c2[k]
      <4>1. /\ Len(c1) + k \in 1..Len(c) /\ ~ (Len(c1) + k <= Len(c1))
            /\ (Len(c1) + k) - Len(c1) = k /\ 6 + (Len(c1) + k) = 6 + Len(c1) + k
        BY <2>4
      <4>2. b[6 + (Len(c1) + k)] = c[Len(c1) + k]
        BY <2>5, <4>1
      <4>3. c[Len(c1) + k] = c2[(Len(c1) + k) - Len(c1)]
        BY <2>4, <4>1
      <4> QED BY <4>1, <4>2, <4>3
    <3> QED BY <2>4, <2>5, <3>1 DEF Holds
  <2>8. a1 = [v |-> values[1], u |-> Reader(b, 6 + Len(c1))]
    BY <1>2, <2>6, ReadCells DEF c1
  <2>9. a1.v = values[1] /\ a1.u = Reader(b, 6 + Len(c1))
    BY <2>8
  <2> HIDE DEF a1
  <2>10. a2 = [v |-> values[2], u |-> Reader(b, 6 + Len(c1) + Len(c2))]
    <3>1. PICK i \in Nat : i = 6 + Len(c1)
      BY <2>4
    <3>2. Holds(b, i, Cells(types[2], values[2])) /\ OfType(S, types[2], values[2])
      BY <1>2, <2>7, <3>1 DEF c2
    <3>3. Read(Reader(b, i), types[2])
            = [v |-> values[2], u |-> Reader(b, i + Len(Cells(types[2], values[2])))]
      BY <3>2, ReadCells
    <3>4. a2 = Read(Reader(b, i), types[2])
      BY <2>9, <3>1
    <3> QED BY <3>1, <3>3, <3>4 DEF c2
  <2>11. 6 + Len(c1) + Len(c2) = Len(b)
    BY <2>4, <2>5
  <2> HIDE DEF a2
  <2>12. a2.v = values[2] /\ a2.u = Reader(b, Len(b))
    BY <2>10, <2>11
  <2> QED BY <1>2, <2>9, <2>12, <2>a
<1> QED BY <1>1, <1>2 DEF Typed

\* Everything of b was read.
LEMMA ReaderDone ==
  ASSUME NEW b
  PROVE  okdone(Reader(b, Len(b)))
BY DEF okdone, Reader

\* call1's request, as rpcs::dispatch and the handler's h1::fn take it apart:
\* the header and the arguments of every method arrive as they were sent, and
\* nothing of the message is left over.
THEOREM RequestRead ==
  ASSUME NEW S, Int \subseteq S, NEW h \in ReqHeader, NEW types, NEW values,
         Typed(S, types, values),
         NEW b, b = pack_req_header(Put(marshall, types, values), h),
         NEW x, x = unpack_req_header(unmarshall(b))
  PROVE  /\ b \in Seq(S) /\ x.v = h /\ x.u = Reader(b, 6)
         /\ Take(x.u, types).v = values /\ okdone(Take(x.u, types).u)
<1> DEFINE c == Content(types, values)
<1>1. c \in Seq(S) /\ Put(marshall, types, values) = marshall \o c
  BY PutContent
<1>2. /\ b \in Seq(S) /\ Len(b) = 6 + Len(c) /\ Holds(b, 6, c)
      /\ unpack_req_header(unmarshall(b)) = [v |-> h, u |-> Reader(b, 6)]
  <2> HIDE DEF c
  <2>1. b = pack_req_header(marshall \o c, h)
    BY <1>1
  <2> QED BY <1>1, <2>1, ReqHeaderRead
<1>3. x.v = h /\ x.u = Reader(b, 6)
  BY <1>2
<1>4. Take(x.u, types) = [v |-> values, u |-> Reader(b, Len(b))]
  BY <1>2, <1>3, ContentRead
<1>5. okdone(Reader(b, Len(b)))
  BY ReaderDone
<1> QED BY <1>2, <1>3, <1>4, <1>5

\* The handler's reply, as rpcc::got_pdu and call_m take it apart.
THEOREM ReplyRead ==
  ASSUME NEW S, Int \subseteq S, NEW h \in ReplyHeader, NEW types, NEW values,
         Typed(S, types, values),
         NEW b, b = pack_reply_header(Put(marshall, types, values), h),
         NEW x, x = unpack_reply_header(unmarshall(b))
  PROVE  /\ b \in Seq(S) /\ x.v = h /\ x.u = Reader(b, 6)
         /\ Take(x.u, types).v = values /\ okdone(Take(x.u, types).u)
<1> DEFINE c == Content(types, values)
<1>1. c \in Seq(S) /\ Put(marshall, types, values) = marshall \o c
  BY PutContent
<1>2. /\ b \in Seq(S) /\ Len(b) = 6 + Len(c) /\ Holds(b, 6, c)
      /\ unpack_reply_header(unmarshall(b)) = [v |-> h, u |-> Reader(b, 6)]
  <2> HIDE DEF c
  <2>1. b = pack_reply_header(marshall \o c, h)
    BY <1>1
  <2> QED BY <1>1, <2>1, ReplyHeaderRead
<1>3. x.v = h /\ x.u = Reader(b, 6)
  BY <1>2
<1>4. Take(x.u, types) = [v |-> values, u |-> Reader(b, Len(b))]
  BY <1>2, <1>3, ContentRead
<1>5. okdone(Reader(b, Len(b)))
  BY ReaderDone
<1> QED BY <1>2, <1>3, <1>4, <1>5

\* A reply that has only a header, which dispatch sends for a request it does
\* not serve.
THEOREM RefusalRead ==
  ASSUME NEW S, Int \subseteq S, NEW h \in ReplyHeader,
         NEW b, b = pack_reply_header(marshall, h),
         NEW x, x = unpack_reply_header(unmarshall(b))
  PROVE  b \in Seq(S) /\ x.v = h /\ x.u = Reader(b, 6)
<1>1. marshall \in Seq(S)
  BY NewBuffer
<1>2. <<>> \in Seq(S) /\ marshall = marshall \o <<>>
  BY <1>1, ConcatEmptySeq
<1>3. b = pack_reply_header(marshall \o <<>>, h)
  BY <1>2
<1>4. b \in Seq(S) /\ unpack_reply_header(unmarshall(b)) = [v |-> h, u |-> Reader(b, 6)]
  BY <1>2, <1>3, ReplyHeaderRead
<1> QED BY <1>4
=============================================================================
