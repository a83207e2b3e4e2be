------------------------------ MODULE RpcProofs ------------------------------
(***************************************************************************)
(* The safety invariants of Rpc, for any threads, requests, bounds and     *)
(* width of a cell.                                                        *)
(*                                                                         *)
(* The proof looks at a message only through what its reader gets out of   *)
(* it (MarshallProofs).  The inductive invariant follows a call from the   *)
(* thread that sends it over the connections and the jobs of the server to *)
(* the run of its method, and the answer back to the caller.               *)
(***************************************************************************)
EXTENDS Rpc, MarshallProofs, FiniteSetTheorems, WellFoundedInduction

-----------------------------------------------------------------------------
(* The values of the variables.                                            *)

Asked    == UNION {Requests[t] : t \in Threads}
Procs    == {bind, get, getattr, put, remove}
ArgLists == {<<>>} \cup {q[2] : q \in Asked}
Results_ == Int \cup Seq(Int) \cup Attrs

\* The cells of messages: numbers, and the characters of what is put.
Alphabet    == Int \cup UNION {ToSet(q[2][2]) : q \in {a \in Asked : a[1] = put}}
Buffers     == Seq(Alphabet)
Flags       == BOOLEAN
Unmarshalls == [buf : Buffers, ind : Nat, ok : Flags]

ThreadState == [pc : {"idle", "send", "wait", "bind"}, proc : Int, args : ArgLists,
                xid : 0..MaxXid, req : Buffers, ch : Nat, ret : Int, r : Seq(Results_)]
CallerState == [done : Flags, intret : Int, un : Unmarshalls]
ConnState   == [dead : Flags, req : Seq(Buffers), rep : Seq(Buffers)]
Job         == [conn : Nat, buf : Buffers]
Run         == [srv : 1..MaxBoot, proc : Procs, args : ArgLists, r : Results_]

ClientTypes ==
  /\ retrans_ \in BOOLEAN /\ bind_done_ \in BOOLEAN /\ destroy_wait_ \in BOOLEAN
  /\ signalled \in BOOLEAN /\ broken \in BOOLEAN
  /\ srv_nonce_ \in 0..MaxBoot /\ xid_ \in 1..(MaxXid + 1)
  /\ client \in {"up", "cancelling", "cancelled", "aborted"}
CallTypes   == calls_ \in [DOMAIN calls_ -> CallerState]
ThreadTypes == th \in [Threads -> ThreadState]
ConnTypes ==
  /\ conns \in Seq(ConnState) /\ Len(conns) <= MaxConn
  /\ chan_ \in 0..Len(conns)
  /\ \A t \in Threads : th[t].ch \in 0..Len(conns)
  /\ \A j \in jobs : j.conn \in 1..Len(conns)
ServerTypes ==
  /\ up \in BOOLEAN /\ nonce_ \in 0..MaxBoot /\ main \in 0..Len(Registered)
  /\ up => nonce_ # 0
  /\ jobs \subseteq Job
RunTypes == runs \in [1..MaxXid -> Seq(Run)]

-----------------------------------------------------------------------------
(* Messages, as their readers see them.                                    *)

Hdr(b)  == unpack_req_header(unmarshall(b)).v
Body(b) == unpack_req_header(unmarshall(b)).u
Args(b) == Take(Body(b), ArgTypes(Hdr(b).proc)).v
GoodRequest(b) ==
  /\ b \in Buffers
  /\ Body(b).ok
  /\ Hdr(b) \in ReqHeader
  /\ okdone(Take(Body(b), ArgTypes(Hdr(b).proc)).u)
  /\ <<Hdr(b).proc, Args(b)>> \in Asked

ReplyHdr(b)  == unpack_reply_header(unmarshall(b)).v
ReplyBody(b) == unpack_reply_header(unmarshall(b)).u

\* u has the result of the run, and nothing else.
Carries(u, run) ==
  /\ Take(u, <<ResultType(run.proc)>>).v = <<run.r>>
  /\ okdone(Take(u, <<ResultType(run.proc)>>).u)

\* The requests and the replies on each connection.
Reqs == [c \in DOMAIN conns |-> conns[c].req]
Reps == [c \in DOMAIN conns |-> conns[c].rep]
Travelling == (UNION {ToSet(Reqs[c]) : c \in DOMAIN Reqs}) \cup {j.buf : j \in jobs}
Replies    == UNION {ToSet(Reps[c]) : c \in DOMAIN Reps}

-----------------------------------------------------------------------------
(* The inductive invariant.                                                *)

\* bind ran at start n of the server, for a call before x.
BoundBefore(n, x) ==
  /\ n # 0
  /\ \E y \in 1..(x - 1) : \E i \in DOMAIN runs[y] : runs[y][i].proc = bind /\ runs[y][i].srv = n

\* A thread in call1 has packed its own request, and only that runs for it.
Requested(s) ==
  /\ s.xid \in 1..(xid_ - 1)
  /\ GoodRequest(s.req)
  /\ Hdr(s.req).xid = s.xid /\ Hdr(s.req).proc = s.proc /\ Args(s.req) = s.args
  /\ Hdr(s.req).clt_nonce = clt_nonce_
  /\ s.proc # bind => BoundBefore(Hdr(s.req).srv_nonce, s.xid)
  /\ \A k \in DOMAIN runs[s.xid] : runs[s.xid][k].proc = s.proc /\ runs[s.xid][k].args = s.args

\* A thread whose call succeeded has the result of a run for it.
Answered(s) ==
  /\ s.xid \in 1..(xid_ - 1)
  /\ \E k \in DOMAIN runs[s.xid] :
       /\ runs[s.xid][k].proc = s.proc /\ runs[s.xid][k].args = s.args
       /\ s.r = <<runs[s.xid][k].r>>

ThreadOK(s) ==
  /\ s.pc \in {"send", "wait"} => Requested(s)
  /\ s.pc = "bind" => s.proc = bind /\ s.ret >= 0
  /\ s.pc \in {"idle", "bind"} /\ s.ret >= 0 => Answered(s)

ThreadInv == \A t \in Threads : ThreadOK(th[t])

BindInv == bind_done_ => BoundBefore(srv_nonce_, xid_)

RunInv ==
  \A x \in 1..MaxXid : \A k \in DOMAIN runs[x] :
    /\ x < xid_
    /\ runs[x][k].proc = bind => runs[x][k].r = runs[x][k].srv
    /\ runs[x][k].proc # bind => BoundBefore(runs[x][k].srv, x)

\* A request on its way is one that call1 made, and the one of the thread that
\* still waits for its answer.
Known(b) ==
  /\ GoodRequest(b)
  /\ Hdr(b).xid \in 1..(xid_ - 1)
  /\ Hdr(b).clt_nonce = clt_nonce_
  /\ Hdr(b).proc # bind => BoundBefore(Hdr(b).srv_nonce, Hdr(b).xid)
  /\ \A t \in Requesting : th[t].xid = Hdr(b).xid => th[t].req = b

TravelInv == \A b \in Travelling : Known(b)

\* An answer that reports success carries the result of a run for its xid.
Truthful(x, ret, u) == ret >= 0 => \E k \in DOMAIN runs[x] : Carries(u, runs[x][k])

GoodReply(b) ==
  /\ b \in Buffers
  /\ ReplyBody(b) = Reader(b, 6) /\ ReplyHdr(b) \in ReplyHeader
  /\ ReplyHdr(b).xid \in 1..(xid_ - 1)
  /\ Truthful(ReplyHdr(b).xid, ReplyHdr(b).ret, ReplyBody(b))

ReplyInv == \A b \in Replies : GoodReply(b)

CallerInv == \A x \in DOMAIN calls_ : calls_[x].done => Truthful(x, calls_[x].intret, calls_[x].un)

WindowInv ==
  /\ xid_rep_window_ # {} /\ xid_rep_window_ \subseteq 0..(xid_ - 1)
  /\ \A x \in DOMAIN calls_ : ~ calls_[x].done => x \notin xid_rep_window_ /\ Min(xid_rep_window_) < x

\* A client that sends again is never served.  One that is served never sends
\* again: its request is at one place, and where it has run it is nowhere.
OnePlace ==
  /\ \A x \in 1..MaxXid : Len(runs[x]) <= 1
  /\ \A t \in Threads : th[t].pc = "send" =>
       runs[th[t].xid] = <<>> /\ \A b \in Travelling : Hdr(b).xid # th[t].xid
  /\ \A b \in Travelling : runs[Hdr(b).xid] = <<>>
  /\ \A c, d \in DOMAIN Reqs : \A k \in DOMAIN Reqs[c], l \in DOMAIN Reqs[d] :
       Hdr(Reqs[c][k]).xid = Hdr(Reqs[d][l]).xid => c = d /\ k = l
  /\ \A c \in DOMAIN Reqs : \A k \in DOMAIN Reqs[c] : \A j \in jobs :
       Hdr(Reqs[c][k]).xid # Hdr(j.buf).xid
  /\ \A i, j \in jobs : Hdr(i.buf).xid = Hdr(j.buf).xid => i = j

OnceInv ==
  /\ retrans_ => \A x \in 1..MaxXid : runs[x] = <<>>
  /\ ~ retrans_ => OnePlace

TypeInv == ClientTypes /\ CallTypes /\ ThreadTypes /\ ConnTypes /\ ServerTypes /\ RunTypes

IInv ==
  /\ TypeInv /\ ThreadInv /\ BindInv /\ RunInv /\ TravelInv /\ ReplyInv /\ CallerInv
  /\ WindowInv /\ NoDanglingCaller /\ OnceInv /\ QuietAfterCancel /\ Understood

-----------------------------------------------------------------------------
(* Messages.                                                               *)

\* The alphabet has the numbers, so every number may be a cell.
LEMMA AlphabetNumbers == Int \subseteq Alphabet
BY DEF Alphabet

\* The arguments of a request have the types of its method.
LEMMA AskedTyped ==
  ASSUME NEW q \in Asked
  PROVE  /\ q = <<q[1], q[2]>> /\ q[1] \in Procs
         /\ Typed(Alphabet, ArgTypes(q[1]), q[2])
         /\ q[1] \notin {bind, put} => q[2][1] \in Int
<1> USE DEF bind, put, get, getattr, remove
<1>1. PICK t \in Threads : q \in Requests[t]
  BY DEF Asked
<1>2. CASE q = <<bind, <<0>>>>
  BY <1>2, AlphabetNumbers DEF Typed, OfType, ArgTypes, Procs
<1>3. CASE \E proc \in {get, getattr, remove}, eid \in ull : q = <<proc, <<eid>>>>
  <2>1. PICK proc \in {get, getattr, remove}, eid \in ull : q = <<proc, <<eid>>>>
    BY <1>3
  <2>2. eid \in Nat /\ eid \in Int
    BY WordAssumption DEF ull
  <2>3. ArgTypes(proc) = <<"ull">>
    BY DEF ArgTypes
  <2>4. OfType(Alphabet, "ull", eid)
    BY <2>2 DEF OfType
  <2>5. Typed(Alphabet, <<"ull">>, <<eid>>)
    BY <2>4 DEF Typed
  <2> QED BY <2>1, <2>2, <2>3, <2>5 DEF Procs
<1>4. CASE \E eid \in ull : q = <<put, <<eid, q[2][2]>>>> /\ q[2][2] \in Seq(ToSet(q[2][2]))
  <2>1. PICK eid \in ull : q = <<put, <<eid, q[2][2]>>>> /\ q[2][2] \in Seq(ToSet(q[2][2]))
    BY <1>4
  <2> DEFINE s == q[2][2]
  <2>2. eid \in Nat
    BY WordAssumption DEF ull
  <2>3. ArgTypes(put) = <<"ull", "string">>
    BY DEF ArgTypes
  <2>4. q[1] = put /\ q[2] = <<eid, s>> /\ s \in Seq(ToSet(s)) /\ ToSet(s) \subseteq Alphabet
    <3>1. q[1] = put /\ q[2] = <<eid, s>> /\ s \in Seq(ToSet(s))
      BY <2>1
    <3> QED BY <3>1 DEF Alphabet
  <2> HIDE DEF s
  <2>5. s \in Seq(Alphabet)
    BY <2>4
  <2>6. OfType(Alphabet, "ull", eid) /\ OfType(Alphabet, "string", s)
    BY <2>2, <2>5 DEF OfType
  <2>7. Typed(Alphabet, <<"ull", "string">>, <<eid, s>>)
    BY <2>6 DEF Typed
  <2>8. q = <<put, <<eid, s>>>>
    BY <2>1 DEF s
  <2> QED BY <2>3, <2>4, <2>7, <2>8 DEF Procs
<1> QED BY <1>1, <1>2, <1>3, <1>4, RequestsAssumption

\* What a method may return has the type of its result.
LEMMA ResultTyped ==
  ASSUME NEW proc, NEW args, <<proc, args>> \in Asked, NEW r \in Results(proc, args), nonce_ \in Nat
  PROVE  OfType(Alphabet, ResultType(proc), r) /\ r \in Results_ /\ (proc = bind => r = nonce_)
<1> USE DEF bind, put, get, getattr, remove
<1>1. proc \in Procs /\ (proc \notin {bind, put} => args[1] \in Int)
  <2>1. PICK q \in Asked : q = <<proc, args>>
    OBVIOUS
  <2>2. q[1] = proc /\ q[2] = args
    BY <2>1
  <2> QED BY <2>1, <2>2, AskedTyped
<1>2. CASE proc = bind
  BY <1>2 DEF Results, ResultType, OfType, Results_
<1>3. CASE proc = get
  <2>1. r = <<args[1]>> /\ args[1] \in Int
    BY <1>1, <1>3 DEF Results
  <2>2. r \in Seq(Int) /\ r \in Seq(Alphabet)
    BY <2>1, AlphabetNumbers
  <2> QED BY <1>3, <2>2 DEF ResultType, OfType, Results_
<1>4. CASE proc = getattr
  <2>1. r \in Attrs
    BY <1>1, <1>4 DEF Results, Attrs, T_FILE
  <2> QED BY <1>4, <2>1 DEF ResultType, OfType, Results_
<1>5. CASE proc \in {put, remove}
  <2>1. r \in {0, 1}
    BY <1>5 DEF Results
  <2> QED BY <1>5, <2>1 DEF ResultType, OfType, Results_
<1> QED BY <1>1, <1>2, <1>3, <1>4, <1>5 DEF Procs

\* The request of call1 is well formed, and says what it was asked to.
LEMMA RequestBuilt ==
  ASSUME NEW q \in Asked, NEW h \in ReqHeader, h.proc = q[1],
         NEW b, b = pack_req_header(Put(marshall, ArgTypes(q[1]), q[2]), h)
  PROVE  GoodRequest(b) /\ Hdr(b) = h /\ Args(b) = q[2]
<1> DEFINE x == unpack_req_header(unmarshall(b))
           S == Alphabet
           types == ArgTypes(q[1])
<1>1. Typed(S, types, q[2]) /\ Int \subseteq S
  BY AskedTyped, AlphabetNumbers
<1>2. /\ b \in Seq(S) /\ x.v = h /\ x.u = Reader(b, 6)
      /\ Take(x.u, types).v = q[2] /\ okdone(Take(x.u, types).u)
  <2> HIDE DEF S, types
  <2>1. b = pack_req_header(Put(marshall, types, q[2]), h)
    BY DEF types
  <2> QED BY <1>1, <2>1, RequestRead
<1>3. x.u.ok
  BY <1>2 DEF Reader
<1>4. Hdr(b) = h /\ Body(b) = x.u /\ Args(b) = q[2]
  BY <1>2 DEF Hdr, Body, Args
<1>5. q = <<q[1], q[2]>>
  BY AskedTyped
<1> HIDE DEF x
<1> QED BY <1>2, <1>3, <1>4, <1>5 DEF GoodRequest, Buffers

\* The reply of a run is well formed, and carries its result.
LEMMA ReplyBuilt ==
  ASSUME NEW proc, NEW r, OfType(Alphabet, ResultType(proc), r), NEW h \in ReplyHeader,
         NEW b, b = pack_reply_header(Put(marshall, <<ResultType(proc)>>, <<r>>), h),
         NEW run, run.proc = proc, run.r = r
  PROVE  /\ b \in Buffers /\ ReplyBody(b) = Reader(b, 6) /\ ReplyHdr(b) = h
         /\ Carries(ReplyBody(b), run)
<1> DEFINE x == unpack_reply_header(unmarshall(b))
           types == <<ResultType(proc)>>
           values == <<r>>
<1>1. Typed(Alphabet, types, values) /\ b = pack_reply_header(Put(marshall, types, values), h)
  BY DEF Typed
<1>2. /\ b \in Seq(Alphabet) /\ x.v = h /\ x.u = Reader(b, 6)
      /\ Take(x.u, types).v = values /\ okdone(Take(x.u, types).u)
  <2> HIDE DEF types, values
  <2> QED BY <1>1, AlphabetNumbers, ReplyRead
<1> HIDE DEF x
<1>3. ReplyHdr(b) = x.v /\ ReplyBody(b) = x.u
  BY DEF ReplyHdr, ReplyBody, x
<1> QED BY <1>2, <1>3 DEF Carries, Buffers

\* A reply without content is well formed.
LEMMA RefusalBuilt ==
  ASSUME NEW h \in ReplyHeader, NEW b, b = pack_reply_header(marshall, h)
  PROVE  b \in Buffers /\ ReplyBody(b) = Reader(b, 6) /\ ReplyHdr(b) = h
<1> DEFINE x == unpack_reply_header(unmarshall(b))
<1>2. b \in Seq(Alphabet) /\ x.v = h /\ x.u = Reader(b, 6)
  BY AlphabetNumbers, RefusalRead
<1> QED BY <1>2 DEF ReplyHdr, ReplyBody, Buffers

\* A reader of a buffer is an unmarshall.
LEMMA ReaderType ==
  ASSUME NEW b \in Buffers
  PROVE  Reader(b, 6) \in Unmarshalls /\ Reader(b, 6).ok
BY DEF Reader, Unmarshalls, Flags

-----------------------------------------------------------------------------
(* The window of replies.                                                  *)

\* Every set of numbers has a least one.
LEMMA LeastNatural ==
  ASSUME NEW S \in SUBSET Nat, S # {}
  PROVE  \E x \in S : \A y \in S : x <= y
<1> DEFINE T == {0 .. x : x \in S}
<1>1. T # {}
  OBVIOUS
<1>2. T \subseteq FiniteSubsetsOf(Nat)
  <2>1. \A x \in S : 0 .. x \in SUBSET Nat /\ IsFiniteSet(0 .. x)
    BY FS_Interval
  <2> QED BY <2>1 DEF FiniteSubsetsOf
<1>3. PICK Z \in T : \A Y \in T : ~ (<<Y, Z>> \in StrictSubsetOrdering(Nat))
  <2> HIDE DEF T
  <2> QED BY <1>1, <1>2, FS_StrictSubsetOrderingWellFounded, WFMin
<1>4. PICK x \in S : Z = 0 .. x
  OBVIOUS
<1>5. ASSUME NEW y \in S PROVE x <= y
  <2>1. 0 .. y \in T
    OBVIOUS
  <2>2. <<0 .. y, 0 .. x>> \notin StrictSubsetOrdering(Nat)
    BY <1>3, <1>4, <2>1
  <2>3. ~ (0 .. y \subseteq 0 .. x /\ 0 .. y # 0 .. x)
    BY <2>2 DEF StrictSubsetOrdering
  <2>4. SUFFICES ASSUME y < x PROVE FALSE
    OBVIOUS
  <2>5. x \in 0 .. x /\ x \notin 0 .. y
    BY <2>4
  <2>6. 0 .. y \subseteq 0 .. x
    BY <2>4
  <2> QED BY <2>3, <2>5, <2>6
<1> QED BY <1>5

\* The front of the list is the least element of the window.
LEMMA MinProperty ==
  ASSUME NEW S \in SUBSET Nat, S # {}
  PROVE  Min(S) \in S /\ \A y \in S : Min(S) <= y
<1>1. \E x \in S : \A y \in S : x =< y
  BY LeastNatural
<1> QED BY <1>1 DEF Min

\* What update_xid_rep leaves of the window: its front moves up to the last xid
\* before the first gap, so it stays below every xid that is missing.
LEMMA WindowUpdate ==
  ASSUME NEW n \in Nat, xid_rep_window_ \subseteq 0..n, xid_rep_window_ # {},
         NEW xid \in 0..n, NEW new, new = update_xid_rep(xid)
  PROVE  /\ new \subseteq 0..n /\ new # {}
         /\ \A x \in Nat : x \notin xid_rep_window_ /\ x # xid /\ Min(xid_rep_window_) < x
                             => x \notin new /\ Min(new) < x
<1> DEFINE W == xid_rep_window_
           w == W \cup {xid}
           m == Min(W)
<1>1. W \in SUBSET Nat /\ W # {} /\ m \in W /\ m \in Nat /\ \A y \in W : m <= y
  <2>1. W \in SUBSET Nat /\ W # {}
    OBVIOUS
  <2> HIDE DEF W
  <2> QED BY <2>1, MinProperty
<1>2. CASE xid <= m
  <2>1. new = W
    BY <1>2 DEF update_xid_rep
  <2> QED BY <1>1, <2>1
<1>3. CASE ~ (xid <= m)
  <2>1. Min(w) = m
    <3>1. w \in SUBSET Nat /\ w # {} /\ m \in w /\ \A y \in w : m <= y
      BY <1>1, <1>3
    <3> HIDE DEF w
    <3>2. Min(w) \in w /\ \A y \in w : Min(w) <= y
      BY <3>1, MinProperty
    <3>3. m <= Min(w) /\ Min(w) <= m /\ Min(w) \in Nat
      BY <3>1, <3>2
    <3> QED BY <1>1, <3>3
  <2>2. new = {x \in w : \E y \in m..(x + 1) : y \notin w}
    <3>1. new = {x \in w : \E y \in Min(w)..(x + 1) : y \notin w}
      BY <1>3 DEF update_xid_rep
    <3> HIDE DEF w
    <3> QED BY <2>1, <3>1
  <2> DEFINE G == {y \in Nat : m <= y /\ y \notin w}
  <2>3. w \subseteq 0..n /\ m \in w
    BY <1>1
  <2> HIDE DEF w, W, m
  <2>4. G \in SUBSET Nat /\ n + 1 \in G
    BY <1>1, <2>3
  <2>5. PICK g \in G : \A y \in G : g <= y
    BY <2>4, LeastNatural
  <2>6. g \in Nat /\ m < g /\ g \notin w /\ \A y \in m..(g - 1) : y \in w
    BY <1>1, <2>3, <2>5
  <2>7. g - 1 \in new
    BY <1>1, <2>2, <2>6
  <2>8. \A x \in new : g - 1 <= x
    <3>1. SUFFICES ASSUME NEW x \in new PROVE g - 1 <= x
      OBVIOUS
    <3>2. x \in w /\ x \in Nat
      BY <2>2, <2>3
    <3>3. PICK y \in m..(x + 1) : y \notin w
      BY <2>2
    <3>4. y \in G
      BY <1>1, <3>2, <3>3
    <3> QED BY <1>1, <2>5, <2>6, <3>2, <3>3, <3>4
  <2>9. new \subseteq 0..n /\ new \in SUBSET Nat
    <3>1. new \subseteq w
      BY <2>2
    <3>2. \A x \in new : x \in 0..n /\ x \in Nat
      BY <2>3, <3>1
    <3> QED BY <3>2, Zenon
  <2>10. Min(new) \in Nat /\ Min(new) <= g - 1
    BY <2>7, <2>9, MinProperty
  <2>11. ASSUME NEW x \in Nat, x \notin W, x # xid, m < x
         PROVE  x \notin new /\ Min(new) < x
    <3>1. x \notin w
      BY <2>11 DEF w, W
    <3>2. x \in G
      BY <1>1, <2>11, <3>1
    <3>3. g <= x
      BY <2>5, <3>2
    <3> QED BY <2>2, <2>6, <2>10, <3>1, <3>3
  <2> QED BY <2>7, <2>9, <2>11 DEF W, m
<1> QED BY <1>2, <1>3

-----------------------------------------------------------------------------
(* How the steps change connections and threads.                           *)

\* L is K but for connection c, which is s.
OneConn(K, L, c, s) ==
  /\ L \in Seq(ConnState) /\ Len(L) = Len(K) /\ DOMAIN L = DOMAIN K
  /\ L[c] = s /\ \A d \in DOMAIN K \ {c} : L[d] = K[d]

\* An update of one connection leaves the others.
LEMMA ConnChanged ==
  ASSUME NEW K \in Seq(ConnState), NEW c \in DOMAIN K, NEW s \in ConnState,
         NEW L, L = [K EXCEPT ![c] = s]
  PROVE  OneConn(K, L, c, s)
<1>1. DOMAIN K = 1..Len(K) /\ Len(K) \in Nat /\ \A d \in DOMAIN K : K[d] \in ConnState
  OBVIOUS
<1>2. DOMAIN L = DOMAIN K /\ L[c] = s /\ \A d \in DOMAIN K \ {c} : L[d] = K[d]
  OBVIOUS
<1>3. L = [d \in 1..Len(K) |-> L[d]] /\ \A d \in 1..Len(K) : L[d] \in ConnState
  BY <1>1, <1>2
<1>4. L \in Seq(ConnState) /\ Len(L) = Len(K)
  BY <1>1, <1>3
<1> QED BY <1>2, <1>4 DEF OneConn

\* An update of one queue of a connection leaves the other and the dead flag.
LEMMA ConnFields ==
  ASSUME NEW s \in ConnState, NEW q \in Seq(Buffers)
  PROVE  /\ [s EXCEPT !.req = q] = [dead |-> s.dead, req |-> q, rep |-> s.rep]
         /\ [s EXCEPT !.rep = q] = [dead |-> s.dead, req |-> s.req, rep |-> q]
         /\ [dead |-> s.dead, req |-> q, rep |-> s.rep] \in ConnState
         /\ [dead |-> s.dead, req |-> s.req, rep |-> q] \in ConnState
BY DEF ConnState

\* Only the requests of connection c change.
LEMMA ReqChanged ==
  ASSUME conns \in Seq(ConnState), NEW c \in DOMAIN conns, NEW q \in Seq(Buffers),
         conns' = [conns EXCEPT ![c].req = q]
  PROVE  /\ conns' \in Seq(ConnState) /\ Len(conns') = Len(conns)
         /\ Reqs' = [Reqs EXCEPT ![c] = q] /\ Reps' = Reps
<1>1. PICK s : s = conns[c]
  OBVIOUS
<1>2. s \in ConnState
  BY <1>1
<1>3. PICK e \in ConnState : e = [dead |-> s.dead, req |-> q, rep |-> s.rep]
  BY <1>2, ConnFields
<1>4. conns' = [conns EXCEPT ![c] = e]
  BY <1>1, <1>2, <1>3, ConnFields
<1>5. OneConn(conns, conns', c, e)
  BY <1>4, ConnChanged
<1>6. /\ DOMAIN conns' = DOMAIN conns /\ conns'[c].req = q /\ conns'[c].rep = conns[c].rep
      /\ \A d \in DOMAIN conns \ {c} : conns'[d] = conns[d]
  BY <1>1, <1>3, <1>5 DEF OneConn
<1>7. Reqs' = [Reqs EXCEPT ![c] = q]
  BY <1>6 DEF Reqs
<1>8. Reps' = Reps
  BY <1>6 DEF Reps
<1> QED BY <1>5, <1>7, <1>8 DEF OneConn

\* Only the replies of connection c change.
LEMMA RepChanged ==
  ASSUME conns \in Seq(ConnState), NEW c \in DOMAIN conns, NEW q \in Seq(Buffers),
         conns' = [conns EXCEPT ![c].rep = q]
  PROVE  /\ conns' \in Seq(ConnState) /\ Len(conns') = Len(conns)
         /\ Reqs' = Reqs /\ Reps' = [Reps EXCEPT ![c] = q]
<1>1. PICK s : s = conns[c]
  OBVIOUS
<1>2. s \in ConnState
  BY <1>1
<1>3. PICK e \in ConnState : e = [dead |-> s.dead, req |-> s.req, rep |-> q]
  BY <1>2, ConnFields
<1>4. conns' = [conns EXCEPT ![c] = e]
  BY <1>1, <1>2, <1>3, ConnFields
<1>5. OneConn(conns, conns', c, e)
  BY <1>4, ConnChanged
<1>6. /\ DOMAIN conns' = DOMAIN conns /\ conns'[c].rep = q /\ conns'[c].req = conns[c].req
      /\ \A d \in DOMAIN conns \ {c} : conns'[d] = conns[d]
  BY <1>1, <1>3, <1>5 DEF OneConn
<1>7. Reps' = [Reps EXCEPT ![c] = q]
  BY <1>6 DEF Reps
<1>8. Reqs' = Reqs
  BY <1>6 DEF Reqs
<1> QED BY <1>5, <1>7, <1>8 DEF OneConn

\* The queues of a connection.
LEMMA QueueTypes ==
  ASSUME conns \in Seq(ConnState)
  PROVE  /\ DOMAIN conns = 1..Len(conns) /\ Len(conns) \in Nat
         /\ DOMAIN Reqs = DOMAIN conns /\ DOMAIN Reps = DOMAIN conns
         /\ \A c \in DOMAIN conns :
              /\ conns[c] \in ConnState
              /\ Reqs[c] = conns[c].req /\ Reps[c] = conns[c].rep
              /\ conns[c].req \in Seq(Buffers) /\ conns[c].rep \in Seq(Buffers)
<1>1. \A c \in DOMAIN conns : conns[c] \in ConnState
  OBVIOUS
<1>2. \A s \in ConnState : s.req \in Seq(Buffers) /\ s.rep \in Seq(Buffers)
  BY DEF ConnState
<1> QED BY <1>1, <1>2 DEF Reqs, Reps

\* A dead connection has nothing on it.
LEMMA DeadTypes == Dead \in ConnState /\ Dead.req = <<>> /\ Dead.rep = <<>>
BY DEF Dead, ConnState, Flags

\* Connection c dies with what is on it.
LEMMA OneDead ==
  ASSUME conns \in Seq(ConnState), NEW c \in DOMAIN conns, conns' = [conns EXCEPT ![c] = Dead]
  PROVE  /\ conns' \in Seq(ConnState) /\ Len(conns') = Len(conns)
         /\ Reqs' = [Reqs EXCEPT ![c] = <<>>] /\ Reps' = [Reps EXCEPT ![c] = <<>>]
<1>1. OneConn(conns, conns', c, Dead)
  BY ConnChanged, DeadTypes
<1>2. /\ DOMAIN conns' = DOMAIN conns /\ conns'[c].rep = <<>> /\ conns'[c].req = <<>>
      /\ \A d \in DOMAIN conns \ {c} : conns'[d] = conns[d]
  BY <1>1, DeadTypes DEF OneConn
<1>3. Reqs' = [Reqs EXCEPT ![c] = <<>>]
  BY <1>2 DEF Reqs
<1>4. Reps' = [Reps EXCEPT ![c] = <<>>]
  BY <1>2 DEF Reps
<1> QED BY <1>1, <1>3, <1>4 DEF OneConn

\* All connections die.
LEMMA AllDead ==
  ASSUME conns \in Seq(ConnState), conns' = [c \in DOMAIN conns |-> Dead]
  PROVE  /\ conns' \in Seq(ConnState) /\ Len(conns') = Len(conns)
         /\ Reqs' = [c \in DOMAIN conns |-> <<>>] /\ Reps' = [c \in DOMAIN conns |-> <<>>]
<1>1. DOMAIN conns = 1..Len(conns) /\ Len(conns) \in Nat
  OBVIOUS
<1>2. conns' \in Seq(ConnState) /\ Len(conns') = Len(conns)
  BY <1>1, DeadTypes
<1>3. DOMAIN conns' = DOMAIN conns /\ \A c \in DOMAIN conns : conns'[c].req = <<>> /\ conns'[c].rep = <<>>
  BY DeadTypes
<1>4. Reqs' = [c \in DOMAIN conns |-> <<>>]
  BY <1>3 DEF Reqs
<1>5. Reps' = [c \in DOMAIN conns |-> <<>>]
  BY <1>3 DEF Reps
<1> QED BY <1>2, <1>4, <1>5

\* A new connection, with one request on it.
LEMMA ConnOpened ==
  ASSUME conns \in Seq(ConnState), NEW b \in Buffers,
         conns' = Append(conns, [dead |-> FALSE, req |-> <<b>>, rep |-> <<>>])
  PROVE  /\ conns' \in Seq(ConnState) /\ Len(conns') = Len(conns) + 1
         /\ Reqs' = [c \in 1..(Len(conns) + 1) |-> IF c = Len(conns) + 1 THEN <<b>> ELSE Reqs[c]]
         /\ Reps' = [c \in 1..(Len(conns) + 1) |-> IF c = Len(conns) + 1 THEN <<>> ELSE Reps[c]]
<1>1. DOMAIN conns = 1..Len(conns) /\ Len(conns) \in Nat
  OBVIOUS
<1>2. [dead |-> FALSE, req |-> <<b>>, rep |-> <<>>] \in ConnState
  BY DEF ConnState, Flags
<1>3. PICK s \in ConnState : s = [dead |-> FALSE, req |-> <<b>>, rep |-> <<>>]
  BY <1>2
<1>4. s.req = <<b>> /\ s.rep = <<>> /\ conns' = Append(conns, s)
  BY <1>3
<1>5. /\ conns' \in Seq(ConnState) /\ Len(conns') = Len(conns) + 1
      /\ conns'[Len(conns) + 1] = s /\ \A c \in 1..Len(conns) : conns'[c] = conns[c]
  BY <1>4, AppendProperties
<1>6. DOMAIN conns' = 1..(Len(conns) + 1)
  BY <1>5
<1>7. Reqs' = [c \in 1..(Len(conns) + 1) |-> IF c = Len(conns) + 1 THEN <<b>> ELSE Reqs[c]]
  BY <1>1, <1>4, <1>5, <1>6 DEF Reqs
<1>8. Reps' = [c \in 1..(Len(conns) + 1) |-> IF c = Len(conns) + 1 THEN <<>> ELSE Reps[c]]
  BY <1>1, <1>4, <1>5, <1>6 DEF Reps
<1> QED BY <1>5, <1>7, <1>8

-----------------------------------------------------------------------------
(* What the parts of the invariant depend on.                              *)

\* No run of a method is forgotten.
RunsKept == \A x \in 1..MaxXid : \A k \in DOMAIN runs[x] : k \in DOMAIN runs'[x] /\ runs'[x][k] = runs[x][k]

\* A thread in call1 is one that was, with the same request, or has a new xid.
RequestsKept ==
  \A t \in Threads : t \in Requesting' =>
    \/ t \in Requesting /\ th'[t].xid = th[t].xid /\ th'[t].req = th[t].req
    \/ th'[t].xid = xid_

\* Where no method runs, no run is forgotten.
LEMMA RunsSame ==
  ASSUME runs' = runs
  PROVE  RunsKept
BY DEF RunsKept

\* A bind that came before x came before every later xid.
LEMMA BoundBeforeKept ==
  ASSUME NEW n, NEW x \in Int, NEW z \in Int, x <= z, z - 1 <= MaxXid, BoundBefore(n, x), RunsKept
  PROVE  BoundBefore(n, z)'
<1>1. PICK y \in 1..(x - 1) : \E i \in DOMAIN runs[y] : runs[y][i].proc = bind /\ runs[y][i].srv = n
  BY DEF BoundBefore
<1>2. PICK i \in DOMAIN runs[y] : runs[y][i].proc = bind /\ runs[y][i].srv = n
  BY <1>1
<1>3. y \in 1..MaxXid /\ y \in 1..(z - 1)
  BY RpcAssumption
<1>4. i \in DOMAIN runs'[y] /\ runs'[y][i] = runs[y][i]
  BY <1>2, <1>3 DEF RunsKept
<1>5. n # 0
  BY DEF BoundBefore
<1> QED BY <1>2, <1>3, <1>4, <1>5 DEF BoundBefore

\* An answer that carries the result of a run goes on to do so.
LEMMA TruthfulKept ==
  ASSUME NEW x \in 1..MaxXid, NEW ret, NEW u, Truthful(x, ret, u), RunsKept
  PROVE  Truthful(x, ret, u)'
BY DEF Truthful, RunsKept

\* Time goes on for what is only read.
Later == xid_ \in 1..(MaxXid + 1) /\ xid_' \in 1..(MaxXid + 1) /\ xid_ <= xid_' /\ retrans_' = retrans_

\* What is known of a thread that does not move stays known, when no method runs.
LEMMA ThreadKept ==
  ASSUME NEW s, ThreadOK(s), Later, runs' = runs
  PROVE  ThreadOK(s)'
<1>1. RunsKept
  BY RunsSame
<1>2. ASSUME Requested(s) PROVE Requested(s)'
  <2>1. s.xid \in 1..(xid_' - 1) /\ s.xid \in Int /\ s.xid - 1 <= MaxXid
    BY <1>2, RpcAssumption DEF Requested, Later
  <2>2. clt_nonce_' = clt_nonce_
    BY DEF clt_nonce_, Later
  <2>3. s.proc # bind => BoundBefore(Hdr(s.req).srv_nonce, s.xid)'
    BY <1>1, <1>2, <2>1, BoundBeforeKept DEF Requested
  <2> QED BY <1>2, <2>1, <2>2, <2>3 DEF Requested
<1>3. ASSUME Answered(s) PROVE Answered(s)'
  BY <1>3 DEF Answered, Later
<1> QED BY <1>2, <1>3 DEF ThreadOK

\* One thread changes.
LEMMA ThreadsKept ==
  ASSUME ThreadInv, Later, runs' = runs, NEW t \in Threads,
         \A u \in Threads \ {t} : th'[u] = th[u], ThreadOK(th[t])'
  PROVE  ThreadInv'
<1>1. ASSUME NEW u \in Threads \ {t} PROVE ThreadOK(th[u])'
  <2>1. PICK s : s = th[u] /\ s = th'[u]
    BY <1>1
  <2>2. ThreadOK(s)
    BY <2>1 DEF ThreadInv
  <2>3. ThreadOK(s)'
    BY <2>2, ThreadKept
  <2> QED BY <2>1, <2>3 DEF ThreadOK, Requested, Answered
<1> QED BY <1>1 DEF ThreadInv

\* No thread moves, and no method runs.
LEMMA ThreadsSame ==
  ASSUME ThreadInv, Later, runs' = runs, th' = th
  PROVE  ThreadInv'
<1>1. ASSUME NEW u \in Threads PROVE ThreadOK(th[u])'
  <2>1. PICK s : s = th[u] /\ s = th'[u]
    OBVIOUS
  <2>2. ThreadOK(s)
    BY <2>1 DEF ThreadInv
  <2>3. ThreadOK(s)'
    BY <2>2, ThreadKept
  <2> QED BY <2>1, <2>3 DEF ThreadOK, Requested, Answered
<1> QED BY <1>1 DEF ThreadInv

\* The server the client is bound to stays one that ran its bind.
LEMMA BindKept ==
  ASSUME BindInv, Later, RunsKept, UNCHANGED <<bind_done_, srv_nonce_>>
  PROVE  BindInv'
<1>1. SUFFICES ASSUME bind_done_ PROVE BoundBefore(srv_nonce_, xid_)'
  BY DEF BindInv
<1>2. PICK n : n = srv_nonce_ /\ n = srv_nonce_'
  OBVIOUS
<1>3. PICK z \in Int : z = xid_' /\ xid_ <= z /\ z - 1 <= MaxXid /\ xid_ \in Int
  BY RpcAssumption DEF Later
<1>4. BoundBefore(n, xid_)
  BY <1>1, <1>2 DEF BindInv
<1>5. BoundBefore(n, z)'
  BY <1>3, <1>4, BoundBeforeKept
<1> QED BY <1>2, <1>3, <1>5 DEF BoundBefore

\* No method runs.
LEMMA RunsInvKept ==
  ASSUME RunInv, Later, runs' = runs
  PROVE  RunInv'
<1>1. SUFFICES ASSUME NEW x \in 1..MaxXid, NEW k \in DOMAIN runs[x]
               PROVE  /\ x < xid_'
                      /\ runs[x][k].proc = bind => runs[x][k].r = runs[x][k].srv
                      /\ runs[x][k].proc # bind => BoundBefore(runs[x][k].srv, x)'
  BY DEF RunInv, BoundBefore
<1>2. runs[x][k].proc # bind => BoundBefore(runs[x][k].srv, x)'
  BY RunsSame, BoundBeforeKept, RpcAssumption DEF RunInv
<1> QED BY <1>2 DEF RunInv, Later

\* A request on its way stays one that call1 made, and no other thread takes its xid.
LEMMA KnownKept ==
  ASSUME NEW b, Known(b), Later, RunsKept, RequestsKept
  PROVE  Known(b)'
<1>1. Hdr(b).xid \in 1..(xid_' - 1) /\ Hdr(b).xid \in Int /\ Hdr(b).xid - 1 <= MaxXid /\ Hdr(b).xid # xid_
  BY RpcAssumption DEF Known, Later
<1>2. clt_nonce_' = clt_nonce_
  BY DEF clt_nonce_, Later
<1>3. Hdr(b).proc # bind => BoundBefore(Hdr(b).srv_nonce, Hdr(b).xid)'
  BY <1>1, BoundBeforeKept DEF Known
<1>4. ASSUME NEW t \in Requesting', th'[t].xid = Hdr(b).xid PROVE th'[t].req = b
  <2>1. t \in Threads
    BY DEF Requesting
  <2> QED BY <1>1, <1>4, <2>1 DEF RequestsKept, Known
<1> QED BY <1>1, <1>2, <1>3, <1>4 DEF Known

\* At most one known request joins those on their way.
LEMMA TravelKept ==
  ASSUME TravelInv, Later, RunsKept, RequestsKept, NEW b,
         Travelling' \subseteq Travelling \cup {b}, Known(b)
  PROVE  TravelInv'
BY KnownKept DEF TravelInv

\* A truthful reply stays truthful.
LEMMA GoodReplyKept ==
  ASSUME NEW b, GoodReply(b), Later, RunsKept
  PROVE  GoodReply(b)'
<1>1. ReplyHdr(b).xid \in 1..(xid_' - 1) /\ ReplyHdr(b).xid \in 1..MaxXid
  BY RpcAssumption DEF GoodReply, Later
<1>2. Truthful(ReplyHdr(b).xid, ReplyHdr(b).ret, ReplyBody(b))'
  BY <1>1, TruthfulKept DEF GoodReply
<1> QED BY <1>1, <1>2 DEF GoodReply

\* At most one truthful reply joins those on their way.
LEMMA ReplyKept ==
  ASSUME ReplyInv, Later, RunsKept, NEW b,
         Replies' \subseteq Replies \cup {b}, GoodReply(b)'
  PROVE  ReplyInv'
BY GoodReplyKept DEF ReplyInv

\* No caller is told anything.
LEMMA CallersKept ==
  ASSUME CallerInv, DOMAIN calls_ \subseteq 1..MaxXid, RunsKept, calls_' = calls_
  PROVE  CallerInv'
BY TruthfulKept DEF CallerInv

\* No caller and no reply counted as seen.
LEMMA WindowKept ==
  ASSUME WindowInv, Later, UNCHANGED <<calls_, xid_rep_window_>>
  PROVE  WindowInv'
<1>1. PICK W : W = xid_rep_window_ /\ W = xid_rep_window_'
  OBVIOUS
<1>2. W # {} /\ W \subseteq 0..(xid_ - 1)
  BY <1>1 DEF WindowInv
<1>3. \A x \in DOMAIN calls_ : ~ calls_[x].done => x \notin W /\ Min(W) < x
  BY <1>1 DEF WindowInv
<1>4. W \subseteq 0..(xid_' - 1)
  <2>1. PICK z \in Int : z = xid_'
    BY RpcAssumption DEF Later
  <2>2. xid_ <= z /\ xid_ \in Int
    BY <2>1, RpcAssumption DEF Later
  <2>3. \A x \in 0..(xid_ - 1) : x \in 0..(z - 1)
    BY <2>2
  <2> QED BY <1>2, <2>1, <2>3
<1> QED BY <1>1, <1>2, <1>3, <1>4 DEF WindowInv

\* The same threads are in call1, with the same xids.
LEMMA DanglingKept ==
  ASSUME NoDanglingCaller, DOMAIN calls_' = DOMAIN calls_,
         \A t \in Threads : (t \in Requesting' <=> t \in Requesting)
         /\ (t \in Requesting => th'[t].xid = th[t].xid)
  PROVE  NoDanglingCaller'
<1>1. Requesting' = Requesting /\ Requesting \subseteq Threads
  BY DEF Requesting
<1> QED BY <1>1 DEF NoDanglingCaller

\* No request moves.
LEMMA TravelSame ==
  ASSUME TravelInv, Later, RunsKept, RequestsKept, Travelling' = Travelling
  PROVE  TravelInv'
BY KnownKept DEF TravelInv

\* No reply moves.
LEMMA ReplySame ==
  ASSUME ReplyInv, Later, RunsKept, Replies' = Replies
  PROVE  ReplyInv'
BY GoodReplyKept DEF ReplyInv

\* No request moves, and no method runs.
LEMMA OnceSame ==
  ASSUME OnceInv, retrans_' = retrans_, runs' = runs, th' = th, jobs' = jobs,
         Reqs' = Reqs, Travelling' = Travelling
  PROVE  OnceInv'
<1>1. ASSUME OnePlace PROVE OnePlace'
  BY <1>1 DEF OnePlace
<1> QED BY <1>1 DEF OnceInv

\* Who waits for an answer has an xid that was given out, and a caller.
LEMMA CallDomain ==
  ASSUME ClientTypes, ThreadInv, NoDanglingCaller
  PROVE  /\ DOMAIN calls_ \subseteq 1..MaxXid /\ DOMAIN calls_ \subseteq 1..(xid_ - 1)
         /\ \A t \in Requesting : t \in Threads /\ th[t].xid \in DOMAIN calls_
<1>1. ASSUME NEW t \in Requesting
      PROVE  t \in Threads /\ th[t].xid \in 1..(xid_ - 1) /\ th[t].xid \in DOMAIN calls_
  BY DEF Requesting, ThreadInv, ThreadOK, Requested, NoDanglingCaller
<1>2. \A x \in 1..(xid_ - 1) : x \in 1..MaxXid
  BY RpcAssumption DEF ClientTypes
<1>3. \A x \in DOMAIN calls_ : \E t \in Requesting : x = th[t].xid
  BY DEF NoDanglingCaller
<1> QED BY <1>1, <1>2, <1>3

\* No more threads are about to send.
LEMMA OnceFewer ==
  ASSUME OnceInv, retrans_' = retrans_, runs' = runs, jobs' = jobs,
         Reqs' = Reqs, Travelling' = Travelling,
         \A t \in Threads : th'[t].pc = "send" => th[t].pc = "send" /\ th'[t].xid = th[t].xid
  PROVE  OnceInv'
<1>1. ASSUME OnePlace PROVE OnePlace'
  BY <1>1 DEF OnePlace
<1> QED BY <1>1 DEF OnceInv

\* The same callers wait, and no thread moves.
LEMMA DanglingSame ==
  ASSUME NoDanglingCaller, DOMAIN calls_' = DOMAIN calls_, th' = th
  PROVE  NoDanglingCaller'
BY DEF NoDanglingCaller, Requesting

\* One thread becomes s.
OneThread(t, s) ==
  th' \in [Threads -> ThreadState] /\ th'[t] = s /\ \A u \in Threads \ {t} : th'[u] = th[u]

\* An update of one thread leaves the others.
LEMMA ThreadChanged ==
  ASSUME ThreadTypes, NEW t \in Threads, NEW s \in ThreadState, th' = [th EXCEPT ![t] = s]
  PROVE  OneThread(t, s)
BY DEF OneThread, ThreadTypes

MkThread(p, proc, a, x, b, c, i, w) ==
  [pc |-> p, proc |-> proc, args |-> a, xid |-> x, req |-> b, ch |-> c, ret |-> i, r |-> w]

\* A thread's state, field by field.
LEMMA ThreadRecord ==
  ASSUME NEW p \in {"idle", "send", "wait", "bind"}, NEW proc \in Int, NEW a \in ArgLists,
         NEW x \in 0..MaxXid, NEW b \in Buffers, NEW c \in Nat, NEW i \in Int, NEW w \in Seq(Results_)
  PROVE  MkThread(p, proc, a, x, b, c, i, w) \in ThreadState
BY DEF ThreadState, MkThread

\* What a thread that has not called yet holds.
LEMMA EmptyValues == <<>> \in ArgLists /\ <<>> \in Buffers /\ <<>> \in Seq(Results_) /\ 0 \in 0..MaxXid
BY RpcAssumption DEF ArgLists, Buffers

\* A thread that has not called yet.
LEMMA IdleType == Idle \in ThreadState /\ Idle.pc = "idle" /\ Idle.ch = 0
<1>1. PICK a \in ArgLists : a = <<>>
  BY EmptyValues
<1>2. PICK b \in Buffers : b = <<>>
  BY EmptyValues
<1>3. PICK w \in Seq(Results_) : w = <<>>
  BY EmptyValues
<1>4. PICK x \in 0..MaxXid : x = 0
  BY EmptyValues
<1>5. Idle = MkThread("idle", 0, a, x, b, 0, -1, w)
  BY <1>1, <1>2, <1>3, <1>4 DEF Idle, NoResult, timeout_failure, MkThread
<1>6. MkThread("idle", 0, a, x, b, 0, -1, w) \in ThreadState
  BY ThreadRecord
<1> QED BY <1>5, <1>6 DEF Idle

\* A thread that is not in call1 any more.
LEMMA IdleThread ==
  ASSUME NEW i \in Int, NEW s, s = [Idle EXCEPT !.ret = i]
  PROVE  s \in ThreadState /\ s.pc = "idle" /\ s.ret = i /\ s.ch = 0
BY IdleType DEF ThreadState

\* Nothing is on its way any more.
LEMMA OnceEmpty ==
  ASSUME OnceInv, UNCHANGED <<retrans_, runs, th>>, jobs' = {},
         \A c \in DOMAIN Reqs' : Reqs'[c] = <<>>
  PROVE  OnceInv'
<1>1. Travelling' = {} /\ \A c \in DOMAIN Reqs' : DOMAIN Reqs'[c] = {}
  BY DEF Travelling, ToSet
<1>2. ASSUME OnePlace PROVE OnePlace'
  BY <1>1, <1>2 DEF OnePlace
<1> QED BY <1>2 DEF OnceInv

\* The process of the server ends.
LEMMA ExitEffect ==
  ASSUME ConnTypes, Exit, UNCHANGED <<chan_, th>>
  PROVE  /\ ConnTypes' /\ jobs' = {}
         /\ Travelling' = {} /\ Replies' = {} /\ \A c \in DOMAIN Reqs' : Reqs'[c] = <<>>
<1>1. jobs' = {} /\ conns' = [c \in DOMAIN conns |-> Dead]
  BY DEF Exit
<1>2. /\ conns' \in Seq(ConnState) /\ Len(conns') = Len(conns)
      /\ Reqs' = [c \in DOMAIN conns |-> <<>>] /\ Reps' = [c \in DOMAIN conns |-> <<>>]
  BY <1>1, AllDead DEF ConnTypes
<1>3. ConnTypes'
  BY <1>1, <1>2 DEF ConnTypes
<1>4. /\ DOMAIN Reqs' = DOMAIN conns /\ DOMAIN Reps' = DOMAIN conns
      /\ \A c \in DOMAIN conns : Reqs'[c] = <<>> /\ Reps'[c] = <<>>
  BY <1>2
<1>5. ToSet(<<>>) = {}
  BY DEF ToSet
<1> QED BY <1>1, <1>3, <1>4, <1>5 DEF Travelling, Replies

\* Requests arrive or are lost.
LEMMA TravelFewer ==
  ASSUME TravelInv, Later, RunsKept, RequestsKept, Travelling' \subseteq Travelling
  PROVE  TravelInv'
BY KnownKept DEF TravelInv

\* Replies arrive or are lost.
LEMMA ReplyFewer ==
  ASSUME ReplyInv, Later, RunsKept, Replies' \subseteq Replies
  PROVE  ReplyInv'
BY GoodReplyKept DEF ReplyInv

\* A caller that is told how its call ended.
Told(s, f, n) == [s EXCEPT !.done = f, !.intret = n]

\* What cancel makes of a caller.
LEMMA CallerTold ==
  ASSUME NEW s \in CallerState, NEW f \in Flags, NEW n \in Int
  PROVE  Told(s, f, n) \in CallerState /\ Told(s, f, n).done = f /\ Told(s, f, n).intret = n
<1>1. PICK e : e = Told(s, f, n)
  OBVIOUS
<1>2. e = [s EXCEPT !.done = f, !.intret = n]
  BY <1>1 DEF Told
<1>3. e = [done |-> f, intret |-> n, un |-> s.un]
  BY <1>2 DEF CallerState
<1>4. e \in CallerState /\ e.done = f /\ e.intret = n
  BY <1>3 DEF CallerState
<1> QED BY <1>1, <1>4

\* A thread that has packed its request.
Sending(proc, a, x, b) == [Idle EXCEPT !.pc = "send", !.proc = proc, !.args = a, !.xid = x, !.req = b]

\* What call1 makes of a thread that calls.
LEMMA SendingThread ==
  ASSUME NEW proc \in Int, NEW a \in ArgLists, NEW x \in 0..MaxXid, NEW b \in Buffers,
         NEW s, s = Sending(proc, a, x, b)
  PROVE  /\ s \in ThreadState /\ s.pc = "send" /\ s.proc = proc /\ s.args = a /\ s.xid = x
         /\ s.req = b /\ s.ch = 0
<1>1. s = [Idle EXCEPT !.pc = "send", !.proc = proc, !.args = a, !.xid = x, !.req = b]
  BY DEF Sending
<1> QED BY <1>1, IdleType DEF ThreadState

\* A sequence without indices is the empty one.
LEMMA NoElements ==
  ASSUME NEW S, NEW w \in Seq(S), DOMAIN w = {}
  PROVE  w = <<>>
<1>1. Len(w) \in Nat /\ 1..Len(w) = {}
  OBVIOUS
<1>2. Len(w) = 0
  BY <1>1
<1> QED BY <1>2, EmptySeq

\* A call is refused with a negative number.
LEMMA Refusals ==
  ASSUME NEW proc, refusal(proc) # 0
  PROVE  refusal(proc) \in Int /\ ~ (refusal(proc) >= 0)
BY DEF refusal, bind_failure, cancel_failure

\* A new caller waits.
LEMMA CallerType == Caller \in CallerState /\ ~ Caller.done
<1>1. PICK f \in Flags : f = FALSE
  BY DEF Flags
<1>2. PICK g \in Flags : g = TRUE
  BY DEF Flags
<1>3. PICK b \in Buffers : b = <<>>
  BY EmptyValues
<1>4. PICK u : u = [buf |-> b, ind |-> 0, ok |-> g]
  OBVIOUS
<1>5. u \in Unmarshalls
  BY <1>4 DEF Unmarshalls
<1>6. Caller = [done |-> f, intret |-> 0, un |-> u]
  BY <1>1, <1>2, <1>3, <1>4 DEF Caller, unmarshall
<1>7. Caller.done = f
  BY <1>6
<1>8. Caller \in CallerState
  BY <1>5, <1>6 DEF CallerState
<1> QED BY <1>1, <1>7, <1>8

\* What a thread in call1 sends is known.
LEMMA RequestKnown ==
  ASSUME ThreadInv, NoDanglingCaller, NEW t \in Threads, th[t].pc \in {"send", "wait"}
  PROVE  Requested(th[t]) /\ Known(th[t].req)
<1>1. Requested(th[t])
  BY DEF ThreadInv, ThreadOK
<1>2. t \in Requesting
  BY DEF Requesting
<1>3. \A u \in Requesting : th[u].xid = th[t].xid => th[u].req = th[t].req
  BY <1>2 DEF NoDanglingCaller
<1> QED BY <1>1, <1>3 DEF Requested, Known

\* t waits after it has sent, on connection n.
Waits(t, n) ==
  /\ th' \in [Threads -> ThreadState] /\ \A u \in Threads \ {t} : th'[u] = th[u]
  /\ th'[t].pc = "wait" /\ th'[t].proc = th[t].proc /\ th'[t].args = th[t].args
  /\ th'[t].xid = th[t].xid /\ th'[t].req = th[t].req /\ th'[t].ch = n

\* A thread that has sent waits for the same call.
LEMMA WaitsParts ==
  ASSUME ThreadInv, NoDanglingCaller, NEW t \in Threads, th[t].pc = "send", NEW n, Waits(t, n),
         Later, runs' = runs, calls_' = calls_
  PROVE  ThreadTypes' /\ ThreadInv' /\ NoDanglingCaller' /\ RequestsKept
<1>1. Requested(th[t])
  BY RequestKnown
<1>2. PICK s : s = th[t]
  OBVIOUS
<1>3. Requested(s)'
  <2>1. ThreadOK(s) /\ s.pc = "send"
    BY <1>2 DEF ThreadInv
  <2>2. ThreadOK(s)'
    BY <2>1, ThreadKept
  <2> QED BY <2>1, <2>2 DEF ThreadOK
<1>4. Requested(th[t])'
  BY <1>2, <1>3 DEF Requested, Waits
<1>5. ThreadOK(th[t])'
  BY <1>4 DEF ThreadOK, Waits
<1>6. ThreadInv'
  BY <1>5, ThreadsKept DEF Waits
<1>7. \A u \in Threads : (u \in Requesting' <=> u \in Requesting) /\ (u \in Requesting => th'[u].xid = th[u].xid)
  BY DEF Requesting, Waits
<1>8. NoDanglingCaller'
  BY <1>7, DanglingKept
<1>9. RequestsKept
  BY <1>7 DEF RequestsKept, Requesting, Waits
<1> QED BY <1>6, <1>8, <1>9 DEF ThreadTypes, Waits

\* b is the only request that was not there before.
NewPlace(c, i, b) ==
  \A d \in DOMAIN Reqs' : \A k \in DOMAIN Reqs'[d] :
    \/ d = c /\ k = i /\ Reqs'[d][k] = b
    \/ d \in DOMAIN Reqs /\ k \in DOMAIN Reqs[d] /\ Reqs'[d][k] = Reqs[d][k]

\* The request of a thread that was about to send is at one new place.
LEMMA OnceSent ==
  ASSUME OnceInv, ThreadInv, NoDanglingCaller, NEW t \in Threads, th[t].pc = "send", NEW n, Waits(t, n),
         retrans_' = retrans_, runs' = runs, jobs' = jobs,
         NEW b, b = th[t].req, NEW c, NEW i,
         Travelling' \subseteq Travelling \cup {b},
         NewPlace(c, i, b)
  PROVE  OnceInv'
<1>1. SUFFICES ASSUME OnePlace, ~ retrans_ PROVE OnePlace'
  BY DEF OnceInv
<1> DEFINE x == th[t].xid
<1>2. Hdr(b).xid = x
  BY RequestKnown DEF Requested
<1>3. runs[x] = <<>> /\ \A e \in Travelling : Hdr(e).xid # x
  BY <1>1 DEF OnePlace
<1>4. \A u \in Threads \ {t} : th[u].pc = "send" => th[u].xid # x
  BY DEF NoDanglingCaller, Requesting
<1>5. \A u \in Threads : th'[u].pc = "send" => u # t /\ th'[u] = th[u]
  BY DEF Waits
<1>6. \A d \in DOMAIN Reqs : \A k \in DOMAIN Reqs[d] : Reqs[d][k] \in Travelling
  BY DEF Travelling, ToSet
<1>7. \A j \in jobs : j.buf \in Travelling
  BY DEF Travelling
<1> HIDE DEF x
<1>8. \A y \in 1..MaxXid : Len(runs'[y]) <= 1
  BY <1>1 DEF OnePlace
<1>9. \A u \in Threads : th'[u].pc = "send" =>
        runs'[th'[u].xid] = <<>> /\ \A e \in Travelling' : Hdr(e).xid # th'[u].xid
  BY <1>1, <1>2, <1>4, <1>5 DEF OnePlace
<1>10. \A e \in Travelling' : runs'[Hdr(e).xid] = <<>>
  BY <1>1, <1>2, <1>3 DEF OnePlace
<1>11. ASSUME NEW d \in DOMAIN Reqs', NEW k \in DOMAIN Reqs'[d], NEW e \in DOMAIN Reqs', NEW l \in DOMAIN Reqs'[e],
              Hdr(Reqs'[d][k]).xid = Hdr(Reqs'[e][l]).xid
       PROVE  d = e /\ k = l
  BY <1>1, <1>2, <1>3, <1>6, <1>11 DEF OnePlace, NewPlace
<1>12. ASSUME NEW d \in DOMAIN Reqs', NEW k \in DOMAIN Reqs'[d], NEW j \in jobs
       PROVE  Hdr(Reqs'[d][k]).xid # Hdr(j.buf).xid
  BY <1>1, <1>2, <1>3, <1>7 DEF OnePlace, NewPlace
<1>13. \A j, k \in jobs : Hdr(j.buf).xid = Hdr(k.buf).xid => j = k
  BY <1>1 DEF OnePlace
<1> QED BY <1>8, <1>9, <1>10, <1>11, <1>12, <1>13 DEF OnePlace

\* What rpcc::call_m gives its caller, when the answer carries a result.
Given(s, p, ret, v) == [s EXCEPT !.pc = p, !.req = <<>>, !.ch = 0, !.ret = ret, !.r = v]

\* What call_m makes of a thread whose call has succeeded.
LEMMA GivenThread ==
  ASSUME NEW s \in ThreadState, NEW p \in {"idle", "send", "wait", "bind"}, NEW ret \in Int, NEW v \in Seq(Results_),
         NEW e, e = Given(s, p, ret, v)
  PROVE  /\ e \in ThreadState /\ e.pc = p /\ e.proc = s.proc /\ e.args = s.args /\ e.xid = s.xid
         /\ e.ch = 0 /\ e.ret = ret /\ e.r = v
<1>1. PICK b \in Buffers : b = <<>>
  BY EmptyValues
<1>2. e = [s EXCEPT !.pc = p, !.req = b, !.ch = 0, !.ret = ret, !.r = v]
  BY <1>1 DEF Given
<1>3. e = MkThread(p, s.proc, s.args, s.xid, b, 0, ret, v)
  BY <1>2 DEF ThreadState, MkThread
<1>4. s.proc \in Int /\ s.args \in ArgLists /\ s.xid \in 0..MaxXid
  BY DEF ThreadState
<1>5. e \in ThreadState
  BY <1>3, <1>4, ThreadRecord
<1> QED BY <1>3, <1>5 DEF MkThread

\* How a call ends: it failed, or it has the answer to its own request.
LEMMA ReturnThread ==
  ASSUME ThreadTypes, CallTypes, RunTypes, ClientTypes, ThreadInv, CallerInv, NoDanglingCaller,
         Understood, NEW t \in Threads, Return(t)
  PROVE  /\ ~ broken' /\ client' = client
         /\ \E s \in ThreadState : /\ th' = [th EXCEPT ![t] = s]
                                   /\ s.pc \in {"idle", "bind"} /\ s.ch = 0 /\ ThreadOK(s)
<1> DEFINE xid == th[t].xid
           ca  == calls_[xid]
           ret == IF ca.done THEN ca.intret ELSE timeout_failure
           x   == Take(ca.un, <<ResultType(th[t].proc)>>)
           bad == ret >= 0 /\ ~ okdone(x.u)
<1>1. /\ th[t].pc = "wait"
      /\ client' = IF bad THEN "aborted" ELSE client
      /\ broken' = (broken \/ bad)
      /\ th' = [th EXCEPT ![t] =
                 IF ret < 0 THEN [Idle EXCEPT !.ret = ret]
                 ELSE [th[t] EXCEPT !.pc = IF th[t].proc = bind THEN "bind" ELSE "idle",
                                    !.req = <<>>, !.ch = 0, !.ret = ret, !.r = x.v]]
  BY DEF Return
<1>2. Requested(th[t]) /\ t \in Requesting /\ xid \in DOMAIN calls_ /\ xid \in 1..MaxXid /\ th[t] \in ThreadState
  BY <1>1, RequestKnown, CallDomain DEF Requesting, ThreadTypes
<1>3. PICK i \in Int : i = ret
  <2>1. ca \in CallerState
    BY <1>2 DEF CallTypes
  <2>2. ca.intret \in Int
    BY <2>1 DEF CallerState
  <2> QED BY <2>2 DEF timeout_failure
<1>4. CASE i < 0
  <2>1. ~ (i >= 0)
    BY <1>4
  <2>2. ~ bad
    BY <1>3, <2>1
  <2>3. PICK s : s = [Idle EXCEPT !.ret = i]
    OBVIOUS
  <2>4. s \in ThreadState /\ s.pc = "idle" /\ s.ret = i /\ s.ch = 0
    BY <2>3, IdleThread
  <2>5. th' = [th EXCEPT ![t] = s]
    BY <1>1, <1>3, <1>4, <2>3
  <2>6. ThreadOK(s)
    BY <2>1, <2>4 DEF ThreadOK
  <2> HIDE DEF bad
  <2>7. ~ broken' /\ client' = client
    BY <1>1, <2>2 DEF Understood
  <2> HIDE DEF ret, x, xid, ca
  <2> QED BY <2>4, <2>5, <2>6, <2>7
<1>5. CASE ~ (i < 0)
  <2>1. i >= 0
    BY <1>5
  <2>2. ca.done /\ ca.intret = i
    BY <1>3, <2>1 DEF timeout_failure
  <2>3. PICK k \in DOMAIN runs[xid] : Carries(ca.un, runs[xid][k])
    BY <1>2, <2>1, <2>2 DEF CallerInv, Truthful
  <2>4. runs[xid][k].proc = th[t].proc /\ runs[xid][k].args = th[t].args
    BY <1>2 DEF Requested
  <2>5. x.v = <<runs[xid][k].r>> /\ okdone(x.u)
    BY <2>3, <2>4 DEF Carries
  <2>6. ~ bad
    BY <2>5
  <2>7. PICK v \in Seq(Results_) : v = x.v
    <3>1. runs[xid] \in Seq(Run)
      BY <1>2 DEF RunTypes
    <3>2. runs[xid][k] \in Run
      BY <3>1
    <3>3. runs[xid][k].r \in Results_
      BY <3>2 DEF Run
    <3>4. <<runs[xid][k].r>> \in Seq(Results_)
      BY <3>3
    <3> QED BY <2>5, <3>4
  <2>8. PICK p \in {"idle", "bind"} : p = IF th[t].proc = bind THEN "bind" ELSE "idle"
    OBVIOUS
  <2>9. PICK s : s = Given(th[t], p, i, v)
    OBVIOUS
  <2>10. th' = [th EXCEPT ![t] = s]
    <3>1. th' = [th EXCEPT ![t] = [th[t] EXCEPT !.pc = IF th[t].proc = bind THEN "bind" ELSE "idle",
                                    !.req = <<>>, !.ch = 0, !.ret = i, !.r = x.v]]
      BY <1>1, <1>3, <1>5
    <3> HIDE DEF x
    <3> QED BY <2>7, <2>8, <2>9, <3>1 DEF Given
  <2>11. /\ s \in ThreadState /\ s.pc = p /\ s.proc = th[t].proc /\ s.args = th[t].args /\ s.xid = xid
         /\ s.ch = 0 /\ s.ret = i /\ s.r = v
    <3>1. p \in {"idle", "send", "wait", "bind"}
      BY <2>8
    <3> QED BY <1>2, <2>9, <3>1, GivenThread
  <2>12. Answered(s)
    <3>1. xid \in 1..(xid_ - 1)
      BY <1>2 DEF Requested
    <3> QED BY <2>4, <2>5, <2>7, <2>11, <3>1 DEF Answered
  <2>13. p = "bind" => th[t].proc = bind
    BY <2>8
  <2>14. ThreadOK(s)
    BY <2>1, <2>8, <2>11, <2>12, <2>13 DEF ThreadOK
  <2> HIDE DEF bad
  <2>15. ~ broken' /\ client' = client
    BY <1>1, <2>6 DEF Understood
  <2> HIDE DEF ret, x, xid, ca
  <2> QED BY <2>8, <2>10, <2>11, <2>14, <2>15
<1> QED BY <1>4, <1>5

\* The first message of a queue, and those behind it.
LEMMA HeadTailOf ==
  ASSUME NEW w \in Seq(Buffers), w # <<>>, NEW b, b = Head(w), NEW q, q = Tail(w)
  PROVE  /\ q \in Seq(Buffers)
         /\ \A k \in DOMAIN q : k + 1 \in DOMAIN w /\ q[k] = w[k + 1] /\ k \in Nat /\ k # 0
         /\ 1 \in DOMAIN w /\ b = w[1] /\ b \in Buffers
<1>1. Len(w) \in Nat /\ Len(w) # 0 /\ DOMAIN w = 1..Len(w)
  BY EmptySeq
<1>2. q \in Seq(Buffers) /\ Len(q) = Len(w) - 1 /\ \A k \in 1..Len(q) : q[k] = w[k + 1]
  BY HeadTailProperties
<1>3. DOMAIN q = 1..Len(q)
  BY <1>2
<1>4. 1 \in DOMAIN w /\ w[1] \in Buffers
  BY <1>1
<1> QED BY <1>1, <1>2, <1>3, <1>4

\* A reply is sent, or the connection is dead.
LEMMA SendEffect ==
  ASSUME conns \in Seq(ConnState), NEW c \in DOMAIN conns, NEW m \in Buffers, Send(c, m)
  PROVE  /\ conns' \in Seq(ConnState) /\ Len(conns') = Len(conns)
         /\ Reqs' = Reqs /\ Replies' \subseteq Replies \cup {m}
<1>1. CASE conns' = conns
  BY <1>1 DEF Reqs, Reps, Replies
<1>2. CASE conns' = [conns EXCEPT ![c].rep = Append(@, m)]
  <2>1. PICK y \in Seq(Buffers) : y = conns[c].rep
    BY QueueTypes
  <2>2. PICK q : q = Append(y, m)
    OBVIOUS
  <2>3. /\ q \in Seq(Buffers) /\ Len(q) = Len(y) + 1
        /\ q[Len(y) + 1] = m /\ \A k \in 1..Len(y) : q[k] = y[k]
    BY <2>2, AppendProperties
  <2>4. \A e \in ToSet(q) : e \in ToSet(y) \/ e = m
    <3>1. DOMAIN q = 1..(Len(y) + 1) /\ DOMAIN y = 1..Len(y) /\ Len(y) \in Nat
      BY <2>3
    <3>2. \A k \in DOMAIN q : k \in DOMAIN y \/ k = Len(y) + 1
      BY <3>1
    <3> QED BY <2>3, <3>1, <3>2 DEF ToSet
  <2>5. conns' = [conns EXCEPT ![c].rep = q]
    BY <1>2, <2>1, <2>2
  <2>6. /\ conns' \in Seq(ConnState) /\ Len(conns') = Len(conns)
        /\ Reqs' = Reqs /\ Reps' = [Reps EXCEPT ![c] = q]
    BY <2>3, <2>5, RepChanged
  <2>7. DOMAIN Reps = DOMAIN conns /\ Reps[c] = y
    BY <2>1, QueueTypes
  <2>8. DOMAIN Reps' = DOMAIN Reps /\ Reps'[c] = q /\ \A d \in DOMAIN Reps : d # c => Reps'[d] = Reps[d]
    BY <2>6, <2>7
  <2>9. \A e \in Replies' : e \in Replies \/ e = m
    BY <2>4, <2>7, <2>8 DEF Replies
  <2> QED BY <2>6, <2>9
<1> QED BY <1>1, <1>2 DEF Send

\* A job ends.
LEMMA JobEnds ==
  ASSUME NEW j \in jobs, jobs' = jobs \ {j}, Reqs' = Reqs
  PROVE  j.buf \in Travelling /\ Travelling' \subseteq Travelling
<1>1. \A e \in Travelling' : e \in Travelling
  BY DEF Travelling
<1> QED BY <1>1 DEF Travelling

\* One job fewer, and no new run.
LEMMA OnceJobEnds ==
  ASSUME OnceInv, UNCHANGED <<retrans_, runs, th>>, NEW j \in jobs, jobs' = jobs \ {j}, Reqs' = Reqs
  PROVE  OnceInv'
<1>1. Travelling' \subseteq Travelling
  BY JobEnds
<1>2. ASSUME OnePlace PROVE OnePlace'
  BY <1>1, <1>2 DEF OnePlace
<1> QED BY <1>2 DEF OnceInv

\* The request of a job that runs is nowhere else.
LEMMA OnlyPlace ==
  ASSUME OnePlace, NEW j \in jobs, jobs' = jobs \ {j}, Reqs' = Reqs
  PROVE  \A e \in Travelling' : Hdr(e).xid # Hdr(j.buf).xid
<1>1. SUFFICES ASSUME NEW e \in Travelling' PROVE Hdr(e).xid # Hdr(j.buf).xid
  OBVIOUS
<1>2. CASE \E i \in jobs' : e = i.buf
  BY <1>2 DEF OnePlace
<1>3. CASE \E c \in DOMAIN Reqs : e \in ToSet(Reqs[c])
  BY <1>3 DEF OnePlace, ToSet
<1> QED BY <1>2, <1>3 DEF Travelling

-----------------------------------------------------------------------------
(* A method runs.                                                          *)

\* What h1::fn does before its reply: the method of job j runs, with result r.
Starts(j, r) ==
  /\ up /\ ~ oldsrv(Hdr(j.buf)) /\ Hdr(j.buf).clt_nonce = 0
  /\ r \in Results(Hdr(j.buf).proc, Args(j.buf))
  /\ runs' = [runs EXCEPT ![Hdr(j.buf).xid] =
               Append(@, [srv |-> nonce_, proc |-> Hdr(j.buf).proc, args |-> Args(j.buf), r |-> r])]
  /\ UNCHANGED <<retrans_, clientVars, chan_, th, broken>>

Answers(j, r) ==
  /\ Starts(j, r)
  /\ jobs' = jobs \ {j}
  /\ Send(j.conn, pack_reply_header(Put(marshall, <<ResultType(Hdr(j.buf).proc)>>, <<r>>),
                                    [xid |-> Hdr(j.buf).xid, ret |-> 0]))
  /\ UNCHANGED <<up, nonce_, main>>

Dies(j, r) == Starts(j, r) /\ Exit

\* The one run for x is new, and is run.
FirstRun(x, run) ==
  /\ x \in 1..MaxXid /\ run \in Run
  /\ runs[x] = <<>> /\ runs' \in [1..MaxXid -> Seq(Run)]
  /\ DOMAIN runs'[x] = {1} /\ Len(runs'[x]) = 1 /\ runs'[x][1] = run
  /\ \A y \in 1..MaxXid : y # x => runs'[y] = runs[y]

\* The run for request b: of its method, with its arguments, at its server.
RunFor(b, run) ==
  /\ run.proc = Hdr(b).proc /\ run.args = Args(b) /\ run.srv = nonce_ /\ run.srv # 0
  /\ run.proc = bind => run.r = run.srv
  /\ run.proc # bind => Hdr(b).srv_nonce = run.srv
  /\ OfType(Alphabet, ResultType(run.proc), run.r)

\* A method that runs is the first run for its xid, of the procedure and with the arguments
\* the caller asked for, and for the server the caller has bound to.
LEMMA StartsRun ==
  ASSUME IInv, NEW j \in jobs, NEW r, Starts(j, r)
  PROVE  /\ ~ retrans_ /\ OnePlace /\ Known(j.buf) /\ j.buf \in Travelling
         /\ \E run : FirstRun(Hdr(j.buf).xid, run) /\ RunFor(j.buf, run) /\ run.r = r
<1>inv. TypeInv /\ TravelInv /\ OnceInv
  BY DEF IInv
<1>1. PICK b : b = j.buf
  OBVIOUS
<1>2. b \in Travelling
  BY <1>1 DEF Travelling
<1>3. Known(b)
  BY <1>inv, <1>2 DEF TravelInv
<1>4. ~ retrans_
  BY <1>1, <1>3 DEF Known, Starts, clt_nonce_
<1>5. OnePlace
  BY <1>inv, <1>4 DEF OnceInv
<1>6. PICK x : x = Hdr(b).xid
  OBVIOUS
<1>7. x \in 1..MaxXid
  BY <1>inv, <1>3, <1>6, RpcAssumption DEF Known, TypeInv, ClientTypes
<1>8. runs[x] = <<>>
  BY <1>2, <1>5, <1>6 DEF OnePlace
<1>9. PICK proc : proc = Hdr(b).proc
  OBVIOUS
<1>10. PICK args : args = Args(b)
  OBVIOUS
<1>11. <<proc, args>> \in Asked
  BY <1>3, <1>9, <1>10 DEF Known, GoodRequest
<1>12. proc \in Procs /\ args \in ArgLists
  <2>1. PICK q \in Asked : q = <<proc, args>>
    BY <1>11
  <2>2. q[1] = proc /\ q[2] = args
    BY <2>1
  <2>3. q[1] \in Procs
    BY AskedTyped
  <2> QED BY <2>2, <2>3 DEF ArgLists
<1>13. nonce_ \in Nat /\ nonce_ \in 1..MaxBoot
  BY <1>inv, RpcAssumption DEF TypeInv, ServerTypes, Starts
<1>14. OfType(Alphabet, ResultType(proc), r) /\ r \in Results_ /\ (proc = bind => r = nonce_)
  <2>1. r \in Results(proc, args)
    BY <1>1, <1>9, <1>10 DEF Starts
  <2> QED BY <1>11, <1>13, <2>1, ResultTyped
<1>15. PICK run : run = [srv |-> nonce_, proc |-> proc, args |-> args, r |-> r]
  OBVIOUS
<1>16. run \in Run /\ run.srv = nonce_ /\ run.proc = proc /\ run.args = args /\ run.r = r
  BY <1>12, <1>13, <1>14, <1>15 DEF Run
<1>17. runs' = [runs EXCEPT ![x] = Append(@, run)]
  BY <1>1, <1>6, <1>9, <1>10, <1>15 DEF Starts
<1>18. PICK w \in Seq(Run) : w = <<run>> /\ w = Append(runs[x], run) /\ DOMAIN w = {1} /\ Len(w) = 1 /\ w[1] = run
  <2>1. <<run>> \in Seq(Run) /\ <<run>> = Append(<<>>, run)
    BY <1>16
  <2>2. DOMAIN <<run>> = {1} /\ Len(<<run>>) = 1 /\ <<run>>[1] = run
    OBVIOUS
  <2> QED BY <1>8, <2>1, <2>2
<1>19. runs \in [1..MaxXid -> Seq(Run)] /\ runs' = [runs EXCEPT ![x] = w]
  BY <1>inv, <1>17, <1>18 DEF TypeInv, RunTypes
<1>20. runs' \in [1..MaxXid -> Seq(Run)] /\ runs'[x] = w /\ \A y \in 1..MaxXid : y # x => runs'[y] = runs[y]
  BY <1>7, <1>18, <1>19
<1>21. FirstRun(x, run)
  BY <1>7, <1>8, <1>16, <1>18, <1>20 DEF FirstRun
<1>22. proc # bind => Hdr(b).srv_nonce = nonce_
  BY <1>1, <1>3, <1>9 DEF Known, BoundBefore, Starts, oldsrv
<1>23. nonce_ # 0
  BY <1>13
<1>24. RunFor(b, run)
  BY <1>9, <1>10, <1>14, <1>16, <1>22, <1>23 DEF RunFor
<1> QED BY <1>1, <1>2, <1>3, <1>4, <1>5, <1>6, <1>16, <1>21, <1>24

\* The first run for an xid takes the place of no other.
LEMMA FirstRunKeeps ==
  ASSUME NEW x, NEW run, FirstRun(x, run)
  PROVE  RunsKept
<1>1. ASSUME NEW y \in 1..MaxXid, NEW k \in DOMAIN runs[y] PROVE y # x
  <2>1. DOMAIN <<>> = {}
    OBVIOUS
  <2> QED BY <1>1, <2>1 DEF FirstRun
<1> QED BY <1>1 DEF FirstRun, RunsKept

\* A new run belongs to an xid that was given out, and comes after the bind to its server.
LEMMA FirstRunInv ==
  ASSUME RunInv, Later, NEW b, Known(b), NEW run, FirstRun(Hdr(b).xid, run), RunFor(b, run)
  PROVE  RunInv'
<1>1. PICK x : x = Hdr(b).xid
  OBVIOUS
<1>2. RunsKept
  BY FirstRunKeeps
<1>3. x \in 1..MaxXid /\ x < xid_' /\ x \in Int /\ x - 1 <= MaxXid
  BY <1>1, RpcAssumption DEF Known, Later, FirstRun
<1>4. run.proc # bind => BoundBefore(run.srv, x)'
  BY <1>1, <1>2, <1>3, BoundBeforeKept DEF Known, RunFor
<1>5. SUFFICES ASSUME NEW y \in 1..MaxXid, NEW k \in DOMAIN runs'[y]
               PROVE  /\ y < xid_'
                      /\ runs'[y][k].proc = bind => runs'[y][k].r = runs'[y][k].srv
                      /\ runs'[y][k].proc # bind => BoundBefore(runs[y][k].srv, y)'
  BY DEF RunInv, BoundBefore
<1>6. CASE y = x
  <2>1. runs'[y][k] = run
    BY <1>1, <1>6 DEF FirstRun
  <2> QED BY <1>3, <1>4, <1>6, <2>1 DEF RunFor, BoundBefore
<1>7. CASE y # x
  <2>1. k \in DOMAIN runs[y] /\ runs'[y] = runs[y]
    BY <1>1, <1>7 DEF FirstRun
  <2>2. /\ y < xid_
        /\ runs[y][k].proc = bind => runs[y][k].r = runs[y][k].srv
        /\ runs[y][k].proc # bind => BoundBefore(runs[y][k].srv, y)
    BY <2>1 DEF RunInv
  <2>3. PICK n : n = runs[y][k].srv /\ n = runs'[y][k].srv
    BY <2>1
  <2>4. runs[y][k].proc # bind => BoundBefore(n, y)'
    BY <1>2, <2>2, <2>3, BoundBeforeKept, RpcAssumption
  <2> QED BY <2>1, <2>2, <2>3, <2>4 DEF Later, BoundBefore
<1> QED BY <1>6, <1>7

\* The thread that waits for the run has asked for it.
LEMMA FirstRunThreads ==
  ASSUME ThreadInv, Later, xid_' = xid_, th' = th, NEW b, Known(b), NEW run, FirstRun(Hdr(b).xid, run), RunFor(b, run)
  PROVE  ThreadInv'
<1>1. RunsKept
  BY FirstRunKeeps
<1>2. SUFFICES ASSUME NEW t \in Threads PROVE ThreadOK(th[t])'
  BY DEF ThreadInv
<1>3. PICK s : s = th[t] /\ s = th'[t]
  OBVIOUS
<1>4. ThreadOK(s)
  BY <1>3 DEF ThreadInv
<1>5. ASSUME s.pc \in {"send", "wait"}, Requested(s) PROVE Requested(s)'
  <2>1. s.xid \in 1..(xid_' - 1) /\ s.xid \in Int /\ s.xid - 1 <= MaxXid /\ s.xid \in 1..MaxXid
    BY <1>5, RpcAssumption DEF Requested, Later
  <2>2. clt_nonce_' = clt_nonce_
    BY DEF clt_nonce_, Later
  <2>3. s.proc # bind => BoundBefore(Hdr(s.req).srv_nonce, s.xid)'
    BY <1>1, <1>5, <2>1, BoundBeforeKept DEF Requested
  <2>4. ASSUME NEW k \in DOMAIN runs'[s.xid]
        PROVE  runs'[s.xid][k].proc = s.proc /\ runs'[s.xid][k].args = s.args
    <3>1. CASE s.xid = Hdr(b).xid
      <4>1. s.req = b
        BY <1>3, <1>5, <3>1 DEF Known, Requesting
      <4>2. runs'[s.xid][k] = run
        BY <2>4, <3>1 DEF FirstRun
      <4> QED BY <1>5, <4>1, <4>2 DEF RunFor, Requested
    <3>2. CASE s.xid # Hdr(b).xid
      <4>1. runs'[s.xid] = runs[s.xid]
        BY <2>1, <3>2 DEF FirstRun
      <4> QED BY <1>5, <2>4, <4>1 DEF Requested
    <3> QED BY <3>1, <3>2
  <2> QED BY <1>5, <2>1, <2>2, <2>3, <2>4 DEF Requested
<1>6. ASSUME Answered(s) PROVE Answered(s)'
  <2>1. s.xid \in 1..(xid_' - 1) /\ s.xid \in 1..MaxXid
    BY <1>6, RpcAssumption DEF Answered, Later
  <2> QED BY <1>1, <1>6, <2>1 DEF Answered, RunsKept
<1>7. ThreadOK(s)'
  BY <1>4, <1>5, <1>6 DEF ThreadOK
<1> QED BY <1>3, <1>7 DEF ThreadOK, Requested, Answered

\* The request that has run is nowhere any more.
LEMMA FirstRunOnce ==
  ASSUME OnePlace, ~ retrans_, UNCHANGED <<retrans_, th>>, NEW b \in Travelling, NEW run,
         FirstRun(Hdr(b).xid, run), jobs' \subseteq jobs,
         \A c \in DOMAIN Reqs' : c \in DOMAIN Reqs /\ Reqs'[c] \in {Reqs[c], <<>>},
         \A e \in Travelling' : e \in Travelling /\ Hdr(e).xid # Hdr(b).xid,
         \A e \in Travelling' : Hdr(e).xid \in 1..MaxXid,
         \A t \in Threads : th[t].pc = "send" => th[t].xid \in 1..MaxXid
  PROVE  OnceInv'
<1>1. PICK x : x = Hdr(b).xid
  OBVIOUS
<1>2. \A y \in 1..MaxXid : Len(runs'[y]) <= 1
  <2>1. Len(runs'[x]) = 1 /\ \A y \in 1..MaxXid : y # x => runs'[y] = runs[y]
    BY <1>1 DEF FirstRun
  <2>2. \A y \in 1..MaxXid : Len(runs[y]) <= 1
    BY DEF OnePlace
  <2>3. Len(runs'[x]) <= 1
    BY <2>1
  <2> QED BY <2>1, <2>2, <2>3
<1>3. \A t \in Threads : th'[t].pc = "send" =>
        runs'[th'[t].xid] = <<>> /\ \A e \in Travelling' : Hdr(e).xid # th'[t].xid
  BY <1>1 DEF OnePlace, FirstRun
<1>4. \A e \in Travelling' : runs'[Hdr(e).xid] = <<>>
  BY <1>1 DEF OnePlace, FirstRun
<1>5. \A c \in DOMAIN Reqs' : c \in DOMAIN Reqs /\ \A k \in DOMAIN Reqs'[c] : k \in DOMAIN Reqs[c] /\ Reqs'[c][k] = Reqs[c][k]
  <2>1. DOMAIN <<>> = {}
    OBVIOUS
  <2> QED BY <2>1
<1>6. \A c, d \in DOMAIN Reqs' : \A k \in DOMAIN Reqs'[c], l \in DOMAIN Reqs'[d] :
        Hdr(Reqs'[c][k]).xid = Hdr(Reqs'[d][l]).xid => c = d /\ k = l
  BY <1>5 DEF OnePlace
<1>7. \A c \in DOMAIN Reqs' : \A k \in DOMAIN Reqs'[c] : \A j \in jobs' : Hdr(Reqs'[c][k]).xid # Hdr(j.buf).xid
  BY <1>5 DEF OnePlace
<1>8. \A i, j \in jobs' : Hdr(i.buf).xid = Hdr(j.buf).xid => i = j
  BY DEF OnePlace
<1>9. OnePlace'
  BY <1>2, <1>3, <1>4, <1>6, <1>7, <1>8 DEF OnePlace
<1> QED BY <1>9 DEF OnceInv

-----------------------------------------------------------------------------
(* Every step keeps the invariant.                                         *)

\* The constructor of rpcs.
LEMMA BootStep ==
  ASSUME IInv, Boot
  PROVE  IInv'
<1>inv. /\ ClientTypes /\ CallTypes /\ ThreadTypes /\ ConnTypes /\ ServerTypes /\ RunTypes
        /\ ThreadInv /\ BindInv /\ RunInv /\ TravelInv /\ ReplyInv /\ CallerInv
        /\ WindowInv /\ NoDanglingCaller /\ OnceInv /\ QuietAfterCancel /\ Understood
  BY DEF IInv, TypeInv
<1>same. /\ retrans_' = retrans_ /\ bind_done_' = bind_done_ /\ srv_nonce_' = srv_nonce_ /\ xid_' = xid_ /\ calls_' = calls_
         /\ xid_rep_window_' = xid_rep_window_ /\ chan_' = chan_ /\ destroy_wait_' = destroy_wait_ /\ client' = client /\ signalled' = signalled
         /\ th' = th /\ conns' = conns /\ jobs' = jobs /\ runs' = runs /\ broken' = broken
  BY DEF Boot, clientVars, serverVars
<1>later. Later
  BY <1>inv, <1>same DEF Later, ClientTypes
<1>kept. RunsKept /\ RequestsKept
  BY <1>same, RunsSame DEF RequestsKept, Requesting
<1>views. Reqs' = Reqs /\ Reps' = Reps /\ Travelling' = Travelling /\ Replies' = Replies
  BY <1>same DEF Reqs, Reps, Travelling, Replies
<1>ct. ClientTypes'
  BY <1>inv, <1>same DEF ClientTypes
<1>lt. CallTypes'
  BY <1>inv, <1>same DEF CallTypes
<1>tt. ThreadTypes'
  BY <1>inv, <1>same DEF ThreadTypes
<1>nt. ConnTypes'
  BY <1>inv, <1>same DEF ConnTypes
<1>st. ServerTypes'
  <2>1. up' = TRUE /\ main' = 0 /\ nonce_' = nonce_ + 1 /\ nonce_ < MaxBoot
    BY DEF Boot
  <2> QED BY <1>inv, <1>same, <2>1, RpcAssumption DEF ServerTypes, Registered
<1>rt. RunTypes'
  BY <1>inv, <1>same DEF RunTypes
<1>ti. ThreadInv'
  BY <1>inv, <1>same, <1>later, ThreadsSame
<1>bi. BindInv'
  BY <1>inv, <1>same, <1>later, <1>kept, BindKept
<1>ri. RunInv'
  BY <1>inv, <1>same, <1>later, RunsInvKept
<1>vi. TravelInv'
  BY <1>inv, <1>later, <1>kept, <1>views, TravelSame
<1>pi. ReplyInv'
  BY <1>inv, <1>later, <1>kept, <1>views, ReplySame
<1>ci. CallerInv'
  BY <1>inv, <1>same, <1>kept, CallDomain, CallersKept
<1>wi. WindowInv'
  BY <1>inv, <1>same, <1>later, WindowKept
<1>di. NoDanglingCaller'
  BY <1>inv, <1>same, DanglingSame
<1>oi. OnceInv'
  BY <1>inv, <1>same, <1>views, OnceSame
<1>qi. QuietAfterCancel'
  BY <1>inv, <1>same DEF QuietAfterCancel
<1>ui. Understood'
  BY <1>inv, <1>same DEF Understood
<1> QED BY <1>ct, <1>lt, <1>tt, <1>nt, <1>st, <1>rt, <1>ti, <1>bi, <1>ri, <1>vi, <1>pi, <1>ci, <1>wi, <1>di, <1>oi, <1>qi, <1>ui DEF IInv, TypeInv

\* main registers a procedure.
LEMMA RegStep ==
  ASSUME IInv, reg
  PROVE  IInv'
<1>inv. /\ ClientTypes /\ CallTypes /\ ThreadTypes /\ ConnTypes /\ ServerTypes /\ RunTypes
        /\ ThreadInv /\ BindInv /\ RunInv /\ TravelInv /\ ReplyInv /\ CallerInv
        /\ WindowInv /\ NoDanglingCaller /\ OnceInv /\ QuietAfterCancel /\ Understood
  BY DEF IInv, TypeInv
<1>same. /\ retrans_' = retrans_ /\ bind_done_' = bind_done_ /\ srv_nonce_' = srv_nonce_ /\ xid_' = xid_ /\ calls_' = calls_
         /\ xid_rep_window_' = xid_rep_window_ /\ chan_' = chan_ /\ destroy_wait_' = destroy_wait_ /\ client' = client /\ signalled' = signalled
         /\ th' = th /\ conns' = conns /\ up' = up /\ nonce_' = nonce_ /\ jobs' = jobs
         /\ runs' = runs /\ broken' = broken
  BY DEF reg, clientVars, serverVars
<1>later. Later
  BY <1>inv, <1>same DEF Later, ClientTypes
<1>kept. RunsKept /\ RequestsKept
  BY <1>same, RunsSame DEF RequestsKept, Requesting
<1>views. Reqs' = Reqs /\ Reps' = Reps /\ Travelling' = Travelling /\ Replies' = Replies
  BY <1>same DEF Reqs, Reps, Travelling, Replies
<1>ct. ClientTypes'
  BY <1>inv, <1>same DEF ClientTypes
<1>lt. CallTypes'
  BY <1>inv, <1>same DEF CallTypes
<1>tt. ThreadTypes'
  BY <1>inv, <1>same DEF ThreadTypes
<1>nt. ConnTypes'
  BY <1>inv, <1>same DEF ConnTypes
<1>st. ServerTypes'
  <2>1. main' = main + 1 /\ main < Len(Registered) /\ Len(Registered) = 4
    BY DEF reg, Registered
  <2> QED BY <1>inv, <1>same, <2>1 DEF ServerTypes
<1>rt. RunTypes'
  BY <1>inv, <1>same DEF RunTypes
<1>ti. ThreadInv'
  BY <1>inv, <1>same, <1>later, ThreadsSame
<1>bi. BindInv'
  BY <1>inv, <1>same, <1>later, <1>kept, BindKept
<1>ri. RunInv'
  BY <1>inv, <1>same, <1>later, RunsInvKept
<1>vi. TravelInv'
  BY <1>inv, <1>later, <1>kept, <1>views, TravelSame
<1>pi. ReplyInv'
  BY <1>inv, <1>later, <1>kept, <1>views, ReplySame
<1>ci. CallerInv'
  BY <1>inv, <1>same, <1>kept, CallDomain, CallersKept
<1>wi. WindowInv'
  BY <1>inv, <1>same, <1>later, WindowKept
<1>di. NoDanglingCaller'
  BY <1>inv, <1>same, DanglingSame
<1>oi. OnceInv'
  BY <1>inv, <1>same, <1>views, OnceSame
<1>qi. QuietAfterCancel'
  BY <1>inv, <1>same DEF QuietAfterCancel
<1>ui. Understood'
  BY <1>inv, <1>same DEF Understood
<1> QED BY <1>ct, <1>lt, <1>tt, <1>nt, <1>st, <1>rt, <1>ti, <1>bi, <1>ri, <1>vi, <1>pi, <1>ci, <1>wi, <1>di, <1>oi, <1>qi, <1>ui DEF IInv, TypeInv

\* cancel looks again.
LEMMA CancelWakesStep ==
  ASSUME IInv, CancelWakes
  PROVE  IInv'
<1>inv. /\ ClientTypes /\ CallTypes /\ ThreadTypes /\ ConnTypes /\ ServerTypes /\ RunTypes
        /\ ThreadInv /\ BindInv /\ RunInv /\ TravelInv /\ ReplyInv /\ CallerInv
        /\ WindowInv /\ NoDanglingCaller /\ OnceInv /\ QuietAfterCancel /\ Understood
  BY DEF IInv, TypeInv
<1>same. /\ retrans_' = retrans_ /\ bind_done_' = bind_done_ /\ srv_nonce_' = srv_nonce_ /\ xid_' = xid_ /\ calls_' = calls_
         /\ xid_rep_window_' = xid_rep_window_ /\ chan_' = chan_ /\ destroy_wait_' = destroy_wait_ /\ th' = th /\ conns' = conns
         /\ up' = up /\ nonce_' = nonce_ /\ main' = main /\ jobs' = jobs /\ runs' = runs
         /\ broken' = broken
  BY DEF CancelWakes, clientVars, serverVars
<1>later. Later
  BY <1>inv, <1>same DEF Later, ClientTypes
<1>kept. RunsKept /\ RequestsKept
  BY <1>same, RunsSame DEF RequestsKept, Requesting
<1>views. Reqs' = Reqs /\ Reps' = Reps /\ Travelling' = Travelling /\ Replies' = Replies
  BY <1>same DEF Reqs, Reps, Travelling, Replies
<1>ct. ClientTypes'
  BY <1>inv, <1>same DEF ClientTypes, CancelWakes
<1>lt. CallTypes'
  BY <1>inv, <1>same DEF CallTypes
<1>tt. ThreadTypes'
  BY <1>inv, <1>same DEF ThreadTypes
<1>nt. ConnTypes'
  BY <1>inv, <1>same DEF ConnTypes
<1>st. ServerTypes'
  BY <1>inv, <1>same DEF ServerTypes
<1>rt. RunTypes'
  BY <1>inv, <1>same DEF RunTypes
<1>ti. ThreadInv'
  BY <1>inv, <1>same, <1>later, ThreadsSame
<1>bi. BindInv'
  BY <1>inv, <1>same, <1>later, <1>kept, BindKept
<1>ri. RunInv'
  BY <1>inv, <1>same, <1>later, RunsInvKept
<1>vi. TravelInv'
  BY <1>inv, <1>later, <1>kept, <1>views, TravelSame
<1>pi. ReplyInv'
  BY <1>inv, <1>later, <1>kept, <1>views, ReplySame
<1>ci. CallerInv'
  BY <1>inv, <1>same, <1>kept, CallDomain, CallersKept
<1>wi. WindowInv'
  BY <1>inv, <1>same, <1>later, WindowKept
<1>di. NoDanglingCaller'
  BY <1>inv, <1>same, DanglingSame
<1>oi. OnceInv'
  BY <1>inv, <1>same, <1>views, OnceSame
<1>qi. QuietAfterCancel'
  BY <1>inv, <1>same DEF QuietAfterCancel, CancelWakes
<1>ui. Understood'
  BY <1>inv, <1>same DEF Understood
<1> QED BY <1>ct, <1>lt, <1>tt, <1>nt, <1>st, <1>rt, <1>ti, <1>bi, <1>ri, <1>vi, <1>pi, <1>ci, <1>wi, <1>di, <1>oi, <1>qi, <1>ui DEF IInv, TypeInv

\* The end of rpcc::bind: the server's nonce is the one of a run of bind.
LEMMA BoundStep ==
  ASSUME IInv, NEW t \in Threads, Bound(t)
  PROVE  IInv'
<1>inv. /\ ClientTypes /\ CallTypes /\ ThreadTypes /\ ConnTypes /\ ServerTypes /\ RunTypes
        /\ ThreadInv /\ BindInv /\ RunInv /\ TravelInv /\ ReplyInv /\ CallerInv
        /\ WindowInv /\ NoDanglingCaller /\ OnceInv /\ QuietAfterCancel /\ Understood
  BY DEF IInv, TypeInv
<1>same. /\ retrans_' = retrans_ /\ xid_' = xid_ /\ calls_' = calls_ /\ xid_rep_window_' = xid_rep_window_ /\ chan_' = chan_
         /\ destroy_wait_' = destroy_wait_ /\ client' = client /\ signalled' = signalled /\ conns' = conns /\ up' = up
         /\ nonce_' = nonce_ /\ main' = main /\ jobs' = jobs /\ runs' = runs /\ broken' = broken
  BY DEF Bound, clientVars, serverVars
<1>1. th[t].pc = "bind" /\ bind_done_' = TRUE /\ srv_nonce_' = th[t].r[1] /\ th' = [th EXCEPT ![t].pc = "idle"]
  BY DEF Bound
<1>2. th[t] \in ThreadState
  BY <1>inv DEF ThreadTypes
<1>3. /\ th' \in [Threads -> ThreadState] /\ \A u \in Threads \ {t} : th'[u] = th[u]
      /\ th'[t].pc = "idle" /\ th'[t].proc = th[t].proc /\ th'[t].args = th[t].args /\ th'[t].xid = th[t].xid
      /\ th'[t].ch = th[t].ch /\ th'[t].ret = th[t].ret /\ th'[t].r = th[t].r
  BY <1>inv, <1>1 DEF ThreadTypes, ThreadState
<1>4. Answered(th[t]) /\ th[t].proc = bind /\ th[t].ret >= 0
  BY <1>inv, <1>1 DEF ThreadInv, ThreadOK
<1>5. PICK k \in DOMAIN runs[th[t].xid] :
         /\ runs[th[t].xid][k].proc = bind
         /\ th[t].r = <<runs[th[t].xid][k].r>>
  BY <1>4 DEF Answered
<1>6. th[t].xid \in 1..(xid_ - 1) /\ th[t].xid \in 1..MaxXid
  BY <1>inv, <1>4, RpcAssumption DEF Answered, ClientTypes
<1>7. PICK n \in 1..MaxBoot : n = srv_nonce_' /\ runs[th[t].xid][k].srv = n
  <2>1. runs[th[t].xid][k].r = runs[th[t].xid][k].srv
    BY <1>inv, <1>5, <1>6 DEF RunInv
  <2>2. runs[th[t].xid][k].srv \in 1..MaxBoot
    <3>1. runs[th[t].xid] \in Seq(Run)
      BY <1>inv, <1>6 DEF RunTypes
    <3>2. runs[th[t].xid][k] \in Run
      BY <3>1
    <3> QED BY <3>2 DEF Run
  <2>3. th[t].r[1] = runs[th[t].xid][k].r
    BY <1>5
  <2> QED BY <1>1, <2>1, <2>2, <2>3
<1>later. Later
  BY <1>inv, <1>same DEF Later, ClientTypes
<1>kept. RunsKept /\ RequestsKept
  <2>1. RequestsKept
    BY <1>1, <1>3 DEF RequestsKept, Requesting
  <2> QED BY <1>same, <2>1, RunsSame
<1>views. Reqs' = Reqs /\ Reps' = Reps /\ Travelling' = Travelling /\ Replies' = Replies
  BY <1>same DEF Reqs, Reps, Travelling, Replies
<1>ct. ClientTypes'
  BY <1>inv, <1>same, <1>1, <1>7 DEF ClientTypes
<1>lt. CallTypes'
  BY <1>inv, <1>same DEF CallTypes
<1>tt. ThreadTypes'
  BY <1>3 DEF ThreadTypes
<1>nt. ConnTypes'
  <2>1. \A u \in Threads : th'[u].ch = th[u].ch
    BY <1>3
  <2> QED BY <1>inv, <1>same, <2>1 DEF ConnTypes
<1>st. ServerTypes'
  BY <1>inv, <1>same DEF ServerTypes
<1>rt. RunTypes'
  BY <1>inv, <1>same DEF RunTypes
<1>ti. ThreadInv'
  <2>1. ThreadOK(th[t])'
    BY <1>same, <1>3, <1>4 DEF ThreadOK, Answered
  <2> QED BY <1>inv, <1>same, <1>later, <1>3, <2>1, ThreadsKept
<1>bi. BindInv'
  <2>1. n # 0
    BY RpcAssumption
  <2>2. BoundBefore(n, xid_)
    BY <1>5, <1>6, <1>7, <2>1 DEF BoundBefore
  <2> QED BY <1>same, <1>7, <2>2 DEF BindInv, BoundBefore
<1>ri. RunInv'
  BY <1>inv, <1>same, <1>later, RunsInvKept
<1>vi. TravelInv'
  BY <1>inv, <1>later, <1>kept, <1>views, TravelSame
<1>pi. ReplyInv'
  BY <1>inv, <1>later, <1>kept, <1>views, ReplySame
<1>ci. CallerInv'
  BY <1>inv, <1>same, <1>kept, CallDomain, CallersKept
<1>wi. WindowInv'
  BY <1>inv, <1>same, <1>later, WindowKept
<1>di. NoDanglingCaller'
  <2>1. \A u \in Threads : (u \in Requesting' <=> u \in Requesting) /\ (u \in Requesting => th'[u].xid = th[u].xid)
    BY <1>1, <1>3 DEF Requesting
  <2> QED BY <1>inv, <1>same, <2>1, DanglingKept
<1>oi. OnceInv'
  <2>1. \A u \in Threads : th'[u].pc = "send" => th[u].pc = "send" /\ th'[u].xid = th[u].xid
    BY <1>1, <1>3
  <2> QED BY <1>inv, <1>same, <1>views, <2>1, OnceFewer
<1>qi. QuietAfterCancel'
  BY <1>inv, <1>same DEF QuietAfterCancel
<1>ui. Understood'
  BY <1>inv, <1>same DEF Understood
<1> QED BY <1>ct, <1>lt, <1>tt, <1>nt, <1>st, <1>rt, <1>ti, <1>bi, <1>ri, <1>vi, <1>pi, <1>ci, <1>wi, <1>di, <1>oi, <1>qi, <1>ui DEF IInv, TypeInv

\* A call is sent again.
LEMMA RetransmitStep ==
  ASSUME IInv, NEW t \in Threads, Retransmit(t)
  PROVE  IInv'
<1>inv. /\ ClientTypes /\ CallTypes /\ ThreadTypes /\ ConnTypes /\ ServerTypes /\ RunTypes
        /\ ThreadInv /\ BindInv /\ RunInv /\ TravelInv /\ ReplyInv /\ CallerInv
        /\ WindowInv /\ NoDanglingCaller /\ OnceInv /\ QuietAfterCancel /\ Understood
  BY DEF IInv, TypeInv
<1>same. /\ retrans_' = retrans_ /\ bind_done_' = bind_done_ /\ srv_nonce_' = srv_nonce_ /\ xid_' = xid_ /\ calls_' = calls_
         /\ xid_rep_window_' = xid_rep_window_ /\ chan_' = chan_ /\ destroy_wait_' = destroy_wait_ /\ client' = client /\ signalled' = signalled
         /\ conns' = conns /\ up' = up /\ nonce_' = nonce_ /\ main' = main /\ jobs' = jobs
         /\ runs' = runs /\ broken' = broken
  BY DEF Retransmit, clientVars, serverVars
<1>1. th[t].pc = "wait" /\ retrans_ /\ th' = [th EXCEPT ![t].pc = "send"]
  BY DEF Retransmit
<1>2. /\ th' \in [Threads -> ThreadState] /\ \A u \in Threads \ {t} : th'[u] = th[u]
      /\ th'[t].pc = "send" /\ th'[t].proc = th[t].proc /\ th'[t].args = th[t].args /\ th'[t].xid = th[t].xid
      /\ th'[t].ch = th[t].ch /\ th'[t].req = th[t].req
  BY <1>inv, <1>1 DEF ThreadTypes, ThreadState
<1>later. Later
  BY <1>inv, <1>same DEF Later, ClientTypes
<1>kept. RunsKept /\ RequestsKept
  <2>1. RequestsKept
    BY <1>1, <1>2 DEF RequestsKept, Requesting
  <2> QED BY <1>same, <2>1, RunsSame
<1>views. Reqs' = Reqs /\ Reps' = Reps /\ Travelling' = Travelling /\ Replies' = Replies
  BY <1>same DEF Reqs, Reps, Travelling, Replies
<1>ct. ClientTypes'
  BY <1>inv, <1>same DEF ClientTypes
<1>lt. CallTypes'
  BY <1>inv, <1>same DEF CallTypes
<1>tt. ThreadTypes'
  BY <1>2 DEF ThreadTypes
<1>nt. ConnTypes'
  <2>1. \A u \in Threads : th'[u].ch = th[u].ch
    BY <1>2
  <2> QED BY <1>inv, <1>same, <2>1 DEF ConnTypes
<1>st. ServerTypes'
  BY <1>inv, <1>same DEF ServerTypes
<1>rt. RunTypes'
  BY <1>inv, <1>same DEF RunTypes
<1>ti. ThreadInv'
  <2>1. Requested(th[t])
    BY <1>inv, <1>1 DEF ThreadInv, ThreadOK
  <2>2. Requested(th[t])'
    BY <1>same, <1>2, <2>1 DEF Requested, clt_nonce_, BoundBefore
  <2>3. ThreadOK(th[t])'
    BY <1>2, <2>2 DEF ThreadOK
  <2> QED BY <1>inv, <1>same, <1>later, <1>2, <2>3, ThreadsKept
<1>bi. BindInv'
  BY <1>inv, <1>same, <1>later, <1>kept, BindKept
<1>ri. RunInv'
  BY <1>inv, <1>same, <1>later, RunsInvKept
<1>vi. TravelInv'
  BY <1>inv, <1>later, <1>kept, <1>views, TravelSame
<1>pi. ReplyInv'
  BY <1>inv, <1>later, <1>kept, <1>views, ReplySame
<1>ci. CallerInv'
  BY <1>inv, <1>same, <1>kept, CallDomain, CallersKept
<1>wi. WindowInv'
  BY <1>inv, <1>same, <1>later, WindowKept
<1>di. NoDanglingCaller'
  <2>1. \A u \in Threads : (u \in Requesting' <=> u \in Requesting) /\ (u \in Requesting => th'[u].xid = th[u].xid)
    BY <1>1, <1>2 DEF Requesting
  <2> QED BY <1>inv, <1>same, <2>1, DanglingKept
<1>oi. OnceInv'
  BY <1>inv, <1>same, <1>1 DEF OnceInv
<1>qi. QuietAfterCancel'
  BY <1>inv, <1>same DEF QuietAfterCancel
<1>ui. Understood'
  BY <1>inv, <1>same DEF Understood
<1> QED BY <1>ct, <1>lt, <1>tt, <1>nt, <1>st, <1>rt, <1>ti, <1>bi, <1>ri, <1>vi, <1>pi, <1>ci, <1>wi, <1>di, <1>oi, <1>qi, <1>ui DEF IInv, TypeInv

\* cancel: every caller is done.
LEMMA CancelStep ==
  ASSUME IInv, cancel
  PROVE  IInv'
<1>inv. /\ ClientTypes /\ CallTypes /\ ThreadTypes /\ ConnTypes /\ ServerTypes /\ RunTypes
        /\ ThreadInv /\ BindInv /\ RunInv /\ TravelInv /\ ReplyInv /\ CallerInv
        /\ WindowInv /\ NoDanglingCaller /\ OnceInv /\ QuietAfterCancel /\ Understood
  BY DEF IInv, TypeInv
<1>same. /\ retrans_' = retrans_ /\ bind_done_' = bind_done_ /\ srv_nonce_' = srv_nonce_ /\ xid_' = xid_ /\ xid_rep_window_' = xid_rep_window_
         /\ chan_' = chan_ /\ signalled' = signalled /\ th' = th /\ conns' = conns /\ up' = up
         /\ nonce_' = nonce_ /\ main' = main /\ jobs' = jobs /\ runs' = runs /\ broken' = broken
  BY DEF cancel, clientVars, serverVars
<1>1. /\ calls_' = [x \in DOMAIN calls_ |-> [calls_[x] EXCEPT !.done = TRUE, !.intret = cancel_failure]]
      /\ destroy_wait_' = (calls_ # <<>>)
      /\ client' = IF calls_ = <<>> THEN "cancelled" ELSE "cancelling"
  BY DEF cancel
<1>2. /\ DOMAIN calls_' = DOMAIN calls_
      /\ \A x \in DOMAIN calls_ : calls_'[x] \in CallerState /\ calls_'[x].done /\ calls_'[x].intret = -7
  <2>1. ASSUME NEW x \in DOMAIN calls_
        PROVE  calls_'[x] \in CallerState /\ calls_'[x].done /\ calls_'[x].intret = -7
    <3>1. PICK s : s = calls_[x] /\ s \in CallerState
      BY <1>inv DEF CallTypes
    <3>2. PICK f \in Flags : f = TRUE
      BY DEF Flags
    <3>5. PICK n \in Int : n = cancel_failure /\ n = -7
      BY DEF cancel_failure
    <3>3. calls_'[x] = [s EXCEPT !.done = f, !.intret = n]
      BY <1>1, <3>1, <3>2, <3>5
    <3>4. calls_'[x] \in CallerState /\ calls_'[x].done = f /\ calls_'[x].intret = n
      <4>1. calls_'[x] = Told(s, f, n)
        BY <3>3 DEF Told
      <4> QED BY <3>1, <4>1, CallerTold
    <3> QED BY <3>2, <3>4, <3>5
  <2> QED BY <1>1, <2>1
<1>later. Later
  BY <1>inv, <1>same DEF Later, ClientTypes
<1>kept. RunsKept /\ RequestsKept
  BY <1>same, RunsSame DEF RequestsKept, Requesting
<1>views. Reqs' = Reqs /\ Reps' = Reps /\ Travelling' = Travelling /\ Replies' = Replies
  BY <1>same DEF Reqs, Reps, Travelling, Replies
<1>ct. ClientTypes'
  BY <1>inv, <1>same, <1>1 DEF ClientTypes
<1>lt. CallTypes'
  <2>1. calls_' = [x \in DOMAIN calls_' |-> calls_'[x]]
    BY <1>1
  <2> QED BY <1>2, <2>1 DEF CallTypes
<1>tt. ThreadTypes'
  BY <1>inv, <1>same DEF ThreadTypes
<1>nt. ConnTypes'
  BY <1>inv, <1>same DEF ConnTypes
<1>st. ServerTypes'
  BY <1>inv, <1>same DEF ServerTypes
<1>rt. RunTypes'
  BY <1>inv, <1>same DEF RunTypes
<1>ti. ThreadInv'
  BY <1>inv, <1>same, <1>later, ThreadsSame
<1>bi. BindInv'
  BY <1>inv, <1>same, <1>later, <1>kept, BindKept
<1>ri. RunInv'
  BY <1>inv, <1>same, <1>later, RunsInvKept
<1>vi. TravelInv'
  BY <1>inv, <1>later, <1>kept, <1>views, TravelSame
<1>pi. ReplyInv'
  BY <1>inv, <1>later, <1>kept, <1>views, ReplySame
<1>ci. CallerInv'
  <2>1. ASSUME NEW x \in DOMAIN calls_' PROVE ~ (calls_'[x].intret >= 0)
    BY <1>2
  <2> QED BY <2>1 DEF CallerInv, Truthful
<1>wi. WindowInv'
  BY <1>inv, <1>same, <1>2 DEF WindowInv
<1>di. NoDanglingCaller'
  BY <1>inv, <1>same, <1>2, DanglingSame
<1>oi. OnceInv'
  BY <1>inv, <1>same, <1>views, OnceSame
<1>qi. QuietAfterCancel'
  <2>1. \A x \in DOMAIN calls_' : calls_'[x].done
    BY <1>2
  <2> QED BY <1>1, <2>1 DEF QuietAfterCancel
<1>ui. Understood'
  BY <1>inv, <1>same DEF Understood
<1> QED BY <1>ct, <1>lt, <1>tt, <1>nt, <1>st, <1>rt, <1>ti, <1>bi, <1>ri, <1>vi, <1>pi, <1>ci, <1>wi, <1>di, <1>oi, <1>qi, <1>ui DEF IInv, TypeInv

\* A connection dies.
LEMMA DieStep ==
  ASSUME IInv, NEW c \in DOMAIN conns, Die(c)
  PROVE  IInv'
<1>inv. /\ ClientTypes /\ CallTypes /\ ThreadTypes /\ ConnTypes /\ ServerTypes /\ RunTypes
        /\ ThreadInv /\ BindInv /\ RunInv /\ TravelInv /\ ReplyInv /\ CallerInv
        /\ WindowInv /\ NoDanglingCaller /\ OnceInv /\ QuietAfterCancel /\ Understood
  BY DEF IInv, TypeInv
<1>same. /\ retrans_' = retrans_ /\ bind_done_' = bind_done_ /\ srv_nonce_' = srv_nonce_ /\ xid_' = xid_ /\ calls_' = calls_
         /\ xid_rep_window_' = xid_rep_window_ /\ chan_' = chan_ /\ destroy_wait_' = destroy_wait_ /\ client' = client /\ signalled' = signalled
         /\ th' = th /\ up' = up /\ nonce_' = nonce_ /\ main' = main /\ jobs' = jobs
         /\ runs' = runs /\ broken' = broken
  BY DEF Die, clientVars, serverVars
<1>1. conns' = [conns EXCEPT ![c] = Dead]
  BY DEF Die
<1>2. /\ conns' \in Seq(ConnState) /\ Len(conns') = Len(conns)
      /\ Reqs' = [Reqs EXCEPT ![c] = <<>>] /\ Reps' = [Reps EXCEPT ![c] = <<>>]
  BY <1>inv, <1>1, OneDead DEF ConnTypes
<1>3. c \in DOMAIN Reqs /\ c \in DOMAIN Reps
  BY <1>inv, QueueTypes DEF ConnTypes
<1>4. /\ DOMAIN Reqs' = DOMAIN Reqs /\ Reqs'[c] = <<>> /\ \A d \in DOMAIN Reqs \ {c} : Reqs'[d] = Reqs[d]
      /\ DOMAIN Reps' = DOMAIN Reps /\ Reps'[c] = <<>> /\ \A d \in DOMAIN Reps \ {c} : Reps'[d] = Reps[d]
  BY <1>2, <1>3
<1>later. Later
  BY <1>inv, <1>same DEF Later, ClientTypes
<1>kept. RunsKept /\ RequestsKept
  BY <1>same, RunsSame DEF RequestsKept, Requesting
<1>ct. ClientTypes'
  BY <1>inv, <1>same DEF ClientTypes
<1>lt. CallTypes'
  BY <1>inv, <1>same DEF CallTypes
<1>tt. ThreadTypes'
  BY <1>inv, <1>same DEF ThreadTypes
<1>nt. ConnTypes'
  BY <1>inv, <1>same, <1>2 DEF ConnTypes
<1>st. ServerTypes'
  BY <1>inv, <1>same DEF ServerTypes
<1>rt. RunTypes'
  BY <1>inv, <1>same DEF RunTypes
<1>ti. ThreadInv'
  BY <1>inv, <1>same, <1>later, ThreadsSame
<1>bi. BindInv'
  BY <1>inv, <1>same, <1>later, <1>kept, BindKept
<1>ri. RunInv'
  BY <1>inv, <1>same, <1>later, RunsInvKept
<1>vi. TravelInv'
  <2>1. Travelling' \subseteq Travelling
    BY <1>same, <1>4 DEF Travelling, ToSet
  <2> QED BY <1>inv, <1>later, <1>kept, <2>1, TravelFewer
<1>pi. ReplyInv'
  <2>1. Replies' \subseteq Replies
    BY <1>4 DEF Replies, ToSet
  <2> QED BY <1>inv, <1>later, <1>kept, <2>1, ReplyFewer
<1>ci. CallerInv'
  BY <1>inv, <1>same, <1>kept, CallDomain, CallersKept
<1>wi. WindowInv'
  BY <1>inv, <1>same, <1>later, WindowKept
<1>di. NoDanglingCaller'
  BY <1>inv, <1>same, DanglingSame
<1>oi. OnceInv'
  <2>1. Travelling' \subseteq Travelling
    BY <1>same, <1>4 DEF Travelling, ToSet
  <2>2. \A d \in DOMAIN Reqs' : d \in DOMAIN Reqs /\ \A k \in DOMAIN Reqs'[d] : k \in DOMAIN Reqs[d] /\ Reqs'[d][k] = Reqs[d][k]
    BY <1>4
  <2>3. ASSUME OnePlace PROVE OnePlace'
    BY <1>same, <2>1, <2>2, <2>3 DEF OnePlace
  <2> QED BY <1>inv, <1>same, <2>3 DEF OnceInv
<1>qi. QuietAfterCancel'
  BY <1>inv, <1>same DEF QuietAfterCancel
<1>ui. Understood'
  BY <1>inv, <1>same DEF Understood
<1> QED BY <1>ct, <1>lt, <1>tt, <1>nt, <1>st, <1>rt, <1>ti, <1>bi, <1>ri, <1>vi, <1>pi, <1>ci, <1>wi, <1>di, <1>oi, <1>qi, <1>ui DEF IInv, TypeInv

\* The server is killed.
LEMMA CrashStep ==
  ASSUME IInv, Crash
  PROVE  IInv'
<1>inv. /\ ClientTypes /\ CallTypes /\ ThreadTypes /\ ConnTypes /\ ServerTypes /\ RunTypes
        /\ ThreadInv /\ BindInv /\ RunInv /\ TravelInv /\ ReplyInv /\ CallerInv
        /\ WindowInv /\ NoDanglingCaller /\ OnceInv /\ QuietAfterCancel /\ Understood
  BY DEF IInv, TypeInv
<1>same. /\ retrans_' = retrans_ /\ bind_done_' = bind_done_ /\ srv_nonce_' = srv_nonce_ /\ xid_' = xid_ /\ calls_' = calls_
         /\ xid_rep_window_' = xid_rep_window_ /\ chan_' = chan_ /\ destroy_wait_' = destroy_wait_ /\ client' = client /\ signalled' = signalled
         /\ th' = th /\ nonce_' = nonce_ /\ main' = main /\ runs' = runs /\ broken' = broken
  BY DEF Crash, Exit, clientVars, serverVars
<1>1. Exit /\ up' = FALSE
  BY DEF Crash, Exit
<1>2. /\ ConnTypes' /\ jobs' = {}
      /\ Travelling' = {} /\ Replies' = {} /\ \A c \in DOMAIN Reqs' : Reqs'[c] = <<>>
  BY <1>inv, <1>same, <1>1, ExitEffect
<1>later. Later
  BY <1>inv, <1>same DEF Later, ClientTypes
<1>kept. RunsKept /\ RequestsKept
  BY <1>same, RunsSame DEF RequestsKept, Requesting
<1>ct. ClientTypes'
  BY <1>inv, <1>same DEF ClientTypes
<1>lt. CallTypes'
  BY <1>inv, <1>same DEF CallTypes
<1>tt. ThreadTypes'
  BY <1>inv, <1>same DEF ThreadTypes
<1>nt. ConnTypes'
  BY <1>2
<1>st. ServerTypes'
  BY <1>inv, <1>same, <1>1, <1>2 DEF ServerTypes
<1>rt. RunTypes'
  BY <1>inv, <1>same DEF RunTypes
<1>ti. ThreadInv'
  BY <1>inv, <1>same, <1>later, ThreadsSame
<1>bi. BindInv'
  BY <1>inv, <1>same, <1>later, <1>kept, BindKept
<1>ri. RunInv'
  BY <1>inv, <1>same, <1>later, RunsInvKept
<1>vi. TravelInv'
  BY <1>2 DEF TravelInv
<1>pi. ReplyInv'
  BY <1>2 DEF ReplyInv
<1>ci. CallerInv'
  BY <1>inv, <1>same, <1>kept, CallDomain, CallersKept
<1>wi. WindowInv'
  BY <1>inv, <1>same, <1>later, WindowKept
<1>di. NoDanglingCaller'
  BY <1>inv, <1>same, DanglingSame
<1>oi. OnceInv'
  BY <1>inv, <1>same, <1>2, OnceEmpty
<1>qi. QuietAfterCancel'
  BY <1>inv, <1>same DEF QuietAfterCancel
<1>ui. Understood'
  BY <1>inv, <1>same DEF Understood
<1> QED BY <1>ct, <1>lt, <1>tt, <1>nt, <1>st, <1>rt, <1>ti, <1>bi, <1>ri, <1>vi, <1>pi, <1>ci, <1>wi, <1>di, <1>oi, <1>qi, <1>ui DEF IInv, TypeInv

\* call1 refuses the call.
LEMMA CallRefusedStep ==
  ASSUME IInv, NEW t \in Threads, NEW q \in Requests[t], call(t, q[1], q[2]), refusal(q[1]) # 0
  PROVE  IInv'
<1>inv. /\ ClientTypes /\ CallTypes /\ ThreadTypes /\ ConnTypes /\ ServerTypes /\ RunTypes
        /\ ThreadInv /\ BindInv /\ RunInv /\ TravelInv /\ ReplyInv /\ CallerInv
        /\ WindowInv /\ NoDanglingCaller /\ OnceInv /\ QuietAfterCancel /\ Understood
  BY DEF IInv, TypeInv
<1>same. /\ retrans_' = retrans_ /\ bind_done_' = bind_done_ /\ srv_nonce_' = srv_nonce_ /\ xid_' = xid_ /\ calls_' = calls_
         /\ xid_rep_window_' = xid_rep_window_ /\ chan_' = chan_ /\ destroy_wait_' = destroy_wait_ /\ client' = client /\ signalled' = signalled
         /\ conns' = conns /\ up' = up /\ nonce_' = nonce_ /\ main' = main /\ jobs' = jobs
         /\ runs' = runs /\ broken' = broken
  BY DEF call, clientVars, serverVars
<1>1. PICK s : s = [Idle EXCEPT !.ret = refusal(q[1])]
  OBVIOUS
<1>2. th[t].pc = "idle" /\ th' = [th EXCEPT ![t] = s]
  BY <1>1 DEF call
<1>3. s \in ThreadState /\ s.pc = "idle" /\ s.ret = refusal(q[1]) /\ s.ch = 0
  BY <1>1, Refusals, IdleThread
<1>4. th' \in [Threads -> ThreadState] /\ th'[t] = s /\ \A u \in Threads \ {t} : th'[u] = th[u]
  BY <1>inv, <1>2, <1>3, ThreadChanged DEF OneThread
<1>later. Later
  BY <1>inv, <1>same DEF Later, ClientTypes
<1>kept. RunsKept /\ RequestsKept
  <2>1. RequestsKept
    BY <1>3, <1>4 DEF RequestsKept, Requesting
  <2> QED BY <1>same, <2>1, RunsSame
<1>views. Reqs' = Reqs /\ Reps' = Reps /\ Travelling' = Travelling /\ Replies' = Replies
  BY <1>same DEF Reqs, Reps, Travelling, Replies
<1>ct. ClientTypes'
  BY <1>inv, <1>same DEF ClientTypes
<1>lt. CallTypes'
  BY <1>inv, <1>same DEF CallTypes
<1>tt. ThreadTypes'
  BY <1>4 DEF ThreadTypes
<1>nt. ConnTypes'
  <2>1. \A u \in Threads : th'[u].ch = 0 \/ th'[u].ch = th[u].ch
    BY <1>3, <1>4
  <2>2. Len(conns) \in Nat
    BY <1>inv DEF ConnTypes
  <2>3. 0 \in 0..Len(conns)
    BY <2>2
  <2>4. \A u \in Threads : th'[u].ch \in 0..Len(conns)
    BY <1>inv, <2>1, <2>3 DEF ConnTypes
  <2> QED BY <1>inv, <1>same, <2>4 DEF ConnTypes
<1>st. ServerTypes'
  BY <1>inv, <1>same DEF ServerTypes
<1>rt. RunTypes'
  BY <1>inv, <1>same DEF RunTypes
<1>ti. ThreadInv'
  <2>1. ThreadOK(th[t])'
    BY <1>3, <1>4, Refusals DEF ThreadOK
  <2> QED BY <1>inv, <1>same, <1>later, <1>4, <2>1, ThreadsKept
<1>bi. BindInv'
  BY <1>inv, <1>same, <1>later, <1>kept, BindKept
<1>ri. RunInv'
  BY <1>inv, <1>same, <1>later, RunsInvKept
<1>vi. TravelInv'
  BY <1>inv, <1>later, <1>kept, <1>views, TravelSame
<1>pi. ReplyInv'
  BY <1>inv, <1>later, <1>kept, <1>views, ReplySame
<1>ci. CallerInv'
  BY <1>inv, <1>same, <1>kept, CallDomain, CallersKept
<1>wi. WindowInv'
  BY <1>inv, <1>same, <1>later, WindowKept
<1>di. NoDanglingCaller'
  <2>1. \A u \in Threads : (u \in Requesting' <=> u \in Requesting) /\ (u \in Requesting => th'[u].xid = th[u].xid)
    BY <1>2, <1>3, <1>4 DEF Requesting
  <2> QED BY <1>inv, <1>same, <2>1, DanglingKept
<1>oi. OnceInv'
  <2>1. \A u \in Threads : th'[u].pc = "send" => th[u].pc = "send" /\ th'[u].xid = th[u].xid
    BY <1>3, <1>4
  <2> QED BY <1>inv, <1>same, <1>views, <2>1, OnceFewer
<1>qi. QuietAfterCancel'
  BY <1>inv, <1>same DEF QuietAfterCancel
<1>ui. Understood'
  BY <1>inv, <1>same DEF Understood
<1> QED BY <1>ct, <1>lt, <1>tt, <1>nt, <1>st, <1>rt, <1>ti, <1>bi, <1>ri, <1>vi, <1>pi, <1>ci, <1>wi, <1>di, <1>oi, <1>qi, <1>ui DEF IInv, TypeInv

\* call1 takes an xid and packs the request.
LEMMA CallStep ==
  ASSUME IInv, NEW t \in Threads, NEW q \in Requests[t], call(t, q[1], q[2]), refusal(q[1]) = 0
  PROVE  IInv'
<1>inv. /\ ClientTypes /\ CallTypes /\ ThreadTypes /\ ConnTypes /\ ServerTypes /\ RunTypes
        /\ ThreadInv /\ BindInv /\ RunInv /\ TravelInv /\ ReplyInv /\ CallerInv
        /\ WindowInv /\ NoDanglingCaller /\ OnceInv /\ QuietAfterCancel /\ Understood
  BY DEF IInv, TypeInv
<1>same. /\ retrans_' = retrans_ /\ bind_done_' = bind_done_ /\ srv_nonce_' = srv_nonce_ /\ xid_rep_window_' = xid_rep_window_ /\ chan_' = chan_
         /\ destroy_wait_' = destroy_wait_ /\ client' = client /\ signalled' = signalled /\ conns' = conns /\ up' = up
         /\ nonce_' = nonce_ /\ main' = main /\ jobs' = jobs /\ runs' = runs /\ broken' = broken
  BY DEF call, clientVars, serverVars
<1> DEFINE h == [xid |-> xid_, proc |-> q[1], clt_nonce |-> clt_nonce_,
                srv_nonce |-> srv_nonce_, xid_rep |-> Min(xid_rep_window_)]
           b == pack_req_header(Put(marshall, ArgTypes(q[1]), q[2]), h)
<1>1. PICK s : s = Sending(q[1], q[2], xid_, b)
  OBVIOUS
<1>2. /\ th[t].pc = "idle" /\ th' = [th EXCEPT ![t] = s]
      /\ xid_ <= MaxXid /\ xid_' = xid_ + 1
      /\ calls_' = [x \in DOMAIN calls_ \cup {xid_} |-> IF x = xid_ THEN Caller ELSE calls_[x]]
  BY <1>1 DEF call, Sending
<1>3. q \in Asked /\ q[1] \in Procs /\ q[1] \in Int /\ q[2] \in ArgLists
  <2>1. q \in Asked
    BY DEF Asked
  <2> QED BY <2>1, AskedTyped DEF Procs, ArgLists, bind, get, getattr, put, remove
<1>4. xid_ \in 1..MaxXid /\ xid_ \in 0..MaxXid
  BY <1>inv, <1>2, RpcAssumption DEF ClientTypes
<1>5. Min(xid_rep_window_) \in xid_rep_window_ /\ Min(xid_rep_window_) \in 0..(xid_ - 1)
  <2>1. xid_rep_window_ \in SUBSET Nat /\ xid_rep_window_ # {}
    BY <1>inv DEF WindowInv
  <2>2. Min(xid_rep_window_) \in xid_rep_window_
    BY <2>1, MinProperty
  <2> QED BY <1>inv, <2>2 DEF WindowInv
<1>6. /\ h \in ReqHeader /\ h.proc = q[1] /\ h.xid = xid_ /\ h.clt_nonce = clt_nonce_
      /\ h.srv_nonce = srv_nonce_
  <2>1. /\ xid_ \in Int /\ clt_nonce_ \in Int /\ srv_nonce_ \in Int
        /\ Min(xid_rep_window_) \in Int
    BY <1>inv, <1>4, <1>5, RpcAssumption DEF clt_nonce_, ClientTypes
  <2> QED BY <1>3, <2>1 DEF ReqHeader
<1> HIDE DEF h
<1>7. GoodRequest(b) /\ Hdr(b) = h /\ Args(b) = q[2]
  BY <1>3, <1>6, RequestBuilt
<1> HIDE DEF b
<1>8. b \in Buffers
  BY <1>7 DEF GoodRequest
<1>9. /\ s \in ThreadState /\ s.pc = "send" /\ s.proc = q[1] /\ s.args = q[2] /\ s.xid = xid_
      /\ s.req = b /\ s.ch = 0
  BY <1>1, <1>3, <1>4, <1>8, SendingThread
<1>10. th' \in [Threads -> ThreadState] /\ th'[t] = s /\ \A u \in Threads \ {t} : th'[u] = th[u]
  BY <1>inv, <1>2, <1>9, ThreadChanged DEF OneThread
<1>11. /\ DOMAIN calls_' = DOMAIN calls_ \cup {xid_} /\ xid_ \notin DOMAIN calls_
       /\ calls_'[xid_] = Caller /\ \A x \in DOMAIN calls_ : calls_'[x] = calls_[x]
  <2>1. DOMAIN calls_ \subseteq 1..(xid_ - 1)
    BY <1>inv, CallDomain
  <2>2. xid_ \notin 1..(xid_ - 1)
    BY <1>4
  <2> QED BY <1>2, <2>1, <2>2
<1>12. runs[xid_] = <<>>
  <2>1. runs[xid_] \in Seq(Run)
    BY <1>inv, <1>4 DEF RunTypes
  <2>2. DOMAIN runs[xid_] = {}
    BY <1>inv, <1>4 DEF RunInv
  <2> QED BY <2>1, <2>2, NoElements
<1>later. Later
  BY <1>inv, <1>same, <1>2, RpcAssumption DEF Later, ClientTypes
<1>kept. RunsKept /\ RequestsKept
  <2>1. RequestsKept
    BY <1>9, <1>10 DEF RequestsKept, Requesting
  <2> QED BY <1>same, <2>1, RunsSame
<1>views. Reqs' = Reqs /\ Reps' = Reps /\ Travelling' = Travelling /\ Replies' = Replies
  BY <1>same DEF Reqs, Reps, Travelling, Replies
<1>ct. ClientTypes'
  BY <1>inv, <1>same, <1>2, RpcAssumption DEF ClientTypes
<1>lt. CallTypes'
  <2>1. Caller \in CallerState
    BY CallerType
  <2>2. calls_' = [x \in DOMAIN calls_' |-> calls_'[x]] /\ \A x \in DOMAIN calls_' : calls_'[x] \in CallerState
    BY <1>inv, <1>2, <1>11, <2>1 DEF CallTypes
  <2> QED BY <2>2 DEF CallTypes
<1>tt. ThreadTypes'
  BY <1>10 DEF ThreadTypes
<1>nt. ConnTypes'
  <2>1. \A u \in Threads : th'[u].ch = 0 \/ th'[u].ch = th[u].ch
    BY <1>9, <1>10
  <2>2. Len(conns) \in Nat
    BY <1>inv DEF ConnTypes
  <2>3. 0 \in 0..Len(conns)
    BY <2>2
  <2>4. \A u \in Threads : th'[u].ch \in 0..Len(conns)
    BY <1>inv, <2>1, <2>3 DEF ConnTypes
  <2> QED BY <1>inv, <1>same, <2>4 DEF ConnTypes
<1>st. ServerTypes'
  BY <1>inv, <1>same DEF ServerTypes
<1>rt. RunTypes'
  BY <1>inv, <1>same DEF RunTypes
<1>ti. ThreadInv'
  <2>1. s.proc # bind => bind_done_
    <3>1. bind_done_ \in BOOLEAN
      BY <1>inv DEF ClientTypes
    <3>2. ~ ((q[1] = bind) = bind_done_)
      BY DEF refusal, bind_failure, cancel_failure
    <3> QED BY <1>9, <3>1, <3>2
  <2>2. s.proc # bind => BoundBefore(srv_nonce_, xid_)
    BY <1>inv, <2>1 DEF BindInv
  <2>3. Requested(s)'
    <3>1. s.xid \in 1..(xid_' - 1)
      BY <1>2, <1>4, <1>9
    <3>2. clt_nonce_' = clt_nonce_
      BY <1>same DEF clt_nonce_
    <3>3. s.proc # bind => BoundBefore(Hdr(s.req).srv_nonce, s.xid)'
      BY <1>6, <1>7, <1>9, <1>same, <2>2 DEF BoundBefore
    <3>4. \A k \in DOMAIN runs'[s.xid] : FALSE
      BY <1>9, <1>12, <1>same
    <3> QED BY <1>6, <1>7, <1>9, <3>1, <3>2, <3>3, <3>4 DEF Requested
  <2>4. ThreadOK(th[t])'
    BY <1>9, <1>10, <2>3 DEF ThreadOK, Requested
  <2> QED BY <1>inv, <1>same, <1>later, <1>10, <2>4, ThreadsKept
<1>bi. BindInv'
  BY <1>inv, <1>same, <1>later, <1>kept, BindKept
<1>ri. RunInv'
  BY <1>inv, <1>same, <1>later, RunsInvKept
<1>vi. TravelInv'
  BY <1>inv, <1>later, <1>kept, <1>views, TravelSame
<1>pi. ReplyInv'
  BY <1>inv, <1>later, <1>kept, <1>views, ReplySame
<1>ci. CallerInv'
  <2>1. ~ Caller.done
    BY CallerType
  <2>2. DOMAIN calls_ \subseteq 1..MaxXid
    BY <1>inv, CallDomain
  <2>3. ASSUME NEW x \in DOMAIN calls_, calls_[x].done
        PROVE  Truthful(x, calls_[x].intret, calls_[x].un)'
    <3>1. PICK i, u : i = calls_[x].intret /\ u = calls_[x].un /\ i = calls_'[x].intret /\ u = calls_'[x].un
      BY <1>11, <2>3
    <3>2. Truthful(x, i, u)
      BY <1>inv, <2>3, <3>1 DEF CallerInv
    <3>3. Truthful(x, i, u)'
      BY <1>kept, <2>2, <3>2, TruthfulKept
    <3> QED BY <3>1, <3>3 DEF Truthful
  <2> QED BY <1>11, <2>1, <2>3 DEF CallerInv
<1>wi. WindowInv'
  <2>1. PICK W : W = xid_rep_window_ /\ W = xid_rep_window_'
    BY <1>same
  <2>2. W # {} /\ W \subseteq 0..(xid_ - 1)
    BY <1>inv, <2>1 DEF WindowInv
  <2>3. W \subseteq 0..(xid_' - 1)
    <3>1. \A x \in 0..(xid_ - 1) : x \in 0..((xid_ + 1) - 1)
      BY <1>4
    <3>2. xid_' - 1 = (xid_ + 1) - 1
      BY <1>2
    <3> QED BY <2>2, <3>1, <3>2
  <2>4. xid_ \notin W /\ Min(W) < xid_
    <3>1. Min(W) \in 0..(xid_ - 1)
      BY <1>5, <2>1
    <3>2. xid_ \notin 0..(xid_ - 1)
      BY <1>4
    <3>3. Min(W) < xid_
      BY <1>4, <3>1
    <3> QED BY <2>2, <3>2, <3>3
  <2>5. \A x \in DOMAIN calls_ : ~ calls_[x].done => x \notin W /\ Min(W) < x
    BY <1>inv, <2>1 DEF WindowInv
  <2>6. \A x \in DOMAIN calls_' : ~ calls_'[x].done => x \notin W /\ Min(W) < x
    BY <1>11, <2>4, <2>5
  <2> QED BY <2>1, <2>2, <2>3, <2>6 DEF WindowInv
<1>di. NoDanglingCaller'
  <2>1. \A u \in Threads \ {t} : (u \in Requesting' <=> u \in Requesting) /\ th'[u].xid = th[u].xid
    BY <1>10 DEF Requesting
  <2>2. t \in Requesting' /\ t \notin Requesting /\ th'[t].xid = xid_
    BY <1>2, <1>9, <1>10 DEF Requesting
  <2>3. Requesting \subseteq Threads /\ Requesting' \subseteq Threads
    BY DEF Requesting
  <2>4. Requesting' = Requesting \cup {t}
    BY <2>1, <2>2, <2>3
  <2>5. {th'[u].xid : u \in Requesting'} = {th[u].xid : u \in Requesting} \cup {xid_}
    BY <2>1, <2>2, <2>3, <2>4
  <2>6. \A u \in Requesting : th[u].xid # xid_
    BY <1>inv, <1>11 DEF NoDanglingCaller
  <2>7. DOMAIN calls_' = {th'[u].xid : u \in Requesting'}
    BY <1>inv, <1>11, <2>5 DEF NoDanglingCaller
  <2>8. \A u, v \in Requesting' : u # v => th'[u].xid # th'[v].xid
    BY <1>inv, <2>1, <2>2, <2>3, <2>4, <2>6 DEF NoDanglingCaller
  <2> QED BY <2>7, <2>8 DEF NoDanglingCaller
<1>oi. OnceInv'
  <2>1. \A u \in Threads \ {t} : th'[u] = th[u]
    BY <1>10
  <2>2. th'[t].xid = xid_ /\ runs[xid_] = <<>>
    BY <1>9, <1>10, <1>12
  <2>3. \A e \in Travelling : Hdr(e).xid # xid_
    BY <1>inv, <1>4 DEF TravelInv, Known
  <2>4. ASSUME OnePlace PROVE OnePlace'
    BY <1>same, <1>views, <2>1, <2>2, <2>3, <2>4 DEF OnePlace
  <2> QED BY <1>inv, <1>same, <2>4 DEF OnceInv
<1>qi. QuietAfterCancel'
  <2>1. ~ destroy_wait_
    BY DEF refusal, bind_failure, cancel_failure
  <2> QED BY <1>same, <2>1 DEF QuietAfterCancel
<1>ui. Understood'
  BY <1>inv, <1>same DEF Understood
<1> QED BY <1>ct, <1>lt, <1>tt, <1>nt, <1>st, <1>rt, <1>ti, <1>bi, <1>ri, <1>vi, <1>pi, <1>ci, <1>wi, <1>di, <1>oi, <1>qi, <1>ui DEF IInv, TypeInv

\* A request is sent on the connection there is.
LEMMA TransmitStep ==
  ASSUME IInv, NEW t \in Threads, Transmit(t), isalive(chan_)
  PROVE  IInv'
<1>inv. /\ ClientTypes /\ CallTypes /\ ThreadTypes /\ ConnTypes /\ ServerTypes /\ RunTypes
        /\ ThreadInv /\ BindInv /\ RunInv /\ TravelInv /\ ReplyInv /\ CallerInv
        /\ WindowInv /\ NoDanglingCaller /\ OnceInv /\ QuietAfterCancel /\ Understood
  BY DEF IInv, TypeInv
<1>same. /\ retrans_' = retrans_ /\ bind_done_' = bind_done_ /\ srv_nonce_' = srv_nonce_ /\ xid_' = xid_ /\ calls_' = calls_
         /\ xid_rep_window_' = xid_rep_window_ /\ chan_' = chan_ /\ destroy_wait_' = destroy_wait_ /\ client' = client /\ signalled' = signalled
         /\ up' = up /\ nonce_' = nonce_ /\ main' = main /\ jobs' = jobs /\ runs' = runs
         /\ broken' = broken
  BY DEF Transmit, clientVars, serverVars
<1>1. /\ th[t].pc = "send" /\ chan_ # 0
      /\ th' = [th EXCEPT ![t].pc = "wait", ![t].ch = chan_]
      /\ conns' = [conns EXCEPT ![chan_].req = Append(@, th[t].req)]
  BY DEF Transmit, isalive
<1>a. chan_ \in 0..Len(conns) /\ chan_ \in Nat /\ chan_ \in DOMAIN conns
  BY <1>inv, <1>1, QueueTypes DEF ConnTypes
<1>2. Waits(t, chan_)
  BY <1>inv, <1>1, <1>a DEF ThreadTypes, ThreadState, Waits
<1>later. Later
  BY <1>inv, <1>same DEF Later, ClientTypes
<1>w. ThreadTypes' /\ ThreadInv' /\ NoDanglingCaller' /\ RequestsKept
  BY <1>inv, <1>same, <1>later, <1>1, <1>2, WaitsParts
<1>b. PICK b \in Buffers : b = th[t].req /\ Known(b)
  <2>1. Requested(th[t]) /\ Known(th[t].req)
    BY <1>inv, <1>1, RequestKnown
  <2> QED BY <2>1 DEF Known, GoodRequest
<1>y. PICK y \in Seq(Buffers) : y = conns[chan_].req
  BY <1>inv, <1>a, QueueTypes DEF ConnTypes
<1>3. PICK z \in Seq(Buffers) : z = Append(y, b)
  <2>1. Append(y, b) \in Seq(Buffers)
    BY AppendProperties
  <2> QED BY <2>1
<1>4. /\ conns' \in Seq(ConnState) /\ Len(conns') = Len(conns)
      /\ Reqs' = [Reqs EXCEPT ![chan_] = z] /\ Reps' = Reps
  <2>1. conns' = [conns EXCEPT ![chan_].req = z]
    BY <1>1, <1>3, <1>b, <1>y
  <2> QED BY <1>inv, <1>a, <2>1, ReqChanged DEF ConnTypes
<1>5. /\ DOMAIN Reqs' = DOMAIN Reqs /\ \A d \in DOMAIN Reqs \ {chan_} : Reqs'[d] = Reqs[d]
      /\ Reqs'[chan_] = z /\ chan_ \in DOMAIN Reqs
  BY <1>inv, <1>4, <1>a, QueueTypes DEF ConnTypes
<1>6. \A k \in DOMAIN z : (k = Len(Reqs[chan_]) + 1 /\ z[k] = b) \/ (k \in DOMAIN Reqs[chan_] /\ z[k] = Reqs[chan_][k])
  <2>1. y = Reqs[chan_]
    BY <1>inv, <1>a, <1>y, QueueTypes DEF ConnTypes
  <2>2. \A k \in DOMAIN z : (k = Len(y) + 1 /\ z[k] = b) \/ (k \in DOMAIN y /\ z[k] = y[k])
    BY <1>3, AppendProperties
  <2> QED BY <2>1, <2>2
<1>7. Travelling' \subseteq Travelling \cup {b} /\ Replies' = Replies
  BY <1>same, <1>4, <1>5, <1>6 DEF Travelling, Replies, ToSet
<1>kept. RunsKept /\ RequestsKept
  <2>1. RunsKept
    BY <1>same, RunsSame
  <2> QED BY <1>w, <2>1
<1>ct. ClientTypes'
  BY <1>inv, <1>same DEF ClientTypes
<1>lt. CallTypes'
  BY <1>inv, <1>same DEF CallTypes
<1>tt. ThreadTypes'
  BY <1>w
<1>nt. ConnTypes'
  <2>1. \A u \in Threads : th'[u].ch = chan_ \/ th'[u].ch = th[u].ch
    BY <1>2 DEF Waits
  <2>2. \A u \in Threads : th'[u].ch \in 0..Len(conns)
    BY <1>inv, <1>a, <2>1 DEF ConnTypes
  <2> QED BY <1>inv, <1>same, <1>4, <2>2 DEF ConnTypes
<1>st. ServerTypes'
  BY <1>inv, <1>same DEF ServerTypes
<1>rt. RunTypes'
  BY <1>inv, <1>same DEF RunTypes
<1>ti. ThreadInv'
  BY <1>w
<1>bi. BindInv'
  BY <1>inv, <1>same, <1>later, <1>kept, BindKept
<1>ri. RunInv'
  BY <1>inv, <1>same, <1>later, RunsInvKept
<1>vi. TravelInv'
  BY <1>inv, <1>later, <1>kept, <1>7, <1>b, TravelKept
<1>pi. ReplyInv'
  BY <1>inv, <1>later, <1>kept, <1>7, ReplySame
<1>ci. CallerInv'
  BY <1>inv, <1>same, <1>kept, CallDomain, CallersKept
<1>wi. WindowInv'
  BY <1>inv, <1>same, <1>later, WindowKept
<1>di. NoDanglingCaller'
  BY <1>w
<1>oi. OnceInv'
  <2>1. PICK c, i : c = chan_ /\ i = Len(Reqs[chan_]) + 1
    OBVIOUS
  <2>2. NewPlace(c, i, b)
    BY <1>5, <1>6, <2>1 DEF NewPlace
  <2> QED BY <1>inv, <1>same, <1>1, <1>2, <1>7, <1>b, <2>2, OnceSent
<1>qi. QuietAfterCancel'
  BY <1>inv, <1>same DEF QuietAfterCancel
<1>ui. Understood'
  BY <1>inv, <1>same DEF Understood
<1> QED BY <1>ct, <1>lt, <1>tt, <1>nt, <1>st, <1>rt, <1>ti, <1>bi, <1>ri, <1>vi, <1>pi, <1>ci, <1>wi, <1>di, <1>oi, <1>qi, <1>ui DEF IInv, TypeInv

\* A request is sent on a new connection.
LEMMA TransmitOpenStep ==
  ASSUME IInv, NEW t \in Threads, Transmit(t), ~ isalive(chan_), chan_' # 0
  PROVE  IInv'
<1>inv. /\ ClientTypes /\ CallTypes /\ ThreadTypes /\ ConnTypes /\ ServerTypes /\ RunTypes
        /\ ThreadInv /\ BindInv /\ RunInv /\ TravelInv /\ ReplyInv /\ CallerInv
        /\ WindowInv /\ NoDanglingCaller /\ OnceInv /\ QuietAfterCancel /\ Understood
  BY DEF IInv, TypeInv
<1>same. /\ retrans_' = retrans_ /\ bind_done_' = bind_done_ /\ srv_nonce_' = srv_nonce_ /\ xid_' = xid_ /\ calls_' = calls_
         /\ xid_rep_window_' = xid_rep_window_ /\ destroy_wait_' = destroy_wait_ /\ client' = client /\ signalled' = signalled /\ up' = up
         /\ nonce_' = nonce_ /\ main' = main /\ jobs' = jobs /\ runs' = runs /\ broken' = broken
  BY DEF Transmit, clientVars, serverVars
<1>1. /\ th[t].pc = "send" /\ Len(conns) < MaxConn
      /\ conns' = Append(conns, [dead |-> FALSE, req |-> <<th[t].req>>, rep |-> <<>>])
      /\ chan_' = Len(conns')
      /\ th' = [th EXCEPT ![t].pc = "wait", ![t].ch = chan_']
  BY DEF Transmit
<1>b. PICK b \in Buffers : b = th[t].req /\ Known(b)
  <2>1. Requested(th[t]) /\ Known(th[t].req)
    BY <1>inv, <1>1, RequestKnown
  <2> QED BY <2>1 DEF Known, GoodRequest
<1>a. PICK n \in Nat : n = Len(conns)
  BY <1>inv, QueueTypes DEF ConnTypes
<1>4. /\ conns' \in Seq(ConnState) /\ Len(conns') = n + 1
      /\ Reqs' = [c \in 1..(n + 1) |-> IF c = n + 1 THEN <<b>> ELSE Reqs[c]]
      /\ Reps' = [c \in 1..(n + 1) |-> IF c = n + 1 THEN <<>> ELSE Reps[c]]
  BY <1>inv, <1>1, <1>a, <1>b, ConnOpened DEF ConnTypes
<1>c. chan_' = n + 1 /\ n + 1 \in Nat
  BY <1>1, <1>4
<1>2. Waits(t, n + 1)
  <2>1. th' = [th EXCEPT ![t].pc = "wait", ![t].ch = n + 1]
    BY <1>1, <1>c
  <2> QED BY <1>inv, <1>c, <2>1 DEF ThreadTypes, ThreadState, Waits
<1>later. Later
  BY <1>inv, <1>same DEF Later, ClientTypes
<1>w. ThreadTypes' /\ ThreadInv' /\ NoDanglingCaller' /\ RequestsKept
  BY <1>inv, <1>same, <1>later, <1>1, <1>2, WaitsParts
<1>5. /\ DOMAIN Reqs' = 1..(n + 1) /\ DOMAIN Reqs = 1..n /\ DOMAIN Reps' = 1..(n + 1) /\ DOMAIN Reps = 1..n
      /\ \A d \in 1..n : Reqs'[d] = Reqs[d] /\ Reps'[d] = Reps[d]
      /\ Reqs'[n + 1] = <<b>> /\ Reps'[n + 1] = <<>> /\ \A d \in 1..(n + 1) : d \in 1..n \/ d = n + 1
  BY <1>inv, <1>4, <1>a, QueueTypes DEF ConnTypes
<1>6. ToSet(<<b>>) = {b} /\ ToSet(<<>>) = {} /\ DOMAIN <<b>> = {1} /\ <<b>>[1] = b
  BY DEF ToSet
<1>7. Travelling' \subseteq Travelling \cup {b} /\ Replies' \subseteq Replies
  <2>1. \A e \in Travelling' : e \in Travelling \/ e = b
    BY <1>same, <1>5, <1>6 DEF Travelling
  <2>2. \A e \in Replies' : e \in Replies
    BY <1>5, <1>6 DEF Replies
  <2> QED BY <2>1, <2>2
<1>kept. RunsKept /\ RequestsKept
  <2>1. RunsKept
    BY <1>same, RunsSame
  <2> QED BY <1>w, <2>1
<1>ct. ClientTypes'
  BY <1>inv, <1>same DEF ClientTypes
<1>lt. CallTypes'
  BY <1>inv, <1>same DEF CallTypes
<1>tt. ThreadTypes'
  BY <1>w
<1>nt. ConnTypes'
  <2>1. \A u \in Threads : th'[u].ch = n + 1 \/ th'[u].ch = th[u].ch
    BY <1>2 DEF Waits
  <2>2. \A x \in 0..n : x \in 0..(n + 1)
    OBVIOUS
  <2>3. \A x \in 1..n : x \in 1..(n + 1)
    OBVIOUS
  <2>4. \A u \in Threads : th'[u].ch \in 0..(n + 1)
    BY <1>inv, <1>a, <2>1, <2>2 DEF ConnTypes
  <2>5. \A j \in jobs : j.conn \in 1..(n + 1)
    BY <1>inv, <1>a, <2>3 DEF ConnTypes
  <2>6. n + 1 <= MaxConn
    BY <1>1, <1>a, RpcAssumption
  <2> QED BY <1>same, <1>4, <1>c, <2>4, <2>5, <2>6 DEF ConnTypes
<1>st. ServerTypes'
  BY <1>inv, <1>same DEF ServerTypes
<1>rt. RunTypes'
  BY <1>inv, <1>same DEF RunTypes
<1>ti. ThreadInv'
  BY <1>w
<1>bi. BindInv'
  BY <1>inv, <1>same, <1>later, <1>kept, BindKept
<1>ri. RunInv'
  BY <1>inv, <1>same, <1>later, RunsInvKept
<1>vi. TravelInv'
  BY <1>inv, <1>later, <1>kept, <1>7, <1>b, TravelKept
<1>pi. ReplyInv'
  BY <1>inv, <1>later, <1>kept, <1>7, ReplyFewer
<1>ci. CallerInv'
  BY <1>inv, <1>same, <1>kept, CallDomain, CallersKept
<1>wi. WindowInv'
  BY <1>inv, <1>same, <1>later, WindowKept
<1>di. NoDanglingCaller'
  BY <1>w
<1>oi. OnceInv'
  <2>1. PICK c : c = n + 1
    OBVIOUS
  <2>2. NewPlace(c, 1, b)
    BY <1>5, <1>6, <2>1 DEF NewPlace
  <2>3. Waits(t, c)
    BY <1>2, <2>1
  <2> QED BY <1>inv, <1>same, <1>1, <1>7, <1>b, <2>2, <2>3, OnceSent
<1>qi. QuietAfterCancel'
  BY <1>inv, <1>same DEF QuietAfterCancel
<1>ui. Understood'
  BY <1>inv, <1>same DEF Understood
<1> QED BY <1>ct, <1>lt, <1>tt, <1>nt, <1>st, <1>rt, <1>ti, <1>bi, <1>ri, <1>vi, <1>pi, <1>ci, <1>wi, <1>di, <1>oi, <1>qi, <1>ui DEF IInv, TypeInv

\* No connection could be opened.
LEMMA TransmitLostStep ==
  ASSUME IInv, NEW t \in Threads, Transmit(t), ~ isalive(chan_), chan_' = 0
  PROVE  IInv'
<1>inv. /\ ClientTypes /\ CallTypes /\ ThreadTypes /\ ConnTypes /\ ServerTypes /\ RunTypes
        /\ ThreadInv /\ BindInv /\ RunInv /\ TravelInv /\ ReplyInv /\ CallerInv
        /\ WindowInv /\ NoDanglingCaller /\ OnceInv /\ QuietAfterCancel /\ Understood
  BY DEF IInv, TypeInv
<1>same. /\ retrans_' = retrans_ /\ bind_done_' = bind_done_ /\ srv_nonce_' = srv_nonce_ /\ xid_' = xid_ /\ calls_' = calls_
         /\ xid_rep_window_' = xid_rep_window_ /\ destroy_wait_' = destroy_wait_ /\ client' = client /\ signalled' = signalled /\ up' = up
         /\ nonce_' = nonce_ /\ main' = main /\ jobs' = jobs /\ runs' = runs /\ broken' = broken
  BY DEF Transmit, clientVars, serverVars
<1>1. th[t].pc = "send" /\ th' = [th EXCEPT ![t].pc = "wait"] /\ conns' = conns
  <2>1. Len(Append(conns, [dead |-> FALSE, req |-> <<th[t].req>>, rep |-> <<>>])) # 0
    <3>1. PICK e : e = [dead |-> FALSE, req |-> <<th[t].req>>, rep |-> <<>>]
      OBVIOUS
    <3>2. conns \in Seq(ConnState \cup {e}) /\ e \in ConnState \cup {e}
      BY <1>inv DEF ConnTypes
    <3>3. Len(Append(conns, e)) = Len(conns) + 1 /\ Len(conns) \in Nat
      BY <3>2, AppendProperties
    <3> QED BY <3>1, <3>3
  <2> QED BY <2>1 DEF Transmit
<1>2. Waits(t, th[t].ch)
  BY <1>inv, <1>1 DEF ThreadTypes, ThreadState, Waits
<1>later. Later
  BY <1>inv, <1>same DEF Later, ClientTypes
<1>w. ThreadTypes' /\ ThreadInv' /\ NoDanglingCaller' /\ RequestsKept
  BY <1>inv, <1>same, <1>later, <1>1, <1>2, WaitsParts
<1>kept. RunsKept /\ RequestsKept
  <2>1. RunsKept
    BY <1>same, RunsSame
  <2> QED BY <1>w, <2>1
<1>views. Reqs' = Reqs /\ Reps' = Reps /\ Travelling' = Travelling /\ Replies' = Replies
  BY <1>1, <1>same DEF Reqs, Reps, Travelling, Replies
<1>ct. ClientTypes'
  BY <1>inv, <1>same DEF ClientTypes
<1>lt. CallTypes'
  BY <1>inv, <1>same DEF CallTypes
<1>tt. ThreadTypes'
  BY <1>w
<1>nt. ConnTypes'
  <2>1. \A u \in Threads : th'[u].ch = th[u].ch
    BY <1>2 DEF Waits
  <2>2. 0 \in 0..Len(conns)
    BY <1>inv, QueueTypes DEF ConnTypes
  <2> QED BY <1>inv, <1>same, <1>1, <2>1, <2>2 DEF ConnTypes
<1>st. ServerTypes'
  BY <1>inv, <1>same DEF ServerTypes
<1>rt. RunTypes'
  BY <1>inv, <1>same DEF RunTypes
<1>ti. ThreadInv'
  BY <1>w
<1>bi. BindInv'
  BY <1>inv, <1>same, <1>later, <1>kept, BindKept
<1>ri. RunInv'
  BY <1>inv, <1>same, <1>later, RunsInvKept
<1>vi. TravelInv'
  BY <1>inv, <1>later, <1>kept, <1>views, TravelSame
<1>pi. ReplyInv'
  BY <1>inv, <1>later, <1>kept, <1>views, ReplySame
<1>ci. CallerInv'
  BY <1>inv, <1>same, <1>kept, CallDomain, CallersKept
<1>wi. WindowInv'
  BY <1>inv, <1>same, <1>later, WindowKept
<1>di. NoDanglingCaller'
  BY <1>w
<1>oi. OnceInv'
  <2>1. \A u \in Threads : th'[u].pc = "send" => th[u].pc = "send" /\ th'[u].xid = th[u].xid
    BY <1>2 DEF Waits
  <2> QED BY <1>inv, <1>same, <1>views, <2>1, OnceFewer
<1>qi. QuietAfterCancel'
  BY <1>inv, <1>same DEF QuietAfterCancel
<1>ui. Understood'
  BY <1>inv, <1>same DEF Understood
<1> QED BY <1>ct, <1>lt, <1>tt, <1>nt, <1>st, <1>rt, <1>ti, <1>bi, <1>ri, <1>vi, <1>pi, <1>ci, <1>wi, <1>di, <1>oi, <1>qi, <1>ui DEF IInv, TypeInv

\* The end of a call.
LEMMA ReturnStep ==
  ASSUME IInv, NEW t \in Threads, Return(t)
  PROVE  IInv'
<1>inv. /\ ClientTypes /\ CallTypes /\ ThreadTypes /\ ConnTypes /\ ServerTypes /\ RunTypes
        /\ ThreadInv /\ BindInv /\ RunInv /\ TravelInv /\ ReplyInv /\ CallerInv
        /\ WindowInv /\ NoDanglingCaller /\ OnceInv /\ QuietAfterCancel /\ Understood
  BY DEF IInv, TypeInv
<1>same. /\ retrans_' = retrans_ /\ bind_done_' = bind_done_ /\ srv_nonce_' = srv_nonce_ /\ xid_' = xid_ /\ chan_' = chan_
         /\ destroy_wait_' = destroy_wait_ /\ conns' = conns /\ up' = up /\ nonce_' = nonce_ /\ main' = main
         /\ jobs' = jobs /\ runs' = runs
  BY DEF Return, clientVars, serverVars
<1>1. /\ th[t].pc = "wait" /\ calls_' = erase(th[t].xid) /\ xid_rep_window_' = update_xid_rep(th[t].xid)
      /\ signalled' \in BOOLEAN /\ broken' \in BOOLEAN
  BY DEF Return
<1>2. ~ broken' /\ client' = client
  BY <1>inv, ReturnThread
<1>3. PICK s \in ThreadState : /\ th' = [th EXCEPT ![t] = s]
                              /\ s.pc \in {"idle", "bind"} /\ s.ch = 0 /\ ThreadOK(s)
  BY <1>inv, ReturnThread
<1>4. th' \in [Threads -> ThreadState] /\ th'[t] = s /\ \A u \in Threads \ {t} : th'[u] = th[u]
  BY <1>inv, <1>3, ThreadChanged DEF OneThread
<1>5. t \in Requesting /\ Requesting \subseteq Threads /\ Requesting' = Requesting \ {t}
  <2>1. Requesting \subseteq Threads /\ Requesting' \subseteq Threads /\ t \in Requesting /\ t \notin Requesting'
    BY <1>1, <1>3, <1>4 DEF Requesting
  <2>2. \A u \in Threads \ {t} : u \in Requesting' <=> u \in Requesting
    BY <1>4 DEF Requesting
  <2> QED BY <2>1, <2>2
<1>6. PICK x : x = th[t].xid
  OBVIOUS
<1>7. /\ DOMAIN calls_' = DOMAIN calls_ \ {x} /\ \A y \in DOMAIN calls_' : calls_'[y] = calls_[y]
      /\ calls_' = [y \in DOMAIN calls_' |-> calls_[y]]
  BY <1>1, <1>6 DEF erase
<1>8. x \in DOMAIN calls_ /\ DOMAIN calls_ \subseteq 1..MaxXid /\ DOMAIN calls_ \subseteq 1..(xid_ - 1)
  BY <1>inv, <1>5, <1>6, CallDomain
<1>later. Later
  BY <1>inv, <1>same DEF Later, ClientTypes
<1>kept. RunsKept /\ RequestsKept
  <2>1. RequestsKept
    BY <1>4, <1>5 DEF RequestsKept
  <2> QED BY <1>same, <2>1, RunsSame
<1>views. Reqs' = Reqs /\ Reps' = Reps /\ Travelling' = Travelling /\ Replies' = Replies
  BY <1>same DEF Reqs, Reps, Travelling, Replies
<1>ct. ClientTypes'
  BY <1>inv, <1>same, <1>1, <1>2 DEF ClientTypes
<1>lt. CallTypes'
  <2>1. \A y \in DOMAIN calls_' : calls_[y] \in CallerState
    BY <1>inv, <1>7 DEF CallTypes
  <2> QED BY <1>7, <2>1 DEF CallTypes
<1>tt. ThreadTypes'
  BY <1>4 DEF ThreadTypes
<1>nt. ConnTypes'
  <2>1. \A u \in Threads : th'[u].ch = 0 \/ th'[u].ch = th[u].ch
    BY <1>3, <1>4
  <2>2. Len(conns) \in Nat
    BY <1>inv DEF ConnTypes
  <2>3. 0 \in 0..Len(conns)
    BY <2>2
  <2>4. \A u \in Threads : th'[u].ch \in 0..Len(conns)
    BY <1>inv, <2>1, <2>3 DEF ConnTypes
  <2> QED BY <1>inv, <1>same, <2>4 DEF ConnTypes
<1>st. ServerTypes'
  BY <1>inv, <1>same DEF ServerTypes
<1>rt. RunTypes'
  BY <1>inv, <1>same DEF RunTypes
<1>ti. ThreadInv'
  <2>1. ThreadOK(s)'
    BY <1>3, <1>same, <1>later, ThreadKept
  <2>2. ThreadOK(th[t])'
    BY <1>4, <2>1 DEF ThreadOK, Requested, Answered
  <2> QED BY <1>inv, <1>same, <1>later, <1>4, <2>2, ThreadsKept
<1>bi. BindInv'
  BY <1>inv, <1>same, <1>later, <1>kept, BindKept
<1>ri. RunInv'
  BY <1>inv, <1>same, <1>later, RunsInvKept
<1>vi. TravelInv'
  BY <1>inv, <1>later, <1>kept, <1>views, TravelSame
<1>pi. ReplyInv'
  BY <1>inv, <1>later, <1>kept, <1>views, ReplySame
<1>ci. CallerInv'
  <2>1. ASSUME NEW y \in DOMAIN calls_', calls_'[y].done
        PROVE  Truthful(y, calls_[y].intret, calls_[y].un)'
    <3>1. PICK i, u : i = calls_[y].intret /\ u = calls_[y].un /\ i = calls_'[y].intret /\ u = calls_'[y].un
      BY <1>7, <2>1
    <3>2. y \in DOMAIN calls_ /\ y \in 1..MaxXid /\ calls_[y].done
      BY <1>7, <1>8, <2>1
    <3>3. Truthful(y, i, u)
      BY <1>inv, <3>1, <3>2 DEF CallerInv
    <3>4. Truthful(y, i, u)'
      BY <1>kept, <3>2, <3>3, TruthfulKept
    <3> QED BY <3>1, <3>4 DEF Truthful
  <2> QED BY <1>7, <2>1 DEF CallerInv
<1>wi. WindowInv'
  <2>1. PICK n \in Nat : n = xid_ - 1 /\ n = xid_' - 1
    BY <1>inv, <1>same DEF ClientTypes
  <2>2. xid_rep_window_ \subseteq 0..n /\ xid_rep_window_ # {} /\ x \in 0..n
    BY <1>inv, <1>8, <2>1 DEF WindowInv
  <2>3. PICK new : new = xid_rep_window_' /\ new = update_xid_rep(x)
    BY <1>1, <1>6
  <2>4. /\ new \subseteq 0..n /\ new # {}
        /\ \A y \in Nat : y \notin xid_rep_window_ /\ y # x /\ Min(xid_rep_window_) < y
                            => y \notin new /\ Min(new) < y
    BY <2>2, <2>3, WindowUpdate
  <2>5. ASSUME NEW y \in DOMAIN calls_', ~ calls_'[y].done PROVE y \notin new /\ Min(new) < y
    <3>1. y \in DOMAIN calls_ /\ y # x /\ ~ calls_[y].done
      BY <1>7, <2>5
    <3>2. y \notin xid_rep_window_ /\ Min(xid_rep_window_) < y
      BY <1>inv, <3>1 DEF WindowInv
    <3>3. y \in Nat
      BY <1>8, <3>1
    <3> QED BY <2>4, <3>1, <3>2, <3>3
  <2> QED BY <2>1, <2>3, <2>4, <2>5 DEF WindowInv
<1>di. NoDanglingCaller'
  <2>1. \A u \in Requesting' : u \in Requesting /\ u # t /\ th'[u] = th[u]
    BY <1>4, <1>5
  <2>2. \A u \in Requesting' : th'[u].xid # x
    BY <1>inv, <1>5, <1>6, <2>1 DEF NoDanglingCaller
  <2>3. \A y \in DOMAIN calls_' : \E u \in Requesting' : y = th'[u].xid
    <3>1. SUFFICES ASSUME NEW y \in DOMAIN calls_' PROVE \E u \in Requesting' : y = th'[u].xid
      OBVIOUS
    <3>2. PICK u \in Requesting : y = th[u].xid
      BY <1>inv, <1>7 DEF NoDanglingCaller
    <3>3. u # t
      BY <1>6, <1>7, <3>2
    <3> QED BY <1>5, <2>1, <3>2, <3>3
  <2>4. \A u \in Requesting' : th'[u].xid \in DOMAIN calls_'
    BY <1>inv, <1>7, <2>1, <2>2 DEF NoDanglingCaller
  <2>5. DOMAIN calls_' = {th'[u].xid : u \in Requesting'}
    BY <2>3, <2>4
  <2>6. \A u, v \in Requesting' : u # v => th'[u].xid # th'[v].xid
    BY <1>inv, <2>1 DEF NoDanglingCaller
  <2> QED BY <2>5, <2>6 DEF NoDanglingCaller
<1>oi. OnceInv'
  <2>1. \A u \in Threads : th'[u].pc = "send" => th[u].pc = "send" /\ th'[u].xid = th[u].xid
    BY <1>3, <1>4
  <2> QED BY <1>inv, <1>same, <1>views, <2>1, OnceFewer
<1>qi. QuietAfterCancel'
  <2>1. calls_ # <<>>
    BY <1>8
  <2> QED BY <1>inv, <1>same, <1>2, <1>7, <2>1 DEF QuietAfterCancel
<1>ui. Understood'
  BY <1>2 DEF Understood
<1> QED BY <1>ct, <1>lt, <1>tt, <1>nt, <1>st, <1>rt, <1>ti, <1>bi, <1>ri, <1>vi, <1>pi, <1>ci, <1>wi, <1>di, <1>oi, <1>qi, <1>ui DEF IInv, TypeInv

\* A reply reaches the client: its caller, if it still waits, gets what the reply carries.
LEMMA GotPduStep ==
  ASSUME IInv, NEW c \in DOMAIN conns, got_pdu(c)
  PROVE  IInv'
<1>inv. /\ ClientTypes /\ CallTypes /\ ThreadTypes /\ ConnTypes /\ ServerTypes /\ RunTypes
        /\ ThreadInv /\ BindInv /\ RunInv /\ TravelInv /\ ReplyInv /\ CallerInv
        /\ WindowInv /\ NoDanglingCaller /\ OnceInv /\ QuietAfterCancel /\ Understood
  BY DEF IInv, TypeInv
<1>same. /\ retrans_' = retrans_ /\ bind_done_' = bind_done_ /\ srv_nonce_' = srv_nonce_ /\ xid_' = xid_ /\ chan_' = chan_
         /\ destroy_wait_' = destroy_wait_ /\ client' = client /\ signalled' = signalled /\ th' = th /\ up' = up
         /\ nonce_' = nonce_ /\ main' = main /\ jobs' = jobs /\ runs' = runs
  BY DEF got_pdu, clientVars, serverVars
<1>1. PICK b : b = Head(conns[c].rep)
  OBVIOUS
<1>2. PICK q : q = Tail(conns[c].rep)
  OBVIOUS
<1>3. conns[c].rep # <<>> /\ conns' = [conns EXCEPT ![c].rep = q]
  BY <1>2 DEF got_pdu
<1>4. /\ conns[c].rep \in Seq(Buffers) /\ q \in Seq(Buffers)
      /\ \A k \in DOMAIN q : k + 1 \in DOMAIN conns[c].rep /\ q[k] = conns[c].rep[k + 1]
      /\ 1 \in DOMAIN conns[c].rep /\ b = conns[c].rep[1]
  <2>1. conns[c].rep \in Seq(Buffers)
    BY <1>inv, QueueTypes DEF ConnTypes
  <2> QED BY <1>1, <1>2, <1>3, <2>1, HeadTailOf
<1>5. /\ conns' \in Seq(ConnState) /\ Len(conns') = Len(conns)
      /\ Reqs' = Reqs /\ Reps' = [Reps EXCEPT ![c] = q]
  BY <1>inv, <1>3, <1>4, RepChanged DEF ConnTypes
<1>6. DOMAIN Reps = DOMAIN conns /\ DOMAIN Reps' = DOMAIN Reps /\ Reps'[c] = q /\ Reps[c] = conns[c].rep
  BY <1>inv, <1>5, QueueTypes DEF ConnTypes
<1>7. Replies' \subseteq Replies /\ b \in Replies
  <2>1. \A e \in ToSet(q) : e \in ToSet(conns[c].rep)
    BY <1>4 DEF ToSet
  <2>2. \A d \in DOMAIN Reps : d # c => Reps'[d] = Reps[d]
    BY <1>5
  <2>3. \A e \in Replies' : e \in Replies
    BY <1>6, <2>1, <2>2 DEF Replies
  <2>4. b \in ToSet(conns[c].rep)
    BY <1>4 DEF ToSet
  <2> QED BY <1>6, <2>3, <2>4 DEF Replies
<1>8. GoodReply(b)
  BY <1>inv, <1>7 DEF ReplyInv
<1>9. PICK a : a = ReplyHdr(b).xid
  OBVIOUS
<1>10. PICK u \in Unmarshalls : u = ReplyBody(b) /\ u.ok
  BY <1>8, ReaderType DEF GoodReply
<1>11. PICK i \in Int : i = ReplyHdr(b).ret
  BY <1>8 DEF GoodReply, ReplyHeader
<1>12. a \in 1..(xid_ - 1) /\ Truthful(a, i, u)
  BY <1>8, <1>9, <1>10, <1>11 DEF GoodReply
<1>13. /\ broken' = (broken \/ ~ u.ok)
       /\ xid_rep_window_' = IF u.ok THEN update_xid_rep(a) ELSE xid_rep_window_
       /\ calls_' = IF u.ok /\ a \in DOMAIN calls_ /\ ~ calls_[a].done
                    THEN [calls_ EXCEPT ![a] = [done |-> TRUE, intret |-> i, un |-> u]] ELSE calls_
  BY <1>1, <1>9, <1>10, <1>11 DEF got_pdu, addressee, ReplyHdr, ReplyBody
<1>14. broken' = broken /\ xid_rep_window_' = update_xid_rep(a)
  BY <1>inv, <1>10, <1>13 DEF ClientTypes
<1>15. PICK e \in CallerState : e = [done |-> TRUE, intret |-> i, un |-> u]
  BY DEF CallerState, Flags
<1>16. e.done /\ e.intret = i /\ e.un = u
  BY <1>15
<1>17. calls_' = calls_ \/ (a \in DOMAIN calls_ /\ calls_' = [calls_ EXCEPT ![a] = e])
  BY <1>13, <1>15
<1>18. DOMAIN calls_' = DOMAIN calls_ /\ \A y \in DOMAIN calls_ : calls_'[y] = calls_[y] \/ (y = a /\ calls_'[y] = e)
  BY <1>17
<1>19. a \in DOMAIN calls_ => calls_'[a].done
  BY <1>10, <1>13, <1>15, <1>16
<1>later. Later
  BY <1>inv, <1>same DEF Later, ClientTypes
<1>kept. RunsKept /\ RequestsKept
  BY <1>same, RunsSame DEF RequestsKept, Requesting
<1>views. Reqs' = Reqs /\ Travelling' = Travelling
  BY <1>same, <1>5 DEF Travelling
<1>ct. ClientTypes'
  BY <1>inv, <1>same, <1>14 DEF ClientTypes
<1>lt. CallTypes'
  <2>1. \A y \in DOMAIN calls_ : calls_'[y] \in CallerState
    BY <1>inv, <1>18 DEF CallTypes
  <2>2. calls_' = [y \in DOMAIN calls_ |-> calls_'[y]]
    BY <1>inv, <1>17 DEF CallTypes
  <2> QED BY <1>18, <2>1, <2>2 DEF CallTypes
<1>tt. ThreadTypes'
  BY <1>inv, <1>same DEF ThreadTypes
<1>nt. ConnTypes'
  BY <1>inv, <1>same, <1>5 DEF ConnTypes
<1>st. ServerTypes'
  BY <1>inv, <1>same DEF ServerTypes
<1>rt. RunTypes'
  BY <1>inv, <1>same DEF RunTypes
<1>ti. ThreadInv'
  BY <1>inv, <1>same, <1>later, ThreadsSame
<1>bi. BindInv'
  BY <1>inv, <1>same, <1>later, <1>kept, BindKept
<1>ri. RunInv'
  BY <1>inv, <1>same, <1>later, RunsInvKept
<1>vi. TravelInv'
  BY <1>inv, <1>later, <1>kept, <1>views, TravelSame
<1>pi. ReplyInv'
  BY <1>inv, <1>later, <1>kept, <1>7, ReplyFewer
<1>ci. CallerInv'
  <2>1. SUFFICES ASSUME NEW y \in DOMAIN calls_, calls_'[y].done
                 PROVE  Truthful(y, calls_'[y].intret, calls_'[y].un)
    BY <1>same, <1>18 DEF CallerInv, Truthful
  <2>2. CASE calls_'[y] = calls_[y]
    BY <1>inv, <2>1, <2>2 DEF CallerInv
  <2>3. CASE y = a /\ calls_'[y] = e
    BY <1>12, <1>16, <2>3
  <2> QED BY <1>18, <2>2, <2>3
<1>wi. WindowInv'
  <2>1. PICK n \in Nat : n = xid_ - 1 /\ n = xid_' - 1
    BY <1>inv, <1>same DEF ClientTypes
  <2>2. xid_rep_window_ \subseteq 0..n /\ xid_rep_window_ # {} /\ a \in 0..n
    BY <1>inv, <1>12, <2>1 DEF WindowInv
  <2>3. PICK new : new = xid_rep_window_' /\ new = update_xid_rep(a)
    BY <1>14
  <2>4. /\ new \subseteq 0..n /\ new # {}
        /\ \A y \in Nat : y \notin xid_rep_window_ /\ y # a /\ Min(xid_rep_window_) < y
                            => y \notin new /\ Min(new) < y
    BY <2>2, <2>3, WindowUpdate
  <2>5. ASSUME NEW y \in DOMAIN calls_', ~ calls_'[y].done PROVE y \notin new /\ Min(new) < y
    <3>1. y \in DOMAIN calls_ /\ y # a /\ ~ calls_[y].done
      BY <1>16, <1>18, <1>19, <2>5
    <3>2. y \notin xid_rep_window_ /\ Min(xid_rep_window_) < y
      BY <1>inv, <3>1 DEF WindowInv
    <3>3. y \in Nat
      BY <1>inv, <3>1, CallDomain
    <3> QED BY <2>4, <3>1, <3>2, <3>3
  <2> QED BY <2>1, <2>3, <2>4, <2>5 DEF WindowInv
<1>di. NoDanglingCaller'
  BY <1>inv, <1>same, <1>18, DanglingSame
<1>oi. OnceInv'
  BY <1>inv, <1>same, <1>views, OnceSame
<1>qi. QuietAfterCancel'
  <2>1. calls_ = <<>> => calls_' = <<>>
    BY <1>17
  <2>2. ASSUME \A y \in DOMAIN calls_ : calls_[y].done PROVE \A y \in DOMAIN calls_' : calls_'[y].done
    BY <1>16, <1>18, <2>2
  <2> QED BY <1>inv, <1>same, <2>1, <2>2 DEF QuietAfterCancel
<1>ui. Understood'
  BY <1>inv, <1>14 DEF Understood
<1> QED BY <1>ct, <1>lt, <1>tt, <1>nt, <1>st, <1>rt, <1>ti, <1>bi, <1>ri, <1>vi, <1>pi, <1>ci, <1>wi, <1>di, <1>oi, <1>qi, <1>ui DEF IInv, TypeInv

\* A request becomes a job of the server.
LEMMA SrvGotPduStep ==
  ASSUME IInv, NEW c \in DOMAIN conns, srv_got_pdu(c)
  PROVE  IInv'
<1>inv. /\ ClientTypes /\ CallTypes /\ ThreadTypes /\ ConnTypes /\ ServerTypes /\ RunTypes
        /\ ThreadInv /\ BindInv /\ RunInv /\ TravelInv /\ ReplyInv /\ CallerInv
        /\ WindowInv /\ NoDanglingCaller /\ OnceInv /\ QuietAfterCancel /\ Understood
  BY DEF IInv, TypeInv
<1>same. /\ retrans_' = retrans_ /\ bind_done_' = bind_done_ /\ srv_nonce_' = srv_nonce_ /\ xid_' = xid_ /\ calls_' = calls_
         /\ xid_rep_window_' = xid_rep_window_ /\ chan_' = chan_ /\ destroy_wait_' = destroy_wait_ /\ client' = client /\ signalled' = signalled
         /\ th' = th /\ up' = up /\ nonce_' = nonce_ /\ main' = main /\ runs' = runs
         /\ broken' = broken
  BY DEF srv_got_pdu, clientVars, serverVars
<1>1. PICK b : b = Head(conns[c].req)
  OBVIOUS
<1>2. PICK q : q = Tail(conns[c].req)
  OBVIOUS
<1>3. PICK g : g = [conn |-> c, buf |-> b]
  OBVIOUS
<1>4. conns[c].req # <<>> /\ conns' = [conns EXCEPT ![c].req = q] /\ jobs' = jobs \cup {g}
  BY <1>1, <1>2, <1>3 DEF srv_got_pdu
<1>5. /\ conns[c].req \in Seq(Buffers) /\ q \in Seq(Buffers)
      /\ \A k \in DOMAIN q : k + 1 \in DOMAIN conns[c].req /\ q[k] = conns[c].req[k + 1] /\ k \in Nat /\ k # 0
      /\ 1 \in DOMAIN conns[c].req /\ b = conns[c].req[1] /\ b \in Buffers
  <2>1. conns[c].req \in Seq(Buffers)
    BY <1>inv, QueueTypes DEF ConnTypes
  <2> QED BY <1>1, <1>2, <1>4, <2>1, HeadTailOf
<1>6. /\ conns' \in Seq(ConnState) /\ Len(conns') = Len(conns)
      /\ Reps' = Reps /\ Reqs' = [Reqs EXCEPT ![c] = q]
  BY <1>inv, <1>4, <1>5, ReqChanged DEF ConnTypes
<1>7. DOMAIN Reqs = DOMAIN conns /\ DOMAIN Reqs' = DOMAIN Reqs /\ Reqs'[c] = q /\ Reqs[c] = conns[c].req
  BY <1>inv, <1>6, QueueTypes DEF ConnTypes
<1>8. \A d \in DOMAIN Reqs : d # c => Reqs'[d] = Reqs[d]
  BY <1>6
<1>9. c \in 1..Len(conns) /\ c \in Nat
  BY <1>inv, QueueTypes DEF ConnTypes
<1>10. g \in Job /\ g.conn = c /\ g.buf = b
  BY <1>3, <1>5, <1>9 DEF Job
<1>11. b \in Travelling
  <2>1. b \in ToSet(Reqs[c])
    BY <1>5, <1>7 DEF ToSet
  <2> QED BY <1>7, <2>1 DEF Travelling
<1>12. Travelling' \subseteq Travelling
  <2>1. \A e \in ToSet(q) : e \in ToSet(conns[c].req)
    BY <1>5 DEF ToSet
  <2>2. \A e \in Travelling' : e \in Travelling
    BY <1>4, <1>7, <1>8, <1>10, <1>11, <2>1 DEF Travelling
  <2> QED BY <2>2
<1>later. Later
  BY <1>inv, <1>same DEF Later, ClientTypes
<1>kept. RunsKept /\ RequestsKept
  BY <1>same, RunsSame DEF RequestsKept, Requesting
<1>views. Reps' = Reps /\ Replies' = Replies
  BY <1>6 DEF Replies
<1>ct. ClientTypes'
  BY <1>inv, <1>same DEF ClientTypes
<1>lt. CallTypes'
  BY <1>inv, <1>same DEF CallTypes
<1>tt. ThreadTypes'
  BY <1>inv, <1>same DEF ThreadTypes
<1>nt. ConnTypes'
  <2>1. \A j \in jobs' : j.conn \in 1..Len(conns)
    BY <1>inv, <1>4, <1>9, <1>10 DEF ConnTypes
  <2> QED BY <1>inv, <1>same, <1>6, <2>1 DEF ConnTypes
<1>st. ServerTypes'
  BY <1>inv, <1>same, <1>4, <1>10 DEF ServerTypes
<1>rt. RunTypes'
  BY <1>inv, <1>same DEF RunTypes
<1>ti. ThreadInv'
  BY <1>inv, <1>same, <1>later, ThreadsSame
<1>bi. BindInv'
  BY <1>inv, <1>same, <1>later, <1>kept, BindKept
<1>ri. RunInv'
  BY <1>inv, <1>same, <1>later, RunsInvKept
<1>vi. TravelInv'
  BY <1>inv, <1>later, <1>kept, <1>12, TravelFewer
<1>pi. ReplyInv'
  BY <1>inv, <1>later, <1>kept, <1>views, ReplySame
<1>ci. CallerInv'
  BY <1>inv, <1>same, <1>kept, CallDomain, CallersKept
<1>wi. WindowInv'
  BY <1>inv, <1>same, <1>later, WindowKept
<1>di. NoDanglingCaller'
  BY <1>inv, <1>same, DanglingSame
<1>oi. OnceInv'
  <2>1. SUFFICES ASSUME OnePlace PROVE OnePlace'
    BY <1>inv, <1>same DEF OnceInv
  <2>2. \A d \in DOMAIN Reqs' : d \in DOMAIN Reqs
    BY <1>7
  <2>3. ASSUME NEW d \in DOMAIN Reqs, NEW k \in DOMAIN Reqs'[d], NEW e \in DOMAIN Reqs, NEW l \in DOMAIN Reqs'[e],
               Hdr(Reqs'[d][k]).xid = Hdr(Reqs'[e][l]).xid
        PROVE  d = e /\ k = l
    <3>1. PICK k2 \in DOMAIN Reqs[d] : Reqs'[d][k] = Reqs[d][k2] /\ (IF d = c THEN k2 = k + 1 /\ k \in Nat ELSE k2 = k)
      BY <1>5, <1>7, <1>8
    <3>2. PICK l2 \in DOMAIN Reqs[e] : Reqs'[e][l] = Reqs[e][l2] /\ (IF e = c THEN l2 = l + 1 /\ l \in Nat ELSE l2 = l)
      BY <1>5, <1>7, <1>8
    <3>3. d = e /\ k2 = l2
      BY <2>1, <2>3, <3>1, <3>2 DEF OnePlace
    <3> QED BY <3>1, <3>2, <3>3
  <2>4. ASSUME NEW d \in DOMAIN Reqs, NEW k \in DOMAIN Reqs'[d] PROVE Hdr(Reqs'[d][k]).xid # Hdr(b).xid
    <3>1. PICK k2 \in DOMAIN Reqs[d] : Reqs'[d][k] = Reqs[d][k2] /\ (d = c => k2 # 1)
      BY <1>5, <1>7, <1>8
    <3> QED BY <1>5, <1>7, <2>1, <3>1 DEF OnePlace
  <2>5. ASSUME NEW d \in DOMAIN Reqs, NEW k \in DOMAIN Reqs'[d], NEW j \in jobs
        PROVE  Hdr(Reqs'[d][k]).xid # Hdr(j.buf).xid
    <3>1. PICK k2 \in DOMAIN Reqs[d] : Reqs'[d][k] = Reqs[d][k2]
      BY <1>5, <1>7, <1>8
    <3> QED BY <2>1, <3>1 DEF OnePlace
  <2>6. ASSUME NEW j \in jobs PROVE Hdr(b).xid # Hdr(j.buf).xid
    BY <1>5, <1>7, <2>1 DEF OnePlace
  <2>7. \A i, j \in jobs' : Hdr(i.buf).xid = Hdr(j.buf).xid => i = j
    BY <1>4, <1>10, <2>1, <2>6 DEF OnePlace
  <2>8. \A d \in DOMAIN Reqs' : \A k \in DOMAIN Reqs'[d] : \A j \in jobs' : Hdr(Reqs'[d][k]).xid # Hdr(j.buf).xid
    BY <1>4, <1>10, <2>2, <2>4, <2>5
  <2>9. \A u \in Threads : th'[u].pc = "send" =>
          runs'[th'[u].xid] = <<>> /\ \A e \in Travelling' : Hdr(e).xid # th'[u].xid
    BY <1>same, <1>12, <2>1 DEF OnePlace
  <2>10. (\A e \in Travelling' : runs'[Hdr(e).xid] = <<>>) /\ \A y \in 1..MaxXid : Len(runs'[y]) <= 1
    BY <1>same, <1>12, <2>1 DEF OnePlace
  <2>11. \A d, e \in DOMAIN Reqs' : \A k \in DOMAIN Reqs'[d], l \in DOMAIN Reqs'[e] :
           Hdr(Reqs'[d][k]).xid = Hdr(Reqs'[e][l]).xid => d = e /\ k = l
    BY <2>2, <2>3
  <2> QED BY <2>7, <2>8, <2>9, <2>10, <2>11 DEF OnePlace
<1>qi. QuietAfterCancel'
  BY <1>inv, <1>same DEF QuietAfterCancel
<1>ui. Understood'
  BY <1>inv, <1>same DEF Understood
<1> QED BY <1>ct, <1>lt, <1>tt, <1>nt, <1>st, <1>rt, <1>ti, <1>bi, <1>ri, <1>vi, <1>pi, <1>ci, <1>wi, <1>di, <1>oi, <1>qi, <1>ui DEF IInv, TypeInv

\* The server turns a request down.
Rejects(j, ret) == Reject(j, Hdr(j.buf).xid, ret) /\ UNCHANGED <<retrans_, clientVars, chan_, th>>

\* The server turns a request down: the reply claims no success.
LEMMA RejectStep ==
  ASSUME IInv, NEW j \in jobs, NEW ret \in Int, ret < 0, Rejects(j, ret)
  PROVE  IInv'
<1>inv. /\ ClientTypes /\ CallTypes /\ ThreadTypes /\ ConnTypes /\ ServerTypes /\ RunTypes
        /\ ThreadInv /\ BindInv /\ RunInv /\ TravelInv /\ ReplyInv /\ CallerInv
        /\ WindowInv /\ NoDanglingCaller /\ OnceInv /\ QuietAfterCancel /\ Understood
  BY DEF IInv, TypeInv
<1>same. /\ retrans_' = retrans_ /\ bind_done_' = bind_done_ /\ srv_nonce_' = srv_nonce_ /\ xid_' = xid_ /\ calls_' = calls_
         /\ xid_rep_window_' = xid_rep_window_ /\ chan_' = chan_ /\ destroy_wait_' = destroy_wait_ /\ client' = client /\ signalled' = signalled
         /\ th' = th /\ up' = up /\ nonce_' = nonce_ /\ main' = main /\ runs' = runs
         /\ broken' = broken
  BY DEF Rejects, Reject, clientVars, serverVars
<1>1. j.conn \in DOMAIN conns /\ conns \in Seq(ConnState)
  BY <1>inv, QueueTypes DEF ConnTypes
<1>2. PICK b : b = j.buf
  OBVIOUS
<1>3. jobs' = jobs \ {j}
  BY DEF Rejects, Reject
<1>4. b \in Travelling /\ Known(b)
  BY <1>inv, <1>2 DEF Travelling, TravelInv
<1>5. PICK x : x = Hdr(b).xid
  OBVIOUS
<1>6. x \in 1..(xid_ - 1) /\ x \in Int
  BY <1>4, <1>5 DEF Known
<1>7. PICK h \in ReplyHeader : h = [xid |-> x, ret |-> ret]
  BY <1>6 DEF ReplyHeader
<1>8. PICK m : m = pack_reply_header(marshall, h)
  OBVIOUS
<1>9. m \in Buffers /\ ReplyBody(m) = Reader(m, 6) /\ ReplyHdr(m) = h
  BY <1>8, RefusalBuilt
<1>10. Send(j.conn, m)
  BY <1>2, <1>5, <1>7, <1>8 DEF Rejects, Reject
<1>11. /\ conns' \in Seq(ConnState) /\ Len(conns') = Len(conns)
       /\ Reqs' = Reqs /\ Replies' \subseteq Replies \cup {m}
  BY <1>1, <1>9, <1>10, SendEffect
<1>12. Travelling' \subseteq Travelling
  BY <1>3, <1>11, JobEnds
<1>13. GoodReply(m)'
  <2>1. h.xid = x /\ h.ret = ret /\ ~ (ret >= 0)
    BY <1>7
  <2> QED BY <1>same, <1>6, <1>9, <2>1 DEF GoodReply, Truthful
<1>later. Later
  BY <1>inv, <1>same DEF Later, ClientTypes
<1>kept. RunsKept /\ RequestsKept
  BY <1>same, RunsSame DEF RequestsKept, Requesting
<1>ct. ClientTypes'
  BY <1>inv, <1>same DEF ClientTypes
<1>lt. CallTypes'
  BY <1>inv, <1>same DEF CallTypes
<1>tt. ThreadTypes'
  BY <1>inv, <1>same DEF ThreadTypes
<1>nt. ConnTypes'
  BY <1>inv, <1>same, <1>3, <1>11 DEF ConnTypes
<1>st. ServerTypes'
  BY <1>inv, <1>same, <1>3 DEF ServerTypes
<1>rt. RunTypes'
  BY <1>inv, <1>same DEF RunTypes
<1>ti. ThreadInv'
  BY <1>inv, <1>same, <1>later, ThreadsSame
<1>bi. BindInv'
  BY <1>inv, <1>same, <1>later, <1>kept, BindKept
<1>ri. RunInv'
  BY <1>inv, <1>same, <1>later, RunsInvKept
<1>vi. TravelInv'
  BY <1>inv, <1>later, <1>kept, <1>12, TravelFewer
<1>pi. ReplyInv'
  BY <1>inv, <1>later, <1>kept, <1>11, <1>13, ReplyKept
<1>ci. CallerInv'
  BY <1>inv, <1>same, <1>kept, CallDomain, CallersKept
<1>wi. WindowInv'
  BY <1>inv, <1>same, <1>later, WindowKept
<1>di. NoDanglingCaller'
  BY <1>inv, <1>same, DanglingSame
<1>oi. OnceInv'
  BY <1>inv, <1>same, <1>3, <1>11, OnceJobEnds
<1>qi. QuietAfterCancel'
  BY <1>inv, <1>same DEF QuietAfterCancel
<1>ui. Understood'
  BY <1>inv, <1>same DEF Understood
<1> QED BY <1>ct, <1>lt, <1>tt, <1>nt, <1>st, <1>rt, <1>ti, <1>bi, <1>ri, <1>vi, <1>pi, <1>ci, <1>wi, <1>di, <1>oi, <1>qi, <1>ui DEF IInv, TypeInv

\* A method runs, and its result is sent.
LEMMA AnswersStep ==
  ASSUME IInv, NEW j \in jobs, NEW r, Answers(j, r)
  PROVE  IInv'
<1>inv. /\ ClientTypes /\ CallTypes /\ ThreadTypes /\ ConnTypes /\ ServerTypes /\ RunTypes
        /\ ThreadInv /\ BindInv /\ RunInv /\ TravelInv /\ ReplyInv /\ CallerInv
        /\ WindowInv /\ NoDanglingCaller /\ OnceInv /\ QuietAfterCancel /\ Understood
  BY DEF IInv, TypeInv
<1>same. /\ retrans_' = retrans_ /\ bind_done_' = bind_done_ /\ srv_nonce_' = srv_nonce_ /\ xid_' = xid_ /\ calls_' = calls_
         /\ xid_rep_window_' = xid_rep_window_ /\ chan_' = chan_ /\ destroy_wait_' = destroy_wait_ /\ client' = client /\ signalled' = signalled
         /\ th' = th /\ up' = up /\ nonce_' = nonce_ /\ main' = main /\ broken' = broken
  BY DEF Answers, Starts, clientVars, serverVars
<1>1. j.conn \in DOMAIN conns /\ conns \in Seq(ConnState)
  BY <1>inv, QueueTypes DEF ConnTypes
<1>2. PICK b : b = j.buf
  OBVIOUS
<1>starts. Starts(j, r)
  BY DEF Answers
<1>r. ~ retrans_ /\ OnePlace /\ Known(b) /\ b \in Travelling
  BY <1>2, <1>starts, StartsRun
<1>run. PICK run : FirstRun(Hdr(b).xid, run) /\ RunFor(b, run) /\ run.r = r
  BY <1>2, <1>starts, StartsRun
<1>xid. PICK x \in 1..MaxXid : x = Hdr(b).xid /\ x \in 1..(xid_ - 1) /\ x \in Int
  BY <1>inv, <1>r, RpcAssumption DEF Known, ClientTypes
<1>sends. \A t \in Threads : th[t].pc = "send" => th[t].xid \in 1..MaxXid
  <2>1. \A t \in Threads : th[t].pc = "send" => t \in Requesting
    BY DEF Requesting
  <2>2. \A t \in Requesting : th[t].xid \in 1..MaxXid
    BY <1>inv, CallDomain
  <2> QED BY <2>1, <2>2
<1>3. jobs' = jobs \ {j}
  BY DEF Answers
<1>4. PICK h \in ReplyHeader : h = [xid |-> x, ret |-> 0]
  <2>1. x \in Int /\ 0 \in Int
    BY <1>xid
  <2>2. [xid |-> x, ret |-> 0] \in ReplyHeader
    BY <2>1 DEF ReplyHeader
  <2> QED BY <2>2
<1>5. PICK proc : proc = Hdr(b).proc
  OBVIOUS
<1>6. PICK m : m = pack_reply_header(Put(marshall, <<ResultType(proc)>>, <<r>>), h)
  OBVIOUS
<1>7. run.proc = proc /\ OfType(Alphabet, ResultType(proc), r)
  BY <1>run, <1>5 DEF RunFor
<1>8. /\ m \in Buffers /\ ReplyBody(m) = Reader(m, 6) /\ ReplyHdr(m) = h
      /\ Carries(ReplyBody(m), run)
  BY <1>run, <1>6, <1>7, ReplyBuilt
<1>9. Send(j.conn, m)
  BY <1>2, <1>xid, <1>4, <1>5, <1>6 DEF Answers
<1>10. /\ conns' \in Seq(ConnState) /\ Len(conns') = Len(conns)
       /\ Reqs' = Reqs /\ Replies' \subseteq Replies \cup {m}
  BY <1>1, <1>8, <1>9, SendEffect
<1>11. Travelling' \subseteq Travelling
  BY <1>3, <1>10, JobEnds
<1>12. GoodReply(m)'
  <2>1. h.xid = x /\ h.ret = 0
    BY <1>4
  <2>2. 1 \in DOMAIN runs'[x] /\ runs'[x][1] = run
    BY <1>run, <1>xid DEF FirstRun
  <2>3. Truthful(x, 0, ReplyBody(m))'
    BY <1>8, <2>2 DEF Truthful
  <2> QED BY <1>same, <1>xid, <1>8, <2>1, <2>3 DEF GoodReply, Truthful
<1>later. Later
  BY <1>inv, <1>same DEF Later, ClientTypes
<1>kept. RunsKept /\ RequestsKept
  <2>1. RequestsKept
    BY <1>same DEF RequestsKept, Requesting
  <2> QED BY <1>run, <2>1, FirstRunKeeps
<1>ct. ClientTypes'
  BY <1>inv, <1>same DEF ClientTypes
<1>lt. CallTypes'
  BY <1>inv, <1>same DEF CallTypes
<1>tt. ThreadTypes'
  BY <1>inv, <1>same DEF ThreadTypes
<1>nt. ConnTypes'
  BY <1>inv, <1>same, <1>3, <1>10 DEF ConnTypes
<1>st. ServerTypes'
  BY <1>inv, <1>same, <1>3 DEF ServerTypes
<1>rt. RunTypes'
  BY <1>run DEF FirstRun, RunTypes
<1>ti. ThreadInv'
  BY <1>inv, <1>same, <1>later, <1>r, <1>run, FirstRunThreads
<1>bi. BindInv'
  BY <1>inv, <1>same, <1>later, <1>kept, BindKept
<1>ri. RunInv'
  BY <1>inv, <1>later, <1>r, <1>run, FirstRunInv
<1>vi. TravelInv'
  BY <1>inv, <1>later, <1>kept, <1>11, TravelFewer
<1>pi. ReplyInv'
  BY <1>inv, <1>later, <1>kept, <1>10, <1>12, ReplyKept
<1>ci. CallerInv'
  BY <1>inv, <1>same, <1>kept, CallDomain, CallersKept
<1>wi. WindowInv'
  BY <1>inv, <1>same, <1>later, WindowKept
<1>di. NoDanglingCaller'
  BY <1>inv, <1>same, DanglingSame
<1>oi. OnceInv'
  <2>1. \A e \in Travelling' : Hdr(e).xid # Hdr(b).xid
    BY <1>2, <1>r, <1>3, <1>10, OnlyPlace
  <2>2. \A e \in Travelling' : Known(e)
    BY <1>inv, <1>11 DEF TravelInv
  <2>3. \A e \in Travelling' : Hdr(e).xid \in 1..MaxXid
    BY <1>inv, <2>2, RpcAssumption DEF Known, ClientTypes
  <2>4. \A e \in Travelling' : e \in Travelling /\ Hdr(e).xid # Hdr(b).xid
    BY <1>11, <2>1
  <2>5. jobs' \subseteq jobs /\ \A c \in DOMAIN Reqs' : c \in DOMAIN Reqs /\ Reqs'[c] \in {Reqs[c], <<>>}
    BY <1>3, <1>10
  <2> QED BY <1>same, <1>r, <1>run, <1>sends, <2>3, <2>4, <2>5, FirstRunOnce
<1>qi. QuietAfterCancel'
  BY <1>inv, <1>same DEF QuietAfterCancel
<1>ui. Understood'
  BY <1>inv, <1>same DEF Understood
<1> QED BY <1>ct, <1>lt, <1>tt, <1>nt, <1>st, <1>rt, <1>ti, <1>bi, <1>ri, <1>vi, <1>pi, <1>ci, <1>wi, <1>di, <1>oi, <1>qi, <1>ui DEF IInv, TypeInv

\* A method runs, and the server ends before it has answered.
LEMMA DiesStep ==
  ASSUME IInv, NEW j \in jobs, NEW r, Dies(j, r)
  PROVE  IInv'
<1>inv. /\ ClientTypes /\ CallTypes /\ ThreadTypes /\ ConnTypes /\ ServerTypes /\ RunTypes
        /\ ThreadInv /\ BindInv /\ RunInv /\ TravelInv /\ ReplyInv /\ CallerInv
        /\ WindowInv /\ NoDanglingCaller /\ OnceInv /\ QuietAfterCancel /\ Understood
  BY DEF IInv, TypeInv
<1>same. /\ retrans_' = retrans_ /\ bind_done_' = bind_done_ /\ srv_nonce_' = srv_nonce_ /\ xid_' = xid_ /\ calls_' = calls_
         /\ xid_rep_window_' = xid_rep_window_ /\ chan_' = chan_ /\ destroy_wait_' = destroy_wait_ /\ client' = client /\ signalled' = signalled
         /\ th' = th /\ nonce_' = nonce_ /\ main' = main /\ broken' = broken
  BY DEF Dies, Starts, Exit, clientVars, serverVars
<1>1. j.conn \in DOMAIN conns /\ conns \in Seq(ConnState)
  BY <1>inv, QueueTypes DEF ConnTypes
<1>2. PICK b : b = j.buf
  OBVIOUS
<1>starts. Starts(j, r) /\ Exit
  BY DEF Dies
<1>r. ~ retrans_ /\ OnePlace /\ Known(b) /\ b \in Travelling
  BY <1>2, <1>starts, StartsRun
<1>run. PICK run : FirstRun(Hdr(b).xid, run) /\ RunFor(b, run) /\ run.r = r
  BY <1>2, <1>starts, StartsRun
<1>xid. PICK x \in 1..MaxXid : x = Hdr(b).xid /\ x \in 1..(xid_ - 1) /\ x \in Int
  BY <1>inv, <1>r, RpcAssumption DEF Known, ClientTypes
<1>sends. \A t \in Threads : th[t].pc = "send" => th[t].xid \in 1..MaxXid
  <2>1. \A t \in Threads : th[t].pc = "send" => t \in Requesting
    BY DEF Requesting
  <2>2. \A t \in Requesting : th[t].xid \in 1..MaxXid
    BY <1>inv, CallDomain
  <2> QED BY <2>1, <2>2
<1>3. /\ ConnTypes' /\ jobs' = {} /\ up' = FALSE
      /\ Travelling' = {} /\ Replies' = {} /\ \A c \in DOMAIN Reqs' : Reqs'[c] = <<>>
  <2>1. up' = FALSE
    BY <1>starts DEF Exit
  <2> QED BY <1>inv, <1>same, <1>starts, <2>1, ExitEffect
<1>4. DOMAIN Reqs' = DOMAIN Reqs
  BY <1>starts DEF Reqs, Exit
<1>later. Later
  BY <1>inv, <1>same DEF Later, ClientTypes
<1>kept. RunsKept /\ RequestsKept
  <2>1. RequestsKept
    BY <1>same DEF RequestsKept, Requesting
  <2> QED BY <1>run, <2>1, FirstRunKeeps
<1>ct. ClientTypes'
  BY <1>inv, <1>same DEF ClientTypes
<1>lt. CallTypes'
  BY <1>inv, <1>same DEF CallTypes
<1>tt. ThreadTypes'
  BY <1>inv, <1>same DEF ThreadTypes
<1>nt. ConnTypes'
  BY <1>3
<1>st. ServerTypes'
  BY <1>inv, <1>same, <1>3 DEF ServerTypes
<1>rt. RunTypes'
  BY <1>run DEF FirstRun, RunTypes
<1>ti. ThreadInv'
  BY <1>inv, <1>same, <1>later, <1>r, <1>run, FirstRunThreads
<1>bi. BindInv'
  BY <1>inv, <1>same, <1>later, <1>kept, BindKept
<1>ri. RunInv'
  BY <1>inv, <1>later, <1>r, <1>run, FirstRunInv
<1>vi. TravelInv'
  BY <1>3 DEF TravelInv
<1>pi. ReplyInv'
  BY <1>3 DEF ReplyInv
<1>ci. CallerInv'
  BY <1>inv, <1>same, <1>kept, CallDomain, CallersKept
<1>wi. WindowInv'
  BY <1>inv, <1>same, <1>later, WindowKept
<1>di. NoDanglingCaller'
  BY <1>inv, <1>same, DanglingSame
<1>oi. OnceInv'
  <2>1. \A e \in Travelling' : Hdr(e).xid \in 1..MaxXid /\ e \in Travelling /\ Hdr(e).xid # Hdr(b).xid
    BY <1>3
  <2>2. jobs' \subseteq jobs /\ \A c \in DOMAIN Reqs' : c \in DOMAIN Reqs /\ Reqs'[c] \in {Reqs[c], <<>>}
    BY <1>3, <1>4
  <2> QED BY <1>same, <1>r, <1>run, <1>sends, <2>1, <2>2, FirstRunOnce
<1>qi. QuietAfterCancel'
  BY <1>inv, <1>same DEF QuietAfterCancel
<1>ui. Understood'
  BY <1>inv, <1>same DEF Understood
<1> QED BY <1>ct, <1>lt, <1>tt, <1>nt, <1>st, <1>rt, <1>ti, <1>bi, <1>ri, <1>vi, <1>pi, <1>ci, <1>wi, <1>di, <1>oi, <1>qi, <1>ui DEF IInv, TypeInv

\* Nothing happens.
LEMMA StutterStep ==
  ASSUME IInv, UNCHANGED vars
  PROVE  IInv'
<1>inv. /\ ClientTypes /\ CallTypes /\ ThreadTypes /\ ConnTypes /\ ServerTypes /\ RunTypes
        /\ ThreadInv /\ BindInv /\ RunInv /\ TravelInv /\ ReplyInv /\ CallerInv
        /\ WindowInv /\ NoDanglingCaller /\ OnceInv /\ QuietAfterCancel /\ Understood
  BY DEF IInv, TypeInv
<1>same. /\ retrans_' = retrans_ /\ bind_done_' = bind_done_ /\ srv_nonce_' = srv_nonce_ /\ xid_' = xid_ /\ calls_' = calls_
         /\ xid_rep_window_' = xid_rep_window_ /\ chan_' = chan_ /\ destroy_wait_' = destroy_wait_ /\ client' = client /\ signalled' = signalled
         /\ th' = th /\ conns' = conns /\ up' = up /\ nonce_' = nonce_ /\ main' = main
         /\ jobs' = jobs /\ runs' = runs /\ broken' = broken
  BY DEF vars, clientVars, serverVars
<1>later. Later
  BY <1>inv, <1>same DEF Later, ClientTypes
<1>kept. RunsKept /\ RequestsKept
  BY <1>same, RunsSame DEF RequestsKept, Requesting
<1>views. Reqs' = Reqs /\ Reps' = Reps /\ Travelling' = Travelling /\ Replies' = Replies
  BY <1>same DEF Reqs, Reps, Travelling, Replies
<1>ct. ClientTypes'
  BY <1>inv, <1>same DEF ClientTypes
<1>lt. CallTypes'
  BY <1>inv, <1>same DEF CallTypes
<1>tt. ThreadTypes'
  BY <1>inv, <1>same DEF ThreadTypes
<1>nt. ConnTypes'
  BY <1>inv, <1>same DEF ConnTypes
<1>st. ServerTypes'
  BY <1>inv, <1>same DEF ServerTypes
<1>rt. RunTypes'
  BY <1>inv, <1>same DEF RunTypes
<1>ti. ThreadInv'
  BY <1>inv, <1>same, <1>later, ThreadsSame
<1>bi. BindInv'
  BY <1>inv, <1>same, <1>later, <1>kept, BindKept
<1>ri. RunInv'
  BY <1>inv, <1>same, <1>later, RunsInvKept
<1>vi. TravelInv'
  BY <1>inv, <1>later, <1>kept, <1>views, TravelSame
<1>pi. ReplyInv'
  BY <1>inv, <1>later, <1>kept, <1>views, ReplySame
<1>ci. CallerInv'
  BY <1>inv, <1>same, <1>kept, CallDomain, CallersKept
<1>wi. WindowInv'
  BY <1>inv, <1>same, <1>later, WindowKept
<1>di. NoDanglingCaller'
  BY <1>inv, <1>same, DanglingSame
<1>oi. OnceInv'
  BY <1>inv, <1>same, <1>views, OnceSame
<1>qi. QuietAfterCancel'
  BY <1>inv, <1>same DEF QuietAfterCancel
<1>ui. Understood'
  BY <1>inv, <1>same DEF Understood
<1> QED BY <1>ct, <1>lt, <1>tt, <1>nt, <1>st, <1>rt, <1>ti, <1>bi, <1>ri, <1>vi, <1>pi, <1>ci, <1>wi, <1>di, <1>oi, <1>qi, <1>ui DEF IInv, TypeInv

\* What dispatch makes of a request: it can read it, for it was made by call1.
LEMMA DispatchStep ==
  ASSUME IInv, NEW j \in jobs, dispatch(j)
  PROVE  IInv'
<1>inv. TravelInv /\ TypeInv /\ Understood
  BY DEF IInv
<1>1. PICK b : b = j.buf
  OBVIOUS
<1>2. b \in Travelling
  BY <1>1 DEF Travelling
<1>3. Known(b)
  BY <1>inv, <1>2 DEF TravelInv
<1>4. PICK h : h = Hdr(b)
  OBVIOUS
<1>5. PICK u : u = Body(b)
  OBVIOUS
<1>6. u.ok /\ okdone(Take(u, ArgTypes(h.proc)).u) /\ Args(b) = Take(u, ArgTypes(h.proc)).v
  BY <1>3, <1>4, <1>5 DEF Known, GoodRequest, Args
<1>7. /\ up /\ UNCHANGED <<retrans_, clientVars, chan_, th>>
      /\ CASE ~ u.ok        -> jobs' = jobs \ {j} /\ broken' = TRUE
                               /\ UNCHANGED <<conns, up, nonce_, main, runs>>
           [] oldsrv(h)       -> Reject(j, h.xid, oldsrv_failure)
           [] ~ known(h.proc) -> Exit /\ UNCHANGED <<runs, broken>>
           [] h.clt_nonce # 0 /\ checkduplicate_and_update(h) = "FORGOTTEN"
                              -> Reject(j, h.xid, atmostonce_failure)
           [] OTHER           -> Serve(j, h, u)
  BY <1>1, <1>4, <1>5 DEF dispatch, Hdr, Body
<1>8. CASE oldsrv(h) /\ Reject(j, h.xid, oldsrv_failure)
  <2>1. PICK i \in Int : i = oldsrv_failure /\ i < 0
    BY DEF oldsrv_failure
  <2>2. Rejects(j, i)
    BY <1>1, <1>4, <1>7, <1>8, <2>1 DEF Rejects
  <2> QED BY <2>1, <2>2, RejectStep
<1>9. CASE Exit /\ UNCHANGED <<runs, broken>>
  <2>1. Crash
    BY <1>7, <1>9 DEF Crash
  <2> QED BY <2>1, CrashStep
<1>10. CASE Reject(j, h.xid, atmostonce_failure)
  <2>1. PICK i \in Int : i = atmostonce_failure /\ i < 0
    BY DEF atmostonce_failure
  <2>2. Rejects(j, i)
    BY <1>1, <1>4, <1>7, <1>10, <2>1 DEF Rejects
  <2> QED BY <2>1, <2>2, RejectStep
<1>11. CASE ~ oldsrv(h) /\ h.clt_nonce = 0 /\ Serve(j, h, u)
  <2>1. PICK a : a = Take(u, ArgTypes(h.proc)).v
    OBVIOUS
  <2>2. PICK r \in Results(h.proc, a) :
          /\ runs' = [runs EXCEPT ![h.xid] = Append(@, [srv |-> nonce_, proc |-> h.proc, args |-> a, r |-> r])]
          /\ UNCHANGED broken
          /\ \/ Exit
             \/ /\ jobs' = jobs \ {j}
                /\ Send(j.conn, pack_reply_header(Put(marshall, <<ResultType(h.proc)>>, <<r>>),
                                                  [xid |-> h.xid, ret |-> 0]))
                /\ UNCHANGED <<up, nonce_, main>>
    BY <1>6, <1>11, <2>1 DEF Serve
  <2>3. Starts(j, r)
    BY <1>1, <1>4, <1>6, <1>7, <1>11, <2>1, <2>2 DEF Starts
  <2>4. Dies(j, r) \/ Answers(j, r)
    BY <1>1, <1>4, <2>2, <2>3 DEF Dies, Answers
  <2> QED BY <2>4, DiesStep, AnswersStep
<1> QED BY <1>6, <1>7, <1>8, <1>9, <1>10, <1>11 DEF checkduplicate_and_update

\* A step of the client's process keeps the invariant.
LEMMA ClientStep ==
  ASSUME IInv, ClientNext
  PROVE  IInv'
<1>1. ASSUME NEW t \in Threads, NEW q \in Requests[t], call(t, q[1], q[2]) PROVE IInv'
  <2>1. CASE refusal(q[1]) # 0
    BY <1>1, <2>1, CallRefusedStep
  <2>2. CASE refusal(q[1]) = 0
    BY <1>1, <2>2, CallStep
  <2> QED BY <2>1, <2>2
<1>2. ASSUME NEW t \in Threads, Transmit(t) PROVE IInv'
  BY <1>2, TransmitStep, TransmitOpenStep, TransmitLostStep
<1>3. ASSUME NEW t \in Threads, Retransmit(t) \/ Return(t) \/ Bound(t) PROVE IInv'
  BY <1>3, RetransmitStep, ReturnStep, BoundStep
<1>4. ASSUME NEW c \in DOMAIN conns, got_pdu(c) \/ Die(c) PROVE IInv'
  BY <1>4, GotPduStep, DieStep
<1>5. ASSUME cancel \/ CancelWakes PROVE IInv'
  BY <1>5, CancelStep, CancelWakesStep
<1> QED BY <1>1, <1>2, <1>3, <1>4, <1>5 DEF ClientNext

\* A step of the server's process keeps the invariant.
LEMMA ServerStep ==
  ASSUME IInv, ServerNext
  PROVE  IInv'
BY BootStep, RegStep, CrashStep, SrvGotPduStep, DispatchStep DEF ServerNext

-----------------------------------------------------------------------------
(* The theorems.                                                           *)

\* The invariant holds when the client has just been made.
LEMMA InitInv ==
  ASSUME Init
  PROVE  IInv
<1>1. /\ retrans_ \in BOOLEAN /\ bind_done_ = FALSE /\ srv_nonce_ = 0 /\ xid_ = 1
      /\ calls_ = <<>> /\ xid_rep_window_ = {0} /\ chan_ = 0 /\ destroy_wait_ = FALSE
      /\ client = "up" /\ signalled = FALSE /\ th = [t \in Threads |-> Idle]
      /\ conns = <<>> /\ up = FALSE /\ nonce_ = 0 /\ main = 0 /\ jobs = {}
      /\ runs = [x \in 1..MaxXid |-> <<>>] /\ broken = FALSE
  BY DEF Init
<1>2. DOMAIN <<>> = {}
  OBVIOUS
<1>3. ClientTypes
  <2>1. /\ bind_done_ \in BOOLEAN /\ destroy_wait_ \in BOOLEAN /\ signalled \in BOOLEAN
        /\ broken \in BOOLEAN /\ retrans_ \in BOOLEAN
    BY <1>1, Zenon
  <2>2. 0 \in 0..MaxBoot /\ 1 \in 1..(MaxXid + 1)
    BY RpcAssumption
  <2>3. srv_nonce_ \in 0..MaxBoot /\ xid_ \in 1..(MaxXid + 1)
    BY <1>1, <2>2, Zenon
  <2>4. client \in {"up", "cancelling", "cancelled", "aborted"}
    BY <1>1, Zenon
  <2> QED BY <2>1, <2>3, <2>4 DEF ClientTypes
<1>4. CallTypes
  BY <1>1, <1>2 DEF CallTypes
<1>5. ThreadTypes
  BY <1>1, IdleType DEF ThreadTypes
<1>6. ConnTypes
  <2>1. conns \in Seq(ConnState) /\ Len(conns) = 0
    BY <1>1
  <2>2. \A t \in Threads : th[t].ch = 0
    BY <1>1, IdleType
  <2> QED BY <1>1, <2>1, <2>2, RpcAssumption DEF ConnTypes
<1>7. ServerTypes
  <2>1. 0 \in 0..MaxBoot /\ 0 \in 0..Len(Registered)
    BY RpcAssumption DEF Registered
  <2>2. nonce_ \in 0..MaxBoot /\ main \in 0..Len(Registered) /\ up \in BOOLEAN /\ ~ up
    BY <1>1, <2>1, Zenon
  <2>3. jobs \subseteq Job
    BY <1>1
  <2> QED BY <2>2, <2>3 DEF ServerTypes
<1>8. RunTypes
  BY <1>1 DEF RunTypes
<1>9. Requesting = {} /\ \A t \in Threads : th[t].pc = "idle" /\ ~ (th[t].ret >= 0)
  BY <1>1 DEF Requesting, Idle, timeout_failure
<1>10. ThreadInv /\ BindInv
  BY <1>1, <1>9 DEF ThreadInv, ThreadOK, BindInv
<1>11. \A x \in 1..MaxXid : runs[x] = <<>>
  BY <1>1
<1>12. RunInv
  BY <1>2, <1>11 DEF RunInv
<1>13. DOMAIN Reqs = {} /\ DOMAIN Reps = {} /\ Travelling = {} /\ Replies = {}
  BY <1>1, <1>2 DEF Reqs, Reps, Travelling, Replies
<1>14. TravelInv /\ ReplyInv
  BY <1>13 DEF TravelInv, ReplyInv
<1>15. CallerInv /\ NoDanglingCaller
  BY <1>1, <1>2, <1>9 DEF CallerInv, NoDanglingCaller
<1>16. WindowInv
  BY <1>1, <1>2 DEF WindowInv
<1>17. OnceInv
  <2>1. \A x \in 1..MaxXid : Len(runs[x]) <= 1
    BY <1>11
  <2> QED BY <1>1, <1>9, <1>11, <1>13, <2>1 DEF OnceInv, OnePlace
<1>18. QuietAfterCancel /\ Understood
  BY <1>1 DEF QuietAfterCancel, Understood
<1> QED BY <1>3, <1>4, <1>5, <1>6, <1>7, <1>8, <1>10, <1>12, <1>14, <1>15, <1>16, <1>17, <1>18 DEF IInv, TypeInv

\* The inductive invariant: it holds in every state of every behaviour of the
\* client and the server.
THEOREM Inductive == Spec => []IInv
<1>1. Init => IInv
  BY InitInv
<1>2. IInv /\ [Next]_vars => IInv'
  BY ClientStep, ServerStep, StutterStep DEF Next
<1> QED BY <1>1, <1>2, PTL DEF Spec

\* The variables keep their types: xids, connections and starts of the server
\* stay within what was given out.
THEOREM TypeCorrect == Spec => []RpcTypeOK
<1>1. IInv => RpcTypeOK
  <2>1. SUFFICES ASSUME IInv PROVE RpcTypeOK
    OBVIOUS
  <2>2. ClientTypes /\ ThreadTypes /\ ConnTypes /\ ServerTypes /\ ThreadInv /\ NoDanglingCaller /\ WindowInv
    BY <2>1 DEF IInv, TypeInv
  <2>3. DOMAIN calls_ \subseteq 1..MaxXid
    BY <2>2, CallDomain
  <2>4. xid_rep_window_ # {} /\ xid_rep_window_ \subseteq 0..MaxXid
    <3>1. \A x \in 0..(xid_ - 1) : x \in 0..MaxXid
      BY <2>2, RpcAssumption DEF ClientTypes
    <3> QED BY <2>2, <3>1 DEF WindowInv
  <2>5. \A t \in Threads : th[t].pc \in {"idle", "send", "wait", "bind"} /\ th[t].xid \in 0..MaxXid
    <3>1. \A s \in ThreadState : s.pc \in {"idle", "send", "wait", "bind"} /\ s.xid \in 0..MaxXid
      BY DEF ThreadState
    <3> QED BY <2>2, <3>1 DEF ThreadTypes
  <2>6. DOMAIN conns = 1..Len(conns)
    BY <2>2 DEF ConnTypes
  <2> QED BY <2>2, <2>3, <2>4, <2>5, <2>6 DEF ClientTypes, ConnTypes, ServerTypes, RpcTypeOK
<1> QED BY <1>1, Inductive, PTL

\* No call's method runs twice, whatever connections die, servers restart and
\* requests are sent again.
THEOREM RunsOnce == Spec => []AtMostOnce
<1>1. IInv => AtMostOnce
  <2>1. SUFFICES ASSUME IInv, NEW x \in DOMAIN runs PROVE Len(runs[x]) <= 1
    BY DEF AtMostOnce
  <2>2. x \in 1..MaxXid
    BY <2>1 DEF IInv, TypeInv, RunTypes
  <2>3. OnceInv /\ retrans_ \in BOOLEAN
    BY <2>1 DEF IInv, TypeInv, ClientTypes
  <2>4. CASE retrans_
    <3>1. runs[x] = <<>>
      BY <2>2, <2>3, <2>4 DEF OnceInv
    <3> QED BY <3>1
  <2>5. CASE ~ retrans_
    BY <2>2, <2>3, <2>5 DEF OnceInv, OnePlace
  <2> QED BY <2>3, <2>4, <2>5
<1> QED BY <1>1, Inductive, PTL

\* A call of rpcc::call that succeeds has the result of its own method, run with
\* its own arguments.
THEOREM AnswersItsCall == Spec => []OwnAnswer
<1>1. IInv => OwnAnswer
  BY DEF IInv, ThreadInv, ThreadOK, Answered, OwnAnswer
<1> QED BY <1>1, Inductive, PTL

\* A method runs only at a start of the server that an earlier bind of this
\* client reached.
THEOREM BoundFirst == Spec => []RunsAtItsServer
<1>1. IInv => RunsAtItsServer
  <2>1. SUFFICES ASSUME IInv, NEW x \in DOMAIN runs, NEW k \in DOMAIN runs[x], runs[x][k].proc # bind
                 PROVE  \E y \in 1..(x - 1) : \E i \in DOMAIN runs[y] :
                          runs[y][i].proc = bind /\ runs[y][i].srv = runs[x][k].srv
    BY DEF RunsAtItsServer
  <2>2. x \in 1..MaxXid
    BY <2>1 DEF IInv, TypeInv, RunTypes
  <2>3. BoundBefore(runs[x][k].srv, x)
    BY <2>1, <2>2 DEF IInv, RunInv
  <2> QED BY <2>3 DEF BoundBefore
<1> QED BY <1>1, Inductive, PTL

\* No unmarshalling ever fails, at the client or the server: what one side packs
\* the other reads to its end.
THEOREM MessagesUnderstood == Spec => []Understood
<1>1. IInv => Understood
  BY DEF IInv
<1> QED BY <1>1, Inductive, PTL

\* calls_ has the callers of the threads in call1 and no others, so got_pdu and
\* cancel never write to the stack of a call that has returned.
THEOREM CallersAlive == Spec => []NoDanglingCaller
<1>1. IInv => NoDanglingCaller
  BY DEF IInv
<1> QED BY <1>1, Inductive, PTL

\* What a request acknowledges is over: the front of the window stays below every
\* xid whose caller still waits.
THEOREM AcksAreSafe == Spec => []AckedIsOver
<1>1. IInv => AckedIsOver
  BY DEF IInv, WindowInv, AckedIsOver
<1> QED BY <1>1, Inductive, PTL

\* While cancel waits all callers have been told, and when it returns from the
\* wait there are none.
THEOREM CancelIsQuiet == Spec => []QuietAfterCancel
<1>1. IInv => QuietAfterCancel
  BY DEF IInv
<1> QED BY <1>1, Inductive, PTL
==============================================================================
