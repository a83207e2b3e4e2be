-------------------------------- MODULE Rpc --------------------------------
(***************************************************************************)
(* One rpc client (rpcc) that several threads share, the connections it    *)
(* opens, and the extent server's process (extent_smain.cc) with its rpc   *)
(* endpoint (rpcs).                                                        *)
(*                                                                         *)
(* rpc.h has the state of both sides, the typed calls and the handlers;    *)
(* call1, bind, cancel, got_pdu and dispatch are in librpc.a only, and are *)
(* modelled as that archive has them.  Its checkduplicate_and_update keeps *)
(* no window yet: it calls every numbered request FORGOTTEN.  So a client  *)
(* that sends again (retrans_) is never served, and one that is served     *)
(* never sends again.                                                      *)
(*                                                                         *)
(* Each step runs under one hold of rpcc's m_, or is private to a thread.  *)
(* What a method computes is the matter of InodeManager; here it is        *)
(* something the caller can tell apart from the answer to another call.    *)
(***************************************************************************)
EXTENDS Marshall, FiniteSetsExt

CONSTANTS Threads,   \* the threads that call through the client
          Requests,  \* what each thread asks for: a set of <<proc, arguments>>
          MaxXid,    \* bound: calls that get an xid
          MaxConn,   \* bound: connections
          MaxBoot    \* bound: starts of the server

ASSUME RpcAssumption ==
  /\ MaxXid \in Nat /\ MaxConn \in Nat /\ MaxBoot \in Nat
  /\ DOMAIN Requests = Threads

\* rpc_const
bind               == 1
timeout_failure    == -1
atmostonce_failure == -4
oldsrv_failure     == -5
bind_failure       == -6
cancel_failure     == -7

\* What main registers, in its order, and the types of the methods.
Registered == <<get, getattr, put, remove>>
ArgTypes(proc) == CASE proc = bind -> <<"int">>
                    [] proc = put  -> <<"ull", "string">>
                    [] OTHER       -> <<"ull">>
ResultType(proc) == CASE proc = get     -> "string"
                      [] proc = getattr -> "attr"
                      [] OTHER          -> "int"

\* The arguments have the types of the methods, or the calls would not compile.
ull == 0..(Word * Word - 1)
ASSUME RequestsAssumption ==
  \A t \in Threads : \A q \in Requests[t] :
    \/ q = <<bind, <<0>>>>
    \/ \E proc \in {get, getattr, remove}, eid \in ull : q = <<proc, <<eid>>>>
    \/ \E eid \in ull : /\ q = <<put, <<eid, q[2][2]>>>>
                        /\ q[2][2] \in Seq(ToSet(q[2][2]))

VARIABLES
  \* rpcc
  retrans_,         \* calls are sent again when their connection is dead
  bind_done_, srv_nonce_,
  xid_,             \* the next xid
  calls_,           \* the callers that wait, by xid
  xid_rep_window_,  \* the xids that are over: the list's front and what follows a gap
  chan_,            \* the connection in use, or 0
  destroy_wait_,
  client,           \* "up", "cancelling", "cancelled" or "aborted"
  signalled,        \* destroy_wait_c_ was signalled
  th,               \* the threads
  \* the network
  conns,            \* each connection, and what is on its way both ways
  \* rpcs
  up,               \* the process runs
  nonce_,           \* of this run of the process
  main,             \* how many procedures main has registered
  jobs,             \* the requests the pool has
  \* history
  runs,             \* by xid, the runs of methods for it
  broken            \* a message could not be taken apart

clientVars == <<bind_done_, srv_nonce_, xid_, calls_, xid_rep_window_, destroy_wait_, client, signalled>>
serverVars == <<up, nonce_, main, jobs, runs>>
vars == <<retrans_, clientVars, chan_, th, conns, serverVars, broken>>

NoResult == <<>>
Idle     == [pc |-> "idle", proc |-> 0, args |-> <<>>, xid |-> 0, req |-> <<>>,
             ch |-> 0, ret |-> timeout_failure, r |-> NoResult]
Dead     == [dead |-> TRUE, req |-> <<>>, rep |-> <<>>]
Caller   == [done |-> FALSE, intret |-> 0, un |-> unmarshall(<<>>)]

Init ==
  /\ retrans_ \in BOOLEAN
  /\ bind_done_ = FALSE /\ srv_nonce_ = 0
  /\ xid_ = 1
  /\ calls_ = <<>>
  /\ xid_rep_window_ = {0}
  /\ chan_ = 0
  /\ destroy_wait_ = FALSE
  /\ client = "up"
  /\ signalled = FALSE
  /\ th = [t \in Threads |-> Idle]
  /\ conns = <<>>
  /\ up = FALSE /\ nonce_ = 0 /\ main = 0 /\ jobs = {}
  /\ runs = [x \in 1..MaxXid |-> <<>>]
  /\ broken = FALSE

-----------------------------------------------------------------------------
(* The client.                                                             *)

\* A client that does not send again has no number of its own.
clt_nonce_ == IF retrans_ THEN 1 ELSE 0

\* Mutant: the highest xid that is over, whatever is missing below it.
update_xid_rep_max(xid) == {Max(xid_rep_window_ \cup {xid})}

\* Mutant: pops while the list has an element, not while a next one follows.
update_xid_rep_empties(xid) ==
  LET w == xid_rep_window_ \cup {xid}
  IN  {x \in w : \E y \in Min(w)..x : y \notin w}

\* Inserts xid and drops the front as long as the next xid follows it.
update_xid_rep(xid) ==
  LET w == xid_rep_window_ \cup {xid}
  IN  IF xid <= Min(xid_rep_window_) THEN xid_rep_window_
      ELSE {x \in w : \E y \in Min(w)..(x + 1) : y \notin w}

\* call1 before it takes an xid.
refusal_none_cancelled(proc) == IF (proc = bind) = bind_done_ THEN bind_failure ELSE 0

refusal(proc) == CASE (proc = bind) = bind_done_ -> bind_failure
                   [] destroy_wait_              -> cancel_failure
                   [] OTHER                      -> 0

call(t, proc, args) ==
  /\ th[t].pc = "idle"
  /\ UNCHANGED <<retrans_, bind_done_, srv_nonce_, xid_rep_window_, chan_, destroy_wait_,
                 client, signalled, conns, serverVars, broken>>
  /\ \/ /\ refusal(proc) # 0
        /\ th' = [th EXCEPT ![t] = [Idle EXCEPT !.ret = refusal(proc)]]
        /\ UNCHANGED <<xid_, calls_>>
     \/ /\ refusal(proc) = 0
        /\ xid_ <= MaxXid
        /\ xid_' = xid_ + 1
        /\ calls_' = [x \in DOMAIN calls_ \cup {xid_} |-> IF x = xid_ THEN Caller ELSE calls_[x]]
        /\ th' = [th EXCEPT ![t] =
                   [Idle EXCEPT !.pc = "send", !.proc = proc, !.args = args, !.xid = xid_,
                      !.req = pack_req_header(Put(marshall, ArgTypes(proc), args),
                                [xid |-> xid_, proc |-> proc, clt_nonce |-> clt_nonce_,
                                 srv_nonce |-> srv_nonce_, xid_rep |-> Min(xid_rep_window_)])]]

\* A connection that is there, and not known to be dead.
isalive(ch) == ch # 0 /\ ~ conns[ch].dead

\* get_refconn and the one send of a round of call1.  A new connection may be
\* refused; the thread then keeps its old one, on which nothing is sent.
Transmit(t) ==
  /\ th[t].pc = "send"
  /\ UNCHANGED <<retrans_, clientVars, serverVars, broken>>
  /\ \/ /\ isalive(chan_)
        /\ th' = [th EXCEPT ![t].pc = "wait", ![t].ch = chan_]
        /\ conns' = [conns EXCEPT ![chan_].req = Append(@, th[t].req)]
        /\ UNCHANGED chan_
     \/ /\ ~ isalive(chan_)
        /\ up /\ Len(conns) < MaxConn
        /\ conns' = Append(conns, [dead |-> FALSE, req |-> <<th[t].req>>, rep |-> <<>>])
        /\ chan_' = Len(conns')
        /\ th' = [th EXCEPT ![t].pc = "wait", ![t].ch = chan_']
     \/ /\ ~ isalive(chan_)
        /\ chan_' = 0
        /\ th' = [th EXCEPT ![t].pc = "wait"]
        /\ UNCHANGED conns

\* A round timed out, with the connection dead.
Retransmit(t) ==
  /\ th[t].pc = "wait"
  /\ ~ calls_[th[t].xid].done
  /\ retrans_
  /\ ~ isalive(th[t].ch)
  /\ th' = [th EXCEPT ![t].pc = "send"]
  /\ UNCHANGED <<retrans_, clientVars, chan_, conns, serverVars, broken>>

\* Mutant: a call that timed out is left among the callers.
erase_done(xid) ==
  IF calls_[xid].done THEN [x \in DOMAIN calls_ \ {xid} |-> calls_[x]] ELSE calls_

erase(xid) == [x \in DOMAIN calls_ \ {xid} |-> calls_[x]]

\* Mutant: cancel is told only when a call has timed out.
tells_cancel_late(ca) == destroy_wait_ /\ ~ ca.done

tells_cancel(ca) == destroy_wait_

\* The end of call1, because the call is done or its last deadline has passed,
\* and call_m: an answer that has another type ends the process.
Return(t) ==
  LET xid == th[t].xid
      ca  == calls_[xid]
      ret == IF ca.done THEN ca.intret ELSE timeout_failure
      x   == Take(ca.un, <<ResultType(th[t].proc)>>)
      bad == ret >= 0 /\ ~ okdone(x.u)
  IN  /\ th[t].pc = "wait"
      /\ calls_' = erase(xid)
      /\ xid_rep_window_' = update_xid_rep(xid)
      /\ signalled' = (signalled \/ tells_cancel(ca))
      /\ client' = IF bad THEN "aborted" ELSE client
      /\ broken' = (broken \/ bad)
      /\ th' = [th EXCEPT ![t] =
                 IF ret < 0 THEN [Idle EXCEPT !.ret = ret]
                 ELSE [@ EXCEPT !.pc = IF th[t].proc = bind THEN "bind" ELSE "idle",
                                !.req = <<>>, !.ch = 0, !.ret = ret, !.r = x.v]]
      /\ UNCHANGED <<retrans_, bind_done_, srv_nonce_, xid_, chan_, destroy_wait_, conns, serverVars>>

\* The end of rpcc::bind, under m_ again.
Bound(t) ==
  /\ th[t].pc = "bind"
  /\ bind_done_' = TRUE
  /\ srv_nonce_' = th[t].r[1]
  /\ th' = [th EXCEPT ![t].pc = "idle"]
  /\ UNCHANGED <<retrans_, xid_, calls_, xid_rep_window_, chan_, destroy_wait_, client,
                 signalled, conns, serverVars, broken>>

\* Mutant: a reply goes to the call that waits longest.
addressee_first(h) == IF calls_ = <<>> THEN h.xid ELSE Min(DOMAIN calls_)

addressee(h) == h.xid

\* rpcc::got_pdu.  A reply to a call that is over counts as seen and is dropped.
got_pdu(c) ==
  LET x == unpack_reply_header(unmarshall(Head(conns[c].rep)))
      a == addressee(x.v)
  IN  /\ conns[c].rep # <<>>
      /\ conns' = [conns EXCEPT ![c].rep = Tail(@)]
      /\ broken' = (broken \/ ~ x.u.ok)
      /\ xid_rep_window_' = IF x.u.ok THEN update_xid_rep(x.v.xid) ELSE xid_rep_window_
      /\ calls_' = IF x.u.ok /\ a \in DOMAIN calls_ /\ ~ calls_[a].done
                   THEN [calls_ EXCEPT ![a] = [done |-> TRUE, intret |-> x.v.ret, un |-> x.u]]
                   ELSE calls_
      /\ UNCHANGED <<retrans_, bind_done_, srv_nonce_, xid_, chan_, destroy_wait_, client,
                     signalled, th, serverVars>>

\* cancel: every call that waits is done, answered or not; then wait for all to
\* leave.
cancel ==
  /\ client = "up"
  /\ calls_' = [x \in DOMAIN calls_ |-> [calls_[x] EXCEPT !.done = TRUE, !.intret = cancel_failure]]
  /\ destroy_wait_' = (calls_ # <<>>)
  /\ client' = IF calls_ = <<>> THEN "cancelled" ELSE "cancelling"
  /\ UNCHANGED <<retrans_, bind_done_, srv_nonce_, xid_, xid_rep_window_, chan_, signalled, th,
                 conns, serverVars, broken>>

CancelWakes ==
  /\ client = "cancelling" /\ signalled
  /\ signalled' = FALSE
  /\ client' = IF calls_ = <<>> THEN "cancelled" ELSE "cancelling"
  /\ UNCHANGED <<retrans_, bind_done_, srv_nonce_, xid_, calls_, xid_rep_window_, chan_,
                 destroy_wait_, th, conns, serverVars, broken>>

-----------------------------------------------------------------------------
(* The network.  A connection dies with all that is on its way.  The client *)
(* notices at once: a request it would send before it notices is lost like  *)
(* one it sent before.  For the server see Serve.                           *)

Die(c) ==
  /\ ~ conns[c].dead
  /\ conns' = [conns EXCEPT ![c] = Dead]
  /\ UNCHANGED <<retrans_, clientVars, chan_, th, serverVars, broken>>

-----------------------------------------------------------------------------
(* The server.                                                             *)

\* The constructor of rpcs: a new nonce, bind registered, and listening.
Boot ==
  /\ ~ up /\ nonce_ < MaxBoot
  /\ up' = TRUE
  /\ nonce_' = nonce_ + 1
  /\ main' = 0
  /\ UNCHANGED <<retrans_, clientVars, chan_, th, conns, jobs, runs, broken>>

\* main goes on to register the procedures, one by one.
reg ==
  /\ up /\ main < Len(Registered)
  /\ main' = main + 1
  /\ UNCHANGED <<retrans_, clientVars, chan_, th, conns, up, nonce_, jobs, runs, broken>>

\* The process ends, killed or by itself: its connections and jobs go with it.
Exit ==
  /\ up' = FALSE
  /\ jobs' = {}
  /\ conns' = [c \in DOMAIN conns |-> Dead]
  /\ UNCHANGED <<nonce_, main>>

Crash ==
  /\ up
  /\ Exit
  /\ UNCHANGED <<retrans_, clientVars, chan_, th, runs, broken>>

\* rpcs::got_pdu: the request becomes a job of the pool.  (A pool that refuses
\* it leaves it with the connection.)
srv_got_pdu(c) ==
  /\ up
  /\ conns[c].req # <<>>
  /\ jobs' = jobs \cup {[conn |-> c, buf |-> Head(conns[c].req)]}
  /\ conns' = [conns EXCEPT ![c].req = Tail(@)]
  /\ UNCHANGED <<retrans_, clientVars, chan_, th, up, nonce_, main, runs, broken>>

\* Mutant: the request of any client is taken.
oldsrv_never(h) == FALSE

\* Is the request for an earlier run of the server?
oldsrv(h) == h.srv_nonce # 0 /\ h.srv_nonce # nonce_

\* Mutant: no request is a duplicate.
checkduplicate_new(h) == "NEW"

\* The archive's body, for a client that has a nonce.
checkduplicate_and_update(h) == "FORGOTTEN"

known(proc) == proc = bind \/ \E k \in 1..main : Registered[k] = proc

\* What a method may leave in r.  put and remove do not set it: r is what was
\* on the stack of fn.
Results(proc, args) ==
  CASE proc = bind    -> {nonce_}
    [] proc = get     -> {<<args[1]>>}
    [] proc = getattr -> {[type |-> T_FILE, atime |-> 0, mtime |-> 0, ctime |-> 0, size |-> args[1]]}
    [] OTHER          -> {0, 1}

\* Sends a reply, if the client still listens.
Send(c, m) ==
  conns' = IF conns[c].dead THEN conns ELSE [conns EXCEPT ![c].rep = Append(@, m)]

\* Ends the job with a reply that has only a header.
Reject(j, xid, ret) ==
  /\ jobs' = jobs \ {j}
  /\ Send(j.conn, pack_reply_header(marshall, [xid |-> xid, ret |-> ret]))
  /\ UNCHANGED <<up, nonce_, main, runs, broken>>

\* A new request: h1::fn unmarshalls the arguments, calls the method and
\* marshalls its result.  Arguments of other types end the process.  So does a
\* reply when the server has noticed that the connection is dead: dispatch looks
\* for the client's latest connection, and has none for a client without nonce.
Serve(j, h, u) ==
  LET x == Take(u, ArgTypes(h.proc))
  IN  IF ~ okdone(x.u)
      THEN Exit /\ broken' = TRUE /\ UNCHANGED runs
      ELSE \E r \in Results(h.proc, x.v) :
             /\ runs' = [runs EXCEPT ![h.xid] =
                          Append(@, [srv |-> nonce_, proc |-> h.proc, args |-> x.v, r |-> r])]
             /\ UNCHANGED broken
             /\ \/ conns[j.conn].dead /\ h.clt_nonce = 0 /\ Exit
                \/ /\ jobs' = jobs \ {j}
                     /\ Send(j.conn, pack_reply_header(Put(marshall, <<ResultType(h.proc)>>, <<r>>),
                                                       [xid |-> h.xid, ret |-> 0]))
                     /\ UNCHANGED <<up, nonce_, main>>

\* A request whose header is cut off is dropped; an unknown procedure fails a
\* VERIFY, which ends the process.
dispatch(j) ==
  LET x == unpack_req_header(unmarshall(j.buf))
      h == x.v
  IN  /\ up
      /\ CASE ~ x.u.ok        -> jobs' = jobs \ {j} /\ broken' = TRUE
                                 /\ UNCHANGED <<conns, up, nonce_, main, runs>>
           [] oldsrv(h)       -> Reject(j, h.xid, oldsrv_failure)
           [] ~ known(h.proc) -> Exit /\ UNCHANGED <<runs, broken>>
           [] h.clt_nonce # 0 /\ checkduplicate_and_update(h) = "FORGOTTEN"
                              -> Reject(j, h.xid, atmostonce_failure)
           [] OTHER           -> Serve(j, h, x.u)
      /\ UNCHANGED <<retrans_, clientVars, chan_, th>>

-----------------------------------------------------------------------------

\* The steps of the client's process.
ClientNext ==
  \/ \E t \in Threads :
       \/ \E q \in Requests[t] : call(t, q[1], q[2])
       \/ Transmit(t) \/ Retransmit(t) \/ Return(t) \/ Bound(t)
  \/ \E c \in DOMAIN conns : got_pdu(c) \/ Die(c)
  \/ cancel \/ CancelWakes

ServerNext ==
  \/ Boot \/ reg \/ Crash
  \/ \E c \in DOMAIN conns : srv_got_pdu(c)
  \/ \E j \in jobs : dispatch(j)

Next == (client # "aborted" /\ ClientNext) \/ ServerNext

\* Threads run, and a call's deadlines pass: after a bounded number of rounds,
\* however often it is sent again, it comes to an end.  Nothing is assumed of the
\* network and the server.
Fairness ==
  /\ \A t \in Threads : WF_vars(Transmit(t)) /\ SF_vars(Return(t)) /\ WF_vars(Bound(t))
  /\ WF_vars(CancelWakes)

Spec == Init /\ [][Next]_vars /\ Fairness

-----------------------------------------------------------------------------
(* Properties.                                                             *)

Requesting == {t \in Threads : th[t].pc \in {"send", "wait"}}

RpcTypeOK ==
  /\ retrans_ \in BOOLEAN /\ bind_done_ \in BOOLEAN /\ destroy_wait_ \in BOOLEAN
  /\ signalled \in BOOLEAN /\ up \in BOOLEAN /\ broken \in BOOLEAN
  /\ srv_nonce_ \in 0..MaxBoot /\ nonce_ \in 0..MaxBoot
  /\ xid_ \in 1..(MaxXid + 1)
  /\ DOMAIN calls_ \subseteq 1..MaxXid
  /\ xid_rep_window_ # {} /\ xid_rep_window_ \subseteq 0..MaxXid
  /\ chan_ \in 0..Len(conns) /\ Len(conns) <= MaxConn
  /\ client \in {"up", "cancelling", "cancelled", "aborted"}
  /\ \A t \in Threads : th[t].pc \in {"idle", "send", "wait", "bind"}
                        /\ th[t].xid \in 0..MaxXid /\ th[t].ch \in 0..Len(conns)
  /\ main \in 0..Len(Registered)
  /\ \A j \in jobs : j.conn \in DOMAIN conns

\* Whatever connections die, servers restart and requests are sent again, no
\* call's method runs twice (rpc.h: "provide at most once semantics").
AtMostOnce == \A x \in DOMAIN runs : Len(runs[x]) <= 1

\* A call that succeeds has the result of its own method's run, with its own
\* arguments, though replies come in any order, late, and over several
\* connections.
OwnAnswer ==
  \A t \in Threads :
    th[t].pc \in {"idle", "bind"} /\ th[t].ret >= 0 =>
      \E k \in DOMAIN runs[th[t].xid] :
        LET run == runs[th[t].xid][k]
        IN  run.proc = th[t].proc /\ run.args = th[t].args /\ th[t].r = <<run.r>>

\* A method runs only at a server that this client has bound to: not at the one
\* that took its place, which knows nothing of what the first was told.
RunsAtItsServer ==
  \A x \in DOMAIN runs : \A k \in DOMAIN runs[x] :
    runs[x][k].proc # bind =>
      \E y \in 1..(x - 1) : \E i \in DOMAIN runs[y] :
        runs[y][i].proc = bind /\ runs[y][i].srv = runs[x][k].srv

\* Each side understands every message of the other: headers and contents do not
\* run into each other, and what is read is all that was written.
Understood == ~ broken

\* calls_ has the callers of the threads in call1 and no others: a caller is on
\* its thread's stack, and got_pdu and cancel write to it.
NoDanglingCaller ==
  /\ DOMAIN calls_ = {th[t].xid : t \in Requesting}
  /\ \A t, u \in Requesting : t # u => th[t].xid # th[u].xid

\* What the next request acknowledges (the front of the window, as xid_rep) is
\* over for good: the server may forget those replies, for no caller waits for
\* one of them, in whatever order the calls came to an end.
AckedIsOver == \A x \in DOMAIN calls_ : calls_[x].done \/ Min(xid_rep_window_) < x

\* While cancel waits, everyone it waits for has been told; once it has returned
\* from waiting, there are no callers any more (the VERIFY of the destructor).
QuietAfterCancel ==
  destroy_wait_ =>
    /\ \A x \in DOMAIN calls_ : calls_[x].done
    /\ client = "cancelled" => calls_ = <<>>

\* cancel returns, whatever the server and the network do.
CancelReturns == client = "cancelling" ~> client # "cancelling"
=============================================================================
