------------------------------- MODULE MCRpc -------------------------------
(***************************************************************************)
(* Rpc for TLC: two threads, three calls, two connections and two runs of  *)
(* the server, so that a call can meet a dead connection, a new server and *)
(* a cancel.                                                               *)
(***************************************************************************)
EXTENDS Rpc

\* The first thread binds.  The number of the second one's extent needs both
\* cells.
MCRequests == <<{<<bind, <<0>>>>, <<get, <<1>>>>, <<getattr, <<1>>>>}, {<<put, <<205, <<"a">>>>>>}>>
=============================================================================
