---------------------------- MODULE MCThreadIpc ----------------------------
(***************************************************************************)
(* Small instances of ThreadIpc.  In the helping instance a client c1      *)
(* calls two servers, srv and m; srv calls m, too, and m calls c1, so that *)
(* chains of two helpers, two clients of one server and circles arise.  In *)
(* the flat instance two clients call srv.                                 *)
(***************************************************************************)
EXTENDS ThreadIpc, TLC

CONSTANTS c1, c2, srv, m

MCThread == {c1, srv, m}

MCCalls == {<<c1, srv>>, <<c1, m>>, <<srv, m>>, <<m, c1>>}

FlatThread == {c1, c2, srv}

FlatCalls == {<<c1, srv>>, <<c2, srv>>}

\* One client runs on the CPU of the server, and helps, the other one does not
OneHelps == [t \in Thread |-> IF t = c2 THEN {2} ELSE {1}]

\* The client runs on the CPU of the servers, and helps, or on another one
ClientAnywhere == [t \in Thread |-> IF t = c1 THEN {1, 2} ELSE {1}]

\* Core pauses, from a thread on CPU 1, the client, wherever that runs, and the
\* last server
PausesBoth == {<<c1, 1>>, <<m, 1>>}

PausesClient == {<<c2, 2>>}

\* What shares and assertions do after a misuse is not the question
NotMisused == ~misused

===========================================================================
