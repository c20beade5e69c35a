------------------------------- MODULE MCEcho -------------------------------
(***************************************************************************)
(* Echo for TLC: two hosts with a responder and a device each; a client    *)
(* on the first host asks from a port of its own, another from the port    *)
(* that the responder there has.                                           *)
(***************************************************************************)
EXTENDS Echo

MCHome    == [d1 |-> "a", d2 |-> "b"]
MCClients == {<<"a", "50000">>, <<"a", "3702">>}

=============================================================================
