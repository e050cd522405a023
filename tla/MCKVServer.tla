----------------------------- MODULE MCKVServer -----------------------------
(***************************************************************************)
(* Module KVServer on two servers that lead in turn, with three puts.      *)
(***************************************************************************)
EXTENDS KVServer, TLC

CONSTANTS n1, n2, p1, p2, p3

\* n1 leads, n2 takes over, n1 comes back.
InTurn == {<< n1, 1 >>, << n2, 2 >>, << n1, 3 >>}

\* The same key twice, and a value with a colon in it.
Requests ==
    (p1 :> [key |-> << "a" >>, value |-> << "x", "y" >>, addr |-> n1]) @@
    (p2 :> [key |-> << "b" >>, value |-> << "x" >>, addr |-> n1]) @@
    (p3 :> [key |-> << "a" >>, value |-> << "z" >>, addr |-> n1])

-----------------------------------------------------------------------------
(***************************************************************************)
(* States that differ only in what no step reads any more are one state:   *)
(* leader hints at a server that no client may still be redirected by,     *)
(* the place of a request that has failed, and the wake-up of one that     *)
(* does not wait.                                                          *)
(***************************************************************************)
Redirecting == {Request[p].addr : p \in {q \in Puts : pc[q] \in {"new", "refused"}}}

Over == {p \in Puts : pc[p] \in {"aborted", "timedout", "failed"}}

View ==
    << core, server, pending, pc, ticket,
       [p \in Puts \ Over |-> at[p]],
       [p \in {q \in Puts : pc[q] = "waiting"} |-> signal[p]],
       [n \in Redirecting |-> leaderID[n]],
       {c \in accepted : c[1] \in Redirecting} >>
=============================================================================
