------------------------------ MODULE MCRouter ------------------------------
(* A small instance of Router.                                              *)
EXTENDS Router, TLC

\* A prefill server with two workers and two decode servers.
Gpus == (0 :> 2) @@ (1 :> 1) @@ (2 :> 1)

=============================================================================
