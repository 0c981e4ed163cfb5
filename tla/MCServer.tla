------------------------------ MODULE MCServer ------------------------------
(***************************************************************************)
(* Server on small instances.  Connections are interchangeable, so that    *)
(* the runs without liveness properties may use Clients as a symmetry.     *)
(***************************************************************************)
EXTENDS Server, TLC

Clients == Permutations(Conn)
=============================================================================
