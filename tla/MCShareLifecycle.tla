-------------------------- MODULE MCShareLifecycle --------------------------
(***************************************************************************)
(* ShareLifecycle on small instances: two shares, two or three concurrent  *)
(* requests and a clock of two or three ticks, so that a share can expire  *)
(* while a request or the sweep works on it.                               *)
(***************************************************************************)
EXTENDS ShareLifecycle, TLC

\* Sound without liveness properties: no action tells one share or one
\* request from another.
Symmetric == Permutations(Shares) \union Permutations(Requests)
=============================================================================
