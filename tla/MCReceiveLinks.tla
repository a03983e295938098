--------------------------- MODULE MCReceiveLinks ---------------------------
(***************************************************************************)
(* ReceiveLinks on two links, so that one can expire while the sweep       *)
(* removes the other, and two files, so that two uploads compete for a cap *)
(* of one.                                                                 *)
(***************************************************************************)
EXTENDS ReceiveLinks, TLC

\* Sound without liveness properties: no action tells links, files or requests
\* apart.
Symmetric == Permutations(Links) \union Permutations(Files) \union Permutations(Requests)
=============================================================================
