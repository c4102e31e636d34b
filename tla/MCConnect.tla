----------------------------- MODULE MCConnect ------------------------------
(***************************************************************************)
(* Instances of Connect for TLC: 0, 1 and 2 stand for stdio.               *)
(***************************************************************************)
EXTENDS Connect

SixFds == 0..5
Stdio == 0..2
=============================================================================
