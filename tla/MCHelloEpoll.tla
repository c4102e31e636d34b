---------------------------- MODULE MCHelloEpoll ----------------------------
(***************************************************************************)
(* Instances of HelloEpoll for TLC.                                        *)
(***************************************************************************)
EXTENDS HelloEpoll

(* All inputs of up to six units: an "exit" line with others around it, a  *)
(* line too long for the buffer, an input without an end.                 *)
ShortInputs == UNION {[1..n -> Units] : n \in 0..6}

(* Two lines that fit into one block.                                      *)
TwoLines == {<<"text", "newline", "exit", "newline">>}
=============================================================================
