------------------------------- MODULE MCReading -------------------------------
(* Instances of Reading for TLC.                                                 *)
EXTENDS Reading, TLC

CONSTANTS c1, c2

Req(op, length) == [op |-> op, length |-> length]

\* Each body but the first follows one that is longer, shorter or as long. A sign-in
\* is all that c2 sends.
TwoSessions ==
  (c1 :> <<Req("reg", 2), Req("join", 1), Req("text", 2), Req("text", 2)>>) @@
  (c2 :> <<Req("auth", 1)>>)
================================================================================
