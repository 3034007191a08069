------------------------------ MODULE MCSendQueue ------------------------------
(* Instances of SendQueue for TLC.                                               *)
EXTENDS SendQueue

CONSTANTS w1

IOAndWorker == {IO, w1}
================================================================================
