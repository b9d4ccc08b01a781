-------------------------- MODULE MCIOCPEchoServer --------------------------
(***************************************************************************)
(* Values for checking IOCPEchoServer with TLC.                            *)
(***************************************************************************)
EXTENDS IOCPEchoServer

\* The first peer talks, the second comes and goes.
FirstTalks == [s \in IDs |-> IF s = 0 THEN 3 ELSE 0]

=============================================================================
