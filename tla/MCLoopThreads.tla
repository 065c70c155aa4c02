---------------------------- MODULE MCLoopThreads ----------------------------
(* LoopThreads for TLC.                                                    *)
EXTENDS LoopThreads
=============================================================================
