---------------------------- MODULE MCEventLoop ----------------------------
(* EventLoop for TLC, with threads and channels as model values.           *)
EXTENDS EventLoop
=============================================================================
