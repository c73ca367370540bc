----------------------------- MODULE MCSession -----------------------------
(* A session with one subagent and one background task, its hooks delayed.  *)
EXTENDS Session
=============================================================================
