---------------------------- MODULE MCEventLoop -----------------------------
(* EventLoop with the constants of MCEventLoop.cfg.                        *)
EXTENDS EventLoop
=============================================================================
