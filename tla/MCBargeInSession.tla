-------------------------- MODULE MCBargeInSession --------------------------
(* BargeInSession with two or three responses and one or two candidates:   *)
(* enough for a candidate to name a response that is no longer the last.   *)
EXTENDS BargeInSession
=============================================================================
