---------------------------- MODULE MCGoogleStore ----------------------------
(* The instance of GoogleStore that TLC checks: one handler and one        *)
(* reconciler, which takes every path of a notification for a known row.   *)
EXTENDS GoogleStore
=============================================================================
