---------------------------- MODULE MCAppleStore ----------------------------
(* The instance of AppleStore that TLC checks: the .cfg files give it one  *)
(* handler and one reconciler, so that two processings may overlap.        *)
EXTENDS AppleStore
=============================================================================
