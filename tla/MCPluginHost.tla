---------------------------- MODULE MCPluginHost ----------------------------
(***************************************************************************)
(* A small instance of PluginHost for TLC.                                 *)
(***************************************************************************)
EXTENDS PluginHost
=============================================================================
