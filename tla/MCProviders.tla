---------------------------- MODULE MCProviders -----------------------------
(***************************************************************************)
(* An instance of Providers: one pool of any kind, whose secret comes and  *)
(* goes, and one machine.                                                  *)
(***************************************************************************)
EXTENDS Providers

CONSTANTS gpus, m1
=============================================================================
