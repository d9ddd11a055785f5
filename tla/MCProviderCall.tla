---------------------------- MODULE MCProviderCall ----------------------------
(* A small instance of the provider call for TLC.                              *)
EXTENDS ProviderCall
=============================================================================
