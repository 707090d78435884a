---------------------------- MODULE MCCommunicator ----------------------------
(***************************************************************************)
(* Instances of Communicator for TLC.                                      *)
(***************************************************************************)
EXTENDS Communicator
=============================================================================
