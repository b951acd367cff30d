------------------------- MODULE MCSignalingClient -------------------------
(***************************************************************************)
(* Small instances of SignalingClient.                                     *)
(***************************************************************************)
EXTENDS SignalingClient

=============================================================================
