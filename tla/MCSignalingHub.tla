--------------------------- MODULE MCSignalingHub ---------------------------
(***************************************************************************)
(* Small instances of SignalingHub.  Connections are interchangeable, and  *)
(* so are peer IDs, addresses and models: symmetric in the safety runs.    *)
(***************************************************************************)
EXTENDS SignalingHub, TLC

Interchangeable == Permutations(Conn) \cup Permutations(PeerId)
                   \cup Permutations(Address) \cup Permutations(Model)

=============================================================================
