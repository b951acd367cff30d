-------------------------- MODULE MCSplitPaymentV2 --------------------------
(***************************************************************************)
(* Small instances of SplitPaymentV2.  Accounts, models and session IDs    *)
(* are interchangeable.                                                    *)
(***************************************************************************)
EXTENDS SplitPaymentV2, TLC

Interchangeable == Permutations(Account) \cup Permutations(ModelId)
                   \cup Permutations(SessionId)

=============================================================================
