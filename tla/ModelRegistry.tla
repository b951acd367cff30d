--------------------------- MODULE ModelRegistry ---------------------------
(***************************************************************************)
(* The on-chain registry of models, src/contracts/src/ModelRegistry.sol:   *)
(* its storage and its two state-changing calls.  A call that reverts      *)
(* changes nothing and is no step.  The metadata URI is only stored and    *)
(* emitted: left out with the check that it is not empty.                  *)
(***************************************************************************)
EXTENDS Naturals

CONSTANTS Account,   \* addresses that call and get paid, never address(0)
          ModelId,
          NoModel    \* the record whose originalCreator is address(0)

VARIABLE models      \* ModelRegistry.models

MinShareBps == 100
MaxShareBps == 9900
BpsDenominator == 10000

Terms == [originalCreator : Account, chunkPrice : Nat \ {0},
          creatorShareBps : MinShareBps..MaxShareBps, chunkCount : Nat \ {0},
          active : BOOLEAN]

RegistryInit == models = [m \in ModelId |-> NoModel]

Registered(m) == models[m] # NoModel
Active(m) == Registered(m) /\ models[m].active

RegisterModel(caller, m, price, bps, count) ==
    /\ ~Registered(m)
    /\ bps >= MinShareBps /\ bps <= MaxShareBps
    /\ price # 0
    /\ count # 0
    /\ models' = [models EXCEPT ![m] =
                    [originalCreator |-> caller, chunkPrice |-> price,
                     creatorShareBps |-> bps, chunkCount |-> count, active |-> TRUE]]

DeactivateModel(caller, m) ==
    /\ Active(m)
    /\ models[m].originalCreator = caller
    /\ models' = [models EXCEPT ![m].active = FALSE]

=============================================================================
