------------------------------- MODULE Common -------------------------------
(***************************************************************************)
(* What the modules of the services and of the web application share: the  *)
(* replicas of a service, the requests they may have at once, models,      *)
(* wallets, and the clock the code reads (time.Now, Date.now), in ticks of *)
(* a length that each component gives its durations in.                    *)
(***************************************************************************)
EXTENDS Naturals

CONSTANTS Replica,
          Slot,      \* a request each; bound: requests
          Model,
          Wallet,
          NoWallet,
          MaxTime    \* bound: the run ends at this tick

VARIABLE now

ASSUME ClockAssumption == MaxTime \in Nat

Tick == now < MaxTime /\ now' = now + 1
=============================================================================
