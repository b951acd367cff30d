--------------------------- MODULE SessionEscrow ---------------------------
(***************************************************************************)
(* What a payment session promises to the three parties, without bitmaps,  *)
(* vouchers, transfers or callbacks: a deposit that only shrinks by whole  *)
(* splits, creator and seeder paid in the same indivisible step at the     *)
(* share fixed when the session opened, and whose rest goes back at most   *)
(* once, after which nothing happens any more.  SplitPaymentV2 implements  *)
(* it.                                                                     *)
(***************************************************************************)
EXTENDS Naturals

CONSTANTS SessionId, MinShareBps, MaxShareBps, BpsDenominator

VARIABLE account

Phases == {"none", "open", "closed"}

Rest(s) == account[s].deposit - (account[s].creator + account[s].seeders)

EscrowInit ==
    account = [s \in SessionId |->
                 [phase |-> "none", deposit |-> 0, share |-> 0,
                  creator |-> 0, seeders |-> 0, refunded |-> 0]]

Fund(s) ==
    /\ account[s].phase = "none"
    /\ account'[s].phase = "open"
    /\ account'[s].deposit > 0
    /\ account'[s].share \in MinShareBps..MaxShareBps
    /\ account'[s].creator = 0 /\ account'[s].seeders = 0 /\ account'[s].refunded = 0

Split(s) ==
    /\ account[s].phase = "open"
    /\ \E total \in 1..Rest(s) :
          LET creator == (total * account[s].share) \div BpsDenominator
          IN  account'[s] = [account[s] EXCEPT !.creator = @ + creator,
                                               !.seeders = @ + (total - creator)]

Refund(s) ==
    /\ account[s].phase = "open"
    /\ account'[s] = [account[s] EXCEPT !.phase = "closed", !.refunded = Rest(s)]

EscrowNext ==
    \E s \in SessionId :
        /\ Fund(s) \/ Split(s) \/ Refund(s)
        /\ \A t \in SessionId \ {s} : account'[t] = account[t]

EscrowSpec == EscrowInit /\ [][EscrowNext]_account

=============================================================================
