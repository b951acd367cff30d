--------------------------- MODULE SplitPaymentV2 ---------------------------
(***************************************************************************)
(* The payment channel, src/contracts/src/SplitPaymentV2.sol, together     *)
(* with the registry it reads.  A downloader funds a session, signs one    *)
(* voucher per chunk off chain, anybody settles vouchers in batches, and   *)
(* after the grace period the downloader takes back what was not claimed.  *)
(*                                                                         *)
(* A transaction that pays somebody is not one step: each transfer calls   *)
(* into the receiver, whose code may call the registry (not the channel,   *)
(* which is nonReentrant), and may fail, which undoes the transaction.     *)
(* So settleBatch and reclaimUnspent are a first step that checks and      *)
(* writes storage, one step per transfer, and a last step that commits or  *)
(* reverts; tx.saved is the state to go back to.                           *)
(*                                                                         *)
(* A signature is the address _recover returns for it; address(0) when it  *)
(* is malformed.                                                           *)
(***************************************************************************)
EXTENDS ModelRegistry, Sequences, FiniteSets, Functions

CONSTANTS SessionId, NoSession,
          ZeroAddress,     \* address(0)
          Hash, ZeroHash,  \* chunk hashes; bytes32(0)
          Price, ShareBps, ChunkCount, Deposit,   \* the call arguments tried
          MaxBatch,        \* bound: claims in one batch
          Grace,           \* SETTLEMENT_GRACE_PERIOD
          MaxUint48,       \* largest deadline
          MaxTime          \* bound: last block timestamp

VARIABLES sessions,  \* sessions
          claimed,   \* claimedChunksBitmap: the chunks paid in each session
          balance,   \* the contract's balance
          tx,        \* the transaction that is paying somebody
          paid,      \* history: what each session paid out, by role
          now        \* block.timestamp

channel == <<sessions, claimed, balance, paid>>
vars == <<models, channel, tx, now>>

-----------------------------------------------------------------------------

Uint48 == 0..MaxUint48
Time == 0..MaxTime

Session == [downloader : Account, modelId : ModelId, deposit : Nat \ {0}, totalClaimed : Nat,
            serviceDeadline : Uint48, settlementDeadline : Uint48, closed : BOOLEAN]

ASSUME ChannelAssumption ==
    /\ NoModel \notin Terms
    /\ NoSession \notin Session
    /\ IsFiniteSet(SessionId)   \* bytes32
    /\ ZeroAddress \notin Account
    /\ Price \subseteq Nat /\ ShareBps \subseteq Nat
    /\ ChunkCount \subseteq Nat /\ Deposit \subseteq Nat
    /\ MaxBatch \in Nat /\ Grace \in Nat /\ MaxUint48 \in Nat /\ MaxTime \in Nat

\* A claim with its signature.
Claim == [sessionId : SessionId, chunkIndex : UNION {0..n : n \in ChunkCount},
          chunkHash : Hash \cup {ZeroHash}, seeder : Account \cup {ZeroAddress},
          deadline : Uint48, signer : Account \cup {ZeroAddress}]

Paid == [creator : Nat, seeders : Nat, downloader : Nat]

\* What a revert restores.
Storage == [models : [ModelId -> Terms \cup {NoModel}],
            sessions : [SessionId -> Session \cup {NoSession}],
            claimed : [SessionId -> SUBSET Nat], balance : Nat, paid : [SessionId -> Paid]]

\* What is still to be transferred, in this order; whether a receiver's code
\* runs now; where to go back to.
NoTx == [active |-> FALSE]
Transaction == [active : {TRUE}, session : SessionId, creatorDue : Nat, seederDue : Nat,
                refundDue : Nat, calling : BOOLEAN, saved : Storage]

Current == [models |-> models, sessions |-> sessions, claimed |-> claimed,
            balance |-> balance, paid |-> paid]

\* What an outside observer sees: nothing of a transaction until it commits.
Committed == IF tx.active THEN tx.saved ELSE Current

TypeOK ==
    /\ Current \in Storage
    /\ tx \in Transaction \cup {NoTx}
    /\ now \in Time

Init ==
    /\ RegistryInit
    /\ sessions = [s \in SessionId |-> NoSession]
    /\ claimed = [s \in SessionId |-> {}]
    /\ balance = 0
    /\ paid = [s \in SessionId |-> [creator |-> 0, seeders |-> 0, downloader |-> 0]]
    /\ tx = NoTx
    /\ now = 0

Opened(s) == sessions[s] # NoSession
Open(s) == Opened(s) /\ ~sessions[s].closed

-----------------------------------------------------------------------------
(* Registry calls, by a transaction of their own or by code that a         *)
(* transfer called.                                                        *)

RegistryCall ==
    /\ tx.active => tx.calling
    /\ \E caller \in Account, m \in ModelId :
          \/ \E p \in Price, b \in ShareBps, n \in ChunkCount : RegisterModel(caller, m, p, b, n)
          \/ DeactivateModel(caller, m)
    /\ UNCHANGED <<channel, tx, now>>

-----------------------------------------------------------------------------

\* Mutant of OpenSession: the sum of the deadlines is not checked.
OpenSessionUncheckedSum(caller, s, m, value, serviceDeadline) ==
    /\ ~tx.active
    /\ ~Opened(s)
    /\ value # 0
    /\ serviceDeadline > now
    /\ Active(m)
    /\ sessions' = [sessions EXCEPT ![s] =
                      [downloader |-> caller, modelId |-> m, deposit |-> value,
                       totalClaimed |-> 0, serviceDeadline |-> serviceDeadline,
                       settlementDeadline |-> serviceDeadline + Grace, closed |-> FALSE]]
    /\ balance' = balance + value
    /\ UNCHANGED <<models, claimed, paid, tx, now>>

\* Mutant of OpenSession: an ID can be used again.
OpenSessionTwice(caller, s, m, value, serviceDeadline) ==
    /\ ~tx.active
    /\ value # 0
    /\ serviceDeadline > now
    /\ Active(m)
    /\ serviceDeadline + Grace <= MaxUint48
    /\ sessions' = [sessions EXCEPT ![s] =
                      [downloader |-> caller, modelId |-> m, deposit |-> value,
                       totalClaimed |-> 0, serviceDeadline |-> serviceDeadline,
                       settlementDeadline |-> serviceDeadline + Grace, closed |-> FALSE]]
    /\ balance' = balance + value
    /\ UNCHANGED <<models, claimed, paid, tx, now>>

\* serviceDeadline + SETTLEMENT_GRACE_PERIOD is checked uint48 arithmetic.
OpenSession(caller, s, m, value, serviceDeadline) ==
    /\ ~tx.active
    /\ ~Opened(s)
    /\ value # 0
    /\ serviceDeadline > now
    /\ Active(m)
    /\ serviceDeadline + Grace <= MaxUint48
    /\ sessions' = [sessions EXCEPT ![s] =
                      [downloader |-> caller, modelId |-> m, deposit |-> value,
                       totalClaimed |-> 0, serviceDeadline |-> serviceDeadline,
                       settlementDeadline |-> serviceDeadline + Grace, closed |-> FALSE]]
    /\ balance' = balance + value
    /\ UNCHANGED <<models, claimed, paid, tx, now>>

\* _validateAndMarkClaim, against the chunks claimed before the batch.
ValidClaim(s, claim) ==
    /\ claim.sessionId = s
    /\ claim.chunkHash # ZeroHash
    /\ claim.chunkIndex < models[sessions[s].modelId].chunkCount
    /\ now <= claim.deadline
    /\ claim.deadline <= sessions[s].settlementDeadline
    /\ claim.chunkIndex \notin claimed[s]
    /\ claim.signer = sessions[s].downloader

\* Mutant of DistinctChunks: the bitmap is only read before the batch.
AnyChunks(batch) == TRUE

\* A chunk marked by one claim of the batch is taken for the next ones.
DistinctChunks(batch) ==
    \A i, j \in DOMAIN batch : i # j => batch[i].chunkIndex # batch[j].chunkIndex

Chunks(batch) == {batch[i].chunkIndex : i \in DOMAIN batch}

BatchTotal(s, batch) == models[sessions[s].modelId].chunkPrice * Len(batch)

\* Mutant of CreatorAmount: rounded up.
CreatorAmountUp(amount, bps) == (amount * bps + BpsDenominator - 1) \div BpsDenominator

\* The creator's part of an amount, rounded down; the seeder gets the rest.
CreatorAmount(amount, bps) == (amount * bps) \div BpsDenominator

\* Checks and effects of settleBatch.
SettleBatch(s, batch) ==
    LET model == models[sessions[s].modelId]
        total == BatchTotal(s, batch)
        creatorAmount == CreatorAmount(total, model.creatorShareBps)
    IN  /\ ~tx.active
        /\ Len(batch) > 0
        /\ Open(s)
        /\ now <= sessions[s].settlementDeadline
        /\ Active(sessions[s].modelId)
        /\ \A i \in DOMAIN batch : batch[i].seeder # ZeroAddress /\ batch[i].seeder = batch[1].seeder
        /\ sessions[s].totalClaimed + total <= sessions[s].deposit
        /\ \A i \in DOMAIN batch : ValidClaim(s, batch[i])
        /\ DistinctChunks(batch)
        /\ claimed' = [claimed EXCEPT ![s] = @ \cup Chunks(batch)]
        /\ sessions' = [sessions EXCEPT ![s].totalClaimed = @ + total]
        /\ tx' = [active |-> TRUE, session |-> s, creatorDue |-> creatorAmount,
                  seederDue |-> total - creatorAmount, refundDue |-> 0,
                  calling |-> FALSE, saved |-> Current]
        /\ UNCHANGED <<models, balance, paid, now>>

\* Mutant of ReclaimUnspent: the whole deposit goes back.
ReclaimEverything(caller, s) ==
    /\ ~tx.active
    /\ Open(s)
    /\ sessions[s].downloader = caller
    /\ now > sessions[s].settlementDeadline
    /\ sessions' = [sessions EXCEPT ![s].closed = TRUE]
    /\ tx' = [active |-> TRUE, session |-> s, creatorDue |-> 0, seederDue |-> 0,
              refundDue |-> sessions[s].deposit, calling |-> FALSE, saved |-> Current]
    /\ UNCHANGED <<models, claimed, balance, paid, now>>

\* Mutant of ReclaimUnspent: the deadline itself already counts as past.
ReclaimAtDeadline(caller, s) ==
    /\ ~tx.active
    /\ Open(s)
    /\ sessions[s].downloader = caller
    /\ now >= sessions[s].settlementDeadline
    /\ sessions' = [sessions EXCEPT ![s].closed = TRUE]
    /\ tx' = [active |-> TRUE, session |-> s, creatorDue |-> 0, seederDue |-> 0,
              refundDue |-> sessions[s].deposit - sessions[s].totalClaimed,
              calling |-> FALSE, saved |-> Current]
    /\ UNCHANGED <<models, claimed, balance, paid, now>>

\* Checks and effects of reclaimUnspent.
ReclaimUnspent(caller, s) ==
    /\ ~tx.active
    /\ Open(s)
    /\ sessions[s].downloader = caller
    /\ now > sessions[s].settlementDeadline
    /\ sessions' = [sessions EXCEPT ![s].closed = TRUE]
    /\ tx' = [active |-> TRUE, session |-> s, creatorDue |-> 0, seederDue |-> 0,
              refundDue |-> sessions[s].deposit - sessions[s].totalClaimed,
              calling |-> FALSE, saved |-> Current]
    /\ UNCHANGED <<models, claimed, balance, paid, now>>

-----------------------------------------------------------------------------
(* The transfers.  A transfer of nothing is skipped.                       *)

PayCreator ==
    /\ tx.active
    /\ tx.creatorDue > 0
    /\ balance >= tx.creatorDue
    /\ balance' = balance - tx.creatorDue
    /\ paid' = [paid EXCEPT ![tx.session].creator = @ + tx.creatorDue]
    /\ tx' = [tx EXCEPT !.creatorDue = 0, !.calling = TRUE]
    /\ UNCHANGED <<models, sessions, claimed, now>>

PaySeeder ==
    /\ tx.active
    /\ tx.creatorDue = 0
    /\ tx.seederDue > 0
    /\ balance >= tx.seederDue
    /\ balance' = balance - tx.seederDue
    /\ paid' = [paid EXCEPT ![tx.session].seeders = @ + tx.seederDue]
    /\ tx' = [tx EXCEPT !.seederDue = 0, !.calling = TRUE]
    /\ UNCHANGED <<models, sessions, claimed, now>>

PayRefund ==
    /\ tx.active
    /\ tx.refundDue > 0
    /\ balance >= tx.refundDue
    /\ balance' = balance - tx.refundDue
    /\ paid' = [paid EXCEPT ![tx.session].downloader = @ + tx.refundDue]
    /\ tx' = [tx EXCEPT !.refundDue = 0, !.calling = TRUE]
    /\ UNCHANGED <<models, sessions, claimed, now>>

\* All transfers returned: the transaction is final.
Commit ==
    /\ tx.active
    /\ tx.creatorDue = 0 /\ tx.seederDue = 0 /\ tx.refundDue = 0
    /\ tx' = NoTx
    /\ UNCHANGED <<models, channel, now>>

\* Mutant of Revert: a failed transfer is ignored, the rest stays unpaid.
IgnoreFailure ==
    /\ tx.active
    /\ tx.calling \/ balance < tx.creatorDue + tx.seederDue + tx.refundDue
    /\ tx' = NoTx
    /\ UNCHANGED <<models, channel, now>>

\* TransferFailed: the receiver rejected the money, or there is not enough.
\* Everything since the start of the transaction is undone, registry calls
\* of receivers included.
Revert ==
    /\ tx.active
    /\ tx.calling \/ balance < tx.creatorDue + tx.seederDue + tx.refundDue
    /\ models' = tx.saved.models
    /\ sessions' = tx.saved.sessions
    /\ claimed' = tx.saved.claimed
    /\ balance' = tx.saved.balance
    /\ paid' = tx.saved.paid
    /\ tx' = NoTx
    /\ UNCHANGED now

Tick ==
    /\ ~tx.active
    /\ now < MaxTime
    /\ now' = now + 1
    /\ UNCHANGED <<models, channel, tx>>

-----------------------------------------------------------------------------

\* The batches tried: sequences of claims that are valid by themselves.
Batch(s) ==
    IF ~tx.active /\ Open(s) /\ Active(sessions[s].modelId)
    THEN UNION {[1..n -> {claim \in Claim : ValidClaim(s, claim)}] : n \in 0..MaxBatch}
    ELSE {}

Next ==
    \/ RegistryCall
    \/ \E caller \in Account, s \in SessionId :
          \/ \E m \in ModelId, value \in Deposit, deadline \in Uint48 :
                OpenSession(caller, s, m, value, deadline)
          \/ ReclaimUnspent(caller, s)
    \/ \E s \in SessionId : \E batch \in Batch(s) : SettleBatch(s, batch)
    \/ PayCreator \/ PaySeeder \/ PayRefund
    \/ Commit \/ Revert
    \/ Tick

Spec == Init /\ [][Next]_vars

-----------------------------------------------------------------------------
(* Safety.                                                                 *)

Due(s) == IF tx.active /\ tx.session = s
          THEN [claims |-> tx.creatorDue + tx.seederDue, refund |-> tx.refundDue]
          ELSE [claims |-> 0, refund |-> 0]

Unclaimed(s) == IF Open(s) THEN sessions[s].deposit - sessions[s].totalClaimed ELSE 0

Owed(s) == Unclaimed(s) + Due(s).claims + Due(s).refund

\* The contract holds to the wei what it owes: the unclaimed deposits of the
\* open sessions and what the running transaction has still to transfer.  No
\* session is paid from another one's deposit and nothing gets stuck.
Solvent == balance = SumFunction([s \in SessionId |-> Owed(s)])

\* A session is charged the uniform price once for every chunk marked in its
\* bitmap, never more than its deposit, and only for chunks of its model.
ChargedOncePerChunk ==
    \A s \in SessionId : Opened(s) =>
        LET model == models[sessions[s].modelId]
        IN  /\ Registered(sessions[s].modelId)
            /\ claimed[s] \subseteq 0..(model.chunkCount - 1)
            /\ sessions[s].totalClaimed = model.chunkPrice * Cardinality(claimed[s])
            /\ sessions[s].totalClaimed <= sessions[s].deposit

\* What left the contract for a session and what the running transaction still
\* owes for it add up to what it was charged, and to the rest of the deposit
\* once it is closed: no claim is paid twice, no refund overlaps a payout.
LedgerMatches ==
    \A s \in SessionId :
        /\ paid[s].creator + paid[s].seeders + Due(s).claims
             = IF Opened(s) THEN sessions[s].totalClaimed ELSE 0
        /\ paid[s].downloader + Due(s).refund
             = IF Opened(s) /\ sessions[s].closed
               THEN sessions[s].deposit - sessions[s].totalClaimed ELSE 0

\* However the chunks are batched, the creator's total is the registered share
\* rounded down by less than one wei per batch, so less than one per chunk.
CreatorShareFair ==
    \A s \in SessionId : Opened(s) /\ ~tx.active =>
        LET exact == sessions[s].totalClaimed * models[sessions[s].modelId].creatorShareBps
            got == BpsDenominator * paid[s].creator
        IN  got <= exact /\ exact <= got + (BpsDenominator - 1) * Cardinality(claimed[s])

\* The downloader gets money back only when the deadline of every voucher of
\* the session, and the grace period after its service deadline, have passed.
RefundAfterGrace ==
    \A s \in SessionId :
        paid[s].downloader > 0 =>
            /\ now > sessions[s].serviceDeadline + Grace
            /\ \A claim \in Claim : ~ValidClaim(s, claim)

-----------------------------------------------------------------------------
(* Refinement.  The account of a session in what has been committed.       *)

Phase(st, s) == IF st.sessions[s] = NoSession THEN "none"
                ELSE IF st.sessions[s].closed THEN "closed" ELSE "open"

AccountOf(st, s) ==
    [phase |-> Phase(st, s),
     deposit |-> IF Phase(st, s) = "none" THEN 0 ELSE st.sessions[s].deposit,
     share |-> IF Phase(st, s) = "none" THEN 0
               ELSE st.models[st.sessions[s].modelId].creatorShareBps,
     creator |-> st.paid[s].creator, seeders |-> st.paid[s].seeders,
     refunded |-> st.paid[s].downloader]

Escrow == INSTANCE SessionEscrow WITH account <- [s \in SessionId |-> AccountOf(Committed, s)]

\* Whatever receivers do while they are paid, what gets committed is an escrow:
\* creator and seeder are paid both or not at all, at the share the session was
\* opened under, and the refund is the exact rest.
ImplementsEscrow == Escrow!EscrowSpec

=============================================================================
