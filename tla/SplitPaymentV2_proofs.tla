----------------------- MODULE SplitPaymentV2_proofs -----------------------
(***************************************************************************)
(* Proofs about SplitPaymentV2, for any accounts, models, sessions, prices,*)
(* splits, deposits, batch sizes and deadlines.                            *)
(*                                                                         *)
(* A revert brings back the storage the transaction started from, so the   *)
(* invariant speaks about two storages: the current one and, while a       *)
(* transaction runs, the one it saved.                                     *)
(***************************************************************************)
EXTENDS SplitPaymentV2, SumTheorems, FiniteSetTheorems, SequenceTheorems, TLAPS

\* A storage in which every session is charged the price once per chunk, and no
\* more than its deposit; what is not opened has nothing claimed.
Charged(st) ==
    \A s \in SessionId :
        IF st.sessions[s] = NoSession
        THEN st.claimed[s] = {}
        ELSE LET m == st.sessions[s].modelId
             IN  /\ st.models[m] # NoModel
                 /\ st.claimed[s] \subseteq 0..(st.models[m].chunkCount - 1)
                 /\ st.sessions[s].totalClaimed = st.models[m].chunkPrice * Cardinality(st.claimed[s])
                 /\ st.sessions[s].totalClaimed <= st.sessions[s].deposit

\* A storage with no payment under way: all that was charged is paid out.
Ledger(st) ==
    \A s \in SessionId :
        /\ st.paid[s].creator + st.paid[s].seeders
             = IF st.sessions[s] # NoSession THEN st.sessions[s].totalClaimed ELSE 0
        /\ st.paid[s].downloader
             = IF st.sessions[s] # NoSession /\ st.sessions[s].closed
               THEN st.sessions[s].deposit - st.sessions[s].totalClaimed ELSE 0

\* The sessions of the current storage are those saved, for the same models at
\* the same terms.
SameTerms(st) ==
    \A s \in SessionId : sessions[s] # NoSession =>
        LET m == sessions[s].modelId
        IN  /\ st.sessions[s] # NoSession /\ st.sessions[s].modelId = m
            /\ st.models[m] # NoModel
            /\ st.models[m].originalCreator = models[m].originalCreator
            /\ st.models[m].chunkPrice = models[m].chunkPrice
            /\ st.models[m].creatorShareBps = models[m].creatorShareBps
            /\ st.models[m].chunkCount = models[m].chunkCount

ChannelInv ==
    /\ TypeOK
    /\ Charged(Current)
    /\ LedgerMatches
    /\ tx.active => Charged(tx.saved) /\ Ledger(tx.saved) /\ SameTerms(tx.saved)

-----------------------------------------------------------------------------
(* Facts about the operators.                                              *)

\* The creator's part of an amount is between nothing and all of it.
LEMMA CreatorAmountBound ==
    ASSUME NEW amount \in Nat, NEW bps \in 0..BpsDenominator
    PROVE  /\ CreatorAmount(amount, bps) \in Nat
           /\ CreatorAmount(amount, bps) <= amount
<1>1. amount * bps <= amount * 10000 /\ amount * bps \in Nat
  BY DEF BpsDenominator
<1>2. ASSUME NEW x \in Nat, x <= amount * 10000
      PROVE  x \div 10000 \in Nat /\ x \div 10000 <= amount
  BY <1>2
<1>3. (amount * bps) \div 10000 \in Nat /\ (amount * bps) \div 10000 <= amount
  BY <1>1, <1>2
<1>4. CreatorAmount(amount, bps) = (amount * bps) \div 10000
  BY DEF CreatorAmount, BpsDenominator
<1> QED BY <1>3, <1>4

\* A batch of claims on distinct chunks marks as many chunks as it has claims.
LEMMA BatchMarksItsLength ==
    ASSUME NEW n \in Nat, NEW V, NEW batch \in [1..n -> V], DistinctChunks(batch)
    PROVE  /\ IsFiniteSet(Chunks(batch))
           /\ Cardinality(Chunks(batch)) = n
<1> DEFINE f == [i \in 1..n |-> batch[i].chunkIndex]
<1>1. f \in [1..n -> Chunks(batch)]
  BY DEF Chunks
<1>2. \A i, j \in 1..n : f[i] = f[j] => i = j
  BY DEF DistinctChunks
<1>3. \A x \in Chunks(batch) : \E i \in 1..n : f[i] = x
  BY DEF Chunks
<1>4. f \in Bijection(1..n, Chunks(batch))
  BY <1>1, <1>2, <1>3 DEF Bijection, Injection, IsInjective, Surjection
<1>5. ExistsBijection(1..n, Chunks(batch))
  BY <1>4 DEF ExistsBijection
<1> QED BY <1>5, FS_CountingElements, FS_NatBijection

\* The numbers in a model's terms.
LEMMA TermsType ==
    ASSUME NEW t \in Terms
    PROVE  /\ t.chunkPrice \in Nat /\ t.chunkCount \in Nat
           /\ t.creatorShareBps \in 0..BpsDenominator
<1>1. t.chunkPrice \in Nat /\ t.chunkCount \in Nat /\ t.creatorShareBps \in MinShareBps..MaxShareBps
  BY DEF Terms
<1>2. /\ MinShareBps \in Nat /\ MaxShareBps \in Nat /\ BpsDenominator \in Nat
      /\ MaxShareBps <= BpsDenominator
  BY DEF MinShareBps, MaxShareBps, BpsDenominator
<1> QED BY <1>1, <1>2

\* The numbers in a session.
LEMMA SessionType ==
    ASSUME NEW x \in Session
    PROVE  /\ x.totalClaimed \in Nat /\ x.deposit \in Nat
           /\ x.modelId \in ModelId
BY DEF Session

\* What SettleBatch may rely on: the length of a batch, and its claims.
LEMMA BatchType ==
    ASSUME NEW s \in SessionId, NEW batch \in Batch(s)
    PROVE  /\ Len(batch) \in Nat
           /\ DOMAIN batch = 1..Len(batch)
           /\ batch \in [1..Len(batch) -> Claim]
           /\ \A i \in DOMAIN batch : batch[i] \in Claim /\ ValidClaim(s, batch[i])
<1> DEFINE V == {claim \in Claim : ValidClaim(s, claim)}
<1>1. PICK n \in 0..MaxBatch : batch \in [1..n -> V]
  BY DEF Batch
<1>2. n \in Nat
  BY <1>1
<1>3. batch \in Seq(V)
  BY <1>1, <1>2, SeqDef
<1>4. Len(batch) \in Nat /\ batch \in [1..Len(batch) -> V] /\ DOMAIN batch = 1..Len(batch)
  BY <1>3, LenProperties
<1> QED BY <1>4

\* Chunk indexes are natural numbers.
LEMMA ChunkIndexType ==
    ASSUME ChannelAssumption, NEW claim \in Claim
    PROVE  claim.chunkIndex \in Nat
BY DEF ChannelAssumption, Claim

\* Adding new chunks to a finite set of chunks adds up their numbers.
LEMMA DisjointSum ==
    ASSUME NEW S, NEW T, IsFiniteSet(S), IsFiniteSet(T), S \cap T = {}
    PROVE  Cardinality(S \cup T) = Cardinality(S) + Cardinality(T)
<1>1. Cardinality(S \cup T) = Cardinality(S) + Cardinality(T) - Cardinality(S \cap T)
  BY FS_Union
<1>2. Cardinality(S \cap T) = 0
  BY FS_EmptySet
<1>3. Cardinality(S) \in Nat /\ Cardinality(T) \in Nat
  BY FS_CardinalityType
<1> QED BY <1>1, <1>2, <1>3

-----------------------------------------------------------------------------
(* The steps, one lemma each.                                              *)

\* What TypeOK says, variable by variable.
LEMMA TypeParts ==
    TypeOK <=>
        /\ models \in [ModelId -> Terms \cup {NoModel}]
        /\ sessions \in [SessionId -> Session \cup {NoSession}]
        /\ claimed \in [SessionId -> SUBSET Nat]
        /\ balance \in Nat
        /\ paid \in [SessionId -> Paid]
        /\ tx \in Transaction \cup {NoTx}
        /\ now \in Time
BY DEF TypeOK, Current, Storage

\* The same after a step.
LEMMA TypePartsNext ==
    TypeOK' <=>
        /\ models' \in [ModelId -> Terms \cup {NoModel}]
        /\ sessions' \in [SessionId -> Session \cup {NoSession}]
        /\ claimed' \in [SessionId -> SUBSET Nat]
        /\ balance' \in Nat
        /\ paid' \in [SessionId -> Paid]
        /\ tx' \in Transaction \cup {NoTx}
        /\ now' \in Time
BY DEF TypeOK, Current, Storage

\* A running transaction has the fields of one.
LEMMA RunningTx ==
    ASSUME TypeOK, tx.active
    PROVE  tx \in Transaction
BY DEF TypeOK, NoTx

\* Dropping what has been paid leaves a transaction.
LEMMA PaidTx ==
    ASSUME NEW t \in Transaction
    PROVE  /\ [t EXCEPT !.creatorDue = 0, !.calling = TRUE] \in Transaction
           /\ [t EXCEPT !.seederDue = 0, !.calling = TRUE] \in Transaction
           /\ [t EXCEPT !.refundDue = 0, !.calling = TRUE] \in Transaction
<1>1. t.creatorDue \in Nat /\ t.seederDue \in Nat /\ t.refundDue \in Nat
  BY DEF Transaction
<1> QED BY <1>1 DEF Transaction

\* Paying one party of the running transaction what is due to it keeps the
\* invariant: the ledger moves from due to paid.
LEMMA TransferKeepsInv ==
    ASSUME ChannelAssumption, ChannelInv, PayCreator \/ PaySeeder \/ PayRefund
    PROVE  ChannelInv'
<1>1. tx \in Transaction /\ tx.active
  BY RunningTx DEF ChannelInv, PayCreator, PaySeeder, PayRefund
<1>2. /\ tx.session \in SessionId
      /\ tx.creatorDue \in Nat /\ tx.seederDue \in Nat /\ tx.refundDue \in Nat
      /\ balance \in Nat
      /\ paid[tx.session] \in Paid
      /\ paid \in [SessionId -> Paid]
  BY <1>1, TypeParts DEF Transaction, ChannelInv
<1>3. UNCHANGED <<models, sessions, claimed, now>>
  BY DEF PayCreator, PaySeeder, PayRefund
<1>4. /\ tx' \in Transaction
      /\ tx'.active /\ tx'.session = tx.session /\ tx'.saved = tx.saved
      /\ balance' \in Nat
  <2>1. CASE PayCreator
    <3>1. tx' = [tx EXCEPT !.creatorDue = 0, !.calling = TRUE]
      BY <2>1 DEF PayCreator
    <3>2. balance' \in Nat
      BY <1>2, <2>1 DEF PayCreator
    <3>3. tx'.active /\ tx'.session = tx.session /\ tx'.saved = tx.saved
      BY <1>1, <3>1 DEF Transaction
    <3> QED BY <1>1, <3>1, <3>2, <3>3, PaidTx
  <2>2. CASE PaySeeder
    <3>1. tx' = [tx EXCEPT !.seederDue = 0, !.calling = TRUE]
      BY <2>2 DEF PaySeeder
    <3>2. balance' \in Nat
      BY <1>2, <2>2 DEF PaySeeder
    <3>3. tx'.active /\ tx'.session = tx.session /\ tx'.saved = tx.saved
      BY <1>1, <3>1 DEF Transaction
    <3> QED BY <1>1, <3>1, <3>2, <3>3, PaidTx
  <2>3. CASE PayRefund
    <3>1. tx' = [tx EXCEPT !.refundDue = 0, !.calling = TRUE]
      BY <2>3 DEF PayRefund
    <3>2. balance' \in Nat
      BY <1>2, <2>3 DEF PayRefund
    <3>3. tx'.active /\ tx'.session = tx.session /\ tx'.saved = tx.saved
      BY <1>1, <3>1 DEF Transaction
    <3> QED BY <1>1, <3>1, <3>2, <3>3, PaidTx
  <2> QED BY <2>1, <2>2, <2>3
<1>5. /\ paid' \in [SessionId -> Paid]
      /\ \A s \in SessionId : s # tx.session => paid'[s] = paid[s]
      /\ paid'[tx.session].creator + paid'[tx.session].seeders + tx'.creatorDue + tx'.seederDue
           = paid[tx.session].creator + paid[tx.session].seeders + tx.creatorDue + tx.seederDue
      /\ paid'[tx.session].downloader + tx'.refundDue = paid[tx.session].downloader + tx.refundDue
  <2>1. CASE PayCreator
    BY <1>1, <1>2, <2>1 DEF PayCreator, Paid, Transaction
  <2>2. CASE PaySeeder
    BY <1>1, <1>2, <2>2 DEF PaySeeder, Paid, Transaction
  <2>3. CASE PayRefund
    BY <1>1, <1>2, <2>3 DEF PayRefund, Paid, Transaction
  <2> QED BY <2>1, <2>2, <2>3
<1>6. TypeOK'
  BY <1>3, <1>4, <1>5, TypeParts, TypePartsNext DEF ChannelInv
<1>7. Charged(Current)'
  BY <1>3 DEF Charged, Current, ChannelInv
<1>8. LedgerMatches'
  <2> SUFFICES ASSUME NEW s \in SessionId
               PROVE  /\ paid'[s].creator + paid'[s].seeders + Due(s)'.claims
                           = paid[s].creator + paid[s].seeders + Due(s).claims
                      /\ paid'[s].downloader + Due(s)'.refund = paid[s].downloader + Due(s).refund
    BY <1>3 DEF LedgerMatches, ChannelInv, Opened
  <2>1. CASE s = tx.session
    <3>1. /\ Due(s).claims = tx.creatorDue + tx.seederDue /\ Due(s).refund = tx.refundDue
          /\ Due(s)'.claims = tx'.creatorDue + tx'.seederDue /\ Due(s)'.refund = tx'.refundDue
      BY <1>1, <1>4, <2>1 DEF Due
    <3>2. /\ paid'[s].creator \in Nat /\ paid'[s].seeders \in Nat
          /\ paid[s].creator \in Nat /\ paid[s].seeders \in Nat
          /\ tx'.creatorDue \in Nat /\ tx'.seederDue \in Nat
      BY <1>2, <1>4, <1>5, <2>1 DEF Paid, Transaction
    <3> QED BY <1>2, <1>5, <2>1, <3>1, <3>2
  <2>2. CASE s # tx.session
    BY <1>4, <1>5, <2>2 DEF Due
  <2> QED BY <2>1, <2>2
<1>9. Charged(tx.saved)' /\ Ledger(tx.saved)' /\ SameTerms(tx.saved)'
  <2>1. Charged(tx.saved) /\ Ledger(tx.saved) /\ SameTerms(tx.saved)
    BY <1>1 DEF ChannelInv
  <2>2. Charged(tx.saved)' /\ Ledger(tx.saved)'
    BY <1>4, <2>1 DEF Charged, Ledger
  <2>3. SameTerms(tx.saved)'
    BY <1>3, <1>4, <2>1 DEF SameTerms
  <2> QED BY <2>2, <2>3
<1> QED BY <1>6, <1>7, <1>8, <1>9 DEF ChannelInv

\* A registry call leaves the terms of the models that exist as they are.
LEMMA RegistryKeepsTerms ==
    ASSUME ChannelAssumption, ChannelInv, RegistryCall
    PROVE  /\ models' \in [ModelId -> Terms \cup {NoModel}]
           /\ \A m \in ModelId : models[m] # NoModel =>
                 /\ models'[m] # NoModel
                 /\ models'[m].originalCreator = models[m].originalCreator
                 /\ models'[m].chunkPrice = models[m].chunkPrice
                 /\ models'[m].creatorShareBps = models[m].creatorShareBps
                 /\ models'[m].chunkCount = models[m].chunkCount
<1>0. models \in [ModelId -> Terms \cup {NoModel}]
  BY TypeParts DEF ChannelInv
<1>1. ASSUME NEW caller \in Account, NEW m \in ModelId, NEW p \in Price, NEW b \in ShareBps,
             NEW n \in ChunkCount, RegisterModel(caller, m, p, b, n)
      PROVE  /\ models' \in [ModelId -> Terms \cup {NoModel}]
             /\ \A k \in ModelId : models[k] # NoModel => models'[k] = models[k]
  <2>1. p \in Nat \ {0} /\ n \in Nat \ {0} /\ b \in MinShareBps..MaxShareBps
    <3>1. p \in Nat /\ n \in Nat /\ b \in Nat
      BY DEF ChannelAssumption
    <3>2. b >= MinShareBps /\ b <= MaxShareBps /\ p # 0 /\ n # 0
      BY <1>1 DEF RegisterModel
    <3> QED BY <3>1, <3>2 DEF MinShareBps, MaxShareBps
  <2> QED BY <1>0, <1>1, <2>1 DEF RegisterModel, Registered, Terms
<1>2. ASSUME NEW caller \in Account, NEW m \in ModelId, DeactivateModel(caller, m)
      PROVE  /\ models' \in [ModelId -> Terms \cup {NoModel}]
             /\ \A k \in ModelId : models[k] # NoModel =>
                   /\ models'[k] # NoModel
                   /\ models'[k].originalCreator = models[k].originalCreator
                   /\ models'[k].chunkPrice = models[k].chunkPrice
                   /\ models'[k].creatorShareBps = models[k].creatorShareBps
                   /\ models'[k].chunkCount = models[k].chunkCount
  <2>1. models[m] \in Terms /\ models' = [models EXCEPT ![m].active = FALSE]
    BY <1>0, <1>2 DEF DeactivateModel, Active, Registered
  <2>2. [models[m] EXCEPT !.active = FALSE] \in Terms
    BY <2>1 DEF Terms
  <2> QED BY <1>0, <2>1, <2>2 DEF Terms, ChannelAssumption
<1> QED BY <1>1, <1>2 DEF RegistryCall

\* A registry call keeps the invariant, also from inside a transfer: it cannot
\* change the terms of a model that a session uses.
LEMMA RegistryCallKeepsInv ==
    ASSUME ChannelAssumption, ChannelInv, RegistryCall
    PROVE  ChannelInv'
<1>1. UNCHANGED <<sessions, claimed, balance, paid, tx, now>>
  BY DEF RegistryCall, channel
<1>2. /\ models' \in [ModelId -> Terms \cup {NoModel}]
      /\ \A m \in ModelId : models[m] # NoModel =>
            /\ models'[m] # NoModel
            /\ models'[m].originalCreator = models[m].originalCreator
            /\ models'[m].chunkPrice = models[m].chunkPrice
            /\ models'[m].creatorShareBps = models[m].creatorShareBps
            /\ models'[m].chunkCount = models[m].chunkCount
  BY RegistryKeepsTerms
<1>3. \A s \in SessionId : sessions[s] # NoSession => sessions[s].modelId \in ModelId
  BY TypeParts DEF ChannelInv, Session
<1>4. TypeOK'
  BY <1>1, <1>2, TypeParts, TypePartsNext DEF ChannelInv
<1>5. Charged(Current)'
  BY <1>1, <1>2, <1>3 DEF Charged, Current, ChannelInv
<1>6. LedgerMatches'
  BY <1>1 DEF LedgerMatches, ChannelInv, Due, Opened
<1>7. tx'.active => Charged(tx.saved)' /\ Ledger(tx.saved)'
  BY <1>1 DEF Charged, Ledger, ChannelInv
<1>8. tx'.active => SameTerms(tx.saved)'
  <2> SUFFICES ASSUME tx.active, NEW s \in SessionId, sessions[s] # NoSession
               PROVE  LET m == sessions[s].modelId
                          st == tx.saved
                      IN  /\ st.sessions[s] # NoSession /\ st.sessions[s].modelId = m
                          /\ st.models[m] # NoModel
                          /\ st.models[m].originalCreator = models'[m].originalCreator
                          /\ st.models[m].chunkPrice = models'[m].chunkPrice
                          /\ st.models[m].creatorShareBps = models'[m].creatorShareBps
                          /\ st.models[m].chunkCount = models'[m].chunkCount
    BY <1>1 DEF SameTerms
  <2>1. models[sessions[s].modelId] # NoModel
    BY DEF Charged, Current, ChannelInv
  <2> QED BY <1>2, <1>3, <2>1 DEF SameTerms, ChannelInv
<1> QED BY <1>4, <1>5, <1>6, <1>7, <1>8 DEF ChannelInv

\* Opening a session keeps the invariant: an ID nobody used has nothing claimed
\* and nothing paid.
LEMMA OpenSessionKeepsInv ==
    ASSUME ChannelAssumption, ChannelInv,
           NEW caller \in Account, NEW s \in SessionId, NEW m \in ModelId, NEW value \in Deposit,
           NEW deadline \in Uint48, OpenSession(caller, s, m, value, deadline)
    PROVE  ChannelInv'
<1> DEFINE new == [downloader |-> caller, modelId |-> m, deposit |-> value, totalClaimed |-> 0,
                   serviceDeadline |-> deadline, settlementDeadline |-> deadline + Grace,
                   closed |-> FALSE]
<1>1. /\ UNCHANGED <<models, claimed, paid, tx, now>>
      /\ sessions' = [sessions EXCEPT ![s] = new]
      /\ balance' = balance + value
      /\ ~tx.active /\ sessions[s] = NoSession /\ models[m] # NoModel
  BY DEF OpenSession, Opened, Active, Registered
<1>2. value \in Nat \ {0} /\ deadline \in Uint48 /\ deadline + Grace \in Uint48
  BY DEF OpenSession, ChannelAssumption, Uint48
<1>3. new \in Session
  BY <1>2 DEF Session, ChannelAssumption
<1>4. TypeOK'
  BY <1>1, <1>2, <1>3, TypeParts, TypePartsNext DEF ChannelInv
<1>5. sessions'[s] = new /\ \A t \in SessionId : t # s => sessions'[t] = sessions[t]
  BY <1>1, TypeParts DEF ChannelInv
<1>6. sessions'[s] # NoSession
  BY <1>3, <1>5 DEF ChannelAssumption
<1>7. Charged(Current)'
  <2> SUFFICES ASSUME NEW t \in SessionId
               PROVE  IF sessions'[t] = NoSession THEN claimed[t] = {}
                      ELSE LET k == sessions'[t].modelId
                           IN  /\ models[k] # NoModel
                               /\ claimed[t] \subseteq 0..(models[k].chunkCount - 1)
                               /\ sessions'[t].totalClaimed = models[k].chunkPrice * Cardinality(claimed[t])
                               /\ sessions'[t].totalClaimed <= sessions'[t].deposit
    BY <1>1 DEF Charged, Current
  <2>1. CASE t = s
    <3>1. claimed[s] = {}
      BY <1>1 DEF Charged, Current, ChannelInv
    <3>2. Cardinality(claimed[s]) = 0
      BY <3>1, FS_EmptySet
    <3>3. models[m].chunkPrice \in Nat
      BY <1>1, TypeParts DEF ChannelInv, Terms
    <3>4. models[m].chunkPrice * Cardinality(claimed[s]) = 0
      BY <3>2, <3>3
    <3>5. sessions'[s].modelId = m /\ sessions'[s].totalClaimed = 0 /\ sessions'[s].deposit = value
      BY <1>5
    <3> QED BY <1>1, <1>2, <1>6, <2>1, <3>1, <3>4, <3>5
  <2>2. CASE t # s
    BY <1>5, <2>2 DEF Charged, Current, ChannelInv
  <2> QED BY <2>1, <2>2
<1>8. LedgerMatches'
  <2> SUFFICES ASSUME NEW t \in SessionId
               PROVE  /\ paid[t].creator + paid[t].seeders + 0
                           = IF sessions'[t] # NoSession THEN sessions'[t].totalClaimed ELSE 0
                      /\ paid[t].downloader + 0
                           = IF sessions'[t] # NoSession /\ sessions'[t].closed
                             THEN sessions'[t].deposit - sessions'[t].totalClaimed ELSE 0
    BY <1>1 DEF LedgerMatches, Due, Opened
  <2>1. CASE t = s
    BY <1>1, <1>5, <1>6, <2>1 DEF LedgerMatches, Due, Opened, ChannelInv
  <2>2. CASE t # s
    BY <1>1, <1>5, <2>2 DEF LedgerMatches, Due, Opened, ChannelInv
  <2> QED BY <2>1, <2>2
<1>9. ~tx'.active
  BY <1>1
<1> QED BY <1>4, <1>7, <1>8, <1>9 DEF ChannelInv

\* When nothing is being paid, the ledger is that of a storage at rest.
LEMMA LedgerAtRest ==
    ASSUME TypeOK, ~tx.active
    PROVE  LedgerMatches <=> Ledger(Current)
<1> SUFFICES ASSUME NEW s \in SessionId
             PROVE  /\ Due(s).claims = 0 /\ Due(s).refund = 0
                    /\ paid[s].creator + paid[s].seeders + 0 = paid[s].creator + paid[s].seeders
                    /\ paid[s].downloader + 0 = paid[s].downloader
  BY DEF LedgerMatches, Ledger, Current, Opened
<1>1. paid[s] \in Paid
  BY TypeParts
<1> QED BY <1>1 DEF Due, Paid

\* The checks and effects of settleBatch keep the invariant: the batch marks as
\* many new chunks as it charges for, and what it charges is now due.
LEMMA SettleBatchKeepsInv ==
    ASSUME ChannelAssumption, ChannelInv,
           NEW s \in SessionId, NEW batch \in Batch(s), SettleBatch(s, batch)
    PROVE  ChannelInv'
<1> DEFINE m == sessions[s].modelId
           n == Len(batch)
           total == models[m].chunkPrice * n
           creatorAmount == CreatorAmount(total, models[m].creatorShareBps)
<1>1. /\ ~tx.active
      /\ sessions[s] # NoSession /\ ~sessions[s].closed /\ models[m] # NoModel
      /\ sessions[s].totalClaimed + total <= sessions[s].deposit
      /\ DistinctChunks(batch)
      /\ claimed' = [claimed EXCEPT ![s] = @ \cup Chunks(batch)]
      /\ sessions' = [sessions EXCEPT ![s].totalClaimed = @ + total]
      /\ tx' = [active |-> TRUE, session |-> s, creatorDue |-> creatorAmount,
                seederDue |-> total - creatorAmount, refundDue |-> 0,
                calling |-> FALSE, saved |-> Current]
      /\ UNCHANGED <<models, balance, paid, now>>
  BY DEF SettleBatch, BatchTotal, Open, Opened, Active, Registered
<1>2. /\ n \in Nat /\ DOMAIN batch = 1..n /\ batch \in [1..n -> Claim]
      /\ \A i \in 1..n : ValidClaim(s, batch[i])
  BY BatchType
<1>3. /\ sessions[s] \in Session /\ m \in ModelId /\ models[m] \in Terms
      /\ models[m].chunkPrice \in Nat /\ models[m].chunkCount \in Nat
      /\ models[m].creatorShareBps \in 0..BpsDenominator
      /\ sessions[s].totalClaimed \in Nat /\ sessions[s].deposit \in Nat
  <2>1. sessions[s] \in Session
    BY <1>1, TypeParts DEF ChannelInv
  <2>2. m \in ModelId
    BY <2>1 DEF Session
  <2>3. models[m] \in Terms
    BY <1>1, <2>2, TypeParts DEF ChannelInv
  <2>4. /\ models[m].chunkPrice \in Nat /\ models[m].chunkCount \in Nat
        /\ models[m].creatorShareBps \in 0..BpsDenominator
    BY <2>3, TermsType
  <2>5. sessions[s].totalClaimed \in Nat /\ sessions[s].deposit \in Nat
    BY <2>1, SessionType
  <2> HIDE DEF m
  <2> QED BY <2>1, <2>2, <2>3, <2>4, <2>5
<1>4. total \in Nat
  BY <1>2, <1>3
<1>5. creatorAmount \in Nat /\ total - creatorAmount \in Nat
  <2>1. creatorAmount \in Nat /\ creatorAmount <= total
    BY <1>3, <1>4, CreatorAmountBound
  <2> QED BY <1>4, <2>1
<1> HIDE DEF total, creatorAmount
<1>6. \A x \in Chunks(batch) : x \in 0..(models[m].chunkCount - 1) /\ x \notin claimed[s]
  <2>1. ASSUME NEW i \in 1..n
        PROVE  batch[i].chunkIndex \in 0..(models[m].chunkCount - 1)
               /\ batch[i].chunkIndex \notin claimed[s]
    <3>1. batch[i].chunkIndex \in Nat
      BY <1>2, ChunkIndexType
    <3>2. batch[i].chunkIndex < models[m].chunkCount /\ batch[i].chunkIndex \notin claimed[s]
      BY <1>2 DEF ValidClaim
    <3> QED BY <1>3, <3>1, <3>2
  <2> QED BY <1>2, <2>1 DEF Chunks
<1>7. /\ claimed[s] \subseteq 0..(models[m].chunkCount - 1)
      /\ sessions[s].totalClaimed = models[m].chunkPrice * Cardinality(claimed[s])
  BY <1>1 DEF ChannelInv, Charged, Current
<1>8. IsFiniteSet(claimed[s]) /\ Cardinality(claimed[s]) \in Nat
  <2>1. IsFiniteSet(0..(models[m].chunkCount - 1))
    <3>1. 0 \in Int /\ models[m].chunkCount - 1 \in Int
      BY <1>3
    <3> QED BY <3>1, FS_Interval
  <2>2. IsFiniteSet(claimed[s])
    BY <1>7, <2>1, FS_Subset
  <2> QED BY <2>2, FS_CardinalityType
<1>9. IsFiniteSet(Chunks(batch)) /\ Cardinality(Chunks(batch)) = n
  BY <1>1, <1>2, BatchMarksItsLength
<1>10. Cardinality(claimed[s] \cup Chunks(batch)) = Cardinality(claimed[s]) + n
  <2>1. claimed[s] \cap Chunks(batch) = {}
    BY <1>6
  <2> QED BY <1>8, <1>9, <2>1, DisjointSum
<1>11. models[m].chunkPrice * Cardinality(claimed[s] \cup Chunks(batch))
         = sessions[s].totalClaimed + total
  BY <1>2, <1>3, <1>7, <1>8, <1>10 DEF total
<1>12. Current \in Storage
  BY DEF ChannelInv, TypeOK
<1>13. tx' \in Transaction /\ tx'.active
  BY <1>1, <1>5, <1>12 DEF Transaction
<1>14. /\ claimed'[s] = claimed[s] \cup Chunks(batch)
       /\ sessions'[s] = [sessions[s] EXCEPT !.totalClaimed = @ + total]
       /\ \A t \in SessionId : t # s => sessions'[t] = sessions[t] /\ claimed'[t] = claimed[t]
  BY <1>1, TypeParts DEF ChannelInv
<1>15. sessions'[s] \in Session
  <2>1. sessions[s].totalClaimed + total \in Nat
    BY <1>3, <1>4
  <2> QED BY <1>3, <1>14, <2>1 DEF Session
<1>16. TypeOK'
  <2>1. sessions' \in [SessionId -> Session \cup {NoSession}]
    <3>1. DOMAIN sessions' = SessionId /\ sessions' = [t \in SessionId |-> sessions'[t]]
      BY <1>1, TypeParts DEF ChannelInv
    <3>2. \A t \in SessionId : sessions'[t] \in Session \cup {NoSession}
      BY <1>14, <1>15, TypeParts DEF ChannelInv
    <3> QED BY <3>1, <3>2
  <2>2. claimed' \in [SessionId -> SUBSET Nat]
    <3>1. Chunks(batch) \subseteq Nat
      BY <1>3, <1>6
    <3> QED BY <1>1, <3>1, TypeParts DEF ChannelInv
  <2> QED BY <1>1, <1>13, <2>1, <2>2, TypeParts, TypePartsNext DEF ChannelInv
<1>17. sessions'[s] # NoSession
  BY <1>15 DEF ChannelAssumption
<1>18. /\ sessions'[s].modelId = m /\ sessions'[s].deposit = sessions[s].deposit
       /\ sessions'[s].closed = FALSE /\ sessions'[s].totalClaimed = sessions[s].totalClaimed + total
  BY <1>1, <1>3, <1>14, <1>15 DEF Session
<1>19. Charged(Current)'
  <2> SUFFICES ASSUME NEW t \in SessionId
               PROVE  IF sessions'[t] = NoSession THEN claimed'[t] = {}
                      ELSE LET k == sessions'[t].modelId
                           IN  /\ models[k] # NoModel
                               /\ claimed'[t] \subseteq 0..(models[k].chunkCount - 1)
                               /\ sessions'[t].totalClaimed = models[k].chunkPrice * Cardinality(claimed'[t])
                               /\ sessions'[t].totalClaimed <= sessions'[t].deposit
    BY <1>1 DEF Charged, Current
  <2>1. CASE t = s
    <3>1. claimed'[s] \subseteq 0..(models[m].chunkCount - 1)
      BY <1>6, <1>7, <1>14
    <3>2. sessions'[s].totalClaimed = models[m].chunkPrice * Cardinality(claimed'[s])
      BY <1>11, <1>14, <1>18
    <3>3. sessions'[s].totalClaimed <= sessions'[s].deposit
      BY <1>1, <1>18
    <3> QED BY <1>1, <1>17, <1>18, <2>1, <3>1, <3>2, <3>3
  <2>2. CASE t # s
    BY <1>14, <2>2 DEF Charged, Current, ChannelInv
  <2> QED BY <2>1, <2>2
<1>20. LedgerMatches'
  <2>1. Ledger(Current)
    BY <1>1, LedgerAtRest DEF ChannelInv
  <2> SUFFICES ASSUME NEW t \in SessionId
               PROVE  /\ paid[t].creator + paid[t].seeders + Due(t)'.claims
                           = IF sessions'[t] # NoSession THEN sessions'[t].totalClaimed ELSE 0
                      /\ paid[t].downloader + Due(t)'.refund
                           = IF sessions'[t] # NoSession /\ sessions'[t].closed
                             THEN sessions'[t].deposit - sessions'[t].totalClaimed ELSE 0
    BY <1>1 DEF LedgerMatches, Opened
  <2>2. paid[t].creator \in Nat /\ paid[t].seeders \in Nat /\ paid[t].downloader \in Nat
    BY TypeParts DEF ChannelInv, Paid
  <2>3. CASE t = s
    <3>1. Due(s)'.claims = creatorAmount + (total - creatorAmount) /\ Due(s)'.refund = 0
      BY <1>1 DEF Due
    <3>2. Due(s)'.claims = total
      BY <1>4, <1>5, <3>1
    <3>3. paid[s].creator + paid[s].seeders = sessions[s].totalClaimed /\ paid[s].downloader = 0
      BY <1>1, <2>1 DEF Ledger, Current
    <3> QED BY <1>17, <1>18, <2>2, <2>3, <3>1, <3>2, <3>3
  <2>4. CASE t # s
    <3>1. Due(t)'.claims = 0 /\ Due(t)'.refund = 0
      BY <1>1, <2>4 DEF Due
    <3>2. sessions'[t] = sessions[t]
      BY <1>14, <2>4
    <3>3. /\ paid[t].creator + paid[t].seeders
               = IF sessions[t] # NoSession THEN sessions[t].totalClaimed ELSE 0
          /\ paid[t].downloader
               = IF sessions[t] # NoSession /\ sessions[t].closed
                 THEN sessions[t].deposit - sessions[t].totalClaimed ELSE 0
      BY <2>1 DEF Ledger, Current
    <3> QED BY <2>2, <3>1, <3>2, <3>3
  <2> QED BY <2>3, <2>4
<1>21. Charged(tx.saved)' /\ Ledger(tx.saved)' /\ SameTerms(tx.saved)'
  <2>1. tx'.saved = Current
    BY <1>1
  <2>2. Charged(Current) /\ Ledger(Current)
    BY <1>1, LedgerAtRest DEF ChannelInv
  <2>3. \A t \in SessionId : sessions'[t] # NoSession =>
           sessions[t] # NoSession /\ sessions[t].modelId = sessions'[t].modelId
    BY <1>1, <1>14, <1>18
  <2>4. SameTerms(tx.saved)'
    BY <1>1, <2>1, <2>2, <2>3 DEF SameTerms, Current, Charged
  <2> QED BY <2>1, <2>2, <2>4 DEF Charged, Ledger, Current
<1> QED BY <1>13, <1>16, <1>19, <1>20, <1>21 DEF ChannelInv

\* The checks and effects of reclaimUnspent keep the invariant: the session
\* closes and the rest of its deposit is due to the downloader.
LEMMA ReclaimUnspentKeepsInv ==
    ASSUME ChannelAssumption, ChannelInv,
           NEW caller \in Account, NEW s \in SessionId, ReclaimUnspent(caller, s)
    PROVE  ChannelInv'
<1> DEFINE rest == sessions[s].deposit - sessions[s].totalClaimed
<1>1. /\ ~tx.active
      /\ sessions[s] # NoSession /\ ~sessions[s].closed
      /\ sessions' = [sessions EXCEPT ![s].closed = TRUE]
      /\ tx' = [active |-> TRUE, session |-> s, creatorDue |-> 0, seederDue |-> 0,
                refundDue |-> rest, calling |-> FALSE, saved |-> Current]
      /\ UNCHANGED <<models, claimed, balance, paid, now>>
  BY DEF ReclaimUnspent, Open, Opened
<1>2. sessions[s] \in Session /\ sessions[s].totalClaimed <= sessions[s].deposit
  BY <1>1, TypeParts DEF ChannelInv, Charged, Current
<1>3. rest \in Nat
  BY <1>2, SessionType
<1> HIDE DEF rest
<1>4. Current \in Storage
  BY DEF ChannelInv, TypeOK
<1>5. tx' \in Transaction /\ tx'.active
  BY <1>1, <1>3, <1>4 DEF Transaction
<1>6. /\ sessions'[s] = [sessions[s] EXCEPT !.closed = TRUE]
      /\ \A t \in SessionId : t # s => sessions'[t] = sessions[t]
  BY <1>1, TypeParts DEF ChannelInv
<1>7. sessions'[s] \in Session
  BY <1>2, <1>6 DEF Session
<1>8. TypeOK'
  <2>1. DOMAIN sessions' = SessionId /\ sessions' = [t \in SessionId |-> sessions'[t]]
    BY <1>1, TypeParts DEF ChannelInv
  <2>2. \A t \in SessionId : sessions'[t] \in Session \cup {NoSession}
    BY <1>6, <1>7, TypeParts DEF ChannelInv
  <2> QED BY <1>1, <1>5, <2>1, <2>2, TypeParts, TypePartsNext DEF ChannelInv
<1>9. /\ sessions'[s] # NoSession /\ sessions'[s].closed
      /\ sessions'[s].modelId = sessions[s].modelId /\ sessions'[s].deposit = sessions[s].deposit
      /\ sessions'[s].totalClaimed = sessions[s].totalClaimed
  BY <1>2, <1>6, <1>7 DEF Session, ChannelAssumption
<1>10. Charged(Current)'
  BY <1>1, <1>6, <1>9 DEF Charged, Current, ChannelInv
<1>11. Ledger(Current)
  BY <1>1, LedgerAtRest DEF ChannelInv
<1>12. LedgerMatches'
  <2> SUFFICES ASSUME NEW t \in SessionId
               PROVE  /\ paid[t].creator + paid[t].seeders + Due(t)'.claims
                           = IF sessions'[t] # NoSession THEN sessions'[t].totalClaimed ELSE 0
                      /\ paid[t].downloader + Due(t)'.refund
                           = IF sessions'[t] # NoSession /\ sessions'[t].closed
                             THEN sessions'[t].deposit - sessions'[t].totalClaimed ELSE 0
    BY <1>1 DEF LedgerMatches, Opened
  <2>1. paid[t].creator \in Nat /\ paid[t].seeders \in Nat /\ paid[t].downloader \in Nat
    BY TypeParts DEF ChannelInv, Paid
  <2>2. /\ paid[t].creator + paid[t].seeders
              = IF sessions[t] # NoSession THEN sessions[t].totalClaimed ELSE 0
        /\ paid[t].downloader
              = IF sessions[t] # NoSession /\ sessions[t].closed
                THEN sessions[t].deposit - sessions[t].totalClaimed ELSE 0
    BY <1>11 DEF Ledger, Current
  <2>3. CASE t = s
    <3>1. Due(s)'.claims = 0 /\ Due(s)'.refund = rest
      <4>1. Due(s)' = [claims |-> 0 + 0, refund |-> rest]
        BY <1>1 DEF Due
      <4> QED BY <4>1
    <3>2. paid[s].downloader = 0 /\ paid[s].creator + paid[s].seeders = sessions[s].totalClaimed
      BY <1>1, <2>2, <2>3
    <3>3. rest = sessions'[s].deposit - sessions'[s].totalClaimed
      BY <1>9 DEF rest
    <3> QED BY <1>3, <1>9, <2>1, <2>3, <3>1, <3>2, <3>3
  <2>4. CASE t # s
    <3>1. Due(t)'.claims = 0 /\ Due(t)'.refund = 0
      BY <1>1, <2>4 DEF Due
    <3>2. sessions'[t] = sessions[t]
      BY <1>6, <2>4
    <3> QED BY <2>1, <2>2, <3>1, <3>2
  <2> QED BY <2>3, <2>4
<1>13. Charged(tx.saved)' /\ Ledger(tx.saved)' /\ SameTerms(tx.saved)'
  <2>1. tx'.saved = Current
    BY <1>1
  <2>2. Charged(Current)
    BY DEF ChannelInv
  <2>3. \A t \in SessionId : sessions'[t] # NoSession =>
           sessions[t] # NoSession /\ sessions[t].modelId = sessions'[t].modelId
    BY <1>1, <1>6, <1>9
  <2>4. SameTerms(tx.saved)'
    BY <1>1, <2>1, <2>2, <2>3 DEF SameTerms, Current, Charged
  <2> QED BY <1>11, <2>1, <2>2, <2>4 DEF Charged, Ledger, Current
<1> QED BY <1>5, <1>8, <1>10, <1>12, <1>13 DEF ChannelInv

\* With nothing due any more, committing keeps the invariant.
LEMMA CommitKeepsInv ==
    ASSUME ChannelAssumption, ChannelInv, Commit
    PROVE  ChannelInv'
<1>1. /\ tx.active /\ tx.creatorDue = 0 /\ tx.seederDue = 0 /\ tx.refundDue = 0
      /\ tx' = NoTx
      /\ UNCHANGED <<models, sessions, claimed, balance, paid, now>>
  BY DEF Commit, channel
<1>2. ~tx'.active
  BY <1>1 DEF NoTx
<1>3. TypeOK'
  BY <1>1, TypeParts, TypePartsNext DEF ChannelInv
<1>4. Charged(Current)'
  BY <1>1 DEF Charged, Current, ChannelInv
<1>5. LedgerMatches'
  <2>1. \A s \in SessionId : Due(s)'.claims = Due(s).claims /\ Due(s)'.refund = Due(s).refund
    BY <1>1, <1>2 DEF Due
  <2> QED BY <1>1, <2>1 DEF LedgerMatches, Opened, ChannelInv
<1> QED BY <1>2, <1>3, <1>4, <1>5 DEF ChannelInv

\* A revert keeps the invariant: it brings back a storage at rest.
LEMMA RevertKeepsInv ==
    ASSUME ChannelAssumption, ChannelInv, Revert
    PROVE  ChannelInv'
<1>1. /\ tx.active /\ tx' = NoTx /\ now' = now
      /\ models' = tx.saved.models /\ sessions' = tx.saved.sessions
      /\ claimed' = tx.saved.claimed /\ balance' = tx.saved.balance /\ paid' = tx.saved.paid
  BY DEF Revert
<1>2. ~tx'.active
  BY <1>1 DEF NoTx
<1>3. tx.saved \in Storage
  BY <1>1, RunningTx DEF ChannelInv, Transaction
<1>4. TypeOK'
  BY <1>1, <1>3, TypeParts, TypePartsNext DEF ChannelInv, Storage
<1>5. Charged(tx.saved) /\ Ledger(tx.saved)
  BY <1>1 DEF ChannelInv
<1>6. Charged(Current)' /\ Ledger(Current)'
  BY <1>1, <1>5 DEF Charged, Ledger, Current
<1>7. LedgerMatches'
  <2> SUFFICES ASSUME NEW s \in SessionId
               PROVE  /\ Due(s)'.claims = 0 /\ Due(s)'.refund = 0
                      /\ paid'[s].creator + paid'[s].seeders + 0 = paid'[s].creator + paid'[s].seeders
                      /\ paid'[s].downloader + 0 = paid'[s].downloader
    BY <1>6 DEF LedgerMatches, Ledger, Current, Opened
  <2>1. paid'[s] \in Paid
    BY <1>4, TypePartsNext
  <2> QED BY <1>2, <2>1 DEF Due, Paid
<1> QED BY <1>2, <1>4, <1>6, <1>7 DEF ChannelInv

\* Time keeps the invariant.
LEMMA TickKeepsInv ==
    ASSUME ChannelAssumption, ChannelInv, Tick
    PROVE  ChannelInv'
<1>1. /\ ~tx.active /\ now' \in Time
      /\ UNCHANGED <<models, sessions, claimed, balance, paid, tx>>
  BY TypeParts DEF Tick, channel, Time, ChannelInv, ChannelAssumption
<1>2. TypeOK'
  BY <1>1, TypeParts, TypePartsNext DEF ChannelInv
<1>3. Charged(Current)' /\ LedgerMatches'
  BY <1>1 DEF Charged, Current, LedgerMatches, Due, Opened, ChannelInv
<1> QED BY <1>1, <1>2, <1>3 DEF ChannelInv

-----------------------------------------------------------------------------
(* The invariant.                                                          *)

\* The invariant holds before any session.
LEMMA InitChannelInv == ASSUME ChannelAssumption, Init PROVE ChannelInv
<1>1. /\ models = [m \in ModelId |-> NoModel] /\ sessions = [s \in SessionId |-> NoSession]
      /\ claimed = [s \in SessionId |-> {}] /\ balance = 0 /\ now = 0 /\ tx = NoTx
      /\ paid = [s \in SessionId |-> [creator |-> 0, seeders |-> 0, downloader |-> 0]]
  BY DEF Init, RegistryInit
<1>2. ~tx.active
  BY <1>1 DEF NoTx
<1>3. TypeOK
  BY <1>1, TypeParts DEF Paid, Time, ChannelAssumption
<1>4. Charged(Current)
  BY <1>1 DEF Charged, Current
<1>5. Ledger(Current)
  BY <1>1 DEF Ledger, Current
<1> QED BY <1>2, <1>3, <1>4, <1>5, LedgerAtRest DEF ChannelInv

\* Every step of the channel preserves the invariant.
LEMMA NextChannelInv == ASSUME ChannelAssumption, ChannelInv, [Next]_vars PROVE ChannelInv'
<1>1. CASE UNCHANGED vars
  <2>1. UNCHANGED <<models, sessions, claimed, balance, paid, tx, now>>
    BY <1>1 DEF vars, channel
  <2>2. TypeOK'
    BY <2>1, TypeParts, TypePartsNext DEF ChannelInv
  <2>3. Charged(Current)'
    BY <2>1 DEF ChannelInv, Charged, Current
  <2>4. LedgerMatches'
    BY <2>1 DEF ChannelInv, LedgerMatches, Due, Opened
  <2>5. ASSUME tx.active PROVE (Charged(tx.saved) /\ Ledger(tx.saved) /\ SameTerms(tx.saved))'
    <3>1. Charged(tx.saved) /\ Ledger(tx.saved) /\ SameTerms(tx.saved)
      BY <2>5 DEF ChannelInv
    <3>2. Charged(tx.saved)' /\ Ledger(tx.saved)'
      BY <2>1, <3>1 DEF Charged, Ledger
    <3>3. SameTerms(tx.saved)'
      BY <2>1, <3>1 DEF SameTerms
    <3> QED BY <3>2, <3>3
  <2> QED BY <2>1, <2>2, <2>3, <2>4, <2>5 DEF ChannelInv
<1>2. CASE RegistryCall
  BY <1>2, RegistryCallKeepsInv
<1>3. ASSUME NEW caller \in Account, NEW s \in SessionId, NEW m \in ModelId, NEW value \in Deposit,
             NEW deadline \in Uint48, OpenSession(caller, s, m, value, deadline)
      PROVE  ChannelInv'
  BY <1>3, OpenSessionKeepsInv
<1>4. ASSUME NEW caller \in Account, NEW s \in SessionId, ReclaimUnspent(caller, s)
      PROVE  ChannelInv'
  BY <1>4, ReclaimUnspentKeepsInv
<1>5. ASSUME NEW s \in SessionId, NEW batch \in Batch(s), SettleBatch(s, batch)
      PROVE  ChannelInv'
  BY <1>5, SettleBatchKeepsInv
<1>6. CASE PayCreator \/ PaySeeder \/ PayRefund
  BY <1>6, TransferKeepsInv
<1>7. CASE Commit
  BY <1>7, CommitKeepsInv
<1>8. CASE Revert
  BY <1>8, RevertKeepsInv
<1>9. CASE Tick
  BY <1>9, TickKeepsInv
<1> QED BY <1>1, <1>2, <1>3, <1>4, <1>5, <1>6, <1>7, <1>8, <1>9 DEF Next

\* ChannelInv is an inductive invariant of the channel.
THEOREM ChannelInvariant == ASSUME ChannelAssumption PROVE Spec => []ChannelInv
<1>1. Init => ChannelInv
  BY InitChannelInv
<1>2. ChannelInv /\ [Next]_vars => ChannelInv'
  BY NextChannelInv
<1> QED BY <1>1, <1>2, PTL DEF Spec

\* Every variable of the channel keeps its type; no deadline overflows, no
\* balance or due goes below zero.
THEOREM TypeCorrect == ASSUME ChannelAssumption PROVE Spec => []TypeOK
<1>1. ChannelInv => TypeOK
  BY DEF ChannelInv
<1> QED BY <1>1, ChannelInvariant, PTL

\* Whatever is batched by whomever, with whatever callbacks and reverts: each
\* chunk of a session is charged once, at the registered price, within the
\* deposit.
THEOREM ChargesCorrect == ASSUME ChannelAssumption PROVE Spec => []ChargedOncePerChunk
<1>1. ChannelInv => ChargedOncePerChunk
  BY DEF ChannelInv, Charged, Current, ChargedOncePerChunk, Opened, Registered
<1> QED BY <1>1, ChannelInvariant, PTL

\* What a session paid out and still owes is what it was charged, and what it
\* refunds is exactly the rest.
THEOREM LedgerCorrect == ASSUME ChannelAssumption PROVE Spec => []LedgerMatches
<1>1. ChannelInv => LedgerMatches
  BY DEF ChannelInv
<1> QED BY <1>1, ChannelInvariant, PTL

-----------------------------------------------------------------------------
(* What the running transaction will have done when it commits.            *)

\* The running transaction has charged its session a total, and what it has
\* paid and still owes to creator and seeder is the split of that total.
Splitting(s) ==
    LET st == tx.saved IN
    /\ tx.refundDue = 0
    /\ ~sessions[s].closed
    /\ paid[s].downloader = st.paid[s].downloader
    /\ \E total \in 1..(st.sessions[s].deposit - st.sessions[s].totalClaimed) :
          LET creator == CreatorAmount(total, st.models[st.sessions[s].modelId].creatorShareBps) IN
          /\ sessions[s].totalClaimed = st.sessions[s].totalClaimed + total
          /\ paid[s].creator + tx.creatorDue = st.paid[s].creator + creator
          /\ paid[s].seeders + tx.seederDue = st.paid[s].seeders + (total - creator)

\* The running transaction has closed its session after the grace period.
Refunding(s) ==
    LET st == tx.saved IN
    /\ tx.creatorDue = 0 /\ tx.seederDue = 0
    /\ sessions[s].closed /\ now > sessions[s].settlementDeadline
    /\ sessions[s].totalClaimed = st.sessions[s].totalClaimed
    /\ claimed[s] = st.claimed[s]
    /\ paid[s].creator = st.paid[s].creator /\ paid[s].seeders = st.paid[s].seeders

\* A transaction is about one session, open when it began, and changes no other.
TxInv ==
    tx.active =>
        LET s == tx.session
            st == tx.saved
        IN  /\ st.sessions[s] # NoSession /\ ~st.sessions[s].closed
            /\ sessions[s] # NoSession
            /\ sessions[s].modelId = st.sessions[s].modelId
            /\ sessions[s].deposit = st.sessions[s].deposit
            /\ sessions[s].serviceDeadline = st.sessions[s].serviceDeadline
            /\ sessions[s].settlementDeadline = st.sessions[s].settlementDeadline
            /\ \A t \in SessionId : t # s =>
                  /\ sessions[t] = st.sessions[t] /\ paid[t] = st.paid[t]
                  /\ claimed[t] = st.claimed[t]
            /\ Splitting(s) \/ Refunding(s)

\* The effect of opening a session.
Opening(s, m, value) ==
    /\ ~tx.active
    /\ sessions[s] = NoSession /\ models[m] \in Terms
    /\ value \in Nat \ {0}
    /\ sessions'[s] # NoSession /\ ~sessions'[s].closed
    /\ sessions'[s].modelId = m /\ sessions'[s].deposit = value
    /\ sessions'[s].totalClaimed = 0
    /\ sessions'[s].settlementDeadline = sessions'[s].serviceDeadline + Grace
    /\ balance' = balance + value
    /\ \A t \in SessionId : t # s => sessions'[t] = sessions[t]
    /\ UNCHANGED <<models, claimed, paid, tx, now>>

\* The effect of the checks and effects of settleBatch.
Settling(s, total, creator) ==
    LET share == models[sessions[s].modelId].creatorShareBps IN
    /\ ~tx.active
    /\ sessions[s] # NoSession /\ ~sessions[s].closed
    /\ sessions[s].totalClaimed + total <= sessions[s].deposit
    /\ total \in Nat \ {0} /\ creator \in Nat /\ total - creator \in Nat
    /\ creator = CreatorAmount(total, share)
    /\ sessions' = [sessions EXCEPT ![s].totalClaimed = @ + total]
    /\ \A t \in SessionId : t # s => claimed'[t] = claimed[t]
    /\ tx' = [active |-> TRUE, session |-> s, creatorDue |-> creator,
              seederDue |-> total - creator, refundDue |-> 0,
              calling |-> FALSE, saved |-> Current]
    /\ UNCHANGED <<models, balance, paid, now>>

\* OpenSession opens a session that nobody used.
LEMMA OpenSessionEffect ==
    ASSUME ChannelAssumption, ChannelInv,
           NEW caller \in Account, NEW s \in SessionId, NEW m \in ModelId, NEW value \in Deposit,
           NEW deadline \in Uint48, OpenSession(caller, s, m, value, deadline)
    PROVE  Opening(s, m, value)
<1> DEFINE new == [downloader |-> caller, modelId |-> m, deposit |-> value, totalClaimed |-> 0,
                   serviceDeadline |-> deadline, settlementDeadline |-> deadline + Grace,
                   closed |-> FALSE]
<1>1. /\ UNCHANGED <<models, claimed, paid, tx, now>>
      /\ sessions' = [sessions EXCEPT ![s] = new]
      /\ balance' = balance + value
      /\ ~tx.active /\ sessions[s] = NoSession /\ models[m] # NoModel
  BY DEF OpenSession, Opened, Active, Registered
<1>2. value \in Nat \ {0} /\ deadline \in Uint48 /\ deadline + Grace \in Uint48
  BY DEF OpenSession, ChannelAssumption, Uint48
<1>3. new \in Session
  BY <1>2 DEF Session, ChannelAssumption
<1>4. sessions'[s] = new /\ \A t \in SessionId : t # s => sessions'[t] = sessions[t]
  BY <1>1, TypeParts DEF ChannelInv
<1>5. sessions'[s] # NoSession
  BY <1>3, <1>4 DEF ChannelAssumption
<1>6. models[m] \in Terms
  BY <1>1, TypeParts DEF ChannelInv
<1> QED BY <1>1, <1>2, <1>4, <1>5, <1>6 DEF Opening

\* SettleBatch charges something and splits it.
LEMMA SettleBatchEffect ==
    ASSUME ChannelAssumption, ChannelInv,
           NEW s \in SessionId, NEW batch \in Batch(s), SettleBatch(s, batch)
    PROVE  \E total \in Nat, creator \in Nat : Settling(s, total, creator)
<1> DEFINE m == sessions[s].modelId
           n == Len(batch)
           total == models[m].chunkPrice * n
           creator == CreatorAmount(total, models[m].creatorShareBps)
<1>1. /\ ~tx.active /\ n > 0
      /\ sessions[s] # NoSession /\ ~sessions[s].closed /\ models[m] # NoModel
      /\ sessions[s].totalClaimed + total <= sessions[s].deposit
      /\ claimed' = [claimed EXCEPT ![s] = @ \cup Chunks(batch)]
      /\ sessions' = [sessions EXCEPT ![s].totalClaimed = @ + total]
      /\ tx' = [active |-> TRUE, session |-> s, creatorDue |-> creator,
                seederDue |-> total - creator, refundDue |-> 0,
                calling |-> FALSE, saved |-> Current]
      /\ UNCHANGED <<models, balance, paid, now>>
  BY DEF SettleBatch, BatchTotal, Open, Opened, Active, Registered
<1>2. n \in Nat \ {0}
  BY <1>1, BatchType
<1>3. m \in ModelId /\ models[m] \in Terms
  <2>1. sessions[s] \in Session
    BY <1>1, TypeParts DEF ChannelInv
  <2>2. m \in ModelId
    BY <2>1 DEF Session
  <2> QED BY <1>1, <2>2, TypeParts DEF ChannelInv
<1>4. models[m].chunkPrice \in Nat \ {0} /\ models[m].creatorShareBps \in 0..BpsDenominator
  BY <1>3, TermsType DEF Terms
<1>5. total \in Nat \ {0}
  <2> HIDE DEF m, n
  <2>1. \A x, y \in Nat \ {0} : x * y \in Nat \ {0}
    OBVIOUS
  <2> QED BY <1>2, <1>4, <2>1
<1>6. creator \in Nat /\ total - creator \in Nat
  <2>1. creator \in Nat /\ creator <= total
    BY <1>4, <1>5, CreatorAmountBound
  <2> QED BY <1>5, <2>1
<1>7. \A t \in SessionId : t # s => claimed'[t] = claimed[t]
  BY <1>1, TypeParts DEF ChannelInv
<1> HIDE DEF n
<1>8. Settling(s, total, creator)
  BY <1>1, <1>5, <1>6, <1>7 DEF Settling
<1> QED BY <1>5, <1>6, <1>8

-----------------------------------------------------------------------------
(* The invariant of the running transaction.                               *)

\* The numbers of a transaction and of its session, now and as saved.
LEMMA TxTypes ==
    ASSUME ChannelAssumption, ChannelInv, tx.active
    PROVE  /\ tx \in Transaction /\ tx.session \in SessionId
           /\ tx.creatorDue \in Nat /\ tx.seederDue \in Nat /\ tx.refundDue \in Nat
           /\ tx.saved \in Storage
           /\ \A s \in SessionId :
                 /\ paid[s].creator \in Nat /\ paid[s].seeders \in Nat /\ paid[s].downloader \in Nat
                 /\ tx.saved.paid[s].creator \in Nat /\ tx.saved.paid[s].seeders \in Nat
                 /\ tx.saved.paid[s].downloader \in Nat
<1>1. tx \in Transaction
  BY RunningTx DEF ChannelInv
<1>2. /\ tx.session \in SessionId
      /\ tx.creatorDue \in Nat /\ tx.seederDue \in Nat /\ tx.refundDue \in Nat
      /\ tx.saved \in Storage
  BY <1>1 DEF Transaction
<1>3. tx.saved.paid \in [SessionId -> Paid]
  BY <1>2 DEF Storage
<1>4. paid \in [SessionId -> Paid]
  BY TypeParts DEF ChannelInv
<1> QED BY <1>1, <1>2, <1>3, <1>4 DEF Paid

\* A transfer only moves money from due to paid.
LEMMA TransferKeepsTx ==
    ASSUME ChannelAssumption, ChannelInv, TxInv, PayCreator \/ PaySeeder \/ PayRefund
    PROVE  TxInv'
<1> DEFINE s == tx.session
<1>1. tx.active /\ UNCHANGED <<models, sessions, claimed, now>>
  BY DEF PayCreator, PaySeeder, PayRefund
<1>2. /\ tx \in Transaction /\ s \in SessionId
      /\ tx.creatorDue \in Nat /\ tx.seederDue \in Nat /\ tx.refundDue \in Nat
      /\ paid[s].creator \in Nat /\ paid[s].seeders \in Nat /\ paid[s].downloader \in Nat
      /\ paid \in [SessionId -> Paid]
  BY <1>1, TxTypes, TypeParts DEF ChannelInv
<1>3. /\ tx'.active /\ tx'.session = s /\ tx'.saved = tx.saved
      /\ \A t \in SessionId : t # s => paid'[t] = paid[t]
      /\ paid'[s].creator + tx'.creatorDue = paid[s].creator + tx.creatorDue
      /\ paid'[s].seeders + tx'.seederDue = paid[s].seeders + tx.seederDue
      /\ tx.refundDue = 0 => tx'.refundDue = 0 /\ paid'[s].downloader = paid[s].downloader
      /\ tx.creatorDue = 0 => tx'.creatorDue = 0 /\ paid'[s].creator = paid[s].creator
      /\ tx.seederDue = 0 => tx'.seederDue = 0 /\ paid'[s].seeders = paid[s].seeders
  <2>1. CASE PayCreator
    BY <1>1, <1>2, <2>1 DEF PayCreator, Paid, Transaction
  <2>2. CASE PaySeeder
    BY <1>1, <1>2, <2>2 DEF PaySeeder, Paid, Transaction
  <2>3. CASE PayRefund
    BY <1>1, <1>2, <2>3 DEF PayRefund, Paid, Transaction
  <2> QED BY <2>1, <2>2, <2>3
<1>4. ASSUME Splitting(s) PROVE Splitting(tx.session)'
  <2>1. /\ tx.refundDue = 0 /\ ~sessions[s].closed
        /\ paid[s].downloader = tx.saved.paid[s].downloader
    BY <1>4 DEF Splitting
  <2>2. /\ tx'.refundDue = 0 /\ ~sessions'[s].closed
        /\ paid'[s].downloader = tx'.saved.paid[s].downloader
    BY <1>1, <1>3, <2>1
  <2>3. PICK total \in 1..(tx.saved.sessions[s].deposit - tx.saved.sessions[s].totalClaimed) :
            LET st == tx.saved
                creator == CreatorAmount(total, st.models[st.sessions[s].modelId].creatorShareBps) IN
            /\ sessions[s].totalClaimed = st.sessions[s].totalClaimed + total
            /\ paid[s].creator + tx.creatorDue = st.paid[s].creator + creator
            /\ paid[s].seeders + tx.seederDue = st.paid[s].seeders + (total - creator)
    BY <1>4 DEF Splitting
  <2> HIDE DEF s
  <2>4. LET st == tx'.saved
            creator == CreatorAmount(total, st.models[st.sessions[s].modelId].creatorShareBps) IN
        /\ total \in 1..(st.sessions[s].deposit - st.sessions[s].totalClaimed)
        /\ sessions'[s].totalClaimed = st.sessions[s].totalClaimed + total
        /\ paid'[s].creator + tx'.creatorDue = st.paid[s].creator + creator
        /\ paid'[s].seeders + tx'.seederDue = st.paid[s].seeders + (total - creator)
    BY <1>1, <1>3, <2>3
  <2> QED BY <1>3, <2>2, <2>4 DEF Splitting
<1>5. Refunding(s) => Refunding(tx.session)'
  BY <1>1, <1>3 DEF Refunding
<1>6. Splitting(s) \/ Refunding(s)
  BY <1>1 DEF TxInv
<1>7. /\ tx.saved.sessions[s] # NoSession /\ ~tx.saved.sessions[s].closed
      /\ sessions[s] # NoSession
      /\ sessions[s].modelId = tx.saved.sessions[s].modelId
      /\ sessions[s].deposit = tx.saved.sessions[s].deposit
      /\ sessions[s].serviceDeadline = tx.saved.sessions[s].serviceDeadline
      /\ sessions[s].settlementDeadline = tx.saved.sessions[s].settlementDeadline
      /\ \A t \in SessionId : t # s =>
            /\ sessions[t] = tx.saved.sessions[t] /\ paid[t] = tx.saved.paid[t]
            /\ claimed[t] = tx.saved.claimed[t]
  BY <1>1 DEF TxInv
<1>8. Splitting(tx.session)' \/ Refunding(tx.session)'
  BY <1>4, <1>5, <1>6
<1> QED BY <1>1, <1>3, <1>7, <1>8 DEF TxInv

\* settleBatch begins a split.
LEMMA SettlingBeginsTx ==
    ASSUME ChannelAssumption, ChannelInv, NEW s \in SessionId,
           NEW total \in Nat, NEW creator \in Nat, Settling(s, total, creator)
    PROVE  TxInv'
<1>1. /\ ~tx.active
      /\ sessions[s] # NoSession /\ ~sessions[s].closed
      /\ sessions[s].totalClaimed + total <= sessions[s].deposit
      /\ total \in Nat \ {0} /\ creator \in Nat /\ total - creator \in Nat
      /\ creator = CreatorAmount(total, models[sessions[s].modelId].creatorShareBps)
      /\ sessions' = [sessions EXCEPT ![s].totalClaimed = @ + total]
      /\ \A t \in SessionId : t # s => claimed'[t] = claimed[t]
      /\ tx' = [active |-> TRUE, session |-> s, creatorDue |-> creator,
                seederDue |-> total - creator, refundDue |-> 0,
                calling |-> FALSE, saved |-> Current]
      /\ UNCHANGED <<models, balance, paid, now>>
  BY DEF Settling
<1>2. /\ tx'.active /\ tx'.session = s /\ tx'.creatorDue = creator
      /\ tx'.seederDue = total - creator /\ tx'.refundDue = 0
      /\ tx'.saved.sessions = sessions /\ tx'.saved.paid = paid
      /\ tx'.saved.claimed = claimed /\ tx'.saved.models = models
  BY <1>1 DEF Current
<1>3. sessions[s] \in Session /\ sessions \in [SessionId -> Session \cup {NoSession}]
  BY <1>1, TypeParts DEF ChannelInv
<1>4. sessions'[s] = [sessions[s] EXCEPT !.totalClaimed = @ + total]
      /\ \A t \in SessionId : t # s => sessions'[t] = sessions[t]
  BY <1>1, <1>3
<1>5. sessions[s].totalClaimed \in Nat /\ sessions[s].deposit \in Nat
  BY <1>3, SessionType
<1>6. /\ sessions'[s].totalClaimed = sessions[s].totalClaimed + total
      /\ sessions'[s].modelId = sessions[s].modelId /\ sessions'[s].deposit = sessions[s].deposit
      /\ sessions'[s].serviceDeadline = sessions[s].serviceDeadline
      /\ sessions'[s].settlementDeadline = sessions[s].settlementDeadline
      /\ sessions'[s].closed = sessions[s].closed
  BY <1>3, <1>4 DEF Session
<1>7. sessions'[s] # NoSession
  <2>1. sessions'[s] \in Session
    BY <1>3, <1>4, <1>5 DEF Session
  <2> QED BY <2>1 DEF ChannelAssumption
<1>8. total \in 1..(sessions[s].deposit - sessions[s].totalClaimed)
  BY <1>1, <1>5
<1>9. Splitting(tx.session)'
  <2>1. /\ tx'.session = s /\ tx'.refundDue = 0 /\ ~sessions'[s].closed
        /\ paid'[s].downloader = tx'.saved.paid[s].downloader
    BY <1>1, <1>2, <1>6
  <2>2. total \in 1..(tx'.saved.sessions[s].deposit - tx'.saved.sessions[s].totalClaimed)
    BY <1>2, <1>8
  <2>3. /\ sessions'[s].totalClaimed = tx'.saved.sessions[s].totalClaimed + total
        /\ paid'[s].creator + tx'.creatorDue = tx'.saved.paid[s].creator + creator
        /\ paid'[s].seeders + tx'.seederDue = tx'.saved.paid[s].seeders + (total - creator)
    BY <1>1, <1>2, <1>6
  <2>4. creator = CreatorAmount(total,
                      tx'.saved.models[tx'.saved.sessions[s].modelId].creatorShareBps)
    BY <1>1, <1>2
  <2> QED BY <2>1, <2>2, <2>3, <2>4 DEF Splitting
<1> QED BY <1>1, <1>2, <1>4, <1>6, <1>7, <1>9 DEF TxInv

\* reclaimUnspent begins a refund.
LEMMA ReclaimBeginsTx ==
    ASSUME ChannelAssumption, ChannelInv,
           NEW caller \in Account, NEW s \in SessionId, ReclaimUnspent(caller, s)
    PROVE  TxInv'
<1>1. /\ sessions[s] # NoSession /\ ~sessions[s].closed
      /\ now > sessions[s].settlementDeadline
      /\ sessions' = [sessions EXCEPT ![s].closed = TRUE]
      /\ tx' = [active |-> TRUE, session |-> s, creatorDue |-> 0, seederDue |-> 0,
                refundDue |-> sessions[s].deposit - sessions[s].totalClaimed,
                calling |-> FALSE, saved |-> Current]
      /\ UNCHANGED <<models, claimed, balance, paid, now>>
  BY DEF ReclaimUnspent, Open, Opened
<1>2. /\ tx'.active /\ tx'.session = s /\ tx'.creatorDue = 0 /\ tx'.seederDue = 0
      /\ tx'.saved.sessions = sessions /\ tx'.saved.paid = paid
      /\ tx'.saved.claimed = claimed /\ tx'.saved.models = models
  BY <1>1 DEF Current
<1>3. sessions[s] \in Session /\ sessions \in [SessionId -> Session \cup {NoSession}]
  BY <1>1, TypeParts DEF ChannelInv
<1>4. sessions'[s] = [sessions[s] EXCEPT !.closed = TRUE]
      /\ \A t \in SessionId : t # s => sessions'[t] = sessions[t]
  BY <1>1, <1>3
<1>5. /\ sessions'[s].totalClaimed = sessions[s].totalClaimed
      /\ sessions'[s].modelId = sessions[s].modelId /\ sessions'[s].deposit = sessions[s].deposit
      /\ sessions'[s].serviceDeadline = sessions[s].serviceDeadline
      /\ sessions'[s].settlementDeadline = sessions[s].settlementDeadline
      /\ sessions'[s].closed
  BY <1>3, <1>4 DEF Session
<1>6. sessions'[s] # NoSession
  <2>1. sessions'[s] \in Session
    BY <1>3, <1>4 DEF Session
  <2> QED BY <2>1 DEF ChannelAssumption
<1>7. Refunding(tx.session)'
  BY <1>1, <1>2, <1>5 DEF Refunding
<1> QED BY <1>1, <1>2, <1>4, <1>5, <1>6, <1>7 DEF TxInv

\* Every step keeps it.
LEMMA NextTxInv ==
    ASSUME ChannelAssumption, ChannelInv, TxInv, [Next]_vars
    PROVE  TxInv'
<1>1. CASE UNCHANGED vars
  BY <1>1 DEF vars, channel, TxInv, Splitting, Refunding
<1>2. CASE RegistryCall
  BY <1>2 DEF RegistryCall, channel, TxInv, Splitting, Refunding
<1>3. ASSUME NEW caller \in Account, NEW s \in SessionId, NEW m \in ModelId, NEW value \in Deposit,
             NEW deadline \in Uint48, OpenSession(caller, s, m, value, deadline)
      PROVE  TxInv'
  BY <1>3 DEF OpenSession, TxInv
<1>4. ASSUME NEW caller \in Account, NEW s \in SessionId, ReclaimUnspent(caller, s)
      PROVE  TxInv'
  BY <1>4, ReclaimBeginsTx
<1>5. ASSUME NEW s \in SessionId, NEW batch \in Batch(s), SettleBatch(s, batch)
      PROVE  TxInv'
  BY <1>5, SettleBatchEffect, SettlingBeginsTx
<1>6. CASE PayCreator \/ PaySeeder \/ PayRefund
  BY <1>6, TransferKeepsTx
<1>7. CASE Commit
  BY <1>7 DEF Commit, TxInv, NoTx
<1>8. CASE Revert
  BY <1>8 DEF Revert, TxInv, NoTx
<1>9. CASE Tick
  BY <1>9 DEF Tick, TxInv
<1> QED BY <1>1, <1>2, <1>3, <1>4, <1>5, <1>6, <1>7, <1>8, <1>9 DEF Next

-----------------------------------------------------------------------------
(* What is committed.                                                      *)

\* A step changes the committed storage only by committing, opening a session,
\* or a registry call outside a transaction; a revert changes nothing of it.
LEMMA CommittedStep ==
    ASSUME ChannelAssumption, ChannelInv, [Next]_vars
    PROVE  \/ Committed' = Committed
           \/ Commit
           \/ \E s \in SessionId, m \in ModelId, value \in Deposit : Opening(s, m, value)
           \/ RegistryCall /\ ~tx.active
<1>1. CASE UNCHANGED vars
  BY <1>1 DEF vars, channel, Committed, Current
<1>2. CASE RegistryCall
  BY <1>2 DEF RegistryCall, channel, Committed
<1>3. ASSUME NEW caller \in Account, NEW s \in SessionId, NEW m \in ModelId, NEW value \in Deposit,
             NEW deadline \in Uint48, OpenSession(caller, s, m, value, deadline)
      PROVE  Opening(s, m, value)
  BY <1>3, OpenSessionEffect
<1>4. ASSUME NEW caller \in Account, NEW s \in SessionId, ReclaimUnspent(caller, s)
      PROVE  Committed' = Committed
  BY <1>4 DEF ReclaimUnspent, Committed
<1>5. ASSUME NEW s \in SessionId, NEW batch \in Batch(s), SettleBatch(s, batch)
      PROVE  Committed' = Committed
  BY <1>5 DEF SettleBatch, Committed
<1>6. CASE PayCreator \/ PaySeeder \/ PayRefund
  <2>1. tx.active /\ tx \in Transaction
    BY <1>6, RunningTx DEF PayCreator, PaySeeder, PayRefund, ChannelInv
  <2>2. tx'.active /\ tx'.saved = tx.saved
    BY <1>6, <2>1 DEF PayCreator, PaySeeder, PayRefund, Transaction
  <2> QED BY <2>1, <2>2 DEF Committed
<1>7. CASE Revert
  <2>1. tx.active /\ tx.saved \in Storage
    BY <1>7, RunningTx DEF Revert, ChannelInv, Transaction
  <2>2. tx.saved = [models |-> tx.saved.models, sessions |-> tx.saved.sessions,
                    claimed |-> tx.saved.claimed, balance |-> tx.saved.balance,
                    paid |-> tx.saved.paid]
    BY <2>1 DEF Storage
  <2>3. Current' = tx.saved
    BY <1>7, <2>2 DEF Revert, Current
  <2> QED BY <1>7, <2>1, <2>3 DEF Revert, Committed, NoTx
<1>8. CASE Tick
  BY <1>8 DEF Tick, channel, Committed, Current
<1> QED BY <1>1, <1>2, <1>3, <1>4, <1>5, <1>6, <1>7, <1>8 DEF Next

\* The committed storage is well-typed, charged and paid out.
LEMMA CommittedAtRest ==
    ASSUME ChannelAssumption, ChannelInv
    PROVE  Committed \in Storage /\ Charged(Committed) /\ Ledger(Committed)
<1>1. CASE tx.active
  BY <1>1, TxTypes DEF Committed, ChannelInv
<1>2. CASE ~tx.active
  BY <1>2, LedgerAtRest DEF Committed, ChannelInv, TypeOK
<1> QED BY <1>1, <1>2

\* What committing makes of the session of the transaction: a split of a total
\* that its deposit still covers, or its refund after the grace period; every
\* other session stays as it was.
CommitSplits(st, s) ==
    /\ ~sessions[s].closed
    /\ paid[s].downloader = st.paid[s].downloader
    /\ \E total \in 1..(st.sessions[s].deposit - st.sessions[s].totalClaimed) :
          LET creator == CreatorAmount(total, st.models[st.sessions[s].modelId].creatorShareBps) IN
          /\ sessions[s].totalClaimed = st.sessions[s].totalClaimed + total
          /\ paid[s].creator = st.paid[s].creator + creator
          /\ paid[s].seeders = st.paid[s].seeders + (total - creator)

CommitRefunds(st, s) ==
    /\ sessions[s].closed /\ now > sessions[s].settlementDeadline
    /\ sessions[s].totalClaimed = st.sessions[s].totalClaimed
    /\ claimed[s] = st.claimed[s]
    /\ paid[s].creator = st.paid[s].creator /\ paid[s].seeders = st.paid[s].seeders
    /\ paid[s].downloader = sessions[s].deposit - sessions[s].totalClaimed

LEMMA CommitEffect ==
    ASSUME ChannelAssumption, ChannelInv, TxInv, Commit
    PROVE  /\ Committed = tx.saved /\ Committed' = Current /\ Charged(Current)
           /\ UNCHANGED <<models, sessions, claimed, paid, now>>
           /\ \E s \in SessionId :
                 /\ Committed.sessions[s] # NoSession /\ ~Committed.sessions[s].closed
                 /\ sessions[s] # NoSession
                 /\ sessions[s].modelId = Committed.sessions[s].modelId
                 /\ sessions[s].deposit = Committed.sessions[s].deposit
                 /\ sessions[s].serviceDeadline = Committed.sessions[s].serviceDeadline
                 /\ sessions[s].settlementDeadline = Committed.sessions[s].settlementDeadline
                 /\ \A t \in SessionId : t # s =>
                       /\ sessions[t] = Committed.sessions[t] /\ paid[t] = Committed.paid[t]
                       /\ claimed[t] = Committed.claimed[t]
                 /\ CommitSplits(Committed, s) \/ CommitRefunds(Committed, s)
<1> DEFINE s == tx.session
<1>1. /\ tx.active /\ tx.creatorDue = 0 /\ tx.seederDue = 0 /\ tx.refundDue = 0
      /\ tx' = NoTx /\ UNCHANGED <<models, sessions, claimed, balance, paid, now>>
  BY DEF Commit, channel
<1>2. Committed = tx.saved /\ Committed' = Current /\ Charged(Current)
  BY <1>1 DEF Committed, Current, NoTx, ChannelInv
<1>3. /\ s \in SessionId
      /\ paid[s].creator \in Nat /\ paid[s].seeders \in Nat /\ paid[s].downloader \in Nat
  BY <1>1, TxTypes
<1>4. ASSUME Splitting(s) PROVE CommitSplits(Committed, s)
  <2>1. paid[s].creator + tx.creatorDue = paid[s].creator
        /\ paid[s].seeders + tx.seederDue = paid[s].seeders
    BY <1>1, <1>3
  <2> QED BY <1>2, <1>4, <2>1 DEF Splitting, CommitSplits
<1>5. ASSUME Refunding(s) PROVE CommitRefunds(Committed, s)
  <2>1. paid[s].downloader + Due(s).refund = sessions[s].deposit - sessions[s].totalClaimed
    BY <1>1, <1>3, <1>5 DEF ChannelInv, LedgerMatches, Opened, TxInv, Refunding
  <2>2. Due(s).refund = 0
    BY <1>1 DEF Due
  <2>3. paid[s].downloader = sessions[s].deposit - sessions[s].totalClaimed
    BY <1>3, <2>1, <2>2
  <2> QED BY <1>2, <1>5, <2>3 DEF Refunding, CommitRefunds
<1>6. CommitSplits(Committed, s) \/ CommitRefunds(Committed, s)
  BY <1>1, <1>4, <1>5 DEF TxInv
<1> HIDE DEF s
<1>7. /\ Committed.sessions[s] # NoSession /\ ~Committed.sessions[s].closed
      /\ sessions[s] # NoSession
      /\ sessions[s].modelId = Committed.sessions[s].modelId
      /\ sessions[s].deposit = Committed.sessions[s].deposit
      /\ sessions[s].serviceDeadline = Committed.sessions[s].serviceDeadline
      /\ sessions[s].settlementDeadline = Committed.sessions[s].settlementDeadline
      /\ \A t \in SessionId : t # s =>
            /\ sessions[t] = Committed.sessions[t] /\ paid[t] = Committed.paid[t]
            /\ claimed[t] = Committed.claimed[t]
  BY <1>1, <1>2 DEF TxInv, s
<1> QED BY <1>1, <1>2, <1>3, <1>6, <1>7

-----------------------------------------------------------------------------
(* Refunds.                                                                *)

\* In a storage, the settlement deadline of a session is the grace period after
\* its service deadline, and only a session past it is closed.
Deadlines(st) ==
    \A s \in SessionId : st.sessions[s] # NoSession =>
        /\ st.sessions[s].settlementDeadline = st.sessions[s].serviceDeadline + Grace
        /\ st.sessions[s].closed => now > st.sessions[s].settlementDeadline

\* What the types say of the sessions and payments of a storage.
LEMMA StorageTypes ==
    ASSUME ChannelAssumption, NEW st \in Storage, NEW s \in SessionId
    PROVE  /\ st.paid[s].creator \in Nat /\ st.paid[s].seeders \in Nat
           /\ st.paid[s].downloader \in Nat
           /\ st.sessions[s] # NoSession =>
                 /\ st.sessions[s] \in Session
                 /\ st.sessions[s].modelId \in ModelId
                 /\ st.sessions[s].deposit \in Nat \ {0} /\ st.sessions[s].totalClaimed \in Nat
                 /\ st.sessions[s].serviceDeadline \in Nat
                 /\ st.sessions[s].settlementDeadline \in Nat
<1>1. st.paid \in [SessionId -> Paid] /\ st.sessions \in [SessionId -> Session \cup {NoSession}]
  BY DEF Storage
<1>2. st.paid[s] \in Paid /\ st.sessions[s] \in Session \cup {NoSession}
  BY <1>1
<1> QED BY <1>2 DEF Paid, Session, Uint48, ChannelAssumption

\* Every step keeps the deadlines of what is committed: a transaction that
\* closes a session began after the grace period.
LEMMA NextDeadlines ==
    ASSUME ChannelAssumption, ChannelInv, TxInv, Deadlines(Committed), [Next]_vars
    PROVE  Deadlines(Committed)'
<1> SUFFICES ASSUME NEW s \in SessionId, Committed'.sessions[s] # NoSession
             PROVE  /\ Committed'.sessions[s].settlementDeadline
                         = Committed'.sessions[s].serviceDeadline + Grace
                    /\ Committed'.sessions[s].closed
                         => now' > Committed'.sessions[s].settlementDeadline
  BY DEF Deadlines
<1>1. now \in Nat /\ now' \in Nat /\ now' >= now
  <2>1. now \in Nat /\ (now' = now \/ now' = now + 1)
    BY TypeParts DEF ChannelInv, Time, Next, RegistryCall, OpenSession, ReclaimUnspent, SettleBatch,
       PayCreator, PaySeeder, PayRefund, Commit, Revert, Tick, vars, ChannelAssumption
  <2> QED BY <2>1
<1>2. Committed \in Storage
  BY CommittedAtRest
<1>3. CASE Committed' = Committed
  <2>1. /\ Committed.sessions[s] # NoSession
        /\ Committed.sessions[s].settlementDeadline = Committed.sessions[s].serviceDeadline + Grace
        /\ Committed.sessions[s].closed => now > Committed.sessions[s].settlementDeadline
    BY <1>3 DEF Deadlines
  <2>2. Committed.sessions[s].settlementDeadline \in Nat
    BY <1>2, <2>1, StorageTypes
  <2> QED BY <1>1, <1>3, <2>1, <2>2
<1>4. CASE Commit
  <2>1. /\ Committed' = Current /\ UNCHANGED <<sessions, now>>
        /\ \E r \in SessionId :
              /\ Committed.sessions[r] # NoSession /\ ~Committed.sessions[r].closed
              /\ sessions[r].serviceDeadline = Committed.sessions[r].serviceDeadline
              /\ sessions[r].settlementDeadline = Committed.sessions[r].settlementDeadline
              /\ \A t \in SessionId : t # r => sessions[t] = Committed.sessions[t]
              /\ CommitSplits(Committed, r) \/ CommitRefunds(Committed, r)
    BY <1>4, CommitEffect
  <2>2. Committed'.sessions = sessions
    BY <2>1 DEF Current
  <2>3. PICK r \in SessionId :
           /\ Committed.sessions[r] # NoSession
           /\ sessions[r].serviceDeadline = Committed.sessions[r].serviceDeadline
           /\ sessions[r].settlementDeadline = Committed.sessions[r].settlementDeadline
           /\ \A t \in SessionId : t # r => sessions[t] = Committed.sessions[t]
           /\ ~sessions[r].closed \/ now > sessions[r].settlementDeadline
    BY <2>1 DEF CommitSplits, CommitRefunds
  <2>4. CASE s = r
    BY <2>1, <2>2, <2>3, <2>4 DEF Deadlines
  <2>5. CASE s # r
    BY <2>1, <2>2, <2>3, <2>5 DEF Deadlines
  <2> QED BY <2>4, <2>5
<1>5. ASSUME NEW r \in SessionId, NEW m \in ModelId, NEW value \in Deposit, Opening(r, m, value)
      PROVE  /\ Committed'.sessions[s].settlementDeadline
                  = Committed'.sessions[s].serviceDeadline + Grace
             /\ Committed'.sessions[s].closed
                  => now' > Committed'.sessions[s].settlementDeadline
  <2>1. Committed = Current /\ Committed'.sessions = sessions' /\ now' = now
    BY <1>5 DEF Opening, Committed, Current
  <2> QED BY <1>5, <2>1 DEF Deadlines, Current, Opening
<1>6. CASE RegistryCall /\ ~tx.active
  <2>1. Committed'.sessions = Committed.sessions /\ now' = now
    BY <1>6 DEF RegistryCall, channel, Committed, Current
  <2> QED BY <2>1 DEF Deadlines
<1> QED BY <1>3, <1>4, <1>5, <1>6, CommittedStep

\* Money goes back only after the grace period, when no voucher of the session
\* can be settled any more.
LEMMA RefundsAreLate ==
    ASSUME ChannelAssumption, ChannelInv, TxInv, Deadlines(Committed)
    PROVE  RefundAfterGrace
<1> SUFFICES ASSUME NEW s \in SessionId, paid[s].downloader > 0
             PROVE  /\ now > sessions[s].serviceDeadline + Grace
                    /\ \A claim \in Claim : ~ValidClaim(s, claim)
  BY DEF RefundAfterGrace
<1>1. Committed \in Storage /\ Ledger(Committed)
  BY CommittedAtRest
<1>2. Committed.paid[s].downloader > 0
      => /\ Committed.sessions[s] # NoSession
         /\ now > Committed.sessions[s].settlementDeadline
         /\ Committed.sessions[s].settlementDeadline = Committed.sessions[s].serviceDeadline + Grace
  BY <1>1 DEF Ledger, Deadlines
<1>3. /\ now > sessions[s].settlementDeadline
      /\ sessions[s].settlementDeadline = sessions[s].serviceDeadline + Grace
  <2>1. CASE ~tx.active
    BY <1>2, <2>1 DEF Committed, Current
  <2>2. CASE tx.active /\ s # tx.session
    BY <1>2, <2>2 DEF Committed, TxInv
  <2>3. CASE tx.active /\ s = tx.session
    <3>1. /\ Committed = tx.saved
          /\ Committed.sessions[s] # NoSession /\ ~Committed.sessions[s].closed
          /\ sessions[s].serviceDeadline = Committed.sessions[s].serviceDeadline
          /\ sessions[s].settlementDeadline = Committed.sessions[s].settlementDeadline
          /\ Splitting(s) \/ Refunding(s)
      BY <2>3 DEF Committed, TxInv
    <3>2. Committed.paid[s].downloader = 0
      BY <1>1, <3>1 DEF Ledger
    <3>3. ~Splitting(s)
      <4>1. Splitting(s) => paid[s].downloader = tx.saved.paid[s].downloader
        BY DEF Splitting
      <4>2. ~(0 > 0)
        OBVIOUS
      <4> QED BY <3>1, <3>2, <4>1, <4>2
    <3> QED BY <3>1, <3>3 DEF Refunding, Deadlines
  <2> QED BY <2>1, <2>2, <2>3
<1>4. sessions[s] # NoSession
  <2>1. /\ paid[s].downloader \in Nat /\ Due(s).refund \in Nat
    <3>1. paid[s].downloader \in Nat
      <4>1. paid[s] \in Paid
        BY TypeParts DEF ChannelInv
      <4> QED BY <4>1 DEF Paid
    <3>2. Due(s).refund \in Nat
      <4>1. tx.active => tx.refundDue \in Nat
        BY TxTypes
      <4> QED BY <4>1 DEF Due
    <3> QED BY <3>1, <3>2
  <2>2. paid[s].downloader + Due(s).refund # 0
    BY <2>1
  <2> QED BY <2>2 DEF ChannelInv, LedgerMatches, Opened
<1>5. sessions[s].settlementDeadline \in Nat /\ now \in Nat
  <2>1. sessions[s] \in Session
    BY <1>4, TypeParts DEF ChannelInv
  <2> QED BY <2>1, TypeParts DEF ChannelInv, Session, Uint48, Time, ChannelAssumption
<1>6. ASSUME NEW claim \in Claim PROVE ~ValidClaim(s, claim)
  <2>1. claim.deadline \in Nat
    BY DEF Claim, Uint48, ChannelAssumption
  <2> QED BY <1>3, <1>5, <2>1 DEF ValidClaim
<1> QED BY <1>3, <1>6

-----------------------------------------------------------------------------
(* The creator's share.                                                    *)

\* What a session paid the creator is the share of what it was charged, but for
\* less than one wei per chunk.
WithinRounding(charged, bps, got, chunks) ==
    /\ BpsDenominator * got <= charged * bps
    /\ charged * bps <= BpsDenominator * got + (BpsDenominator - 1) * chunks

Fair(st) ==
    \A s \in SessionId : st.sessions[s] # NoSession =>
        WithinRounding(st.sessions[s].totalClaimed,
                       st.models[st.sessions[s].modelId].creatorShareBps,
                       st.paid[s].creator, Cardinality(st.claimed[s]))

\* One more batch, rounded by itself, adds less than one wei of rounding.
LEMMA OneMoreSplit ==
    ASSUME NEW charged \in Nat, NEW total \in Nat, NEW bps \in 0..BpsDenominator, NEW got \in Nat,
           NEW before \in Nat, NEW after \in Nat, before < after,
           WithinRounding(charged, bps, got, before)
    PROVE  WithinRounding(charged + total, bps, got + CreatorAmount(total, bps), after)
<1> DEFINE x == total * bps
           y == charged * bps
           c == CreatorAmount(total, bps)
<1>1. x \in Nat /\ y \in Nat /\ (charged + total) * bps = y + x
  BY DEF BpsDenominator
<1>2. c = x \div 10000
  BY DEF CreatorAmount, BpsDenominator
<1>3. 10000 * got <= y /\ y <= 10000 * got + 9999 * before
  BY DEF WithinRounding, BpsDenominator
<1> HIDE DEF x, y, c
<1>4. c \in Nat /\ 10000 * c <= x /\ x <= 10000 * c + 9999
  BY <1>1, <1>2
<1>5. 9999 * before + 9999 <= 9999 * after
  OBVIOUS
<1>6. 10000 * (got + c) <= y + x /\ y + x <= 10000 * (got + c) + 9999 * after
  BY <1>1, <1>3, <1>4, <1>5
<1> QED BY <1>1, <1>6 DEF WithinRounding, BpsDenominator, c

\* A session that was charged more has more chunks.
LEMMA ChargedMoreChunks ==
    ASSUME NEW price \in Nat, NEW before \in Nat, NEW after \in Nat, NEW total \in Nat \ {0},
           price * after = price * before + total
    PROVE  before < after
<1> SUFFICES ASSUME after <= before PROVE FALSE
  OBVIOUS
<1>1. PICK d \in Nat : before = after + d
  <2>1. before - after \in Nat /\ before = after + (before - after)
    OBVIOUS
  <2> QED BY <2>1
<1>2. price * before = price * after + price * d /\ price * d \in Nat /\ price * after \in Nat
  BY <1>1
<1> QED BY <1>2

\* The chunks claimed in a storage of the channel are finitely many.
LEMMA ClaimedCount ==
    ASSUME ChannelAssumption, NEW st \in Storage, Charged(st), NEW s \in SessionId,
           st.sessions[s] # NoSession
    PROVE  Cardinality(st.claimed[s]) \in Nat
<1> DEFINE m == st.sessions[s].modelId
<1>1. st.models[m] \in Terms
  <2>1. m \in ModelId
    BY StorageTypes
  <2>2. st.models \in [ModelId -> Terms \cup {NoModel}]
    BY DEF Storage
  <2> QED BY <2>1, <2>2 DEF Charged
<1>2. st.models[m].chunkCount \in Nat
  BY <1>1, TermsType
<1>3. IsFiniteSet(0..(st.models[m].chunkCount - 1))
  <2>1. 0 \in Int /\ st.models[m].chunkCount - 1 \in Int
    BY <1>2
  <2> QED BY <2>1, FS_Interval
<1>4. st.claimed[s] \subseteq 0..(st.models[m].chunkCount - 1)
  BY DEF Charged
<1> QED BY <1>3, <1>4, FS_Subset, FS_CardinalityType

\* Every step keeps the shares of what is committed fair.
LEMMA NextFair ==
    ASSUME ChannelAssumption, ChannelInv, TxInv, Fair(Committed), [Next]_vars
    PROVE  Fair(Committed)'
<1> SUFFICES ASSUME NEW s \in SessionId, Committed'.sessions[s] # NoSession
             PROVE  WithinRounding(Committed'.sessions[s].totalClaimed,
                       Committed'.models[Committed'.sessions[s].modelId].creatorShareBps,
                       Committed'.paid[s].creator, Cardinality(Committed'.claimed[s]))
  BY DEF Fair
<1>1. Committed \in Storage /\ Charged(Committed) /\ Ledger(Committed)
  BY CommittedAtRest
<1>2. CASE Committed' = Committed
  BY <1>2 DEF Fair
<1>3. CASE Commit
  <2> DEFINE st == Committed
             bps == st.models[st.sessions[s].modelId].creatorShareBps
  <2>1. /\ Committed = tx.saved /\ Committed' = Current
        /\ UNCHANGED <<models, sessions, claimed, paid, now>>
        /\ Charged(Current) /\ Current \in Storage
    BY <1>3, CommitEffect DEF ChannelInv, TypeOK
  <2>2. PICK r \in SessionId :
           /\ st.sessions[r] # NoSession
           /\ sessions[r] # NoSession
           /\ sessions[r].modelId = st.sessions[r].modelId
           /\ \A t \in SessionId : t # r =>
                 sessions[t] = st.sessions[t] /\ paid[t] = st.paid[t] /\ claimed[t] = st.claimed[t]
           /\ CommitSplits(st, r) \/ CommitRefunds(st, r)
    BY <1>3, CommitEffect
  <2>3. sessions[s] # NoSession
    BY <2>1 DEF Current
  <2>4. st.sessions[s] # NoSession /\ sessions[s].modelId = st.sessions[s].modelId
    BY <2>2, <2>3
  <2>5. /\ models[sessions[s].modelId].creatorShareBps = bps
        /\ models[sessions[s].modelId].chunkPrice = st.models[st.sessions[s].modelId].chunkPrice
        /\ st.models[st.sessions[s].modelId] # NoModel
    BY <1>3, <2>1, <2>3, <2>4 DEF Commit, ChannelInv, SameTerms
  <2>6. st.models[st.sessions[s].modelId] \in Terms
    <3>1. st.sessions[s].modelId \in ModelId
      BY <1>1, <2>4, StorageTypes
    <3>2. st.models \in [ModelId -> Terms \cup {NoModel}]
      BY <1>1 DEF Storage
    <3> QED BY <2>5, <3>1, <3>2
  <2>7. bps \in 0..BpsDenominator /\ st.models[st.sessions[s].modelId].chunkPrice \in Nat
    BY <2>6, TermsType
  <2>8. WithinRounding(st.sessions[s].totalClaimed, bps, st.paid[s].creator,
                       Cardinality(st.claimed[s]))
    BY <2>4 DEF Fair
  <2>9. WithinRounding(sessions[s].totalClaimed, bps, paid[s].creator, Cardinality(claimed[s]))
    <3>1. st.sessions[s].totalClaimed \in Nat /\ st.paid[s].creator \in Nat
          /\ st.sessions[s].deposit \in Nat
      BY <1>1, <2>4, StorageTypes
    <3>2. CASE s # r
      BY <2>2, <2>8, <3>2
    <3>3. st.sessions[s].totalClaimed
              = st.models[st.sessions[s].modelId].chunkPrice * Cardinality(st.claimed[s])
      BY <1>1, <2>4 DEF Charged
    <3>4. sessions[s].totalClaimed
              = st.models[st.sessions[s].modelId].chunkPrice * Cardinality(claimed[s])
      BY <2>1, <2>3, <2>5 DEF Charged, Current
    <3>5. Cardinality(st.claimed[s]) \in Nat /\ Cardinality(claimed[s]) \in Nat
      <4>1. Cardinality(Current.claimed[s]) \in Nat
        BY <2>1, <2>3, ClaimedCount DEF Current
      <4> QED BY <1>1, <2>4, <4>1, ClaimedCount DEF Current
    <3>6. CASE s = r /\ CommitSplits(st, r)
      <4>1. PICK total \in 1..(st.sessions[s].deposit - st.sessions[s].totalClaimed) :
               /\ sessions[s].totalClaimed = st.sessions[s].totalClaimed + total
               /\ paid[s].creator = st.paid[s].creator + CreatorAmount(total, bps)
        BY <3>6 DEF CommitSplits
      <4>2. total \in Nat \ {0}
        BY <3>1, <4>1
      <4>3. Cardinality(st.claimed[s]) < Cardinality(claimed[s])
        BY <2>7, <3>3, <3>4, <3>5, <4>1, <4>2, ChargedMoreChunks
      <4> DEFINE charged == st.sessions[s].totalClaimed
                 got == st.paid[s].creator
                 before == Cardinality(st.claimed[s])
                 after == Cardinality(claimed[s])
      <4>4. /\ charged \in Nat /\ got \in Nat /\ before \in Nat /\ after \in Nat /\ before < after
            /\ total \in Nat /\ bps \in 0..BpsDenominator
            /\ WithinRounding(charged, bps, got, before)
        BY <2>7, <2>8, <3>1, <3>5, <4>2, <4>3
      <4> HIDE DEF charged, got, before, after, bps
      <4>5. WithinRounding(charged + total, bps, got + CreatorAmount(total, bps), after)
        BY <4>4, OneMoreSplit
      <4> USE DEF charged, got, after
      <4> QED BY <3>6, <4>1, <4>5
    <3>7. CASE s = r /\ CommitRefunds(st, r)
      <4>1. /\ sessions[s].totalClaimed = st.sessions[s].totalClaimed
            /\ paid[s].creator = st.paid[s].creator /\ claimed[s] = st.claimed[s]
        BY <3>7 DEF CommitRefunds
      <4> QED BY <2>8, <3>7, <4>1
    <3> QED BY <2>2, <3>2, <3>6, <3>7
  <2> QED BY <2>1, <2>5, <2>9 DEF Current

<1>4. ASSUME NEW r \in SessionId, NEW m \in ModelId, NEW value \in Deposit, Opening(r, m, value)
      PROVE  WithinRounding(Committed'.sessions[s].totalClaimed,
                Committed'.models[Committed'.sessions[s].modelId].creatorShareBps,
                Committed'.paid[s].creator, Cardinality(Committed'.claimed[s]))
  <2>1. /\ Committed = Current /\ Committed' = Current'
        /\ UNCHANGED <<models, claimed, paid>>
    BY <1>4 DEF Opening, Committed
  <2>2. CASE s # r
    <3>1. sessions'[s] = sessions[s]
      BY <1>4, <2>2 DEF Opening
    <3> QED BY <2>1, <3>1 DEF Fair, Current
  <2>3. CASE s = r
    <3>1. sessions'[s].modelId = m /\ sessions'[s].totalClaimed = 0 /\ models[m] \in Terms
          /\ sessions[s] = NoSession
      BY <1>4, <2>3 DEF Opening
    <3>2. claimed[s] = {} /\ paid[s].creator + paid[s].seeders = 0
      BY <1>1, <2>1, <3>1 DEF Charged, Ledger, Current
    <3>3. paid[s].creator \in Nat /\ paid[s].seeders \in Nat
      BY <1>1, <2>1, StorageTypes DEF Current
    <3>4. paid[s].creator = 0 /\ Cardinality(claimed[s]) = 0
      BY <3>2, <3>3, FS_EmptySet
    <3>5. models[m].creatorShareBps \in Nat
      <4>1. models[m].creatorShareBps \in 0..BpsDenominator
        BY <3>1, TermsType
      <4>2. \A x \in 0..BpsDenominator : x \in Nat
        BY DEF BpsDenominator
      <4> QED BY <4>1, <4>2, Zenon
    <3>6. WithinRounding(0, models[m].creatorShareBps, 0, 0)
      BY <3>5 DEF WithinRounding, BpsDenominator
    <3> QED BY <2>1, <3>1, <3>4, <3>6 DEF Current
  <2> QED BY <2>2, <2>3
<1>5. CASE RegistryCall /\ ~tx.active
  <2>1. /\ Committed = Current /\ Committed' = Current'
        /\ UNCHANGED <<sessions, claimed, paid>>
    BY <1>5 DEF RegistryCall, channel, Committed
  <2>2. sessions[s] # NoSession
    BY <2>1 DEF Current
  <2>3. sessions[s].modelId \in ModelId /\ models[sessions[s].modelId] # NoModel
    <3>1. sessions[s].modelId \in ModelId
      BY <1>1, <2>1, <2>2, StorageTypes DEF Current
    <3> QED BY <1>1, <2>1, <2>2, <3>1 DEF Charged, Current
  <2>4. models'[sessions[s].modelId].creatorShareBps = models[sessions[s].modelId].creatorShareBps
    BY <1>5, <2>3, RegistryKeepsTerms
  <2> QED BY <2>1, <2>2, <2>4 DEF Fair, Current
<1> QED BY <1>2, <1>3, <1>4, <1>5, CommittedStep

-----------------------------------------------------------------------------
(* Solvency.                                                               *)

\* What a storage at rest owes for a session, and that its balance covers it.
OwedAtRest(st, s) ==
    IF st.sessions[s] # NoSession /\ ~st.sessions[s].closed
    THEN st.sessions[s].deposit - st.sessions[s].totalClaimed ELSE 0

Covered(st) == st.balance = SumFunction([s \in SessionId |-> OwedAtRest(st, s)])

SolventInv == Solvent /\ (tx.active => Covered(tx.saved))

\* Changing what is owed for one session changes the sum by as much.
LEMMA SessionSum ==
    ASSUME ChannelAssumption, NEW f \in [SessionId -> Nat], NEW g \in [SessionId -> Nat],
           NEW r \in SessionId, \A s \in SessionId : s # r => f[s] = g[s]
    PROVE  /\ SumFunction(f) \in Nat /\ SumFunction(g) \in Nat
           /\ SumFunction(g) + f[r] = SumFunction(f) + g[r]
<1>1. IsFiniteSet(SessionId) /\ DOMAIN f = SessionId /\ DOMAIN g = SessionId
  BY DEF ChannelAssumption
<1>2. SumFunction(f) = SumFunctionOnSet(f, SessionId) /\ SumFunction(g) = SumFunctionOnSet(g, SessionId)
  BY <1>1 DEF SumFunction
<1>3. SumFunctionOnSet(f, SessionId) \in Nat /\ SumFunctionOnSet(g, SessionId) \in Nat
  BY <1>1, SumType
<1>4. SumFunctionOnSet(g, SessionId) + f[r] = SumFunctionOnSet(f, SessionId) + g[r]
  BY <1>1, SumChange
<1> QED BY <1>2, <1>3, <1>4

\* What is owed for a session is a number.
LEMMA OwedType ==
    ASSUME ChannelAssumption, ChannelInv, NEW s \in SessionId
    PROVE  /\ Unclaimed(s) \in Nat /\ Due(s).claims \in Nat /\ Due(s).refund \in Nat
           /\ Owed(s) \in Nat
<1>1. Due(s).claims \in Nat /\ Due(s).refund \in Nat
  <2>1. CASE tx.active /\ tx.session = s
    <3>1. tx.creatorDue \in Nat /\ tx.seederDue \in Nat /\ tx.refundDue \in Nat
      BY <2>1, TxTypes
    <3>2. Due(s) = [claims |-> tx.creatorDue + tx.seederDue, refund |-> tx.refundDue]
      BY <2>1 DEF Due
    <3> QED BY <3>1, <3>2
  <2>2. CASE ~(tx.active /\ tx.session = s)
    BY <2>2 DEF Due
  <2> QED BY <2>1, <2>2
<1>2. Unclaimed(s) \in Nat
  <2>1. CASE sessions[s] = NoSession
    BY <2>1 DEF Unclaimed, Open, Opened
  <2>2. CASE sessions[s] # NoSession
    <3>1. sessions[s] \in Session
      BY <2>2, TypeParts DEF ChannelInv
    <3>2. sessions[s].totalClaimed \in Nat /\ sessions[s].deposit \in Nat
      BY <3>1, SessionType
    <3>3. sessions[s].totalClaimed <= sessions[s].deposit
      BY <2>2 DEF ChannelInv, Charged, Current
    <3> QED BY <3>2, <3>3 DEF Unclaimed
  <2> QED BY <2>1, <2>2
<1> QED BY <1>1, <1>2 DEF Owed

\* Outside a transaction the current storage is one at rest.
LEMMA SolventAtRest ==
    ASSUME ChannelAssumption, ChannelInv, ~tx.active
    PROVE  /\ \A s \in SessionId : Owed(s) = Unclaimed(s)
           /\ Solvent <=> Covered(Current)
<1>1. ASSUME NEW s \in SessionId PROVE Owed(s) = Unclaimed(s) /\ Owed(s) = OwedAtRest(Current, s)
  <2>1. Due(s).claims = 0 /\ Due(s).refund = 0 /\ Unclaimed(s) \in Nat
    BY OwedType DEF Due
  <2>2. Owed(s) = Unclaimed(s)
    BY <2>1 DEF Owed
  <2> QED BY <2>2 DEF Unclaimed, Open, Opened, OwedAtRest, Current
<1>2. [s \in SessionId |-> Owed(s)] = [s \in SessionId |-> OwedAtRest(Current, s)]
  BY <1>1
<1>3. Current.balance = balance
  BY DEF Current
<1> QED BY <1>1, <1>2, <1>3 DEF Solvent, Covered

\* A step that changes only what is owed for one session, and the balance by as
\* much, keeps the channel solvent.
LEMMA StaysSolvent ==
    ASSUME ChannelAssumption, ChannelInv, ChannelInv', Solvent, NEW r \in SessionId,
           \A s \in SessionId : s # r => Owed(s)' = Owed(s),
           Owed(r)' \in Nat, balance' + Owed(r) = balance + Owed(r)'
    PROVE  Solvent'
<1> DEFINE f == [s \in SessionId |-> Owed(s)]
           g == [s \in SessionId |-> Owed(s)']
<1>1. f \in [SessionId -> Nat]
  BY OwedType
<1>2. \A s \in SessionId : Owed(s)' \in Nat
  BY OwedType
<1>3. g \in [SessionId -> Nat]
  BY <1>2
<1>4. f[r] = Owed(r) /\ g[r] = Owed(r)'
  OBVIOUS
<1>5. balance = SumFunction(f) /\ (Solvent' <=> balance' = SumFunction(g))
  BY DEF Solvent
<1>6. \A s \in SessionId : s # r => f[s] = g[s]
  OBVIOUS
<1> HIDE DEF f, g
<1>7. SumFunction(f) \in Nat /\ SumFunction(g) \in Nat /\ SumFunction(g) + f[r] = SumFunction(f) + g[r]
  BY <1>1, <1>3, <1>6, SessionSum
<1>8. balance' \in Nat /\ f[r] \in Nat /\ g[r] \in Nat
  BY <1>1, <1>3, TypePartsNext DEF ChannelInv
<1> QED BY <1>4, <1>5, <1>7, <1>8

\* The transfers, the splits and the refunds move the money within a session.
LEMMA TransferStaysSolvent ==
    ASSUME ChannelAssumption, ChannelInv, ChannelInv', Solvent, PayCreator \/ PaySeeder \/ PayRefund
    PROVE  Solvent'
<1>1. tx.active /\ UNCHANGED <<models, sessions, claimed, now>>
  BY DEF PayCreator, PaySeeder, PayRefund
<1>2. /\ tx \in Transaction /\ tx.session \in SessionId
      /\ tx.creatorDue \in Nat /\ tx.seederDue \in Nat /\ tx.refundDue \in Nat
      /\ balance \in Nat
  BY <1>1, TxTypes, TypeParts DEF ChannelInv
<1>3. /\ tx'.active /\ tx'.session = tx.session
      /\ tx'.creatorDue \in Nat /\ tx'.seederDue \in Nat /\ tx'.refundDue \in Nat
      /\ balance' + (tx.creatorDue + tx.seederDue + tx.refundDue)
           = balance + (tx'.creatorDue + tx'.seederDue + tx'.refundDue)
  <2>1. CASE PayCreator
    BY <1>1, <1>2, <2>1 DEF PayCreator, Transaction
  <2>2. CASE PaySeeder
    BY <1>1, <1>2, <2>2 DEF PaySeeder, Transaction
  <2>3. CASE PayRefund
    BY <1>1, <1>2, <2>3 DEF PayRefund, Transaction
  <2> QED BY <2>1, <2>2, <2>3
<1> PICK s \in SessionId : s = tx.session
  BY <1>2
<1>4. /\ Due(s).claims = tx.creatorDue + tx.seederDue /\ Due(s).refund = tx.refundDue
      /\ Due(s)'.claims = tx'.creatorDue + tx'.seederDue /\ Due(s)'.refund = tx'.refundDue
  BY <1>1, <1>3 DEF Due
<1>5. /\ \A t \in SessionId : Unclaimed(t)' = Unclaimed(t)
      /\ \A t \in SessionId : t # s => Due(t)' = Due(t)
  BY <1>1, <1>3 DEF Unclaimed, Open, Opened, Due
<1>6. Unclaimed(s) \in Nat
  BY <1>2, OwedType
<1>7. /\ Owed(s) = Unclaimed(s) + (tx.creatorDue + tx.seederDue) + tx.refundDue
      /\ Owed(s)' = Unclaimed(s) + (tx'.creatorDue + tx'.seederDue) + tx'.refundDue
  BY <1>2, <1>4, <1>5 DEF Owed
<1>8. \A t \in SessionId : t # s => Owed(t)' = Owed(t)
  BY <1>5 DEF Owed
<1>9. Owed(s)' \in Nat /\ balance' + Owed(s) = balance + Owed(s)'
  <2>1. balance' \in Nat
    BY TypePartsNext DEF ChannelInv
  <2> QED BY <1>2, <1>3, <1>6, <1>7, <2>1
<1> QED BY <1>2, <1>8, <1>9, StaysSolvent

\* A batch moves money from unclaimed to due, a refund too.
LEMMA SettlingStaysSolvent ==
    ASSUME ChannelAssumption, ChannelInv, ChannelInv', Solvent, NEW s \in SessionId,
           NEW total \in Nat, NEW creator \in Nat, Settling(s, total, creator)
    PROVE  Solvent'
<1>1. /\ ~tx.active /\ sessions[s] # NoSession /\ ~sessions[s].closed
      /\ sessions[s].totalClaimed + total <= sessions[s].deposit
      /\ total - creator \in Nat
      /\ sessions' = [sessions EXCEPT ![s].totalClaimed = @ + total]
      /\ tx'.active /\ tx'.session = s
      /\ tx'.creatorDue = creator /\ tx'.seederDue = total - creator /\ tx'.refundDue = 0
      /\ balance' = balance
  BY DEF Settling
<1>2. sessions[s] \in Session /\ sessions \in [SessionId -> Session \cup {NoSession}]
      /\ balance \in Nat
  BY <1>1, TypeParts DEF ChannelInv
<1>3. sessions[s].totalClaimed \in Nat /\ sessions[s].deposit \in Nat
  BY <1>2, SessionType
<1>4. sessions'[s] = [sessions[s] EXCEPT !.totalClaimed = @ + total]
      /\ \A t \in SessionId : t # s => sessions'[t] = sessions[t]
  BY <1>1, <1>2
<1>5. sessions'[s] \in Session
  BY <1>2, <1>3, <1>4 DEF Session
<1>6. /\ sessions'[s] # NoSession /\ ~sessions'[s].closed
      /\ sessions'[s].deposit = sessions[s].deposit
      /\ sessions'[s].totalClaimed = sessions[s].totalClaimed + total
  BY <1>1, <1>2, <1>4, <1>5 DEF Session, ChannelAssumption
<1>7. \A t \in SessionId : t # s => Owed(t)' = Owed(t)
  BY <1>1, <1>4 DEF Owed, Unclaimed, Open, Opened, Due
<1>8. /\ Owed(s) = sessions[s].deposit - sessions[s].totalClaimed + 0 + 0
      /\ Owed(s)' = sessions[s].deposit - (sessions[s].totalClaimed + total)
                      + (creator + (total - creator)) + 0
  BY <1>1, <1>6 DEF Owed, Unclaimed, Open, Opened, Due
<1>9. Owed(s)' = Owed(s) /\ Owed(s)' \in Nat
  BY <1>1, <1>3, <1>8
<1> QED BY <1>1, <1>7, <1>9, StaysSolvent

LEMMA ReclaimStaysSolvent ==
    ASSUME ChannelAssumption, ChannelInv, ChannelInv', Solvent,
           NEW caller \in Account, NEW s \in SessionId, ReclaimUnspent(caller, s)
    PROVE  Solvent'
<1>1. /\ ~tx.active /\ sessions[s] # NoSession /\ ~sessions[s].closed
      /\ sessions' = [sessions EXCEPT ![s].closed = TRUE]
      /\ tx'.active /\ tx'.session = s
      /\ tx'.creatorDue = 0 /\ tx'.seederDue = 0
      /\ tx'.refundDue = sessions[s].deposit - sessions[s].totalClaimed
      /\ balance' = balance
  BY DEF ReclaimUnspent, Open, Opened
<1>2. sessions[s] \in Session /\ sessions \in [SessionId -> Session \cup {NoSession}]
      /\ balance \in Nat
  BY <1>1, TypeParts DEF ChannelInv
<1>3. sessions[s].totalClaimed \in Nat /\ sessions[s].deposit \in Nat
      /\ sessions[s].totalClaimed <= sessions[s].deposit
  BY <1>1, <1>2, SessionType DEF ChannelInv, Charged, Current
<1>4. sessions'[s] = [sessions[s] EXCEPT !.closed = TRUE]
      /\ \A t \in SessionId : t # s => sessions'[t] = sessions[t]
  BY <1>1, <1>2
<1>5. sessions'[s].closed
  BY <1>2, <1>4 DEF Session
<1>6. \A t \in SessionId : t # s => Owed(t)' = Owed(t)
  BY <1>1, <1>4 DEF Owed, Unclaimed, Open, Opened, Due
<1>7. /\ Owed(s) = sessions[s].deposit - sessions[s].totalClaimed + 0 + 0
      /\ Owed(s)' = 0 + (0 + 0) + (sessions[s].deposit - sessions[s].totalClaimed)
  BY <1>1, <1>5 DEF Owed, Unclaimed, Open, Opened, Due
<1>8. Owed(s)' = Owed(s) /\ Owed(s)' \in Nat
  BY <1>3, <1>7
<1> QED BY <1>1, <1>6, <1>8, StaysSolvent

\* A new session brings its deposit.
LEMMA OpeningStaysSolvent ==
    ASSUME ChannelAssumption, ChannelInv, ChannelInv', Solvent,
           NEW s \in SessionId, NEW m \in ModelId, NEW value \in Deposit, Opening(s, m, value)
    PROVE  Solvent'
<1>1. /\ ~tx.active /\ tx' = tx /\ sessions[s] = NoSession
      /\ value \in Nat
      /\ sessions'[s] # NoSession /\ ~sessions'[s].closed
      /\ sessions'[s].deposit = value /\ sessions'[s].totalClaimed = 0
      /\ balance' = balance + value
      /\ \A t \in SessionId : t # s => sessions'[t] = sessions[t]
  BY DEF Opening
<1>2. \A t \in SessionId : t # s => Owed(t)' = Owed(t)
  BY <1>1 DEF Owed, Unclaimed, Open, Opened, Due
<1>3. Owed(s) = 0 + 0 + 0 /\ Owed(s)' = (value - 0) + 0 + 0
  BY <1>1 DEF Owed, Unclaimed, Open, Opened, Due
<1>4. Owed(s) = 0 /\ Owed(s)' = value /\ balance \in Nat
  BY <1>1, <1>3, TypeParts DEF ChannelInv
<1> QED BY <1>1, <1>2, <1>4, StaysSolvent

\* Every step keeps the channel solvent, a revert because it was when the
\* transaction began.
LEMMA NextSolvent ==
    ASSUME ChannelAssumption, ChannelInv, ChannelInv', SolventInv, [Next]_vars
    PROVE  SolventInv'
<1>1. CASE UNCHANGED vars
  BY <1>1 DEF vars, channel, SolventInv, Solvent, Owed, Unclaimed, Open, Opened, Due, Covered,
     OwedAtRest
<1>2. CASE RegistryCall
  BY <1>2 DEF RegistryCall, channel, SolventInv, Solvent, Owed, Unclaimed, Open, Opened, Due,
     Covered, OwedAtRest
<1>3. ASSUME NEW caller \in Account, NEW s \in SessionId, NEW m \in ModelId, NEW value \in Deposit,
             NEW deadline \in Uint48, OpenSession(caller, s, m, value, deadline)
      PROVE  SolventInv'
  <2>1. Opening(s, m, value)
    BY <1>3, OpenSessionEffect
  <2>2. Solvent'
    BY <2>1, OpeningStaysSolvent DEF SolventInv
  <2>3. ~tx'.active
    BY <2>1 DEF Opening
  <2> QED BY <2>2, <2>3 DEF SolventInv
<1>4. ASSUME NEW caller \in Account, NEW s \in SessionId, ReclaimUnspent(caller, s)
      PROVE  SolventInv'
  <2>1. Solvent'
    BY <1>4, ReclaimStaysSolvent DEF SolventInv
  <2>2. ~tx.active /\ tx'.saved = Current
    BY <1>4 DEF ReclaimUnspent
  <2>3. Covered(Current)
    BY <2>2, SolventAtRest DEF SolventInv
  <2> QED BY <2>1, <2>2, <2>3 DEF SolventInv, Covered, OwedAtRest
<1>5. ASSUME NEW s \in SessionId, NEW batch \in Batch(s), SettleBatch(s, batch)
      PROVE  SolventInv'
  <2>1. Solvent'
    BY <1>5, SettleBatchEffect, SettlingStaysSolvent DEF SolventInv
  <2>2. ~tx.active /\ tx'.saved = Current
    BY <1>5 DEF SettleBatch
  <2>3. Covered(Current)
    BY <2>2, SolventAtRest DEF SolventInv
  <2> QED BY <2>1, <2>2, <2>3 DEF SolventInv, Covered, OwedAtRest
<1>6. CASE PayCreator \/ PaySeeder \/ PayRefund
  <2>1. Solvent'
    BY <1>6, TransferStaysSolvent DEF SolventInv
  <2>2. tx.active /\ tx \in Transaction
    BY <1>6, RunningTx DEF PayCreator, PaySeeder, PayRefund, ChannelInv
  <2>3. tx'.saved = tx.saved
    BY <1>6, <2>2 DEF PayCreator, PaySeeder, PayRefund, Transaction
  <2> QED BY <2>1, <2>2, <2>3 DEF SolventInv, Covered, OwedAtRest
<1>7. CASE Commit
  <2>1. /\ ~tx'.active /\ tx.creatorDue = 0 /\ tx.seederDue = 0 /\ tx.refundDue = 0
        /\ sessions' = sessions /\ balance' = balance
    BY <1>7 DEF Commit, channel, NoTx
  <2>2. \A s \in SessionId : Owed(s)' = Owed(s)
    BY <2>1 DEF Owed, Unclaimed, Open, Opened, Due
  <2> QED BY <2>1, <2>2 DEF SolventInv, Solvent
<1>8. CASE Revert
  <2>1. /\ ~tx'.active /\ Covered(tx.saved)
        /\ sessions' = tx.saved.sessions /\ balance' = tx.saved.balance
    BY <1>8 DEF Revert, NoTx, SolventInv
  <2>2. ASSUME NEW s \in SessionId PROVE Owed(s)' = OwedAtRest(tx.saved, s)
    <3>1. Due(s)'.claims = 0 /\ Due(s)'.refund = 0
      BY <2>1 DEF Due
    <3>2. Unclaimed(s)' = OwedAtRest(tx.saved, s)
      BY <2>1 DEF Unclaimed, Open, Opened, OwedAtRest
    <3>3. tx.saved \in Storage /\ Charged(tx.saved)
      BY <1>8, TxTypes DEF Revert, ChannelInv
    <3>4. OwedAtRest(tx.saved, s) \in Nat
      BY <3>3, StorageTypes DEF OwedAtRest, Charged
    <3> QED BY <3>1, <3>2, <3>4 DEF Owed
  <2> QED BY <2>1, <2>2 DEF SolventInv, Solvent, Covered
<1>9. CASE Tick
  BY <1>9 DEF Tick, channel, SolventInv, Solvent, Owed, Unclaimed, Open, Opened, Due
<1> QED BY <1>1, <1>2, <1>3, <1>4, <1>5, <1>6, <1>7, <1>8, <1>9 DEF Next

-----------------------------------------------------------------------------
(* Refinement: what is committed is an escrow.                             *)

\* Opening a session funds its account.
LEMMA OpeningFunds ==
    ASSUME ChannelAssumption, ChannelInv,
           NEW s \in SessionId, NEW m \in ModelId, NEW value \in Deposit, Opening(s, m, value)
    PROVE  Escrow!EscrowNext
<1>1. Committed = Current /\ Committed' = Current'
  BY DEF Opening, Committed
<1>2. /\ sessions[s] = NoSession /\ models[m] \in Terms /\ value \in Nat \ {0}
      /\ sessions'[s] # NoSession /\ ~sessions'[s].closed
      /\ sessions'[s].modelId = m /\ sessions'[s].deposit = value
      /\ \A t \in SessionId : t # s => sessions'[t] = sessions[t]
      /\ UNCHANGED <<models, claimed, paid, tx, now>>
  BY DEF Opening
<1>3. paid[s].creator = 0 /\ paid[s].seeders = 0 /\ paid[s].downloader = 0
  <2>1. Current \in Storage /\ Ledger(Current)
    BY <1>1, CommittedAtRest
  <2>2. paid[s].creator + paid[s].seeders = 0 /\ paid[s].downloader = 0
    BY <1>2, <2>1 DEF Ledger, Current
  <2>3. paid[s].creator \in Nat /\ paid[s].seeders \in Nat
    BY <2>1, StorageTypes DEF Current
  <2> QED BY <2>2, <2>3
<1>4. AccountOf(Committed, s).phase = "none"
  BY <1>1, <1>2 DEF AccountOf, Phase, Current
<1>5. AccountOf(Committed, s)' = [phase |-> "open", deposit |-> value, share |-> models[m].creatorShareBps,
                                 creator |-> 0, seeders |-> 0, refunded |-> 0]
  BY <1>1, <1>2, <1>3 DEF AccountOf, Phase, Current
<1>6. models[m].creatorShareBps \in MinShareBps..MaxShareBps
  BY <1>2 DEF Terms
<1>7. \A t \in SessionId : t # s => AccountOf(Committed, t)' = AccountOf(Committed, t)
  BY <1>1, <1>2 DEF AccountOf, Phase, Current
<1>8. Escrow!Fund(s)
  BY <1>2, <1>4, <1>5, <1>6 DEF Escrow!Fund
<1> QED BY <1>7, <1>8 DEF Escrow!EscrowNext

\* Committing a settleBatch splits, committing a reclaimUnspent refunds, what
\* the account of one session holds.
LEMMA CommitSplitsOrRefunds ==
    ASSUME ChannelAssumption, ChannelInv, TxInv, Commit
    PROVE  Escrow!EscrowNext
<1> DEFINE st == Committed
<1>1. Committed' = Current /\ UNCHANGED <<models, sessions, claimed, paid, now>>
      /\ st \in Storage /\ Ledger(st) /\ st = tx.saved /\ tx.active
  BY CommitEffect, CommittedAtRest DEF Commit
<1>2. PICK s \in SessionId :
         /\ st.sessions[s] # NoSession /\ ~st.sessions[s].closed
         /\ sessions[s] # NoSession
         /\ sessions[s].modelId = st.sessions[s].modelId
         /\ sessions[s].deposit = st.sessions[s].deposit
         /\ \A t \in SessionId : t # s => sessions[t] = st.sessions[t] /\ paid[t] = st.paid[t]
         /\ CommitSplits(st, s) \/ CommitRefunds(st, s)
  BY CommitEffect
<1> DEFINE share == st.models[st.sessions[s].modelId].creatorShareBps
           deposit == st.sessions[s].deposit
<1>3. \A t \in SessionId : sessions[t] # NoSession =>
         models[sessions[t].modelId].creatorShareBps = st.models[sessions[t].modelId].creatorShareBps
  BY <1>1 DEF ChannelInv, SameTerms
<1>4. \A t \in SessionId : t # s => AccountOf(Committed, t)' = AccountOf(Committed, t)
  BY <1>1, <1>2, <1>3 DEF AccountOf, Phase, Current
<1>5. AccountOf(Committed, s)
        = [phase |-> "open", deposit |-> deposit, share |-> share,
           creator |-> st.paid[s].creator, seeders |-> st.paid[s].seeders,
           refunded |-> st.paid[s].downloader]
  BY <1>2 DEF AccountOf, Phase
<1>6. AccountOf(Committed, s)'
        = [phase |-> IF sessions[s].closed THEN "closed" ELSE "open", deposit |-> deposit,
           share |-> share, creator |-> paid[s].creator, seeders |-> paid[s].seeders,
           refunded |-> paid[s].downloader]
  BY <1>1, <1>2, <1>3 DEF AccountOf, Phase, Current
<1>7. /\ st.paid[s].creator + st.paid[s].seeders = st.sessions[s].totalClaimed
      /\ st.paid[s].downloader = 0
  BY <1>1, <1>2 DEF Ledger
<1>8. Escrow!Rest(s) = deposit - st.sessions[s].totalClaimed
  BY <1>5, <1>7 DEF Escrow!Rest
<1>9. CASE CommitSplits(st, s)
  <2>1. PICK total \in 1..Escrow!Rest(s) :
           /\ paid[s].creator = st.paid[s].creator + CreatorAmount(total, share)
           /\ paid[s].seeders = st.paid[s].seeders + (total - CreatorAmount(total, share))
    BY <1>8, <1>9 DEF CommitSplits
  <2>2. ~sessions[s].closed /\ paid[s].downloader = st.paid[s].downloader
    BY <1>9 DEF CommitSplits
  <2> DEFINE c == (total * share) \div BpsDenominator
             new == [phase |-> "open", deposit |-> deposit, share |-> share,
                     creator |-> st.paid[s].creator + c, seeders |-> st.paid[s].seeders + (total - c),
                     refunded |-> st.paid[s].downloader]
  <2>3. AccountOf(Committed, s)' = new
    BY <1>6, <2>1, <2>2 DEF CreatorAmount
  <2>4. [AccountOf(Committed, s) EXCEPT !.creator = @ + c, !.seeders = @ + (total - c)] = new
    <3> DEFINE account == AccountOf(Committed, s)
               made == [account EXCEPT !.creator = @ + c, !.seeders = @ + (total - c)]
               c0 == st.paid[s].creator
               d0 == st.paid[s].seeders
               r0 == st.paid[s].downloader
    <3>1. account = [phase |-> "open", deposit |-> deposit, share |-> share,
                     creator |-> c0, seeders |-> d0, refunded |-> r0]
      BY <1>5
    <3>2. new = [phase |-> "open", deposit |-> deposit, share |-> share,
                 creator |-> c0 + c, seeders |-> d0 + (total - c), refunded |-> r0]
      OBVIOUS
    <3> HIDE DEF account, new, c, share, deposit, st, c0, d0, r0
    <3>3. account \in [phase : {"open"}, deposit : {deposit}, share : {share},
                      creator : {c0}, seeders : {d0}, refunded : {r0}]
      BY <3>1
    <3>4. made \in [phase : {"open"}, deposit : {deposit}, share : {share},
                   creator : {c0 + c}, seeders : {d0 + (total - c)}, refunded : {r0}]
      BY <3>3
    <3> HIDE DEF made
    <3>5. made = new
      BY <3>2, <3>4
    <3> QED BY <3>5 DEF made, account
  <2>5. AccountOf(Committed, s).phase = "open" /\ AccountOf(Committed, s).share = share
    BY <1>5
  <2>6. Escrow!Split(s)
    <3> HIDE DEF new, st, deposit
    <3> QED BY <1>2, <2>1, <2>3, <2>4, <2>5 DEF Escrow!Split
  <2> QED BY <1>4, <2>6 DEF Escrow!EscrowNext
<1>10. CASE CommitRefunds(st, s)
  <2>1. /\ sessions[s].closed /\ paid[s].creator = st.paid[s].creator
        /\ paid[s].seeders = st.paid[s].seeders
        /\ paid[s].downloader = deposit - st.sessions[s].totalClaimed
    BY <1>2, <1>10 DEF CommitRefunds
  <2> DEFINE rest == Escrow!Rest(s)
             new == [phase |-> "closed", deposit |-> deposit, share |-> share,
                     creator |-> st.paid[s].creator, seeders |-> st.paid[s].seeders,
                     refunded |-> rest]
  <2>2. AccountOf(Committed, s)' = new
    BY <1>6, <1>8, <2>1
  <2>3. [AccountOf(Committed, s) EXCEPT !.phase = "closed", !.refunded = rest] = new
    <3> DEFINE account == AccountOf(Committed, s)
               made == [account EXCEPT !.phase = "closed", !.refunded = rest]
               c0 == st.paid[s].creator
               d0 == st.paid[s].seeders
               r0 == st.paid[s].downloader
    <3>1. account = [phase |-> "open", deposit |-> deposit, share |-> share,
                     creator |-> c0, seeders |-> d0, refunded |-> r0]
      BY <1>5
    <3>2. new = [phase |-> "closed", deposit |-> deposit, share |-> share,
                 creator |-> c0, seeders |-> d0, refunded |-> rest]
      OBVIOUS
    <3> HIDE DEF account, new, rest, share, deposit, st, c0, d0, r0
    <3>3. account \in [phase : {"open"}, deposit : {deposit}, share : {share},
                      creator : {c0}, seeders : {d0}, refunded : {r0}]
      BY <3>1
    <3>4. made \in [phase : {"closed"}, deposit : {deposit}, share : {share},
                   creator : {c0}, seeders : {d0}, refunded : {rest}]
      BY <3>3
    <3> HIDE DEF made
    <3>5. made = new
      BY <3>2, <3>4
    <3> QED BY <3>5 DEF made, account
  <2>4. AccountOf(Committed, s).phase = "open"
    BY <1>5
  <2>5. Escrow!Refund(s)
    <3> HIDE DEF new
    <3> QED BY <1>2, <2>2, <2>3, <2>4 DEF Escrow!Refund
  <2> QED BY <1>4, <2>5 DEF Escrow!EscrowNext
<1> QED BY <1>2, <1>9, <1>10

\* Every step of the channel is a step of the escrow, or leaves its accounts.
LEMMA NextImplements ==
    ASSUME ChannelAssumption, ChannelInv, TxInv, [Next]_vars
    PROVE  [Escrow!EscrowNext]_([s \in SessionId |-> AccountOf(Committed, s)])
<1>1. CASE Committed' = Committed
  BY <1>1 DEF AccountOf, Phase
<1>2. CASE Commit
  BY <1>2, CommitSplitsOrRefunds
<1>3. ASSUME NEW s \in SessionId, NEW m \in ModelId, NEW value \in Deposit, Opening(s, m, value)
      PROVE  Escrow!EscrowNext
  BY <1>3, OpeningFunds
<1>4. CASE RegistryCall /\ ~tx.active
  <2>1. /\ Committed = Current /\ Committed' = Current'
        /\ UNCHANGED <<sessions, paid>>
    BY <1>4 DEF RegistryCall, channel, Committed
  <2>2. Current \in Storage /\ Charged(Current)
    BY <2>1, CommittedAtRest
  <2>3. ASSUME NEW s \in SessionId, sessions[s] # NoSession
        PROVE  models'[sessions[s].modelId].creatorShareBps
                 = models[sessions[s].modelId].creatorShareBps
    <3>1. sessions[s].modelId \in ModelId /\ models[sessions[s].modelId] # NoModel
      BY <2>2, <2>3, StorageTypes DEF Current, Charged
    <3> QED BY <1>4, <3>1, RegistryKeepsTerms
  <2>4. \A s \in SessionId : AccountOf(Committed, s)' = AccountOf(Committed, s)
    BY <2>1, <2>3 DEF AccountOf, Phase, Current
  <2> QED BY <2>4
<1> QED BY <1>1, <1>2, <1>3, <1>4, CommittedStep

\* At first no session has an account.
LEMMA InitImplements == ASSUME Init PROVE Escrow!EscrowInit
BY DEF Init, Escrow!EscrowInit, AccountOf, Phase, Committed, Current, NoTx

-----------------------------------------------------------------------------

\* The invariants above hold of the channel.
LEMMA PromisesInvariant ==
    ASSUME ChannelAssumption
    PROVE  Spec => [](ChannelInv /\ TxInv /\ Deadlines(Committed) /\ Fair(Committed) /\ SolventInv)
<1> DEFINE Inv == /\ ChannelInv /\ TxInv /\ Deadlines(Committed) /\ Fair(Committed)
                  /\ SolventInv
<1>1. ASSUME Init PROVE Inv
  <2>1. ChannelInv
    BY <1>1, InitChannelInv
  <2>2. /\ ~tx.active /\ Committed = Current /\ balance = 0
        /\ \A s \in SessionId : sessions[s] = NoSession
    BY <1>1 DEF Init, NoTx, Committed
  <2>3. TxInv /\ Deadlines(Committed) /\ Fair(Committed)
    BY <2>2 DEF TxInv, Deadlines, Fair, Current
  <2>4. Solvent
    <3>1. \A s \in SessionId : Owed(s) = 0
      BY <2>2 DEF Owed, Unclaimed, Open, Opened, Due
    <3>2. SumFunction([s \in SessionId |-> Owed(s)]) = 0
      BY <3>1, SumOfNothing DEF ChannelAssumption
    <3> QED BY <2>2, <3>2 DEF Solvent
  <2> QED BY <2>1, <2>2, <2>3, <2>4 DEF SolventInv
<1>2. ASSUME Inv, [Next]_vars PROVE Inv'
  <2>1. ChannelInv'
    BY <1>2, NextChannelInv
  <2> QED BY <1>2, <2>1, NextTxInv, NextDeadlines, NextFair, NextSolvent
<1>3. Init => Inv
  BY <1>1
<1>4. Inv /\ [Next]_vars => Inv'
  BY <1>2
<1> QED BY <1>3, <1>4, PTL DEF Spec

\* The contract holds to the wei what it owes to all its sessions together, in
\* every state of a transaction and after every revert, however many sessions
\* there are.
THEOREM SolvencyHolds == ASSUME ChannelAssumption PROVE Spec => []Solvent
<1>1. SolventInv => Solvent
  BY DEF SolventInv
<1> QED BY <1>1, PromisesInvariant, PTL

\* A creator gets the registered share of what a session was charged, but for
\* less than a wei per chunk, however the chunks were batched.
THEOREM ShareHolds == ASSUME ChannelAssumption PROVE Spec => []CreatorShareFair
<1>1. Fair(Committed) => CreatorShareFair
  BY DEF Fair, Committed, Current, CreatorShareFair, WithinRounding, Opened
<1> QED BY <1>1, PromisesInvariant, PTL

\* Nothing is refunded while a voucher of the session could still be settled.
THEOREM RefundsHold == ASSUME ChannelAssumption PROVE Spec => []RefundAfterGrace
<1>1. ChannelInv /\ TxInv /\ Deadlines(Committed) => RefundAfterGrace
  BY RefundsAreLate
<1> QED BY <1>1, PromisesInvariant, PTL

\* With callbacks in the middle of payments, and with reverts, the channel
\* implements the escrow: creator and seeder are paid both or not at all, and
\* the refund is the exact rest.
THEOREM ChannelIsAnEscrow == ASSUME ChannelAssumption PROVE Spec => ImplementsEscrow
<1>1. Init => Escrow!EscrowInit
  BY InitImplements
<1>2. ChannelInv /\ TxInv /\ [Next]_vars
        => [Escrow!EscrowNext]_([s \in SessionId |-> AccountOf(Committed, s)])
  BY NextImplements
<1> QED BY <1>1, <1>2, PromisesInvariant, PTL DEF Spec, ImplementsEscrow, Escrow!EscrowSpec

=============================================================================
