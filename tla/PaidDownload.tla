----------------------------- MODULE PaidDownload -----------------------------
(***************************************************************************)
(* Chunks over HTTP for a payment on chain: http_server.go and verifier.go *)
(* of src/signaling/internal/seeder.                                       *)
(*                                                                         *)
(* Replicas of one seeder have one payout address, each its own disk, and  *)
(* either Redis or their own memory for the receipts that were claimed.    *)
(* A slot is one request.  A transaction is what its receipt will show:    *)
(* whether it succeeded and the payments in its logs, in order; the RPC    *)
(* may know it late, or not answer.  One model and one chunk of it are     *)
(* asked for.                                                              *)
(***************************************************************************)
EXTENDS Common, Sequences, FiniteSets

CONSTANTS NoTx,
          Tx,           \* transactions: records of succeeded and logs
          Wanted, Seeder,  \* what is asked for, and of whom
          Price,        \* HTTPServer.defaultPrice
          ClaimTTL      \* in ticks

VARIABLES
    mined,      \* the transactions the RPC knows
    home,       \* where each replica keeps its claims: Redis, or its own life
    has,        \* replicas that have the chunk
    claims,     \* transaction, place and expiry of the receipts claimed
    request,    \* what is in each slot
    claimed,    \* history: the claims that succeeded
    births      \* lives of the replicas so far

paidVars == <<mined, home, has, claims, request, claimed, births>>

-----------------------------------------------------------------------------

NoRequest == [step |-> "empty", at |-> NoTx, tx |-> NoTx, method |-> "GET"]

ASSUME PaidAssumption ==
    /\ Price \in Nat /\ ClaimTTL \in Nat \ {0}
    /\ NoTx \notin Tx \cup Replica
    /\ Tx \subseteq [succeeded : BOOLEAN, logs : Seq([model : Nat, seeder : Nat, paid : Nat])]

\* NewEngine: Redis for all replicas, 0, or a memory each.
PaidInit ==
    /\ births = 1
    /\ home \in [Replica -> {0, 1}]
    /\ \A r, s \in Replica : r # s => home[r] = 0 \/ home[s] = 0
    /\ mined = {}
    /\ has = Replica
    /\ claims = {}
    /\ request = [q \in Slot |-> NoRequest]
    /\ claimed = {}

Mine(tx) ==
    /\ tx \notin mined
    /\ mined' = mined \cup {tx}
    /\ UNCHANGED <<home, has, claims, request, claimed, births, now>>

HasChunk(r) == r \in has

ServeStep(q, step) == request' = [request EXCEPT ![q].step = step]

\* handleChunk up to the payment: 404, the 402 that names price and contract,
\* or on to the verifier.
Ask(q, r, tx, method) ==
    /\ request[q].step = "empty"
    /\ request' = [request EXCEPT ![q] =
          [at |-> r, tx |-> tx, method |-> method,
           step |-> CASE ~HasChunk(r) -> "404" [] tx = NoTx -> "402" [] OTHER -> "asked"]]
    /\ UNCHANGED <<mined, home, has, claims, claimed, births, now>>

\* Mutant of PaysFor: a payment for any model is taken.
PaysForAnyModel(tx) ==
    /\ tx.succeeded
    /\ tx.logs # <<>>
    /\ Head(tx.logs).seeder = Seeder
    /\ Head(tx.logs).paid >= Price

\* The checks on the receipt: of the contract's PaymentSplit logs the first one
\* decides.
PaysFor(tx) ==
    /\ tx.succeeded
    /\ tx.logs # <<>>
    /\ Head(tx.logs).model = Wanted
    /\ Head(tx.logs).seeder = Seeder
    /\ Head(tx.logs).paid >= Price

\* VerifyChunkPayment up to the claim; 403 also when the RPC fails.
CheckReceipt(q) ==
    /\ request[q].step = "asked"
    /\ LET tx == request[q].tx IN
       \/ ServeStep(q, "403")
       \/ tx \in mined /\ PaysFor(tx) /\ ServeStep(q, "checked")
    /\ UNCHANGED <<mined, home, has, claims, claimed, births, now>>

\* A claim that still stands at p.
Stands(tx, p) == \E c \in claims : c.tx = tx /\ c.place = p /\ now < c.expires

\* Claim, of either store.  When Redis does not answer, 403 as well, and the
\* payment may be claimed or not.
Claim(q) ==
    /\ request[q].step = "checked"
    /\ LET tx == request[q].tx
           p == home[request[q].at]
           Claims ==
             /\ claims' = {c \in claims : ~(c.tx = tx /\ c.place = p)}
                          \cup {[tx |-> tx, place |-> p, expires |-> now + ClaimTTL]}
             /\ claimed' = claimed \cup {[by |-> q, tx |-> tx, place |-> p, at |-> now]} IN
       \/ Stands(tx, p) /\ ServeStep(q, "403") /\ UNCHANGED <<claims, claimed>>
       \/ ~Stands(tx, p) /\ ServeStep(q, "claimed") /\ Claims
       \/ /\ p = 0 /\ ServeStep(q, "unanswered")
          /\ UNCHANGED <<claims, claimed>> \/ (~Stands(tx, p) /\ Claims)
    /\ UNCHANGED <<mined, home, has, births, now>>

\* OpenChunkFile and the answer, which for HEAD has no body; 500 without a file.
Answer(q) ==
    /\ request[q].step = "claimed"
    /\ ServeStep(q, CASE request[q].at \notin has -> "500"
                 [] request[q].method = "HEAD" -> "200 without body"
                 [] OTHER -> "200")
    /\ UNCHANGED <<mined, home, has, claims, claimed, births, now>>

\* "remove --purge".
Purge(r) ==
    /\ r \in has
    /\ has' = has \ {r}
    /\ UNCHANGED <<mined, home, claims, request, claimed, births, now>>

InSeeder == {"asked", "checked", "claimed"}

\* A restart loses the requests it has, and the claims unless Redis has them.
RestartSeeder(r) ==
    /\ births < Cardinality(Replica)
    /\ births' = births + 1
    /\ home' = [home EXCEPT ![r] = IF @ = 0 THEN 0 ELSE births + 1]
    /\ request' = [q \in Slot |-> IF request[q].at = r /\ request[q].step \in InSeeder
                                  THEN [request[q] EXCEPT !.step = "lost"] ELSE request[q]]
    /\ UNCHANGED <<mined, has, claims, claimed, now>>

PaidNext ==
    \/ \E tx \in Tx : Mine(tx)
    \/ \E q \in Slot :
          \/ \E r \in Replica, tx \in Tx \cup {NoTx}, method \in {"GET", "HEAD"} :
                Ask(q, r, tx, method)
          \/ CheckReceipt(q) \/ Claim(q) \/ Answer(q)
    \/ \E r \in Replica : Purge(r) \/ RestartSeeder(r)
    \/ Tick /\ UNCHANGED paidVars

PaidSpec == now = 0 /\ PaidInit /\ [][PaidNext]_<<paidVars, now>>

-----------------------------------------------------------------------------

\* A payment is redeemed once a day, at one place: by one request of all that
\* are made at the replicas sharing Redis, or at one life of a replica that has
\* only its memory (VerifyChunkPayment, Claim).
RedeemedOnce ==
    \A c, d \in claimed :
        c # d /\ c.tx = d.tx /\ c.place = d.place =>
            c.at >= d.at + ClaimTTL \/ d.at >= c.at + ClaimTTL

\* A chunk, or even its headers after a payment, is handed out only to a request
\* that claimed a successful payment of the price, for this model and to this
\* seeder; and a payment is claimed for nothing only by a HEAD, a purge, a
\* restart or an answer of Redis that is lost (handleChunk).
ServedIsPaid ==
    /\ \A q \in Slot : request[q].step \in {"200", "200 without body"} =>
          \E c \in claimed :
             /\ c.by = q /\ c.tx = request[q].tx /\ c.tx \in mined
             /\ c.tx.succeeded
             /\ \E k \in DOMAIN c.tx.logs :
                   c.tx.logs[k].model = Wanted /\ c.tx.logs[k].seeder = Seeder
                       /\ c.tx.logs[k].paid >= Price
    /\ \A c \in claimed :
          \/ request[c.by].step \in {"claimed", "200", "200 without body"}
          \/ request[c.by].step = "500" /\ request[c.by].at \notin has
          \/ request[c.by].step = "lost" /\ births > 1
          \/ request[c.by].step = "unanswered" /\ c.place = 0

\* One payment for one chunk, both ways (handleChunk, VerifyChunkPayment).
PaidCorrect == RedeemedOnce /\ ServedIsPaid
=============================================================================
