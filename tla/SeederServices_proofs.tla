---------------------- MODULE SeederServices_proofs -----------------------
(***************************************************************************)
(* What the seeder and the upload broker keep of payments and nonces, and  *)
(* the seeder's processes of the files they share, for any values of the   *)
(* constants.                                                              *)
(*                                                                         *)
(* Paid downloads.  What a request has passed is only in its step, and the *)
(* claim it made is in a store that it shares with others and that may be  *)
(* lost.  PaidInv follows both: a request past the check has a transaction *)
(* that pays (Checked), one past the claim has claimed it (HasClaimed), and *)
(* a claim made at a place stands there for its time (Kept).               *)
(*                                                                         *)
(* Uploads.  A nonce that was consumed at a place stays there until its    *)
(* deadline, and what is past it cannot be consumed: so what was pinned was *)
(* consumed once at each place in its time.                                *)
(*                                                                         *)
(* The command-line seeder.  Of commands that do not overlap one runs at a *)
(* time, with the catalog of the file; what the daemon has announced is    *)
(* what is on the disk, but for what was touched; the chunks on the disk   *)
(* and those that are checked and not written are bounded together.        *)
(***************************************************************************)
EXTENDS PaidDownload, UploadBroker, SeederDaemon, SumTheorems, SequenceTheorems,
        FiniteSetTheorems, TLAPS

-----------------------------------------------------------------------------
(* Paid downloads.                                                         *)

Steps == {"empty", "404", "402", "asked", "403", "checked", "claimed", "unanswered",
          "200", "200 without body", "500", "lost"}
Sent == [step : Steps, at : Replica \cup {NoTx}, tx : Tx \cup {NoTx}, method : {"GET", "HEAD"}]

\* The types.
PaidTypeOK ==
    /\ now \in Nat
    /\ mined \subseteq Tx
    /\ home \in [Replica -> Nat]
    /\ has \subseteq Replica
    /\ claims \subseteq [tx : Tx, place : Nat, expires : Nat]
    /\ request \in [Slot -> Sent]
    /\ claimed \subseteq [by : Slot, tx : Tx, place : Nat, at : Nat]
    /\ births \in Nat \ {0}

\* A request that is with the seeder came to a replica with a transaction.
Addressed ==
    \A q \in Slot : request[q].step \in InSeeder =>
        request[q].at \in Replica /\ request[q].tx \in Tx

Passed == {"checked", "claimed", "200", "200 without body"}
Settled == {"claimed", "200", "200 without body"}

\* A request past the check has a transaction the RPC knows, and it pays.
Checked ==
    \A q \in Slot : request[q].step \in Passed =>
        /\ request[q].tx \in mined
        /\ PaysFor(request[q].tx)

\* A request past the claim has claimed its transaction.
HasClaimed ==
    \A q \in Slot : request[q].step \in Settled =>
        \E c \in claimed : c.by = q /\ c.tx = request[q].tx

\* A claim stands for its time, whatever was claimed at its place since.
Kept ==
    \A c \in claimed :
        /\ c.at <= now
        /\ \E e \in claims : e.tx = c.tx /\ e.place = c.place /\ e.expires >= c.at + ClaimTTL

\* A claim that is not followed by an answer has one of the known reasons.
Accounted ==
    \A c \in claimed :
        \/ request[c.by].step \in Settled
        \/ request[c.by].step = "500" /\ request[c.by].at \notin has
        \/ request[c.by].step = "lost" /\ births > 1
        \/ request[c.by].step = "unanswered" /\ c.place = 0

PaidInv == PaidTypeOK /\ Addressed /\ Checked /\ HasClaimed /\ Kept /\ Accounted /\ RedeemedOnce

-----------------------------------------------------------------------------

\* A sequence that is not empty has a first entry.
LEMMA FirstEntry ==
    ASSUME NEW S, NEW s \in Seq(S), s # <<>>
    PROVE  Head(s) = s[1] /\ 1 \in DOMAIN s
<1>1. Len(s) \in Nat \ {0} /\ DOMAIN s = 1..Len(s)
  BY EmptySeq, LenProperties
<1>2. Head(s) = s[1]
  BY <1>1
<1>3. 1 \in 1..Len(s)
  BY <1>1
<1> QED
  BY <1>1, <1>2, <1>3

\* The invariant says what the property asks for: the log that decides is the
\* first one.
LEMMA InvServedIsPaid == PaidInv => PaidCorrect
<1> SUFFICES ASSUME PaidInv PROVE ServedIsPaid
  BY DEF PaidInv, PaidCorrect
<1>1. \A q \in Slot : request[q].step \in {"200", "200 without body"} =>
          \E c \in claimed :
             /\ c.by = q /\ c.tx = request[q].tx /\ c.tx \in mined
             /\ c.tx.succeeded
             /\ \E k \in DOMAIN c.tx.logs :
                   c.tx.logs[k].model = Wanted /\ c.tx.logs[k].seeder = Seeder
                       /\ c.tx.logs[k].paid >= Price
  <2> SUFFICES ASSUME NEW q \in Slot, request[q].step \in {"200", "200 without body"}
               PROVE  \E c \in claimed :
                         /\ c.by = q /\ c.tx = request[q].tx /\ c.tx \in mined
                         /\ c.tx.succeeded
                         /\ \E k \in DOMAIN c.tx.logs :
                               c.tx.logs[k].model = Wanted /\ c.tx.logs[k].seeder = Seeder
                                   /\ c.tx.logs[k].paid >= Price
    OBVIOUS
  <2>1. PICK c \in claimed : c.by = q /\ c.tx = request[q].tx
    BY DEF PaidInv, HasClaimed, Settled
  <2>2. c.tx \in mined /\ PaysFor(c.tx) /\ c.tx \in Tx
    BY <2>1 DEF PaidInv, Checked, Passed, PaidTypeOK
  <2>3. c.tx.logs \in Seq([model : Nat, seeder : Nat, paid : Nat]) /\ c.tx.logs # <<>>
    BY <2>2, PaidAssumption DEF PaysFor
  <2>4. Head(c.tx.logs) = c.tx.logs[1] /\ 1 \in DOMAIN c.tx.logs
    BY <2>3, FirstEntry
  <2> QED
    BY <2>1, <2>2, <2>4 DEF PaysFor
<1> QED
  BY <1>1 DEF PaidInv, Accounted, Settled, ServedIsPaid

\* Nothing has been asked yet.
LEMMA InitHolds == now = 0 /\ PaidInit => PaidInv
<1> SUFFICES ASSUME now = 0, PaidInit PROVE PaidInv
  OBVIOUS
<1>1. \A q \in Slot : request[q] = NoRequest
  BY DEF PaidInit
<1>2. PaidTypeOK
  BY DEF PaidInit, PaidTypeOK, NoRequest, Sent, Steps
<1>3. Addressed /\ Checked /\ HasClaimed
  <2>1. \A q \in Slot : request[q].step = "empty"
    BY <1>1 DEF NoRequest
  <2> QED
    BY <2>1 DEF Addressed, Checked, HasClaimed, InSeeder, Passed, Settled
<1>4. Kept /\ Accounted /\ RedeemedOnce
  BY DEF PaidInit, Kept, Accounted, RedeemedOnce
<1> QED
  BY <1>2, <1>3, <1>4 DEF PaidInv

-----------------------------------------------------------------------------

\* A request waits, or is through.
LEMMA MineStep == ASSUME PaidInv, NEW tx \in Tx, Mine(tx) PROVE PaidInv'
<1>1. /\ mined' = mined \cup {tx}
      /\ UNCHANGED <<home, has, claims, request, claimed, births, now>>
  BY DEF Mine
<1>2. PaidTypeOK' /\ Addressed' /\ HasClaimed' /\ Kept' /\ Accounted' /\ RedeemedOnce'
  BY <1>1 DEF PaidInv, PaidTypeOK, Addressed, HasClaimed, Kept, Accounted, RedeemedOnce
<1>3. Checked'
  BY <1>1 DEF PaidInv, Checked
<1> QED
  BY <1>2, <1>3 DEF PaidInv

\* An empty slot has claimed nothing.
LEMMA AskStep ==
    ASSUME PaidInv, NEW q \in Slot, NEW r \in Replica, NEW tx \in Tx \cup {NoTx},
           NEW method \in {"GET", "HEAD"}, Ask(q, r, tx, method)
    PROVE  PaidInv'
<1> DEFINE step == CASE ~HasChunk(r) -> "404" [] tx = NoTx -> "402" [] OTHER -> "asked"
<1>1. /\ request[q].step = "empty"
      /\ request' = [request EXCEPT ![q] = [at |-> r, tx |-> tx, method |-> method, step |-> step]]
      /\ UNCHANGED <<mined, home, has, claims, claimed, births, now>>
      /\ request \in [Slot -> Sent]
  BY DEF Ask, PaidInv, PaidTypeOK
<1>2. step \in {"404", "402", "asked"} /\ (step = "asked" => tx \in Tx)
  OBVIOUS
<1> HIDE DEF step
<1>3. /\ request' \in [Slot -> Sent]
      /\ request'[q].step = step /\ request'[q].at = r /\ request'[q].tx = tx
      /\ \A p \in Slot \ {q} : request'[p] = request[p]
  BY <1>1, <1>2 DEF Sent, Steps
<1>4. PaidTypeOK' /\ Kept' /\ RedeemedOnce'
  BY <1>1, <1>3 DEF PaidInv, PaidTypeOK, Kept, RedeemedOnce
<1>5. Addressed'
  BY <1>2, <1>3 DEF PaidInv, Addressed, InSeeder
<1>6. Checked' /\ HasClaimed'
  BY ZenonT(40), <1>1, <1>2, <1>3 DEF PaidInv, Checked, HasClaimed, Passed, Settled
<1>7. Accounted'
  <2>1. \A c \in claimed : c.by \in Slot /\ c.by # q
    BY <1>1 DEF PaidInv, PaidTypeOK, Accounted, Settled
  <2> QED
    BY <1>1, <1>3, <2>1 DEF PaidInv, Accounted
<1> QED
  BY <1>4, <1>5, <1>6, <1>7 DEF PaidInv

\* What a step of one request makes of all the requests.
LEMMA ServeStepEffect ==
    ASSUME PaidTypeOK, NEW q \in Slot, NEW step \in Steps, ServeStep(q, step)
    PROVE  /\ request' \in [Slot -> Sent]
           /\ request'[q].step = step
           /\ \A p \in Slot : request'[p].at = request[p].at /\ request'[p].tx = request[p].tx
           /\ \A p \in Slot \ {q} : request'[p] = request[p]
  BY DEF PaidTypeOK, ServeStep, Sent

\* Only a transaction that is known and pays passes.
LEMMA CheckReceiptStep == ASSUME PaidInv, NEW q \in Slot, CheckReceipt(q) PROVE PaidInv'
<1>1. /\ request[q].step = "asked"
      /\ UNCHANGED <<mined, home, has, claims, claimed, births, now>>
  BY DEF CheckReceipt
<1>2. PICK step \in {"403", "checked"} :
          /\ ServeStep(q, step)
          /\ step = "checked" => request[q].tx \in mined /\ PaysFor(request[q].tx)
  BY DEF CheckReceipt
<1>3. /\ request' \in [Slot -> Sent]
      /\ request'[q].step = step
      /\ \A p \in Slot : request'[p].at = request[p].at /\ request'[p].tx = request[p].tx
      /\ \A p \in Slot \ {q} : request'[p] = request[p]
  BY <1>2, ServeStepEffect DEF PaidInv, Steps
<1>4. PaidTypeOK' /\ Kept' /\ RedeemedOnce'
  BY <1>1, <1>3 DEF PaidInv, PaidTypeOK, Kept, RedeemedOnce
<1>5. Addressed'
  BY <1>1, <1>3 DEF PaidInv, Addressed, InSeeder
<1>6. Checked'
  <2> SUFFICES ASSUME NEW p \in Slot, request'[p].step \in Passed
               PROVE  request'[p].tx \in mined /\ PaysFor(request'[p].tx)
    BY <1>1 DEF Checked
  <2>1. CASE p = q
    BY <2>1, <1>2, <1>3 DEF Passed
  <2>2. CASE p # q
    BY <2>2, <1>3 DEF PaidInv, Checked
  <2> QED
    BY <2>1, <2>2
<1>7. HasClaimed'
  <2> SUFFICES ASSUME NEW p \in Slot, request'[p].step \in Settled
               PROVE  p # q
    BY <1>1, <1>3 DEF PaidInv, HasClaimed
  <2> QED
    BY <1>3 DEF Settled
<1>8. Accounted'
  <2>1. \A c \in claimed : c.by \in Slot /\ c.by # q
    BY <1>1 DEF PaidInv, PaidTypeOK, Accounted, Settled
  <2> QED
    BY <1>1, <1>3, <2>1 DEF PaidInv, Accounted
<1> QED
  BY <1>4, <1>5, <1>6, <1>7, <1>8 DEF PaidInv

\* A new claim is made only where no earlier one stands: its time is over.
LEMMA ClaimsStep ==
    ASSUME PaidInv, NEW q \in Slot, NEW tx \in Tx, NEW p \in Nat, ~Stands(tx, p), now' = now,
           claims' = {c \in claims : ~(c.tx = tx /\ c.place = p)}
                     \cup {[tx |-> tx, place |-> p, expires |-> now + ClaimTTL]},
           claimed' = claimed \cup {[by |-> q, tx |-> tx, place |-> p, at |-> now]}
    PROVE  /\ claims' \subseteq [tx : Tx, place : Nat, expires : Nat]
           /\ claimed' \subseteq [by : Slot, tx : Tx, place : Nat, at : Nat]
           /\ Kept' /\ RedeemedOnce'
<1> DEFINE new == [by |-> q, tx |-> tx, place |-> p, at |-> now]
           entry == [tx |-> tx, place |-> p, expires |-> now + ClaimTTL]
<1> USE PaidAssumption
<1>1. /\ now \in Nat
      /\ claims \subseteq [tx : Tx, place : Nat, expires : Nat]
      /\ claimed \subseteq [by : Slot, tx : Tx, place : Nat, at : Nat]
  BY DEF PaidInv, PaidTypeOK
<1>2. \A c \in claimed : /\ c.at \in Nat /\ c.at <= now
                         /\ c.tx = tx /\ c.place = p => c.at + ClaimTTL <= now
  <2> SUFFICES ASSUME NEW c \in claimed
               PROVE  /\ c.at \in Nat /\ c.at <= now
                      /\ c.tx = tx /\ c.place = p => c.at + ClaimTTL <= now
    OBVIOUS
  <2>1. PICK e \in claims : e.tx = c.tx /\ e.place = c.place /\ e.expires >= c.at + ClaimTTL
    BY DEF PaidInv, Kept
  <2>2. e.expires \in Nat /\ c.at \in Nat /\ c.at <= now
    BY <1>1, <2>1 DEF PaidInv, Kept
  <2>3. c.tx = tx /\ c.place = p => e.expires <= now
    BY <1>1, <2>1, <2>2 DEF Stands
  <2> QED
    BY <1>1, <2>1, <2>2, <2>3
<1>3. /\ claims' \subseteq [tx : Tx, place : Nat, expires : Nat]
      /\ claimed' \subseteq [by : Slot, tx : Tx, place : Nat, at : Nat]
  BY <1>1
<1>4. Kept'
  <2> SUFFICES ASSUME NEW c \in claimed'
               PROVE  /\ c.at <= now
                      /\ \E e \in claims' : /\ e.tx = c.tx /\ e.place = c.place
                                           /\ e.expires >= c.at + ClaimTTL
    BY DEF Kept
  <2>1. /\ entry \in claims' /\ entry.expires = now + ClaimTTL
        /\ entry.tx = tx /\ entry.place = p
        /\ new.tx = tx /\ new.place = p /\ new.at = now
        /\ c \in claimed \/ c = new
    OBVIOUS
  <2> HIDE DEF entry, new
  <2>2. CASE c = new
    <3>1. entry.expires >= now + ClaimTTL /\ now <= now
      BY <1>1, <2>1
    <3> QED
      BY <2>1, <2>2, <3>1
  <2>3. CASE c \in claimed /\ c.tx = tx /\ c.place = p
    <3>1. c.at <= now /\ entry.expires >= c.at + ClaimTTL
      BY <1>1, <1>2, <2>1, <2>3
    <3> QED
      BY <2>1, <2>3, <3>1
  <2>4. CASE c \in claimed /\ ~(c.tx = tx /\ c.place = p)
    <3>1. PICK e \in claims : e.tx = c.tx /\ e.place = c.place /\ e.expires >= c.at + ClaimTTL
      BY <2>4 DEF PaidInv, Kept
    <3> QED
      BY <3>1, <2>4, <1>2
  <2> QED
    BY <2>1, <2>2, <2>3, <2>4
<1>5. RedeemedOnce'
  <2> SUFFICES ASSUME NEW c \in claimed', NEW d \in claimed', c # d, c.tx = d.tx, c.place = d.place
               PROVE  c.at >= d.at + ClaimTTL \/ d.at >= c.at + ClaimTTL
    BY DEF RedeemedOnce
  <2> HIDE DEF new
  <2>0. /\ new.tx = tx /\ new.place = p /\ new.at = now
        /\ c \in claimed \/ c = new
        /\ d \in claimed \/ d = new
    BY DEF new
  <2>1. CASE c = new
    <3>1. d.at + ClaimTTL <= now
      BY <2>0, <2>1, <1>2
    <3> QED
      BY <2>0, <2>1, <3>1
  <2>2. CASE d = new
    <3>1. c.at + ClaimTTL <= now
      BY <2>0, <2>2, <1>2
    <3> QED
      BY <2>0, <2>2, <3>1
  <2>3. CASE c \in claimed /\ d \in claimed
    BY <2>3 DEF PaidInv, RedeemedOnce
  <2> QED
    BY <2>0, <2>1, <2>2, <2>3
<1> QED
  BY <1>3, <1>4, <1>5

\* The request claims, comes too late, or is not told what became of its claim.
LEMMA ClaimStep == ASSUME PaidInv, NEW q \in Slot, Claim(q) PROVE PaidInv'
<1> DEFINE tx == request[q].tx
           p == home[request[q].at]
           new == [by |-> q, tx |-> tx, place |-> p, at |-> now]
           Claims == /\ claims' = {c \in claims : ~(c.tx = tx /\ c.place = p)}
                                \cup {[tx |-> tx, place |-> p, expires |-> now + ClaimTTL]}
                     /\ claimed' = claimed \cup {new}
<1>1. /\ request[q].step = "checked"
      /\ UNCHANGED <<mined, home, has, births, now>>
  BY DEF Claim
<1>2. tx \in Tx /\ request[q].at \in Replica /\ p \in Nat /\ tx \in mined /\ PaysFor(tx)
  BY <1>1 DEF PaidInv, Addressed, InSeeder, PaidTypeOK, Checked, Passed
<1>3. PICK step \in {"403", "claimed", "unanswered"} :
          /\ ServeStep(q, step)
          /\ \/ UNCHANGED <<claims, claimed>> /\ step # "claimed"
             \/ ~Stands(tx, p) /\ Claims /\ (step = "claimed" \/ (step = "unanswered" /\ p = 0))
  <2> DEFINE Outcome(step) ==
          /\ ServeStep(q, step)
          /\ \/ UNCHANGED <<claims, claimed>> /\ step # "claimed"
             \/ ~Stands(tx, p) /\ Claims /\ (step = "claimed" \/ (step = "unanswered" /\ p = 0))
  <2>1. CASE ServeStep(q, "403") /\ UNCHANGED <<claims, claimed>>
    <3>1. Outcome("403")
      BY <2>1
    <3> QED
      BY <3>1
  <2>2. CASE ~Stands(tx, p) /\ ServeStep(q, "claimed") /\ Claims
    <3>1. Outcome("claimed")
      BY <2>2
    <3> QED
      BY <3>1
  <2>3. CASE /\ p = 0 /\ ServeStep(q, "unanswered")
             /\ UNCHANGED <<claims, claimed>> \/ (~Stands(tx, p) /\ Claims)
    <3>1. Outcome("unanswered")
      BY <2>3
    <3> QED
      BY <3>1
  <2> QED
    BY <2>1, <2>2, <2>3 DEF Claim
<1>4. /\ request' \in [Slot -> Sent]
      /\ request'[q].step = step
      /\ \A r \in Slot : request'[r].at = request[r].at /\ request'[r].tx = request[r].tx
      /\ \A r \in Slot \ {q} : request'[r] = request[r]
  BY <1>3, ServeStepEffect DEF PaidInv, Steps
<1>5. /\ claims' \subseteq [tx : Tx, place : Nat, expires : Nat]
      /\ claimed' \subseteq [by : Slot, tx : Tx, place : Nat, at : Nat]
      /\ Kept' /\ RedeemedOnce'
  <2>1. CASE UNCHANGED <<claims, claimed>>
    BY <1>1, <2>1 DEF PaidInv, PaidTypeOK, Kept, RedeemedOnce
  <2>2. CASE ~Stands(tx, p) /\ Claims
    BY <1>1, <1>2, <2>2, ClaimsStep
  <2> QED
    BY <1>3, <2>1, <2>2
<1>6. PaidTypeOK'
  BY <1>1, <1>4, <1>5 DEF PaidInv, PaidTypeOK
<1> HIDE DEF Claims
<1>7. Addressed' /\ Checked'
  <2>1. \A r \in Slot : request'[r].step \in InSeeder => request[r].step \in InSeeder
    BY <1>1, <1>4 DEF InSeeder
  <2>2. \A r \in Slot : request'[r].step \in Passed => request[r].step \in Passed
    BY <1>1, <1>4 DEF Passed
  <2> QED
    BY <1>1, <1>4, <2>1, <2>2 DEF PaidInv, Addressed, Checked
<1> HIDE DEF tx, p
<1>8. HasClaimed'
  <2> SUFFICES ASSUME NEW r \in Slot, request'[r].step \in Settled
               PROVE  \E c \in claimed' : c.by = r /\ c.tx = request'[r].tx
    BY DEF HasClaimed
  <2>1. claimed \subseteq claimed'
    BY <1>3 DEF Claims
  <2>2. CASE r = q
    <3>1. step = "claimed"
      BY <2>2, <1>4 DEF Settled
    <3>2. new \in claimed' /\ new.by = q /\ new.tx = tx
      BY <3>1, <1>3 DEF Claims
    <3> QED
      BY <2>2, <3>2, <1>4 DEF tx
  <2>3. CASE r # q
    BY <2>1, <2>3, <1>4 DEF PaidInv, HasClaimed
  <2> QED
    BY <2>2, <2>3
<1>9. Accounted'
  <2> SUFFICES ASSUME NEW c \in claimed'
               PROVE  \/ request'[c.by].step \in Settled
                      \/ request'[c.by].step = "500" /\ request'[c.by].at \notin has
                      \/ request'[c.by].step = "lost" /\ births > 1
                      \/ request'[c.by].step = "unanswered" /\ c.place = 0
    BY <1>1 DEF Accounted
  <2>1. CASE c \in claimed
    <3>1. c.by \in Slot /\ c.by # q
      BY <2>1, <1>1 DEF PaidInv, PaidTypeOK, Accounted, Settled
    <3> QED
      BY <2>1, <3>1, <1>4 DEF PaidInv, Accounted
  <2>2. CASE c \notin claimed
    <3>1. c = new /\ (step = "claimed" \/ (step = "unanswered" /\ p = 0))
      BY <2>2, <1>3 DEF Claims
    <3> QED
      BY <3>1, <1>4 DEF Settled
  <2> QED
    BY <2>1, <2>2
<1> QED
  BY <1>5, <1>6, <1>7, <1>8, <1>9 DEF PaidInv

\* What was claimed is answered, or the file is gone.
LEMMA AnswerStep == ASSUME PaidInv, NEW q \in Slot, Answer(q) PROVE PaidInv'
<1>1. /\ request[q].step = "claimed"
      /\ UNCHANGED <<mined, home, has, claims, claimed, births, now>>
  BY DEF Answer
<1>2. PICK step \in {"500", "200 without body", "200"} :
          ServeStep(q, step) /\ (step = "500" => request[q].at \notin has)
  <2> DEFINE step == CASE request[q].at \notin has -> "500"
                       [] request[q].method = "HEAD" -> "200 without body"
                       [] OTHER -> "200"
  <2>1. ServeStep(q, step)
    BY DEF Answer
  <2>2. step \in {"500", "200 without body", "200"} /\ (step = "500" => request[q].at \notin has)
    OBVIOUS
  <2> QED
    BY <2>1, <2>2
<1>3. /\ request' \in [Slot -> Sent]
      /\ request'[q].step = step
      /\ \A p \in Slot : request'[p].at = request[p].at /\ request'[p].tx = request[p].tx
      /\ \A p \in Slot \ {q} : request'[p] = request[p]
  BY <1>2, ServeStepEffect DEF PaidInv, Steps
<1>4. PaidTypeOK' /\ Kept' /\ RedeemedOnce'
  BY <1>1, <1>3 DEF PaidInv, PaidTypeOK, Kept, RedeemedOnce
<1>5. /\ \A p \in Slot : request'[p].step \in InSeeder => request[p].step \in InSeeder
      /\ \A p \in Slot : request'[p].step \in Passed => request[p].step \in Passed
      /\ \A p \in Slot : request'[p].step \in Settled => request[p].step \in Settled
  BY <1>1, <1>3 DEF InSeeder, Passed, Settled
<1>6. Addressed' /\ Checked' /\ HasClaimed'
  <2>1. Addressed'
    BY <1>1, <1>3, <1>5 DEF PaidInv, Addressed
  <2>2. Checked'
    BY <1>1, <1>3, <1>5 DEF PaidInv, Checked
  <2>3. HasClaimed'
    <3> SUFFICES ASSUME NEW p \in Slot, request'[p].step \in Settled
                 PROVE  \E c \in claimed : c.by = p /\ c.tx = request'[p].tx
      BY <1>1 DEF HasClaimed
    <3>1. request[p].step \in Settled /\ request'[p].tx = request[p].tx
      BY <1>3, <1>5
    <3> QED
      BY <3>1 DEF PaidInv, HasClaimed
  <2> QED
    BY <2>1, <2>2, <2>3
<1>7. Accounted'
  <2> SUFFICES ASSUME NEW c \in claimed
               PROVE  \/ request'[c.by].step \in Settled
                      \/ request'[c.by].step = "500" /\ request'[c.by].at \notin has
                      \/ request'[c.by].step = "lost" /\ births > 1
                      \/ request'[c.by].step = "unanswered" /\ c.place = 0
    BY <1>1 DEF Accounted
  <2>1. c.by \in Slot
    BY DEF PaidInv, PaidTypeOK
  <2>2. CASE c.by = q
    BY <2>2, <1>2, <1>3 DEF Settled
  <2>3. CASE c.by # q
    BY <2>1, <2>3, <1>3 DEF PaidInv, Accounted
  <2> QED
    BY <2>2, <2>3
<1> QED
  BY <1>4, <1>6, <1>7 DEF PaidInv

\* A file that is gone does not come back.
LEMMA PurgeStep == ASSUME PaidInv, NEW r \in Replica, Purge(r) PROVE PaidInv'
<1>1. /\ has' = has \ {r}
      /\ UNCHANGED <<mined, home, claims, request, claimed, births, now>>
  BY DEF Purge
<1>2. PaidTypeOK' /\ Addressed' /\ HasClaimed' /\ Kept' /\ RedeemedOnce'
  BY <1>1 DEF PaidInv, PaidTypeOK, Addressed, HasClaimed, Kept, RedeemedOnce
<1>3. Checked' /\ Accounted'
  BY <1>1 DEF PaidInv, Checked, Accounted
<1> QED
  BY <1>2, <1>3 DEF PaidInv

\* Requests are lost with the replica they were at, and the place of its claims
\* is a new one.
LEMMA RestartSeederStep == ASSUME PaidInv, NEW r \in Replica, RestartSeeder(r) PROVE PaidInv'
<1>1. /\ births' = births + 1
      /\ home' = [home EXCEPT ![r] = IF @ = 0 THEN 0 ELSE births + 1]
      /\ UNCHANGED <<mined, has, claims, claimed, now>>
      /\ births \in Nat \ {0} /\ home \in [Replica -> Nat] /\ request \in [Slot -> Sent]
  BY DEF RestartSeeder, PaidInv, PaidTypeOK
<1>2. home' \in [Replica -> Nat] /\ births' \in Nat \ {0} /\ births' > 1
  BY <1>1
<1>3. /\ request' \in [Slot -> Sent]
      /\ \A q \in Slot : \/ request'[q] = request[q]
                         \/ /\ request[q].step \in InSeeder
                            /\ request'[q].step = "lost"
  <2>1. request' = [q \in Slot |-> IF request[q].at = r /\ request[q].step \in InSeeder
                                   THEN [request[q] EXCEPT !.step = "lost"] ELSE request[q]]
    BY DEF RestartSeeder
  <2>2. \A q \in Slot : /\ request[q] \in Sent
                        /\ [request[q] EXCEPT !.step = "lost"] \in Sent
                        /\ [request[q] EXCEPT !.step = "lost"].step = "lost"
    BY <1>1 DEF Sent, Steps
  <2> QED
    BY <2>1, <2>2
<1>4. PaidTypeOK' /\ Kept' /\ RedeemedOnce'
  BY <1>1, <1>2, <1>3 DEF PaidInv, PaidTypeOK, Kept, RedeemedOnce
<1>5. \A q \in Slot : request'[q].step \in InSeeder \cup Passed => request'[q] = request[q]
  BY <1>3 DEF InSeeder, Passed
<1>6. Addressed' /\ Checked'
  BY <1>1, <1>5 DEF PaidInv, Addressed, Checked
<1>7. HasClaimed'
  BY <1>1, <1>5 DEF PaidInv, HasClaimed, Settled, Passed
<1>8. Accounted'
  <2> SUFFICES ASSUME NEW c \in claimed
               PROVE  \/ request'[c.by].step \in Settled
                      \/ request'[c.by].step = "500" /\ request'[c.by].at \notin has
                      \/ request'[c.by].step = "lost" /\ births' > 1
                      \/ request'[c.by].step = "unanswered" /\ c.place = 0
    BY <1>1 DEF Accounted
  <2>1. c.by \in Slot
    BY DEF PaidInv, PaidTypeOK
  <2>2. CASE request'[c.by] = request[c.by]
    BY <2>2, <1>2 DEF PaidInv, Accounted
  <2>3. CASE request'[c.by].step = "lost"
    BY <2>3, <1>2
  <2> QED
    BY <2>1, <2>2, <2>3, <1>3
<1> QED
  BY <1>4, <1>6, <1>7, <1>8 DEF PaidInv

-----------------------------------------------------------------------------

\* For any number of replicas, requests and transactions, whatever they share,
\* forget or lose (handleChunk, VerifyChunkPayment, Claim): one place of claims
\* redeems a payment once within its time, what is handed out was paid for, and a
\* payment that was claimed and not answered has one of the known reasons.
THEOREM OnePaymentOneChunk == PaidSpec => []PaidCorrect
<1>1. PaidInv /\ [PaidNext]_<<paidVars, now>> => PaidInv'
  <2> SUFFICES ASSUME PaidInv, [PaidNext]_<<paidVars, now>> PROVE PaidInv'
    OBVIOUS
  <2>1. ASSUME NEW tx \in Tx, Mine(tx) PROVE PaidInv'
    BY <2>1, MineStep
  <2>2. ASSUME NEW q \in Slot, NEW r \in Replica, NEW tx \in Tx \cup {NoTx},
               NEW method \in {"GET", "HEAD"}, Ask(q, r, tx, method)
        PROVE  PaidInv'
    BY <2>2, AskStep
  <2>3. ASSUME NEW q \in Slot, CheckReceipt(q) PROVE PaidInv'
    BY <2>3, CheckReceiptStep
  <2>4. ASSUME NEW q \in Slot, Claim(q) PROVE PaidInv'
    BY <2>4, ClaimStep
  <2>5. ASSUME NEW q \in Slot, Answer(q) PROVE PaidInv'
    BY <2>5, AnswerStep
  <2>6. ASSUME NEW r \in Replica, Purge(r) PROVE PaidInv'
    BY <2>6, PurgeStep
  <2>7. ASSUME NEW r \in Replica, RestartSeeder(r) PROVE PaidInv'
    BY <2>7, RestartSeederStep
  <2>8. CASE Tick /\ UNCHANGED paidVars
    <3>1. now \in Nat /\ now' = now + 1 /\ claimed \subseteq [by : Slot, tx : Tx, place : Nat, at : Nat]
      BY <2>8 DEF Tick, PaidInv, PaidTypeOK
    <3>2. PaidTypeOK' /\ Addressed' /\ Checked' /\ HasClaimed'
      BY <2>8, <3>1 DEF paidVars, PaidInv, PaidTypeOK, Addressed, Checked, HasClaimed
    <3>3. Kept' /\ Accounted' /\ RedeemedOnce'
      BY <2>8, <3>1 DEF paidVars, PaidInv, Kept, Accounted, RedeemedOnce
    <3> QED
      BY <3>2, <3>3 DEF PaidInv
  <2>9. CASE UNCHANGED <<paidVars, now>>
    BY <2>9 DEF paidVars, PaidInv, PaidTypeOK, Addressed, Checked, HasClaimed, Kept,
                Accounted, RedeemedOnce
  <2> QED
    BY <2>1, <2>2, <2>3, <2>4, <2>5, <2>6, <2>7, <2>8, <2>9 DEF PaidNext
<1> QED
  BY InitHolds, InvServedIsPaid, <1>1, PTL DEF PaidSpec

-----------------------------------------------------------------------------
(* Uploads.                                                                *)

BrokerSteps == {"empty", "signed", "expired", "401", "verified", "409", "consumed", "500",
                "400", "pinning", "502", "200", "made up"}
Intent == [creator : Nat, signer : Nat, chunks : Seq([index : Nat, size : Nat]), total : Nat,
           nonce : Nat, deadline : Nat]
Post == [step : BrokerSteps, intent : Intent, at : Replica \cup {0}, since : Nat]

\* The types.
BrokerTypeOK ==
    /\ now \in Nat
    /\ place \in [Replica -> Nat]
    /\ nonces \subseteq [creator : Nat, nonce : Nat, place : Nat, expires : Nat]
    /\ slot \in [Slot -> Post]
    /\ pins \subseteq [by : Slot, intent : Intent, at : Nat, place : Nat]
    /\ lives \in Nat

\* An intent runs out ClientTTL after its nonce was drawn; what the broker is at
\* came to a replica in time, at most a tick ago, with its creator's signature.
Timely ==
    \A q \in Slot :
        LET i == slot[q].intent IN
        /\ slot[q].step # "empty" => i.nonce <= now /\ i.deadline = i.nonce + ClientTTL
        /\ slot[q].step \in InBroker =>
              /\ slot[q].at \in Replica
              /\ i.signer = i.creator
              /\ slot[q].since <= i.deadline
              /\ slot[q].since <= now /\ now <= slot[q].since + 1

SameNonce(i, j) == i.creator = j.creator /\ i.nonce = j.nonce

\* The nonce of i was consumed at p.
Entered(i, p) == \E n \in nonces : SameNonce(n, i) /\ n.place = p

Late == {"409", "consumed", "500", "400", "pinning", "502", "200", "made up"}
Spending == {"consumed", "pinning"}

\* A consumed nonce is kept longer than its intent is valid, and a request past
\* the nonce check has it.
NoncesKept ==
    \A n \in nonces :
        /\ n.expires >= n.nonce + NonceTTL
        /\ \E q \in Slot : slot[q].step \in Late /\ SameNonce(slot[q].intent, n)

\* A request that may still pin has consumed its nonce at its place, alone.
SpentAlone ==
    \A q \in Slot : slot[q].step \in Spending =>
        /\ Entered(slot[q].intent, place[slot[q].at])
        /\ \A p \in Slot :
              /\ slot[p].step \in Spending
              /\ SameNonce(slot[p].intent, slot[q].intent)
              /\ place[slot[p].at] = place[slot[q].at]
              => p = q
        /\ slot[q].step = "pinning" => Balanced(slot[q].intent)

\* What was pinned had consumed its nonce, and no request still may.
PinsSpent ==
    \A p \in pins :
        /\ Entered(p.intent, p.place)
        /\ \A q \in Slot :
              slot[q].step \in Spending /\ SameNonce(slot[q].intent, p.intent)
                 => place[slot[q].at] # p.place
        /\ p.intent.signer = p.intent.creator
        /\ p.at <= p.intent.deadline + 1
        /\ Balanced(p.intent)

\* A refused request follows one that has consumed its nonce.
Caused ==
    \A q \in Slot : slot[q].step = "409" =>
        \E p \in Slot \ {q} : slot[p].step \in Late /\ SameNonce(slot[p].intent, slot[q].intent)

BrokerInv == BrokerTypeOK /\ Timely /\ NoncesKept /\ SpentAlone /\ PinsSpent
             /\ PinnedOnce /\ Caused

\* One request moves on, and nothing else changes.
LEMMA RequestMoves ==
    ASSUME BrokerInv, NEW q \in Slot, NEW new \in Post,
           slot' = [slot EXCEPT ![q] = new], UNCHANGED <<place, nonces, pins, lives, now>>,
           new.intent = slot[q].intent \/ slot[q].step = "empty",
           slot[q].step \in Late => new.step \in Late,
           new.step # "empty" => new.intent.nonce <= now
                                 /\ new.intent.deadline = new.intent.nonce + ClientTTL,
           new.step \in InBroker =>
              /\ new.at \in Replica /\ new.intent.signer = new.intent.creator
              /\ new.since <= new.intent.deadline /\ new.since <= now /\ now <= new.since + 1,
           new.step \in Spending => slot[q].step \in Spending /\ new.at = slot[q].at,
           new.step = "pinning" => Balanced(new.intent),
           new.step = "409" => \E p \in Slot \ {q} : slot[p].step \in Late
                                                     /\ SameNonce(slot[p].intent, new.intent)
    PROVE  BrokerInv'
<1> USE DEF BrokerInv
<1>1. slot'[q] = new /\ \A p \in Slot : p # q => slot'[p] = slot[p]
  BY DEF BrokerTypeOK
<1>2. BrokerTypeOK'
  BY DEF BrokerTypeOK
<1>3. Timely'
  BY <1>1 DEF Timely
<1>4. \A p \in Slot : slot[p].step \in Late =>
         slot'[p].step \in Late /\ slot'[p].intent = slot[p].intent
  BY <1>1 DEF Late
<1>5. NoncesKept'
  BY <1>4 DEF NoncesKept
<1>6. \A p \in Slot : slot'[p].step \in Spending =>
         /\ slot[p].step \in Spending
         /\ slot'[p].intent = slot[p].intent /\ slot'[p].at = slot[p].at
  BY <1>1 DEF Spending
<1>7. SpentAlone'
  <2> SUFFICES ASSUME NEW p \in Slot, slot'[p].step \in Spending
               PROVE  /\ Entered(slot[p].intent, place[slot[p].at])'
                      /\ \A o \in Slot :
                            /\ slot'[o].step \in Spending
                            /\ SameNonce(slot'[o].intent, slot'[p].intent)
                            /\ place'[slot'[o].at] = place'[slot'[p].at]
                            => o = p
                      /\ slot'[p].step = "pinning" => Balanced(slot'[p].intent)
    BY DEF SpentAlone
  <2>1. Entered(slot[p].intent, place[slot[p].at])'
    BY <1>6 DEF SpentAlone, Entered
  <2>2. \A o \in Slot :
           /\ slot'[o].step \in Spending
           /\ SameNonce(slot'[o].intent, slot'[p].intent)
           /\ place'[slot'[o].at] = place'[slot'[p].at]
           => o = p
    BY <1>6 DEF SpentAlone
  <2>3. slot'[p].step = "pinning" => Balanced(slot'[p].intent)
    BY <1>1 DEF SpentAlone, Spending
  <2> QED BY <2>1, <2>2, <2>3
<1>8. PinsSpent'
  BY <1>6 DEF PinsSpent, Entered
<1>9. PinnedOnce'
  BY DEF PinnedOnce
<1>10. Caused'
  <2> SUFFICES ASSUME NEW p \in Slot, slot'[p].step = "409"
               PROVE  \E o \in Slot \ {p} : slot[o].step \in Late
                                            /\ SameNonce(slot[o].intent, slot'[p].intent)
    BY <1>4 DEF Caused
  <2>1. CASE p = q
    BY <1>1, <2>1
  <2>2. CASE p # q
    BY <1>1, <2>2 DEF Caused
  <2> QED BY <2>1, <2>2
<1> QED BY <1>2, <1>3, <1>5, <1>7, <1>8, <1>9, <1>10

\* A request only changes its step.
LEMMA StepType ==
    ASSUME NEW r \in Post, NEW step \in BrokerSteps
    PROVE  /\ [r EXCEPT !.step = step] \in Post
           /\ [r EXCEPT !.step = step].step = step
           /\ [r EXCEPT !.step = step].intent = r.intent
           /\ [r EXCEPT !.step = step].at = r.at
           /\ [r EXCEPT !.step = step].since = r.since
BY DEF Post

\* ... out of the broker, or on to the pinner.
LEMMA StepMoves ==
    ASSUME BrokerInv, NEW q \in Slot, NEW step \in BrokerSteps, BrokerStep(q, step),
           UNCHANGED <<place, nonces, pins, lives, now>>,
           slot[q].step # "empty", step # "empty",
           slot[q].step \in Late => step \in Late,
           step \in InBroker => step = "pinning" /\ slot[q].step = "consumed"
                                /\ Balanced(slot[q].intent),
           step = "409" => \E p \in Slot \ {q} : slot[p].step \in Late
                                               /\ SameNonce(slot[p].intent, slot[q].intent)
    PROVE  BrokerInv'
<1> DEFINE new == [slot[q] EXCEPT !.step = step]
<1>1. slot' = [slot EXCEPT ![q] = new]
  BY DEF BrokerStep, BrokerInv, BrokerTypeOK
<1>2. /\ slot[q] \in Post /\ new \in Post /\ new.step = step /\ new.intent = slot[q].intent
      /\ new.at = slot[q].at /\ new.since = slot[q].since
  BY StepType DEF BrokerInv, BrokerTypeOK
<1>3. /\ slot[q].intent.nonce <= now /\ slot[q].intent.deadline = slot[q].intent.nonce + ClientTTL
      /\ slot[q].step \in InBroker =>
           /\ slot[q].at \in Replica /\ slot[q].intent.signer = slot[q].intent.creator
           /\ slot[q].since <= slot[q].intent.deadline
           /\ slot[q].since <= now /\ now <= slot[q].since + 1
  BY DEF BrokerInv, Timely
<1>4. /\ slot[q].step = "consumed" => slot[q].step \in InBroker /\ slot[q].step \in Spending
      /\ step \in Spending => step \in InBroker
  BY DEF InBroker, Spending
<1> HIDE DEF new
<1>5. /\ new.intent.nonce <= now /\ new.intent.deadline = new.intent.nonce + ClientTTL
      /\ new.intent = slot[q].intent
      /\ slot[q].step \in Late => new.step \in Late
  BY <1>2, <1>3
<1>6. ASSUME new.step \in InBroker
      PROVE  /\ new.at \in Replica /\ new.intent.signer = new.intent.creator
             /\ new.since <= new.intent.deadline /\ new.since <= now /\ now <= new.since + 1
  BY <1>2, <1>3, <1>4, <1>6
<1>7. new.step \in Spending => slot[q].step \in Spending /\ new.at = slot[q].at
  BY <1>2, <1>4
<1>8. new.step = "pinning" => Balanced(new.intent)
  <2> SUFFICES ASSUME step = "pinning" PROVE Balanced(slot[q].intent)
    BY <1>2
  <2> QED BY DEF InBroker
<1>9. new.step = "409" => \E p \in Slot \ {q} : slot[p].step \in Late
                                               /\ SameNonce(slot[p].intent, new.intent)
  BY <1>2
<1> QED BY <1>1, <1>2, <1>5, <1>6, <1>7, <1>8, <1>9, RequestMoves

LEMMA BuildStep ==
    ASSUME BrokerInv, NEW q \in Slot, NEW u \in Upload, Build(q, u)
    PROVE  BrokerInv'
<1> DEFINE i == [creator |-> u.creator, signer |-> u.signer, chunks |-> u.chunks,
                 total |-> u.total, nonce |-> now, deadline |-> now + ClientTTL]
           new == [step |-> "signed", at |-> 0, since |-> now, intent |-> i]
<1>1. now \in Nat /\ i \in Intent
  BY BrokerAssumption DEF BrokerInv, BrokerTypeOK, Intent
<1>2. new \in Post
  <2> HIDE DEF i
  <2> QED BY <1>1 DEF Post, BrokerSteps
<1>3. new.step = "signed" /\ new.intent.nonce = now /\ new.intent.deadline = now + ClientTTL
  OBVIOUS
<1>4. /\ slot[q].step = "empty" /\ slot' = [slot EXCEPT ![q] = new]
      /\ UNCHANGED <<place, nonces, pins, lives, now>>
  BY DEF Build
<1>5. /\ slot[q].step \notin Late /\ new.step \notin InBroker /\ new.step \notin Spending
      /\ new.step # "pinning" /\ new.step # "409" /\ new.intent.nonce <= now
  BY <1>1, <1>3, <1>4 DEF Late, Spending, InBroker
<1> HIDE DEF new, i
<1> QED BY <1>2, <1>3, <1>4, <1>5, RequestMoves

LEMMA DuplicateStep ==
    ASSUME BrokerInv, NEW q \in Slot, NEW p \in Slot, Duplicate(q, p)
    PROVE  BrokerInv'
<1> DEFINE new == [Empty EXCEPT !.step = "signed", !.since = now, !.intent = slot[p].intent]
<1>1. slot[p] \in Post /\ now \in Nat
  BY DEF BrokerInv, BrokerTypeOK
<1>2. Empty \in [step : {"empty"}, intent : {NoIntent}, at : {0}, since : {0}]
  BY DEF Empty
<1>3. new \in Post /\ new.step = "signed" /\ new.intent = slot[p].intent
  <2>1. new \in [step : {"signed"}, intent : {slot[p].intent}, at : {0}, since : {now}]
    BY <1>2
  <2> HIDE DEF new
  <2> QED BY <1>1, <2>1 DEF Post, BrokerSteps
<1>4. /\ slot[q].step = "empty" /\ slot' = [slot EXCEPT ![q] = new]
      /\ UNCHANGED <<place, nonces, pins, lives, now>>
  BY DEF Duplicate
<1>5. slot[p].intent.nonce <= now /\ slot[p].intent.deadline = slot[p].intent.nonce + ClientTTL
  BY DEF Duplicate, BrokerInv, Timely
<1>6. /\ slot[q].step \notin Late /\ new.step \notin InBroker /\ new.step \notin Spending
      /\ new.step # "pinning" /\ new.step # "409"
  BY <1>3, <1>4 DEF Late, Spending, InBroker
<1> HIDE DEF new
<1> QED BY <1>3, <1>4, <1>5, <1>6, RequestMoves

\* Verify: a signature of another, or a late one, is refused.
LEMMA VerifyStep ==
    ASSUME BrokerInv, NEW q \in Slot, NEW r \in Replica, Verify(q, r)
    PROVE  BrokerInv'
<1> DEFINE i == slot[q].intent
<1>1. slot[q].step = "signed" /\ UNCHANGED <<place, nonces, pins, lives, now>>
  BY DEF Verify
<1>2. \/ BrokerStep(q, "expired") \/ BrokerStep(q, "401")
      \/ /\ now <= i.deadline /\ i.signer = i.creator
         /\ slot' = [slot EXCEPT ![q].step = "verified", ![q].at = r, ![q].since = now]
  BY DEF Verify
<1>3. CASE BrokerStep(q, "expired") \/ BrokerStep(q, "401")
  BY <1>1, <1>3, StepMoves DEF Late, InBroker, BrokerSteps
<1>4. CASE /\ now <= i.deadline /\ i.signer = i.creator
           /\ slot' = [slot EXCEPT ![q].step = "verified", ![q].at = r, ![q].since = now]
  <2> DEFINE new == [slot[q] EXCEPT !.step = "verified", !.at = r, !.since = now]
  <2>1. slot[q] \in Post /\ now \in Nat
    BY DEF BrokerInv, BrokerTypeOK
  <2>2. new \in Post /\ new.step = "verified" /\ new.intent = i /\ new.at = r /\ new.since = now
    BY <2>1 DEF Post, BrokerSteps
  <2>3. slot' = [slot EXCEPT ![q] = new]
    BY <1>4 DEF BrokerInv, BrokerTypeOK
  <2>4. i.nonce <= now /\ i.deadline = i.nonce + ClientTTL
    BY <1>1 DEF BrokerInv, Timely
  <2>5. /\ slot[q].step \notin Late /\ new.step \notin Spending /\ new.step # "pinning"
        /\ new.step # "409"
        /\ new.since <= new.intent.deadline /\ new.since <= now /\ now <= new.since + 1
    BY <1>1, <1>4, <2>1, <2>2 DEF Late, Spending
  <2> HIDE DEF new, i
  <2> QED BY ZenonT(40), <1>1, <1>4, <2>2, <2>3, <2>4, <2>5, RequestMoves DEF i
<1> QED BY <1>2, <1>3, <1>4

\* Validate and Unreachable.
LEMMA ValidateStep ==
    ASSUME BrokerInv, NEW q \in Slot, Validate(q) \/ Unreachable(q)
    PROVE  BrokerInv'
<1>1. CASE Validate(q)
  <2>1. CASE Balanced(slot[q].intent)
    BY <1>1, <2>1, StepMoves DEF Validate, Late, InBroker, BrokerSteps
  <2>2. CASE ~Balanced(slot[q].intent)
    BY <1>1, <2>2, StepMoves DEF Validate, Late, InBroker, BrokerSteps
  <2> QED BY <2>1, <2>2
<1>2. CASE Unreachable(q)
  BY <1>2, StepMoves DEF Unreachable, Late, InBroker, BrokerSteps
<1> QED BY <1>1, <1>2

\* A nonce that still counts was consumed; one that no longer does is of an
\* intent that has run out, for it is kept longer.
LEMMA HeldIsEntered ==
    ASSUME BrokerInv, NEW q \in Slot, slot[q].step = "verified"
    PROVE  Held(slot[q].intent, place[slot[q].at]) <=> Entered(slot[q].intent, place[slot[q].at])
<1> DEFINE i == slot[q].intent
           p == place[slot[q].at]
<1>1. /\ i \in Intent /\ slot[q].since \in Nat /\ now \in Nat
      /\ i.deadline = i.nonce + ClientTTL
      /\ slot[q].since <= i.deadline /\ now <= slot[q].since + 1
  BY DEF BrokerInv, BrokerTypeOK, Post, Timely, InBroker
<1>2. i.nonce \in Nat /\ i.deadline \in Nat
  BY <1>1 DEF Intent
<1>3. now < i.nonce + NonceTTL
  BY SMTT(20), <1>1, <1>2, BrokerAssumption
<1>4. ASSUME NEW n \in nonces, n.nonce = i.nonce PROVE now < n.expires
  <2>1. n.expires \in Nat /\ n.expires >= n.nonce + NonceTTL
    BY DEF BrokerInv, BrokerTypeOK, NoncesKept
  <2> QED BY <1>1, <1>2, <1>3, <1>4, <2>1, BrokerAssumption
<1> HIDE DEF i, p
<1>5. Held(i, p) <=> Entered(i, p)
  BY <1>4 DEF Held, Entered, SameNonce
<1> QED BY <1>5 DEF i, p

\* A request fails after its nonce may have been consumed: 500, and nothing is
\* left to pin for it; or it goes on alone.
LEMMA NonceSpent ==
    ASSUME BrokerInv, NEW q \in Slot, NEW step \in {"consumed", "500"},
           slot[q].step = "verified", BrokerStep(q, step),
           ~Held(slot[q].intent, place[slot[q].at]),
           nonces' = {n \in nonces : ~(/\ n.creator = slot[q].intent.creator
                                       /\ n.nonce = slot[q].intent.nonce
                                       /\ n.place = place[slot[q].at])}
                     \cup {[creator |-> slot[q].intent.creator, nonce |-> slot[q].intent.nonce,
                            place |-> place[slot[q].at], expires |-> now + NonceTTL]},
           UNCHANGED <<place, pins, lives, now>>
    PROVE  BrokerInv'
<1> DEFINE i == slot[q].intent
           p == place[slot[q].at]
           n0 == [creator |-> i.creator, nonce |-> i.nonce, place |-> p,
                  expires |-> now + NonceTTL]
           new == [slot[q] EXCEPT !.step = step]
<1> USE DEF BrokerInv
<1>1. /\ slot[q] \in Post /\ new \in Post /\ new.step = step /\ new.intent = i
      /\ new.at = slot[q].at /\ new.since = slot[q].since
  <2>1. slot[q] \in Post /\ step \in BrokerSteps
    BY DEF BrokerTypeOK, BrokerSteps
  <2> QED BY <2>1, StepType
<1>2. slot' = [slot EXCEPT ![q] = new]
  BY DEF BrokerStep, BrokerTypeOK
<1>3. ~Entered(i, p)
  BY HeldIsEntered
<1>4. /\ i \in Intent /\ slot[q].at \in Replica /\ now \in Nat /\ p \in Nat
      /\ i.nonce <= now /\ i.deadline = i.nonce + ClientTTL /\ i.signer = i.creator
      /\ slot[q].since <= i.deadline /\ slot[q].since <= now /\ now <= slot[q].since + 1
  BY <1>1 DEF BrokerTypeOK, Post, Timely, InBroker
<1>5. i.creator \in Nat /\ i.nonce \in Nat /\ i.signer \in Nat
  BY <1>4 DEF Intent
<1>6. /\ n0 \in [creator : Nat, nonce : Nat, place : Nat, expires : Nat]
      /\ SameNonce(n0, i) /\ n0.place = p /\ n0.expires = now + NonceTTL /\ n0.nonce = i.nonce
  BY <1>4, <1>5, BrokerAssumption DEF SameNonce
<1>7. nonces' = nonces \cup {n0}
  <2>1. \A n \in nonces : ~(n.creator = i.creator /\ n.nonce = i.nonce /\ n.place = p)
    BY <1>3 DEF Entered, SameNonce
  <2> QED BY <2>1
<1>8. slot'[q] = new /\ \A o \in Slot : o # q => slot'[o] = slot[o]
  BY <1>2 DEF BrokerTypeOK
<1> HIDE DEF n0, new, i, p
<1>9. BrokerTypeOK'
  BY <1>1, <1>2, <1>6, <1>7 DEF BrokerTypeOK
<1>10. Timely'
  <2> SUFFICES ASSUME NEW o \in Slot
               PROVE  /\ slot'[o].step # "empty" => slot'[o].intent.nonce <= now
                                        /\ slot'[o].intent.deadline = slot'[o].intent.nonce + ClientTTL
                      /\ slot'[o].step \in InBroker =>
                            /\ slot'[o].at \in Replica
                            /\ slot'[o].intent.signer = slot'[o].intent.creator
                            /\ slot'[o].since <= slot'[o].intent.deadline
                            /\ slot'[o].since <= now /\ now <= slot'[o].since + 1
    BY DEF Timely
  <2>1. CASE o = q
    BY <1>1, <1>4, <1>8, <2>1
  <2>2. CASE o # q
    BY <1>8, <2>2 DEF Timely
  <2> QED BY <2>1, <2>2
<1>11. step \in Late /\ "verified" \notin Late /\ "verified" \notin Spending
  BY DEF Late, Spending
<1>12. \A o \in Slot : slot[o].step \in Late => slot'[o].step \in Late /\ slot'[o].intent = slot[o].intent
  BY <1>8, <1>11
<1>13. NoncesKept'
  <2> SUFFICES ASSUME NEW n \in nonces'
               PROVE  /\ n.expires >= n.nonce + NonceTTL
                      /\ \E o \in Slot : slot'[o].step \in Late /\ SameNonce(slot'[o].intent, n)
    BY DEF NoncesKept
  <2>1. CASE n \in nonces
    BY <1>12, <2>1 DEF NoncesKept
  <2>2. CASE n = n0
    <3>1. n.expires >= n.nonce + NonceTTL
      BY <1>4, <1>5, <1>6, <2>2, BrokerAssumption
    <3>2. slot'[q].step \in Late /\ SameNonce(slot'[q].intent, n)
      BY <1>1, <1>6, <1>8, <1>11, <2>2 DEF SameNonce
    <3> QED BY <3>1, <3>2
  <2> QED BY <1>7, <2>1, <2>2
<1>14. \A j, r : Entered(j, r) => \E n \in nonces' : SameNonce(n, j) /\ n.place = r
  BY <1>7 DEF Entered
<1>15. \E n \in nonces' : SameNonce(n, i) /\ n.place = p
  BY <1>6, <1>7
\* Another that may still pin has its own nonce consumed there: not this one.
<1>16. ASSUME NEW o \in Slot, o # q, slot'[o].step \in Spending, SameNonce(slot'[o].intent, i)
       PROVE  place[slot'[o].at] # p
  <2>1. slot'[o] = slot[o] /\ Entered(slot[o].intent, place[slot[o].at])
    BY <1>8, <1>16 DEF SpentAlone
  <2>2. place[slot[o].at] = p => Entered(i, p)
    BY <1>16, <2>1 DEF Entered, SameNonce
  <2> QED BY <1>3, <2>1, <2>2 DEF i, p
<1>17. SpentAlone'
  <2> SUFFICES ASSUME NEW o \in Slot, slot'[o].step \in Spending
               PROVE  /\ Entered(slot[o].intent, place[slot[o].at])'
                      /\ \A u \in Slot :
                            /\ slot'[u].step \in Spending
                            /\ SameNonce(slot'[u].intent, slot'[o].intent)
                            /\ place'[slot'[u].at] = place'[slot'[o].at]
                            => u = o
                      /\ slot'[o].step = "pinning" => Balanced(slot'[o].intent)
    BY DEF SpentAlone
  <2>1. CASE o = q
    <3>1. slot'[o].intent = i /\ place'[slot'[o].at] = p /\ slot'[o].step # "pinning"
      BY <1>1, <1>8, <2>1 DEF p
    <3>2. Entered(slot[o].intent, place[slot[o].at])'
      BY <1>15, <3>1 DEF Entered
    <3> QED BY <1>16, <2>1, <3>1, <3>2
  <2>2. CASE o # q
    <3>1. /\ slot'[o] = slot[o] /\ Entered(slot[o].intent, place[slot[o].at])
          /\ slot[o].step = "pinning" => Balanced(slot[o].intent)
      BY <1>8, <2>2 DEF SpentAlone
    <3>2. Entered(slot[o].intent, place[slot[o].at])'
      <4>1. \E n \in nonces' : SameNonce(n, slot[o].intent) /\ n.place = place[slot[o].at]
        BY <1>14, <3>1
      <4> QED BY <3>1, <4>1 DEF Entered
    <3>3. ASSUME NEW u \in Slot, slot'[u].step \in Spending,
                 SameNonce(slot'[u].intent, slot'[o].intent),
                 place'[slot'[u].at] = place'[slot'[o].at]
          PROVE  u = o
      <4>1. CASE u = q
        <5>1. slot'[u].intent = i /\ place[slot'[u].at] = p
          BY <1>1, <1>8, <4>1 DEF p
        <5>2. SameNonce(slot'[o].intent, i)
          BY <3>3, <5>1 DEF SameNonce
        <5> QED BY <1>16, <2>2, <3>3, <5>1, <5>2
      <4>2. CASE u # q
        BY <1>8, <2>2, <3>3, <4>2 DEF SpentAlone
      <4> QED BY <4>1, <4>2
    <3> QED BY <3>1, <3>2, <3>3
  <2> QED BY <2>1, <2>2
<1>18. PinsSpent'
  <2> SUFFICES ASSUME NEW pin \in pins
               PROVE  /\ Entered(pin.intent, pin.place)'
                      /\ \A o \in Slot :
                            slot'[o].step \in Spending /\ SameNonce(slot'[o].intent, pin.intent)
                               => place'[slot'[o].at] # pin.place
                      /\ pin.intent.signer = pin.intent.creator
                      /\ pin.at <= pin.intent.deadline + 1
                      /\ Balanced(pin.intent)
    BY DEF PinsSpent
  <2>1. /\ Entered(pin.intent, pin.place)
        /\ pin.intent.signer = pin.intent.creator /\ pin.at <= pin.intent.deadline + 1
        /\ Balanced(pin.intent)
    BY DEF PinsSpent
  <2>2. Entered(pin.intent, pin.place)'
    <3>1. \E n \in nonces' : SameNonce(n, pin.intent) /\ n.place = pin.place
      BY <1>14, <2>1
    <3> QED BY <3>1 DEF Entered
  <2>3. ASSUME NEW o \in Slot, slot'[o].step \in Spending, SameNonce(slot'[o].intent, pin.intent)
        PROVE  place[slot'[o].at] # pin.place
    <3>1. CASE o = q
      <4>1. slot'[o].intent = i /\ place[slot'[o].at] = p
        BY <1>1, <1>8, <3>1 DEF p
      <4>2. p = pin.place => Entered(i, p)
        BY <2>1, <2>3, <4>1 DEF Entered, SameNonce
      <4> QED BY <1>3, <4>1, <4>2 DEF i, p
    <3>2. CASE o # q
      BY <1>8, <2>3, <3>2 DEF PinsSpent
    <3> QED BY <3>1, <3>2
  <2> QED BY <2>1, <2>2, <2>3
<1>19. PinnedOnce'
  BY DEF PinnedOnce
<1>20. Caused'
  <2> SUFFICES ASSUME NEW o \in Slot, slot'[o].step = "409"
               PROVE  \E u \in Slot \ {o} : slot[u].step \in Late
                                            /\ SameNonce(slot[u].intent, slot'[o].intent)
    BY <1>12 DEF Caused
  <2>1. o # q
    BY <1>1, <1>8
  <2> QED BY <1>8, <2>1 DEF Caused
<1> QED BY <1>9, <1>10, <1>13, <1>17, <1>18, <1>19, <1>20

LEMMA ConsumeStep ==
    ASSUME BrokerInv, NEW q \in Slot, ConsumeNonce(q)
    PROVE  BrokerInv'
<1> DEFINE i == slot[q].intent
           p == place[slot[q].at]
           consumed == {n \in nonces : ~(/\ n.creator = i.creator /\ n.nonce = i.nonce
                                         /\ n.place = p)}
                       \cup {[creator |-> i.creator, nonce |-> i.nonce, place |-> p,
                              expires |-> now + NonceTTL]}
<1>1. slot[q].step = "verified" /\ UNCHANGED <<place, pins, lives, now>>
  BY DEF ConsumeNonce
<1>2. \/ Held(i, p) /\ BrokerStep(q, "409") /\ UNCHANGED nonces
      \/ ~Held(i, p) /\ (BrokerStep(q, "consumed") \/ BrokerStep(q, "500")) /\ nonces' = consumed
      \/ BrokerStep(q, "500") /\ UNCHANGED nonces
  <2> HIDE DEF consumed
  <2>1. \/ Held(i, p) /\ BrokerStep(q, "409") /\ UNCHANGED nonces
        \/ ~Held(i, p) /\ BrokerStep(q, "consumed") /\ nonces' = consumed
        \/ /\ p = 0 /\ BrokerStep(q, "500")
           /\ nonces' \in {nonces} \cup (IF Held(i, p) THEN {} ELSE {consumed})
    BY DEF ConsumeNonce, consumed
  <2> QED BY <2>1
<1>3. CASE Held(i, p) /\ BrokerStep(q, "409") /\ UNCHANGED nonces
  \* The one that consumed it is another.
  <2>1. PICK n \in nonces : SameNonce(n, i)
    BY <1>3 DEF Held, SameNonce
  <2>2. PICK o \in Slot : slot[o].step \in Late /\ SameNonce(slot[o].intent, n)
    BY <2>1 DEF BrokerInv, NoncesKept
  <2>3. o # q /\ SameNonce(slot[o].intent, slot[q].intent)
    BY <1>1, <2>1, <2>2 DEF Late, SameNonce
  <2> QED BY <1>1, <1>3, <2>2, <2>3, StepMoves DEF Late, InBroker, BrokerSteps
<1>4. CASE ~Held(i, p) /\ (BrokerStep(q, "consumed") \/ BrokerStep(q, "500")) /\ nonces' = consumed
  BY <1>1, <1>4, NonceSpent
<1>5. CASE BrokerStep(q, "500") /\ UNCHANGED nonces
  BY <1>1, <1>5, StepMoves DEF Late, InBroker, BrokerSteps
<1> QED BY <1>2, <1>3, <1>4, <1>5

LEMMA ATickLate == \A since, end, t \in Nat : since <= end /\ t <= since + 1 => t <= end + 1
OBVIOUS

\* A request that is pinned leaves the broker: its nonce lets no other pin.
LEMMA PinStep ==
    ASSUME BrokerInv, NEW q \in Slot, Pin(q)
    PROVE  BrokerInv'
<1>1. slot[q].step = "pinning" /\ UNCHANGED <<place, nonces, lives, now>>
  BY DEF Pin
<1>2. CASE BrokerStep(q, "502") /\ UNCHANGED pins
  BY <1>1, <1>2, StepMoves DEF Late, InBroker, BrokerSteps
<1>3. ASSUME NEW step \in {"200", "made up"}, BrokerStep(q, step), PinJSON(q)
      PROVE  BrokerInv'
  <2> DEFINE i == slot[q].intent
             pin == [by |-> q, intent |-> i, at |-> now, place |-> place[slot[q].at]]
             new == [slot[q] EXCEPT !.step = step]
  <2> USE DEF BrokerInv
  <2>1. /\ slot[q] \in Post /\ new \in Post /\ new.step = step /\ new.intent = i
        /\ new.at = slot[q].at /\ new.since = slot[q].since
    <3>1. slot[q] \in Post /\ step \in BrokerSteps
      BY DEF BrokerTypeOK, BrokerSteps
    <3> QED BY <3>1, StepType
  <2>2. slot' = [slot EXCEPT ![q] = new] /\ pins' = pins \cup {pin}
    BY <1>3 DEF BrokerStep, PinJSON, BrokerTypeOK
  <2>3. slot'[q] = new /\ \A o \in Slot : o # q => slot'[o] = slot[o]
    BY <2>2 DEF BrokerTypeOK
  <2>4. /\ i \in Intent /\ slot[q].at \in Replica /\ now \in Nat /\ place[slot[q].at] \in Nat
        /\ i.deadline = i.nonce + ClientTTL /\ i.nonce <= now
        /\ slot[q].since \in Nat /\ slot[q].since <= i.deadline /\ now <= slot[q].since + 1
        /\ i.signer = i.creator
    BY <1>1, <2>1 DEF BrokerTypeOK, Post, Timely, InBroker
  <2>5. step \in Late /\ step \notin Spending /\ step \notin InBroker /\ "pinning" \in Spending
        /\ step \notin {"empty", "409"} /\ "pinning" # "empty"
    BY <1>3 DEF Late, Spending, InBroker
  <2>6. Entered(i, place[slot[q].at]) /\ Balanced(i)
    BY <1>1, <2>5 DEF SpentAlone
  <2>7. i.deadline \in Nat
    <3>1. i \in Intent
      BY <2>4
    <3> QED BY <3>1 DEF Intent
  <2>8. /\ pin \in [by : Slot, intent : Intent, at : Nat, place : Nat]
        /\ pin.intent = i /\ pin.place = place[slot[q].at] /\ pin.at = now
    BY <2>4
  <2> HIDE DEF pin, new, i
  <2>9. BrokerTypeOK'
    BY <1>1, <2>1, <2>2, <2>8 DEF BrokerTypeOK
  <2>10. Timely'
    <3> SUFFICES ASSUME NEW o \in Slot
                 PROVE  /\ slot'[o].step # "empty" => slot'[o].intent.nonce <= now
                                        /\ slot'[o].intent.deadline = slot'[o].intent.nonce + ClientTTL
                        /\ slot'[o].step \in InBroker =>
                              /\ slot'[o].at \in Replica
                              /\ slot'[o].intent.signer = slot'[o].intent.creator
                              /\ slot'[o].since <= slot'[o].intent.deadline
                              /\ slot'[o].since <= now /\ now <= slot'[o].since + 1
      BY <1>1 DEF Timely
    <3>1. CASE o = q
      BY <2>1, <2>3, <2>4, <2>5, <3>1
    <3>2. CASE o # q
      BY <2>3, <3>2 DEF Timely
    <3> QED BY <3>1, <3>2
  <2>11. \A o \in Slot : slot[o].step \in Late =>
            slot'[o].step \in Late /\ slot'[o].intent = slot[o].intent
    BY <2>1, <2>3, <2>5 DEF i
  <2>12. NoncesKept'
    BY <1>1, <2>11 DEF NoncesKept
  <2>13. \A o \in Slot : slot'[o].step \in Spending => o # q /\ slot'[o] = slot[o]
    BY <2>1, <2>3, <2>5
  <2>14. SpentAlone'
    BY <1>1, <2>13 DEF SpentAlone, Entered
  <2>15. \A o \in Slot : slot'[o].step \in Spending /\ SameNonce(slot'[o].intent, i)
                           => place[slot'[o].at] # place[slot[q].at]
    <3> SUFFICES ASSUME NEW o \in Slot, slot'[o].step \in Spending, SameNonce(slot'[o].intent, i)
                 PROVE  place[slot'[o].at] # place[slot[q].at]
      OBVIOUS
    <3>1. o # q /\ slot[o].step \in Spending /\ SameNonce(slot[o].intent, slot[q].intent)
          /\ slot'[o] = slot[o]
      BY <2>13 DEF i
    <3> QED BY <1>1, <2>5, <3>1 DEF SpentAlone
  <2>16. PinsSpent'
    <3> SUFFICES ASSUME NEW x \in pins'
                 PROVE  /\ Entered(x.intent, x.place)
                        /\ \A o \in Slot :
                              slot'[o].step \in Spending /\ SameNonce(slot'[o].intent, x.intent)
                                 => place[slot'[o].at] # x.place
                        /\ x.intent.signer = x.intent.creator
                        /\ x.at <= x.intent.deadline + 1
                        /\ Balanced(x.intent)
      BY <1>1 DEF PinsSpent, Entered
    <3>1. CASE x \in pins
      BY <2>13, <3>1 DEF PinsSpent
    <3>2. CASE x = pin
      <4>1. now <= i.deadline + 1
        <5>1. /\ slot[q].since <= i.deadline /\ now <= slot[q].since + 1
              /\ slot[q].since \in Nat /\ now \in Nat
          BY <2>4
        <5> QED BY <2>7, <5>1, ATickLate, Zenon
      <4> QED BY <2>4, <2>6, <2>8, <2>15, <3>2, <4>1
    <3> QED BY <2>2, <3>1, <3>2
  <2>17. PinnedOnce'
    <3>1. ASSUME NEW x \in pins, x.place = pin.place, SameNonce(x.intent, i) PROVE FALSE
      <4>1. SameNonce(slot[q].intent, x.intent) /\ x.place = place[slot[q].at]
        BY <2>8, <3>1 DEF SameNonce, i
      <4> QED BY <1>1, <2>5, <4>1 DEF PinsSpent
    <3> QED BY <2>2, <2>8, <3>1 DEF PinnedOnce, SameNonce
  <2>18. Caused'
    <3> SUFFICES ASSUME NEW o \in Slot, slot'[o].step = "409"
                 PROVE  \E u \in Slot \ {o} : slot[u].step \in Late
                                              /\ SameNonce(slot[u].intent, slot'[o].intent)
      BY <2>11 DEF Caused
    <3>1. o # q
      BY <2>1, <2>3, <2>5
    <3> QED BY <2>3, <3>1 DEF Caused
  <2> QED BY <2>9, <2>10, <2>12, <2>14, <2>16, <2>17, <2>18
<1> QED BY <1>2, <1>3 DEF Pin

\* What a replica was at is lost with it, and what it had not consumed of is none.
LEMMA RestartStep ==
    ASSUME BrokerInv, NEW r \in Replica, RestartBroker(r)
    PROVE  BrokerInv'
<1> USE DEF BrokerInv
<1>1. UNCHANGED <<nonces, pins, now>> /\ lives' = lives + 1
  BY DEF RestartBroker
<1>2. PICK m \in Nat : place' = [place EXCEPT ![r] = m]
  <2>1. PICK p \in {0, lives + 1} : place' = [place EXCEPT ![r] = p]
    BY DEF RestartBroker
  <2>2. p \in Nat
    BY DEF BrokerTypeOK
  <2> QED BY <2>1, <2>2, Zenon
<1>3. \A q \in Slot :
         slot'[q] = IF slot[q].at = r /\ slot[q].step \in InBroker
                    THEN [slot[q] EXCEPT !.step = "made up"] ELSE slot[q]
  BY Zenon DEF RestartBroker
<1>4. \A q \in Slot : slot'[q] \in Post /\ slot'[q].intent = slot[q].intent
                      /\ slot'[q].at = slot[q].at /\ slot'[q].since = slot[q].since
  <2> SUFFICES ASSUME NEW q \in Slot
               PROVE  slot'[q] \in Post /\ slot'[q].intent = slot[q].intent
                      /\ slot'[q].at = slot[q].at /\ slot'[q].since = slot[q].since
    OBVIOUS
  <2>1. slot[q] \in Post /\ "made up" \in BrokerSteps
    BY DEF BrokerTypeOK, BrokerSteps
  <2> DEFINE new == [slot[q] EXCEPT !.step = "made up"]
  <2>2. new \in Post /\ new.intent = slot[q].intent /\ new.at = slot[q].at
        /\ new.since = slot[q].since
    BY <2>1, StepType
  <2>3. slot'[q] = new \/ slot'[q] = slot[q]
    BY <1>3
  <2> HIDE DEF new
  <2> QED BY <2>1, <2>2, <2>3
<1>5. \A q \in Slot : \/ slot'[q] = slot[q] /\ (slot[q].step \in InBroker => slot[q].at # r)
                      \/ slot'[q].step = "made up" /\ slot[q].step \in InBroker
  BY <1>3 DEF BrokerTypeOK, Post
<1>6. BrokerTypeOK'
  <2>1. slot' \in [Slot -> Post]
    BY <1>4 DEF RestartBroker
  <2> QED BY <1>1, <1>2, <2>1 DEF BrokerTypeOK
<1>7. "made up" \in Late /\ "made up" \notin InBroker /\ "made up" \notin Spending /\ Spending \subseteq InBroker
      /\ "empty" \notin InBroker /\ "409" \notin InBroker
  BY DEF Late, InBroker, Spending
<1>8. Timely'
  BY <1>1, <1>4, <1>5, <1>7 DEF Timely
<1>9. \A q \in Slot : slot[q].step \in Late => slot'[q].step \in Late
  BY <1>5, <1>7
<1>10. NoncesKept'
  BY <1>1, <1>4, <1>9 DEF NoncesKept
<1>11. \A q \in Slot : slot'[q].step \in Spending =>
          slot'[q] = slot[q] /\ slot[q].at \in Replica /\ slot[q].at # r
  BY <1>5, <1>7 DEF Timely
<1>12. \A q \in Slot : slot'[q].step \in Spending => place'[slot'[q].at] = place[slot[q].at]
  BY <1>2, <1>11 DEF BrokerTypeOK
<1>13. SpentAlone'
  <2> SUFFICES ASSUME NEW q \in Slot, slot'[q].step \in Spending
               PROVE  /\ Entered(slot[q].intent, place[slot[q].at])'
                      /\ \A p \in Slot :
                            /\ slot'[p].step \in Spending
                            /\ SameNonce(slot'[p].intent, slot'[q].intent)
                            /\ place'[slot'[p].at] = place'[slot'[q].at]
                            => p = q
                      /\ slot'[q].step = "pinning" => Balanced(slot'[q].intent)
    BY DEF SpentAlone
  <2>1. Entered(slot[q].intent, place[slot[q].at])'
    <3>1. Entered(slot[q].intent, place[slot[q].at])
      BY <1>11 DEF SpentAlone
    <3>2. \E n \in nonces' : SameNonce(n, slot'[q].intent) /\ n.place = place'[slot'[q].at]
      BY <1>1, <1>11, <1>12, <3>1 DEF Entered
    <3> QED BY <3>2 DEF Entered
  <2>2. ASSUME NEW p \in Slot, slot'[p].step \in Spending,
               SameNonce(slot'[p].intent, slot'[q].intent), place'[slot'[p].at] = place'[slot'[q].at]
        PROVE  p = q
    BY <1>11, <1>12, <2>2 DEF SpentAlone
  <2> QED BY <1>11, <2>1, <2>2 DEF SpentAlone
<1>14. PinsSpent'
  BY <1>1, <1>11, <1>12 DEF PinsSpent, Entered
<1>15. PinnedOnce'
  BY <1>1 DEF PinnedOnce
<1>16. Caused'
  BY <1>4, <1>5, <1>9 DEF Caused
<1> QED BY <1>6, <1>8, <1>10, <1>13, <1>14, <1>15, <1>16

\* The clock, or nothing at all.
LEMMA TickStep ==
    ASSUME BrokerInv, BrokerTick \/ UNCHANGED <<brokerVars, now>>
    PROVE  BrokerInv'
<1> USE DEF BrokerInv
<1>1. UNCHANGED <<place, nonces, slot, pins, lives>>
  BY DEF BrokerTick, brokerVars
<1>2. CASE BrokerTick
  <2>1. now' = now + 1 /\ now' \in Nat /\ now \in Nat
    BY <1>2 DEF BrokerTick, Tick, BrokerTypeOK
  <2>2. BrokerTypeOK'
    BY <1>1, <2>1 DEF BrokerTypeOK
  <2>3. \A q \in Slot : slot[q].intent \in Intent /\ slot[q].since \in Nat
    BY DEF BrokerTypeOK, Post
  <2>4. \A q \in Slot : slot[q].intent.nonce \in Nat
    BY <2>3 DEF Intent
  <2>5. Timely'
    <3>1. \A q \in Slot : slot[q].step \in InBroker => slot[q].since = now
      BY <1>2 DEF BrokerTick
    <3> QED BY <1>1, <2>1, <2>3, <2>4, <3>1 DEF Timely
  <2> QED BY <1>1, <2>2, <2>5 DEF NoncesKept, SpentAlone, PinsSpent, PinnedOnce, Caused, Entered
<1>3. CASE now' = now
  BY <1>1, <1>3 DEF BrokerTypeOK, Timely, NoncesKept, SpentAlone, PinsSpent, PinnedOnce, Caused,
                    Entered
<1> QED BY <1>2, <1>3

LEMMA InitBroker == now = 0 /\ BrokerInit => BrokerInv
<1> SUFFICES ASSUME now = 0, BrokerInit PROVE BrokerInv
  OBVIOUS
<1> USE DEF BrokerInit
<1>1. NoIntent \in Intent
  <2>1. <<>> \in Seq([index : Nat, size : Nat])
    OBVIOUS
  <2> QED BY <2>1 DEF NoIntent, Intent
<1>2. Empty \in Post /\ Empty.step = "empty"
  <2> HIDE DEF NoIntent
  <2> QED BY <1>1 DEF Empty, Post, BrokerSteps
<1>3. \A q \in Slot : slot[q].step = "empty"
  BY <1>2
<1>4. BrokerTypeOK
  BY <1>2 DEF BrokerTypeOK
<1>5. "empty" \notin InBroker /\ "empty" \notin Spending
  BY DEF InBroker, Spending
<1> QED BY <1>3, <1>4, <1>5 DEF BrokerInv, Timely, NoncesKept, SpentAlone, PinsSpent, PinnedOnce,
                                Caused

LEMMA NextBroker == BrokerInv /\ [BrokerNext]_<<brokerVars, now>> => BrokerInv'
<1> SUFFICES ASSUME BrokerInv, [BrokerNext]_<<brokerVars, now>> PROVE BrokerInv'
  OBVIOUS
<1> QED
  BY BuildStep, DuplicateStep, VerifyStep, ConsumeStep, ValidateStep, PinStep, RestartStep, TickStep
  DEF BrokerNext

-----------------------------------------------------------------------------
(* The size that ValidateManifest adds up, chunk by chunk.                 *)

AddedUp(g, chunks) ==
    g = [n \in 0..Len(chunks) |-> IF n = 0 THEN 0 ELSE g[n - 1] + chunks[n].size]

LEMMA AddedUpIsTotal ==
    ASSUME NEW chunks \in Seq([index : Nat, size : Nat])
    PROVE  /\ \E g : AddedUp(g, chunks)
           /\ \A g : AddedUp(g, chunks) => g[Len(chunks)] = Total(chunks)
<1> DEFINE size == [k \in DOMAIN chunks |-> chunks[k].size]
           S(n) == 1..n
           sum == [n \in 0..Len(chunks) |-> SumFunctionOnSet(size, S(n))]
<1>1. Len(chunks) \in Nat /\ DOMAIN chunks = 1..Len(chunks)
      /\ \A k \in 1..Len(chunks) : size[k] = chunks[k].size /\ size[k] \in Nat
  <2>1. Len(chunks) \in Nat /\ DOMAIN chunks = 1..Len(chunks)
        /\ \A k \in 1..Len(chunks) : chunks[k] \in [index : Nat, size : Nat]
    BY LenProperties, ElementOfSeq, Zenon
  <2> QED BY <2>1
<1>2. Total(chunks) = sum[Len(chunks)]
  <2>1. SumFunction(size) = SumFunctionOnSet(size, DOMAIN size)
    BY DEF SumFunction
  <2>2. DOMAIN size = S(Len(chunks))
    BY <1>1
  <2> HIDE DEF size, S
  <2>3. Total(chunks) = SumFunction(size)
    BY DEF Total, size
  <2> QED BY <1>1, <2>1, <2>2, <2>3
<1>3. sum[0] = 0
  <2>1. S(0) = {} /\ IsFiniteSet(S(0))
    BY FS_EmptySet
  <2>2. PICK i : SumsOver(i, size, SUBSET S(0)) /\ SumFunctionOnSet(size, S(0)) = i[S(0)]
    BY <2>1, SumIsSums
  <2>3. i[S(0)] = 0
    <3>1. S(0) \in SUBSET S(0) /\ S(0) = {}
      BY <2>1
    <3> HIDE DEF S, size
    <3> QED BY <2>2, <3>1 DEF SumsOver
  <2> HIDE DEF S, size
  <2> QED BY <1>1, <2>2, <2>3
<1>4. ASSUME NEW n \in 1..Len(chunks) PROVE sum[n] = sum[n - 1] + chunks[n].size
  <2>0. n \in Nat /\ n - 1 \in Nat
    BY <1>1
  <2>1. IsFiniteSet(S(n)) /\ n \in S(n) /\ S(n) \ {n} = S(n - 1) /\ S(n) \subseteq 1..Len(chunks)
        /\ n \in 0..Len(chunks) /\ n - 1 \in 0..Len(chunks)
    <3>1. IsFiniteSet(1..n)
      BY <2>0, FS_Interval
    <3>2. n \in 1..n /\ (1..n) \ {n} = 1..(n - 1)
      BY <2>0
    <3>3. 1..n \subseteq 1..Len(chunks) /\ n \in 0..Len(chunks) /\ n - 1 \in 0..Len(chunks)
      BY <1>1, <2>0
    <3> QED BY <3>1, <3>2, <3>3
  <2>2. \A k \in S(n) : size[k] \in Nat
    BY <1>1, <2>1
  <2> HIDE DEF S, size
  <2>3. SumFunctionOnSet(size, S(n)) = size[n] + SumFunctionOnSet(size, S(n - 1))
    <3>1. SumFunctionOnSet(size, S(n)) = size[n] + SumFunctionOnSet(size, S(n) \ {n})
      BY <2>1, <2>2, SumRemove
    <3> QED BY <2>1, <3>1
  <2>4. SumFunctionOnSet(size, S(n - 1)) \in Nat
    <3>1. IsFiniteSet(S(n - 1)) /\ \A k \in S(n - 1) : size[k] \in Nat
      BY <2>1, <2>2, FS_Subset
    <3> QED BY <3>1, SumType
  <2> QED BY <1>1, <2>1, <2>3, <2>4
<1>5. AddedUp(sum, chunks)
  <2> HIDE DEF S, size
  <2>1. \A n \in 0..Len(chunks) : sum[n] = IF n = 0 THEN 0 ELSE sum[n - 1] + chunks[n].size
    <3>1. \A n \in 0..Len(chunks) : n = 0 \/ n \in 1..Len(chunks)
      BY <1>1
    <3>2. \A n \in 1..Len(chunks) : n # 0
      BY <1>1
    <3> HIDE DEF sum
    <3> QED BY <1>3, <1>4, <3>1, <3>2
  <2>2. sum = [n \in 0..Len(chunks) |-> sum[n]]
    OBVIOUS
  <2> HIDE DEF sum
  <2> QED BY <2>1, <2>2 DEF AddedUp
\* Where another function differs first, it differs already before.
<1>6. ASSUME NEW g, AddedUp(g, chunks) PROVE g[Len(chunks)] = Total(chunks)
  <2> HIDE DEF sum, size
  <2> DEFINE Bad == {n \in 0..Len(chunks) : g[n] # sum[n]}
  <2>0. \A n \in 0..Len(chunks) : g[n] = IF n = 0 THEN 0 ELSE g[n - 1] + chunks[n].size
    BY <1>6, Zenon DEF AddedUp
  <2>1. ASSUME Bad # {} PROVE FALSE
    <3>1. PICK n \in Bad : \A m \in Bad : n <= m
      <4>1. Bad \in SUBSET Nat
        BY <1>1
      <4> QED BY <2>1, <4>1, LeastNumber
    <3>2. n \in 0..Len(chunks) /\ g[n] # sum[n]
      BY <3>1
    <3>3. n # 0
      BY <1>1, <1>3, <2>0, <3>2
    <3>4. n \in 1..Len(chunks) /\ n - 1 \in 0..Len(chunks) /\ ~(n <= n - 1)
      BY <1>1, <3>2, <3>3
    <3>5. g[n - 1] = sum[n - 1]
      BY <3>1, <3>4
    <3> QED BY <1>4, <2>0, <3>2, <3>3, <3>4, <3>5
  <2> QED BY <1>1, <1>2, <2>1
<1> QED BY <1>5, <1>6

\* A balanced list of chunks has the indices from 0 on, and its sizes add up.
LEMMA BalancedAddsUp ==
    ASSUME NEW i \in Intent, Balanced(i)
    PROVE  LET upTo[n \in 0..Len(i.chunks)] ==
                   IF n = 0 THEN 0 ELSE upTo[n - 1] + i.chunks[n].size IN
           /\ {i.chunks[k].index : k \in DOMAIN i.chunks} = 0..(Len(i.chunks) - 1)
           /\ upTo[Len(i.chunks)] = i.total
<1> DEFINE g == CHOOSE f : AddedUp(f, i.chunks)
<1>1. i.chunks \in Seq([index : Nat, size : Nat])
  BY DEF Intent
<1>2. AddedUp(g, i.chunks)
  BY <1>1, AddedUpIsTotal
<1>3. g[Len(i.chunks)] = i.total
  <2> HIDE DEF g
  <2> QED BY <1>1, <1>2, AddedUpIsTotal DEF Balanced
<1>4. {i.chunks[k].index : k \in DOMAIN i.chunks} = 0..(Len(i.chunks) - 1)
  <2>1. Len(i.chunks) \in Nat /\ DOMAIN i.chunks = 1..Len(i.chunks)
    BY <1>1
  <2>2. \A k \in DOMAIN i.chunks : i.chunks[k].index = k - 1
    BY DEF Balanced
  <2>3. ASSUME NEW m \in 0..(Len(i.chunks) - 1)
        PROVE  m + 1 \in DOMAIN i.chunks /\ i.chunks[m + 1].index = m
    BY <2>1, <2>2
  <2>4. \A k \in DOMAIN i.chunks : i.chunks[k].index \in 0..(Len(i.chunks) - 1)
    BY <2>1, <2>2
  <2> QED BY <2>3, <2>4
<1> QED BY <1>3, <1>4, Zenon DEF AddedUp

\* The upload broker pins a signed manifest once per place of nonces, pins only
\* what its creator signed in time and what adds up, and refuses only a nonce
\* that another request has spent (handleUploadManifest).
THEOREM PinningCorrect == BrokerSpec => []BrokerCorrect
<1>1. ASSUME BrokerInv PROVE BrokerCorrect
  <2>1. PinnedAsSigned
    <3> SUFFICES ASSUME NEW p \in pins
                 PROVE  LET i == p.intent
                            upTo[n \in 0..Len(i.chunks)] ==
                                IF n = 0 THEN 0 ELSE upTo[n - 1] + i.chunks[n].size IN
                        /\ i.signer = i.creator /\ p.at <= i.deadline + 1
                        /\ {i.chunks[k].index : k \in DOMAIN i.chunks} = 0..(Len(i.chunks) - 1)
                        /\ upTo[Len(i.chunks)] = i.total
      BY DEF PinnedAsSigned
    <3>1. p.intent \in Intent /\ Balanced(p.intent)
          /\ p.intent.signer = p.intent.creator /\ p.at <= p.intent.deadline + 1
      BY <1>1 DEF BrokerInv, BrokerTypeOK, PinsSpent
    <3> QED BY <3>1, BalancedAddsUp, Zenon
  <2>2. ConflictHasCause
    <3>1. \A q \in Slot : slot[q].step \in Late
                            => slot[q].step \notin {"empty", "signed", "verified", "expired", "401"}
      BY DEF Late
    <3> QED BY <1>1, <3>1 DEF BrokerInv, Caused, SameNonce, ConflictHasCause
  <2> QED BY <1>1, <2>1, <2>2 DEF BrokerInv, BrokerCorrect
<1> QED BY InitBroker, NextBroker, <1>1, PTL DEF BrokerSpec

-----------------------------------------------------------------------------
(* The command-line seeder.                                                *)

Command == [step : {"off", "loaded", "purging"}, cmd : {"none", "add", "remove"},
            models : SUBSET ModelID, arg : ModelID \cup {NotListed}]
DaemonState == [step : {"off", "announcing", "running"}, models : SUBSET ModelID,
                conn : {"none", "open", "failed", "dropped"}, todo : SUBSET ModelID]

\* The types.
DaemonTypeOK ==
    /\ catalog \subseteq ModelID
    /\ cli \in [Process -> Command]
    /\ \A p \in Process : cli[p].step # "off" => cli[p].arg \in ModelID
    /\ daemon \in DaemonState /\ daemon.todo \subseteq daemon.models
    /\ DOMAIN listing = ModelID
    /\ writer \in [Writer -> Chunk \cup {NotListed}]
    /\ touched \subseteq ModelID
    /\ started \in Nat

\* Of commands that do not overlap one is there at a time, with the catalog it will save.
OneAtATime ==
    ~overlapped =>
        /\ catalog = expected
        /\ \A p, q \in Process : cli[p] # Off /\ cli[q] # Off => p = q
        /\ \A p \in Process : cli[p].step = "loaded" => cli[p].models = catalog

\* The daemon's catalog is the file's, and what it has announced of it is what is on the
\* disk, but for what was touched.
Announced ==
    /\ daemon.step = "off" => daemon.conn = "none"
    /\ daemon.step = "running" => daemon.todo = {}
    /\ daemon.step # "off" => \A m \in ModelID \ touched : m \in catalog <=> m \in daemon.models
    /\ daemon.conn # "open" => listing = Unlisted
    /\ daemon.conn = "open" =>
          \A m \in ModelID \ touched :
              listing[m] = IF m \in daemon.models \ daemon.todo THEN HeldChunks(m) ELSE NotListed

\* Every chunk beyond the quota is one that a writer had checked and another wrote first.
Writing == {w \in Writer : writer[w] # NotListed}

QuotaKept ==
    /\ IsFiniteSet(disk)
    /\ Cardinality(disk) + Cardinality(Writing) <= MaxStorage + Cardinality(Writer) - 1

\* A report is of the file as it is.
Reported == doctor # NoReport => doctor = config /\ config.address = "ok"

DaemonInv == DaemonTypeOK /\ OneAtATime /\ Announced /\ QuotaKept /\ Reported

LEMMA WritingIsFinite ==
    /\ IsFiniteSet(Writing) /\ Cardinality(Writing) \in Nat
    /\ Cardinality(Writer) \in Nat /\ Cardinality(Writing) <= Cardinality(Writer)
<1>1. IsFiniteSet(Writer) /\ Writing \subseteq Writer
  BY DaemonAssumption DEF Writing
<1> QED BY <1>1, FS_Subset, FS_CardinalityType

LEMMA DaemonStarts == DaemonInit => DaemonInv
<1> SUFFICES ASSUME DaemonInit PROVE DaemonInv
  OBVIOUS
<1>1. cli = [p \in Process |-> Off] /\ Off \in Command /\ Off.step = "off"
  BY DEF DaemonInit, Off, Command
<1>2. daemon = NoDaemon /\ NoDaemon \in DaemonState /\ NoDaemon.step = "off"
      /\ NoDaemon.conn = "none"
  BY DEF DaemonInit, NoDaemon, DaemonState
<1>3. DaemonTypeOK
  <2>1. NoDaemon.todo = {}
    BY DEF NoDaemon
  <2>2. cli \in [Process -> Command] /\ \A p \in Process : cli[p].step # "off" => cli[p].arg \in ModelID
    BY <1>1
  <2>3. writer \in [Writer -> Chunk \cup {NotListed}]
    BY DEF DaemonInit
  <2> QED BY <1>2, <2>1, <2>2, <2>3 DEF DaemonInit, DaemonTypeOK, Unlisted
<1>4. OneAtATime
  BY <1>1 DEF DaemonInit, OneAtATime
<1>5. Announced
  BY <1>2 DEF DaemonInit, Announced
<1>6. QuotaKept
  <2>1. Writing = {} /\ disk = {}
    BY DEF DaemonInit, Writing
  <2>2. IsFiniteSet({}) /\ Cardinality({}) = 0
    BY FS_EmptySet
  <2>3. MaxStorage \in Nat \ {0} /\ Cardinality(Writer) \in Nat
    BY DaemonAssumption, WritingIsFinite
  <2> QED BY <2>1, <2>2, <2>3 DEF QuotaKept
<1>7. Reported
  BY DEF DaemonInit, Reported
<1> QED BY <1>3, <1>4, <1>5, <1>6, <1>7 DEF DaemonInv

\* A step of another part of it.
LEMMA SameCommands ==
    ASSUME OneAtATime, UNCHANGED <<cli, catalog, expected, overlapped>>
    PROVE  OneAtATime'
BY DEF OneAtATime

LEMMA SameDaemon ==
    ASSUME Announced, UNCHANGED <<daemon, listing>>, touched \subseteq touched',
           \A m \in ModelID \ touched' : /\ m \in catalog' <=> m \in catalog
                                         /\ HeldChunks(m)' = HeldChunks(m)
    PROVE  Announced'
BY DEF Announced

LEMMA SameQuota ==
    ASSUME QuotaKept, UNCHANGED <<disk, writer>>
    PROVE  QuotaKept'
<1>1. Writing' = Writing
  BY DEF Writing
<1> QED BY <1>1 DEF QuotaKept

LEMMA SameReport ==
    ASSUME Reported, UNCHANGED <<doctor, config>>
    PROVE  Reported'
BY DEF Reported

LEMMA SameChunks ==
    ASSUME UNCHANGED disk, NEW m
    PROVE  HeldChunks(m)' = HeldChunks(m)
BY DEF HeldChunks

\* The configuration and its report.
LEMMA ConfigKeepsInv == DaemonInv /\ (WriteConfig \/ RunDoctor) => DaemonInv'
<1> SUFFICES ASSUME DaemonInv, WriteConfig \/ RunDoctor PROVE DaemonInv'
  OBVIOUS
<1>1. UNCHANGED <<catalog, disk, cli, writer, daemon, listing, started, expected,
                  overlapped, touched>>
  BY DEF WriteConfig, RunDoctor
<1>2. DaemonTypeOK'
  <2>1. \A q \in Process : cli'[q].step # "off" => cli'[q].arg \in ModelID
    BY <1>1 DEF DaemonInv, DaemonTypeOK
  <2> QED BY <1>1, <2>1 DEF DaemonInv, DaemonTypeOK
<1>3. OneAtATime' /\ QuotaKept'
  BY <1>1, SameCommands, SameQuota DEF DaemonInv
<1>4. Announced'
  BY <1>1, SameChunks, SameDaemon DEF DaemonInv
<1>5. Reported'
  <2>1. CASE WriteConfig
    BY <2>1 DEF WriteConfig, SaveConfig, Reported
  <2>2. CASE RunDoctor
    BY <2>2 DEF RunDoctor, Reported
  <2> QED BY <2>1, <2>2
<1> QED BY <1>2, <1>3, <1>4, <1>5 DEF DaemonInv

\* A command's process starts with the catalog, or with nothing; one that could not read
\* it, or is not alone, counts as overlapped.
LEMMA NewEngineKeepsInv ==
    ASSUME DaemonInv, NEW p \in Process, NEW cmd \in {"add", "remove"}, NEW m \in ModelID,
           NewEngine(p, cmd, m)
    PROVE  DaemonInv'
<1>1. PICK read \in BOOLEAN :
         /\ cli' = [cli EXCEPT ![p] = [step |-> "loaded", cmd |-> cmd, arg |-> m,
                                       models |-> IF read THEN catalog ELSE {}]]
         /\ overlapped' = (overlapped \/ ~read \/ \E q \in Process : cli[q] # Off)
  BY DEF NewEngine
<1>2. PICK e : e = [step |-> "loaded", cmd |-> cmd, arg |-> m,
                    models |-> IF read THEN catalog ELSE {}]
  OBVIOUS
<1>3. e \in Command /\ e.step = "loaded" /\ e.arg = m /\ (read => e.models = catalog)
  BY <1>2 DEF Command, DaemonInv, DaemonTypeOK
<1>4. cli' \in [Process -> Command] /\ cli'[p] = e
      /\ \A q \in Process \ {p} : cli'[q] = cli[q]
  BY <1>1, <1>2, <1>3 DEF DaemonInv, DaemonTypeOK
<1>5. UNCHANGED <<config, catalog, disk, writer, daemon, listing, expected, touched, doctor>>
      /\ started' \in Nat
  BY DEF NewEngine, DaemonInv, DaemonTypeOK
<1>6. DaemonTypeOK'
  <2>1. \A q \in Process : cli'[q].step # "off" => cli'[q].arg \in ModelID
    BY <1>3, <1>4 DEF DaemonInv, DaemonTypeOK
  <2> QED BY <1>4, <1>5, <2>1 DEF DaemonInv, DaemonTypeOK
<1>7. OneAtATime'
  <2> SUFFICES ASSUME ~overlapped'
               PROVE  /\ catalog' = expected'
                      /\ \A q, s \in Process : cli'[q] # Off /\ cli'[s] # Off => q = s
                      /\ \A q \in Process : cli'[q].step = "loaded" => cli'[q].models = catalog'
    BY DEF OneAtATime
  <2>1. ~overlapped /\ read /\ \A q \in Process : cli[q] = Off
    BY <1>1
  <2>2. Off.step # "loaded"
    BY DEF Off
  <2>3. \A q \in Process : cli'[q] # Off => q = p
    BY <1>4, <2>1
  <2>4. \A q \in Process : cli'[q].step = "loaded" => cli'[q].models = catalog'
    BY <1>3, <1>4, <1>5, <2>1, <2>2
  <2> QED BY <1>5, <2>1, <2>3, <2>4 DEF DaemonInv, OneAtATime
<1>8. Announced' /\ QuotaKept' /\ Reported'
  BY <1>5, SameChunks, SameDaemon, SameQuota, SameReport DEF DaemonInv
<1> QED BY <1>6, <1>7, <1>8 DEF DaemonInv

\* The process p ends, or goes on to purge, and what it saved is as if it were alone.
LEMMA CommandKeepsInv ==
    ASSUME DaemonInv, NEW p \in Process, cli[p] # Off,
           NEW e \in Command, e.step # "loaded", e.step # "off" => e.arg \in ModelID,
           cli' = [cli EXCEPT ![p] = e],
           UNCHANGED <<overlapped, started, listing, writer, config, doctor, daemon>>,
           catalog' \subseteq ModelID, touched' \subseteq ModelID, touched \subseteq touched',
           catalog = expected /\ (cli[p].step = "loaded" => cli[p].models = catalog) =>
              catalog' = expected',
           \A m \in ModelID \ touched' : /\ m \in catalog' <=> m \in catalog
                                         /\ HeldChunks(m)' = HeldChunks(m),
           QuotaKept'
    PROVE  DaemonInv'
<1>1. cli' \in [Process -> Command] /\ cli'[p] = e
      /\ \A q \in Process \ {p} : cli'[q] = cli[q]
  BY DEF DaemonInv, DaemonTypeOK
<1>2. DaemonTypeOK'
  <2>1. \A q \in Process : cli'[q].step # "off" => cli'[q].arg \in ModelID
    BY <1>1 DEF DaemonInv, DaemonTypeOK
  <2> QED BY <1>1, <2>1 DEF DaemonInv, DaemonTypeOK
<1>3. OneAtATime'
  <2> SUFFICES ASSUME ~overlapped
               PROVE  /\ catalog' = expected'
                      /\ \A q, s \in Process : cli'[q] # Off /\ cli'[s] # Off => q = s
                      /\ \A q \in Process : cli'[q].step = "loaded" => cli'[q].models = catalog'
    BY DEF OneAtATime
  <2>1. /\ catalog = expected
        /\ \A q, s \in Process : cli[q] # Off /\ cli[s] # Off => q = s
        /\ \A q \in Process : cli[q].step = "loaded" => cli[q].models = catalog
    BY DEF DaemonInv, OneAtATime
  <2>2. \A q \in Process \ {p} : cli[q] = Off
    BY <2>1
  <2>3. Off.step # "loaded"
    BY DEF Off
  <2>4. \A q \in Process : cli'[q].step # "loaded"
    BY <1>1, <2>2, <2>3
  <2>5. \A q \in Process : cli'[q] # Off => q = p
    BY <1>1, <2>2
  <2> QED BY <2>1, <2>4, <2>5
<1>4. Announced' /\ Reported'
  BY SameDaemon, SameReport DEF DaemonInv
<1> QED BY <1>2, <1>3, <1>4 DEF DaemonInv

LEMMA CommandsKeepInv ==
    ASSUME DaemonInv, NEW p \in Process,
           AddModel(p) \/ (\E purge \in BOOLEAN : RemoveModel(p, purge)) \/ Kill(p)
    PROVE  DaemonInv'
<1>1. /\ Off \in Command /\ Off.step # "loaded" /\ cli[p] \in Command
      /\ cli[p].models \subseteq ModelID /\ catalog \subseteq ModelID /\ touched \subseteq ModelID
  BY DEF Off, Command, DaemonInv, DaemonTypeOK
<1>2. Off.step = "off"
  BY DEF Off
<1>3. /\ UNCHANGED <<overlapped, started, listing, writer, config, doctor, daemon, disk>>
      /\ cli[p] # Off
  BY <1>2 DEF AddModel, RemoveModel, Kill
<1>4. QuotaKept' /\ \A m \in ModelID : HeldChunks(m)' = HeldChunks(m)
  BY <1>3, SameQuota, SameChunks DEF DaemonInv
<1>5. CASE AddModel(p)
  <2>1. cli' = [cli EXCEPT ![p] = Off] /\ cli[p].arg \in ModelID
    BY <1>5 DEF AddModel, DaemonInv, DaemonTypeOK
  <2>2. CASE UNCHANGED <<catalog, touched, expected>>
    BY <1>1, <1>2, <1>3, <1>4, <2>1, <2>2, CommandKeepsInv
  <2>3. CASE Save(cli[p].models \cup {cli[p].arg}) /\ expected' = expected \cup {cli[p].arg}
    <3>1. /\ catalog' = cli[p].models \cup {cli[p].arg}
          /\ touched' = touched \cup (catalog' \ catalog) \cup (catalog \ catalog')
      BY <2>3 DEF Save
    <3>2. catalog' \subseteq ModelID
      BY <1>1, <2>1, <3>1
    <3>3. touched' \subseteq ModelID /\ touched \subseteq touched'
      BY <1>1, <3>1, <3>2
    <3>4. cli[p].step = "loaded"
      BY <1>5 DEF AddModel
    <3>5. \A m \in ModelID \ touched' : m \in catalog' <=> m \in catalog
      BY <3>1
    <3>6. catalog = expected /\ (cli[p].step = "loaded" => cli[p].models = catalog) =>
             catalog' = expected'
      BY <2>3, <3>1, <3>4
    <3> QED BY <1>1, <1>2, <1>3, <1>4, <2>1, <3>2, <3>3, <3>5, <3>6, CommandKeepsInv
  <2> QED BY <1>5, <2>2, <2>3 DEF AddModel
<1>6. CASE \E purge \in BOOLEAN : RemoveModel(p, purge)
  <2>1. PICK purge \in BOOLEAN : RemoveModel(p, purge)
    BY <1>6
  <2>2. PICK e : e = IF purge THEN [cli[p] EXCEPT !.step = "purging"] ELSE Off
    OBVIOUS
  <2>3. e \in Command /\ e.step # "loaded" /\ (e.step # "off" => e.arg \in ModelID)
    <3>1. cli[p].step # "off" => cli[p].arg \in ModelID
      BY DEF DaemonInv, DaemonTypeOK
    <3>2. cli[p].step = "loaded"
      BY <2>1 DEF RemoveModel
    <3>3. CASE purge
      BY <1>1, <2>2, <3>1, <3>2, <3>3 DEF Command
    <3> QED BY <1>1, <1>2, <2>2, <3>3
  <2>4. cli' = [cli EXCEPT ![p] = e]
    BY <2>1, <2>2 DEF RemoveModel, DaemonInv, DaemonTypeOK
  <2>5. CASE UNCHANGED <<catalog, touched, expected>>
    BY <1>1, <1>3, <1>4, <2>3, <2>4, <2>5, CommandKeepsInv
  <2>6. CASE Save(Remaining(p)) /\ expected' = expected \ {cli[p].arg}
    <3>1. /\ catalog' = cli[p].models \ {cli[p].arg}
          /\ touched' = touched \cup (catalog' \ catalog) \cup (catalog \ catalog')
      BY <2>6 DEF Save, Remaining
    <3>2. catalog' \subseteq ModelID /\ touched' \subseteq ModelID /\ touched \subseteq touched'
      BY <1>1, <3>1
    <3>4. cli[p].step = "loaded"
      BY <2>1 DEF RemoveModel
    <3>5. \A m \in ModelID \ touched' : m \in catalog' <=> m \in catalog
      BY <3>1
    <3>6. catalog = expected /\ (cli[p].step = "loaded" => cli[p].models = catalog) =>
             catalog' = expected'
      BY <2>6, <3>1, <3>4
    <3> QED BY <1>3, <1>4, <2>3, <2>4, <3>2, <3>5, <3>6, CommandKeepsInv
  <2> QED BY <2>1, <2>5, <2>6 DEF RemoveModel
<1>7. CASE Kill(p)
  <2>1. UNCHANGED <<catalog, touched, expected>> /\ cli' = [cli EXCEPT ![p] = Off]
    BY <1>7 DEF Kill
  <2> QED BY <1>1, <1>2, <1>3, <1>4, <2>1, CommandKeepsInv
<1> QED BY <1>5, <1>6, <1>7

\* The chunks of a model are purged.
LEMMA DeleteModelKeepsInv ==
    ASSUME DaemonInv, NEW p \in Process, DeleteModel(p)
    PROVE  DaemonInv'
<1>1. /\ cli[p].step = "purging" /\ cli' = [cli EXCEPT ![p] = Off]
      /\ touched' = touched \cup {cli[p].arg}
      /\ disk' = {c \in disk : c[1] # cli[p].arg}
      /\ UNCHANGED <<config, catalog, writer, daemon, listing, started, expected, overlapped, doctor>>
  BY DEF DeleteModel
<1>2. Off \in Command /\ Off.step = "off"
  BY DEF Off, Command
<1>3. touched \subseteq ModelID /\ cli[p].arg \in ModelID /\ catalog \subseteq ModelID
  BY <1>1 DEF DaemonInv, DaemonTypeOK
<1>4. \A m \in ModelID \ touched' : HeldChunks(m)' = HeldChunks(m)
  <2> SUFFICES ASSUME NEW m \in ModelID, m # cli[p].arg PROVE HeldChunks(m)' = HeldChunks(m)
    BY <1>1
  <2>1. \A i \in Index : <<m, i>> \in disk' <=> <<m, i>> \in disk
    BY <1>1
  <2> QED BY <2>1 DEF HeldChunks
<1>5. QuotaKept'
  <2>1. IsFiniteSet(disk) /\ disk' \subseteq disk
    BY <1>1 DEF DaemonInv, QuotaKept
  <2>2. /\ IsFiniteSet(disk') /\ Cardinality(disk') <= Cardinality(disk)
        /\ Cardinality(disk) \in Nat /\ Cardinality(disk') \in Nat
    BY <2>1, FS_Subset, FS_CardinalityType
  <2>3. Writing' = Writing
    BY <1>1 DEF Writing
  <2>4. /\ Cardinality(disk) + Cardinality(Writing) <= MaxStorage + Cardinality(Writer) - 1
        /\ Cardinality(Writing) \in Nat /\ Cardinality(Writer) \in Nat /\ MaxStorage \in Nat
    BY WritingIsFinite, DaemonAssumption DEF DaemonInv, QuotaKept
  <2> QED BY <2>2, <2>3, <2>4 DEF QuotaKept
<1> QED BY <1>1, <1>2, <1>3, <1>4, <1>5, CommandKeepsInv

\* A step of a writer.
LEMMA WriterKeepsInv ==
    ASSUME DaemonInv,
           UNCHANGED <<config, catalog, cli, daemon, listing, started, expected, overlapped, doctor>>,
           writer' \in [Writer -> Chunk \cup {NotListed}], touched' \subseteq ModelID, touched \subseteq touched',
           \A m \in ModelID \ touched' : HeldChunks(m)' = HeldChunks(m),
           QuotaKept'
    PROVE  DaemonInv'
<1>1. DaemonTypeOK'
  BY DEF DaemonInv, DaemonTypeOK
<1>2. OneAtATime' /\ Announced' /\ Reported'
  BY SameCommands, SameDaemon, SameReport DEF DaemonInv
<1> QED BY <1>1, <1>2 DEF DaemonInv

LEMMA CheckQuotaKeepsInv ==
    ASSUME DaemonInv, NEW w \in Writer, NEW c \in Chunk, CheckQuota(w, c)
    PROVE  DaemonInv'
<1>1. /\ Cardinality(disk) + 1 <= MaxStorage
      /\ writer' = [writer EXCEPT ![w] = c]
      /\ UNCHANGED <<config, catalog, disk, cli, daemon, listing, started, expected,
                     overlapped, touched, doctor>>
  BY DEF CheckQuota
<1>2. writer' \in [Writer -> Chunk \cup {NotListed}] /\ touched' = touched /\ touched \subseteq ModelID
  BY <1>1 DEF DaemonInv, DaemonTypeOK
<1>3. \A m \in ModelID : HeldChunks(m)' = HeldChunks(m)
  BY <1>1, SameChunks
<1>4. QuotaKept'
  <2>1. IsFiniteSet(Writer) /\ Writing' \subseteq Writer
    BY <1>1, DaemonAssumption DEF Writing
  <2>2. Cardinality(Writing') <= Cardinality(Writer) /\ Cardinality(Writing') \in Nat
        /\ Cardinality(Writer) \in Nat
    BY <2>1, FS_Subset, FS_CardinalityType
  <2>3. IsFiniteSet(disk) /\ Cardinality(disk) \in Nat /\ MaxStorage \in Nat
    BY DaemonAssumption, FS_CardinalityType DEF DaemonInv, QuotaKept
  <2>4. Cardinality(disk) + Cardinality(Writing') <= MaxStorage + Cardinality(Writer) - 1
    BY <1>1, <2>2, <2>3
  <2> QED BY <1>1, <2>3, <2>4 DEF QuotaKept
<1> QED BY <1>1, <1>2, <1>3, <1>4, WriterKeepsInv

\* What is written was checked: it moves from the writers to the disk.
LEMMA WriteChunkKeepsInv ==
    ASSUME DaemonInv, NEW w \in Writer, WriteChunk(w)
    PROVE  DaemonInv'
<1>1. PICK written \in SUBSET {writer[w]} :
         disk' = disk \cup written /\ touched' = touched \cup {c[1] : c \in written}
  BY DEF WriteChunk
<1>2. /\ writer[w] # NotListed /\ writer' = [writer EXCEPT ![w] = NotListed]
      /\ UNCHANGED <<config, catalog, cli, daemon, listing, started, expected, overlapped, doctor>>
  BY DEF WriteChunk
<1>3. /\ writer' \in [Writer -> Chunk \cup {NotListed}] /\ writer'[w] = NotListed
      /\ \A v \in Writer \ {w} : writer'[v] = writer[v]
      /\ writer[w] \in Chunk
  BY <1>2 DEF DaemonInv, DaemonTypeOK
<1>4. touched' \subseteq ModelID /\ touched \subseteq touched'
  BY <1>1, <1>3 DEF DaemonInv, DaemonTypeOK, Chunk
<1>5. \A m \in ModelID \ touched' : HeldChunks(m)' = HeldChunks(m)
  <2> SUFFICES ASSUME NEW m \in ModelID, m \notin touched' PROVE HeldChunks(m)' = HeldChunks(m)
    OBVIOUS
  <2>1. ASSUME NEW i \in Index PROVE <<m, i>> \in disk' <=> <<m, i>> \in disk
    <3>1. PICK t : t = <<m, i>>
      OBVIOUS
    <3>2. t[1] = m
      BY <3>1
    <3>3. t \notin written
      BY <1>1, <3>2
    <3> QED BY <1>1, <3>1, <3>3
  <2> QED BY <2>1 DEF HeldChunks
<1>6. QuotaKept'
  <2>1. Writing' = Writing \ {w} /\ w \in Writing /\ IsFiniteSet(Writing)
    BY <1>2, <1>3, WritingIsFinite DEF Writing
  <2>2. Cardinality(Writing') = Cardinality(Writing) - 1
    BY <2>1, FS_RemoveElement
  <2>3. IsFiniteSet(disk) /\ Cardinality(disk) \in Nat
    BY FS_CardinalityType DEF DaemonInv, QuotaKept
  <2>4. IsFiniteSet(disk') /\ Cardinality(disk') \in Nat
        /\ Cardinality(disk') <= Cardinality(disk) + 1
    <3>1. disk' = disk \/ disk' = disk \cup {writer[w]}
      BY <1>1
    <3>2. CASE disk' = disk
      BY <2>3, <3>2
    <3>3. CASE disk' = disk \cup {writer[w]}
      <4>1. PICK c : c = writer[w]
        OBVIOUS
      <4>2. IsFiniteSet(disk \cup {c})
            /\ Cardinality(disk \cup {c}) = IF c \in disk THEN Cardinality(disk)
                                            ELSE Cardinality(disk) + 1
        BY <2>3, FS_AddElement
      <4> QED BY <2>3, <3>3, <4>1, <4>2
    <3> QED BY <3>1, <3>2, <3>3
  <2>5. /\ Cardinality(disk) + Cardinality(Writing) <= MaxStorage + Cardinality(Writer) - 1
        /\ Cardinality(Writing) \in Nat /\ Cardinality(Writer) \in Nat /\ MaxStorage \in Nat
    BY WritingIsFinite, DaemonAssumption DEF DaemonInv, QuotaKept
  <2>6. Cardinality(disk') + Cardinality(Writing') <= MaxStorage + Cardinality(Writer) - 1
    BY <2>2, <2>3, <2>4, <2>5
  <2> QED BY <2>4, <2>6 DEF QuotaKept
<1> QED BY <1>2, <1>3, <1>4, <1>5, <1>6, WriterKeepsInv

\* A step of the daemon.
LEMMA DaemonStepKeepsInv ==
    ASSUME DaemonInv, Daemon(TRUE), daemon' \in DaemonState, daemon'.todo \subseteq daemon'.models,
           DOMAIN listing' = ModelID,
           started' \in Nat, touched' \subseteq ModelID, Announced'
    PROVE  DaemonInv'
<1>1. UNCHANGED <<config, catalog, disk, cli, writer, expected, overlapped, doctor>>
  BY DEF Daemon
<1>2. DaemonTypeOK'
  BY <1>1 DEF DaemonInv, DaemonTypeOK
<1>3. OneAtATime' /\ QuotaKept' /\ Reported'
  BY <1>1, SameCommands, SameQuota, SameReport DEF DaemonInv
<1> QED BY <1>2, <1>3 DEF DaemonInv

LEMMA StartDaemonKeepsInv == DaemonInv /\ StartDaemon => DaemonInv'
<1> SUFFICES ASSUME DaemonInv, StartDaemon PROVE DaemonInv'
  OBVIOUS
<1>1. Daemon(TRUE) /\ started' \in Nat /\ listing' = listing /\ catalog' = catalog
      /\ daemon.step = "off"
  BY DEF StartDaemon, Daemon, DaemonInv, DaemonTypeOK
<1>2. PICK read \in BOOLEAN, conn \in Dialled :
         LET models == IF read THEN catalog ELSE {} IN
         /\ daemon' = [step |-> "announcing", models |-> models, todo |-> models,
                       conn |-> conn]
         /\ touched' = IF read THEN {} ELSE ModelID
  BY DEF StartDaemon, Daemon
<1>3. PICK c \in SUBSET ModelID : c = IF read THEN catalog ELSE {}
  BY DEF DaemonInv, DaemonTypeOK
<1>4. /\ daemon' = [step |-> "announcing", models |-> c, todo |-> c, conn |-> conn]
      /\ conn \in {"open", "failed"}
      /\ touched' = IF read THEN {} ELSE ModelID
  BY <1>2, <1>3 DEF Dialled
<1>5. daemon' \in DaemonState /\ daemon'.step = "announcing" /\ daemon'.models = c
      /\ daemon'.todo = c
  BY <1>4 DEF DaemonState
<1>6. listing' = Unlisted /\ DOMAIN listing' = ModelID
  BY <1>1 DEF DaemonInv, Announced, Unlisted
<1>7. Announced'
  <2>1. \A m \in ModelID \ touched' : m \in catalog' <=> m \in daemon'.models
    BY <1>1, <1>3, <1>4, <1>5
  <2>2. \A m \in ModelID : listing'[m] = NotListed
    BY <1>6 DEF Unlisted
  <2>3. daemon'.models \ daemon'.todo = {}
    BY <1>5
  <2> QED BY <1>5, <1>6, <2>1, <2>2, <2>3 DEF Announced, Unlisted
<1> QED BY <1>1, <1>4, <1>5, <1>6, <1>7, DaemonStepKeepsInv

LEMMA DaemonKeepsInv ==
    ASSUME DaemonInv, (\E m \in ModelID : AnnounceAll(m)) \/ Serve \/ Drop \/ Stop
    PROVE  DaemonInv'
<1>1. /\ Daemon(TRUE) /\ started' \in Nat /\ touched' = touched /\ touched \subseteq ModelID
      /\ catalog' = catalog /\ disk' = disk
      /\ daemon \in DaemonState /\ daemon.todo \subseteq daemon.models
      /\ DOMAIN listing = ModelID
  BY DEF AnnounceAll, Serve, Drop, Stop, Daemon, DaemonInv, DaemonTypeOK
<1>2. Announced /\ \A m \in ModelID : HeldChunks(m)' = HeldChunks(m)
  BY <1>1, SameChunks DEF DaemonInv
<1>3. CASE \E m \in ModelID : AnnounceAll(m)
  <2>1. PICK m \in ModelID : AnnounceAll(m)
    BY <1>3
  <2>2. /\ daemon.step = "announcing" /\ m \in daemon.todo
        /\ daemon' = [daemon EXCEPT !.todo = @ \ {m}]
        /\ listing' = IF daemon.conn = "open" THEN [listing EXCEPT ![m] = HeldChunks(m)]
                      ELSE listing
    BY <2>1 DEF AnnounceAll, Daemon, Listing
  <2>3. /\ daemon' \in DaemonState /\ daemon'.step = "announcing"
        /\ daemon'.models = daemon.models /\ daemon'.conn = daemon.conn
        /\ daemon'.todo = daemon.todo \ {m}
    BY <1>1, <2>2 DEF DaemonState
  <2>4. DOMAIN listing' = ModelID
    BY <1>1, <2>2
  <2>5. Announced'
    <3>1. CASE daemon.conn = "open"
      <4>1. \A n \in ModelID : listing'[n] = IF n = m THEN HeldChunks(m) ELSE listing[n]
        BY <1>1, <2>2, <3>1
      <4>2. \A n \in ModelID \ touched' :
               listing'[n] = IF n \in daemon'.models \ daemon'.todo THEN HeldChunks(n)'
                             ELSE NotListed
        <5> SUFFICES ASSUME NEW n \in ModelID \ touched'
                     PROVE  listing'[n] = IF n \in daemon'.models \ daemon'.todo
                                          THEN HeldChunks(n)' ELSE NotListed
          OBVIOUS
        <5>1. CASE n = m
          <6>1. m \in daemon.models
            BY <2>2 DEF DaemonInv, DaemonTypeOK
          <6> QED BY <1>2, <2>3, <4>1, <5>1, <6>1
        <5>2. CASE n # m
          BY <1>1, <1>2, <2>3, <3>1, <4>1, <5>2 DEF Announced
        <5> QED BY <5>1, <5>2
      <4> QED BY <1>1, <1>2, <2>2, <2>3, <3>1, <4>2 DEF Announced
    <3>2. CASE daemon.conn # "open"
      BY <1>1, <1>2, <2>2, <2>3, <3>2 DEF Announced
    <3> QED BY <3>1, <3>2
  <2> QED BY <1>1, <2>3, <2>4, <2>5, DaemonStepKeepsInv
<1>4. CASE Serve
  <2>1. /\ daemon.step = "announcing" /\ daemon.todo = {} /\ listing' = listing
        /\ daemon' = [daemon EXCEPT !.step = "running"]
    BY <1>4 DEF Serve, Daemon
  <2>2. /\ daemon' \in DaemonState /\ daemon'.step = "running"
        /\ daemon'.models = daemon.models /\ daemon'.conn = daemon.conn
        /\ daemon'.todo = daemon.todo
    BY <1>1, <2>1 DEF DaemonState
  <2>3. Announced'
    BY <1>1, <1>2, <2>1, <2>2 DEF Announced
  <2> QED BY <1>1, <2>1, <2>2, <2>3, DaemonStepKeepsInv
<1>5. CASE Drop
  <2>1. /\ daemon.conn = "open" /\ listing' = Unlisted
        /\ daemon' = [daemon EXCEPT !.conn = "dropped"]
    BY <1>5 DEF Drop, Daemon
  <2>2. /\ daemon' \in DaemonState /\ daemon'.step = daemon.step
        /\ daemon'.models = daemon.models /\ daemon'.conn = "dropped"
        /\ daemon'.todo = daemon.todo
    BY <1>1, <2>1 DEF DaemonState
  <2>3. Announced'
    BY <1>1, <1>2, <2>1, <2>2 DEF Announced, Unlisted
  <2>4. DOMAIN listing' = ModelID
    BY <2>1 DEF Unlisted
  <2> QED BY <1>1, <2>2, <2>3, <2>4, DaemonStepKeepsInv
<1>6. CASE Stop
  <2>1. listing' = Unlisted /\ daemon' = NoDaemon
    BY <1>6 DEF Stop, Close, Daemon
  <2>2. daemon' \in DaemonState /\ daemon'.step = "off" /\ daemon'.conn = "none"
        /\ daemon'.todo = {}
    BY <2>1 DEF NoDaemon, DaemonState
  <2>3. Announced'
    BY <2>1, <2>2 DEF Announced, Unlisted
  <2>4. DOMAIN listing' = ModelID
    BY <2>1 DEF Unlisted
  <2> QED BY <1>1, <2>2, <2>3, <2>4, DaemonStepKeepsInv
<1> QED BY <1>3, <1>4, <1>5, <1>6

LEMMA DaemonStep == DaemonInv /\ [DaemonNext]_daemonVars => DaemonInv'
<1> SUFFICES ASSUME DaemonInv, [DaemonNext]_daemonVars PROVE DaemonInv'
  OBVIOUS
<1>1. CASE WriteConfig \/ RunDoctor
  BY <1>1, ConfigKeepsInv
<1>2. ASSUME NEW p \in Process,
             \/ \E cmd \in {"add", "remove"}, m \in ModelID : NewEngine(p, cmd, m)
             \/ \E purge \in BOOLEAN : RemoveModel(p, purge)
             \/ AddModel(p) \/ DeleteModel(p) \/ Kill(p)
      PROVE  DaemonInv'
  BY <1>2, NewEngineKeepsInv, CommandsKeepInv, DeleteModelKeepsInv
<1>3. ASSUME NEW w \in Writer, (\E c \in Chunk : CheckQuota(w, c)) \/ WriteChunk(w)
      PROVE  DaemonInv'
  BY <1>3, CheckQuotaKeepsInv, WriteChunkKeepsInv
<1>4. CASE StartDaemon
  BY <1>4, StartDaemonKeepsInv
<1>5. CASE (\E m \in ModelID : AnnounceAll(m)) \/ Serve \/ Drop \/ Stop
  BY <1>5, DaemonKeepsInv
<1>6. CASE UNCHANGED daemonVars
  <2>1. UNCHANGED <<config, catalog, disk, cli, writer, daemon, listing, started, expected,
                    overlapped, touched, doctor>>
    BY <1>6 DEF daemonVars
  <2>2. \A m \in ModelID : HeldChunks(m)' = HeldChunks(m)
    BY <2>1, SameChunks
  <2>3. QuotaKept' /\ writer \in [Writer -> Chunk \cup {NotListed}] /\ touched \subseteq ModelID
    BY <2>1, SameQuota DEF DaemonInv, DaemonTypeOK
  <2> QED BY <2>1, <2>2, <2>3, WriterKeepsInv
<1> QED BY <1>1, <1>2, <1>3, <1>4, <1>5, <1>6 DEF DaemonNext

\* Commands that do not overlap leave in the catalog what each of them did; the daemon lists
\* what the files hold until they are touched or its socket drops; the disk is over the
\* quota by less than the writers are many; a good report is of a file the daemon takes
\* (engine.go, store.go, doctor.go).
THEOREM DaemonKeepsPromises == DaemonSpec => []DaemonCorrect
<1>1. DaemonInv => DaemonCorrect
  <2> SUFFICES ASSUME DaemonInv PROVE DaemonCorrect
    OBVIOUS
  <2>1. CatalogSerial
    BY DEF DaemonInv, OneAtATime, CatalogSerial
  <2>2. ListingTrue
    BY DEF DaemonInv, Announced, ListingTrue
  <2>3. QuotaHeld
    <3>1. /\ Cardinality(disk) + Cardinality(Writing) <= MaxStorage + Cardinality(Writer) - 1
          /\ Cardinality(Writing) \in Nat /\ Cardinality(Writer) \in Nat /\ MaxStorage \in Nat
          /\ Cardinality(disk) \in Nat
      BY WritingIsFinite, DaemonAssumption, FS_CardinalityType DEF DaemonInv, QuotaKept
    <3> QED BY <3>1 DEF QuotaHeld
  <2>4. DoctorAgrees
    BY DEF DaemonInv, Reported, DoctorAgrees, ValidConfig
  <2> QED BY <2>1, <2>2, <2>3, <2>4 DEF DaemonCorrect
<1> QED BY <1>1, DaemonStarts, DaemonStep, PTL DEF DaemonSpec
=============================================================================
