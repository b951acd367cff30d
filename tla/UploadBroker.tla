----------------------------- MODULE UploadBroker -----------------------------
(***************************************************************************)
(* Pinning a manifest through the upload broker: the handler of            *)
(* src/signaling/internal/broker with its nonce stores and its pinner, and *)
(* the request the browser makes (broker-client.ts).                       *)
(*                                                                         *)
(* A slot is one POST on its way.  A signed request may arrive twice, at   *)
(* one replica or at two; two tabs of a wallet may build intents in the    *)
(* same tick and so take the same nonce; replicas restart, with or without *)
(* Redis; the answer may be lost.  A manifest is its list of chunks, an    *)
(* index and a size each, and the total; hashes, EIP-712 and JSON are the  *)
(* comparison they come down to.                                           *)
(***************************************************************************)
EXTENDS Common, Sequences, FiniteSets, Functions

CONSTANTS Upload,                 \* creator, signer, chunks and total: what a
                                  \* wizard may send
          ClientTTL, NonceTTL     \* of the intent and of its nonce, in ticks

VARIABLES
    place,      \* where each replica keeps its nonces: Redis, or its own life
    nonces,     \* creator, nonce, place and expiry of the nonces consumed
    slot,       \* the request in each slot
    pins,       \* history: the manifests pinned
    lives       \* lives of the replicas so far

brokerVars == <<place, nonces, slot, pins, lives>>

-----------------------------------------------------------------------------

NoIntent == [creator |-> 0, signer |-> 0, chunks |-> <<>>, total |-> 0,
             nonce |-> 0, deadline |-> 0]
Empty == [step |-> "empty", intent |-> NoIntent, at |-> 0, since |-> 0]

\* Steps of a request the broker is at.
InBroker == {"verified", "consumed", "pinning"}

\* The intent runs out more than a tick before its nonce is forgotten (1 h
\* against NONCE_TTL_HOURS, 24 by default).
ASSUME BrokerAssumption ==
    /\ ClientTTL \in Nat /\ NonceTTL \in Nat
    /\ ClientTTL + 1 < NonceTTL
    /\ Upload \subseteq [creator : Nat, signer : Nat,
                         chunks : Seq([index : Nat, size : Nat]), total : Nat]

\* main() takes Redis when it answers, and memory otherwise.
BrokerInit ==
    /\ lives = 1
    /\ place \in [Replica -> {0, 1}] \* 0 is Redis; memories are numbered from 1
    /\ \A r, s \in Replica : r # s => place[r] = 0 \/ place[s] = 0
    /\ nonces = {}
    /\ slot = [q \in Slot |-> Empty]
    /\ pins = {}

\* buildUploadIntent: the nonce is Date.now(); signTypedData signs with the
\* account then selected, and the request is posted.
Build(q, u) ==
    /\ slot[q].step = "empty"
    /\ slot' = [slot EXCEPT ![q] =
          [step |-> "signed", at |-> 0, since |-> now,
           intent |-> [creator |-> u.creator, signer |-> u.signer, chunks |-> u.chunks,
                       total |-> u.total, nonce |-> now, deadline |-> now + ClientTTL]]]
    /\ UNCHANGED <<place, nonces, pins, lives, now>>

\* The same request arrives once more.
Duplicate(q, p) ==
    /\ slot[q].step = "empty" /\ slot[p].step # "empty"
    /\ slot' = [slot EXCEPT ![q] = [Empty EXCEPT !.step = "signed", !.since = now,
                                                !.intent = slot[p].intent]]
    /\ UNCHANGED <<place, nonces, pins, lives, now>>

BrokerStep(q, step) == slot' = [slot EXCEPT ![q].step = step]

\* VerifyUploadIntent: 400 when the deadline is over, 401 for another signer.
Verify(q, r) ==
    /\ slot[q].step = "signed"
    /\ LET i == slot[q].intent IN
       \/ now > i.deadline /\ BrokerStep(q, "expired")
       \/ now <= i.deadline /\ i.signer # i.creator /\ BrokerStep(q, "401")
       \/ /\ now <= i.deadline /\ i.signer = i.creator
          /\ slot' = [slot EXCEPT ![q].step = "verified", ![q].at = r, ![q].since = now]
    /\ UNCHANGED <<place, nonces, pins, lives, now>>

\* A nonce's entry that still counts, in the store at p.
Held(i, p) == \E n \in nonces : /\ n.creator = i.creator /\ n.nonce = i.nonce
                                /\ n.place = p /\ now < n.expires

\* ConsumeNonce of either store; 409 for one consumed before.  When Redis does not
\* answer, 500, and the nonce may be consumed or not.
ConsumeNonce(q) ==
    /\ slot[q].step = "verified"
    /\ LET i == slot[q].intent
           p == place[slot[q].at]
           consumed == {n \in nonces : ~(n.creator = i.creator /\ n.nonce = i.nonce /\ n.place = p)}
                       \cup {[creator |-> i.creator, nonce |-> i.nonce, place |-> p,
                              expires |-> now + NonceTTL]} IN
       \/ Held(i, p) /\ BrokerStep(q, "409") /\ UNCHANGED nonces
       \/ ~Held(i, p) /\ BrokerStep(q, "consumed") /\ nonces' = consumed
       \/ /\ p = 0 /\ BrokerStep(q, "500")
          /\ nonces' \in {nonces} \cup (IF Held(i, p) THEN {} ELSE {consumed})
    /\ UNCHANGED <<place, pins, lives, now>>

\* ValidateManifest.
Total(chunks) == SumFunction([k \in DOMAIN chunks |-> chunks[k].size])

\* Mutant of Balanced: the total is not compared.
BalancedAnyTotal(i) ==
    /\ i.chunks # <<>>
    /\ \A k \in DOMAIN i.chunks : i.chunks[k].index = k - 1 /\ i.chunks[k].size > 0

Balanced(i) ==
    /\ i.chunks # <<>>
    /\ \A k \in DOMAIN i.chunks : i.chunks[k].index = k - 1 /\ i.chunks[k].size > 0
    /\ Total(i.chunks) = i.total

Validate(q) ==
    /\ slot[q].step = "consumed"
    /\ BrokerStep(q, IF Balanced(slot[q].intent) THEN "pinning" ELSE "400")
    /\ UNCHANGED <<place, nonces, pins, lives, now>>

PinJSON(q) == pins' = pins \cup {[by |-> q, intent |-> slot[q].intent, at |-> now,
                                   place |-> place[slot[q].at]]}

\* PinJSON, and the answer; a failed pin is answered 502.  A lost answer is a
\* TypeError of fetch, for which submitToUploadBroker makes up a CID.
Pin(q) ==
    /\ slot[q].step = "pinning"
    /\ \/ BrokerStep(q, "502") /\ UNCHANGED pins
       \/ /\ \E step \in {"200", "made up"} : BrokerStep(q, step)
          /\ PinJSON(q)
    /\ UNCHANGED <<place, nonces, lives, now>>

\* No broker can be reached.
Unreachable(q) ==
    /\ slot[q].step = "signed"
    /\ BrokerStep(q, "made up")
    /\ UNCHANGED <<place, nonces, pins, lives, now>>

\* Requests in the handler are lost with the replica; of the nonces only those
\* in Redis survive.
RestartBroker(r) ==
    /\ lives < Cardinality(Replica)
    /\ lives' = lives + 1
    /\ \E p \in {0, lives + 1} : place' = [place EXCEPT ![r] = p]
    /\ slot' = [q \in Slot |-> IF slot[q].at = r /\ slot[q].step \in InBroker
                               THEN [slot[q] EXCEPT !.step = "made up"] ELSE slot[q]]
    /\ UNCHANGED <<nonces, pins, now>>

\* A request is through the handler within a tick (its limits are seconds, the
\* tick is an hour).
BrokerTick ==
    /\ \A q \in Slot : slot[q].step \in InBroker => slot[q].since = now
    /\ Tick
    /\ UNCHANGED brokerVars

BrokerNext ==
    \/ \E q \in Slot :
          \/ \E u \in Upload : Build(q, u)
          \/ \E p \in Slot : Duplicate(q, p)
          \/ \E r \in Replica : Verify(q, r)
          \/ ConsumeNonce(q) \/ Validate(q) \/ Pin(q) \/ Unreachable(q)
    \/ \E r \in Replica : RestartBroker(r)
    \/ BrokerTick

BrokerSpec == now = 0 /\ BrokerInit /\ [][BrokerNext]_<<brokerVars, now>>

-----------------------------------------------------------------------------

\* However often a signed request arrives, and at whichever replicas: one place
\* of nonces (Redis, or the memory of one life of a replica) lets it be pinned
\* once (ConsumeNonce of RedisNonceStore and MemoryNonceStore, called by
\* handleUploadManifest after VerifyUploadIntent).
PinnedOnce ==
    \A p, o \in pins :
        /\ p.place = o.place /\ p.intent.creator = o.intent.creator
        /\ p.intent.nonce = o.intent.nonce
        => p = o

\* What is pinned was signed by its creator, within the deadline or the tick after, and lists
\* chunks from 0 on whose sizes add up to the size that was signed: a wizard
\* that sends the chunks of one file and the size of another gets nothing
\* pinned (ValidateManifest).
PinnedAsSigned ==
    \A p \in pins :
        LET i == p.intent
            \* Sum of the first n sizes.
            upTo[n \in 0..Len(i.chunks)] ==
                IF n = 0 THEN 0 ELSE upTo[n - 1] + i.chunks[n].size IN
        /\ i.signer = i.creator /\ p.at <= i.deadline + 1
        /\ {i.chunks[k].index : k \in DOMAIN i.chunks} = 0..(Len(i.chunks) - 1)
        /\ upTo[Len(i.chunks)] = i.total

\* A 409 means that a request with this nonce came before, even if it failed:
\* its nonce is spent, and only a newly signed intent can be pinned.
ConflictHasCause ==
    \A q \in Slot : slot[q].step = "409" =>
        \E p \in Slot \ {q} :
            /\ slot[p].intent.creator = slot[q].intent.creator
            /\ slot[p].intent.nonce = slot[q].intent.nonce
            /\ slot[p].step \notin {"empty", "signed", "verified", "expired", "401"}

\* What the broker pins, pins once, and refuses (handleUploadManifest).
BrokerCorrect == PinnedOnce /\ PinnedAsSigned /\ ConflictHasCause
=============================================================================
