--------------------------- MODULE ChunkExchange ---------------------------
(***************************************************************************)
(* One paid download between browsers:                                     *)
(* src/frontend/src/services/{downloader,seeder,payment,peer-connection}.ts*)
(*                                                                         *)
(* The downloader asks one seeder after the other for one chunk after the  *)
(* other; the seeder answers 402, the downloader pays on chain and shows   *)
(* the transaction, the seeder verifies it and streams the chunk.  What    *)
(* makes this hard: giving up an attempt does not stop what it started.    *)
(* The payment goes on, its proof reaches a seeder that has another        *)
(* request pending by then, answers meet the listeners of a later attempt, *)
(* and two chunks may be streamed into one data channel at once.           *)
(*                                                                         *)
(* An attempt is a pair of seeder and chunk: a run of start() makes each   *)
(* at most once.  What belongs to an attempt is indexed by it: the payment *)
(* (its transaction is named so too), and the peer connection it created.  *)
(* Prices, hashes, offers and candidates are left out: a slice is the      *)
(* chunk it is cut from, data is genuine when it is made of its chunk's    *)
(* slices only, and a connection opens or does not.                        *)
(***************************************************************************)
EXTENDS Naturals, Sequences, FiniteSets

CONSTANTS Seeder,      \* peers that announced the whole model
          Creator,     \* those of them that are the model's creator
          NumChunks,
          Holds,       \* the chunks that really are in each seeder's storage
          NumSlices,   \* slices of a chunk
          None,
          MaxDrops     \* bound: connections that fail or are closed by peers

VARIABLES
    held,     \* start: heldSet
    stored,   \* IndexedDB of the downloader: what is stored of each chunk
    loop,     \* where start() stands
    status,   \* how start() ended
    cancelled,\* isCancelled
    pcs,      \* peerConnections
    conn,     \* PeerConnection objects on both sides, with their data channel
    used,     \* the connection of each attempt, from its request on
    payment,  \* makePayment of each attempt
    paid,     \* history: payments of each attempt the chain confirmed
    saving,   \* received chunks whose hash is computed
    answering,\* peerConnections of each seeder: the one to this downloader
    pending,  \* pendingChunkRequests of each seeder for this downloader
    fetching, \* requests for which a seeder waits for its storage
    verifying,\* proofs for which a seeder waits for the chain
    streaming,\* chunks a seeder is sending, by the proof that released them
    refused,  \* history: proofs of payment answered with an error
    drops     \* number of failures so far

download == <<held, stored, loop, status, cancelled>>
network == <<pcs, conn, drops>>
attempts == <<used, payment, paid, saving>>
seeding == <<answering, pending, fetching, verifying, streaming, refused>>
vars == <<download, network, attempts, seeding>>

-----------------------------------------------------------------------------

Chunk == 0..(NumChunks - 1)
Attempt == Seeder \X Chunk

Message == [type : {"request-chunk"}, chunk : Chunk]
           \cup [type : {"payment-proof"}, tx : Attempt]
           \cup [type : {"payment-required", "chunk-data"}, chunk : Chunk]
           \cup [type : {"slice"}, chunk : Chunk, index : 0..(NumSlices - 1)]
           \cup [type : {"error"}]

\* A chunk being put together: what its meta message says, the slices so far,
\* and whether each is the one that belongs there.
Reassembly == [chunk : Chunk, got : 0..(NumSlices - 1), pure : BOOLEAN]

\* Both ends of a connection.  "closing": close() was called, the data
\* channel's close event is still to come.
Connection == [near : {"new", "connecting", "open", "closing", "closed"},
               far : {"new", "open", "closing", "closed"},
               toSeeder : Seq(Message), toDownloader : Seq(Message),
               rx : Reassembly \cup {None}, timer : BOOLEAN]

Loop == [at : {"start", "choosing", "connecting", "waiting", "ended"},
         chunk : 0..NumChunks, left : SUBSET Seeder,
         seeder : Seeder \cup {None}, conn : Attempt \cup {None}]

ASSUME ExchangeAssumption ==
    /\ Creator \subseteq Seeder
    /\ NumChunks \in Nat \ {0}
    /\ NumSlices \in Nat \ {0}
    /\ Holds \in [Seeder -> SUBSET Chunk]
    /\ None \notin Seeder \cup Attempt \cup Chunk \cup Reassembly
    /\ MaxDrops \in Nat

TypeOK ==
    /\ held \subseteq Chunk
    /\ stored \in [Chunk -> {"nothing", "genuine", "garbled"}]
    /\ loop \in Loop
    /\ status \in {"running", "complete", "error", "idle"}
    /\ cancelled \in BOOLEAN
    /\ pcs \in [Seeder -> Attempt \cup {None}]
    /\ conn \in [Attempt -> Connection]
    /\ used \in [Attempt -> Attempt \cup {None}]
    /\ payment \in [Attempt -> {"none", "signing", "confirmed", "failed"}]
    /\ paid \in [Attempt -> Nat]
    /\ saving \in [Attempt -> SUBSET {"genuine", "garbled"}]
    /\ answering \in [Seeder -> Attempt \cup {None}]
    /\ pending \in [Seeder -> Chunk \cup {None}]
    /\ fetching \in [Attempt -> Attempt \cup {None}]
    /\ verifying \in [Attempt -> [conn : Attempt, chunk : Chunk] \cup {None}]
    /\ streaming \in [Attempt -> [conn : Attempt, chunk : Chunk,
                                 next : 0..(NumSlices - 1)] \cup {None}]
    /\ refused \subseteq Attempt
    /\ drops \in 0..MaxDrops

Init ==
    /\ held = {}
    /\ stored \in [Chunk -> {"nothing", "genuine"}]
    /\ loop = [at |-> "start", chunk |-> 0, left |-> {}, seeder |-> None, conn |-> None]
    /\ status = "running"
    /\ cancelled = FALSE
    /\ pcs = [s \in Seeder |-> None]
    /\ conn = [k \in Attempt |-> [near |-> "new", far |-> "new", toSeeder |-> <<>>,
                                  toDownloader |-> <<>>, rx |-> None, timer |-> FALSE]]
    /\ used = [a \in Attempt |-> None]
    /\ payment = [a \in Attempt |-> "none"]
    /\ paid = [a \in Attempt |-> 0]
    /\ saving = [a \in Attempt |-> {}]
    /\ answering = [s \in Seeder |-> None]
    /\ pending = [s \in Seeder |-> None]
    /\ fetching = [a \in Attempt |-> None]
    /\ verifying = [a \in Attempt |-> None]
    /\ streaming = [a \in Attempt |-> None]
    /\ refused = {}
    /\ drops = 0

-----------------------------------------------------------------------------
(* PeerConnection.                                                         *)

Open(k) == conn[k].near = "open" /\ conn[k].far = "open"

\* send: nothing happens unless the channel is open; what is sent to an end
\* that is closed is lost.
ToSeeder(c, k, m) ==
    IF Open(k) THEN [c EXCEPT ![k].toSeeder = Append(@, m)] ELSE c

ToDownloader(c, k, m) ==
    IF Open(k) THEN [c EXCEPT ![k].toDownloader = Append(@, m)] ELSE c

\* close() by the downloader, of the connections in ks that are not yet closed.
CloseNear(ks) ==
    [k \in Attempt |->
        IF k \in ks /\ conn[k].near \in {"connecting", "open"}
        THEN [conn[k] EXCEPT !.near = "closing", !.toDownloader = <<>>, !.rx = None]
        ELSE conn[k]]

\* What the downloader does when k closes, and again on its close event: it
\* forgets the seeder's connection, whichever that is by now.
Forget(k) == pcs' = [pcs EXCEPT ![k[1]] = None]

\* What the seeder does then: it forgets the downloader's connection and drops
\* its pending request.
Drop(k) ==
    /\ answering' = [answering EXCEPT ![k[1]] = None]
    /\ pending' = [pending EXCEPT ![k[1]] = None]

-----------------------------------------------------------------------------
(* start().                                                                *)

Current == <<loop.seeder, loop.chunk>>

\* The promise of attempt a is not settled.
Active(a) == loop.at = "waiting" /\ Current = a

\* The listeners of the running attempt are those of connection k.
Listening(k) == loop.at = "waiting" /\ loop.conn = k

End(outcome) ==
    /\ loop' = [at |-> "ended", chunk |-> loop.chunk, left |-> {}, seeder |-> None, conn |-> None]
    /\ status' = outcome

\* The loop goes on at chunk i, and reassembles when no chunk is missing.
Advance(have, i, content) ==
    LET missing == {j \in Chunk : j >= i /\ j \notin have}
    IN  \/ cancelled /\ End("idle")
        \/ /\ ~cancelled
           /\ missing = {}
           /\ End(IF \E j \in Chunk : content[j] = "nothing" THEN "error" ELSE "complete")
        \/ /\ ~cancelled
           /\ \E next \in missing :
                 /\ \A j \in missing : next <= j
                 /\ loop' = [at |-> "choosing", chunk |-> next, left |-> Seeder,
                             seeder |-> None, conn |-> None]
           /\ UNCHANGED status

\* The running attempt fails: its seeder is no candidate any more.
Abandon == loop' = [loop EXCEPT !.at = "choosing", !.left = @ \ {loop.seeder},
                                !.seeder = None, !.conn = None]

\* fail() of attempt a.
Fail(a) == IF Active(a) THEN Abandon ELSE UNCHANGED loop

\* Look up what is stored, find the seeders.
Start ==
    LET have == {i \in Chunk : stored[i] # "nothing"}
    IN  /\ loop.at = "start"
        /\ held' = have
        /\ IF have = Chunk THEN End("complete") ELSE Advance(have, 0, stored)
        /\ UNCHANGED <<stored, cancelled, network, attempts, seeding>>

\* Nobody announces the model.
NoSeeders ==
    /\ loop.at = "start"
    /\ \E i \in Chunk : stored[i] = "nothing"
    /\ End("error")
    /\ UNCHANGED <<held, stored, cancelled, network, attempts, seeding>>

\* The request of attempt a, on connection k.
Request(a, k) ==
    /\ loop' = [loop EXCEPT !.at = "waiting", !.seeder = a[1], !.conn = k]
    /\ used' = [used EXCEPT ![a] = k]

\* The next candidate; the creator only when no other is left.  An open
\* connection is used again, else a new one is offered.  (start() waits for
\* one connection at a time: peerReadyPromises never has an entry here.)
Choose(s) ==
    LET a == <<s, loop.chunk>>
        k == pcs[s]
        reuse == k # None /\ conn[k].near = "open"
    IN  /\ loop.at = "choosing"
        /\ ~cancelled
        /\ s \in loop.left
        /\ s \in Creator => loop.left \subseteq Creator
        /\ IF reuse
           THEN /\ Request(a, k)
                /\ conn' = ToSeeder(conn, k, [type |-> "request-chunk", chunk |-> loop.chunk])
                /\ UNCHANGED pcs
           ELSE /\ loop' = [loop EXCEPT !.at = "connecting", !.seeder = s, !.conn = a]
                /\ pcs' = [pcs EXCEPT ![s] = a]
                /\ conn' = [conn EXCEPT ![a].near = "connecting", ![a].timer = TRUE]
                /\ UNCHANGED used
        /\ UNCHANGED <<held, stored, status, cancelled, drops, payment, paid, saving, seeding>>

\* No candidate is left, or the user cancelled.
GiveUp ==
    /\ loop.at = "choosing"
    /\ \/ cancelled /\ End("idle")
       \/ ~cancelled /\ loop.left = {} /\ End("error")
    /\ UNCHANGED <<held, stored, cancelled, network, attempts, seeding>>

\* cancel(): every connection is closed; start() notices when it next looks.
Cancel ==
    /\ ~cancelled
    /\ loop.at # "ended"
    /\ cancelled' = TRUE
    /\ conn' = CloseNear(Attempt)
    /\ pcs' = [s \in Seeder |-> None]
    /\ UNCHANGED <<held, stored, loop, status, drops, attempts, seeding>>

-----------------------------------------------------------------------------
(* Connections open and close.  The seeder's answer is given to the        *)
(* connection the downloader remembers; a seeder that remembers an open    *)
(* connection to this downloader applies the offer to that one, in vain.   *)

Opens(k) ==
    /\ loop.at = "connecting" /\ loop.conn = k
    /\ conn[k].near = "connecting"
    /\ pcs[k[1]] = k
    /\ answering[k[1]] = None
    /\ Request(k, k)
    /\ conn' = [conn EXCEPT ![k].near = "open", ![k].far = "open",
                            ![k].toSeeder = <<[type |-> "request-chunk", chunk |-> loop.chunk]>>]
    /\ answering' = [answering EXCEPT ![k[1]] = k]
    /\ UNCHANGED <<held, stored, status, cancelled, pcs, drops, payment, paid, saving>>
    /\ UNCHANGED <<pending, fetching, verifying, streaming, refused>>

\* 15 seconds after the offer.
ConnectTimeout(k) ==
    /\ conn[k].timer
    /\ IF conn[k].near = "open"
       THEN /\ conn' = [conn EXCEPT ![k].timer = FALSE]
            /\ UNCHANGED <<pcs, loop>>
       ELSE /\ conn' = [CloseNear({k}) EXCEPT ![k].timer = FALSE]
            /\ Forget(k)
            /\ IF loop.at = "connecting" /\ loop.conn = k THEN Abandon ELSE UNCHANGED loop
    /\ UNCHANGED <<held, stored, status, cancelled, drops, attempts, seeding>>

\* The downloader's side fails.
NearCloses(k) ==
    /\ drops < MaxDrops
    /\ conn[k].near \in {"connecting", "open"}
    /\ conn' = CloseNear({k})
    /\ Forget(k)
    /\ drops' = drops + 1
    /\ UNCHANGED <<download, attempts, seeding>>

\* The close event, after close() or because the other side is gone.  It may
\* come late, or not at all.
NearClosed(k) ==
    /\ \/ conn[k].near = "closing"
       \/ conn[k].near = "open" /\ conn[k].far # "open"
    /\ conn' = [conn EXCEPT ![k].near = "closed", ![k].toDownloader = <<>>, ![k].rx = None]
    /\ Forget(k)
    /\ UNCHANGED <<download, drops, attempts, seeding>>

\* The seeder's side fails, or the seeder stops seeding.
FarCloses(k) ==
    /\ drops < MaxDrops
    /\ conn[k].far = "open"
    /\ conn' = [conn EXCEPT ![k].far = "closing", ![k].toSeeder = <<>>]
    /\ Drop(k)
    /\ drops' = drops + 1
    /\ UNCHANGED <<download, pcs, attempts, fetching, verifying, streaming, refused>>

FarClosed(k) ==
    /\ \/ conn[k].far = "closing"
       \/ conn[k].far = "open" /\ conn[k].near # "open"
    /\ conn' = [conn EXCEPT ![k].far = "closed", ![k].toSeeder = <<>>]
    /\ Drop(k)
    /\ UNCHANGED <<download, pcs, drops, attempts, fetching, verifying, streaming, refused>>

-----------------------------------------------------------------------------
(* The attempt: downloadChunk.                                             *)

\* The next message to the downloader is m; c is conn without it.
Receives(k, type) ==
    /\ conn[k].near = "open"
    /\ conn[k].toDownloader # <<>>
    /\ Head(conn[k].toDownloader).type = type

Rest(k) == [conn EXCEPT ![k].toDownloader = Tail(@)]

\* An error is taken for an answer to the running attempt.
GetError(k) ==
    /\ Receives(k, "error")
    /\ conn' = Rest(k)
    /\ IF Listening(k) THEN Abandon ELSE UNCHANGED loop
    /\ UNCHANGED <<held, stored, status, cancelled, pcs, drops, attempts, seeding>>

\* Mutant of GetPaymentRequired: whatever chunk the demand is for.
GetPaymentRequiredAnyChunk(k) ==
    /\ Receives(k, "payment-required")
    /\ conn' = Rest(k)
    /\ payment' = IF Listening(k) THEN [payment EXCEPT ![Current] = "signing"] ELSE payment
    /\ UNCHANGED <<download, pcs, drops, used, paid, saving, seeding>>

\* 402: pay, if it is for the chunk of the running attempt.
GetPaymentRequired(k) ==
    /\ Receives(k, "payment-required")
    /\ conn' = Rest(k)
    /\ payment' = IF Listening(k) /\ Head(conn[k].toDownloader).chunk = loop.chunk
                  THEN [payment EXCEPT ![Current] = "signing"] ELSE payment
    /\ UNCHANGED <<download, pcs, drops, used, paid, saving, seeding>>

\* The transaction is in the chain: show it, whatever became of the attempt.
PaymentConfirmed(a) ==
    /\ payment[a] = "signing"
    /\ payment' = [payment EXCEPT ![a] = "confirmed"]
    /\ paid' = [paid EXCEPT ![a] = @ + 1]
    /\ conn' = ToSeeder(conn, used[a], [type |-> "payment-proof", tx |-> a])
    /\ UNCHANGED <<download, pcs, drops, used, saving, seeding>>

\* The user declines, or the transaction reverts.
PaymentFails(a) ==
    /\ payment[a] = "signing"
    /\ payment' = [payment EXCEPT ![a] = "failed"]
    /\ Fail(a)
    /\ UNCHANGED <<held, stored, status, cancelled, network, used, paid, saving, seeding>>

\* "chunk-data": a new reassembly begins, an unfinished one is dropped.
GetMeta(k) ==
    /\ Receives(k, "chunk-data")
    /\ conn' = [Rest(k) EXCEPT ![k].rx = [chunk |-> Head(conn[k].toDownloader).chunk,
                                          got |-> 0, pure |-> TRUE]]
    /\ UNCHANGED <<download, pcs, drops, attempts, seeding>>

\* A slice; the last one completes the chunk, for the attempt that waits for it.
GetSlice(k) ==
    LET m == Head(conn[k].toDownloader)
        rx == conn[k].rx
        now == [rx EXCEPT !.got = @ + 1, !.pure = @ /\ m.chunk = rx.chunk /\ m.index = rx.got]
        whole == rx # None /\ now.got = NumSlices
    IN  /\ Receives(k, "slice")
        /\ conn' = [Rest(k) EXCEPT ![k].rx = IF rx = None \/ whole THEN None ELSE now]
        /\ saving' = IF whole /\ Listening(k) /\ rx.chunk = loop.chunk
                     THEN [saving EXCEPT ![Current] = @ \cup {IF now.pure THEN "genuine" ELSE "garbled"}]
                     ELSE saving
        /\ UNCHANGED <<download, pcs, drops, used, payment, paid, seeding>>

\* Mutant of Stored: the hash is not compared.
StoredUnchecked(a) ==
    \E data \in saving[a] :
        /\ saving' = [saving EXCEPT ![a] = @ \ {data}]
        /\ stored' = [stored EXCEPT ![a[2]] = data]
        /\ IF Active(a)
           THEN held' = held \cup {a[2]} /\ Advance(held', a[2] + 1, stored')
           ELSE UNCHANGED <<held, loop, status>>
        /\ UNCHANGED <<cancelled, network, used, payment, paid, seeding>>

\* The hash is right: store the chunk, even if the attempt was given up.
Stored(a) ==
    /\ "genuine" \in saving[a]
    /\ saving' = [saving EXCEPT ![a] = @ \ {"genuine"}]
    /\ stored' = [stored EXCEPT ![a[2]] = "genuine"]
    /\ IF Active(a)
       THEN held' = held \cup {a[2]} /\ Advance(held', a[2] + 1, stored')
       ELSE UNCHANGED <<held, loop, status>>
    /\ UNCHANGED <<cancelled, network, used, payment, paid, seeding>>

\* The hash is wrong, or the storage refuses.
NotStored(a) ==
    /\ \E data \in saving[a] : saving' = [saving EXCEPT ![a] = @ \ {data}]
    /\ Fail(a)
    /\ UNCHANGED <<held, stored, status, cancelled, network, used, payment, paid, seeding>>

\* Mutant of ChunkTimeout: an attempt that has begun to pay waits for its chunk.
ChunkTimeoutUnlessPaying ==
    /\ loop.at = "waiting"
    /\ payment[Current] = "none"
    /\ Abandon
    /\ UNCHANGED <<held, stored, status, cancelled, network, attempts, seeding>>

\* 30 seconds after the request.
ChunkTimeout ==
    /\ loop.at = "waiting"
    /\ Abandon
    /\ UNCHANGED <<held, stored, status, cancelled, network, attempts, seeding>>

-----------------------------------------------------------------------------
(* The seeder.                                                             *)

Gets(k, type) ==
    /\ conn[k].far = "open"
    /\ conn[k].toSeeder # <<>>
    /\ Head(conn[k].toSeeder).type = type

Handled(k) == [conn EXCEPT ![k].toSeeder = Tail(@)]

GetRequest(k) ==
    /\ Gets(k, "request-chunk")
    /\ conn' = Handled(k)
    /\ fetching' = [fetching EXCEPT ![<<k[1], Head(conn[k].toSeeder).chunk>>] = k]
    /\ UNCHANGED <<download, pcs, drops, attempts, answering, pending, verifying, streaming, refused>>

\* Mutant of Fetched: payment is demanded before the storage is looked at.
FetchedUnseen(a) ==
    /\ fetching[a] # None
    /\ pending' = [pending EXCEPT ![a[1]] = a[2]]
    /\ conn' = ToDownloader(conn, fetching[a], [type |-> "payment-required", chunk |-> a[2]])
    /\ fetching' = [fetching EXCEPT ![a] = None]
    /\ UNCHANGED <<download, pcs, drops, attempts, answering, verifying, streaming, refused>>

\* The chunk has been read: remember the request, one per downloader, and
\* demand payment.
Fetched(a) ==
    /\ fetching[a] # None
    /\ a[2] \in Holds[a[1]]
    /\ pending' = [pending EXCEPT ![a[1]] = a[2]]
    /\ conn' = ToDownloader(conn, fetching[a], [type |-> "payment-required", chunk |-> a[2]])
    /\ fetching' = [fetching EXCEPT ![a] = None]
    /\ UNCHANGED <<download, pcs, drops, attempts, answering, verifying, streaming, refused>>

\* It is not there.
NotFetched(a) ==
    /\ fetching[a] # None
    /\ a[2] \notin Holds[a[1]]
    /\ conn' = ToDownloader(conn, fetching[a], [type |-> "error"])
    /\ fetching' = [fetching EXCEPT ![a] = None]
    /\ UNCHANGED <<download, pcs, drops, attempts, answering, pending, verifying, streaming, refused>>

\* A proof is for the request that is pending now.
GetProof(k) ==
    LET s == k[1]
        tx == Head(conn[k].toSeeder).tx
    IN  /\ Gets(k, "payment-proof")
        /\ IF pending[s] = None
           THEN /\ conn' = ToDownloader(Handled(k), k, [type |-> "error"])
                /\ refused' = refused \cup {tx}
                /\ UNCHANGED verifying
           ELSE /\ conn' = Handled(k)
                /\ verifying' = [verifying EXCEPT ![tx] = [conn |-> k, chunk |-> pending[s]]]
                /\ UNCHANGED refused
        /\ UNCHANGED <<download, pcs, drops, attempts, answering, pending, fetching, streaming>>

\* The chain knows the payment: drop the request that is pending by now, and
\* stream the chunk of the one that was pending then.
Verified(a) ==
    /\ verifying[a] # None
    /\ paid[a] > 0
    /\ pending' = [pending EXCEPT ![a[1]] = None]
    /\ LET k == verifying[a].conn
       IN  IF conn[k].far = "open"
           THEN /\ conn' = ToDownloader(conn, k, [type |-> "chunk-data", chunk |-> verifying[a].chunk])
                /\ streaming' = [streaming EXCEPT ![a] =
                                   [conn |-> k, chunk |-> verifying[a].chunk, next |-> 0]]
           ELSE UNCHANGED <<conn, streaming>>
    /\ verifying' = [verifying EXCEPT ![a] = None]
    /\ UNCHANGED <<download, pcs, drops, attempts, answering, fetching, refused>>

\* The seeder's chain node has not seen the payment, or cannot be reached.
NotVerified(a) ==
    /\ verifying[a] # None
    /\ conn' = ToDownloader(conn, verifying[a].conn, [type |-> "error"])
    /\ verifying' = [verifying EXCEPT ![a] = None]
    /\ UNCHANGED <<download, pcs, drops, attempts, answering, pending, fetching, streaming, refused>>

\* Mutant of StreamSlice: one slice too many.
StreamSliceTooFar(a) ==
    LET r == streaming[a]
    IN  /\ r # None
        /\ conn[r.conn].far = "open"
        /\ conn' = ToDownloader(conn, r.conn,
                               [type |-> "slice", chunk |-> r.chunk, index |-> r.next])
        /\ streaming' = [streaming EXCEPT ![a] =
                            IF r.next = NumSlices THEN None ELSE [r EXCEPT !.next = @ + 1]]
        /\ UNCHANGED <<download, pcs, drops, attempts, answering, pending, fetching, verifying, refused>>

\* streamChunk sends the next slice, after a pause if the channel is full.
StreamSlice(a) ==
    LET r == streaming[a]
    IN  /\ r # None
        /\ conn[r.conn].far = "open"
        /\ conn' = ToDownloader(conn, r.conn, [type |-> "slice", chunk |-> r.chunk, index |-> r.next])
        /\ streaming' = [streaming EXCEPT ![a] =
                            IF r.next + 1 = NumSlices THEN None ELSE [r EXCEPT !.next = @ + 1]]
        /\ UNCHANGED <<download, pcs, drops, attempts, answering, pending, fetching, verifying, refused>>

StreamAborts(a) ==
    /\ streaming[a] # None
    /\ conn[streaming[a].conn].far # "open"
    /\ streaming' = [streaming EXCEPT ![a] = None]
    /\ UNCHANGED <<download, network, attempts, answering, pending, fetching, verifying, refused>>

-----------------------------------------------------------------------------

Next ==
    \/ Start \/ NoSeeders \/ GiveUp \/ Cancel \/ ChunkTimeout
    \/ \E s \in Seeder : Choose(s)
    \/ \E k \in Attempt :
          \/ Opens(k) \/ ConnectTimeout(k)
          \/ NearCloses(k) \/ NearClosed(k) \/ FarCloses(k) \/ FarClosed(k)
          \/ GetError(k) \/ GetPaymentRequired(k) \/ GetMeta(k) \/ GetSlice(k)
          \/ GetRequest(k) \/ GetProof(k)
    \/ \E a \in Attempt :
          \/ PaymentConfirmed(a) \/ PaymentFails(a)
          \/ Stored(a) \/ NotStored(a)
          \/ Fetched(a) \/ NotFetched(a)
          \/ Verified(a) \/ NotVerified(a)
          \/ StreamSlice(a) \/ StreamAborts(a)

(***************************************************************************)
(* Only the downloader's own event loop and its timers are fair: seeders,  *)
(* the chain, the wallet and the network owe nothing.                      *)
(***************************************************************************)
Fairness ==
    /\ WF_vars(Start)
    /\ WF_vars(\E s \in Seeder : Choose(s))
    /\ WF_vars(GiveUp)
    /\ WF_vars(ChunkTimeout)
    /\ \A k \in Attempt : WF_vars(ConnectTimeout(k))

Spec == Init /\ [][Next]_vars
FairSpec == Spec /\ Fairness

-----------------------------------------------------------------------------
(* Properties.                                                             *)

\* Only genuine chunks are stored, though slices of two chunks can mix in one
\* channel and arrive at a later attempt; what start() takes for held is
\* stored, and a complete model has every chunk.
OnlyGenuine ==
    /\ \A i \in Chunk : stored[i] # "garbled" /\ (i \in held => stored[i] = "genuine")
    /\ status = "complete" => \A i \in Chunk : stored[i] = "genuine"

\* A seeder is paid at most once for a chunk, however late its demands come
\* and whatever attempt is under way by then.
PaidOncePerSeeder == \A a \in Attempt : paid[a] <= 1

\* Money goes only to a seeder that really has the chunk, though the directory
\* may say so of others.
PaidOnlyForHeld == \A a \in Attempt : paid[a] > 0 => a[2] \in Holds[a[1]]

\* A seeder that demanded payment never answers its proof with "no pending
\* chunk request": after verification of the receipt it sends the chunk.
ProofIsHonoured == refused = {}

\* Whatever seeders, wallet and network do, a started download ends.
DownloadEnds == loop.at = "start" ~> loop.at = "ended"

=============================================================================
