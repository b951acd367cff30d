---------------------------- MODULE SignalingHub ----------------------------
(***************************************************************************)
(* The WebSocket hub of the signaling server with its in-memory tracker:   *)
(* src/signaling/internal/ws/{hub,peer}.go, signal/relay.go and            *)
(* tracker/tracker.go.                                                     *)
(*                                                                         *)
(* A Conn is one *Peer object: one accepted socket with the goroutine of   *)
(* its ReadPump and the goroutine of its WritePump.  A browser that        *)
(* reconnects comes back as another Conn with the same peer ID.  pc[c] is  *)
(* where the ReadPump of c stands.  A handler that takes a lock more than  *)
(* once is split at each unlock; what it does under one lock is one step.  *)
(*                                                                         *)
(* Chunk lists, SDP payloads and the wording of answers are left out: no   *)
(* decision of the hub depends on them.  An answer to the sender itself    *)
(* (an ack, a query response, an error) is a "reply".                      *)
(***************************************************************************)
EXTENDS Naturals, Sequences, FiniteSets

CONSTANTS Conn,        \* accepted sockets
          PeerId,      \* the peer IDs clients register under
          Address,     \* wallet addresses
          Model,       \* model IDs
          NoConn, NoId, NoAddress, NoEntry, NoMsg,
          SendBuffer,  \* capacity of Peer.send
          MaxAge       \* clock ticks without heartbeat an entry survives

VARIABLES pc,       \* ReadPump of each connection
          id,       \* Peer.id
          address,  \* Peer.address
          closed,   \* Peer.closed
          outbox,   \* Peer.send, what WritePump has not written yet
          reg,      \* the register message its handler is at work on
          route,    \* the recipient Hub.SendToPeer looked up
          peers,    \* Hub.peers
          models,   \* Tracker.models, model -> peer ID -> SeederInfo
          owner     \* history: the connection whose announce wrote an entry

conns == <<pc, id, address, closed, reg, route>>
tracker == <<models, owner>>
vars == <<conns, outbox, peers, tracker>>

-----------------------------------------------------------------------------

Register == [peerId : PeerId, address : Address \cup {NoAddress}]
Route == [conn : Conn, to : PeerId]
SeederInfo == [address : Address \cup {NoAddress}, age : 0..(MaxAge + 1)]
Message == [kind : {"reply"}]
           \cup [kind : {"relay"}, from : PeerId, to : PeerId]

ASSUME HubAssumption ==
    /\ NoConn \notin Conn
    /\ NoId \notin PeerId
    /\ NoAddress \notin Address
    /\ NoEntry \notin SeederInfo
    /\ SendBuffer \in Nat \ {0}
    /\ MaxAge \in Nat

Reply == [kind |-> "reply"]
Envelope(from, to) == [kind |-> "relay", from |-> from, to |-> to]

\* The ReadPump is inside its loop, in a handler or between two messages.
Serving == {"reading", "installing", "forwarding"}

TypeOK ==
    /\ pc \in [Conn -> {"off", "purging", "closing", "done"} \cup Serving]
    /\ id \in [Conn -> PeerId \cup {NoId}]
    /\ address \in [Conn -> Address \cup {NoAddress}]
    /\ closed \in [Conn -> BOOLEAN]
    /\ outbox \in [Conn -> Seq(Message)]
    /\ reg \in [Conn -> Register \cup {NoMsg}]
    /\ route \in [Conn -> Route \cup {NoMsg}]
    /\ peers \in [PeerId -> Conn \cup {NoConn}]
    /\ models \in [Model \X PeerId -> SeederInfo \cup {NoEntry}]
    /\ owner \in [Model \X PeerId -> Conn \cup {NoConn}]

Init ==
    /\ pc = [c \in Conn |-> "off"]
    /\ id = [c \in Conn |-> NoId]
    /\ address = [c \in Conn |-> NoAddress]
    /\ closed = [c \in Conn |-> FALSE]
    /\ outbox = [c \in Conn |-> <<>>]
    /\ reg = [c \in Conn |-> NoMsg]
    /\ route = [c \in Conn |-> NoMsg]
    /\ peers = [i \in PeerId |-> NoConn]
    /\ models = [e \in Model \X PeerId |-> NoEntry]
    /\ owner = [e \in Model \X PeerId |-> NoConn]

-----------------------------------------------------------------------------
(* Peer.Send and Peer.Close.                                               *)

Accepts(c) == ~closed[c] /\ Len(outbox[c]) < SendBuffer

\* Peer.Send never blocks: on a closed connection or a full buffer it drops.
Send(box, c, m) == IF Accepts(c) THEN [box EXCEPT ![c] = Append(@, m)] ELSE box

\* Closing closes the socket under WritePump: what is still queued is lost.
Discard(box, k) == [c \in Conn |-> IF c \in k THEN <<>> ELSE box[c]]

(***************************************************************************)
(* The tracker under its own lock.                                         *)
(***************************************************************************)
\* Mutant of RemovePeer: the whole model goes with one of its peers.
RemovePeerDropsModel(i) ==
    LET gone(e) == models[<<e[1], i>>] # NoEntry
    IN  /\ models' = [e \in Model \X PeerId |-> IF gone(e) THEN NoEntry ELSE models[e]]
        /\ owner' = [e \in Model \X PeerId |-> IF gone(e) THEN NoConn ELSE owner[e]]

RemovePeer(i) ==
    /\ models' = [e \in Model \X PeerId |-> IF e[2] = i THEN NoEntry ELSE models[e]]
    /\ owner' = [e \in Model \X PeerId |-> IF e[2] = i THEN NoConn ELSE owner[e]]

Listed(e) == models[e] # NoEntry
Stale(e) == Listed(e) /\ models[e].age > MaxAge

\* Mutant of EvictStale: the scan gives up at the first fresh entry.
EvictStaleStopsAtFresh ==
    /\ \E e \in Model \X PeerId : Stale(e)
    /\ \A e \in Model \X PeerId : Listed(e) => Stale(e)
    /\ models' = [e \in Model \X PeerId |-> NoEntry]
    /\ owner' = [e \in Model \X PeerId |-> NoConn]
    /\ UNCHANGED <<conns, outbox, peers>>

\* EvictStale, on the ticker of the eviction loop.
EvictStale ==
    /\ \E e \in Model \X PeerId : Stale(e)
    /\ models' = [e \in Model \X PeerId |-> IF Stale(e) THEN NoEntry ELSE models[e]]
    /\ owner' = [e \in Model \X PeerId |-> IF Stale(e) THEN NoConn ELSE owner[e]]
    /\ UNCHANGED <<conns, outbox, peers>>

\* Time passes: every LastHeartbeat gets older.  Past MaxAge all ages are alike.
Older(e) == [models[e] EXCEPT !.age = IF @ > MaxAge THEN @ ELSE @ + 1]

Tick ==
    /\ \E e \in Model \X PeerId : Listed(e) /\ ~Stale(e)
    /\ models' = [e \in Model \X PeerId |-> IF Listed(e) THEN Older(e) ELSE NoEntry]
    /\ UNCHANGED <<conns, outbox, peers, owner>>

-----------------------------------------------------------------------------
(* Accepting a socket.                                                     *)

\* The connections that registering i on c kicks: the one that holds i now.
Kicked(c, i) == {peers[i]} \ {c, NoConn}

\* Under Hub.mu: kick the old connection, take the identity, enter the map;
\* then acknowledge.
Install(c, i, a) ==
    /\ id' = [id EXCEPT ![c] = i]
    /\ address' = [address EXCEPT ![c] = a]
    /\ closed' = [d \in Conn |-> closed[d] \/ d \in Kicked(c, i)]
    /\ peers' = [peers EXCEPT ![i] = c]
    /\ outbox' = Discard(Send(outbox, c, Reply), Kicked(c, i))

\* ServeWS without a session token: the pumps start, no identity yet.
Accept(c) ==
    /\ pc[c] = "off"
    /\ pc' = [pc EXCEPT ![c] = "reading"]
    /\ UNCHANGED <<id, address, closed, reg, route, outbox, peers, tracker>>

\* ServeWS with a session token: registered before the pumps start.
AcceptWithToken(c, i, a) ==
    /\ pc[c] = "off"
    /\ Install(c, i, a)
    /\ pc' = [pc EXCEPT ![c] = "reading"]
    /\ UNCHANGED <<reg, route, tracker>>

-----------------------------------------------------------------------------
(* HandleMessage.  A closed connection may still handle messages that its  *)
(* reader had already buffered.                                            *)

\* "register" on a connection without identity.
RegisterNew(c, i, a) ==
    /\ pc[c] = "reading"
    /\ id[c] = NoId
    /\ Install(c, i, a)
    /\ UNCHANGED <<pc, reg, route, tracker>>

\* Mutant of RegisterPurge: a connection may change its ID.
RegisterPurgeAnyId(c, i, a) ==
    /\ pc[c] = "reading"
    /\ id[c] # NoId
    /\ RemovePeer(i)
    /\ reg' = [reg EXCEPT ![c] = [peerId |-> i, address |-> a]]
    /\ pc' = [pc EXCEPT ![c] = "installing"]
    /\ UNCHANGED <<id, address, closed, route, outbox, peers>>

\* Mutant of RegisterPurge: the old announcements stay.
RegisterKeepsEntries(c, i, a) ==
    /\ pc[c] = "reading"
    /\ id[c] = i
    /\ reg' = [reg EXCEPT ![c] = [peerId |-> i, address |-> a]]
    /\ pc' = [pc EXCEPT ![c] = "installing"]
    /\ UNCHANGED <<id, address, closed, route, outbox, peers, tracker>>

\* "register" again, say after a wallet switch: the ID must be the same one;
\* the old announcements go first, under the tracker's lock only.
RegisterPurge(c, i, a) ==
    /\ pc[c] = "reading"
    /\ id[c] = i
    /\ RemovePeer(i)
    /\ reg' = [reg EXCEPT ![c] = [peerId |-> i, address |-> a]]
    /\ pc' = [pc EXCEPT ![c] = "installing"]
    /\ UNCHANGED <<id, address, closed, route, outbox, peers>>

RegisterInstall(c) ==
    /\ pc[c] = "installing"
    /\ Install(c, reg[c].peerId, reg[c].address)
    /\ pc' = [pc EXCEPT ![c] = "reading"]
    /\ reg' = [reg EXCEPT ![c] = NoMsg]
    /\ UNCHANGED <<route, tracker>>

\* "heartbeat": the peer's entries are fresh again; no entry comes back.
Heartbeat(c) ==
    /\ pc[c] = "reading"
    /\ id[c] # NoId
    /\ models' = [e \in Model \X PeerId |->
                    IF e[2] = id[c] /\ Listed(e) THEN [models[e] EXCEPT !.age = 0]
                                                 ELSE models[e]]
    /\ UNCHANGED <<conns, outbox, peers, owner>>

\* "announce": the address bound to the connection wins over the message's a.
Announce(c, m, a) ==
    LET bound == IF address[c] # NoAddress THEN address[c] ELSE a
        e == <<m, id[c]>>
    IN  /\ pc[c] = "reading"
        /\ id[c] # NoId
        /\ address' = [address EXCEPT ![c] = bound]
        /\ models' = [models EXCEPT ![e] = [address |-> bound, age |-> 0]]
        /\ owner' = [owner EXCEPT ![e] = c]
        /\ outbox' = Send(outbox, c, Reply)
        /\ UNCHANGED <<pc, id, closed, reg, route, peers>>

\* "query", and every refused message (rate limit, malformed, oversized, not
\* registered, other identity, recipient missing): one answer, nothing else.
Answer(c) ==
    /\ pc[c] = "reading"
    /\ outbox' = Send(outbox, c, Reply)
    /\ UNCHANGED <<conns, peers, tracker>>

\* Mutant of Forward: a missing recipient is not noticed.
ForwardUnchecked(c, i) ==
    /\ pc[c] = "reading"
    /\ id[c] # NoId
    /\ route' = [route EXCEPT ![c] = [conn |-> peers[i], to |-> i]]
    /\ pc' = [pc EXCEPT ![c] = "forwarding"]
    /\ UNCHANGED <<id, address, closed, reg, outbox, peers, tracker>>

\* "offer", "answer", "ice-candidate" to i: look the recipient up under the
\* read lock ...
Forward(c, i) ==
    /\ pc[c] = "reading"
    /\ id[c] # NoId
    /\ peers[i] # NoConn
    /\ route' = [route EXCEPT ![c] = [conn |-> peers[i], to |-> i]]
    /\ pc' = [pc EXCEPT ![c] = "forwarding"]
    /\ UNCHANGED <<id, address, closed, reg, outbox, peers, tracker>>

\* ... and queue the envelope, stamped with the sender's ID, after the unlock.
\* If it is dropped the sender gets an error.
ForwardSend(c) ==
    LET d == route[c].conn
        dropped == ~Accepts(d)
    IN  /\ pc[c] = "forwarding"
        /\ outbox' = IF dropped THEN Send(outbox, c, Reply)
                                ELSE Send(outbox, d, Envelope(id[c], route[c].to))
        /\ route' = [route EXCEPT ![c] = NoMsg]
        /\ pc' = [pc EXCEPT ![c] = "reading"]
        /\ UNCHANGED <<id, address, closed, reg, peers, tracker>>

-----------------------------------------------------------------------------
(* The end of a connection.                                                *)

\* Mutant of ReadError: the map keeps the connection.
ReadErrorKeepsRoute(c) ==
    /\ pc[c] = "reading"
    /\ pc' = [pc EXCEPT ![c] = IF id[c] = NoId THEN "closing" ELSE "purging"]
    /\ UNCHANGED <<id, address, closed, reg, route, outbox, peers, tracker>>

\* Mutant of ReadError: the ID leaves the map, whoever holds it.
ReadErrorUnroutesId(c) ==
    /\ pc[c] = "reading"
    /\ peers' = [i \in PeerId |-> IF i = id[c] THEN NoConn ELSE peers[i]]
    /\ pc' = [pc EXCEPT ![c] = IF id[c] = NoId THEN "closing" ELSE "purging"]
    /\ UNCHANGED <<id, address, closed, reg, route, outbox, tracker>>

\* Mutant of ReadError: a connection that was closed before is not unregistered.
ReadErrorSkipsClosed(c) ==
    /\ pc[c] = "reading"
    /\ peers' = [i \in PeerId |-> IF peers[i] = c /\ ~closed[c] THEN NoConn ELSE peers[i]]
    /\ pc' = [pc EXCEPT ![c] = IF id[c] = NoId THEN "closing" ELSE "purging"]
    /\ UNCHANGED <<id, address, closed, reg, route, outbox, tracker>>

\* ReadMessage fails: the client left, the pong was late, or the hub closed
\* the socket.  UnregisterPeer leaves the map only if the entry is its own.
ReadError(c) ==
    /\ pc[c] = "reading"
    /\ peers' = [i \in PeerId |-> IF i = id[c] /\ peers[i] = c THEN NoConn ELSE peers[i]]
    /\ pc' = [pc EXCEPT ![c] = IF id[c] = NoId THEN "closing" ELSE "purging"]
    /\ UNCHANGED <<id, address, closed, reg, route, outbox, tracker>>

\* Mutant of UnregisterPurge: nothing is purged when another connection holds
\* the ID by now.
UnregisterPurgeIfUnrouted(c) ==
    /\ pc[c] = "purging"
    /\ IF peers[id[c]] = NoConn THEN RemovePeer(id[c]) ELSE UNCHANGED tracker
    /\ pc' = [pc EXCEPT ![c] = "closing"]
    /\ UNCHANGED <<id, address, closed, reg, route, outbox, peers>>

\* UnregisterPeer ends with RemovePeer, whoever holds the ID by now.
UnregisterPurge(c) ==
    /\ pc[c] = "purging"
    /\ RemovePeer(id[c])
    /\ pc' = [pc EXCEPT ![c] = "closing"]
    /\ UNCHANGED <<id, address, closed, reg, route, outbox, peers>>

\* The deferred Peer.Close of ReadPump.
CloseConn(c) ==
    /\ pc[c] = "closing"
    /\ closed' = [closed EXCEPT ![c] = TRUE]
    /\ outbox' = Discard(outbox, {c})
    /\ pc' = [pc EXCEPT ![c] = "done"]
    /\ UNCHANGED <<id, address, reg, route, peers, tracker>>

\* WritePump writes one queued message to the socket.
Write(c) ==
    /\ ~closed[c]
    /\ outbox[c] # <<>>
    /\ outbox' = [outbox EXCEPT ![c] = Tail(@)]
    /\ UNCHANGED <<conns, peers, tracker>>

\* A write or a ping fails: WritePump closes the connection and ends.
WriteError(c) ==
    /\ pc[c] # "off"
    /\ ~closed[c]
    /\ closed' = [closed EXCEPT ![c] = TRUE]
    /\ outbox' = Discard(outbox, {c})
    /\ UNCHANGED <<pc, id, address, reg, route, peers, tracker>>

-----------------------------------------------------------------------------

ReadPump(c) ==
    \/ \E i \in PeerId, a \in Address \cup {NoAddress} :
          RegisterNew(c, i, a) \/ RegisterPurge(c, i, a)
    \/ RegisterInstall(c)
    \/ Heartbeat(c)
    \/ \E m \in Model, a \in Address \cup {NoAddress} : Announce(c, m, a)
    \/ Answer(c)
    \/ \E i \in PeerId : Forward(c, i)
    \/ ForwardSend(c)
    \/ ReadError(c)
    \/ UnregisterPurge(c)
    \/ CloseConn(c)

Next ==
    \/ \E c \in Conn :
          \/ Accept(c)
          \/ \E i \in PeerId, a \in Address : AcceptWithToken(c, i, a)
          \/ ReadPump(c)
          \/ Write(c)
          \/ WriteError(c)
    \/ EvictStale
    \/ Tick

(***************************************************************************)
(* A started handler runs to its end (the Go scheduler), the clock and the *)
(* eviction ticker run on.  The bytes a closed socket had buffered are     *)
(* finite, so its reader reaches the error however many it handles first:  *)
(* strong fairness.  Nobody has to send a message or lose a connection.    *)
(***************************************************************************)
Fairness ==
    /\ \A c \in Conn :
          /\ WF_vars(RegisterInstall(c))
          /\ WF_vars(ForwardSend(c))
          /\ WF_vars(UnregisterPurge(c))
          /\ WF_vars(CloseConn(c))
          /\ SF_vars(closed[c] /\ ReadError(c))
    /\ WF_vars(Tick)
    /\ WF_vars(EvictStale)

Spec == Init /\ [][Next]_vars
FairSpec == Spec /\ Fairness

-----------------------------------------------------------------------------
(* Safety.                                                                 *)

\* What Hub.peers hands to a relay is a connection that registered that very
\* ID and whose ReadPump has not begun to unregister.
RoutesToRegistered ==
    \A i \in PeerId : peers[i] # NoConn =>
        id[peers[i]] = i /\ pc[peers[i]] \in Serving

\* A connection that registered, is open and still served is the one relays
\* reach: the late unregister of a kicked connection does not unroute it.
\* So at most one live connection holds an ID.
LiveIsRouted ==
    \A c \in Conn :
        pc[c] \in Serving /\ id[c] # NoId /\ ~closed[c] => peers[id[c]] = c

\* No announcement outlives the connection that made it, in whatever order
\* kicks, late announces and unregisters come: a listed entry was written by a
\* connection of that ID that has yet to finish its unregister.
EntryHasOwner ==
    \A e \in Model \X PeerId : Listed(e) =>
        /\ owner[e] # NoConn
        /\ id[owner[e]] = e[2]
        /\ pc[owner[e]] \in Serving \cup {"purging"}

\* After a wallet switch no entry of the connection shows the old wallet: an
\* entry carries the address its connection has now, or none if it was
\* announced before the connection had any.
EntryShowsCurrentWallet ==
    \A e \in Model \X PeerId : Listed(e) =>
        models[e].address \in {address[owner[e]], NoAddress}

\* An envelope waits only in the queue of a connection that registered under
\* the ID it is addressed to, and the queue never exceeds its capacity.
EnvelopeAtAddressee ==
    \A c \in Conn :
        /\ Len(outbox[c]) <= SendBuffer
        /\ \A k \in 1..Len(outbox[c]) :
              outbox[c][k].kind = "relay" => outbox[c][k].to = id[c]

(***************************************************************************)
(* Action properties.                                                      *)
(***************************************************************************)

\* What happens to one peer's connections never takes another peer's entry off
\* the list: an entry vanishes by age, or because a connection with its own ID
\* re-registered or ended.
VanishesByOwnIdOrAge ==
    [][\A e \in Model \X PeerId :
          Listed(e) /\ ~Listed(e)' =>
             \/ Stale(e)
             \/ \E c \in Conn : id[c] = e[2] /\ pc'[c] # pc[c]]_vars

\* What the frontend expects when it re-announces after a reconnection: the
\* entry that the live, routed connection wrote stays until it ages out, that
\* connection ends, or a register message for its ID is handled.
ReannouncedStays ==
    [][\A e \in Model \X PeerId :
          LET c == owner[e]
          IN  Listed(e) /\ ~Stale(e) /\ peers[e[2]] = c /\ ~closed[c] /\ ~Listed(e)'
              => \/ pc'[c] # pc[c]
                 \/ \E d \in Conn : pc[d] = "reading" /\ pc'[d] = "installing"]_vars

(***************************************************************************)
(* Liveness.                                                               *)
(***************************************************************************)

\* A connection that was closed, by a kick or by a failed write, is eventually
\* out of the routing map, unregistered and done.
ClosedIsCleanedUp ==
    \A c \in Conn :
        closed[c] ~> /\ pc[c] \in {"off", "done"}
                     /\ \A i \in PeerId : peers[i] # c

\* No seeder stays listed for ever on an old heartbeat: again and again each
\* entry is absent or has just been refreshed.
NoEternalStale ==
    \A e \in Model \X PeerId : []<>(~Listed(e) \/ models[e].age = 0)

=============================================================================
