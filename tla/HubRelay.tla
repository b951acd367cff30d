------------------------------ MODULE HubRelay ------------------------------
(***************************************************************************)
(* Signaling messages between peers at different replicas of the hub: a    *)
(* message for a peer that is not at hand is published through Redis       *)
(* (src/signaling/internal/ws/hub.go, src/signaling/internal/signal).      *)
(*                                                                         *)
(* SignalingHub has the handlers of one replica in detail; here a socket   *)
(* registers, or is gone, in one step.  A peer that reconnects may reach   *)
(* another replica while the first has not noticed, so one ID may have two *)
(* sockets.  A replica's subscription delivers in order, and loses what is *)
(* published while it is broken.                                           *)
(***************************************************************************)
EXTENDS Common, Sequences, FiniteSets

CONSTANTS Peer, NoSocket,
          MaxSockets, MaxMessages   \* bounds

VARIABLES
    shared,     \* the replicas have Redis
    peers,      \* Hub.peers of each replica
    owner,      \* the ID each socket registered
    pubsub,     \* what a replica's subscription still has to deliver
    box,        \* what each socket was sent
    sent,       \* history: addressee and outcome of each message
    moved       \* history: messages whose addressee moved, or a subscription
                \* broke, while they were on their way

relayVars == <<shared, peers, owner, pubsub, box, sent, moved>>

Message == 1..MaxMessages

ASSUME RelayAssumption ==
    /\ MaxSockets \in Nat
    /\ NoSocket \notin 1..MaxSockets
    /\ IsFiniteSet(Replica)

RelayInit ==
    /\ shared \in BOOLEAN
    /\ peers = [r \in Replica |-> [p \in Peer |-> NoSocket]]
    /\ owner = <<>>
    /\ pubsub = [r \in Replica |-> <<>>]
    /\ box = <<>>
    /\ sent = <<>>
    /\ moved = {}

OnTheWay == {m \in DOMAIN sent : \E r \in Replica : \E k \in DOMAIN pubsub[r] : pubsub[r][k] = m}
To(p) == {m \in OnTheWay : sent[m].to = p}

\* A socket registers at r; an earlier one of the ID at r loses its place.
Join(r, p) ==
    /\ Len(owner) < MaxSockets
    /\ owner' = Append(owner, p)
    /\ box' = Append(box, <<>>)
    /\ peers' = [peers EXCEPT ![r][p] = Len(owner) + 1]
    /\ moved' = moved \cup To(p)
    /\ UNCHANGED <<shared, pubsub, sent>>

\* UnregisterPeer.
Leave(r, p) ==
    /\ peers[r][p] # NoSocket
    /\ peers' = [peers EXCEPT ![r][p] = NoSocket]
    /\ moved' = moved \cup To(p)
    /\ UNCHANGED <<shared, owner, pubsub, box, sent>>

Into(s, m) == [box EXCEPT ![s] = Append(@, m)]

\* Mutant of Forward: with Redis, what was sent to the local socket is published
\* as well.
ForwardTwice(r, to) ==
    /\ Len(sent) < MaxMessages
    /\ LET m == Len(sent) + 1
           s == peers[r][to]
           Outcome(o) == sent' = Append(sent, [to |-> to, at |-> r, outcome |-> o,
                               holders |-> {q \in Replica : peers[q][to] # NoSocket}]) IN
       /\ Outcome("sent")
       /\ box' = IF s = NoSocket THEN box ELSE Into(s, m)
       /\ pubsub' = IF shared THEN [q \in Replica |-> Append(pubsub[q], m)] ELSE pubsub
    /\ UNCHANGED <<shared, peers, owner, moved>>

\* Relay.Forward and SendToPeer, for a peer at r: the local socket, whose
\* buffer may be full; else Redis, which may fail; else an error.
Forward(r, to) ==
    /\ Len(sent) < MaxMessages
    /\ LET m == Len(sent) + 1
           s == peers[r][to]
           Outcome(o) == sent' = Append(sent, [to |-> to, at |-> r, outcome |-> o,
                               holders |-> {q \in Replica : peers[q][to] # NoSocket}]) IN
       \/ /\ s # NoSocket
          /\ \/ Outcome("sent") /\ box' = Into(s, m)
             \/ Outcome("full") /\ UNCHANGED box
          /\ UNCHANGED pubsub
       \/ /\ s = NoSocket /\ shared
          /\ \/ Outcome("published") /\ pubsub' = [q \in Replica |-> Append(pubsub[q], m)]
             \/ Outcome("failed") /\ UNCHANGED pubsub
          /\ UNCHANGED box
       \/ /\ s = NoSocket /\ ~shared
          /\ Outcome("not_found")
          /\ UNCHANGED <<box, pubsub>>
    /\ UNCHANGED <<shared, peers, owner, moved>>

\* listenRedisRelay.
Deliver(r) ==
    /\ pubsub[r] # <<>>
    /\ pubsub' = [pubsub EXCEPT ![r] = Tail(@)]
    /\ LET m == Head(pubsub[r])
           s == peers[r][sent[m].to] IN
       IF s = NoSocket THEN UNCHANGED <<box, moved>>
       ELSE \/ box' = Into(s, m) /\ UNCHANGED moved
            \/ moved' = moved \cup {m} /\ UNCHANGED box   \* its buffer is full
    /\ UNCHANGED <<shared, peers, owner, sent>>

\* The connection to Redis drops; go-redis subscribes again.
Resubscribe(r) ==
    /\ pubsub[r] # <<>>
    /\ pubsub' = [pubsub EXCEPT ![r] = <<>>]
    /\ moved' = moved \cup {pubsub[r][k] : k \in DOMAIN pubsub[r]}
    /\ UNCHANGED <<shared, peers, owner, box, sent>>

RelayNext ==
    \E r \in Replica :
        \/ \E p \in Peer : Join(r, p) \/ Leave(r, p) \/ Forward(r, p)
        \/ Deliver(r) \/ Resubscribe(r)

RelaySpec == now = 0 /\ RelayInit /\ [][RelayNext]_relayVars

-----------------------------------------------------------------------------

Boxes(m) == {s \in DOMAIN box : \E k \in DOMAIN box[s] : box[s][k] = m}

\* Wherever the peers are and however they move: a message reaches only sockets
\* registered under its addressee's ID, no socket twice, and each socket in the
\* order of sending at one replica (one that was published before the peer came
\* to the sender's replica may be overtaken by one sent directly).  If the
\* addressee was at exactly one replica and stayed there, and nothing broke, the
\* message arrives there; and "peer not found" is answered only where the peer
\* is not at hand and there is no Redis to ask (SendToPeer, listenRedisRelay).
RelayedToAddressee ==
    /\ \A s \in DOMAIN box : \A k \in DOMAIN box[s] :
          /\ sent[box[s][k]].to = owner[s]
          /\ \A j \in 1..(k - 1) :
                /\ box[s][j] # box[s][k]
                /\ sent[box[s][j]].at = sent[box[s][k]].at /\ box[s][k] \notin moved
                      => box[s][j] < box[s][k]
    /\ \A m \in DOMAIN sent :
          LET f == sent[m] IN
          /\ f.outcome = "published" /\ Cardinality(f.holders) = 1
                /\ m \notin moved /\ m \notin OnTheWay => Cardinality(Boxes(m)) = 1
          /\ f.outcome = "not_found" => f.at \notin f.holders /\ ~shared
=============================================================================
