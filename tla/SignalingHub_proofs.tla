------------------------ MODULE SignalingHub_proofs ------------------------
(***************************************************************************)
(* Proofs about SignalingHub, for any sets of connections, peer IDs,       *)
(* addresses and models and any buffer size.                               *)
(*                                                                         *)
(* The safety properties are proved together: each needs the others, and   *)
(* HandlerInv, which says what a handler that stands between two locks     *)
(* knows.                                                                  *)
(***************************************************************************)
EXTENDS SignalingHub, TLAPS

\* What holds of a connection by where its ReadPump stands: nothing happened
\* before it was accepted; a re-registration keeps the ID and finds none of its
\* old entries; a forward has a recipient registered under the addressed ID.
HandlerInv ==
    \A c \in Conn :
        /\ pc[c] = "off" => id[c] = NoId /\ ~closed[c] /\ outbox[c] = <<>>
        /\ pc[c] = "installing" =>
              /\ reg[c] \in Register
              /\ reg[c].peerId = id[c]
              /\ \A e \in Model \X PeerId : owner[e] # c
        /\ pc[c] = "forwarding" =>
              /\ id[c] \in PeerId
              /\ route[c] \in Route
              /\ id[route[c].conn] = route[c].to
        /\ pc[c] = "purging" => id[c] \in PeerId

\* The owner of an entry is forgotten with the entry.
OwnerOfEntry == \A e \in Model \X PeerId : ~Listed(e) => owner[e] = NoConn

HubInv ==
    /\ TypeOK
    /\ HandlerInv
    /\ OwnerOfEntry
    /\ RoutesToRegistered
    /\ LiveIsRouted
    /\ EntryHasOwner
    /\ EntryShowsCurrentWallet
    /\ EnvelopeAtAddressee

-----------------------------------------------------------------------------
(* Peer.Send and Peer.Close.                                               *)

\* A send keeps the queues well typed.
LEMMA SendType ==
    ASSUME TypeOK, NEW c \in Conn, NEW m \in Message
    PROVE  Send(outbox, c, m) \in [Conn -> Seq(Message)]
BY DEF Send, TypeOK

\* A send touches one queue only, and appends at most one message to it.
LEMMA SendEffect ==
    ASSUME TypeOK, NEW c \in Conn, NEW m \in Message, NEW d \in Conn,
           Send(outbox, c, m)[d] # outbox[d]
    PROVE  /\ d = c
           /\ Accepts(c)
           /\ Send(outbox, c, m)[d] = Append(outbox[c], m)
BY DEF Send, TypeOK

\* The messages there are.
LEMMA Messages ==
    /\ Reply \in Message
    /\ Reply.kind # "relay"
    /\ \A i, j \in PeerId : /\ Envelope(i, j) \in Message
                            /\ Envelope(i, j).to = j
BY DEF Reply, Envelope, Message

\* A send of a reply, or of an envelope to a connection registered under the
\* addressed ID, keeps every envelope at its addressee.
LEMMA SendKeepsAddressee ==
    ASSUME TypeOK, EnvelopeAtAddressee, HubAssumption,
           NEW c \in Conn, NEW m \in Message,
           m.kind = "relay" => m.to = id[c],
           NEW d \in Conn
    PROVE  /\ Len(Send(outbox, c, m)[d]) <= SendBuffer
           /\ \A k \in 1..Len(Send(outbox, c, m)[d]) :
                 Send(outbox, c, m)[d][k].kind = "relay"
                    => Send(outbox, c, m)[d][k].to = id[d]
<1>1. CASE Send(outbox, c, m)[d] = outbox[d]
  BY <1>1 DEF EnvelopeAtAddressee
<1>2. CASE Send(outbox, c, m)[d] # outbox[d]
  <2>1. /\ d = c
        /\ Len(outbox[c]) < SendBuffer
        /\ Send(outbox, c, m)[d] = Append(outbox[c], m)
    BY <1>2, SendEffect DEF Accepts
  <2>2. outbox[c] \in Seq(Message)
    BY DEF TypeOK
  <2>3. Len(Append(outbox[c], m)) = Len(outbox[c]) + 1
    BY <2>2
  <2>4. ASSUME NEW k \in 1..(Len(outbox[c]) + 1)
        PROVE  Append(outbox[c], m)[k].kind = "relay"
                  => Append(outbox[c], m)[k].to = id[c]
    <3>1. CASE k = Len(outbox[c]) + 1
      BY <2>2, <3>1
    <3>2. CASE k # Len(outbox[c]) + 1
      <4>1. k \in 1..Len(outbox[c]) /\ Append(outbox[c], m)[k] = outbox[c][k]
        BY <2>2, <3>2
      <4> QED BY <4>1 DEF EnvelopeAtAddressee
    <3> QED BY <3>1, <3>2
  <2>5. Len(outbox[c]) + 1 <= SendBuffer
    BY <2>1, <2>2 DEF HubAssumption
  <2> QED BY <2>1, <2>3, <2>4, <2>5
<1> QED BY <1>1, <1>2

-----------------------------------------------------------------------------
(* Registration.                                                           *)

\* A connection that has no identity yet owns no entry.
LEMMA UnregisteredOwnsNothing ==
    ASSUME HubAssumption, HubInv, NEW c \in Conn, id[c] = NoId
    PROVE  \A e \in Model \X PeerId : owner[e] # c
<1> SUFFICES ASSUME NEW e \in Model \X PeerId, owner[e] = c PROVE FALSE
  OBVIOUS
<1>1. Listed(e)
  BY DEF HubInv, OwnerOfEntry, HubAssumption
<1>2. id[c] = e[2] /\ e[2] \in PeerId
  BY <1>1 DEF HubInv, EntryHasOwner
<1> QED BY <1>2 DEF HubAssumption

\* Taking an identity and kicking its holder keeps the invariant, for a
\* connection that had no other identity and owns no entry.
LEMMA InstallKeepsInv ==
    ASSUME HubAssumption, HubInv,
           NEW c \in Conn, NEW i \in PeerId, NEW a \in Address \cup {NoAddress},
           Install(c, i, a),
           id[c] \in {NoId, i},
           \A e \in Model \X PeerId : owner[e] # c,
           pc[c] \in {"off", "reading", "installing"},
           pc' = [pc EXCEPT ![c] = "reading"],
           reg' \in [Conn -> Register \cup {NoMsg}],
           \A d \in Conn \ {c} : reg'[d] = reg[d],
           UNCHANGED <<route, tracker>>
    PROVE  HubInv'
<1> USE DEF HubInv
<1> DEFINE box == Send(outbox, c, Reply)
<1>1. /\ id' = [id EXCEPT ![c] = i]
      /\ address' = [address EXCEPT ![c] = a]
      /\ closed' = [d \in Conn |-> closed[d] \/ d \in Kicked(c, i)]
      /\ peers' = [peers EXCEPT ![i] = c]
      /\ outbox' = Discard(box, Kicked(c, i))
  BY DEF Install
<1>2. /\ route' = route /\ models' = models /\ owner' = owner
  BY DEF tracker
<1>3. box \in [Conn -> Seq(Message)]
  BY SendType, Messages
<1>4. TypeOK'
  <2>1. outbox' \in [Conn -> Seq(Message)]
    BY <1>1, <1>3 DEF Discard
  <2>2. closed' \in [Conn -> BOOLEAN]
    BY <1>1 DEF TypeOK
  <2> QED BY <1>1, <1>2, <2>1, <2>2 DEF TypeOK, Serving
<1>5. \A d \in Conn : d # c => id'[d] = id[d] /\ pc'[d] = pc[d] /\ address'[d] = address[d]
  BY <1>1 DEF TypeOK
<1>6. id'[c] = i /\ pc'[c] = "reading" /\ address'[c] = a
  BY <1>1 DEF TypeOK
<1>7. \A d \in Conn : id[d] \in PeerId => id'[d] = id[d]
  BY <1>5, <1>6 DEF HubAssumption
<1>8. HandlerInv'
  <2> SUFFICES ASSUME NEW d \in Conn
               PROVE  /\ pc'[d] = "off" => id'[d] = NoId /\ ~closed'[d] /\ outbox'[d] = <<>>
                      /\ pc'[d] = "installing" =>
                            /\ reg'[d] \in Register
                            /\ reg'[d].peerId = id'[d]
                            /\ \A e \in Model \X PeerId : owner'[e] # d
                      /\ pc'[d] = "forwarding" =>
                            /\ id'[d] \in PeerId
                            /\ route'[d] \in Route
                            /\ id'[route'[d].conn] = route'[d].to
                      /\ pc'[d] = "purging" => id'[d] \in PeerId
    BY DEF HandlerInv
  <2>1. CASE d = c
    BY <1>6, <2>1
  <2>2. CASE d # c
    <3>1. pc'[d] = pc[d] /\ id'[d] = id[d] /\ reg'[d] = reg[d] /\ route'[d] = route[d]
      BY <1>2, <1>5, <2>2
    <3>2. pc[d] = "off" => ~closed'[d] /\ outbox'[d] = <<>>
      <4> SUFFICES ASSUME pc[d] = "off" PROVE ~closed'[d] /\ outbox'[d] = <<>>
        OBVIOUS
      <4>1. d \notin Kicked(c, i)
        BY DEF Kicked, RoutesToRegistered, Serving
      <4>2. ~closed[d] /\ outbox[d] = <<>>
        BY DEF HandlerInv
      <4>3. box[d] = outbox[d]
        BY <2>2, Messages, SendEffect
      <4> QED BY <1>1, <4>1, <4>2, <4>3 DEF Discard
    <3>3. pc[d] = "forwarding" => id'[route[d].conn] = route[d].to
      BY <1>7 DEF HandlerInv, Route
    <3> QED BY <1>2, <3>1, <3>2, <3>3 DEF HandlerInv
  <2> QED BY <2>1, <2>2
<1>9. OwnerOfEntry'
  BY <1>2 DEF OwnerOfEntry, Listed
<1>10. RoutesToRegistered'
  <2> SUFFICES ASSUME NEW j \in PeerId, peers'[j] # NoConn
               PROVE  id'[peers'[j]] = j /\ pc'[peers'[j]] \in Serving
    BY DEF RoutesToRegistered
  <2>1. CASE j = i
    BY <1>1, <1>6, <2>1 DEF TypeOK, Serving
  <2>2. CASE j # i
    <3>1. peers'[j] = peers[j] /\ peers[j] \in Conn
      BY <1>1, <2>2 DEF TypeOK
    <3>2. id[peers[j]] = j /\ pc[peers[j]] \in Serving
      BY <3>1 DEF RoutesToRegistered
    <3>3. peers[j] # c
      BY <2>2, <3>2 DEF HubAssumption
    <3> QED BY <1>5, <3>1, <3>2, <3>3
  <2> QED BY <2>1, <2>2
<1>11. LiveIsRouted'
  <2> SUFFICES ASSUME NEW d \in Conn,
                      pc'[d] \in Serving, id'[d] # NoId, ~closed'[d]
               PROVE  peers'[id'[d]] = d
    BY DEF LiveIsRouted
  <2>1. CASE d = c
    BY <1>1, <1>6, <2>1 DEF TypeOK
  <2>2. CASE d # c
    <3>1. pc[d] \in Serving /\ id[d] # NoId /\ id'[d] = id[d]
      BY <1>5, <2>2
    <3>2. ~closed[d] /\ d \notin Kicked(c, i)
      BY <1>1
    <3>3. peers[id[d]] = d
      BY <3>1, <3>2 DEF LiveIsRouted
    <3>4. id[d] # i
      BY <2>2, <3>2, <3>3 DEF Kicked, HubAssumption
    <3>5. id[d] \in PeerId
      BY <3>1 DEF TypeOK
    <3> QED BY <1>1, <3>1, <3>3, <3>4, <3>5 DEF TypeOK
  <2> QED BY <2>1, <2>2
<1>12. EntryHasOwner'
  <2> SUFFICES ASSUME NEW e \in Model \X PeerId, Listed(e)
               PROVE  /\ owner[e] # NoConn
                      /\ id'[owner[e]] = e[2]
                      /\ pc'[owner[e]] \in Serving \cup {"purging"}
    BY <1>2 DEF EntryHasOwner, Listed
  <2>1. /\ owner[e] # NoConn
        /\ id[owner[e]] = e[2]
        /\ pc[owner[e]] \in Serving \cup {"purging"}
    BY DEF EntryHasOwner
  <2>2. owner[e] \in Conn /\ owner[e] # c
    BY <2>1 DEF TypeOK
  <2> QED BY <1>5, <2>1, <2>2
<1>13. EntryShowsCurrentWallet'
  <2> SUFFICES ASSUME NEW e \in Model \X PeerId, Listed(e)
               PROVE  models[e].address \in {address'[owner[e]], NoAddress}
    BY <1>2 DEF EntryShowsCurrentWallet, Listed
  <2>1. owner[e] \in Conn /\ owner[e] # c
    BY DEF TypeOK, EntryHasOwner
  <2> QED BY <1>5, <2>1 DEF EntryShowsCurrentWallet
<1>14. EnvelopeAtAddressee'
  <2> SUFFICES ASSUME NEW d \in Conn
               PROVE  /\ Len(outbox'[d]) <= SendBuffer
                      /\ \A k \in 1..Len(outbox'[d]) :
                            outbox'[d][k].kind = "relay" => outbox'[d][k].to = id'[d]
    BY DEF EnvelopeAtAddressee
  <2>1. CASE d \in Kicked(c, i)
    <3>1. outbox'[d] = <<>>
      BY <1>1, <2>1 DEF Discard
    <3> QED BY <3>1 DEF HubAssumption
  <2>2. CASE d \notin Kicked(c, i)
    <3>1. outbox'[d] = box[d]
      BY <1>1, <2>2 DEF Discard
    <3>2. /\ Len(box[d]) <= SendBuffer
          /\ \A k \in 1..Len(box[d]) : box[d][k].kind = "relay" => box[d][k].to = id[d]
      BY Messages, SendKeepsAddressee
    <3>3. \A k \in 1..Len(box[d]) : box[d][k].kind = "relay" => box[d][k].to \in PeerId
      <4>1. \A k \in 1..Len(box[d]) : box[d][k] \in Message
        BY <1>3
      <4> QED BY <4>1 DEF Message
    <3>4. \A k \in 1..Len(box[d]) : box[d][k].kind = "relay" => box[d][k].to = id'[d]
      BY <1>7, <3>2, <3>3
    <3> QED BY <3>1, <3>2, <3>4
  <2> QED BY <2>1, <2>2
<1> QED BY <1>4, <1>8, <1>9, <1>10, <1>11, <1>12, <1>13, <1>14

-----------------------------------------------------------------------------
(* The other steps, one lemma each, one step per conjunct.                 *)

\* What every sending handler relies on: the queue stays typed, a connection
\* not yet accepted gets nothing, envelopes stay at their addressees.
LEMMA SendStep ==
    ASSUME HubAssumption, HubInv, NEW c \in Conn, NEW m \in Message,
           pc[c] # "off", m.kind = "relay" => m.to = id[c],
           outbox' = Send(outbox, c, m), id' = id
    PROVE  /\ outbox' \in [Conn -> Seq(Message)]
           /\ \A d \in Conn : pc[d] = "off" => outbox'[d] = outbox[d]
           /\ EnvelopeAtAddressee'
<1>1. outbox' \in [Conn -> Seq(Message)]
  BY SendType DEF HubInv
<1>2. \A d \in Conn : pc[d] = "off" => outbox'[d] = outbox[d]
  BY SendEffect DEF HubInv
<1>3. EnvelopeAtAddressee'
  <2> SUFFICES ASSUME NEW d \in Conn
               PROVE  /\ Len(outbox'[d]) <= SendBuffer
                      /\ \A k \in 1..Len(outbox'[d]) :
                            outbox'[d][k].kind = "relay" => outbox'[d][k].to = id[d]
    BY DEF EnvelopeAtAddressee
  <2> QED BY SendKeepsAddressee DEF HubInv
<1> QED BY <1>1, <1>2, <1>3

\* ServeWS without a token keeps the invariant.
LEMMA AcceptKeepsInv ==
    ASSUME HubAssumption, HubInv,
           NEW c \in Conn, Accept(c)
    PROVE  HubInv'
<1> USE DEF HubInv, Accept, conns, tracker, Serving, Listed
<1>1. TypeOK'
  BY DEF HubAssumption, TypeOK
<1>2. HandlerInv'
  BY DEF HubAssumption, TypeOK, HandlerInv, RoutesToRegistered
<1>3. OwnerOfEntry'
  BY DEF HubAssumption, TypeOK, OwnerOfEntry
<1>4. RoutesToRegistered'
  BY DEF HubAssumption, TypeOK, RoutesToRegistered
<1>5. LiveIsRouted'
  BY DEF HubAssumption, TypeOK, LiveIsRouted, HandlerInv
<1>6. EntryHasOwner'
  BY DEF HubAssumption, TypeOK, EntryHasOwner
<1>7. EntryShowsCurrentWallet'
  BY DEF HubAssumption, TypeOK, EntryShowsCurrentWallet
<1>8. EnvelopeAtAddressee'
  BY DEF HubAssumption, TypeOK, EnvelopeAtAddressee
<1> QED BY <1>1, <1>2, <1>3, <1>4, <1>5, <1>6, <1>7, <1>8

\* The first half of a re-registration keeps the invariant.
LEMMA RegisterPurgeKeepsInv ==
    ASSUME HubAssumption, HubInv,
           NEW c \in Conn, NEW i \in PeerId, NEW a \in Address \cup {NoAddress}, RegisterPurge(c, i, a)
    PROVE  HubInv'
<1> USE DEF HubInv, RegisterPurge, conns, tracker, Serving, Listed, RemovePeer
<1>1. TypeOK'
  BY DEF TypeOK, Register
<1>2. HandlerInv'
  <2>1. \A e \in Model \X PeerId : owner'[e] # c
    <3> SUFFICES ASSUME NEW e \in Model \X PeerId, owner'[e] = c PROVE FALSE
      OBVIOUS
    <3>1. e[2] # i /\ owner[e] = c
      BY DEF HubAssumption
    <3>2. Listed(e)
      BY <3>1 DEF OwnerOfEntry, HubAssumption
    <3> QED BY <3>1, <3>2 DEF EntryHasOwner
  <2>2. reg'[c] \in Register /\ reg'[c].peerId = id[c]
    BY DEF TypeOK, Register
  <2>3. \A d \in Conn : pc[d] = "installing"
                        => \A e \in Model \X PeerId : owner'[e] # d
    BY DEF HandlerInv, HubAssumption
  <2> QED BY <2>1, <2>2, <2>3 DEF HandlerInv, TypeOK
<1>3. OwnerOfEntry'
  BY DEF HubAssumption, TypeOK, OwnerOfEntry
<1>4. RoutesToRegistered'
  BY DEF HubAssumption, TypeOK, RoutesToRegistered
<1>5. LiveIsRouted'
  BY DEF HubAssumption, TypeOK, LiveIsRouted
<1>6. EntryHasOwner'
  BY DEF HubAssumption, TypeOK, EntryHasOwner
<1>7. EntryShowsCurrentWallet'
  BY DEF HubAssumption, TypeOK, EntryShowsCurrentWallet
<1>8. EnvelopeAtAddressee'
  BY DEF HubAssumption, TypeOK, EnvelopeAtAddressee
<1> QED BY <1>1, <1>2, <1>3, <1>4, <1>5, <1>6, <1>7, <1>8

\* A heartbeat keeps the invariant.
LEMMA HeartbeatKeepsInv ==
    ASSUME HubAssumption, HubInv,
           NEW c \in Conn, Heartbeat(c)
    PROVE  HubInv'
<1> USE DEF HubInv, Heartbeat, conns, tracker, Serving, Listed
<1>0. ASSUME NEW e \in Model \X PeerId, Listed(e)
      PROVE  [models[e] EXCEPT !.age = 0] \in SeederInfo
  <2>1. models[e] \in SeederInfo
    BY <1>0 DEF TypeOK
  <2>2. 0 \in 0..(MaxAge + 1)
    BY DEF HubAssumption
  <2> QED BY <2>1, <2>2 DEF SeederInfo
<1>1. TypeOK'
  BY <1>0 DEF TypeOK
<1>2. HandlerInv'
  BY DEF HubAssumption, TypeOK, HandlerInv, RoutesToRegistered
<1>3. OwnerOfEntry'
  BY <1>0 DEF OwnerOfEntry, HubAssumption
<1>4. RoutesToRegistered'
  BY DEF HubAssumption, TypeOK, RoutesToRegistered
<1>5. LiveIsRouted'
  BY DEF HubAssumption, TypeOK, LiveIsRouted
<1>6. EntryHasOwner'
  BY DEF HubAssumption, TypeOK, EntryHasOwner
<1>7. EntryShowsCurrentWallet'
  BY DEF HubAssumption, TypeOK, EntryShowsCurrentWallet
<1>8. EnvelopeAtAddressee'
  BY DEF HubAssumption, TypeOK, EnvelopeAtAddressee
<1> QED BY <1>1, <1>2, <1>3, <1>4, <1>5, <1>6, <1>7, <1>8

\* An answer keeps the invariant.
LEMMA AnswerKeepsInv ==
    ASSUME HubAssumption, HubInv,
           NEW c \in Conn, Answer(c)
    PROVE  HubInv'
<1> USE DEF HubInv, Answer, conns, tracker, Serving, Listed
<1>0. /\ outbox' \in [Conn -> Seq(Message)]
      /\ \A d \in Conn : pc[d] = "off" => outbox'[d] = outbox[d]
      /\ EnvelopeAtAddressee'
  BY Messages, SendStep
<1>1. TypeOK'
  BY <1>0 DEF TypeOK
<1>2. HandlerInv'
  BY <1>0 DEF HandlerInv, TypeOK
<1>3. OwnerOfEntry'
  BY DEF HubAssumption, TypeOK, OwnerOfEntry
<1>4. RoutesToRegistered'
  BY DEF HubAssumption, TypeOK, RoutesToRegistered
<1>5. LiveIsRouted'
  BY DEF HubAssumption, TypeOK, LiveIsRouted
<1>6. EntryHasOwner'
  BY DEF HubAssumption, TypeOK, EntryHasOwner
<1>7. EntryShowsCurrentWallet'
  BY DEF HubAssumption, TypeOK, EntryShowsCurrentWallet
<1>8. EnvelopeAtAddressee'
  BY <1>0
<1> QED BY <1>1, <1>2, <1>3, <1>4, <1>5, <1>6, <1>7, <1>8

\* An announce keeps the invariant.
LEMMA AnnounceKeepsInv ==
    ASSUME HubAssumption, HubInv,
           NEW c \in Conn, NEW m \in Model, NEW a \in Address \cup {NoAddress}, Announce(c, m, a)
    PROVE  HubInv'
<1> USE DEF HubInv, Announce, conns, tracker, Serving, Listed
<1>0. /\ outbox' \in [Conn -> Seq(Message)]
      /\ \A d \in Conn : pc[d] = "off" => outbox'[d] = outbox[d]
      /\ EnvelopeAtAddressee'
  BY Messages, SendStep
<1>01. [address |-> IF address[c] # NoAddress THEN address[c] ELSE a, age |-> 0] \in SeederInfo
  BY DEF TypeOK, SeederInfo, HubAssumption
<1>1. TypeOK'
  BY <1>0, <1>01 DEF TypeOK
<1>2. HandlerInv'
  <2>1. \A d \in Conn : pc[d] = "installing"
                        => \A e \in Model \X PeerId : owner'[e] # d
    BY DEF HandlerInv, TypeOK
  <2> QED BY <1>0, <2>1 DEF HandlerInv, TypeOK
<1>3. OwnerOfEntry'
  BY <1>01 DEF OwnerOfEntry, TypeOK, HubAssumption
<1>4. RoutesToRegistered'
  BY DEF HubAssumption, TypeOK, RoutesToRegistered
<1>5. LiveIsRouted'
  BY DEF HubAssumption, TypeOK, LiveIsRouted
<1>6. EntryHasOwner'
  BY DEF HubAssumption, TypeOK, EntryHasOwner
<1>7. EntryShowsCurrentWallet'
  BY DEF HubAssumption, TypeOK, EntryShowsCurrentWallet
<1>8. EnvelopeAtAddressee'
  BY <1>0
<1> QED BY <1>1, <1>2, <1>3, <1>4, <1>5, <1>6, <1>7, <1>8

\* Looking up a recipient keeps the invariant.
LEMMA ForwardKeepsInv ==
    ASSUME HubAssumption, HubInv,
           NEW c \in Conn, NEW i \in PeerId, Forward(c, i)
    PROVE  HubInv'
<1> USE DEF HubInv, Forward, conns, tracker, Serving, Listed, Route
<1>1. TypeOK'
  BY DEF HubAssumption, TypeOK
<1>2. HandlerInv'
  BY DEF HubAssumption, TypeOK, HandlerInv, RoutesToRegistered
<1>3. OwnerOfEntry'
  BY DEF HubAssumption, TypeOK, OwnerOfEntry
<1>4. RoutesToRegistered'
  BY DEF HubAssumption, TypeOK, RoutesToRegistered
<1>5. LiveIsRouted'
  BY DEF HubAssumption, TypeOK, LiveIsRouted
<1>6. EntryHasOwner'
  BY DEF HubAssumption, TypeOK, EntryHasOwner
<1>7. EntryShowsCurrentWallet'
  BY DEF HubAssumption, TypeOK, EntryShowsCurrentWallet
<1>8. EnvelopeAtAddressee'
  BY DEF HubAssumption, TypeOK, EnvelopeAtAddressee
<1> QED BY <1>1, <1>2, <1>3, <1>4, <1>5, <1>6, <1>7, <1>8

\* Queueing an envelope keeps the invariant.
LEMMA ForwardSendKeepsInv ==
    ASSUME HubAssumption, HubInv,
           NEW c \in Conn, ForwardSend(c)
    PROVE  HubInv'
<1> USE DEF HubInv, ForwardSend, conns, tracker, Serving, Listed
<1>0. /\ outbox' \in [Conn -> Seq(Message)]
      /\ \A d \in Conn : pc[d] = "off" => outbox'[d] = outbox[d]
      /\ EnvelopeAtAddressee'
  <2>1. /\ id[c] \in PeerId
        /\ route[c].conn \in Conn /\ route[c].to \in PeerId
        /\ id[route[c].conn] = route[c].to
    BY DEF HandlerInv, Route
  <2>2. pc[route[c].conn] # "off"
    BY <2>1 DEF HandlerInv, HubAssumption
  <2>3. CASE Accepts(route[c].conn)
    <3>1. outbox' = Send(outbox, route[c].conn, Envelope(id[c], route[c].to))
      BY <2>3
    <3>2. Envelope(id[c], route[c].to) \in Message
          /\ Envelope(id[c], route[c].to).to = id[route[c].conn]
      BY <2>1, Messages
    <3> QED BY <2>1, <2>2, <3>1, <3>2, SendStep
  <2>4. CASE ~Accepts(route[c].conn)
    BY <2>4, Messages, SendStep
  <2> QED BY <2>3, <2>4
<1>1. TypeOK'
  BY <1>0 DEF TypeOK
<1>2. HandlerInv'
  BY <1>0 DEF HandlerInv, TypeOK
<1>3. OwnerOfEntry'
  BY DEF HubAssumption, TypeOK, OwnerOfEntry
<1>4. RoutesToRegistered'
  BY DEF HubAssumption, TypeOK, RoutesToRegistered
<1>5. LiveIsRouted'
  BY DEF HubAssumption, TypeOK, LiveIsRouted
<1>6. EntryHasOwner'
  BY DEF HubAssumption, TypeOK, EntryHasOwner
<1>7. EntryShowsCurrentWallet'
  BY DEF HubAssumption, TypeOK, EntryShowsCurrentWallet
<1>8. EnvelopeAtAddressee'
  BY <1>0
<1> QED BY <1>1, <1>2, <1>3, <1>4, <1>5, <1>6, <1>7, <1>8

\* Leaving the routing map keeps the invariant.
LEMMA ReadErrorKeepsInv ==
    ASSUME HubAssumption, HubInv,
           NEW c \in Conn, ReadError(c)
    PROVE  HubInv'
<1> USE DEF HubInv, ReadError, conns, tracker, Serving, Listed
<1>1. TypeOK'
  BY DEF HubAssumption, TypeOK
<1>2. HandlerInv'
  BY DEF HubAssumption, TypeOK, HandlerInv, RoutesToRegistered
<1>3. OwnerOfEntry'
  BY DEF HubAssumption, TypeOK, OwnerOfEntry
<1>4. RoutesToRegistered'
  BY DEF HubAssumption, TypeOK, RoutesToRegistered
<1>5. LiveIsRouted'
  BY DEF HubAssumption, TypeOK, LiveIsRouted
<1>6. EntryHasOwner'
  BY DEF HubAssumption, TypeOK, EntryHasOwner
<1>7. EntryShowsCurrentWallet'
  BY DEF HubAssumption, TypeOK, EntryShowsCurrentWallet
<1>8. EnvelopeAtAddressee'
  BY DEF HubAssumption, TypeOK, EnvelopeAtAddressee
<1> QED BY <1>1, <1>2, <1>3, <1>4, <1>5, <1>6, <1>7, <1>8

\* The end of UnregisterPeer keeps the invariant.
LEMMA UnregisterPurgeKeepsInv ==
    ASSUME HubAssumption, HubInv,
           NEW c \in Conn, UnregisterPurge(c)
    PROVE  HubInv'
<1> USE DEF HubInv, UnregisterPurge, conns, tracker, Serving, Listed, RemovePeer
<1>1. TypeOK'
  BY DEF HubAssumption, TypeOK
<1>2. HandlerInv'
  BY DEF HubAssumption, TypeOK, HandlerInv, RoutesToRegistered
<1>3. OwnerOfEntry'
  BY DEF HubAssumption, TypeOK, OwnerOfEntry
<1>4. RoutesToRegistered'
  BY DEF HubAssumption, TypeOK, RoutesToRegistered
<1>5. LiveIsRouted'
  BY DEF HubAssumption, TypeOK, LiveIsRouted
<1>6. EntryHasOwner'
  BY DEF HubAssumption, TypeOK, EntryHasOwner
<1>7. EntryShowsCurrentWallet'
  BY DEF HubAssumption, TypeOK, EntryShowsCurrentWallet
<1>8. EnvelopeAtAddressee'
  BY DEF HubAssumption, TypeOK, EnvelopeAtAddressee
<1> QED BY <1>1, <1>2, <1>3, <1>4, <1>5, <1>6, <1>7, <1>8

\* The deferred Close keeps the invariant.
LEMMA CloseConnKeepsInv ==
    ASSUME HubAssumption, HubInv,
           NEW c \in Conn, CloseConn(c)
    PROVE  HubInv'
<1> USE DEF HubInv, CloseConn, conns, tracker, Serving, Listed, Discard
<1>1. TypeOK'
  BY DEF HubAssumption, TypeOK
<1>2. HandlerInv'
  BY DEF HubAssumption, TypeOK, HandlerInv, RoutesToRegistered
<1>3. OwnerOfEntry'
  BY DEF HubAssumption, TypeOK, OwnerOfEntry
<1>4. RoutesToRegistered'
  BY DEF HubAssumption, TypeOK, RoutesToRegistered
<1>5. LiveIsRouted'
  BY DEF HubAssumption, TypeOK, LiveIsRouted
<1>6. EntryHasOwner'
  BY DEF HubAssumption, TypeOK, EntryHasOwner
<1>7. EntryShowsCurrentWallet'
  BY DEF HubAssumption, TypeOK, EntryShowsCurrentWallet
<1>8. EnvelopeAtAddressee'
  BY DEF HubAssumption, TypeOK, EnvelopeAtAddressee
<1> QED BY <1>1, <1>2, <1>3, <1>4, <1>5, <1>6, <1>7, <1>8

\* Writing a message keeps the invariant.
LEMMA WriteKeepsInv ==
    ASSUME HubAssumption, HubInv,
           NEW c \in Conn, Write(c)
    PROVE  HubInv'
<1> USE DEF HubInv, Write, conns, tracker, Serving, Listed
<1>1. TypeOK'
  BY DEF HubAssumption, TypeOK
<1>2. HandlerInv'
  BY DEF HubAssumption, TypeOK, HandlerInv, RoutesToRegistered
<1>3. OwnerOfEntry'
  BY DEF HubAssumption, TypeOK, OwnerOfEntry
<1>4. RoutesToRegistered'
  BY DEF HubAssumption, TypeOK, RoutesToRegistered
<1>5. LiveIsRouted'
  BY DEF HubAssumption, TypeOK, LiveIsRouted
<1>6. EntryHasOwner'
  BY DEF HubAssumption, TypeOK, EntryHasOwner
<1>7. EntryShowsCurrentWallet'
  BY DEF HubAssumption, TypeOK, EntryShowsCurrentWallet
<1>8. EnvelopeAtAddressee'
  BY DEF HubAssumption, TypeOK, EnvelopeAtAddressee
<1> QED BY <1>1, <1>2, <1>3, <1>4, <1>5, <1>6, <1>7, <1>8

\* A failed write keeps the invariant.
LEMMA WriteErrorKeepsInv ==
    ASSUME HubAssumption, HubInv,
           NEW c \in Conn, WriteError(c)
    PROVE  HubInv'
<1> USE DEF HubInv, WriteError, conns, tracker, Serving, Listed, Discard
<1>1. TypeOK'
  BY DEF HubAssumption, TypeOK
<1>2. HandlerInv'
  BY DEF HubAssumption, TypeOK, HandlerInv, RoutesToRegistered
<1>3. OwnerOfEntry'
  BY DEF HubAssumption, TypeOK, OwnerOfEntry
<1>4. RoutesToRegistered'
  BY DEF HubAssumption, TypeOK, RoutesToRegistered
<1>5. LiveIsRouted'
  BY DEF HubAssumption, TypeOK, LiveIsRouted
<1>6. EntryHasOwner'
  BY DEF HubAssumption, TypeOK, EntryHasOwner
<1>7. EntryShowsCurrentWallet'
  BY DEF HubAssumption, TypeOK, EntryShowsCurrentWallet
<1>8. EnvelopeAtAddressee'
  BY DEF HubAssumption, TypeOK, EnvelopeAtAddressee
<1> QED BY <1>1, <1>2, <1>3, <1>4, <1>5, <1>6, <1>7, <1>8

\* Eviction keeps the invariant.
LEMMA EvictStaleKeepsInv ==
    ASSUME HubAssumption, HubInv,
           EvictStale
    PROVE  HubInv'
<1> USE DEF HubInv, EvictStale, conns, tracker, Serving, Listed, Stale
<1>1. TypeOK'
  BY DEF HubAssumption, TypeOK
<1>2. HandlerInv'
  BY DEF HubAssumption, TypeOK, HandlerInv, RoutesToRegistered
<1>3. OwnerOfEntry'
  BY DEF HubAssumption, TypeOK, OwnerOfEntry
<1>4. RoutesToRegistered'
  BY DEF HubAssumption, TypeOK, RoutesToRegistered
<1>5. LiveIsRouted'
  BY DEF HubAssumption, TypeOK, LiveIsRouted
<1>6. EntryHasOwner'
  BY DEF HubAssumption, TypeOK, EntryHasOwner
<1>7. EntryShowsCurrentWallet'
  BY DEF HubAssumption, TypeOK, EntryShowsCurrentWallet
<1>8. EnvelopeAtAddressee'
  BY DEF HubAssumption, TypeOK, EnvelopeAtAddressee
<1> QED BY <1>1, <1>2, <1>3, <1>4, <1>5, <1>6, <1>7, <1>8

\* The clock keeps the invariant.
LEMMA TickKeepsInv ==
    ASSUME HubAssumption, HubInv,
           Tick
    PROVE  HubInv'
<1> USE DEF HubInv, Tick, conns, tracker, Serving, Listed, Stale
<1>0. ASSUME NEW e \in Model \X PeerId, Listed(e)
      PROVE  Older(e) \in SeederInfo /\ Older(e).address = models[e].address
  <2>1. models[e] \in SeederInfo
    BY <1>0 DEF TypeOK
  <2>2. models[e].age \in 0..(MaxAge + 1) /\ MaxAge \in Nat
    BY <2>1 DEF SeederInfo, HubAssumption
  <2>3. (IF models[e].age > MaxAge THEN models[e].age ELSE models[e].age + 1) \in 0..(MaxAge + 1)
    BY <2>2
  <2> QED BY <2>1, <2>3 DEF Older, SeederInfo
<1>1. TypeOK'
  BY <1>0 DEF TypeOK
<1>2. HandlerInv'
  BY DEF HubAssumption, TypeOK, HandlerInv, RoutesToRegistered
<1>3. OwnerOfEntry'
  BY <1>0 DEF OwnerOfEntry, HubAssumption
<1>4. RoutesToRegistered'
  BY DEF HubAssumption, TypeOK, RoutesToRegistered
<1>5. LiveIsRouted'
  BY DEF HubAssumption, TypeOK, LiveIsRouted
<1>6. EntryHasOwner'
  BY DEF HubAssumption, TypeOK, EntryHasOwner
<1>7. EntryShowsCurrentWallet'
  BY <1>0 DEF EntryShowsCurrentWallet
<1>8. EnvelopeAtAddressee'
  BY DEF HubAssumption, TypeOK, EnvelopeAtAddressee
<1> QED BY <1>1, <1>2, <1>3, <1>4, <1>5, <1>6, <1>7, <1>8

-----------------------------------------------------------------------------
(* The invariant.                                                          *)

\* The invariant holds while no socket has been accepted.
LEMMA InitHubInv == ASSUME HubAssumption, Init PROVE HubInv
<1> USE DEF HubInv, Init
<1>1. TypeOK
  BY DEF TypeOK, HubAssumption
<1>2. HandlerInv
  BY DEF HandlerInv
<1>3. OwnerOfEntry
  BY DEF OwnerOfEntry
<1>4. RoutesToRegistered /\ LiveIsRouted
  BY DEF RoutesToRegistered, LiveIsRouted, Serving
<1>5. EntryHasOwner /\ EntryShowsCurrentWallet
  BY DEF EntryHasOwner, EntryShowsCurrentWallet, Listed
<1>6. EnvelopeAtAddressee
  BY DEF EnvelopeAtAddressee, HubAssumption
<1> QED BY <1>1, <1>2, <1>3, <1>4, <1>5, <1>6

\* Every step of the hub preserves the invariant.
LEMMA NextHubInv == ASSUME HubAssumption, HubInv, [Next]_vars PROVE HubInv'
<1>1. CASE UNCHANGED vars
  BY <1>1 DEF vars, conns, tracker, HubInv, TypeOK, HandlerInv, OwnerOfEntry, RoutesToRegistered,
     LiveIsRouted, EntryHasOwner, EntryShowsCurrentWallet, EnvelopeAtAddressee, Listed
<1>2. ASSUME NEW c \in Conn, Accept(c) PROVE HubInv'
  BY <1>2, AcceptKeepsInv
<1>3. ASSUME NEW c \in Conn, NEW i \in PeerId, NEW a \in Address, AcceptWithToken(c, i, a)
      PROVE  HubInv'
  <2>1. id[c] = NoId
    BY <1>3 DEF AcceptWithToken, HubInv, HandlerInv
  <2>2. \A e \in Model \X PeerId : owner[e] # c
    BY <2>1, UnregisteredOwnsNothing
  <2>3. reg' \in [Conn -> Register \cup {NoMsg}] /\ reg' = reg
    BY <1>3 DEF AcceptWithToken, HubInv, TypeOK
  <2> QED BY <1>3, <2>1, <2>2, <2>3, InstallKeepsInv DEF AcceptWithToken
<1>4. ASSUME NEW c \in Conn, NEW i \in PeerId, NEW a \in Address \cup {NoAddress},
             RegisterNew(c, i, a)
      PROVE  HubInv'
  <2>1. id[c] = NoId /\ pc[c] = "reading" /\ reg' = reg
    BY <1>4 DEF RegisterNew
  <2>2. \A e \in Model \X PeerId : owner[e] # c
    BY <2>1, UnregisteredOwnsNothing
  <2>3. reg' \in [Conn -> Register \cup {NoMsg}] /\ pc' = [pc EXCEPT ![c] = "reading"]
    BY <1>4, <2>1 DEF RegisterNew, HubInv, TypeOK
  <2> QED BY <1>4, <2>1, <2>2, <2>3, InstallKeepsInv DEF RegisterNew
<1>5. ASSUME NEW c \in Conn, NEW i \in PeerId, NEW a \in Address \cup {NoAddress},
             RegisterPurge(c, i, a)
      PROVE  HubInv'
  BY <1>5, RegisterPurgeKeepsInv
<1>6. ASSUME NEW c \in Conn, RegisterInstall(c) PROVE HubInv'
  <2>1. /\ pc[c] = "installing"
        /\ Install(c, reg[c].peerId, reg[c].address)
        /\ pc' = [pc EXCEPT ![c] = "reading"]
        /\ reg' = [reg EXCEPT ![c] = NoMsg]
        /\ UNCHANGED <<route, tracker>>
    BY <1>6 DEF RegisterInstall
  <2>2. /\ reg[c].peerId \in PeerId /\ reg[c].address \in Address \cup {NoAddress}
        /\ id[c] = reg[c].peerId
        /\ \A e \in Model \X PeerId : owner[e] # c
    BY <2>1 DEF HubInv, HandlerInv, Register
  <2>3. /\ reg' \in [Conn -> Register \cup {NoMsg}]
        /\ \A d \in Conn \ {c} : reg'[d] = reg[d]
    BY <2>1 DEF HubInv, TypeOK
  <2> QED BY <2>1, <2>2, <2>3, InstallKeepsInv
<1>7. ASSUME NEW c \in Conn, Heartbeat(c) PROVE HubInv'
  BY <1>7, HeartbeatKeepsInv
<1>8. ASSUME NEW c \in Conn, NEW m \in Model, NEW a \in Address \cup {NoAddress}, Announce(c, m, a)
      PROVE  HubInv'
  BY <1>8, AnnounceKeepsInv
<1>9. ASSUME NEW c \in Conn, Answer(c) PROVE HubInv'
  BY <1>9, AnswerKeepsInv
<1>10. ASSUME NEW c \in Conn, NEW i \in PeerId, Forward(c, i) PROVE HubInv'
  BY <1>10, ForwardKeepsInv
<1>11. ASSUME NEW c \in Conn, ForwardSend(c) PROVE HubInv'
  BY <1>11, ForwardSendKeepsInv
<1>12. ASSUME NEW c \in Conn, ReadError(c) PROVE HubInv'
  BY <1>12, ReadErrorKeepsInv
<1>13. ASSUME NEW c \in Conn, UnregisterPurge(c) PROVE HubInv'
  BY <1>13, UnregisterPurgeKeepsInv
<1>14. ASSUME NEW c \in Conn, CloseConn(c) PROVE HubInv'
  BY <1>14, CloseConnKeepsInv
<1>15. ASSUME NEW c \in Conn, Write(c) PROVE HubInv'
  BY <1>15, WriteKeepsInv
<1>16. ASSUME NEW c \in Conn, WriteError(c) PROVE HubInv'
  BY <1>16, WriteErrorKeepsInv
<1>17. CASE EvictStale
  BY <1>17, EvictStaleKeepsInv
<1>18. CASE Tick
  BY <1>18, TickKeepsInv
<1> QED
  BY <1>1, <1>2, <1>3, <1>4, <1>5, <1>6, <1>7, <1>8, <1>9, <1>10, <1>11, <1>12, <1>13, <1>14,
     <1>15, <1>16, <1>17, <1>18 DEF Next, ReadPump

\* HubInv is an inductive invariant of the hub.
THEOREM HubInvariant == ASSUME HubAssumption PROVE Spec => []HubInv
<1>1. Init => HubInv
  BY InitHubInv
<1>2. HubInv /\ [Next]_vars => HubInv'
  BY NextHubInv
<1> QED BY <1>1, <1>2, PTL DEF Spec

-----------------------------------------------------------------------------
(* What follows for the properties of the runs.                            *)

\* Every variable of the hub keeps its type.
THEOREM TypeCorrect == ASSUME HubAssumption PROVE Spec => []TypeOK
<1>1. HubInv => TypeOK
  BY DEF HubInv
<1> QED BY <1>1, HubInvariant, PTL

\* A relay only ever finds a connection that registered the addressed ID and
\* has not begun to unregister (Hub.SendToPeer).
THEOREM RoutesCorrect == ASSUME HubAssumption PROVE Spec => []RoutesToRegistered
<1>1. HubInv => RoutesToRegistered
  BY DEF HubInv
<1> QED BY <1>1, HubInvariant, PTL

\* Every live registered connection is found by a relay: the cleanup of a kicked
\* connection never unroutes its successor (Hub.UnregisterPeer).
THEOREM RoutingCorrect == ASSUME HubAssumption PROVE Spec => []LiveIsRouted
<1>1. HubInv => LiveIsRouted
  BY DEF HubInv
<1> QED BY <1>1, HubInvariant, PTL

\* An ID has at most one live connection.
THEOREM OneLiveConnectionPerId ==
    ASSUME HubAssumption
    PROVE  Spec => []\A c, d \in Conn :
                /\ pc[c] \in Serving /\ ~closed[c] /\ id[c] # NoId
                /\ pc[d] \in Serving /\ ~closed[d] /\ id[d] = id[c]
                => c = d
<1>1. HubInv => \A c, d \in Conn :
                /\ pc[c] \in Serving /\ ~closed[c] /\ id[c] # NoId
                /\ pc[d] \in Serving /\ ~closed[d] /\ id[d] = id[c]
                => c = d
  BY DEF HubInv, LiveIsRouted
<1> QED BY <1>1, HubInvariant, PTL

\* No announcement outlives the connection that made it (Tracker.RemovePeer in
\* UnregisterPeer and RegisterPeer).
THEOREM DirectoryCorrect == ASSUME HubAssumption PROVE Spec => []EntryHasOwner
<1>1. HubInv => EntryHasOwner
  BY DEF HubInv
<1> QED BY <1>1, HubInvariant, PTL

\* No entry shows a wallet its connection has switched away from (the register
\* handler of Peer).
THEOREM WalletsCorrect == ASSUME HubAssumption PROVE Spec => []EntryShowsCurrentWallet
<1>1. HubInv => EntryShowsCurrentWallet
  BY DEF HubInv
<1> QED BY <1>1, HubInvariant, PTL

\* Envelopes are queued only for the peer they are addressed to, within the
\* buffer.
THEOREM RelayCorrect == ASSUME HubAssumption PROVE Spec => []EnvelopeAtAddressee
<1>1. HubInv => EnvelopeAtAddressee
  BY DEF HubInv
<1> QED BY <1>1, HubInvariant, PTL

-----------------------------------------------------------------------------
(* Entries vanish only by age or through connections of their own ID.      *)

\* Being refreshed or getting older leaves an entry listed.
LEMMA RefreshKeepsListed ==
    ASSUME HubAssumption, TypeOK, NEW e \in Model \X PeerId, Listed(e)
    PROVE  [models[e] EXCEPT !.age = 0] # NoEntry /\ Older(e) # NoEntry
<1>1. models[e] \in SeederInfo
  BY DEF Listed, TypeOK
<1>2. [models[e] EXCEPT !.age = 0] \in SeederInfo
  <2>1. 0 \in 0..(MaxAge + 1)
    BY DEF HubAssumption
  <2> QED BY <1>1, <2>1 DEF SeederInfo
<1>3. Older(e) \in SeederInfo
  <2>1. models[e].age \in 0..(MaxAge + 1) /\ MaxAge \in Nat
    BY <1>1 DEF SeederInfo, HubAssumption
  <2>2. (IF models[e].age > MaxAge THEN models[e].age ELSE models[e].age + 1) \in 0..(MaxAge + 1)
    BY <2>1
  <2> QED BY <1>1, <2>2 DEF Older, SeederInfo
<1> QED BY <1>2, <1>3 DEF HubAssumption

\* Whatever happens to one peer's connections leaves the entries of every other
\* peer listed.
THEOREM PeersDoNotInterfere == ASSUME HubAssumption PROVE Spec => VanishesByOwnIdOrAge
<1> DEFINE Step == \A e \in Model \X PeerId :
                      Listed(e) /\ ~Listed(e)' =>
                         \/ Stale(e)
                         \/ \E c \in Conn : id[c] = e[2] /\ pc'[c] # pc[c]
<1>1. HubInv /\ [Next]_vars => [Step]_vars
  <2> SUFFICES ASSUME HubInv, Next,
                      NEW e \in Model \X PeerId, Listed(e), ~Listed(e)'
               PROVE  \/ Stale(e)
                      \/ \E c \in Conn : id[c] = e[2] /\ pc'[c] # pc[c]
    OBVIOUS
  <2>1. models'[e] = NoEntry /\ models[e] # NoEntry
    BY DEF Listed
  <2>2. ASSUME NEW c \in Conn, NEW i \in PeerId, NEW a \in Address \cup {NoAddress},
               RegisterPurge(c, i, a)
        PROVE  id[c] = e[2] /\ pc'[c] # pc[c]
    BY <2>1, <2>2 DEF RegisterPurge, RemovePeer, HubInv, TypeOK
  <2>3. ASSUME NEW c \in Conn, UnregisterPurge(c)
        PROVE  id[c] = e[2] /\ pc'[c] # pc[c]
    BY <2>1, <2>3 DEF UnregisterPurge, RemovePeer, HubInv, TypeOK
  <2>4. CASE EvictStale
    BY <2>1, <2>4 DEF EvictStale
  <2>5. CASE Tick
    BY <2>1, <2>5, RefreshKeepsListed DEF Tick, Listed, HubInv
  <2>6. ASSUME NEW c \in Conn, Heartbeat(c) PROVE FALSE
    BY <2>1, <2>6, RefreshKeepsListed DEF Heartbeat, Listed, HubInv
  <2>7. ASSUME NEW c \in Conn, NEW m \in Model, NEW a \in Address \cup {NoAddress},
               Announce(c, m, a)
        PROVE  FALSE
    <3>1. (IF address[c] # NoAddress THEN address[c] ELSE a) \in Address \cup {NoAddress}
          /\ 0 \in 0..(MaxAge + 1)
      BY DEF HubInv, TypeOK, HubAssumption
    <3>2. [address |-> IF address[c] # NoAddress THEN address[c] ELSE a, age |-> 0] # NoEntry
      BY <3>1 DEF SeederInfo, HubAssumption
    <3> QED BY <2>1, <2>7, <3>2 DEF Announce, HubInv, TypeOK
  <2>8. ASSUME NEW c \in Conn, Accept(c) PROVE FALSE
    BY <2>1, <2>8 DEF Accept, tracker
  <2>9. ASSUME NEW c \in Conn, NEW i \in PeerId, NEW a \in Address, AcceptWithToken(c, i, a) PROVE FALSE
    BY <2>1, <2>9 DEF AcceptWithToken, tracker
  <2>10. ASSUME NEW c \in Conn, NEW i \in PeerId, NEW a \in Address \cup {NoAddress}, RegisterNew(c, i, a) PROVE FALSE
    BY <2>1, <2>10 DEF RegisterNew, tracker
  <2>11. ASSUME NEW c \in Conn, RegisterInstall(c) PROVE FALSE
    BY <2>1, <2>11 DEF RegisterInstall, tracker
  <2>12. ASSUME NEW c \in Conn, Answer(c) PROVE FALSE
    BY <2>1, <2>12 DEF Answer, tracker, conns
  <2>13. ASSUME NEW c \in Conn, NEW i \in PeerId, Forward(c, i) PROVE FALSE
    BY <2>1, <2>13 DEF Forward, tracker
  <2>14. ASSUME NEW c \in Conn, ForwardSend(c) PROVE FALSE
    BY <2>1, <2>14 DEF ForwardSend, tracker
  <2>15. ASSUME NEW c \in Conn, ReadError(c) PROVE FALSE
    BY <2>1, <2>15 DEF ReadError, tracker
  <2>16. ASSUME NEW c \in Conn, CloseConn(c) PROVE FALSE
    BY <2>1, <2>16 DEF CloseConn, tracker
  <2>17. ASSUME NEW c \in Conn, Write(c) PROVE FALSE
    BY <2>1, <2>17 DEF Write, tracker, conns
  <2>18. ASSUME NEW c \in Conn, WriteError(c) PROVE FALSE
    BY <2>1, <2>18 DEF WriteError, tracker
  <2> QED
    BY <2>2, <2>3, <2>4, <2>5, <2>6, <2>7, <2>8, <2>9, <2>10, <2>11, <2>12, <2>13, <2>14, <2>15, <2>16, <2>17, <2>18 DEF Next, ReadPump
<1> QED BY <1>1, HubInvariant, PTL DEF Spec, VanishesByOwnIdOrAge

=============================================================================
