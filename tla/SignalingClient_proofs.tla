----------------------- MODULE SignalingClient_proofs -----------------------
(***************************************************************************)
(* The safety properties of SignalingClient, for any number of sockets,    *)
(* wallets and session requests.  The inductive invariant has two halves:  *)
(* what the socket, its timers and the queue say of each other, and what   *)
(* the token, the address and the session requests do.                     *)
(***************************************************************************)
EXTENDS SignalingClient, TLAPS

LinkType ==
    /\ socket \in [Socket -> Live \cup {"closing", "closed"}]
    /\ ticket \in [Socket -> Wallet \cup {NoWallet}]
    /\ ws \in Socket \cup {NoSocket}
    /\ status \in {"connecting", "connected", "disconnected"}
    /\ explicit \in BOOLEAN
    /\ heartbeat \in BOOLEAN
    /\ reconnect \in BOOLEAN
    /\ queued \in 0..MaxQueue

IdentityType ==
    /\ wallet \in Wallet \cup {NoWallet}
    /\ address \in Wallet \cup {NoWallet}
    /\ token \in Wallet \cup {NoWallet}
    /\ authAddress \in Wallet \cup {NoWallet}
    /\ promise \in Call \cup {NoCall}
    /\ call \in [Call -> AuthCall \cup {NoCall}]
    /\ session \in [Wallet -> {"none", "valid", "expired"}]

\* disconnect() forgets its socket: a close event that comes after it is never
\* that of this.ws.
ExplicitHasNoSocket == explicit => ws = NoSocket

\* authPromise is that of a run that has not ended.
PromisePending == promise # NoCall => call[promise] # NoCall

LinkInv ==
    /\ LinkType
    /\ OneLiveSocket
    /\ NothingHeldBack
    /\ OfflineIsRetried
    /\ ExplicitIsQuiet
    /\ ExplicitHasNoSocket

IdentityInv ==
    /\ IdentityType
    /\ TokenOfAddress
    /\ PromisePending

-----------------------------------------------------------------------------
(* The operations that several actions call.                               *)

\* connect() keeps the link in order, whatever else happens to the timers.
LEMMA ConnectLemma ==
    ASSUME LinkInv, NEW w \in Wallet \cup {NoWallet}, Connect(w),
           heartbeat' \in BOOLEAN, reconnect' \in BOOLEAN, queued' = queued
    PROVE  LinkInv'
<1> USE ClientAssumption DEF LinkInv, Live
<1>1. CASE ws # NoSocket /\ socket[ws] \in Live
  <2>1. UNCHANGED <<socket, ticket, ws, status, explicit>>
    BY <1>1 DEF Connect, link
  <2>2. ~explicit
    BY <1>1 DEF ExplicitHasNoSocket
  <2>3. LinkType'
    BY <2>1 DEF LinkType
  <2>4. OneLiveSocket' /\ NothingHeldBack'
    BY <2>1 DEF OneLiveSocket, NothingHeldBack, Online
  <2>5. OfflineIsRetried'
    BY <1>1, <2>1 DEF OfflineIsRetried
  <2>6. ExplicitIsQuiet' /\ ExplicitHasNoSocket'
    BY <2>1, <2>2 DEF ExplicitIsQuiet, ExplicitHasNoSocket
  <2> QED BY <2>3, <2>4, <2>5, <2>6
<1>2. CASE ~(ws # NoSocket /\ socket[ws] \in Live)
  <2>1. PICK s \in Socket : /\ socket' = [socket EXCEPT ![s] = "connecting"]
                            /\ ticket' = [ticket EXCEPT ![s] = w]
                            /\ ws' = s
                            /\ status' = "connecting"
                            /\ explicit' = FALSE
    BY <1>2 DEF Connect
  <2>2. LinkType'
    BY <2>1 DEF LinkType
  <2>3. \A t \in Socket : socket[t] \notin Live
    BY <1>2 DEF OneLiveSocket
  <2>4. OneLiveSocket'
    BY <2>1, <2>3 DEF OneLiveSocket, LinkType
  <2>5. socket'[ws'] = "connecting"
    BY <2>1 DEF LinkType
  <2>6. NothingHeldBack' /\ OfflineIsRetried'
    BY <2>5 DEF NothingHeldBack, OfflineIsRetried, Online
  <2>7. ExplicitIsQuiet' /\ ExplicitHasNoSocket'
    BY <2>1 DEF ExplicitIsQuiet, ExplicitHasNoSocket
  <2> QED BY <2>2, <2>4, <2>6, <2>7
<1> QED BY <1>1, <1>2

\* disconnect() leaves no live socket and no timer.
LEMMA DisconnectLemma ==
    ASSUME LinkInv, Disconnect
    PROVE  LinkInv'
<1> USE ClientAssumption DEF LinkInv, Live
<1>1. LinkType'
  <2>1. explicit' \in BOOLEAN /\ heartbeat' \in BOOLEAN /\ reconnect' \in BOOLEAN
    BY Zenon DEF Disconnect
  <2>2. /\ socket' \in [Socket -> Live \cup {"closing", "closed"}]
        /\ ticket' \in [Socket -> Wallet \cup {NoWallet}]
        /\ ws' \in Socket \cup {NoSocket}
        /\ status' \in {"connecting", "connected", "disconnected"}
        /\ queued' \in 0..MaxQueue
    BY DEF LinkType, Disconnect
  <2> QED BY <2>1, <2>2 DEF LinkType
<1>2. \A s \in Socket : socket'[s] \notin Live
  BY DEF Disconnect, OneLiveSocket, LinkType
<1>3. OneLiveSocket' /\ ExplicitIsQuiet' /\ ExplicitHasNoSocket'
  BY <1>2 DEF OneLiveSocket, ExplicitIsQuiet, ExplicitHasNoSocket, Disconnect
<1>4. NothingHeldBack' /\ OfflineIsRetried'
  BY DEF NothingHeldBack, OfflineIsRetried, Online, Disconnect
<1> QED BY <1>1, <1>3, <1>4

\* sendRaw keeps the link in order.
LEMMA SendLemma ==
    ASSUME LinkInv, Send, UNCHANGED <<link, timers>>
    PROVE  LinkInv'
<1> USE ClientAssumption DEF LinkInv, Live
<1>1. LinkType'
  BY DEF LinkType, Send, link, timers
<1>2. NothingHeldBack'
  BY DEF NothingHeldBack, Send, Online, link
<1>3. OneLiveSocket' /\ OfflineIsRetried' /\ ExplicitIsQuiet' /\ ExplicitHasNoSocket'
  BY DEF OneLiveSocket, OfflineIsRetried, ExplicitIsQuiet, ExplicitHasNoSocket, link, timers
<1> QED BY <1>1, <1>2, <1>3

\* A step that leaves the link alone keeps it in order.
LEMMA IdleLemma ==
    ASSUME LinkInv, UNCHANGED <<link, timers, queued>>
    PROVE  LinkInv'
BY DEF LinkInv, LinkType, OneLiveSocket, NothingHeldBack, OfflineIsRetried, ExplicitIsQuiet,
       ExplicitHasNoSocket, Online, link, timers

\* setAddress keeps the link in order, and token and address in step.
LEMMA SetAddressLemma ==
    ASSUME LinkInv, IdentityInv, NEW w \in Wallet, SetAddress(w)
    PROVE  /\ LinkInv'
           /\ address' \in Wallet \cup {NoWallet} /\ token' \in Wallet \cup {NoWallet}
           /\ TokenOfAddress'
<1>1. LinkInv'
  BY DisconnectLemma, SendLemma, IdleLemma DEF SetAddress
<1>2. /\ address' \in Wallet \cup {NoWallet} /\ token' \in Wallet \cup {NoWallet}
      /\ TokenOfAddress'
  BY DEF SetAddress, IdentityInv, IdentityType, TokenOfAddress
<1> QED BY <1>1, <1>2

\* Cancelling effects ends no run.
LEMMA CancelledLemma ==
    ASSUME IdentityInv, call' = Cancelled, promise' = promise
    PROVE  call' \in [Call -> AuthCall \cup {NoCall}] /\ PromisePending'
<1> USE ClientAssumption DEF IdentityInv, IdentityType
<1>1. ASSUME NEW k \in Call
      PROVE  Cancelled[k] \in AuthCall \cup {NoCall} /\ (call[k] # NoCall => Cancelled[k] # NoCall)
  BY <1>1 DEF Cancelled, AuthCall
<1> QED BY <1>1 DEF Cancelled, PromisePending

-----------------------------------------------------------------------------

\* The invariant holds initially.
LEMMA InitClientInv == Init => LinkInv /\ IdentityInv
<1> SUFFICES ASSUME Init PROVE LinkInv /\ IdentityInv
  OBVIOUS
<1> USE ClientAssumption DEF Init
<1>1. LinkInv
  <2>1. explicit \in BOOLEAN /\ heartbeat \in BOOLEAN /\ reconnect \in BOOLEAN
    BY Zenon
  <2>2. LinkType
    BY <2>1 DEF LinkType, Live
  <2>3. OneLiveSocket /\ NothingHeldBack /\ OfflineIsRetried
    BY DEF OneLiveSocket, NothingHeldBack, OfflineIsRetried, Online, Live
  <2>4. ExplicitIsQuiet /\ ExplicitHasNoSocket
    BY DEF ExplicitIsQuiet, ExplicitHasNoSocket
  <2> QED BY <2>2, <2>3, <2>4 DEF LinkInv
<1>2. IdentityInv
  BY DEF IdentityInv, IdentityType, TokenOfAddress, PromisePending
<1> QED BY <1>1, <1>2

\* onopen keeps the link in order: only this.ws can open.
LEMMA OnOpenLemma ==
    ASSUME LinkInv, NEW s \in Socket, OnOpen(s)
    PROVE  LinkInv'
<1> USE ClientAssumption DEF LinkInv, Live
<1>1. LinkType'
  BY DEF LinkType, OnOpen
<1>2. s = ws /\ ~explicit
  BY DEF OneLiveSocket, ExplicitIsQuiet, OnOpen
<1>3. OneLiveSocket'
  BY <1>2 DEF OneLiveSocket, OnOpen, LinkType
<1>4. NothingHeldBack' /\ OfflineIsRetried'
  BY <1>2 DEF NothingHeldBack, OfflineIsRetried, OnOpen, LinkType
<1>5. ExplicitIsQuiet' /\ ExplicitHasNoSocket'
  BY <1>2 DEF ExplicitIsQuiet, ExplicitHasNoSocket, OnOpen
<1> QED BY <1>1, <1>3, <1>4, <1>5

\* The hub's close frame keeps the link in order.
LEMMA RemoteCloseLemma ==
    ASSUME LinkInv, NEW s \in Socket, RemoteClose(s)
    PROVE  LinkInv'
<1> USE ClientAssumption DEF LinkInv, Live, timers
<1>1. LinkType'
  BY DEF LinkType, RemoteClose
<1>2. OneLiveSocket' /\ ExplicitHasNoSocket'
  BY DEF OneLiveSocket, ExplicitHasNoSocket, RemoteClose, LinkType
<1>3. NothingHeldBack' /\ OfflineIsRetried'
  BY DEF NothingHeldBack, OfflineIsRetried, Online, RemoteClose, LinkType
<1>4. ExplicitIsQuiet'
  BY DEF ExplicitIsQuiet, RemoteClose, LinkType
<1> QED BY <1>1, <1>2, <1>3, <1>4

\* onclose keeps the link in order, whichever socket it is the event of.
LEMMA OnCloseLemma ==
    ASSUME LinkInv, NEW s \in Socket, OnClose(s)
    PROVE  LinkInv'
<1> USE ClientAssumption DEF LinkInv, Live
<1>1. LinkType'
  BY DEF LinkType, OnClose
<1>2. OneLiveSocket' /\ ExplicitHasNoSocket'
  BY DEF OneLiveSocket, ExplicitHasNoSocket, OnClose, LinkType
<1>3. NothingHeldBack'
  BY DEF NothingHeldBack, Online, OnClose, LinkType
<1>4. OfflineIsRetried'
  BY DEF OfflineIsRetried, ExplicitHasNoSocket, OnClose, LinkType
<1>5. ExplicitIsQuiet'
  BY DEF ExplicitIsQuiet, OnClose, LinkType
<1> QED BY <1>1, <1>2, <1>3, <1>4, <1>5

\* Every step preserves the invariant.
LEMMA NextClientInv == LinkInv /\ IdentityInv /\ [Next]_vars => LinkInv' /\ IdentityInv'
<1> SUFFICES ASSUME LinkInv, IdentityInv, [Next]_vars
             PROVE  LinkInv' /\ IdentityInv'
  OBVIOUS
<1>timers. heartbeat \in BOOLEAN /\ reconnect \in BOOLEAN
  BY DEF LinkInv, LinkType
<1>token. token \in Wallet \cup {NoWallet}
  BY DEF IdentityInv, IdentityType
<1>idle. ASSUME UNCHANGED <<wallet, identity>> PROVE IdentityInv'
  BY <1>idle DEF IdentityInv, IdentityType, TokenOfAddress, PromisePending, identity
<1>1. CASE SendMessage
  BY <1>1, <1>idle, SendLemma DEF SendMessage
<1>2. CASE ConnectRequest
  BY <1>2, <1>idle, <1>timers, <1>token, ConnectLemma DEF ConnectRequest, timers
<1>3. CASE HeartbeatTick
  BY <1>3, <1>idle, SendLemma DEF HeartbeatTick
<1>4. CASE ReconnectFires
  BY <1>4, <1>idle, <1>timers, <1>token, ConnectLemma DEF ReconnectFires
<1>5. ASSUME NEW s \in Socket, OnOpen(s) \/ RemoteClose(s) \/ OnClose(s)
      PROVE  LinkInv' /\ IdentityInv'
  <2>1. UNCHANGED <<wallet, identity>>
    BY <1>5 DEF OnOpen, RemoteClose, OnClose
  <2> QED BY <1>5, <2>1, <1>idle, OnOpenLemma, RemoteCloseLemma, OnCloseLemma
<1>6. ASSUME NEW w \in Wallet \cup {NoWallet}, SwitchWallet(w)
      PROVE  LinkInv' /\ IdentityInv'
  <2>1. /\ LinkInv'
        /\ address' \in Wallet \cup {NoWallet} /\ token' \in Wallet \cup {NoWallet}
        /\ TokenOfAddress'
    <3>1. CASE w # NoWallet /\ address # w
      BY <1>6, <3>1, SetAddressLemma DEF SwitchWallet
    <3>2. CASE ~(w # NoWallet /\ address # w)
      BY <1>6, <3>2, IdleLemma DEF SwitchWallet, IdentityInv, IdentityType, TokenOfAddress
    <3> QED BY <3>1, <3>2
  <2>2. call' \in [Call -> AuthCall \cup {NoCall}] /\ PromisePending'
    BY <1>6, CancelledLemma DEF SwitchWallet
  <2> QED BY <1>6, <2>1, <2>2 DEF SwitchWallet, IdentityInv, IdentityType
<1>7. CASE Render
  <2>1. wallet \in Wallet
    BY <1>7 DEF Render, IdentityInv, IdentityType
  <2>2. /\ LinkInv'
        /\ address' \in Wallet \cup {NoWallet} /\ token' \in Wallet \cup {NoWallet}
        /\ TokenOfAddress'
    BY <1>7, <2>1, SetAddressLemma DEF Render
  <2> QED BY <1>7, <2>2 DEF Render, IdentityInv, IdentityType, PromisePending
<1>8. CASE Unmount
  <2>1. call' \in [Call -> AuthCall \cup {NoCall}] /\ PromisePending'
    BY <1>8, CancelledLemma DEF Unmount
  <2> QED BY <1>8, <2>1, IdleLemma DEF Unmount, IdentityInv, IdentityType, TokenOfAddress
<1>9. CASE HaveToken
  BY <1>9, <1>idle, <1>timers, <1>token, ConnectLemma DEF HaveToken, timers
<1>10. CASE JoinCall
  <2>1. call[promise] \in AuthCall /\ promise \in Call
    BY <1>10 DEF JoinCall, IdentityInv, IdentityType, PromisePending
  <2>2. call' \in [Call -> AuthCall \cup {NoCall}] /\ PromisePending'
    BY <1>10, <2>1, ClientAssumption
       DEF JoinCall, IdentityInv, IdentityType, PromisePending, AuthCall
  <2> QED BY <1>10, <2>2, IdleLemma DEF JoinCall, IdentityInv, IdentityType, TokenOfAddress
<1>11. CASE UseCachedSession
  <2>1. wallet \in Wallet
    BY <1>11 DEF UseCachedSession, MustAuthenticate, IdentityInv, IdentityType
  <2>2. LinkInv'
    BY <1>11, <2>1, <1>timers, ConnectLemma DEF UseCachedSession, timers
  <2>3. IdentityInv'
    BY <1>11, <2>1 DEF UseCachedSession, IdentityInv, IdentityType, TokenOfAddress, PromisePending
  <2> QED BY <2>2, <2>3
<1>12. ASSUME NEW k \in Call, StartCall(k)
       PROVE  LinkInv' /\ IdentityInv'
  <2>1. wallet \in Wallet
    BY <1>12 DEF StartCall, MustAuthenticate, IdentityInv, IdentityType
  <2>2. [wallet |-> wallet, live |-> TRUE] \in AuthCall
    BY <2>1 DEF AuthCall
  <2>3. call' \in [Call -> AuthCall \cup {NoCall}] /\ PromisePending'
    BY <1>12, <2>2, ClientAssumption DEF StartCall, IdentityInv, IdentityType, PromisePending
  <2>4. IdentityInv'
    BY <1>12, <2>1, <2>3 DEF StartCall, IdentityInv, IdentityType, TokenOfAddress
  <2> QED BY <1>12, <2>4, IdleLemma DEF StartCall
<1>13. ASSUME NEW k \in Call, CallSucceeds(k)
       PROVE  LinkInv' /\ IdentityInv'
  <2>1. call[k].wallet \in Wallet
    BY <1>13 DEF CallSucceeds, IdentityInv, IdentityType, AuthCall
  <2>2. LinkInv'
    BY <1>13, <2>1, <1>timers, ConnectLemma, IdleLemma DEF CallSucceeds, timers
  <2>3. IdentityInv'
    BY <1>13, <2>1 DEF CallSucceeds, IdentityInv, IdentityType, TokenOfAddress, PromisePending
  <2> QED BY <2>2, <2>3
<1>14. ASSUME NEW k \in Call, CallFails(k)
       PROVE  LinkInv' /\ IdentityInv'
  <2>1. LinkInv'
    BY <1>14, DisconnectLemma, IdleLemma DEF CallFails
  <2>2. IdentityInv'
    BY <1>14 DEF CallFails, IdentityInv, IdentityType, TokenOfAddress, PromisePending
  <2> QED BY <2>1, <2>2
<1>15. ASSUME NEW w \in Wallet, Expire(w)
       PROVE  LinkInv' /\ IdentityInv'
  BY <1>15, IdleLemma DEF Expire, IdentityInv, IdentityType, TokenOfAddress, PromisePending
<1>16. CASE UNCHANGED vars
  BY <1>16, <1>idle, IdleLemma DEF vars
<1> QED
  BY <1>1, <1>2, <1>3, <1>4, <1>5, <1>6, <1>7, <1>8, <1>9, <1>10, <1>11, <1>12, <1>13, <1>14,
     <1>15, <1>16 DEF Next

\* The invariant holds in every behaviour.
THEOREM ClientInvariant == Spec => [](LinkInv /\ IdentityInv)
BY InitClientInv, NextClientInv, PTL DEF Spec

-----------------------------------------------------------------------------

\* The variables of the client keep their types, whatever users, timers, sockets
\* and the session API do.
THEOREM TypeCorrect == Spec => []TypeOK
<1>1. LinkInv /\ IdentityInv => TypeOK
  BY DEF LinkInv, IdentityInv, LinkType, IdentityType, TypeOK
<1> QED BY <1>1, ClientInvariant, PTL

\* The client never has two live sockets (connect, disconnect).
THEOREM ConnectionCorrect == Spec => []OneLiveSocket
<1>1. LinkInv /\ IdentityInv => OneLiveSocket
  BY DEF LinkInv
<1> QED BY <1>1, ClientInvariant, PTL

\* An explicit disconnect lasts: late close events and timers do not bring the
\* connection back (disconnect, onclose).
THEOREM DisconnectLasts == Spec => []ExplicitIsQuiet
<1>1. LinkInv /\ IdentityInv => ExplicitIsQuiet
  BY DEF LinkInv
<1> QED BY <1>1, ClientInvariant, PTL

\* A dropped connection is always about to be retried (onclose,
\* scheduleReconnect).
THEOREM RetryCorrect == Spec => []OfflineIsRetried
<1>1. LinkInv /\ IdentityInv => OfflineIsRetried
  BY DEF LinkInv
<1> QED BY <1>1, ClientInvariant, PTL

\* The queue of an open connection is empty (sendRaw, onopen).
THEOREM QueueFlushed == Spec => []NothingHeldBack
<1>1. LinkInv /\ IdentityInv => NothingHeldBack
  BY DEF LinkInv
<1> QED BY <1>1, ClientInvariant, PTL

\* The client never holds one wallet's token while it announces for another.
THEOREM TokenCorrect == Spec => []TokenOfAddress
<1>1. LinkInv /\ IdentityInv => TokenOfAddress
  BY DEF IdentityInv
<1> QED BY <1>1, ClientInvariant, PTL

=============================================================================
