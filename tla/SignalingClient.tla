-------------------------- MODULE SignalingClient --------------------------
(***************************************************************************)
(* The browser's shared connection to the hub:                             *)
(* src/frontend/src/services/signaling-client.ts, driven by useSignaling   *)
(* in src/frontend/src/hooks/use-p2p.ts (the production build).            *)
(*                                                                         *)
(* JavaScript runs one task at a time; an await, a timer and a socket      *)
(* event end a task, so each is an action boundary.  What makes this hard: *)
(* the callbacks of a socket act on the client, not on their socket, and   *)
(* the close event of a socket arrives long after close() was called, when *)
(* a newer socket may be open; wallet signatures and session requests come *)
(* back after the user has switched the wallet.                            *)
(*                                                                         *)
(* Left out: message contents, the backoff delay, the WebSocket            *)
(* constructor throwing (the URL is normalised), the minute by which a     *)
(* cached session is given up early, and queries for seeders.              *)
(***************************************************************************)
EXTENDS Naturals

CONSTANTS Socket,     \* bound: WebSocket objects alive at once
          Wallet,
          Call,       \* bound: session requests in flight at once
          NoSocket, NoWallet, NoCall,
          AuthRequired, \* AUTH_REQUIRED of the hub
          MaxQueue    \* bound: messages waiting for a socket

VARIABLES
    socket,      \* readyState of each WebSocket; "closed" ones are garbage
    ticket,      \* the wallet of the token in the URL of each socket
    ws,          \* this.ws
    status,      \* this.status
    explicit,    \* this.isExplicitlyClosed
    heartbeat,   \* this.heartbeatTimer is set
    reconnect,   \* this.reconnectTimer is set
    queued,      \* length of this.pendingOutgoingQueue
    wallet,      \* the wallet the page is connected to
    address,     \* this.address, NoWallet for the zero address
    token,       \* the wallet of this.authToken
    authAddress, \* this.authAddress
    promise,     \* this.authPromise
    call,        \* runs of authenticateWallet that wait for the user or the server
    session      \* the session each wallet was given, kept in sessionStorage

link == <<socket, ticket, ws, status, explicit>>
timers == <<heartbeat, reconnect>>
identity == <<address, token, authAddress, promise, call, session>>
vars == <<link, timers, queued, wallet, identity>>

-----------------------------------------------------------------------------

Live == {"connecting", "open"}

\* live: a mounted component with the current wallet awaits this run.
AuthCall == [wallet : Wallet, live : BOOLEAN]

ASSUME ClientAssumption ==
    /\ NoSocket \notin Socket
    /\ NoWallet \notin Wallet
    /\ NoCall \notin Call \cup AuthCall
    /\ AuthRequired \in BOOLEAN
    /\ MaxQueue \in Nat

TypeOK ==
    /\ socket \in [Socket -> Live \cup {"closing", "closed"}]
    /\ ticket \in [Socket -> Wallet \cup {NoWallet}]
    /\ ws \in Socket \cup {NoSocket}
    /\ status \in {"connecting", "connected", "disconnected"}
    /\ explicit \in BOOLEAN
    /\ heartbeat \in BOOLEAN
    /\ reconnect \in BOOLEAN
    /\ queued \in 0..MaxQueue
    /\ wallet \in Wallet \cup {NoWallet}
    /\ address \in Wallet \cup {NoWallet}
    /\ token \in Wallet \cup {NoWallet}
    /\ authAddress \in Wallet \cup {NoWallet}
    /\ promise \in Call \cup {NoCall}
    /\ call \in [Call -> AuthCall \cup {NoCall}]
    /\ session \in [Wallet -> {"none", "valid", "expired"}]

Init ==
    /\ socket = [s \in Socket |-> "closed"]
    /\ ticket = [s \in Socket |-> NoWallet]
    /\ ws = NoSocket
    /\ status = "disconnected"
    /\ explicit = FALSE
    /\ heartbeat = FALSE
    /\ reconnect = FALSE
    /\ queued = 0
    /\ wallet = NoWallet
    /\ address = NoWallet
    /\ token = NoWallet
    /\ authAddress = NoWallet
    /\ promise = NoCall
    /\ call = [k \in Call |-> NoCall]
    /\ session = [w \in Wallet |-> "none"]

\* this.ws is OPEN.
Online == ws # NoSocket /\ socket[ws] = "open"

-----------------------------------------------------------------------------
(* connect, disconnect, sendRaw.                                           *)

\* Mutant of Connect: a socket on its way is not noticed.
ConnectUnlessOpen(w) ==
    IF ws # NoSocket /\ socket[ws] = "open"
    THEN UNCHANGED link
    ELSE \E s \in Socket :
            /\ socket[s] = "closed"
            /\ socket' = [socket EXCEPT ![s] = "connecting"]
            /\ ticket' = [ticket EXCEPT ![s] = w]
            /\ ws' = s
            /\ status' = "connecting"
            /\ explicit' = FALSE

\* Mutant of Connect: a dead socket is taken for a connection.
ConnectOnce(w) ==
    IF ws # NoSocket
    THEN UNCHANGED link
    ELSE \E s \in Socket :
            /\ socket[s] = "closed"
            /\ socket' = [socket EXCEPT ![s] = "connecting"]
            /\ ticket' = [ticket EXCEPT ![s] = w]
            /\ ws' = s
            /\ status' = "connecting"
            /\ explicit' = FALSE

\* connect(): a new socket, with the token's wallet w in its URL, unless
\* this.ws is open or on its way.
Connect(w) ==
    IF ws # NoSocket /\ socket[ws] \in Live
    THEN UNCHANGED link
    ELSE \E s \in Socket :
            /\ socket[s] = "closed"
            /\ socket' = [socket EXCEPT ![s] = "connecting"]
            /\ ticket' = [ticket EXCEPT ![s] = w]
            /\ ws' = s
            /\ status' = "connecting"
            /\ explicit' = FALSE

\* Mutant of Disconnect: the reconnection timer goes on.
DisconnectKeepsTimer ==
    /\ socket' = [s \in Socket |->
                    IF s = ws /\ socket[s] # "closed" THEN "closing" ELSE socket[s]]
    /\ ws' = NoSocket
    /\ status' = "disconnected"
    /\ explicit' = TRUE
    /\ heartbeat' = FALSE
    /\ queued' = 0
    /\ UNCHANGED <<ticket, reconnect>>

\* disconnect(): the socket starts to close, its close event comes later.
Disconnect ==
    /\ socket' = [s \in Socket |->
                    IF s = ws /\ socket[s] # "closed" THEN "closing" ELSE socket[s]]
    /\ ws' = NoSocket
    /\ status' = "disconnected"
    /\ explicit' = TRUE
    /\ heartbeat' = FALSE
    /\ reconnect' = FALSE
    /\ queued' = 0
    /\ UNCHANGED ticket

\* sendRaw: on the open socket, else into the queue.
Send == IF Online THEN UNCHANGED queued
                  ELSE queued < MaxQueue /\ queued' = queued + 1

\* A component calls announceChunks, sendOffer, sendAnswer, sendIceCandidate.
SendMessage == Send /\ UNCHANGED <<link, timers, wallet, identity>>

\* Seeder.startSeeding and components connect when the status is not connected.
ConnectRequest ==
    /\ status # "connected"
    /\ Connect(token)
    /\ UNCHANGED <<timers, queued, wallet, identity>>

-----------------------------------------------------------------------------
(* Timers and socket events.                                               *)

HeartbeatTick ==
    /\ heartbeat
    /\ Send
    /\ UNCHANGED <<link, timers, wallet, identity>>

ReconnectFires ==
    /\ reconnect
    /\ reconnect' = FALSE
    /\ Connect(token)
    /\ UNCHANGED <<heartbeat, queued, wallet, identity>>

\* The hub takes a token only before it expires, and sockets without a token
\* only if it is configured to.
Admitted(s) == IF ticket[s] = NoWallet THEN ~AuthRequired
                                       ELSE session[ticket[s]] = "valid"

\* Mutant of OnOpen: nobody flushes the queue.
OnOpenNoFlush(s) ==
    /\ socket[s] = "connecting"
    /\ Admitted(s)
    /\ socket' = [socket EXCEPT ![s] = "open"]
    /\ status' = "connected"
    /\ heartbeat' = TRUE
    /\ UNCHANGED <<ticket, ws, explicit, reconnect, queued, wallet, identity>>

\* onopen: register, start the heartbeat, flush the queue.
OnOpen(s) ==
    /\ socket[s] = "connecting"
    /\ Admitted(s)
    /\ socket' = [socket EXCEPT ![s] = "open"]
    /\ status' = "connected"
    /\ heartbeat' = TRUE
    /\ queued' = 0
    /\ UNCHANGED <<ticket, ws, explicit, reconnect, wallet, identity>>

\* The hub's close frame has come: CLOSING, no event yet.
RemoteClose(s) ==
    /\ socket[s] = "open"
    /\ socket' = [socket EXCEPT ![s] = "closing"]
    /\ UNCHANGED <<ticket, ws, status, explicit, timers, queued, wallet, identity>>

\* Mutant of OnClose: a refused attempt is not retried.
OnCloseRetriesDrops(s) ==
    /\ socket[s] # "closed"
    /\ socket' = [socket EXCEPT ![s] = "closed"]
    /\ heartbeat' = FALSE
    /\ status' = "disconnected"
    /\ reconnect' = (reconnect \/ (~explicit /\ status = "connected"))
    /\ UNCHANGED <<ticket, ws, explicit, queued, wallet, identity>>

\* Mutant of OnClose: a lost connection is reported as an error.
OnCloseReportsError(s) ==
    /\ socket[s] # "closed"
    /\ socket' = [socket EXCEPT ![s] = "closed"]
    /\ heartbeat' = FALSE
    /\ status' = IF explicit THEN "disconnected" ELSE "error"
    /\ reconnect' = (reconnect \/ ~explicit)
    /\ UNCHANGED <<ticket, ws, explicit, queued, wallet, identity>>

\* onclose: refused, dropped or closed.  It is the client's heartbeat, status
\* and reconnection that change, whichever socket this was.
OnClose(s) ==
    /\ socket[s] # "closed"
    /\ socket' = [socket EXCEPT ![s] = "closed"]
    /\ heartbeat' = FALSE
    /\ status' = "disconnected"
    /\ reconnect' = (reconnect \/ ~explicit)
    /\ UNCHANGED <<ticket, ws, explicit, queued, wallet, identity>>

-----------------------------------------------------------------------------
(* The wallet.                                                             *)

\* Mutant of SetAddress: the token stays.
SetAddressKeepsToken(w) ==
    /\ address' = w
    /\ UNCHANGED token
    /\ IF token # NoWallet /\ address # w
       THEN Disconnect
       ELSE /\ UNCHANGED <<link, timers>>
            /\ IF status = "connected" /\ token = NoWallet THEN Send ELSE UNCHANGED queued

\* setAddress(w): a token of another wallet is dropped and its socket closed;
\* an anonymous connection registers again.
SetAddress(w) ==
    /\ address' = w
    /\ IF token # NoWallet /\ address # w
       THEN token' = NoWallet /\ Disconnect
       ELSE /\ UNCHANGED <<token, link, timers>>
            /\ IF status = "connected" /\ token = NoWallet THEN Send ELSE UNCHANGED queued

\* Effects of the former wallet are cancelled: they no longer await their run.
Cancelled == [k \in Call |-> IF call[k] = NoCall THEN NoCall
                                                 ELSE [call[k] EXCEPT !.live = FALSE]]

\* The user switches the wallet; the page renders with the new one.
SwitchWallet(w) ==
    /\ w # wallet
    /\ wallet' = w
    /\ IF w # NoWallet /\ address # w
       THEN SetAddress(w)
       ELSE UNCHANGED <<link, timers, queued, address, token>>
    /\ call' = Cancelled
    /\ UNCHANGED <<authAddress, promise, session>>

\* Any later render sets the address again if something changed it.
Render ==
    /\ wallet # NoWallet
    /\ address # wallet
    /\ SetAddress(wallet)
    /\ UNCHANGED <<wallet, authAddress, promise, call, session>>

\* All components that used the connection are gone from the page.
Unmount ==
    /\ call' = Cancelled
    /\ UNCHANGED <<link, timers, queued, wallet, address, token, authAddress, promise, session>>

(***************************************************************************)
(* The effect of useSignaling, in a mounted component, calls authenticate  *)
(* for the current wallet, and connects when it succeeds.                  *)
(***************************************************************************)

\* A token is there.
HaveToken ==
    /\ wallet # NoWallet
    /\ token # NoWallet /\ authAddress = wallet
    /\ Connect(token)
    /\ UNCHANGED <<timers, queued, wallet, identity>>

\* A run for this wallet is under way: await it.
JoinCall ==
    /\ wallet # NoWallet
    /\ token = NoWallet /\ promise # NoCall /\ authAddress = wallet
    /\ call' = [call EXCEPT ![promise].live = TRUE]
    /\ UNCHANGED <<link, timers, queued, wallet, address, token, authAddress, promise, session>>

MustAuthenticate ==
    /\ wallet # NoWallet
    /\ ~(authAddress = wallet /\ (token # NoWallet \/ promise # NoCall))

\* The session of an earlier visit is in sessionStorage.
UseCachedSession ==
    /\ MustAuthenticate
    /\ session[wallet] = "valid"
    /\ token' = wallet
    /\ address' = wallet
    /\ authAddress' = wallet
    /\ promise' = NoCall
    /\ Connect(wallet)
    /\ UNCHANGED <<timers, queued, wallet, call, session>>

\* Ask for a challenge, have it signed, ask for a session.
StartCall(k) ==
    /\ MustAuthenticate
    /\ session[wallet] # "valid"
    /\ call[k] = NoCall
    /\ call' = [call EXCEPT ![k] = [wallet |-> wallet, live |-> TRUE]]
    /\ authAddress' = wallet
    /\ promise' = k
    /\ UNCHANGED <<link, timers, queued, wallet, address, token, session>>

\* The session has come: the client takes it, whatever the wallet is by now.
CallSucceeds(k) ==
    LET w == call[k].wallet
    IN  /\ call[k] # NoCall
        /\ token' = w
        /\ address' = w
        /\ authAddress' = w
        /\ session' = [session EXCEPT ![w] = "valid"]
        /\ promise' = NoCall
        /\ call' = [call EXCEPT ![k] = NoCall]
        /\ IF call[k].live THEN Connect(w) ELSE UNCHANGED link
        /\ UNCHANGED <<timers, queued, wallet>>

\* The user refused to sign, or a request failed.
CallFails(k) ==
    /\ call[k] # NoCall
    /\ promise' = NoCall
    /\ call' = [call EXCEPT ![k] = NoCall]
    /\ IF call[k].live THEN Disconnect ELSE UNCHANGED <<link, timers, queued>>
    /\ UNCHANGED <<wallet, address, token, authAddress, session>>

\* 24 hours have passed.
Expire(w) ==
    /\ session[w] = "valid"
    /\ session' = [session EXCEPT ![w] = "expired"]
    /\ UNCHANGED <<link, timers, queued, wallet, address, token, authAddress, promise, call>>

-----------------------------------------------------------------------------

Next ==
    \/ SendMessage \/ ConnectRequest
    \/ HeartbeatTick \/ ReconnectFires
    \/ \E s \in Socket : OnOpen(s) \/ RemoteClose(s) \/ OnClose(s)
    \/ \E w \in Wallet \cup {NoWallet} : SwitchWallet(w)
    \/ Render \/ Unmount
    \/ HaveToken \/ JoinCall \/ UseCachedSession
    \/ \E k \in Call : StartCall(k) \/ CallSucceeds(k) \/ CallFails(k)
    \/ \E w \in Wallet : Expire(w)

(***************************************************************************)
(* Timers fire; a connection attempt and a close handshake end (browsers   *)
(* time both out); the hub is reachable again and again, so that attempts  *)
(* with a valid token do not fail for ever.  Nothing is assumed of users.  *)
(***************************************************************************)
Fairness ==
    /\ WF_vars(ReconnectFires)
    /\ \A s \in Socket :
          /\ WF_vars(socket[s] = "connecting" /\ (OnOpen(s) \/ OnClose(s)))
          /\ WF_vars(socket[s] = "closing" /\ OnClose(s))
    /\ SF_vars(\E s \in Socket : ticket[s] # NoWallet /\ OnOpen(s))

Spec == Init /\ [][Next]_vars
FairSpec == Spec /\ Fairness

-----------------------------------------------------------------------------
(* Safety.                                                                 *)

\* Through every overlap of connects, disconnects, timers and late close
\* events there is at most one live socket, the one the client sends on: two
\* would register under one peer ID and kick each other from the hub.
OneLiveSocket == \A s \in Socket : socket[s] \in Live => s = ws

\* Nothing waits in the queue while the socket is open: what was announced or
\* offered while offline went out when it opened.
NothingHeldBack == Online => queued = 0

\* A client whose socket is gone, and that nobody told to disconnect, always
\* has its reconnection timer running.
OfflineIsRetried == ws # NoSocket /\ socket[ws] = "closed" => reconnect

\* After an explicit disconnect nothing brings the connection back by itself:
\* no timer, no live socket, whatever events of old sockets are still to come.
ExplicitIsQuiet ==
    explicit => ~heartbeat /\ ~reconnect /\ \A s \in Socket : socket[s] \notin Live

\* The token is always one of the wallet in whose name the client registers
\* and announces.
TokenOfAddress == token # NoWallet => token = address

\* What the client's 30 second heartbeat is for: as long as the socket is open
\* it runs, so that the hub never evicts a connected seeder.
HeartbeatWhileOnline == Online => heartbeat

(***************************************************************************)
(* Liveness.                                                               *)
(***************************************************************************)

\* A client that keeps wanting its connection and holds a session that does
\* not expire gets online again after every drop.
ComesBack ==
    <>[](ws # NoSocket /\ token # NoWallet /\ session[token] = "valid") => []<>Online

=============================================================================
