--------------------------- MODULE WalletSession ---------------------------
(***************************************************************************)
(* Signing in to the hub with a wallet: the challenge stores, the session  *)
(* tokens and the handlers of the signaling server                         *)
(* (src/signaling/internal/auth, src/signaling/cmd/signaling/main.go), as  *)
(* the tabs of a browser use them.                                         *)
(*                                                                         *)
(* A store holds one challenge per wallet.  Several tabs of one wallet     *)
(* sign in at once, a user is slow to sign or has switched the account, an *)
(* answer is lost on the way, the server restarts.  A nonce and a peer ID  *)
(* are fresh random values, here the nonce's number; a signature is the    *)
(* account that made it and the nonce in the message; formats, CORS and    *)
(* the encodings of token and signature are left out.                      *)
(***************************************************************************)
EXTENDS Common, Sequences, FiniteSets

CONSTANTS Tab, NoChallenge,
          ChallengeTTL, SessionTTL,  \* in ticks
          MaxNonce                   \* bound: challenges created

VARIABLES
    store,      \* the ChallengeStore main() chose
    challenges, \* the challenge of each wallet
    tab,        \* the sign-in of each tab
    born,       \* history: wallet and time of each challenge, by nonce
    issued,     \* history: the tokens
    spoiled     \* history: nonces replaced, taken by another tab, or forgotten

sessionVars == <<store, challenges, tab, born, issued, spoiled>>

-----------------------------------------------------------------------------

SignedOut == [step |-> "out", wallet |-> NoWallet, nonce |-> 0, signer |-> NoWallet]

ASSUME SessionAssumption ==
    /\ NoWallet \notin Wallet
    /\ ChallengeTTL \in Nat
    /\ SessionTTL \in Nat
    /\ NoChallenge \notin [nonce : Nat, expires : Nat]

SessionInit ==
    /\ store \in {"memory", "redis"}
    /\ challenges = [w \in Wallet |-> NoChallenge]
    /\ tab = [t \in Tab |-> SignedOut]
    /\ born = <<>>
    /\ issued = {}
    /\ spoiled = {}

\* Redis drops a key when its TTL is over; the memory store's check is ">".
Usable(ch) == IF store = "redis" THEN now < ch.expires ELSE now <= ch.expires

\* cleanExpiredLocked, of the memory store.
Swept == [w \in Wallet |-> IF challenges[w] # NoChallenge /\ now > challenges[w].expires
                           THEN NoChallenge ELSE challenges[w]]

\* CreateChallenge: the new challenge replaces the one the wallet has.
NewChallenge == [nonce |-> Len(born) + 1, expires |-> now + ChallengeTTL]

Created(w) == [(IF store = "memory" THEN Swept ELSE challenges) EXCEPT ![w] = NewChallenge]

\* POST /v1/auth/challenge.
RequestChallenge(t, w) ==
    /\ tab[t].step \in {"out", "in", "refused"}
    /\ Len(born) < MaxNonce
    /\ born' = Append(born, [wallet |-> w, at |-> now])
    /\ challenges' = Created(w)
    /\ tab' = [tab EXCEPT ![t] = [step |-> "signing", wallet |-> w,
                                  nonce |-> NewChallenge.nonce, signer |-> NoWallet]]
    /\ spoiled' = spoiled \cup {challenges[v].nonce : v \in {w} \ {u \in Wallet : challenges[u] = NoChallenge}}
    /\ UNCHANGED <<store, issued, now>>

\* The user signs the message with the account selected by then, or declines.
Sign(t, account) ==
    /\ tab[t].step = "signing"
    /\ tab' = [tab EXCEPT ![t].step = IF account = NoWallet THEN "refused" ELSE "signed",
                          ![t].signer = account]
    /\ UNCHANGED <<store, challenges, born, issued, spoiled, now>>

\* Mutant of Consumed: the challenge stays until it expires.
ConsumedLater(w) == challenges

\* ConsumeChallenge: the challenge is gone, whatever becomes of the request.
Consumed(w) == [challenges EXCEPT ![w] = NoChallenge]

\* VerifySignature: the signer recovered from the stored challenge's message.
Verified(ch, t) == ch.nonce = tab[t].nonce /\ tab[t].signer = tab[t].wallet

\* GenerateSessionToken.
Token(t) == [nonce |-> tab[t].nonce, wallet |-> tab[t].wallet, signer |-> tab[t].signer,
             at |-> now]

\* POST /v1/auth/session; the answer may be lost.
RequestSession(t) ==
    /\ tab[t].step = "signed"
    /\ LET w == tab[t].wallet
           ch == challenges[w]
           good == ch # NoChallenge /\ Usable(ch) /\ Verified(ch, t) IN
       /\ challenges' = Consumed(w)
       /\ spoiled' = IF ch = NoChallenge \/ ch.nonce = tab[t].nonce
                     THEN spoiled ELSE spoiled \cup {ch.nonce}
       /\ issued' = IF good THEN issued \cup {Token(t)} ELSE issued
       /\ \E answered \in BOOLEAN :
             tab' = [tab EXCEPT ![t].step = IF good /\ answered THEN "in" ELSE "refused"]
    /\ UNCHANGED <<store, born, now>>

\* VerifySessionToken, of the token the tab got for its nonce.
Unexpired(t) == \E i \in issued : i.nonce = tab[t].nonce /\ now <= i.at + SessionTTL

\* ServeWS with the token in the URL: connected under the token's peer ID, or
\* 401.
Connect(t) ==
    /\ tab[t].step = "in"
    /\ tab' = [tab EXCEPT ![t].step = IF Unexpired(t) THEN "connected" ELSE "refused"]
    /\ UNCHANGED <<store, challenges, born, issued, spoiled, now>>

\* The socket is closed; the tab still has its token.
Disconnect(t) ==
    /\ tab[t].step = "connected"
    /\ tab' = [tab EXCEPT ![t].step = "in"]
    /\ UNCHANGED <<store, challenges, born, issued, spoiled, now>>

\* The server is restarted: Redis keeps the challenges, the memory store does
\* not, and main() falls back to the memory store when Redis does not answer.
RestartHub ==
    /\ \E s \in {store, "memory"} :
          /\ store' = s
          /\ IF store = "redis" /\ s = "redis" THEN UNCHANGED <<challenges, spoiled>>
             ELSE /\ challenges' = [w \in Wallet |-> NoChallenge]
                  /\ spoiled' = spoiled \cup {challenges[w].nonce :
                                   w \in {v \in Wallet : challenges[v] # NoChallenge}}
    /\ UNCHANGED <<tab, born, issued, now>>

SessionNext ==
    \/ \E t \in Tab :
          \/ \E w \in Wallet : RequestChallenge(t, w)
          \/ \E account \in Wallet \cup {NoWallet} : Sign(t, account)
          \/ RequestSession(t) \/ Connect(t) \/ Disconnect(t)
    \/ RestartHub
    \/ Tick /\ UNCHANGED sessionVars

SessionSpec == now = 0 /\ SessionInit /\ [][SessionNext]_<<sessionVars, now>>

-----------------------------------------------------------------------------

\* A token is issued once per challenge, for the wallet the challenge was
\* created for and that signed it, before the challenge's two minutes are over
\* (handler of /v1/auth/session, ConsumeChallenge of both stores).
TokensEarned ==
    \A i \in issued :
        /\ born[i.nonce].wallet = i.wallet
        /\ i.signer = i.wallet
        /\ i.at <= born[i.nonce].at + ChallengeTTL
        /\ \A j \in issued : j.nonce = i.nonce => j = i

\* A challenge that was used, with whatever success, cannot be used again.
ChallengeSpent ==
    \A w \in Wallet : challenges[w] # NoChallenge =>
        /\ \A i \in issued : i.nonce # challenges[w].nonce
        /\ \A t \in Tab : tab[t].nonce = challenges[w].nonce =>
              tab[t].step \in {"signing", "signed"} \/ tab[t].signer = NoWallet

\* Nothing but a second sign-in of the same wallet, a restart or the two
\* minutes spoils a sign-in on its way: its challenge is there, unexpired.
LoneSignInHolds ==
    \A t \in Tab :
        LET n == tab[t].nonce IN
        tab[t].step \in {"signing", "signed"} /\ n \notin spoiled
            /\ now < born[n].at + ChallengeTTL =>
                /\ challenges[tab[t].wallet] # NoChallenge
                /\ challenges[tab[t].wallet].nonce = n
                /\ Usable(challenges[tab[t].wallet])

\* A tab is on the hub only with a token of its own, for its own wallet.
ConnectedByToken ==
    \A t \in Tab : tab[t].step \in {"in", "connected"} =>
        \E i \in issued : i.nonce = tab[t].nonce /\ i.wallet = tab[t].wallet

\* What signing in promises the wallet and the hub (/v1/auth of
\* cmd/signaling/main.go, ServeWS).
SessionCorrect == TokensEarned /\ ChallengeSpent /\ LoneSignInHolds /\ ConnectedByToken
=============================================================================
