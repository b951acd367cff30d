------------------------ MODULE HubServices_proofs ------------------------
(***************************************************************************)
(* The services around the hub's handlers keep their promises, for any     *)
(* values of the constants: signing in, the limits of connections and      *)
(* messages, the relay between replicas, the tracker they share in Redis.  *)
(*                                                                         *)
(* Signing in.  A nonce ties together a challenge of a store, the tab that *)
(* asked for it and a token; "born" remembers for whom and when it was made. *)
(* SessionInv says that these agree: what a store holds and what a tab signs *)
(* under a nonce is of the wallet the nonce was made for, and no two tabs  *)
(* have the same nonce.  Hence what one tab consumes is its own challenge, or *)
(* one that its wallet's newer request put there and that counts as spoiled. *)
(*                                                                         *)
(* Limits.  What the limiter keeps of an address is what it let in during the *)
(* last window; a bucket's tokens are bounded by what was refilled since any *)
(* message, the sum of the messages after it taken off.                    *)
(*                                                                         *)
(* Relay.  A message of a subscription is newer than what is in the boxes of *)
(* the replica's sockets; what is known of a published one follows it from *)
(* the subscription of the one replica that has its addressee into a box.  *)
(*                                                                         *)
(* Tracker.  Between operations what was shown is kept and what is kept was *)
(* shown, key by key (Settled).  Within one, the commands that are left say *)
(* what is still to come: each key has been renewed, has expired, or has its *)
(* command in the list (Announcing, Beating, Removing).                    *)
(***************************************************************************)
EXTENDS WalletSession, ConnectionLimits, HubRelay, RedisTracker, SumTheorems,
        SequenceTheorems, FiniteSetTheorems, TLAPS

-----------------------------------------------------------------------------
(* Signing in.                                                             *)

Step == {"out", "signing", "signed", "refused", "in", "connected"}
Account == Wallet \cup {NoWallet}
Challenge == [nonce : Nat, expires : Nat]

\* The types.
SessionTypeOK ==
    /\ now \in Nat
    /\ store \in {"memory", "redis"}
    /\ challenges \in [Wallet -> Challenge \cup {NoChallenge}]
    /\ tab \in [Tab -> [step : Step, wallet : Account, nonce : Nat, signer : Account]]
    /\ born \in Seq([wallet : Wallet, at : Nat])
    /\ issued \subseteq [nonce : Nat, wallet : Account, signer : Account, at : Nat]

\* A store's challenge is of its wallet's and expires in time.
StoreAgrees ==
    \A w \in Wallet : challenges[w] # NoChallenge =>
        /\ challenges[w].nonce \in 1..Len(born)
        /\ born[challenges[w].nonce].wallet = w
        /\ challenges[w].expires = born[challenges[w].nonce].at + ChallengeTTL

\* A tab signs in with a nonce made for its wallet and for no other tab.
TabsAgree ==
    \A t \in Tab :
        /\ tab[t].nonce \in 0..Len(born)
        /\ tab[t].step # "out" => /\ tab[t].nonce \in 1..Len(born)
                                  /\ born[tab[t].nonce].wallet = tab[t].wallet
                                  /\ tab[t].wallet \in Wallet
        /\ \A u \in Tab : tab[u].nonce = tab[t].nonce /\ tab[t].nonce # 0 => u = t

\* A token bears a nonce that was made.
TokensMade == \A i \in issued : i.nonce \in 1..Len(born)

SessionInv ==
    /\ SessionTypeOK
    /\ StoreAgrees /\ TabsAgree /\ TokensMade
    /\ TokensEarned /\ ChallengeSpent /\ LoneSignInHolds /\ ConnectedByToken

-----------------------------------------------------------------------------

\* Nothing has happened yet.
LEMMA InitHolds == now = 0 /\ SessionInit => SessionInv
<1> SUFFICES ASSUME now = 0, SessionInit PROVE SessionInv
  OBVIOUS
<1> USE SessionAssumption DEF SessionInit, SignedOut, Account, Step, Challenge
<1>1. SessionTypeOK
  BY DEF SessionTypeOK
<1>2. StoreAgrees /\ TokensMade /\ TokensEarned /\ ChallengeSpent
  BY DEF StoreAgrees, TokensMade, TokensEarned, ChallengeSpent
<1>3. TabsAgree /\ LoneSignInHolds /\ ConnectedByToken
  <2>1. \A t \in Tab : tab[t] = SignedOut
    BY DEF SignedOut
  <2> QED
    BY <2>1 DEF TabsAgree, LoneSignInHolds, ConnectedByToken
<1> QED
  BY <1>1, <1>2, <1>3 DEF SessionInv

-----------------------------------------------------------------------------

\* The new challenge has a nonce nobody has, and takes the place of the wallet's
\* former one, which counts as spoiled from now on.
LEMMA RequestChallengeStep ==
    ASSUME SessionInv, NEW t \in Tab, NEW w \in Wallet, RequestChallenge(t, w)
    PROVE  SessionInv'
<1> DEFINE n == Len(born) + 1
<1> USE SessionAssumption
<1>1. /\ now \in Nat /\ now' = now /\ store' = store /\ issued' = issued
      /\ born \in Seq([wallet : Wallet, at : Nat])
      /\ challenges \in [Wallet -> Challenge \cup {NoChallenge}]
      /\ tab \in [Tab -> [step : Step, wallet : Account, nonce : Nat, signer : Account]]
      /\ issued \subseteq [nonce : Nat, wallet : Account, signer : Account, at : Nat]
      /\ Len(born) \in Nat /\ n \in Nat
  BY DEF RequestChallenge, SessionInv, SessionTypeOK
<1>2. /\ born' \in Seq([wallet : Wallet, at : Nat])
      /\ Len(born') = n
      /\ born'[n] = [wallet |-> w, at |-> now]
      /\ \A k \in 1..Len(born) : born'[k] = born[k]
  <2>1. born' = Append(born, [wallet |-> w, at |-> now])
    BY DEF RequestChallenge
  <2> QED
    BY <1>1, <2>1
<1>3. NewChallenge = [nonce |-> n, expires |-> now + ChallengeTTL] /\ NewChallenge \in Challenge
  BY <1>1 DEF NewChallenge, Challenge
<1>4. /\ challenges' \in [Wallet -> Challenge \cup {NoChallenge}]
      /\ challenges'[w] = NewChallenge
      /\ \A v \in Wallet \ {w} : \/ challenges'[v] = challenges[v]
                                 \/ /\ challenges'[v] = NoChallenge
                                    /\ challenges[v] # NoChallenge
                                    /\ now > challenges[v].expires
  BY <1>1, <1>3 DEF RequestChallenge, Created, Swept
<1>5. /\ tab' \in [Tab -> [step : Step, wallet : Account, nonce : Nat, signer : Account]]
      /\ tab'[t] = [step |-> "signing", wallet |-> w, nonce |-> n, signer |-> NoWallet]
      /\ \A u \in Tab \ {t} : tab'[u] = tab[u]
  BY <1>1, <1>3 DEF RequestChallenge, Step, Account
<1>6. SessionTypeOK'
  BY <1>1, <1>2, <1>4, <1>5 DEF SessionTypeOK, SessionInv
<1>7. StoreAgrees'
  <2> SUFFICES ASSUME NEW v \in Wallet, challenges'[v] # NoChallenge
               PROVE  /\ challenges'[v].nonce \in 1..Len(born')
                      /\ born'[challenges'[v].nonce].wallet = v
                      /\ challenges'[v].expires = born'[challenges'[v].nonce].at + ChallengeTTL
    BY DEF StoreAgrees
  <2>1. CASE v = w
    BY <2>1, <1>1, <1>2, <1>3, <1>4
  <2>2. CASE v # w
    <3> DEFINE m == challenges[v].nonce
    <3>1. challenges'[v] = challenges[v]
      BY <2>2, <1>4
    <3>2. /\ m \in 1..Len(born)
          /\ born[m].wallet = v
          /\ challenges[v].expires = born[m].at + ChallengeTTL
      BY <3>1 DEF SessionInv, StoreAgrees
    <3>3. born'[m] = born[m]
      BY <3>2, <1>2
    <3>4. m \in 1..Len(born')
      BY <3>2, <1>1, <1>2
    <3> QED
      BY <3>1, <3>2, <3>3, <3>4
  <2> QED
    BY <2>1, <2>2
<1>8. TabsAgree'
  <2>1. \A u \in Tab : tab[u].nonce \in 0..Len(born)
    BY DEF SessionInv, TabsAgree
  <2>2. \A u \in Tab \ {t} : tab'[u].nonce \in 0..Len(born) /\ tab'[u].nonce # n
    BY <1>1, <1>5, <2>1
  <2> SUFFICES ASSUME NEW u \in Tab
               PROVE  /\ tab'[u].nonce \in 0..Len(born')
                      /\ tab'[u].step # "out" => /\ tab'[u].nonce \in 1..Len(born')
                                                 /\ born'[tab'[u].nonce].wallet = tab'[u].wallet
                                                 /\ tab'[u].wallet \in Wallet
                      /\ \A x \in Tab : tab'[x].nonce = tab'[u].nonce /\ tab'[u].nonce # 0 => x = u
    BY DEF TabsAgree
  <2>3. CASE u = t
    BY <2>2, <2>3, <1>1, <1>2, <1>5
  <2>4. CASE u # t
    <3>1. tab'[u] = tab[u] /\ tab'[t].nonce = n
      BY <2>4, <1>5
    <3>2. /\ tab'[u].nonce \in 0..Len(born')
          /\ tab'[u].step # "out" => /\ tab'[u].nonce \in 1..Len(born')
                                     /\ born'[tab'[u].nonce].wallet = tab'[u].wallet
                                     /\ tab'[u].wallet \in Wallet
      <4>1. /\ tab[u].nonce \in 0..Len(born)
            /\ tab[u].step # "out" => /\ tab[u].nonce \in 1..Len(born)
                                      /\ born[tab[u].nonce].wallet = tab[u].wallet
                                      /\ tab[u].wallet \in Wallet
        BY DEF SessionInv, TabsAgree
      <4>2. tab[u].nonce \in 1..Len(born) => born'[tab[u].nonce] = born[tab[u].nonce]
        BY <1>2
      <4>3. tab[u].nonce \in 0..Len(born')
        BY <4>1, <1>1, <1>2
      <4>4. tab[u].nonce \in 1..Len(born) => tab[u].nonce \in 1..Len(born')
        BY <1>1, <1>2
      <4> QED
        BY <3>1, <4>1, <4>2, <4>3, <4>4
    <3>3. \A x \in Tab : tab'[x].nonce = tab'[u].nonce /\ tab'[u].nonce # 0 => x = u
      BY <3>1, <2>2, <2>4, <1>5 DEF SessionInv, TabsAgree
    <3> QED
      BY <3>2, <3>3
  <2> QED
    BY <2>3, <2>4
<1>9. TokensMade' /\ TokensEarned'
  <2>1. \A i \in issued : i.nonce \in 1..Len(born) /\ born'[i.nonce] = born[i.nonce]
    BY <1>2 DEF SessionInv, TokensMade
  <2>2. TokensMade'
    BY <1>1, <1>2 DEF SessionInv, TokensMade
  <2>3. TokensEarned'
    BY <1>1, <2>1 DEF SessionInv, TokensEarned
  <2> QED
    BY <2>2, <2>3
<1>10. ChallengeSpent'
  <2> SUFFICES ASSUME NEW v \in Wallet, challenges'[v] # NoChallenge
               PROVE  /\ \A i \in issued' : i.nonce # challenges'[v].nonce
                      /\ \A u \in Tab : tab'[u].nonce = challenges'[v].nonce =>
                            tab'[u].step \in {"signing", "signed"} \/ tab'[u].signer = NoWallet
    BY DEF ChallengeSpent
  <2>1. CASE v = w
    <3>1. challenges'[v].nonce = n
      BY <2>1, <1>3, <1>4
    <3>2. \A i \in issued' : i.nonce # n
      BY <1>1 DEF SessionInv, TokensMade
    <3>3. \A u \in Tab \ {t} : tab'[u].nonce # n
      BY <1>1, <1>5 DEF SessionInv, TabsAgree
    <3> QED
      BY <3>1, <3>2, <3>3, <1>5
  <2>2. CASE v # w
    <3>1. challenges'[v] = challenges[v] /\ challenges[v].nonce \in 1..Len(born)
      BY <2>2, <1>4 DEF SessionInv, StoreAgrees
    <3>2. tab'[t].nonce # challenges[v].nonce
      BY <3>1, <1>1, <1>5
    <3>3. /\ \A i \in issued : i.nonce # challenges[v].nonce
          /\ \A u \in Tab : tab[u].nonce = challenges[v].nonce =>
                tab[u].step \in {"signing", "signed"} \/ tab[u].signer = NoWallet
      BY <3>1 DEF SessionInv, ChallengeSpent
    <3> QED
      BY <3>1, <3>2, <3>3, <1>1, <1>5
  <2> QED
    BY <2>1, <2>2
<1>11. LoneSignInHolds'
  <2> SUFFICES ASSUME NEW u \in Tab, tab'[u].step \in {"signing", "signed"},
                      tab'[u].nonce \notin spoiled',
                      now < born'[tab'[u].nonce].at + ChallengeTTL
               PROVE  /\ challenges'[tab'[u].wallet] # NoChallenge
                      /\ challenges'[tab'[u].wallet].nonce = tab'[u].nonce
                      /\ Usable(challenges[tab[u].wallet])'
    BY <1>1 DEF LoneSignInHolds
  <2>1. CASE u = t
    BY <2>1, <1>1, <1>2, <1>3, <1>4, <1>5 DEF Usable, Challenge
  <2>2. CASE u # t
    <3> DEFINE v == tab[u].wallet  m == tab[u].nonce
    <3>1. /\ tab'[u] = tab[u] /\ m \in 1..Len(born) /\ born'[m] = born[m]
          /\ v \in Wallet /\ born[m].wallet = v
      BY <2>2, <1>2, <1>5 DEF SessionInv, TabsAgree
    <3>2. challenges[v] # NoChallenge /\ challenges[v].nonce = m /\ Usable(challenges[v])
      BY <3>1, <1>1 DEF SessionInv, LoneSignInHolds, RequestChallenge
    <3>3. challenges[v].expires = born[m].at + ChallengeTTL
      BY <3>1, <3>2 DEF SessionInv, StoreAgrees
    <3>4. v # w
      BY <3>1, <3>2 DEF RequestChallenge
    <3>5. challenges'[v] = challenges[v]
      <4>1. now < challenges[v].expires /\ challenges[v].expires \in Nat
        BY <3>1, <3>2, <3>3, <1>1 DEF Challenge
      <4> QED
        BY <4>1, <3>1, <3>4, <1>1, <1>4
    <3> QED
      BY <3>1, <3>2, <3>5, <1>1 DEF Usable
  <2> QED
    BY <2>1, <2>2
<1>12. ConnectedByToken'
  <2> SUFFICES ASSUME NEW u \in Tab, tab'[u].step \in {"in", "connected"}
               PROVE  \E i \in issued : i.nonce = tab'[u].nonce /\ i.wallet = tab'[u].wallet
    BY <1>1 DEF ConnectedByToken
  <2>1. tab'[u] = tab[u]
    BY <1>5
  <2> QED
    BY <2>1 DEF SessionInv, ConnectedByToken
<1> QED
  BY <1>6, <1>7, <1>8, <1>9, <1>10, <1>11, <1>12 DEF SessionInv

\* What a nonce was made for does not change any more.
LEMMA SignStep ==
    ASSUME SessionInv, NEW t \in Tab, NEW account \in Account, Sign(t, account)
    PROVE  SessionInv'
<1>1. /\ now' = now /\ store' = store /\ issued' = issued /\ challenges' = challenges
      /\ born' = born /\ spoiled' = spoiled
      /\ tab \in [Tab -> [step : Step, wallet : Account, nonce : Nat, signer : Account]]
  BY DEF Sign, SessionInv, SessionTypeOK
<1>2. /\ tab' \in [Tab -> [step : Step, wallet : Account, nonce : Nat, signer : Account]]
      /\ tab[t].step = "signing"
      /\ \A u \in Tab : tab'[u].nonce = tab[u].nonce /\ tab'[u].wallet = tab[u].wallet
      /\ \A u \in Tab \ {t} : tab'[u] = tab[u]
      /\ \/ tab'[t].step = "signed"
         \/ tab'[t].step = "refused" /\ tab'[t].signer = NoWallet
  BY <1>1 DEF Sign, Step, Account
<1>3. SessionTypeOK' /\ StoreAgrees' /\ TokensMade' /\ TokensEarned'
  BY <1>1, <1>2 DEF SessionInv, SessionTypeOK, StoreAgrees, TokensMade, TokensEarned
<1>4. TabsAgree'
  BY <1>1, <1>2 DEF SessionInv, TabsAgree
<1>5. ChallengeSpent'
  BY <1>1, <1>2 DEF SessionInv, ChallengeSpent
<1>6. LoneSignInHolds'
  <2> SUFFICES ASSUME NEW u \in Tab, tab'[u].step \in {"signing", "signed"}
               PROVE  tab[u].step \in {"signing", "signed"}
    BY <1>1, <1>2 DEF SessionInv, LoneSignInHolds, Usable
  <2> QED
    BY <1>2
<1>7. ConnectedByToken'
  BY <1>1, <1>2 DEF SessionInv, ConnectedByToken
<1> QED
  BY <1>3, <1>4, <1>5, <1>6, <1>7 DEF SessionInv

\* The request consumes the challenge of the tab's wallet.  If that is the tab's
\* own, a token may be issued for it, the first; if it is a newer one, the tab
\* that asked for it is spoiled.
LEMMA RequestSessionStep ==
    ASSUME SessionInv, NEW t \in Tab, RequestSession(t)
    PROVE  SessionInv'
<1> DEFINE w == tab[t].wallet
           ch == challenges[w]
           good == ch # NoChallenge /\ Usable(ch) /\ Verified(ch, t)
<1> USE SessionAssumption
<1>1. /\ now \in Nat /\ now' = now /\ store' = store /\ born' = born
      /\ challenges \in [Wallet -> Challenge \cup {NoChallenge}]
      /\ tab \in [Tab -> [step : Step, wallet : Account, nonce : Nat, signer : Account]]
      /\ issued \subseteq [nonce : Nat, wallet : Account, signer : Account, at : Nat]
  BY DEF RequestSession, SessionInv, SessionTypeOK
<1>2. /\ tab[t].step = "signed" /\ w \in Wallet
      /\ tab[t].nonce \in 1..Len(born) /\ born[tab[t].nonce].wallet = w
  BY DEF RequestSession, SessionInv, TabsAgree
<1>3. /\ challenges' \in [Wallet -> Challenge \cup {NoChallenge}]
      /\ challenges'[w] = NoChallenge
      /\ \A v \in Wallet \ {w} : challenges'[v] = challenges[v]
  BY <1>1, <1>2 DEF RequestSession, Consumed
<1>4. /\ issued' = IF good THEN issued \cup {Token(t)} ELSE issued
      /\ Token(t) = [nonce |-> tab[t].nonce, wallet |-> w, signer |-> tab[t].signer, at |-> now]
  BY DEF RequestSession, Token
<1>5. /\ tab' \in [Tab -> [step : Step, wallet : Account, nonce : Nat, signer : Account]]
      /\ \A u \in Tab : /\ tab'[u].nonce = tab[u].nonce /\ tab'[u].wallet = tab[u].wallet
                        /\ tab'[u].signer = tab[u].signer
      /\ \A u \in Tab \ {t} : tab'[u] = tab[u]
      /\ tab'[t].step \in {"in", "refused"}
      /\ tab'[t].step = "in" => good
  <2> PICK answered \in BOOLEAN :
             tab' = [tab EXCEPT ![t].step = IF good /\ answered THEN "in" ELSE "refused"]
    BY DEF RequestSession
  <2> HIDE DEF good
  <2> QED
    BY <1>1 DEF Step
<1>6. good => /\ ch.nonce = tab[t].nonce /\ tab[t].signer = w
              /\ now <= born[tab[t].nonce].at + ChallengeTTL
  <2> SUFFICES ASSUME good PROVE /\ ch.nonce = tab[t].nonce /\ tab[t].signer = w
                                 /\ now <= born[tab[t].nonce].at + ChallengeTTL
    OBVIOUS
  <2>1. ch.nonce = tab[t].nonce /\ tab[t].signer = w
    BY DEF Verified
  <2>2. ch.expires = born[tab[t].nonce].at + ChallengeTTL /\ ch.expires \in Nat
    BY <2>1, <1>1, <1>2 DEF SessionInv, StoreAgrees, Challenge
  <2>3. now <= ch.expires
    BY <2>2, <1>1 DEF Usable
  <2> QED
    BY <2>1, <2>2, <2>3
<1> HIDE DEF good
<1>7. SessionTypeOK'
  <2>1. Token(t) \in [nonce : Nat, wallet : Account, signer : Account, at : Nat]
    BY <1>1, <1>4
  <2> QED
    BY <1>1, <1>3, <1>4, <1>5, <2>1 DEF SessionInv, SessionTypeOK
<1>8. StoreAgrees'
  BY <1>1, <1>3 DEF SessionInv, StoreAgrees
<1>9. TabsAgree'
  <2>1. \A u \in Tab : tab'[u].step # "out" => tab[u].step # "out"
    BY <1>2, <1>5
  <2> QED
    BY <2>1, <1>1, <1>5 DEF SessionInv, TabsAgree
<1>10. TokensMade'
  BY <1>1, <1>2, <1>4 DEF SessionInv, TokensMade
<1>11. TokensEarned'
  <2>1. \A i \in issued : /\ born[i.nonce].wallet = i.wallet /\ i.signer = i.wallet
                          /\ i.at <= born[i.nonce].at + ChallengeTTL
                          /\ \A j \in issued : j.nonce = i.nonce => j = i
    BY DEF SessionInv, TokensEarned
  <2>2. CASE good
    <3>1. \A i \in issued : i.nonce # tab[t].nonce
      BY <2>2, <1>2, <1>6 DEF good, SessionInv, ChallengeSpent
    <3>2. issued' = issued \cup {Token(t)}
      BY <2>2, <1>4
    <3> QED
      BY <2>1, <2>2, <3>1, <3>2, <1>1, <1>2, <1>4, <1>6 DEF TokensEarned
  <2>3. CASE ~good
    BY <2>1, <2>3, <1>1, <1>4 DEF TokensEarned
  <2> QED
    BY <2>2, <2>3
<1>12. ChallengeSpent'
  <2> SUFFICES ASSUME NEW v \in Wallet, challenges'[v] # NoChallenge
               PROVE  /\ \A i \in issued' : i.nonce # challenges'[v].nonce
                      /\ \A u \in Tab : tab'[u].nonce = challenges'[v].nonce =>
                            tab'[u].step \in {"signing", "signed"} \/ tab'[u].signer = NoWallet
    BY DEF ChallengeSpent
  <2>1. v # w /\ challenges'[v] = challenges[v]
    BY <1>2, <1>3
  <2>2. born[challenges[v].nonce].wallet = v
    BY <2>1 DEF SessionInv, StoreAgrees
  <2>3. challenges[v].nonce # tab[t].nonce
    BY <2>1, <2>2, <1>2
  <2>4. \A i \in issued : i.nonce # challenges[v].nonce
    BY <2>1 DEF SessionInv, ChallengeSpent
  <2>5. \A u \in Tab : tab[u].nonce = challenges[v].nonce =>
            tab[u].step \in {"signing", "signed"} \/ tab[u].signer = NoWallet
    BY <2>1 DEF SessionInv, ChallengeSpent
  <2> QED
    BY <2>1, <2>3, <2>4, <2>5, <1>4, <1>5
<1>13. LoneSignInHolds'
  <2> SUFFICES ASSUME NEW u \in Tab, tab'[u].step \in {"signing", "signed"},
                      tab'[u].nonce \notin spoiled',
                      now < born[tab'[u].nonce].at + ChallengeTTL
               PROVE  /\ challenges'[tab'[u].wallet] # NoChallenge
                      /\ challenges'[tab'[u].wallet].nonce = tab'[u].nonce
                      /\ Usable(challenges[tab[u].wallet])'
    BY <1>1 DEF LoneSignInHolds
  <2> DEFINE v == tab[u].wallet
  <2>1. u # t /\ tab'[u] = tab[u]
    BY <1>5
  <2>2. spoiled' = IF ch = NoChallenge \/ ch.nonce = tab[t].nonce
                   THEN spoiled ELSE spoiled \cup {ch.nonce}
    BY DEF RequestSession
  <2>3. challenges[v] # NoChallenge /\ challenges[v].nonce = tab[u].nonce /\ Usable(challenges[v])
    BY <2>1, <2>2 DEF SessionInv, LoneSignInHolds
  <2>4. v \in Wallet /\ tab[u].nonce # 0
    BY <2>1, <1>1 DEF SessionInv, TabsAgree
  <2>5. tab[u].nonce # tab[t].nonce
    BY <2>1, <2>4 DEF SessionInv, TabsAgree
  <2>6. v # w
    BY <2>1, <2>2, <2>3, <2>5
  <2> QED
    BY <2>1, <2>3, <2>4, <2>6, <1>1, <1>3 DEF Usable
<1>14. ConnectedByToken'
  <2> SUFFICES ASSUME NEW u \in Tab, tab'[u].step \in {"in", "connected"}
               PROVE  \E i \in issued' : i.nonce = tab'[u].nonce /\ i.wallet = tab'[u].wallet
    BY DEF ConnectedByToken
  <2>1. CASE u = t
    <3>1. Token(t) \in issued'
      BY <2>1, <1>4, <1>5
    <3> QED
      BY <2>1, <3>1, <1>4, <1>5
  <2>2. CASE u # t
    BY <2>2, <1>4, <1>5 DEF SessionInv, ConnectedByToken
  <2> QED
    BY <2>1, <2>2
<1> QED
  BY <1>7, <1>8, <1>9, <1>10, <1>11, <1>12, <1>13, <1>14 DEF SessionInv

\* A tab connects or leaves with the token it has; the store is not asked.
LEMMA SocketStep ==
    ASSUME SessionInv, NEW t \in Tab, Connect(t) \/ Disconnect(t)
    PROVE  SessionInv'
<1>1. /\ now' = now /\ store' = store /\ issued' = issued /\ challenges' = challenges
      /\ born' = born /\ spoiled' = spoiled
      /\ tab \in [Tab -> [step : Step, wallet : Account, nonce : Nat, signer : Account]]
  BY DEF Connect, Disconnect, SessionInv, SessionTypeOK
<1>2. /\ tab' \in [Tab -> [step : Step, wallet : Account, nonce : Nat, signer : Account]]
      /\ tab[t].step \in {"in", "connected"}
      /\ tab'[t].step \in {"in", "connected", "refused"}
      /\ \A u \in Tab : /\ tab'[u].nonce = tab[u].nonce /\ tab'[u].wallet = tab[u].wallet
                        /\ tab'[u].signer = tab[u].signer
      /\ \A u \in Tab \ {t} : tab'[u] = tab[u]
  BY <1>1 DEF Connect, Disconnect, Step
<1>3. SessionTypeOK' /\ StoreAgrees' /\ TokensMade' /\ TokensEarned'
  BY <1>1, <1>2 DEF SessionInv, SessionTypeOK, StoreAgrees, TokensMade, TokensEarned
<1>4. TabsAgree'
  BY <1>1, <1>2 DEF SessionInv, TabsAgree
<1>5. ChallengeSpent'
  BY <1>1, <1>2 DEF SessionInv, ChallengeSpent
<1>6. LoneSignInHolds'
  <2> SUFFICES ASSUME NEW u \in Tab, tab'[u].step \in {"signing", "signed"}
               PROVE  tab[u].step \in {"signing", "signed"}
    BY <1>1, <1>2 DEF SessionInv, LoneSignInHolds, Usable
  <2> QED
    BY <1>2
<1>7. ConnectedByToken'
  BY <1>1, <1>2 DEF SessionInv, ConnectedByToken
<1> QED
  BY <1>3, <1>4, <1>5, <1>6, <1>7 DEF SessionInv

\* Whoever signs a challenge that the restart forgot is spoiled; Redis forgets none.
LEMMA RestartHubStep == SessionInv /\ RestartHub => SessionInv'
<1> SUFFICES ASSUME SessionInv, RestartHub PROVE SessionInv'
  OBVIOUS
<1>1. /\ now' = now /\ issued' = issued /\ born' = born /\ tab' = tab
      /\ store' \in {"memory", "redis"}
      /\ challenges \in [Wallet -> Challenge \cup {NoChallenge}]
  BY DEF RestartHub, SessionInv, SessionTypeOK
<1>2. CASE store' = store /\ challenges' = challenges /\ spoiled' = spoiled
  BY <1>1, <1>2 DEF SessionInv, SessionTypeOK, StoreAgrees, TabsAgree, TokensMade,
                    TokensEarned, ChallengeSpent, LoneSignInHolds, Usable, ConnectedByToken
<1>3. CASE /\ challenges' = [w \in Wallet |-> NoChallenge]
           /\ spoiled' = spoiled \cup {challenges[w].nonce :
                              w \in {v \in Wallet : challenges[v] # NoChallenge}}
  <2>1. SessionTypeOK' /\ StoreAgrees' /\ TabsAgree' /\ TokensMade' /\ TokensEarned'
    BY <1>1, <1>3 DEF SessionInv, SessionTypeOK, StoreAgrees, TabsAgree, TokensMade, TokensEarned
  <2>2. ChallengeSpent' /\ ConnectedByToken'
    BY <1>1, <1>3 DEF SessionInv, ChallengeSpent, ConnectedByToken
  <2>3. LoneSignInHolds'
    <3> SUFFICES ASSUME NEW t \in Tab, tab[t].step \in {"signing", "signed"},
                        tab[t].nonce \notin spoiled',
                        now < born[tab[t].nonce].at + ChallengeTTL
                 PROVE  FALSE
      BY <1>1 DEF LoneSignInHolds
    <3>1. challenges[tab[t].wallet] # NoChallenge /\ challenges[tab[t].wallet].nonce = tab[t].nonce
      BY <1>3 DEF SessionInv, LoneSignInHolds
    <3>2. tab[t].wallet \in Wallet
      BY DEF SessionInv, TabsAgree
    <3> QED
      BY <3>1, <3>2, <1>3
  <2> QED
    BY <2>1, <2>2, <2>3 DEF SessionInv
<1> QED
  BY <1>2, <1>3 DEF RestartHub

\* A challenge that is usable later was usable before.
LEMMA TickStep == SessionInv /\ Tick /\ UNCHANGED sessionVars => SessionInv'
<1> SUFFICES ASSUME SessionInv, Tick, UNCHANGED sessionVars PROVE SessionInv'
  OBVIOUS
<1> USE SessionAssumption DEF sessionVars
<1>1. now \in Nat /\ now' = now + 1
  BY DEF Tick, SessionInv, SessionTypeOK
<1>2. SessionTypeOK' /\ StoreAgrees' /\ TabsAgree' /\ TokensMade'
  BY <1>1 DEF SessionInv, SessionTypeOK, StoreAgrees, TabsAgree, TokensMade
<1>3. TokensEarned' /\ ChallengeSpent' /\ ConnectedByToken'
  BY DEF SessionInv, TokensEarned, ChallengeSpent, ConnectedByToken
<1>4. LoneSignInHolds'
  <2> SUFFICES ASSUME NEW t \in Tab, tab[t].step \in {"signing", "signed"},
                      tab[t].nonce \notin spoiled,
                      now + 1 < born[tab[t].nonce].at + ChallengeTTL
               PROVE  /\ challenges[tab[t].wallet] # NoChallenge
                      /\ challenges[tab[t].wallet].nonce = tab[t].nonce
                      /\ Usable(challenges[tab[t].wallet])'
    BY <1>1 DEF LoneSignInHolds
  <2> DEFINE n == tab[t].nonce  w == tab[t].wallet
  <2>1. w \in Wallet /\ n \in 1..Len(born) /\ born \in Seq([wallet : Wallet, at : Nat])
    BY DEF SessionInv, SessionTypeOK, TabsAgree
  <2>2. born[n].at \in Nat
    <3>1. born[n] \in [wallet : Wallet, at : Nat]
      BY <2>1, ElementOfSeq
    <3> QED
      BY <3>1
  <2>3. challenges[w] # NoChallenge /\ challenges[w].nonce = n
    <3>1. now < born[n].at + ChallengeTTL
      BY <1>1, <2>2
    <3> QED
      BY <3>1 DEF SessionInv, LoneSignInHolds
  <2>4. challenges[w].expires = born[n].at + ChallengeTTL
    BY <2>1, <2>3 DEF SessionInv, StoreAgrees
  <2> QED
    BY <2>2, <2>3, <2>4, <1>1 DEF Usable
<1> QED
  BY <1>2, <1>3, <1>4 DEF SessionInv

-----------------------------------------------------------------------------

\* Whatever tabs, users, restarts and the clock do, and however many wallets and
\* tabs there are (/v1/auth of cmd/signaling/main.go, both challenge stores): a
\* token is issued once per challenge, in time, to the wallet that asked and
\* signed; a challenge that was used is spent; a sign-in that no second one of
\* its wallet and no restart disturbs finds its challenge; and a tab is on the
\* hub only with a token of its own.
THEOREM SignInKeepsPromises == SessionSpec => []SessionCorrect
<1>1. SessionInv /\ [SessionNext]_<<sessionVars, now>> => SessionInv'
  <2> SUFFICES ASSUME SessionInv, [SessionNext]_<<sessionVars, now>> PROVE SessionInv'
    OBVIOUS
  <2>1. ASSUME NEW t \in Tab, NEW w \in Wallet, RequestChallenge(t, w) PROVE SessionInv'
    BY <2>1, RequestChallengeStep
  <2>2. ASSUME NEW t \in Tab, NEW account \in Account, Sign(t, account) PROVE SessionInv'
    BY <2>2, SignStep
  <2>3. ASSUME NEW t \in Tab, RequestSession(t) PROVE SessionInv'
    BY <2>3, RequestSessionStep
  <2>4. ASSUME NEW t \in Tab, Connect(t) \/ Disconnect(t) PROVE SessionInv'
    BY <2>4, SocketStep
  <2>5. CASE RestartHub
    BY <2>5, RestartHubStep
  <2>6. CASE Tick /\ UNCHANGED sessionVars
    BY <2>6, TickStep
  <2>7. CASE UNCHANGED <<sessionVars, now>>
    BY <2>7 DEF sessionVars, SessionInv, SessionTypeOK, StoreAgrees, TabsAgree, TokensMade,
                TokensEarned, ChallengeSpent, LoneSignInHolds, Usable, ConnectedByToken
  <2> QED
    BY <2>1, <2>2, <2>3, <2>4, <2>5, <2>6, <2>7 DEF SessionNext, Account
<1>2. SessionInv => SessionCorrect
  BY DEF SessionInv, SessionCorrect
<1> QED
  BY InitHolds, <1>1, <1>2, PTL DEF SessionSpec

-----------------------------------------------------------------------------
(* The connection limiter: which attempts the loop keeps.                  *)

\* Of two times in a sequence the later one is not smaller.
InOrder(times) == \A i, j \in DOMAIN times : i <= j => times[i] <= times[j]

\* The loop of Valid.
KeptBy(g, times) ==
    g = [i \in 0..Len(times) |-> IF i = 0 THEN <<>>
                                 ELSE IF times[i] + Window > now THEN Append(g[i - 1], times[i])
                                 ELSE g[i - 1]]

\* The first k attempts have left the window, the others have not.
Cutoff(k, times) ==
    /\ k \in 0..Len(times)
    /\ \A i \in 1..k : times[i] + Window <= now
    /\ \A i \in (k + 1)..Len(times) : times[i] + Window > now

LEMMA CutoffExists ==
    ASSUME now \in Nat, NEW times \in Seq(Nat), InOrder(times)
    PROVE  \E k : Cutoff(k, times)
<1> DEFINE T == {k \in 0..Len(times) : \A i \in (k + 1)..Len(times) : times[i] + Window > now}
<1>1. Len(times) \in Nat /\ DOMAIN times = 1..Len(times) /\ \A i \in 1..Len(times) : times[i] \in Nat
  BY LenProperties, ElementOfSeq, Zenon
<1>2. T \in SUBSET Nat /\ Len(times) \in T
  BY <1>1
<1>3. PICK k \in T : \A m \in T : k <= m
  BY <1>2, LeastNumber
<1>4. k \in 0..Len(times) /\ \A i \in (k + 1)..Len(times) : times[i] + Window > now
  BY <1>3
<1>5. ASSUME k # 0 PROVE times[k] + Window <= now
  <2>1. k - 1 \in 0..Len(times) /\ ~(k <= k - 1) /\ k \in 1..Len(times)
    BY <1>1, <1>4, <1>5
  <2>2. PICK i \in ((k - 1) + 1)..Len(times) : ~(times[i] + Window > now)
    BY <1>3, <2>1
  <2>3. i = k
    BY <1>1, <1>4, <2>1, <2>2
  <2> QED BY <1>1, <2>1, <2>2, <2>3, LimitAssumption
<1>6. ASSUME NEW i \in 1..k PROVE times[i] + Window <= now
  <2>1. i \in DOMAIN times /\ k \in DOMAIN times /\ i <= k /\ k # 0
    BY <1>1, <1>4
  <2>2. times[i] <= times[k] /\ times[i] \in Nat /\ times[k] \in Nat
    BY <1>1, <2>1 DEF InOrder
  <2> QED BY <1>5, <2>1, <2>2, LimitAssumption
<1> QED BY <1>4, <1>6 DEF Cutoff

\* The attempts after the cutoff.
From(k, times) == [i \in 1..(Len(times) - k) |-> times[k + i]]

\* The loop of Valid keeps them.
LEMMA ValidIsRest ==
    ASSUME now \in Nat, NEW times \in Seq(Nat), NEW k, Cutoff(k, times)
    PROVE  Valid(times) = From(k, times)
<1>1. /\ Len(times) \in Nat /\ k \in Nat /\ k <= Len(times)
      /\ \A i \in 1..Len(times) : times[i] \in Nat
  BY LenProperties, ElementOfSeq DEF Cutoff
<1> DEFINE rest(n) == IF n <= k THEN <<>> ELSE [i \in 1..(n - k) |-> times[k + i]]
           h == [n \in 0..Len(times) |-> rest(n)]
<1>2. ASSUME NEW n \in 0..Len(times)
      PROVE  rest(n) \in Seq(Nat) /\ Len(rest(n)) = (IF n <= k THEN 0 ELSE n - k)
  <2>1. CASE n <= k
    BY <2>1
  <2>2. CASE ~(n <= k)
    <3>1. n - k \in Nat /\ \A i \in 1..(n - k) : k + i \in 1..Len(times)
      BY <1>1, <2>2
    <3>2. [i \in 1..(n - k) |-> times[k + i]] \in [1..(n - k) -> Nat]
      BY <1>1, <3>1
    <3> QED BY <2>2, <3>1, <3>2, SeqDef
  <2> QED BY <2>1, <2>2
<1>3. ASSUME NEW n \in 1..Len(times)
      PROVE  rest(n) = IF times[n] + Window > now THEN Append(rest(n - 1), times[n]) ELSE rest(n - 1)
  <2>0. n \in Nat /\ n - 1 \in 0..Len(times) /\ n \in 0..Len(times) /\ times[n] \in Nat
    BY <1>1
  <2>1. CASE n <= k
    <3>1. n \in 1..k /\ n - 1 <= k
      BY <1>1, <2>0, <2>1
    <3>2. ~(times[n] + Window > now)
      BY <2>0, <3>1, LimitAssumption DEF Cutoff
    <3> QED BY <2>1, <3>1, <3>2
  <2>2. CASE ~(n <= k)
    <3>1. times[n] + Window > now
      <4>1. n \in (k + 1)..Len(times)
        BY <1>1, <2>0, <2>2
      <4> QED BY <4>1 DEF Cutoff
    <3> DEFINE p == rest(n - 1)
               q == Append(p, times[n])
               r == rest(n)
    <3>2. p \in Seq(Nat) /\ Len(p) = (n - 1) - k /\ r \in Seq(Nat) /\ Len(r) = n - k
      BY <1>1, <1>2, <2>0, <2>2
    <3>3. \A i \in 1..(n - k) : r[i] = times[k + i]
      BY <2>2, SMTT(20)
    <3>4. \A i \in 1..((n - 1) - k) : p[i] = times[k + i]
      BY <1>1, <2>0, <2>2, SMTT(20)
    <3> HIDE DEF p, r
    <3>5. /\ q \in Seq(Nat) /\ Len(q) = Len(p) + 1
          /\ \A i \in 1..Len(p) : q[i] = p[i]
          /\ q[Len(p) + 1] = times[n]
      BY <2>0, <3>2, AppendProperties
    <3> HIDE DEF q
    <3>6. \A i \in 1..(n - k) : i \in 1..((n - 1) - k) \/ (i = (n - 1) - k + 1 /\ k + i = n)
      BY <1>1, <2>0
    <3>7. ASSUME NEW i \in 1..Len(r) PROVE r[i] = q[i]
      <4>1. i \in 1..(n - k) /\ r[i] = times[k + i]
        BY <3>2, <3>3
      <4>2. CASE i \in 1..((n - 1) - k)
        BY <3>2, <3>4, <3>5, <4>1, <4>2
      <4>3. CASE i = (n - 1) - k + 1 /\ k + i = n
        BY <3>2, <3>5, <4>1, <4>3
      <4> QED BY <3>6, <4>1, <4>2, <4>3
    <3>8. Len(r) = Len(q)
      BY <1>1, <2>0, <3>2, <3>5
    <3>9. rest(n) = Append(rest(n - 1), times[n])
      BY <3>2, <3>5, <3>7, <3>8, SeqEqual DEF p, q, r
    <3> QED BY <3>1, <3>9
  <2> QED BY <2>1, <2>2
<1>4. rest(0) = <<>> /\ rest(Len(times)) = From(k, times)
  <2>1. CASE Len(times) <= k
    <3>1. 1..(Len(times) - k) = {}
      BY <1>1, <2>1
    <3>2. From(k, times) = <<>>
      BY <3>1 DEF From
    <3> QED BY <1>1, <2>1, <3>2
  <2>2. CASE ~(Len(times) <= k)
    BY <1>1, <2>2 DEF From
  <2> QED BY <2>1, <2>2
<1> HIDE DEF rest
<1>5. \A n \in 0..Len(times) :
         h[n] = IF n = 0 THEN <<>>
                ELSE IF times[n] + Window > now THEN Append(h[n - 1], times[n]) ELSE h[n - 1]
  <2> SUFFICES ASSUME NEW n \in 0..Len(times)
               PROVE  h[n] = IF n = 0 THEN <<>>
                             ELSE IF times[n] + Window > now THEN Append(h[n - 1], times[n])
                             ELSE h[n - 1]
    OBVIOUS
  <2>1. CASE n = 0
    BY <1>4, <2>1
  <2>2. CASE n # 0
    <3>1. n \in 1..Len(times) /\ n - 1 \in 0..Len(times)
      BY <1>1, <2>2
    <3>2. h[n] = rest(n) /\ h[n - 1] = rest(n - 1)
      BY <3>1
    <3> HIDE DEF h
    <3> QED BY <1>3, <2>2, <3>1, <3>2
  <2> QED BY <2>1, <2>2
<1>6. KeptBy(h, times)
  <2>1. h = [n \in 0..Len(times) |-> h[n]]
    OBVIOUS
  <2> HIDE DEF h
  <2> QED BY <1>5, <2>1 DEF KeptBy
\* Where another function differs first, it differs already before.
<1>7. ASSUME NEW g, KeptBy(g, times) PROVE g[Len(times)] = h[Len(times)]
  <2> HIDE DEF h
  <2> DEFINE Bad == {n \in 0..Len(times) : g[n] # h[n]}
  <2>1. \A n \in 0..Len(times) :
           g[n] = IF n = 0 THEN <<>>
                  ELSE IF times[n] + Window > now THEN Append(g[n - 1], times[n]) ELSE g[n - 1]
    BY <1>7, Zenon DEF KeptBy
  <2>2. ASSUME Bad # {} PROVE FALSE
    <3>1. PICK n \in Bad : \A m \in Bad : n <= m
      <4>1. Bad \in SUBSET Nat
        BY <1>1
      <4> QED BY <2>2, <4>1, LeastNumber
    <3>2. n \in 0..Len(times) /\ g[n] # h[n]
      BY <3>1
    <3>3. n # 0
      BY <1>5, <2>1, <3>2
    <3>4. n - 1 \in 0..Len(times) /\ ~(n <= n - 1)
      BY <1>1, <3>2, <3>3
    <3>5. g[n - 1] = h[n - 1]
      BY <3>1, <3>4
    <3> QED BY <1>5, <2>1, <3>2, <3>3, <3>5
  <2> QED BY <1>1, <2>2
<1>8. h[Len(times)] = From(k, times)
  BY <1>1, <1>4
<1> HIDE DEF h
<1>9. Valid(times) = (CHOOSE g : KeptBy(g, times))[Len(times)]
  BY Zenon DEF Valid, KeptBy
<1>10. KeptBy(CHOOSE g : KeptBy(g, times), times)
  BY <1>6, Zenon
<1> QED BY <1>7, <1>8, <1>9, <1>10, Zenon

\* At t an address was refused: the last Limit of those let in until then were
\* in the window, and whoever came later was let in later.
RefusedBy(t, in) ==
    \E k \in Nat :
        /\ k + Limit <= Len(in)
        /\ \A i \in 1..Len(in) :
              /\ i <= k => in[i] + Window <= t
              /\ k < i /\ i <= k + Limit => in[i] <= t /\ t < in[i] + Window
              /\ k + Limit < i => t < in[i]

\* One address: the limiter's attempts are the last of those let in, and all
\* that are in the window; any Limit + 1 of those let in span a window.
Sliding(kept, in, no) ==
    /\ kept \in Seq(Nat) /\ in \in Seq(Nat) /\ no \in SUBSET Nat
    /\ InOrder(in)
    /\ \A i \in 1..Len(in) : in[i] <= now
    /\ \A t \in no : t <= now
    /\ Len(kept) <= Limit
    /\ \E k \in 0..Len(in) : kept = From(k, in) /\ \A i \in 1..k : in[i] + Window <= now
    /\ \A i \in 1..Len(in) : i + Limit <= Len(in) => in[i] + Window <= in[i + Limit]
    /\ \A t \in no : RefusedBy(t, in)

LEMMA LimitInterval ==
    ASSUME NEW a \in Nat
    PROVE  IsFiniteSet(a..(a + Limit - 1)) /\ Cardinality(a..(a + Limit - 1)) = Limit
<1> DEFINE b == a + Limit - 1
<1>1. b \in Int /\ a \in Int /\ (IF a > b THEN 0 ELSE b - a + 1) = Limit
  BY LimitAssumption
<1> HIDE DEF b
<1>2. IsFiniteSet(a..b) /\ Cardinality(a..b) = IF a > b THEN 0 ELSE b - a + 1
  BY <1>1, FS_Interval
<1>3. IsFiniteSet(a..b) /\ Cardinality(a..b) = Limit
  BY <1>1, <1>2
<1> QED BY <1>3 DEF b

LEMMA FromType ==
    ASSUME NEW times \in Seq(Nat), NEW k \in 0..Len(times)
    PROVE  /\ From(k, times) \in Seq(Nat) /\ Len(From(k, times)) = Len(times) - k
           /\ \A i \in 1..(Len(times) - k) : From(k, times)[i] = times[k + i]
<1>1. Len(times) \in Nat /\ \A i \in 1..Len(times) : times[i] \in Nat
  BY LenProperties, ElementOfSeq, Zenon
<1>2. Len(times) - k \in Nat /\ \A i \in 1..(Len(times) - k) : k + i \in 1..Len(times)
  BY <1>1
<1>3. From(k, times) \in [1..(Len(times) - k) -> Nat]
  BY <1>1, <1>2 DEF From
<1>4. \A i \in 1..(Len(times) - k) : From(k, times)[i] = times[k + i]
  BY DEF From
<1> DEFINE f == From(k, times)
           m == Len(times) - k
<1>5. f \in Seq(Nat)
  BY <1>2, <1>3, SeqDef
<1>6. Len(f) = m
  <2>1. m \in Nat /\ f \in [1..m -> Nat]
    BY <1>2, <1>3
  <2> HIDE DEF f, m
  <2> QED BY <1>5, <2>1
<1> QED BY <1>4, <1>5, <1>6

\* What Valid leaves of the attempts: those let in and still in the window.
LEMMA StillValid ==
    ASSUME now \in Nat, NEW kept, NEW in, NEW no, Sliding(kept, in, no)
    PROVE  \E k \in 0..Len(in) : /\ Cutoff(k, in) /\ Valid(kept) = From(k, in)
                                 /\ Len(Valid(kept)) = Len(in) - k /\ Len(in) - k <= Limit
<1>1. /\ kept \in Seq(Nat) /\ in \in Seq(Nat) /\ InOrder(in) /\ Len(kept) <= Limit
  BY DEF Sliding
<1>2. PICK k \in 0..Len(in) : kept = From(k, in) /\ \A i \in 1..k : in[i] + Window <= now
  BY DEF Sliding
<1>3. /\ Len(in) \in Nat /\ DOMAIN in = 1..Len(in) /\ Len(kept) = Len(in) - k
      /\ DOMAIN kept = 1..(Len(in) - k)
      /\ \A i \in 1..(Len(in) - k) : kept[i] = in[k + i]
  <2>1. Len(kept) = Len(in) - k /\ \A i \in 1..(Len(in) - k) : kept[i] = in[k + i]
    BY <1>1, <1>2, FromType
  <2> QED BY <1>1, <2>1, LenProperties
<1>4. InOrder(kept)
  <2>1. \A i \in 1..(Len(in) - k) : k + i \in 1..Len(in)
    BY <1>3
  <2>2. \A i, j \in 1..(Len(in) - k) : i <= j => k + i <= k + j
    BY <1>3
  <2> QED BY <1>1, <1>3, <2>1, <2>2 DEF InOrder
<1>5. PICK c : Cutoff(c, kept)
  BY <1>1, <1>4, CutoffExists
<1>6. c \in 0..(Len(in) - k) /\ k + c \in 0..Len(in) /\ c \in Nat
  BY <1>3, <1>5 DEF Cutoff
<1>7. Cutoff(k + c, in)
  <2>1. ASSUME NEW i \in 1..(k + c) PROVE in[i] + Window <= now
    <3>1. CASE i <= k
      BY <1>2, <1>6, <3>1
    <3>2. CASE ~(i <= k)
      <4>1. i - k \in 1..c /\ i - k \in 1..(Len(in) - k) /\ k + (i - k) = i
        BY <1>3, <1>6, <3>2
      <4> QED BY <1>3, <1>5, <4>1 DEF Cutoff
    <3> QED BY <3>1, <3>2
  <2>2. ASSUME NEW i \in (k + c + 1)..Len(in) PROVE in[i] + Window > now
    <3>1. i - k \in (c + 1)..Len(kept) /\ i - k \in 1..(Len(in) - k) /\ k + (i - k) = i
      BY <1>3, <1>6
    <3> QED BY <1>3, <1>5, <3>1 DEF Cutoff
  <2> QED BY <1>6, <2>1, <2>2 DEF Cutoff
<1>8. Valid(kept) = From(k + c, in)
  <2>1. Valid(kept) = From(c, kept)
    BY <1>1, <1>5, ValidIsRest
  <2>2. Len(kept) - c = Len(in) - (k + c)
    BY <1>3, <1>6
  <2>3. \A i \in 1..(Len(kept) - c) : kept[c + i] = in[(k + c) + i]
    <3> SUFFICES ASSUME NEW i \in 1..(Len(kept) - c) PROVE kept[c + i] = in[(k + c) + i]
      OBVIOUS
    <3>1. c + i \in 1..(Len(in) - k) /\ k + (c + i) = (k + c) + i
      BY <1>3, <1>6
    <3> QED BY <1>3, <3>1
  <2> QED BY <2>1, <2>2, <2>3 DEF From
<1>9. Len(Valid(kept)) = Len(in) - (k + c)
  BY <1>1, <1>6, <1>8, FromType
<1>10. Len(in) - (k + c) <= Limit
  BY <1>1, <1>3, <1>6, LimitAssumption
<1> QED BY <1>6, <1>7, <1>8, <1>9, <1>10

\* A refused attempt leaves those let in as they were.
LEMMA SlidingRefuse ==
    ASSUME now \in Nat, NEW kept, NEW in, NEW no, Sliding(kept, in, no), Len(Valid(kept)) >= Limit
    PROVE  Sliding(Valid(kept), in, no \cup {now})
<1>1. PICK k \in 0..Len(in) : /\ Cutoff(k, in) /\ Valid(kept) = From(k, in)
                              /\ Len(Valid(kept)) = Len(in) - k /\ Len(in) - k <= Limit
  BY StillValid
<1>2. in \in Seq(Nat) /\ Len(in) \in Nat /\ \A i \in 1..Len(in) : in[i] \in Nat /\ in[i] <= now
  BY LenProperties, ElementOfSeq DEF Sliding
<1>3. Len(in) = k + Limit /\ k \in Nat
  BY <1>1, <1>2, LimitAssumption
<1>4. RefusedBy(now, in)
  <2>1. ASSUME NEW i \in 1..Len(in)
        PROVE  /\ i <= k => in[i] + Window <= now
               /\ k < i /\ i <= k + Limit => in[i] <= now /\ now < in[i] + Window
               /\ k + Limit < i => now < in[i]
    <3>1. i <= k => i \in 1..k
      BY <1>3
    <3>2. k < i => i \in (k + 1)..Len(in)
      BY <1>2, <1>3
    <3>3. ~(k + Limit < i)
      BY <1>2, <1>3
    <3> QED BY <1>1, <1>2, <3>1, <3>2, <3>3, LimitAssumption DEF Cutoff
  <2> QED BY <1>2, <1>3, <2>1 DEF RefusedBy
<1>5. Valid(kept) \in Seq(Nat)
  BY <1>1, <1>2, FromType
<1>6. \A i \in 1..k : in[i] + Window <= now
  BY <1>1 DEF Cutoff
<1> QED BY <1>1, <1>4, <1>5, <1>6 DEF Sliding

\* One that is let in is the last of them.
LEMMA SlidingAdmit ==
    ASSUME now \in Nat, NEW kept, NEW in, NEW no, Sliding(kept, in, no), Len(Valid(kept)) < Limit
    PROVE  Sliding(Append(Valid(kept), now), Append(in, now), no)
<1>1. PICK k \in 0..Len(in) : /\ Cutoff(k, in) /\ Valid(kept) = From(k, in)
                              /\ Len(Valid(kept)) = Len(in) - k /\ Len(in) - k <= Limit
  BY StillValid
<1> DEFINE n == Len(in)
           v == Valid(kept)
           w == Append(v, now)
           out == Append(in, now)
<1>2. /\ in \in Seq(Nat) /\ n \in Nat /\ DOMAIN in = 1..n
      /\ \A i \in 1..n : in[i] \in Nat /\ in[i] <= now
      /\ v \in Seq(Nat) /\ Len(v) = n - k /\ \A i \in 1..(n - k) : v[i] = in[k + i]
      /\ \A i \in 1..n : i <= k => in[i] + Window <= now
      /\ n - k < Limit /\ k \in Nat /\ k <= n
  <2>1. in \in Seq(Nat) /\ n \in Nat /\ DOMAIN in = 1..n
        /\ \A i \in 1..n : in[i] \in Nat /\ in[i] <= now
    BY LenProperties, ElementOfSeq DEF Sliding
  <2>2. v \in Seq(Nat) /\ Len(v) = n - k /\ \A i \in 1..(n - k) : v[i] = in[k + i]
    BY <1>1, <2>1, FromType
  <2>3. k \in Nat /\ k <= n /\ n - k < Limit
    BY <1>1, <2>1
  <2>4. ASSUME NEW i \in 1..n, i <= k PROVE in[i] + Window <= now
    <3>1. i \in 1..k
      BY <2>3, <2>4
    <3> QED BY <1>1, <3>1 DEF Cutoff
  <2> QED BY <2>1, <2>2, <2>3, <2>4
<1>3. /\ out \in Seq(Nat) /\ Len(out) = n + 1 /\ DOMAIN out = 1..(n + 1)
      /\ \A i \in 1..n : out[i] = in[i]
      /\ out[n + 1] = now
  <2>1. /\ out \in Seq(Nat) /\ Len(out) = n + 1
        /\ \A i \in 1..n : out[i] = in[i]
        /\ out[n + 1] = now
    BY <1>2, AppendProperties
  <2> QED BY <2>1, LenProperties
<1>4. /\ w \in Seq(Nat) /\ Len(w) = n - k + 1
      /\ \A i \in 1..(n - k) : w[i] = v[i]
      /\ w[n - k + 1] = now
  BY <1>2, AppendProperties
<1> HIDE DEF v, w, out
<1>5. w = From(k, out)
  <2>1. k \in 0..Len(out)
    BY <1>2, <1>3
  <2>2. /\ From(k, out) \in Seq(Nat) /\ Len(From(k, out)) = n + 1 - k
        /\ \A i \in 1..(n + 1 - k) : From(k, out)[i] = out[k + i]
    <3>1. /\ From(k, out) \in Seq(Nat) /\ Len(From(k, out)) = Len(out) - k
          /\ \A i \in 1..(Len(out) - k) : From(k, out)[i] = out[k + i]
      BY <1>3, <2>1, FromType
    <3> QED BY <1>3, <3>1
  <2>3. ASSUME NEW i \in 1..Len(w) PROVE w[i] = From(k, out)[i]
    <3>1. CASE i \in 1..(n - k)
      <4>1. k + i \in 1..n /\ i \in 1..(n + 1 - k)
        BY <1>2, <3>1
      <4> QED BY <1>2, <1>3, <1>4, <2>2, <3>1, <4>1
    <3>2. CASE i = n - k + 1
      <4>1. k + i = n + 1 /\ i \in 1..(n + 1 - k)
        BY <1>2, <3>2
      <4> QED BY <1>3, <1>4, <2>2, <3>2, <4>1
    <3>3. i \in 1..(n - k) \/ i = n - k + 1
      BY SMTT(20), <1>2, <1>4
    <3> QED BY <3>1, <3>2, <3>3
  <2>4. Len(w) = Len(From(k, out))
    BY <1>2, <1>4, <2>2
  <2> QED BY <1>4, <2>2, <2>3, <2>4, SeqEqual
<1>6. \A i \in 1..(n + 1) : i \in 1..n \/ i = n + 1
  BY <1>2
<1>7. ASSUME NEW i \in 1..(n + 1) PROVE out[i] <= now
  <2>1. CASE i \in 1..n
    BY <1>2, <1>3, <2>1
  <2>2. CASE i = n + 1
    BY <1>3, <2>2
  <2> QED BY <1>6, <2>1, <2>2
<1>8. InOrder(out)
  <2>1. ASSUME NEW i \in 1..(n + 1), NEW j \in 1..(n + 1), i <= j PROVE out[i] <= out[j]
    <3>1. CASE j \in 1..n
      <4>1. i \in 1..n
        BY <1>2, <2>1, <3>1
      <4> QED BY <1>2, <1>3, <2>1, <3>1, <4>1 DEF Sliding, InOrder
    <3>2. CASE j = n + 1
      BY <1>3, <1>7, <3>2
    <3> QED BY <1>6, <3>1, <3>2
  <2> QED BY <1>3, <2>1 DEF InOrder
<1>9. Len(w) <= Limit
  BY <1>2, <1>4, LimitAssumption
<1>10. k \in 0..Len(out) /\ \A i \in 1..k : out[i] + Window <= now
  <2>1. \A i \in 1..k : i \in 1..n /\ i <= k
    BY <1>2
  <2> QED BY <1>2, <1>3, <2>1
<1>11. ASSUME NEW i \in 1..(n + 1), i + Limit <= n + 1 PROVE out[i] + Window <= out[i + Limit]
  <2>0. Limit \in Nat /\ Limit > 0
    BY <1>2, LimitAssumption
  <2>1. CASE i + Limit <= n
    <3>1. i \in 1..n /\ i + Limit \in 1..n
      BY <1>2, <2>0, <2>1
    <3> QED BY <1>3, <2>1, <3>1 DEF Sliding
  <2>2. CASE i + Limit = n + 1
    <3>1. i \in 1..n /\ i <= k
      BY <1>2, <2>0, <2>2
    <3> QED BY <1>2, <1>3, <2>2, <3>1
  <2>3. i \in Nat /\ (i + Limit <= n \/ i + Limit = n + 1)
    BY SMTT(20), <1>2, <1>11, <2>0
  <2> QED BY <2>1, <2>2, <2>3
<1>12. ASSUME NEW t \in no PROVE RefusedBy(t, out)
  <2>1. t \in Nat /\ t <= now /\ RefusedBy(t, in)
    BY DEF Sliding
  <2>2. PICK r \in Nat :
           /\ r + Limit <= n
           /\ \A i \in 1..n :
                 /\ i <= r => in[i] + Window <= t
                 /\ r < i /\ i <= r + Limit => in[i] <= t /\ t < in[i] + Window
                 /\ r + Limit < i => t < in[i]
    BY <2>1 DEF RefusedBy
  \* Had it been refused at this tick, it would be now.
  <2>3. t < now
    <3> SUFFICES ASSUME t = now PROVE FALSE
      BY <2>1
    <3>1. r < k
      BY <1>2, <2>2, LimitAssumption
    <3>2. r + 1 \in 1..n /\ r + 1 <= k /\ r < r + 1 /\ r + 1 <= r + Limit
      BY <1>2, <2>2, <3>1, LimitAssumption
    <3>3. in[r + 1] + Window <= now /\ now < in[r + 1] + Window
      BY <1>2, <2>2, <3>2
    <3> QED BY SMTT(20), <1>2, <3>2, <3>3, LimitAssumption
  <2>4. ASSUME NEW i \in 1..(n + 1)
        PROVE  /\ i <= r => out[i] + Window <= t
               /\ r < i /\ i <= r + Limit => out[i] <= t /\ t < out[i] + Window
               /\ r + Limit < i => t < out[i]
    <3>1. CASE i \in 1..n
      BY <1>3, <2>2, <3>1
    <3>2. CASE i = n + 1
      <4>1. ~(i <= r) /\ ~(i <= r + Limit)
        <5>1. r + Limit <= n /\ r \in Nat /\ Limit \in Nat /\ n \in Nat
          BY <1>2, <2>2, LimitAssumption
        <5> QED BY <3>2, <5>1
      <4> QED BY <1>3, <2>3, <3>2, <4>1
    <3> QED BY <1>6, <3>1, <3>2
  <2>5. r + Limit <= n + 1
    BY <1>2, <2>2, LimitAssumption
  <2> QED BY <1>3, <2>4, <2>5 DEF RefusedBy
<1>13. no \in SUBSET Nat /\ \A t \in no : t <= now
  BY DEF Sliding
<1>14. Sliding(w, out, no)
  BY <1>3, <1>4, <1>5, <1>7, <1>8, <1>9, <1>10, <1>11, <1>12, <1>13 DEF Sliding
<1> QED BY <1>14 DEF w, out, v

LEMMA SlidingTick ==
    ASSUME now \in Nat, now' = now + 1, NEW kept, NEW in, NEW no, Sliding(kept, in, no)
    PROVE  /\ kept \in Seq(Nat) /\ in \in Seq(Nat) /\ no \in SUBSET Nat
           /\ InOrder(in)
           /\ \A i \in 1..Len(in) : in[i] <= now'
           /\ \A t \in no : t <= now'
           /\ Len(kept) <= Limit
           /\ \E k \in 0..Len(in) : kept = From(k, in) /\ \A i \in 1..k : in[i] + Window <= now'
           /\ \A i \in 1..Len(in) : i + Limit <= Len(in) => in[i] + Window <= in[i + Limit]
           /\ \A t \in no : RefusedBy(t, in)
<1>1. in \in Seq(Nat) /\ Len(in) \in Nat /\ \A i \in 1..Len(in) : in[i] \in Nat /\ in[i] <= now
  BY LenProperties, ElementOfSeq DEF Sliding
<1>2. PICK k \in 0..Len(in) : kept = From(k, in) /\ \A i \in 1..k : in[i] + Window <= now
  BY DEF Sliding
<1>3. \A i \in 1..k : i \in 1..Len(in)
  BY <1>1
<1>4. \A i \in 1..k : in[i] + Window <= now'
  BY <1>1, <1>2, <1>3, LimitAssumption
<1>5. \A i \in 1..Len(in) : in[i] <= now'
  BY <1>1
<1>6. \A t \in no : t <= now'
  BY DEF Sliding
<1> QED BY <1>2, <1>4, <1>5, <1>6 DEF Sliding

\* No window has more than Limit, and where one was refused it has as many.
LEMMA SlidingHolds ==
    ASSUME now \in Nat, NEW kept, NEW in, NEW no, Sliding(kept, in, no)
    PROVE  /\ \A t \in 0..now : Within(in, t, t + Window - 1) <= Limit
           /\ \A t \in no : Within(in, t + 1 - Window, t) = Limit
<1>1. /\ in \in Seq(Nat) /\ Len(in) \in Nat /\ DOMAIN in = 1..Len(in)
      /\ \A i \in 1..Len(in) : in[i] \in Nat
  BY LenProperties, ElementOfSeq DEF Sliding
<1>2. ASSUME NEW t \in 0..now PROVE Within(in, t, t + Window - 1) <= Limit
  <2> DEFINE I == {i \in DOMAIN in : t <= in[i] /\ in[i] <= t + Window - 1}
  <2>1. CASE I = {}
    <3>1. Cardinality(I) = 0
      BY <2>1, FS_EmptySet
    <3> QED BY <3>1, LimitAssumption DEF Within
  <2>2. CASE I # {}
    <3>1. PICK lo \in I : \A i \in I : lo <= i
      <4>1. I \in SUBSET Nat
        BY <1>1
      <4> QED BY <2>2, <4>1, LeastNumber
    <3>2. lo \in 1..Len(in) /\ t <= in[lo] /\ lo \in Nat
      BY <1>1, <3>1
    <3>3. ASSUME NEW i \in I PROVE i \in lo..(lo + Limit - 1)
      <4>1. i \in 1..Len(in) /\ in[i] <= t + Window - 1 /\ lo <= i
        BY <1>1, <3>1
      <4>2. ASSUME lo + Limit <= i PROVE FALSE
        <5>1. lo + Limit \in 1..Len(in) /\ lo + Limit <= Len(in)
          BY <1>1, <3>2, <4>1, <4>2, LimitAssumption
        <5>2. in[lo] + Window <= in[lo + Limit] /\ in[lo + Limit] <= in[i]
          BY <1>1, <3>2, <4>1, <4>2, <5>1 DEF Sliding, InOrder
        <5> QED BY <1>1, <3>2, <4>1, <5>1, <5>2, LimitAssumption
      <4> QED BY <3>2, <4>1, <4>2, LimitAssumption
    <3>4. IsFiniteSet(lo..(lo + Limit - 1)) /\ Cardinality(lo..(lo + Limit - 1)) = Limit
      BY <3>2, LimitInterval
    <3>5. I \in SUBSET (lo..(lo + Limit - 1))
      BY <3>3
    <3> HIDE DEF I
    <3>6. Cardinality(I) <= Limit
      <4>1. Cardinality(I) <= Cardinality(lo..(lo + Limit - 1))
        BY <3>4, <3>5, FS_Subset
      <4> QED BY <3>4, <4>1
    <3> QED BY <3>6 DEF Within, I
  <2> QED BY <2>1, <2>2
<1>3. ASSUME NEW t \in no PROVE Within(in, t + 1 - Window, t) = Limit
  <2>1. t \in Nat /\ RefusedBy(t, in)
    BY DEF Sliding
  <2>2. PICK k \in Nat :
           /\ k + Limit <= Len(in)
           /\ \A i \in 1..Len(in) :
                 /\ i <= k => in[i] + Window <= t
                 /\ k < i /\ i <= k + Limit => in[i] <= t /\ t < in[i] + Window
                 /\ k + Limit < i => t < in[i]
    BY <2>1 DEF RefusedBy
  <2> DEFINE I == {i \in DOMAIN in : t + 1 - Window <= in[i] /\ in[i] <= t}
  <2>3. ASSUME NEW i \in 1..Len(in)
        PROVE  (t + 1 - Window <= in[i] /\ in[i] <= t) <=> i \in (k + 1)..(k + Limit)
    <3>1. in[i] \in Nat
      BY <1>1
    <3> QED BY <2>1, <2>2, <3>1, LimitAssumption
  <2>4. (k + 1)..(k + Limit) \subseteq 1..Len(in)
    BY <1>1, <2>2, LimitAssumption
  <2>5. I = (k + 1)..(k + Limit)
    BY <1>1, <2>3, <2>4
  <2>6. Cardinality((k + 1)..(k + Limit)) = Limit
    <3>1. k + 1 \in Nat /\ (k + 1) + Limit - 1 = k + Limit
      BY LimitAssumption
    <3>2. Cardinality((k + 1)..((k + 1) + Limit - 1)) = Limit
      BY <3>1, LimitInterval
    <3> QED BY <3>1, <3>2
  <2> QED BY <2>5, <2>6 DEF Within
<1> QED BY <1>2, <1>3

-----------------------------------------------------------------------------
(* The message limiter, and both.                                          *)

\* Of an earlier message on: those that passed, and the tokens left, are what a
\* full bucket and the refills since allow.
Budget(i) == /\ passed[i] <= lastRefill
             /\ (Len(passed) - i + 1) * UnitsPerToken + tokens
                   <= Capacity + (lastRefill - passed[i])

LimitsInv ==
    /\ now \in Nat /\ tokens \in Nat /\ lastRefill \in Nat
    /\ tokens <= Capacity /\ lastRefill <= now
    /\ attempts \in [IP -> Seq(Nat)] /\ admitted \in [IP -> Seq(Nat)]
    /\ refused \in [IP -> SUBSET Nat] /\ passed \in Seq(Nat)
    /\ \A ip \in IP : Sliding(attempts[ip], admitted[ip], refused[ip])
    /\ \A i \in 1..Len(passed) : Budget(i)
    /\ BucketHolds

LEMMA Units ==
    /\ Capacity \in Nat /\ UnitsPerToken <= Capacity /\ UnitsPerToken \in Nat
    /\ \A k \in Nat : k * UnitsPerToken \in Nat
                      /\ (k + 1) * UnitsPerToken = k * UnitsPerToken + UnitsPerToken
<1>1. \A k, u \in Nat : k * u \in Nat /\ (k + 1) * u = k * u + u
  OBVIOUS
<1>2. \A r, u \in Nat \ {0} : r * u \in Nat /\ u <= r * u
  <2>1. \A r, u \in Nat \ {0} : \E q \in Nat : r = q + 1
    <3> SUFFICES ASSUME NEW r \in Nat \ {0} PROVE \E q \in Nat : r = q + 1
      OBVIOUS
    <3>1. r - 1 \in Nat /\ r = (r - 1) + 1
      OBVIOUS
    <3> QED BY <3>1
  <2> QED BY <1>1, <2>1
<1> QED BY <1>1, <1>2, LimitAssumption DEF Capacity

LEMMA Refilled ==
    ASSUME NEW x \in Nat, NEW a \in Nat, NEW last \in Nat, NEW t \in Nat, NEW left \in Nat,
           NEW full \in Nat, NEW cap \in Nat,
           a <= last, last <= t, x + left <= cap + (last - a), full <= left + (t - last)
    PROVE  a <= t /\ x + full <= cap + (t - a)
OBVIOUS

LEMMA MessageStep ==
    ASSUME LimitsInv, AllowMessage
    PROVE  LimitsInv'
<1>0. /\ now \in Nat /\ tokens \in Nat /\ lastRefill \in Nat
      /\ tokens <= Capacity /\ lastRefill <= now /\ passed \in Seq(Nat)
      /\ \A i \in 1..Len(passed) : Budget(i)
  BY DEF LimitsInv
<1> DEFINE u == UnitsPerToken
           n == Len(passed)
           filled == AtMost(tokens + (now - lastRefill), Capacity)
           P(k) == k * UnitsPerToken
<1>1. /\ Capacity \in Nat /\ u <= Capacity /\ u \in Nat
      /\ \A k \in Nat : P(k) \in Nat /\ P(k + 1) = P(k) + u
  BY Units
<1>2. /\ lastRefill' = now /\ UNCHANGED <<attempts, admitted, refused, now>>
      /\ \/ filled >= u /\ tokens' = filled - u /\ passed' = Append(passed, now)
         \/ filled < u /\ tokens' = filled /\ passed' = passed
  <2>1. filled \in Nat
    BY <1>0, <1>1 DEF AtMost
  <2> HIDE DEF filled
  <2> QED BY <1>0, <1>1, <2>1 DEF AllowMessage, filled
<1>3. /\ filled \in Nat /\ filled <= Capacity /\ filled <= tokens + (now - lastRefill)
  BY <1>0, <1>1 DEF AtMost
<1>4. n \in Nat /\ DOMAIN passed = 1..n /\ \A i \in 1..n : passed[i] \in Nat
  BY <1>0, LenProperties, ElementOfSeq
<1>5. \A i \in 1..n : /\ passed[i] <= now
                      /\ P(n - i + 1) + filled <= Capacity + (now - passed[i])
                      /\ n - i + 1 \in Nat
  <2> SUFFICES ASSUME NEW i \in 1..n
               PROVE  /\ passed[i] <= now
                      /\ P(n - i + 1) + filled <= Capacity + (now - passed[i])
                      /\ n - i + 1 \in Nat
    OBVIOUS
  <2>1. n - i + 1 \in Nat /\ i \in Nat
    BY <1>4
  <2>2. passed[i] <= lastRefill
        /\ P(n - i + 1) + tokens <= Capacity + (lastRefill - passed[i])
    BY <1>0 DEF Budget
  <2>3. P(n - i + 1) \in Nat /\ passed[i] \in Nat
    BY <1>1, <1>4, <2>1
  <2>4. /\ lastRefill \in Nat /\ now \in Nat /\ tokens \in Nat /\ filled \in Nat
        /\ Capacity \in Nat /\ lastRefill <= now /\ filled <= tokens + (now - lastRefill)
    BY <1>0, <1>1, <1>3
  <2> HIDE DEF P, filled, n
  <2>5. passed[i] <= now /\ P(n - i + 1) + filled <= Capacity + (now - passed[i])
    BY <2>2, <2>3, <2>4, Refilled
  <2> QED BY <2>1, <2>5
<1> HIDE DEF filled, P, u
<1>6. CASE filled >= u /\ tokens' = filled - u /\ passed' = Append(passed, now)
  <2>1. /\ passed' \in Seq(Nat) /\ Len(passed') = n + 1 /\ DOMAIN passed' = 1..(n + 1)
        /\ \A i \in 1..n : passed'[i] = passed[i]
        /\ passed'[n + 1] = now
    <3>1. /\ passed' \in Seq(Nat) /\ Len(passed') = n + 1
          /\ \A i \in 1..n : passed'[i] = passed[i]
          /\ passed'[n + 1] = now
      BY <1>0, <1>6, AppendProperties
    <3> QED BY <3>1, LenProperties
  <2>2. \A i \in 1..(n + 1) : i \in 1..n \/ i = n + 1
    BY <1>4
  <2>3. P(0) = 0 /\ P(1) = u
    <3>1. P(0) = 0
      BY LimitAssumption DEF P
    <3>2. P(0 + 1) = P(0) + u
      BY <1>1
    <3> QED BY <1>1, <3>1, <3>2
  <2>4. tokens' \in Nat /\ tokens' <= Capacity
    BY <1>0, <1>1, <1>3, <1>6
  <2>5. ASSUME NEW i \in 1..(n + 1)
        PROVE  /\ passed'[i] <= now
               /\ P((n + 1) - i + 1) + tokens' <= Capacity + (now - passed'[i])
               /\ P((n + 1) - i + 1) \in Nat
    <3>1. CASE i \in 1..n
      <4>1. (n + 1) - i + 1 = (n - i + 1) + 1 /\ n - i + 1 \in Nat
        BY <1>4, <3>1
      <4>2. P((n + 1) - i + 1) = P(n - i + 1) + u /\ P(n - i + 1) \in Nat
        BY <1>1, <4>1
      <4>3. passed[i] \in Nat /\ passed[i] <= now
            /\ P(n - i + 1) + filled <= Capacity + (now - passed[i])
        BY <1>4, <1>5, <3>1
      <4> QED BY <1>0, <1>1, <1>3, <1>6, <2>1, <3>1, <4>2, <4>3
    <3>2. CASE i = n + 1
      <4>1. P((n + 1) - i + 1) = u /\ passed'[i] = now
        <5>1. (n + 1) - i + 1 = 1
          BY <1>4, <3>2
        <5> QED BY <2>1, <2>3, <3>2, <5>1
      <4>2. now - now = 0 /\ u + (filled - u) = filled
        BY <1>0, <1>1, <1>3
      <4>3. filled <= Capacity + 0 /\ now <= now
        BY <1>0, <1>1, <1>3
      <4> QED BY <1>1, <1>6, <4>1, <4>2, <4>3
    <3> QED BY <2>2, <3>1, <3>2
  <2>6. \A i \in 1..Len(passed') : Budget(i)'
    <3> SUFFICES ASSUME NEW i \in 1..(n + 1)
                 PROVE  passed'[i] <= lastRefill'
                        /\ ((n + 1) - i + 1) * UnitsPerToken + tokens'
                              <= Capacity + (lastRefill' - passed'[i])
      BY <2>1 DEF Budget, Capacity
    <3> QED BY <1>2, <2>5 DEF P
  <2>7. ASSUME NEW i \in 1..(n + 1), NEW j \in 1..(n + 1), i <= j
        PROVE  (j - i + 1) * UnitsPerToken <= Capacity + (passed'[j] - passed'[i])
    <3>1. CASE j \in 1..n
      <4>1. i \in 1..n
        BY <1>4, <2>7, <3>1
      <4> QED BY <1>4, <2>1, <2>7, <3>1, <4>1 DEF LimitsInv, BucketHolds
    <3>2. CASE j = n + 1
      <4>1. P((n + 1) - i + 1) + tokens' <= Capacity + (now - passed'[i]) /\ passed'[j] = now
            /\ passed'[i] <= now /\ P((n + 1) - i + 1) \in Nat
        BY <2>1, <2>5, <3>2
      <4>2. passed'[i] \in Nat
        BY <2>1, ElementOfSeq
      <4>3. P(j - i + 1) <= Capacity + (passed'[j] - passed'[i])
        <5>1. \A x, t, y \in Nat : \A r \in Int : x + t <= y + r => x <= y + r
          OBVIOUS
        <5>2. now - passed'[i] \in Int
          BY <1>0, <4>2
        <5>3. P((n + 1) - i + 1) <= Capacity + (now - passed'[i])
          BY <1>1, <2>4, <4>1, <5>1, <5>2, Zenon
        <5> QED BY <3>2, <4>1, <5>3
      <4> QED BY <4>3 DEF P
    <3> QED BY <2>2, <3>1, <3>2
  <2>8. BucketHolds'
    BY <2>1, <2>7 DEF BucketHolds, Capacity
  <2>9. \A ip \in IP : Sliding(attempts[ip], admitted[ip], refused[ip])'
    BY <1>2 DEF LimitsInv, Sliding, RefusedBy
  <2>10. tokens' <= Capacity'
    BY <2>4 DEF Capacity
  <2> QED BY <1>0, <1>2, <2>1, <2>4, <2>6, <2>8, <2>9, <2>10 DEF LimitsInv
<1>7. CASE filled < u /\ tokens' = filled /\ passed' = passed
  <2>1. \A i \in 1..Len(passed') : Budget(i)'
    <3> SUFFICES ASSUME NEW i \in 1..n
                 PROVE  passed[i] <= now
                        /\ (n - i + 1) * UnitsPerToken + filled <= Capacity + (now - passed[i])
      BY <1>2, <1>7 DEF Budget, Capacity
    <3> QED BY <1>5 DEF P
  <2>2. BucketHolds'
    BY <1>7 DEF LimitsInv, BucketHolds, Capacity
  <2>3. \A ip \in IP : Sliding(attempts[ip], admitted[ip], refused[ip])'
    BY <1>2 DEF LimitsInv, Sliding, RefusedBy
  <2>4. tokens' <= Capacity'
    BY <1>3, <1>7 DEF Capacity
  <2> QED BY <1>0, <1>2, <1>3, <1>7, <2>1, <2>2, <2>3, <2>4 DEF LimitsInv
<1> QED BY <1>2, <1>6, <1>7

LEMMA ConnectionStep ==
    ASSUME LimitsInv, NEW ip \in IP, AllowConnection(ip)
    PROVE  LimitsInv'
<1> USE DEF LimitsInv
<1>1. UNCHANGED <<tokens, lastRefill, passed, now>>
  BY DEF AllowConnection
<1>2. now \in Nat /\ Sliding(attempts[ip], admitted[ip], refused[ip])
  OBVIOUS
<1>3. (\A i \in 1..Len(passed) : Budget(i))' /\ BucketHolds' /\ (tokens <= Capacity)'
  BY <1>1 DEF Budget, BucketHolds, Capacity
<1>4. SUFFICES /\ attempts' \in [IP -> Seq(Nat)] /\ admitted' \in [IP -> Seq(Nat)]
               /\ refused' \in [IP -> SUBSET Nat]
               /\ \A a \in IP : Sliding(attempts'[a], admitted'[a], refused'[a])
  <2>1. (\A a \in IP : Sliding(attempts'[a], admitted'[a], refused'[a]))
           => (\A a \in IP : Sliding(attempts[a], admitted[a], refused[a]))'
    BY <1>1 DEF Sliding, RefusedBy
  <2> QED BY <1>1, <1>3, <2>1
<1>5. CASE UNCHANGED <<attempts, admitted, refused>>
  BY <1>5
<1>6. CASE /\ Len(Valid(attempts[ip])) >= Limit
           /\ attempts' = [attempts EXCEPT ![ip] = Valid(attempts[ip])]
           /\ refused' = [refused EXCEPT ![ip] = @ \cup {now}]
           /\ UNCHANGED admitted
  <2>1. Sliding(Valid(attempts[ip]), admitted[ip], refused[ip] \cup {now})
    BY <1>2, <1>6, SlidingRefuse
  <2>2. Valid(attempts[ip]) \in Seq(Nat)
    BY <2>1 DEF Sliding
  <2> QED BY <1>6, <2>1, <2>2
<1>7. CASE /\ Len(Valid(attempts[ip])) < Limit
           /\ attempts' = [attempts EXCEPT ![ip] = Append(Valid(attempts[ip]), now)]
           /\ admitted' = [admitted EXCEPT ![ip] = Append(@, now)]
           /\ UNCHANGED refused
  <2>1. Sliding(Append(Valid(attempts[ip]), now), Append(admitted[ip], now), refused[ip])
    BY <1>2, <1>7, SlidingAdmit
  <2>2. Append(Valid(attempts[ip]), now) \in Seq(Nat) /\ Append(admitted[ip], now) \in Seq(Nat)
    BY <2>1 DEF Sliding
  <2> QED BY <1>7, <2>1, <2>2
<1> QED BY <1>5, <1>6, <1>7 DEF AllowConnection

LEMMA ClockStep ==
    ASSUME LimitsInv, (Tick /\ UNCHANGED limitVars) \/ UNCHANGED <<limitVars, now>>
    PROVE  LimitsInv'
<1> USE DEF LimitsInv
<1>1. UNCHANGED <<attempts, tokens, lastRefill, admitted, refused, passed>>
      /\ (now' = now + 1 \/ now' = now)
  BY DEF limitVars, Tick
<1>2. ASSUME NEW a \in IP PROVE Sliding(attempts[a], admitted[a], refused[a])'
  <2>1. CASE now' = now + 1
    <3> DEFINE kept == attempts[a]
               in == admitted[a]
               no == refused[a]
    <3>1. /\ kept \in Seq(Nat) /\ in \in Seq(Nat) /\ no \in SUBSET Nat
          /\ InOrder(in)
          /\ \A i \in 1..Len(in) : in[i] <= now'
          /\ \A t \in no : t <= now'
          /\ Len(kept) <= Limit
          /\ \E k \in 0..Len(in) : kept = From(k, in) /\ \A i \in 1..k : in[i] + Window <= now'
          /\ \A i \in 1..Len(in) : i + Limit <= Len(in) => in[i] + Window <= in[i + Limit]
          /\ \A t \in no : RefusedBy(t, in)
      <4>1. now \in Nat /\ Sliding(kept, in, no)
        OBVIOUS
      <4> HIDE DEF kept, in, no
      <4> QED BY <2>1, <4>1, SlidingTick
    <3> QED BY <1>1, <3>1 DEF Sliding, RefusedBy, InOrder, From
  <2>2. CASE now' = now
    BY <1>1, <2>2 DEF Sliding, RefusedBy
  <2> QED BY <1>1, <2>1, <2>2
<1> QED BY <1>1, <1>2 DEF Budget, BucketHolds, Capacity

LEMMA InitLimits == now = 0 /\ LimitsInit => LimitsInv
<1> SUFFICES ASSUME now = 0, LimitsInit PROVE LimitsInv
  OBVIOUS
<1>1. <<>> \in Seq(Nat) /\ Len(<<>>) = 0
  OBVIOUS
<1>2. Sliding(<<>>, <<>>, {})
  <2>1. From(0, <<>>) = <<>>
    BY DEF From
  <2> QED BY <1>1, <2>1, LimitAssumption DEF Sliding, InOrder
<1>3. \A ip \in IP : attempts[ip] = <<>> /\ admitted[ip] = <<>> /\ refused[ip] = {}
  BY DEF LimitsInit
<1> QED BY <1>1, <1>2, <1>3, Units DEF LimitsInit, LimitsInv, BucketHolds

\* The limiters of the hub: no window of any length has more connections of an
\* address than its limit, an address is refused only while it has that many,
\* and no more messages pass than bucket and refills allow (Allow of
\* IPRateLimiter and PeerMessageLimiter).
THEOREM LimitersCorrect == LimitsSpec => []LimitsHold
<1>1. LimitsInv /\ [LimitsNext]_<<limitVars, now>> => LimitsInv'
  BY ConnectionStep, MessageStep, ClockStep DEF LimitsNext
<1>2. ASSUME LimitsInv PROVE LimitsHold
  BY <1>2, SlidingHolds DEF LimitsInv, LimitsHold, WindowHolds
<1> QED BY InitLimits, <1>1, <1>2, PTL DEF LimitsSpec

-----------------------------------------------------------------------------
(* The relay between replicas.                                             *)

Outcomes == {"sent", "full", "published", "failed", "not_found"}

RelayTypeOK ==
    /\ shared \in BOOLEAN
    /\ peers \in [Replica -> [Peer -> 1..MaxSockets \cup {NoSocket}]]
    /\ owner \in Seq(Peer) /\ Len(owner) <= MaxSockets
    /\ pubsub \in [Replica -> Seq(Nat)]
    /\ box \in Seq(Seq(Nat)) /\ Len(box) = Len(owner)
    /\ sent \in Seq([to : Peer, at : Replica, outcome : Outcomes, holders : SUBSET Replica])
    /\ moved \in SUBSET Nat

\* A socket is registered under its own ID, at one replica.
Attached ==
    \A r \in Replica, p \in Peer : peers[r][p] # NoSocket =>
        /\ peers[r][p] \in 1..Len(owner) /\ owner[peers[r][p]] = p
        /\ \A q \in Replica : peers[q][p] = peers[r][p] => q = r

\* A subscription delivers in the order of publishing; a message that comes back
\* to its sender's replica finds the peer there only if it came meanwhile.
Queued ==
    \A r \in Replica : \A j \in 1..Len(pubsub[r]) :
        LET m == pubsub[r][j] IN
        /\ m \in 1..Len(sent) /\ sent[m].outcome = "published"
        /\ \A i \in 1..(j - 1) : pubsub[r][i] < m
        /\ sent[m].at = r /\ peers[r][sent[m].to] # NoSocket => m \in moved

\* What a registered socket has of the messages sent to it at its replica, and
\* of the published ones: all before those that are still to be delivered.
InBox(s, k, x) ==
    /\ x \in 1..Len(sent) /\ sent[x].to = owner[s]
    /\ sent[x].outcome \in {"sent", "published"}
    /\ \A r \in Replica : peers[r][owner[s]] = s =>
          /\ sent[x].outcome = "sent" => sent[x].at = r
          /\ sent[x].outcome = "published" => \A j \in 1..Len(pubsub[r]) : x < pubsub[r][j]
    /\ \A j \in 1..(k - 1) :
          /\ box[s][j] # x
          /\ sent[box[s][j]].at = sent[x].at /\ x \notin moved => box[s][j] < x

Boxed == \A s \in 1..Len(box) : \A k \in 1..Len(box[s]) : InBox(s, k, box[s][k])

On(r, m) == \E j \in 1..Len(pubsub[r]) : pubsub[r][j] = m

\* A published message whose addressee was at h alone and stayed there: it is
\* still to be delivered there, or it is in one box.
Reached(m, h) ==
    /\ (\E r \in Replica : On(r, m)) => \A q \in Replica : peers[q][sent[m].to] # NoSocket <=> q = h
    /\ On(h, m) => Boxes(m) = {}
    /\ ~On(h, m) => \E s \in DOMAIN box : Boxes(m) = {s}

Known ==
    \A m \in 1..Len(sent) :
        /\ sent[m].outcome = "published" /\ m \notin moved =>
              \A h \in Replica : sent[m].holders = {h} => Reached(m, h)
        /\ sent[m].outcome = "not_found" => sent[m].at \notin sent[m].holders /\ ~shared

RelayInv == RelayTypeOK /\ Attached /\ Queued /\ Boxed /\ Known

SentMessage == [to : Peer, at : Replica, outcome : Outcomes, holders : SUBSET Replica]

\* One more at the end, and one less at the front.
LEMMA Appended ==
    ASSUME NEW S, NEW q \in Seq(S), NEW x \in S, NEW r, r = Append(q, x)
    PROVE  /\ r \in Seq(S) /\ Len(q) \in Nat /\ Len(r) = Len(q) + 1
           /\ \A i \in 1..Len(q) : r[i] = q[i] /\ i # Len(q) + 1
           /\ r[Len(q) + 1] = x
           /\ \A i \in 1..Len(r) : i \in 1..Len(q) \/ i = Len(q) + 1
           /\ \A i \in 1..Len(q) : i \in 1..Len(r)
           /\ Len(q) + 1 \in 1..Len(r)
<1>1. /\ r \in Seq(S) /\ Len(r) = Len(q) + 1 /\ \A i \in 1..Len(q) : r[i] = q[i]
      /\ r[Len(q) + 1] = x
  BY AppendProperties
<1>2. Len(q) \in Nat
  OBVIOUS
<1> QED BY <1>1, <1>2

\* Where the messages are: in the boxes, and on their way to a replica.
LEMMA BoxesIs ==
    ASSUME RelayTypeOK
    PROVE  \A m : Boxes(m) = {s \in 1..Len(box) : \E k \in 1..Len(box[s]) : box[s][k] = m}
<1>1. box \in Seq(Seq(Nat)) /\ DOMAIN box = 1..Len(box)
  BY LenProperties DEF RelayTypeOK
<1>2. \A s \in 1..Len(box) : box[s] \in Seq(Nat) /\ DOMAIN box[s] = 1..Len(box[s])
  <2> SUFFICES ASSUME NEW s \in 1..Len(box)
               PROVE  box[s] \in Seq(Nat) /\ DOMAIN box[s] = 1..Len(box[s])
    OBVIOUS
  <2>1. box[s] \in Seq(Nat)
    BY <1>1, ElementOfSeq
  <2> QED BY <2>1, LenProperties
<1> QED BY <1>1, <1>2 DEF Boxes

LEMMA BoxesIsNext ==
    ASSUME RelayTypeOK'
    PROVE  \A m : Boxes(m)' = {s \in 1..Len(box') : \E k \in 1..Len(box'[s]) : box'[s][k] = m}
<1>1. box' \in Seq(Seq(Nat)) /\ DOMAIN box' = 1..Len(box')
  BY LenProperties DEF RelayTypeOK
<1>2. \A s \in 1..Len(box') : box'[s] \in Seq(Nat) /\ DOMAIN box'[s] = 1..Len(box'[s])
  <2> SUFFICES ASSUME NEW s \in 1..Len(box')
               PROVE  box'[s] \in Seq(Nat) /\ DOMAIN box'[s] = 1..Len(box'[s])
    OBVIOUS
  <2>1. box'[s] \in Seq(Nat)
    BY <1>1, ElementOfSeq
  <2> QED BY <2>1, LenProperties
<1> QED BY <1>1, <1>2 DEF Boxes

LEMMA OnTheWayIs ==
    ASSUME RelayTypeOK
    PROVE  OnTheWay = {m \in 1..Len(sent) : \E r \in Replica : On(r, m)}
<1>1. DOMAIN sent = 1..Len(sent)
  BY LenProperties DEF RelayTypeOK
<1>2. \A r \in Replica : DOMAIN pubsub[r] = 1..Len(pubsub[r])
  <2> SUFFICES ASSUME NEW r \in Replica PROVE DOMAIN pubsub[r] = 1..Len(pubsub[r])
    OBVIOUS
  <2>1. pubsub[r] \in Seq(Nat)
    BY DEF RelayTypeOK
  <2> QED BY <2>1, LenProperties
<1> QED BY <1>1, <1>2 DEF OnTheWay, On

\* The sockets change, of one ID: what is on its way to that has moved.
LEMMA PeersMove ==
    ASSUME RelayInv, RelayTypeOK', Attached', NEW p \in Peer,
           UNCHANGED <<shared, pubsub, sent>>, moved' = moved \cup To(p),
           Len(box) <= Len(box)', \A s \in 1..Len(box) : box'[s] = box[s] /\ owner'[s] = owner[s],
           \A s \in 1..Len(box') : s \in 1..Len(box) \/ Len(box'[s]) = 0,
           \A q \in Replica, o \in Peer : o # p => peers'[q][o] = peers[q][o],
           \A q \in Replica, s \in 1..Len(box) :
               peers'[q][owner[s]] = s => peers[q][owner[s]] = s
    PROVE  RelayInv'
<1>1. Len(box) \in Nat /\ Len(box)' \in Nat /\ Len(sent) \in Nat
      /\ \A m \in 1..Len(sent) : sent[m] \in SentMessage
  <2>1. sent \in Seq(SentMessage)
    BY DEF RelayInv, RelayTypeOK, SentMessage
  <2> QED BY <2>1, ElementOfSeq, LenProperties DEF RelayInv, RelayTypeOK
<1>2. \A m \in 1..Len(sent) : (\E r \in Replica : On(r, m)) /\ sent[m].to = p => m \in moved'
  <2>1. OnTheWay = {m \in 1..Len(sent) : \E r \in Replica : On(r, m)}
    BY OnTheWayIs DEF RelayInv
  <2> QED BY <2>1 DEF To
<1>3. Queued'
  <2> SUFFICES ASSUME NEW r \in Replica, NEW j \in 1..Len(pubsub[r])
               PROVE  /\ pubsub[r][j] \in 1..Len(sent) /\ sent[pubsub[r][j]].outcome = "published"
                      /\ \A i \in 1..(j - 1) : pubsub[r][i] < pubsub[r][j]
                      /\ sent[pubsub[r][j]].at = r /\ peers'[r][sent[pubsub[r][j]].to] # NoSocket
                            => pubsub[r][j] \in moved'
    BY DEF Queued
  <2> DEFINE m == pubsub[r][j]
  <2>1. /\ m \in 1..Len(sent) /\ sent[m].outcome = "published"
        /\ \A i \in 1..(j - 1) : pubsub[r][i] < m
        /\ sent[m].at = r /\ peers[r][sent[m].to] # NoSocket => m \in moved
    BY DEF RelayInv, Queued
  <2>2. On(r, m) /\ sent[m].to \in Peer
    BY <1>1, <2>1 DEF On, SentMessage
  <2> HIDE DEF m
  <2>3. sent[m].at = r /\ peers'[r][sent[m].to] # NoSocket => m \in moved'
    BY <1>2, <2>1, <2>2
  <2> QED BY <2>1, <2>3 DEF m
<1>4. Boxed'
  <2> SUFFICES ASSUME NEW s \in 1..Len(box'), NEW k \in 1..Len(box'[s])
               PROVE  LET m == box'[s][k] IN
                      /\ m \in 1..Len(sent) /\ sent[m].to = owner'[s]
                      /\ sent[m].outcome \in {"sent", "published"}
                      /\ \A r \in Replica : peers'[r][owner'[s]] = s =>
                            /\ sent[m].outcome = "sent" => sent[m].at = r
                            /\ sent[m].outcome = "published"
                                  => \A j \in 1..Len(pubsub[r]) : m < pubsub[r][j]
                      /\ \A j \in 1..(k - 1) :
                            /\ box'[s][j] # m
                            /\ sent[box'[s][j]].at = sent[m].at /\ m \notin moved' => box'[s][j] < m
    BY DEF Boxed, InBox
  <2>1. s \in 1..Len(box) /\ box'[s] = box[s] /\ owner'[s] = owner[s] /\ k \in 1..Len(box[s])
    <3>1. Len(box'[s]) # 0
      <4>1. k \in 1..Len(box'[s])
        OBVIOUS
      <4> QED BY <4>1
    <3> QED BY <3>1
  <2> DEFINE m == box[s][k]
  <2>2. /\ m \in 1..Len(sent) /\ sent[m].to = owner[s]
        /\ sent[m].outcome \in {"sent", "published"}
        /\ \A r \in Replica : peers[r][owner[s]] = s =>
              /\ sent[m].outcome = "sent" => sent[m].at = r
              /\ sent[m].outcome = "published" => \A j \in 1..Len(pubsub[r]) : m < pubsub[r][j]
        /\ \A j \in 1..(k - 1) :
              /\ box[s][j] # m
              /\ sent[box[s][j]].at = sent[m].at /\ m \notin moved => box[s][j] < m
    BY <2>1 DEF RelayInv, Boxed, InBox
  <2>3. \A r \in Replica : peers'[r][owner[s]] = s => peers[r][owner[s]] = s
    BY <2>1
  <2>4. m \notin moved' => m \notin moved
    OBVIOUS
  <2> HIDE DEF m
  <2>5. box'[s][k] = m /\ owner'[s] = owner[s] /\ box'[s] = box[s]
    BY <2>1 DEF m
  <2> QED BY <2>2, <2>3, <2>4, <2>5
<1>5. \A m : Boxes(m)' = Boxes(m)
  <2> SUFFICES ASSUME NEW m PROVE Boxes(m)' = Boxes(m)
    OBVIOUS
  <2>1. Boxes(m) = {s \in 1..Len(box) : \E k \in 1..Len(box[s]) : box[s][k] = m}
    BY BoxesIs DEF RelayInv
  <2>2. Boxes(m)' = {s \in 1..Len(box') : \E k \in 1..Len(box'[s]) : box'[s][k] = m}
    BY BoxesIsNext
  <2>3. \A s \in 1..Len(box) : s \in 1..Len(box')
    BY <1>1
  <2>4. \A s \in 1..Len(box') : s \notin 1..Len(box) => 1..Len(box'[s]) = {}
    OBVIOUS
  <2> QED BY <2>1, <2>2, <2>3, <2>4
<1>6. Known'
  <2> SUFFICES ASSUME NEW m \in 1..Len(sent)
               PROVE  /\ sent[m].outcome = "published" /\ m \notin moved' =>
                            \A h \in Replica : sent[m].holders = {h} => Reached(m, h)'
                      /\ sent[m].outcome = "not_found" =>
                            sent[m].at \notin sent[m].holders /\ ~shared
    BY DEF Known
  <2>1. ASSUME NEW h \in Replica, sent[m].outcome = "published", m \notin moved', sent[m].holders = {h}
        PROVE  Reached(m, h)'
    <3>1. Reached(m, h)
      BY <2>1 DEF RelayInv, Known
    <3>2. \A r : On(r, m)' <=> On(r, m)
      BY DEF On
    <3>3. ASSUME NEW r \in Replica, On(r, m) PROVE \A q \in Replica : peers'[q][sent[m].to] # NoSocket <=> q = h
      <4>1. sent[m].to # p /\ sent[m].to \in Peer
        BY <1>1, <1>2, <2>1, <3>3 DEF SentMessage
      <4>2. \A q \in Replica : peers[q][sent[m].to] # NoSocket <=> q = h
        BY <3>1, <3>3 DEF Reached
      <4> QED BY <4>1, <4>2
    <3>4. DOMAIN box \subseteq DOMAIN box'
      <4>1. DOMAIN box = 1..Len(box) /\ DOMAIN box' = 1..Len(box')
        BY LenProperties DEF RelayInv, RelayTypeOK
      <4> QED BY <1>1, <4>1
    <3> QED BY <1>5, <3>1, <3>2, <3>3, <3>4 DEF Reached
  <2> QED BY <2>1 DEF RelayInv, Known
<1> QED BY <1>3, <1>4, <1>6 DEF RelayInv

LEMMA RelayTypes ==
    ASSUME RelayTypeOK
    PROVE  /\ Len(owner) \in Nat /\ Len(box) = Len(owner) /\ Len(sent) \in Nat
           /\ \A s \in 1..Len(box) : owner[s] \in Peer /\ box[s] \in Seq(Nat) /\ Len(box[s]) \in Nat
           /\ \A m \in 1..Len(sent) : sent[m] \in SentMessage
           /\ \A r \in Replica : pubsub[r] \in Seq(Nat) /\ Len(pubsub[r]) \in Nat
           /\ DOMAIN owner = 1..Len(owner) /\ DOMAIN box = 1..Len(box) /\ DOMAIN sent = 1..Len(sent)
<1>1. sent \in Seq(SentMessage) /\ box \in Seq(Seq(Nat)) /\ owner \in Seq(Peer)
      /\ Len(box) = Len(owner)
  BY DEF RelayTypeOK, SentMessage
<1>2. \A s \in 1..Len(box) : owner[s] \in Peer /\ box[s] \in Seq(Nat)
  BY <1>1, ElementOfSeq
<1>3. \A m \in 1..Len(sent) : sent[m] \in SentMessage
  BY <1>1, ElementOfSeq
<1>4. \A r \in Replica : pubsub[r] \in Seq(Nat)
  BY DEF RelayTypeOK
<1> QED BY <1>1, <1>2, <1>3, <1>4, LenProperties

LEMMA JoinStep ==
    ASSUME RelayInv, NEW r \in Replica, NEW p \in Peer, Join(r, p)
    PROVE  RelayInv'
<1> DEFINE n == Len(owner)
<1>1. /\ n < MaxSockets /\ owner' = Append(owner, p) /\ box' = Append(box, <<>>)
      /\ peers' = [peers EXCEPT ![r][p] = n + 1]
      /\ moved' = moved \cup To(p) /\ UNCHANGED <<shared, pubsub, sent>>
  BY DEF Join
<1>2. /\ n \in Nat /\ Len(box) = n /\ \A s \in 1..n : owner[s] \in Peer
      /\ owner \in Seq(Peer) /\ box \in Seq(Seq(Nat)) /\ n + 1 \in 1..MaxSockets
      /\ peers \in [Replica -> [Peer -> 1..MaxSockets \cup {NoSocket}]]
  <2>1. n \in Nat /\ Len(box) = n /\ \A s \in 1..n : owner[s] \in Peer
    BY RelayTypes DEF RelayInv
  <2>2. n + 1 \in 1..MaxSockets
    BY <1>1, <2>1, RelayAssumption
  <2> QED BY <2>1, <2>2 DEF RelayInv, RelayTypeOK
<1>3. /\ owner' \in Seq(Peer) /\ Len(owner') = n + 1
      /\ \A s \in 1..n : owner'[s] = owner[s] /\ s # n + 1
      /\ owner'[n + 1] = p
  BY <1>1, <1>2, Appended
<1>4. /\ box' \in Seq(Seq(Nat)) /\ Len(box') = n + 1
      /\ \A s \in 1..n : box'[s] = box[s]
      /\ box'[n + 1] = <<>>
      /\ \A s \in 1..Len(box') : s \in 1..n \/ s = n + 1
  <2>1. <<>> \in Seq(Nat)
    OBVIOUS
  <2> QED BY <1>1, <1>2, <2>1, Appended
<1>5. \A q \in Replica, o \in Peer :
         peers'[q][o] = IF q = r /\ o = p THEN n + 1 ELSE peers[q][o]
  BY <1>1, <1>2
<1>6. peers' \in [Replica -> [Peer -> 1..MaxSockets \cup {NoSocket}]]
  BY <1>1, <1>2
<1>7. RelayTypeOK'
  <2>1. moved' \in SUBSET Nat
    <3>1. OnTheWay = {m \in 1..Len(sent) : \E q \in Replica : On(q, m)}
      BY OnTheWayIs DEF RelayInv
    <3>2. 1..Len(sent) \subseteq Nat
      OBVIOUS
    <3> QED BY <1>1, <3>1, <3>2 DEF To, RelayInv, RelayTypeOK
  <2>2. Len(owner') <= MaxSockets
    BY <1>2, <1>3
  <2> QED BY <1>1, <1>3, <1>4, <1>6, <2>1, <2>2 DEF RelayInv, RelayTypeOK
<1>8. Attached'
  <2> SUFFICES ASSUME NEW q \in Replica, NEW o \in Peer, peers'[q][o] # NoSocket
               PROVE  /\ peers'[q][o] \in 1..(n + 1) /\ owner'[peers'[q][o]] = o
                      /\ \A u \in Replica : peers'[u][o] = peers'[q][o] => u = q
    BY <1>3 DEF Attached
  <2>1. \A u \in Replica : peers[u][o] # NoSocket =>
           /\ peers[u][o] \in 1..n /\ owner[peers[u][o]] = o /\ peers[u][o] # n + 1
           /\ \A v \in Replica : peers[v][o] = peers[u][o] => v = u
    BY <1>3 DEF RelayInv, Attached
  <2>2. n + 1 # NoSocket
    BY <1>2, RelayAssumption
  <2>3. \A s \in 1..n : s \in 1..(n + 1)
    BY <1>2
  <2>4. CASE q = r /\ o = p
    BY <1>2, <1>3, <1>5, <2>1, <2>2, <2>4
  <2>5. CASE ~(q = r /\ o = p)
    <3>1. peers'[q][o] = peers[q][o]
      BY <1>5, <2>5
    <3>2. peers[q][o] \in 1..n /\ owner[peers[q][o]] = o /\ peers[q][o] # n + 1
          /\ \A v \in Replica : peers[v][o] = peers[q][o] => v = q
      BY <2>1, <3>1
    <3> QED BY <1>3, <1>5, <2>3, <3>1, <3>2
  <2> QED BY <2>4, <2>5
<1>9. Len(box) <= Len(box') /\ \A s \in 1..Len(box) : box'[s] = box[s] /\ owner'[s] = owner[s]
  BY <1>2, <1>3, <1>4
<1>10. \A s \in 1..Len(box') : s \in 1..Len(box) \/ Len(box'[s]) = 0
  BY <1>2, <1>4
<1>11. \A q \in Replica, o \in Peer : o # p => peers'[q][o] = peers[q][o]
  BY <1>5
<1>12. \A q \in Replica, s \in 1..Len(box) : peers'[q][owner[s]] = s => peers[q][owner[s]] = s
  BY <1>2, <1>3, <1>5
<1> HIDE DEF n
<1> QED BY <1>1, <1>7, <1>8, <1>9, <1>10, <1>11, <1>12, PeersMove

LEMMA LeaveStep ==
    ASSUME RelayInv, NEW r \in Replica, NEW p \in Peer, Leave(r, p)
    PROVE  RelayInv'
<1>1. /\ peers' = [peers EXCEPT ![r][p] = NoSocket]
      /\ moved' = moved \cup To(p) /\ UNCHANGED <<shared, owner, pubsub, box, sent>>
  BY DEF Leave
<1>2. peers \in [Replica -> [Peer -> 1..MaxSockets \cup {NoSocket}]] /\ Len(box) \in Nat
      /\ \A s \in 1..Len(box) : owner[s] \in Peer /\ s # NoSocket
  <2>1. Len(box) \in Nat /\ Len(box) <= MaxSockets /\ \A s \in 1..Len(box) : owner[s] \in Peer
    BY RelayTypes DEF RelayInv, RelayTypeOK
  <2>2. \A s \in 1..Len(box) : s \in 1..MaxSockets
    BY <2>1, RelayAssumption
  <2> QED BY <2>1, <2>2, RelayAssumption DEF RelayInv, RelayTypeOK
<1>3. \A q \in Replica, o \in Peer :
         peers'[q][o] = IF q = r /\ o = p THEN NoSocket ELSE peers[q][o]
  BY <1>1, <1>2
<1>4. peers' \in [Replica -> [Peer -> 1..MaxSockets \cup {NoSocket}]]
  BY <1>1, <1>2
<1>5. RelayTypeOK'
  <2>1. moved' \in SUBSET Nat
    <3>1. OnTheWay = {m \in 1..Len(sent) : \E q \in Replica : On(q, m)}
      BY OnTheWayIs DEF RelayInv
    <3>2. 1..Len(sent) \subseteq Nat
      OBVIOUS
    <3> QED BY <1>1, <3>1, <3>2 DEF To, RelayInv, RelayTypeOK
  <2> QED BY <1>1, <1>4, <2>1 DEF RelayInv, RelayTypeOK
<1>6. Attached'
  BY <1>1, <1>3 DEF RelayInv, Attached
<1>7. \A q \in Replica, s \in 1..Len(box) : peers'[q][owner[s]] = s => peers[q][owner[s]] = s
  BY <1>2, <1>3
<1>8. \A q \in Replica, o \in Peer : o # p => peers'[q][o] = peers[q][o]
  BY <1>3
<1>9. Len(box) <= Len(box') /\ (\A s \in 1..Len(box) : box'[s] = box[s] /\ owner'[s] = owner[s])
      /\ \A s \in 1..Len(box') : s \in 1..Len(box) \/ Len(box'[s]) = 0
  BY <1>1, <1>2
<1> QED BY <1>1, <1>5, <1>6, <1>7, <1>8, <1>9, PeersMove

\* A socket is nobody's but its owner's, and registered at one replica at most.
LEMMA Registered ==
    ASSUME RelayTypeOK, Attached
    PROVE  \A s \in 1..Len(box) :
              /\ s # NoSocket
              /\ \A r \in Replica, p \in Peer : peers[r][p] = s =>
                    owner[s] = p /\ \A q \in Replica : peers[q][p] = s => q = r
<1>1. Len(box) \in Nat /\ Len(box) <= MaxSockets
  BY RelayTypes DEF RelayTypeOK
<1>2. \A s \in 1..Len(box) : s \in 1..MaxSockets
  BY <1>1, RelayAssumption
<1>3. \A s \in 1..Len(box) : s # NoSocket
  BY <1>2, RelayAssumption
<1> QED BY <1>3 DEF Attached

\* The boxes of a message, from what is in each.
LEMMA BoxesSame ==
    ASSUME RelayTypeOK, RelayTypeOK', Len(box') = Len(box), NEW x,
           \A s \in 1..Len(box) : (\E k \in 1..Len(box'[s]) : box'[s][k] = x)
                                     <=> (\E i \in 1..Len(box[s]) : box[s][i] = x)
    PROVE  Boxes(x)' = Boxes(x)
<1>1. Boxes(x) = {s \in 1..Len(box) : \E k \in 1..Len(box[s]) : box[s][k] = x}
  BY BoxesIs
<1>2. Boxes(x)' = {s \in 1..Len(box') : \E k \in 1..Len(box'[s]) : box'[s][k] = x}
  BY BoxesIsNext
<1> QED BY <1>1, <1>2

LEMMA PushedLast ==
    ASSUME NEW q \in Seq(Nat), NEW x \in Nat, NEW a, a = Append(q, x)
    PROVE  \E j \in 1..Len(a) : a[j] = x
<1>1. a[Len(q) + 1] = x /\ Len(q) + 1 \in 1..Len(a)
  BY Appended
<1> QED BY <1>1

\* A sequence that stays or grows by x: what was in it, and what is.
LEMMA GrownKeeps ==
    ASSUME NEW q \in Seq(Nat), NEW x \in Nat, NEW a, a = q \/ a = Append(q, x)
    PROVE  \A i \in 1..Len(q) : i \in 1..Len(a) /\ a[i] = q[i]
<1>1. CASE a = q
  BY <1>1
<1>2. CASE a = Append(q, x)
  BY <1>2, Appended
<1> QED BY <1>1, <1>2

LEMMA GrownBy ==
    ASSUME NEW q \in Seq(Nat), NEW x \in Nat, NEW a, NEW k \in 1..Len(a),
           a = q \/ a = Append(q, x)
    PROVE  /\ \/ k \in 1..Len(q) /\ a[k] = q[k]
              \/ a = Append(q, x) /\ k = Len(q) + 1 /\ a[k] = x
           /\ \A i \in 1..(k - 1) : i \in 1..Len(q) /\ a[i] = q[i]
<1>1. Len(q) \in Nat
  OBVIOUS
<1>2. CASE a = q
  <2>1. \A i \in 1..(k - 1) : i \in 1..Len(q)
    BY <1>1, <1>2
  <2> QED BY <1>2, <2>1
<1>3. CASE a = Append(q, x)
  <2>1. /\ \A i \in 1..Len(q) : a[i] = q[i]
        /\ a[Len(q) + 1] = x /\ Len(a) = Len(q) + 1
        /\ \A i \in 1..Len(a) : i \in 1..Len(q) \/ i = Len(q) + 1
    BY <1>3, Appended
  <2>2. \A i \in 1..(k - 1) : i \in 1..Len(q)
    BY <1>1, <2>1
  <2> QED BY <1>3, <2>1, <2>2
<1> QED BY <1>2, <1>3

\* Boxed of the next state, message by message.
LEMMA BoxedNext ==
    ASSUME \A s \in 1..Len(box') : \A k \in 1..Len(box'[s]) : \A x : x = box'[s][k] => InBox(s, k, x)'
    PROVE  Boxed'
BY Zenon DEF Boxed, InBox

\* A message is sent: to the local socket, to the subscriptions of all replicas,
\* or nowhere.
Forwards(f, m) ==
    /\ sent' = Append(sent, f) /\ m = Len(sent) + 1
    /\ UNCHANGED <<shared, peers, owner, moved>>
    /\ box' \in Seq(Seq(Nat)) /\ Len(box') = Len(box)
    /\ pubsub' \in [Replica -> Seq(Nat)]
    /\ \A s \in 1..Len(box) :
          \/ box'[s] = box[s]
          \/ f.outcome = "sent" /\ peers[f.at][f.to] = s /\ box'[s] = Append(box[s], m)
    /\ \/ pubsub' = pubsub /\ f.outcome # "published"
       \/ /\ f.outcome = "published" /\ peers[f.at][f.to] = NoSocket
          /\ f.holders = {q \in Replica : peers[q][f.to] # NoSocket}
          /\ \A q \in Replica : pubsub'[q] = Append(pubsub[q], m)
    /\ f.outcome = "not_found" => f.at \notin f.holders /\ ~shared

LEMMA ForwardKeeps ==
    ASSUME RelayInv, NEW f \in SentMessage, NEW m, Forwards(f, m)
    PROVE  RelayInv'
<1> DEFINE n == Len(sent)
<1>a. /\ sent' = Append(sent, f) /\ m = n + 1
      /\ UNCHANGED <<shared, peers, owner, moved>>
      /\ box' \in Seq(Seq(Nat)) /\ Len(box') = Len(box)
      /\ pubsub' \in [Replica -> Seq(Nat)]
      /\ f.outcome = "not_found" => f.at \notin f.holders /\ ~shared
  BY DEF Forwards
<1>b. \A s \in 1..Len(box) :
         \/ box'[s] = box[s]
         \/ f.outcome = "sent" /\ peers[f.at][f.to] = s /\ box'[s] = Append(box[s], m)
  BY DEF Forwards
<1>c. \/ pubsub' = pubsub /\ f.outcome # "published"
      \/ /\ f.outcome = "published" /\ peers[f.at][f.to] = NoSocket
         /\ f.holders = {q \in Replica : peers[q][f.to] # NoSocket}
         /\ \A q \in Replica : pubsub'[q] = Append(pubsub[q], m)
  BY DEF Forwards
<1>1. /\ n \in Nat /\ m \in Nat /\ Len(box) \in Nat /\ Len(box) = Len(owner)
      /\ \A i \in 1..n : sent[i] \in SentMessage
      /\ \A s \in 1..Len(box) : owner[s] \in Peer /\ box[s] \in Seq(Nat) /\ Len(box[s]) \in Nat
      /\ \A r \in Replica : pubsub[r] \in Seq(Nat) /\ Len(pubsub[r]) \in Nat
  BY <1>a, RelayTypes DEF RelayInv
<1>2. /\ sent' \in Seq(SentMessage) /\ Len(sent') = m
      /\ \A i \in 1..n : sent'[i] = sent[i] /\ i # m /\ i \in 1..m
      /\ sent'[m] = f /\ m \in 1..m
      /\ \A i \in 1..m : i \in 1..n \/ i = m
  <2>1. sent \in Seq(SentMessage)
    BY DEF RelayInv, RelayTypeOK, SentMessage
  <2> QED BY <1>a, <2>1, Appended
<1>3. \A i \in 1..n : i < m
  BY <1>1, <1>a
<1>4. RelayTypeOK' /\ Attached'
  <2>1. RelayTypeOK /\ Attached
    BY DEF RelayInv
  <2>2. sent' \in Seq([to : Peer, at : Replica, outcome : Outcomes, holders : SUBSET Replica])
    BY <1>2 DEF SentMessage
  <2>3. RelayTypeOK'
    BY <1>a, <2>1, <2>2 DEF RelayTypeOK
  <2>4. Attached'
    BY <1>a, <2>1 DEF Attached
  <2> QED BY <2>3, <2>4
<1> HIDE DEF n
\* What is on its way: before the new one.
<1>5. ASSUME NEW r \in Replica, NEW j \in 1..Len(pubsub'[r])
      PROVE  /\ \/ j \in 1..Len(pubsub[r]) /\ pubsub'[r][j] = pubsub[r][j]
                \/ /\ j = Len(pubsub[r]) + 1 /\ pubsub'[r][j] = m /\ f.outcome = "published"
                   /\ peers[f.at][f.to] = NoSocket
             /\ \A i \in 1..(j - 1) : i \in 1..Len(pubsub[r]) /\ pubsub'[r][i] = pubsub[r][i]
  <2> DEFINE a == pubsub'[r]
             b == pubsub[r]
  <2>1. \/ a = b
        \/ a = Append(b, m) /\ f.outcome = "published" /\ peers[f.at][f.to] = NoSocket
    BY <1>c
  <2>2. b \in Seq(Nat) /\ m \in Nat /\ j \in 1..Len(a) /\ (a = b \/ a = Append(b, m))
    BY <1>1, <1>5, <2>1
  <2> HIDE DEF a, b
  <2>3. /\ \/ j \in 1..Len(b) /\ a[j] = b[j]
           \/ a = Append(b, m) /\ j = Len(b) + 1 /\ a[j] = m
        /\ \A i \in 1..(j - 1) : i \in 1..Len(b) /\ a[i] = b[i]
    BY SMTT(20), <2>2, GrownBy
  <2>4. CASE a = b
    <3>1. j \in 1..Len(b) /\ a[j] = b[j]
      BY <2>2, <2>4
    <3> QED BY <2>3, <3>1 DEF a, b
  <2>5. CASE f.outcome = "published" /\ peers[f.at][f.to] = NoSocket
    BY <2>3, <2>5 DEF a, b
  <2> QED BY <2>1, <2>4, <2>5
<1>6. \A r \in Replica : \A j \in 1..Len(pubsub[r]) :
         /\ j \in 1..Len(pubsub'[r]) /\ pubsub'[r][j] = pubsub[r][j]
         /\ pubsub[r][j] \in 1..n
  <2> SUFFICES ASSUME NEW r \in Replica, NEW j \in 1..Len(pubsub[r])
               PROVE  /\ j \in 1..Len(pubsub'[r]) /\ pubsub'[r][j] = pubsub[r][j]
                      /\ pubsub[r][j] \in 1..n
    OBVIOUS
  <2>1. pubsub[r][j] \in 1..n
    BY DEF RelayInv, Queued, n
  <2> DEFINE a == pubsub'[r]
  <2>2. a = pubsub[r] \/ a = Append(pubsub[r], m)
    BY <1>c
  <2>3. pubsub[r] \in Seq(Nat) /\ m \in Nat
    BY <1>1
  <2> HIDE DEF a
  <2>4. \A i \in 1..Len(pubsub[r]) : i \in 1..Len(a) /\ a[i] = pubsub[r][i]
    BY <2>2, <2>3, GrownKeeps
  <2> QED BY <2>1, <2>4 DEF a
<1>7. Queued'
  <2> SUFFICES ASSUME NEW r \in Replica, NEW j \in 1..Len(pubsub'[r])
               PROVE  LET x == pubsub'[r][j] IN
                      /\ x \in 1..m /\ sent'[x].outcome = "published"
                      /\ \A i \in 1..(j - 1) : pubsub'[r][i] < x
                      /\ sent'[x].at = r /\ peers[r][sent'[x].to] # NoSocket => x \in moved
    BY <1>2, <1>a DEF Queued
  <2>1. CASE j \in 1..Len(pubsub[r]) /\ pubsub'[r][j] = pubsub[r][j]
    <3> DEFINE x == pubsub[r][j]
    <3>1. /\ x \in 1..n /\ sent[x].outcome = "published"
          /\ \A i \in 1..(j - 1) : pubsub[r][i] < x
          /\ sent[x].at = r /\ peers[r][sent[x].to] # NoSocket => x \in moved
      BY <2>1 DEF RelayInv, Queued, n
    <3>2. \A i \in 1..(j - 1) : pubsub'[r][i] = pubsub[r][i]
      <4>1. \A i \in 1..(j - 1) : i \in 1..Len(pubsub[r])
        BY <1>1, <2>1
      <4> QED BY <1>6, <4>1
    <3> HIDE DEF x
    <3>3. pubsub'[r][j] = x /\ x \in 1..m /\ sent'[x] = sent[x]
      BY <1>2, <2>1, <3>1 DEF x
    <3> QED BY <3>1, <3>2, <3>3
  <2>2. CASE /\ j = Len(pubsub[r]) + 1 /\ pubsub'[r][j] = m /\ f.outcome = "published"
             /\ peers[f.at][f.to] = NoSocket
             /\ \A i \in 1..(j - 1) : i \in 1..Len(pubsub[r]) /\ pubsub'[r][i] = pubsub[r][i]
    BY <1>2, <1>3, <1>6, <2>2
  <2> QED BY <1>5, <2>1, <2>2
\* What is in a box: before the new one.
<1>8. ASSUME NEW s \in 1..Len(box), NEW k \in 1..Len(box'[s])
      PROVE  /\ \/ k \in 1..Len(box[s]) /\ box'[s][k] = box[s][k]
                \/ /\ k = Len(box[s]) + 1 /\ box'[s][k] = m /\ f.outcome = "sent"
                   /\ peers[f.at][f.to] = s
             /\ \A i \in 1..(k - 1) : i \in 1..Len(box[s]) /\ box'[s][i] = box[s][i]
  <2> DEFINE a == box'[s]
             b == box[s]
  <2>1. \/ a = b
        \/ f.outcome = "sent" /\ peers[f.at][f.to] = s /\ a = Append(b, m)
    BY <1>b
  <2>2. b \in Seq(Nat) /\ m \in Nat /\ k \in 1..Len(a) /\ (a = b \/ a = Append(b, m))
    BY <1>1, <1>8, <2>1
  <2> HIDE DEF a, b
  <2>3. /\ \/ k \in 1..Len(b) /\ a[k] = b[k]
           \/ a = Append(b, m) /\ k = Len(b) + 1 /\ a[k] = m
        /\ \A i \in 1..(k - 1) : i \in 1..Len(b) /\ a[i] = b[i]
    BY <2>2, GrownBy
  <2>4. CASE a = b
    <3>1. k \in 1..Len(b) /\ a[k] = b[k]
      BY <2>2, <2>4
    <3> QED BY <2>3, <3>1 DEF a, b
  <2>5. CASE f.outcome = "sent" /\ peers[f.at][f.to] = s
    BY <2>3, <2>5 DEF a, b
  <2> QED BY <2>1, <2>4, <2>5
<1>9. \A s \in 1..Len(box) : \A k \in 1..Len(box[s]) :
         k \in 1..Len(box'[s]) /\ box'[s][k] = box[s][k] /\ box[s][k] \in 1..n
  <2> SUFFICES ASSUME NEW s \in 1..Len(box), NEW k \in 1..Len(box[s])
               PROVE  k \in 1..Len(box'[s]) /\ box'[s][k] = box[s][k] /\ box[s][k] \in 1..n
    OBVIOUS
  <2>1. box[s][k] \in 1..n
    BY DEF RelayInv, Boxed, InBox, n
  <2> DEFINE a == box'[s]
  <2>2. a = box[s] \/ a = Append(box[s], m)
    BY <1>b
  <2>3. box[s] \in Seq(Nat) /\ m \in Nat
    BY <1>1
  <2> HIDE DEF a
  <2>4. \A i \in 1..Len(box[s]) : i \in 1..Len(a) /\ a[i] = box[s][i]
    BY <2>2, <2>3, GrownKeeps
  <2> QED BY <2>1, <2>4 DEF a
<1>10. Boxed'
  <2> SUFFICES ASSUME NEW s \in 1..Len(box'), NEW k \in 1..Len(box'[s]), NEW x, x = box'[s][k]
               PROVE  /\ x \in 1..Len(sent') /\ sent'[x].to = owner'[s]
                      /\ sent'[x].outcome \in {"sent", "published"}
                      /\ \A r \in Replica : peers'[r][owner'[s]] = s =>
                            /\ sent'[x].outcome = "sent" => sent'[x].at = r
                            /\ sent'[x].outcome = "published"
                                  => \A j \in 1..Len(pubsub'[r]) : x < pubsub'[r][j]
                      /\ \A j \in 1..(k - 1) :
                            /\ box'[s][j] # x
                            /\ sent'[box'[s][j]].at = sent'[x].at /\ x \notin moved' => box'[s][j] < x
    BY Zenon DEF Boxed, InBox
  <2>0. /\ s \in 1..Len(box) /\ owner' = owner /\ peers' = peers /\ moved' = moved /\ Len(sent') = m
    BY <1>2, <1>a
  <2>1. CASE /\ k \in 1..Len(box[s]) /\ box'[s][k] = box[s][k]
             /\ \A i \in 1..(k - 1) : i \in 1..Len(box[s]) /\ box'[s][i] = box[s][i]
    <3>0. x = box[s][k]
      BY <2>1
    <3>1. /\ x \in 1..n /\ sent[x].to = owner[s]
          /\ sent[x].outcome \in {"sent", "published"}
          /\ \A r \in Replica : peers[r][owner[s]] = s =>
                /\ sent[x].outcome = "sent" => sent[x].at = r
                /\ sent[x].outcome = "published" => \A j \in 1..Len(pubsub[r]) : x < pubsub[r][j]
          /\ \A j \in 1..(k - 1) :
                /\ box[s][j] # x
                /\ sent[box[s][j]].at = sent[x].at /\ x \notin moved => box[s][j] < x
      <4>1. Boxed /\ s \in 1..Len(box) /\ k \in 1..Len(box[s])
        BY <2>0, <2>1 DEF RelayInv
      <4> DEFINE y == box[s][k]
      <4>2. /\ y \in 1..n /\ sent[y].to = owner[s]
            /\ sent[y].outcome \in {"sent", "published"}
            /\ \A r \in Replica : peers[r][owner[s]] = s =>
                  /\ sent[y].outcome = "sent" => sent[y].at = r
                  /\ sent[y].outcome = "published" => \A j \in 1..Len(pubsub[r]) : y < pubsub[r][j]
            /\ \A j \in 1..(k - 1) :
                  /\ box[s][j] # y
                  /\ sent[box[s][j]].at = sent[y].at /\ y \notin moved => box[s][j] < y
        BY <4>1, Zenon DEF Boxed, InBox, n
      <4>3. x = y
        BY <3>0
      <4> HIDE DEF y
      <4> QED BY <4>2, <4>3
    <3>3. \A j \in 1..(k - 1) : box'[s][j] = box[s][j] /\ sent'[box'[s][j]] = sent[box[s][j]]
      BY <1>2, <1>9, <2>0, <2>1
    <3>4. x \in 1..m /\ sent'[x] = sent[x] /\ x < m
      BY <1>2, <1>3, <3>1
    <3>5. ASSUME NEW r \in Replica, peers[r][owner[s]] = s, sent[x].outcome = "published",
                 NEW j \in 1..Len(pubsub'[r])
          PROVE  x < pubsub'[r][j]
      BY <1>5, <2>0, <3>1, <3>4, <3>5
    <3> QED BY <2>0, <3>1, <3>3, <3>4, <3>5
  <2>2. CASE /\ k = Len(box[s]) + 1 /\ box'[s][k] = m /\ f.outcome = "sent"
             /\ peers[f.at][f.to] = s
             /\ \A i \in 1..(k - 1) : i \in 1..Len(box[s]) /\ box'[s][i] = box[s][i]
    <3>1. f.at \in Replica /\ f.to \in Peer
      BY DEF SentMessage
    <3>3. owner[s] = f.to /\ \A q \in Replica : peers[q][f.to] = s => q = f.at
      <4>1. peers[f.at][f.to] = s
        BY <2>2
      <4>2. \A u \in 1..Len(box) :
              /\ u # NoSocket
              /\ \A r \in Replica, p \in Peer : peers[r][p] = u =>
                    owner[u] = p /\ \A q \in Replica : peers[q][p] = u => q = r
        BY Registered DEF RelayInv
      <4> QED BY <2>0, <3>1, <4>1, <4>2, Zenon
    <3>4. \A j \in 1..(k - 1) : box'[s][j] \in 1..n /\ box'[s][j] # m /\ box'[s][j] < m
      BY <1>2, <1>3, <1>9, <2>0, <2>2
    <3>5. m \in 1..m /\ sent'[m] = f
      BY <1>2
    <3>6. \A r \in Replica : peers[r][owner[s]] = s => f.at = r
      BY <3>3
    <3>7. x = m /\ f.outcome = "sent"
      BY <2>2
    <3> QED BY <2>0, <3>3, <3>4, <3>5, <3>6, <3>7
  <2> QED BY <1>8, <2>0, <2>1, <2>2
<1>11. \A x \in 1..n : Boxes(x)' = Boxes(x)
  <2> SUFFICES ASSUME NEW x \in 1..n PROVE Boxes(x)' = Boxes(x)
    OBVIOUS
  <2>3. ASSUME NEW s \in 1..Len(box), NEW k \in 1..Len(box'[s]), box'[s][k] = x
        PROVE  \E i \in 1..Len(box[s]) : box[s][i] = x
    <3>1. x # m
      BY <1>2
    <3>2. k \in 1..Len(box[s]) /\ box'[s][k] = box[s][k]
      BY <1>8, <2>3, <3>1
    <3> QED BY <2>3, <3>2
  <2>4. ASSUME NEW s \in 1..Len(box), NEW i \in 1..Len(box[s]), box[s][i] = x
        PROVE  \E k \in 1..Len(box'[s]) : box'[s][k] = x
    <3>1. i \in 1..Len(box'[s]) /\ box'[s][i] = x
      BY <1>9, <2>4
    <3> QED BY <3>1
  <2>5. \A s \in 1..Len(box) : (\E k \in 1..Len(box'[s]) : box'[s][k] = x)
                                   <=> (\E i \in 1..Len(box[s]) : box[s][i] = x)
    BY <2>3, <2>4
  <2>6. RelayTypeOK /\ RelayTypeOK' /\ Len(box') = Len(box)
    BY <1>4, <1>a DEF RelayInv
  <2> QED BY <2>5, <2>6, BoxesSame, Zenon
<1>12. Known'
  <2> SUFFICES ASSUME NEW x \in 1..m
               PROVE  /\ sent'[x].outcome = "published" /\ x \notin moved =>
                            \A h \in Replica : sent'[x].holders = {h} => Reached(x, h)'
                      /\ sent'[x].outcome = "not_found" =>
                            sent'[x].at \notin sent'[x].holders /\ ~shared
    BY <1>2, <1>a DEF Known
  <2>1. CASE x \in 1..n
    <3>1. sent'[x] = sent[x] /\ Boxes(x)' = Boxes(x) /\ x # m
      BY <1>2, <1>11, <2>1
    <3>2. \A r \in Replica : On(r, x)' <=> On(r, x)
      BY <1>5, <1>6, <3>1 DEF On
    <3>3. ASSUME NEW h \in Replica, sent[x].outcome = "published", x \notin moved, sent[x].holders = {h}
          PROVE  Reached(x, h)'
      <4>1. Reached(x, h)
        BY <2>1, <3>3 DEF RelayInv, Known, n
      <4>2. DOMAIN box' = DOMAIN box
        BY <1>a, LenProperties DEF RelayInv, RelayTypeOK
      <4> QED BY <1>a, <3>1, <3>2, <4>1, <4>2 DEF Reached
    <3>4. sent[x].outcome = "not_found" => sent[x].at \notin sent[x].holders /\ ~shared
      BY <2>1 DEF RelayInv, Known, n
    <3> QED BY <3>1, <3>3, <3>4
  <2>2. CASE x = m
    <3>1. ASSUME NEW h \in Replica, f.outcome = "published", f.holders = {h} PROVE Reached(m, h)'
      <4>1. \A q \in Replica : peers[q][f.to] # NoSocket <=> q = h
        BY <1>c, <3>1
      <4>2. On(h, m)'
        <5>1. pubsub'[h] = Append(pubsub[h], m)
          BY <1>c, <3>1
        <5>2. pubsub[h] \in Seq(Nat) /\ m \in Nat
          BY <1>1
        <5> DEFINE a == pubsub'[h]
        <5>3. a = Append(pubsub[h], m)
          BY <5>1
        <5> HIDE DEF a
        <5>4. \E j \in 1..Len(a) : a[j] = m
          BY <5>2, <5>3, PushedLast
        <5> QED BY <5>4 DEF On, a
      <4>3. Boxes(m)' = {}
        <5>0. \A y : Boxes(y)' = {s \in 1..Len(box') : \E k \in 1..Len(box'[s]) : box'[s][k] = y}
          BY <1>4, BoxesIsNext
        <5>1. Boxes(m)' = {s \in 1..Len(box') : \E k \in 1..Len(box'[s]) : box'[s][k] = m}
          BY <5>0
        <5>2. ASSUME NEW s \in 1..Len(box), NEW k \in 1..Len(box'[s]) PROVE box'[s][k] # m
          <6>1. k \in 1..Len(box[s]) /\ box'[s][k] = box[s][k]
            BY <1>8, <3>1, <5>2
          <6> QED BY <1>2, <1>9, <6>1
        <5> QED BY <1>a, <5>1, <5>2
      <4> QED BY <1>2, <1>a, <4>1, <4>2, <4>3 DEF Reached
    <3> QED BY <1>2, <1>a, <2>2, <3>1
  <2> QED BY <1>2, <2>1, <2>2
<1> QED BY <1>4, <1>7, <1>10, <1>12 DEF RelayInv

LEMMA ForwardStep ==
    ASSUME RelayInv, NEW r \in Replica, NEW to \in Peer, Forward(r, to)
    PROVE  RelayInv'
<1> DEFINE m == Len(sent) + 1
           s == peers[r][to]
           holders == {q \in Replica : peers[q][to] # NoSocket}
           f(o) == [to |-> to, at |-> r, outcome |-> o, holders |-> holders]
<1>1. /\ box \in Seq(Seq(Nat)) /\ pubsub \in [Replica -> Seq(Nat)] /\ m \in Nat
      /\ UNCHANGED <<shared, peers, owner, moved>>
  BY RelayTypes DEF RelayInv, RelayTypeOK, Forward
<1>2. \A o \in Outcomes : /\ f(o) \in SentMessage
                          /\ f(o).to = to /\ f(o).at = r /\ f(o).outcome = o /\ f(o).holders = holders
  BY DEF SentMessage
<1>3. \/ /\ s # NoSocket /\ pubsub' = pubsub
         /\ \/ sent' = Append(sent, f("sent")) /\ box' = Into(s, m)
            \/ sent' = Append(sent, f("full")) /\ box' = box
      \/ /\ s = NoSocket /\ shared /\ box' = box
         /\ \/ sent' = Append(sent, f("published")) /\ pubsub' = [q \in Replica |-> Append(pubsub[q], m)]
            \/ sent' = Append(sent, f("failed")) /\ pubsub' = pubsub
      \/ s = NoSocket /\ ~shared /\ sent' = Append(sent, f("not_found")) /\ box' = box /\ pubsub' = pubsub
  BY Zenon DEF Forward
<1>4. \A o \in {"sent", "full", "published", "failed", "not_found"} : o \in Outcomes
  BY DEF Outcomes
<1>5. r \notin holders <=> s = NoSocket
  OBVIOUS
\* Whatever the outcome, a message is sent.
<1>6. ASSUME NEW o \in Outcomes, sent' = Append(sent, f(o)),
             box' \in Seq(Seq(Nat)) /\ Len(box') = Len(box), pubsub' \in [Replica -> Seq(Nat)],
             \A u \in 1..Len(box) :
                \/ box'[u] = box[u]
                \/ o = "sent" /\ s = u /\ box'[u] = Append(box[u], m),
             \/ pubsub' = pubsub /\ o # "published"
             \/ o = "published" /\ s = NoSocket /\ \A q \in Replica : pubsub'[q] = Append(pubsub[q], m),
             o = "not_found" => s = NoSocket /\ ~shared
      PROVE  RelayInv'
  <2> DEFINE g == f(o)
  <2>1. /\ g \in SentMessage
        /\ g.to = to /\ g.at = r /\ g.outcome = o /\ g.holders = holders
    BY <1>2
  <2>2. sent' = Append(sent, g)
    BY <1>6
  <2> HIDE DEF g
  <2>3. Forwards(g, m)
    BY <1>1, <1>5, <1>6, <2>1, <2>2 DEF Forwards
  <2> HIDE DEF m
  <2> QED BY <2>1, <2>3, ForwardKeeps
<1>7. CASE s # NoSocket /\ pubsub' = pubsub /\ sent' = Append(sent, f("sent")) /\ box' = Into(s, m)
  <2>1. s \in 1..Len(box)
    <3>1. s \in 1..Len(owner) /\ Len(box) = Len(owner)
      BY <1>7 DEF RelayInv, RelayTypeOK, Attached
    <3> QED BY <3>1
  <2>2. box[s] \in Seq(Nat) /\ DOMAIN box = 1..Len(box)
    BY <2>1, RelayTypes DEF RelayInv
  <2> DEFINE new == Append(box[s], m)
  <2>3. new \in Seq(Nat)
    BY <1>1, <2>2
  <2>4. box' = [box EXCEPT ![s] = new]
    BY <1>7 DEF Into
  <2> HIDE DEF new, m, s
  <2>5. box' \in Seq(Seq(Nat)) /\ Len(box') = Len(box)
    BY <1>1, <2>1, <2>3, <2>4, ExceptSeq
  <2>6. \A u \in 1..Len(box) : box'[u] = IF u = s THEN new ELSE box[u]
    BY <2>2, <2>4
  <2>7. \A u \in 1..Len(box) : box'[u] = box[u] \/ (s = u /\ box'[u] = Append(box[u], m))
    BY <2>6 DEF new
  <2> HIDE DEF f
  <2> QED BY <1>1, <1>4, <1>6, <1>7, <2>5, <2>7
<1>8. CASE s # NoSocket /\ pubsub' = pubsub /\ sent' = Append(sent, f("full")) /\ box' = box
  <2> HIDE DEF f, m, s
  <2> QED BY <1>1, <1>4, <1>6, <1>8
<1>9. CASE /\ s = NoSocket /\ shared /\ box' = box
           /\ sent' = Append(sent, f("published")) /\ pubsub' = [q \in Replica |-> Append(pubsub[q], m)]
  <2> HIDE DEF f, s, m
  <2>1. \A q \in Replica : Append(pubsub[q], m) \in Seq(Nat)
    BY <1>1
  <2>2. pubsub' \in [Replica -> Seq(Nat)] /\ \A q \in Replica : pubsub'[q] = Append(pubsub[q], m)
    BY <1>9, <2>1
  <2> QED BY <1>1, <1>4, <1>6, <1>9, <2>2
<1>10. CASE s = NoSocket /\ shared /\ box' = box /\ sent' = Append(sent, f("failed")) /\ pubsub' = pubsub
  <2> HIDE DEF f, m, s
  <2> QED BY <1>1, <1>4, <1>6, <1>10
<1>11. CASE s = NoSocket /\ ~shared /\ sent' = Append(sent, f("not_found")) /\ box' = box /\ pubsub' = pubsub
  <2> HIDE DEF f, m, s
  <2> QED BY <1>1, <1>4, <1>6, <1>11
<1> HIDE DEF f, m, s
<1> QED BY <1>3, <1>7, <1>8, <1>9, <1>10, <1>11

\* The first d messages for r are taken from its subscription.
Drains(r, d) ==
    /\ pubsub' \in [Replica -> Seq(Nat)]
    /\ \A q \in Replica : q # r => pubsub'[q] = pubsub[q]
    /\ \A j \in 1..Len(pubsub'[r]) :
          j + d \in 1..Len(pubsub[r]) /\ pubsub'[r][j] = pubsub[r][j + d]
    /\ UNCHANGED <<shared, peers, owner, sent>>
    /\ moved \subseteq moved' /\ moved' \in SUBSET Nat

\* What is still on its way was before, in the same order.
LEMMA Drained ==
    ASSUME RelayInv, NEW r \in Replica, NEW d \in Nat, Drains(r, d)
    PROVE  /\ \A q \in Replica : \A j \in 1..Len(pubsub'[q]) :
                 \E i \in 1..Len(pubsub[q]) : pubsub'[q][j] = pubsub[q][i]
           /\ Queued'
<1>1. /\ \A q \in Replica : q # r => pubsub'[q] = pubsub[q]
      /\ \A j \in 1..Len(pubsub'[r]) :
            j + d \in 1..Len(pubsub[r]) /\ pubsub'[r][j] = pubsub[r][j + d]
      /\ peers' = peers /\ sent' = sent /\ moved \subseteq moved'
  BY DEF Drains
<1>2. /\ \A q \in Replica : Len(pubsub[q]) \in Nat
      /\ \A q \in Replica : Len(pubsub'[q]) \in Nat
  BY RelayTypes, LenProperties DEF RelayInv, Drains
<1>3. \A q \in Replica : \A j \in 1..Len(pubsub[q]) :
         /\ pubsub[q][j] \in 1..Len(sent) /\ sent[pubsub[q][j]].outcome = "published"
         /\ \A i \in 1..(j - 1) : pubsub[q][i] < pubsub[q][j]
         /\ sent[pubsub[q][j]].at = q /\ peers[q][sent[pubsub[q][j]].to] # NoSocket
               => pubsub[q][j] \in moved
  BY DEF RelayInv, Queued
<1>4. ASSUME NEW q \in Replica, NEW j \in 1..Len(pubsub'[q]), NEW x, x = pubsub'[q][j]
      PROVE  /\ x \in 1..Len(sent) /\ sent[x].outcome = "published"
             /\ \A i \in 1..(j - 1) : pubsub'[q][i] < x
             /\ sent[x].at = q /\ peers[q][sent[x].to] # NoSocket => x \in moved
  <2>1. CASE q # r
    <3>1. j \in 1..Len(pubsub[q]) /\ x = pubsub[q][j] /\ pubsub'[q] = pubsub[q]
      BY <1>1, <1>4, <2>1
    <3> QED BY <1>3, <3>1
  <2>2. CASE q = r
    <3>1. j + d \in 1..Len(pubsub[r]) /\ x = pubsub[r][j + d]
      BY <1>1, <1>4, <2>2
    <3>2. \A i \in 1..(j - 1) : i \in 1..Len(pubsub'[r]) /\ i + d \in 1..((j + d) - 1)
      BY <1>2, <1>4, <2>2
    <3>3. \A i \in 1..(j - 1) : pubsub'[r][i] = pubsub[r][i + d]
      BY <1>1, <3>2
    <3> QED BY <1>3, <2>2, <3>1, <3>2, <3>3
  <2> QED BY <2>1, <2>2
<1>5. Queued'
  <2> SUFFICES ASSUME NEW q \in Replica, NEW j \in 1..Len(pubsub'[q]), NEW x, x = pubsub'[q][j]
               PROVE  /\ x \in 1..Len(sent') /\ sent'[x].outcome = "published"
                      /\ \A i \in 1..(j - 1) : pubsub'[q][i] < x
                      /\ sent'[x].at = q /\ peers'[q][sent'[x].to] # NoSocket => x \in moved'
    BY Zenon DEF Queued
  <2> QED BY <1>1, <1>4
<1>6. ASSUME NEW q \in Replica, NEW j \in 1..Len(pubsub'[q])
      PROVE  \E i \in 1..Len(pubsub[q]) : pubsub'[q][j] = pubsub[q][i]
  <2>1. CASE q # r
    BY <1>1, <1>6, <2>1
  <2>2. CASE q = r
    BY <1>1, <1>6, <2>2
  <2> QED BY <2>1, <2>2
<1> QED BY <1>5, <1>6

\* What is in a box stays right while the subscriptions are drained.
LEMMA BoxedStays ==
    ASSUME RelayInv, NEW r \in Replica, NEW d \in Nat, Drains(r, d),
           NEW s \in 1..Len(box), NEW k \in 1..Len(box[s]), NEW x, x = box[s][k]
    PROVE  /\ x \in 1..Len(sent) /\ sent[x].to = owner[s]
           /\ sent[x].outcome \in {"sent", "published"}
           /\ \A q \in Replica : peers[q][owner[s]] = s =>
                 /\ sent[x].outcome = "sent" => sent[x].at = q
                 /\ sent[x].outcome = "published" => \A j \in 1..Len(pubsub'[q]) : x < pubsub'[q][j]
           /\ \A j \in 1..(k - 1) :
                 /\ box[s][j] # x
                 /\ sent[box[s][j]].at = sent[x].at /\ x \notin moved' => box[s][j] < x
<1> DEFINE y == box[s][k]
<1>1. /\ y \in 1..Len(sent) /\ sent[y].to = owner[s]
      /\ sent[y].outcome \in {"sent", "published"}
      /\ \A q \in Replica : peers[q][owner[s]] = s =>
            /\ sent[y].outcome = "sent" => sent[y].at = q
            /\ sent[y].outcome = "published" => \A j \in 1..Len(pubsub[q]) : y < pubsub[q][j]
      /\ \A j \in 1..(k - 1) :
            /\ box[s][j] # y
            /\ sent[box[s][j]].at = sent[y].at /\ y \notin moved => box[s][j] < y
  BY Zenon DEF RelayInv, Boxed, InBox
<1>2. x = y
  OBVIOUS
<1> HIDE DEF y
<1>3. \A q \in Replica : \A j \in 1..Len(pubsub'[q]) :
         \E i \in 1..Len(pubsub[q]) : pubsub'[q][j] = pubsub[q][i]
  BY Drained
<1>4. moved \subseteq moved'
  BY DEF Drains
<1> QED BY SMTT(20), <1>1, <1>2, <1>3, <1>4

\* What was known of a message is known as long as its way and its boxes are the
\* same, and its copies elsewhere only become fewer.
LEMMA ReachedStays ==
    ASSUME NEW x, NEW h \in Replica, Reached(x, h), UNCHANGED <<peers, sent>>,
           \A q \in Replica : On(q, x)' => On(q, x), On(h, x) => On(h, x)',
           Boxes(x)' = Boxes(x), DOMAIN box' = DOMAIN box
    PROVE  Reached(x, h)'
<1>1. /\ (\E q \in Replica : On(q, x)) => \A q \in Replica : peers[q][sent[x].to] # NoSocket <=> q = h
      /\ On(h, x) => Boxes(x) = {}
      /\ ~On(h, x) => \E s \in DOMAIN box : Boxes(x) = {s}
  BY DEF Reached
<1>2. (\E q \in Replica : On(q, x)') =>
         \A q \in Replica : peers'[q][sent'[x].to] # NoSocket <=> q = h
  BY <1>1
<1>3. On(h, x)' => Boxes(x)' = {}
  BY <1>1
<1>4. ~On(h, x)' => \E s \in DOMAIN box' : Boxes(x)' = {s}
  BY <1>1
<1> QED BY <1>2, <1>3, <1>4 DEF Reached

\* Messages are lost or taken to no box: those that were lost are in moved, and
\* another that is taken had no socket where it was taken.
LEMMA DrainKeeps ==
    ASSUME RelayInv, NEW r \in Replica, NEW d \in Nat, Drains(r, d), box' = box,
           \A x \in 1..Len(sent) :
              On(r, x) /\ x \notin moved' => On(r, x)' \/ peers[r][sent[x].to] = NoSocket
    PROVE  RelayInv'
<1>1. /\ UNCHANGED <<shared, peers, owner, sent>> /\ pubsub' \in [Replica -> Seq(Nat)]
      /\ moved \subseteq moved' /\ moved' \in SUBSET Nat
      /\ \A q \in Replica : q # r => pubsub'[q] = pubsub[q]
  BY DEF Drains
<1>2. RelayTypeOK' /\ Attached'
  BY <1>1 DEF RelayInv, RelayTypeOK, Attached
<1>3. Queued' /\ \A q \in Replica : \A j \in 1..Len(pubsub'[q]) :
                    \E i \in 1..Len(pubsub[q]) : pubsub'[q][j] = pubsub[q][i]
  BY Drained
<1>4. Boxed'
  <2> SUFFICES ASSUME NEW s \in 1..Len(box'), NEW k \in 1..Len(box'[s]), NEW x, x = box'[s][k]
               PROVE  InBox(s, k, x)'
    BY BoxedNext
  <2>1. s \in 1..Len(box) /\ k \in 1..Len(box[s]) /\ x = box[s][k]
    OBVIOUS
  <2>2. /\ x \in 1..Len(sent) /\ sent[x].to = owner[s]
        /\ sent[x].outcome \in {"sent", "published"}
        /\ \A q \in Replica : peers[q][owner[s]] = s =>
              /\ sent[x].outcome = "sent" => sent[x].at = q
              /\ sent[x].outcome = "published" => \A j \in 1..Len(pubsub'[q]) : x < pubsub'[q][j]
        /\ \A j \in 1..(k - 1) :
              /\ box[s][j] # x
              /\ sent[box[s][j]].at = sent[x].at /\ x \notin moved' => box[s][j] < x
    BY <2>1, BoxedStays
  <2> QED BY <1>1, <2>2 DEF InBox
<1>5. Known'
  <2> SUFFICES ASSUME NEW x \in 1..Len(sent)
               PROVE  /\ sent[x].outcome = "published" /\ x \notin moved' =>
                            \A h \in Replica : sent[x].holders = {h} => Reached(x, h)'
                      /\ sent[x].outcome = "not_found" =>
                            sent[x].at \notin sent[x].holders /\ ~shared
    BY <1>1 DEF Known
  <2>1. ASSUME NEW h \in Replica, sent[x].outcome = "published", x \notin moved', sent[x].holders = {h}
        PROVE  Reached(x, h)'
    <3>1. Reached(x, h)
      BY <1>1, <2>1 DEF RelayInv, Known
    <3>2. ASSUME NEW q \in Replica, On(q, x)' PROVE On(q, x)
      <4>1. PICK j \in 1..Len(pubsub'[q]) : pubsub'[q][j] = x
        BY <3>2 DEF On
      <4> QED BY <1>3, <4>1 DEF On
    <3>3. On(h, x) => On(h, x)'
      <4>1. CASE h # r
        BY <1>1, <4>1 DEF On
      <4>2. CASE h = r
        <5>1. On(r, x) => peers[r][sent[x].to] # NoSocket
          BY <3>1, <4>2 DEF Reached
        <5> QED BY <2>1, <4>2, <5>1
      <4> QED BY <4>1, <4>2
    <3>4. Boxes(x)' = Boxes(x) /\ DOMAIN box' = DOMAIN box
      BY DEF Boxes
    <3> QED BY <1>1, <3>1, <3>2, <3>3, <3>4, ReachedStays
  <2> QED BY <2>1 DEF RelayInv, Known
<1> QED BY <1>2, <1>3, <1>4, <1>5 DEF RelayInv

LEMMA ResubscribeStep ==
    ASSUME RelayInv, NEW r \in Replica, Resubscribe(r)
    PROVE  RelayInv'
<1> DEFINE d == Len(pubsub[r])
           lost == {pubsub[r][k] : k \in DOMAIN pubsub[r]}
<1>1. /\ pubsub' = [pubsub EXCEPT ![r] = <<>>] /\ moved' = moved \cup lost
      /\ UNCHANGED <<shared, peers, owner, box, sent>>
  BY DEF Resubscribe
<1>2. /\ pubsub \in [Replica -> Seq(Nat)] /\ moved \in SUBSET Nat /\ d \in Nat
      /\ DOMAIN pubsub[r] = 1..d /\ \A k \in 1..d : pubsub[r][k] \in Nat
  <2>1. pubsub \in [Replica -> Seq(Nat)] /\ moved \in SUBSET Nat
    BY DEF RelayInv, RelayTypeOK
  <2>2. pubsub[r] \in Seq(Nat)
    BY <2>1
  <2> QED BY <2>1, <2>2, LenProperties, ElementOfSeq
<1>3. pubsub' \in [Replica -> Seq(Nat)] /\ pubsub'[r] = <<>>
      /\ \A q \in Replica : q # r => pubsub'[q] = pubsub[q]
  <2>1. <<>> \in Seq(Nat)
    OBVIOUS
  <2> QED BY <1>1, <1>2, <2>1
<1>4. \A j \in 1..Len(pubsub'[r]) : FALSE
  <2>1. Len(pubsub'[r]) = 0
    BY <1>3
  <2> QED BY <2>1
<1>5. lost \subseteq Nat /\ \A x : On(r, x) => x \in lost
  BY <1>2 DEF On
<1> HIDE DEF lost, d
<1>6. Drains(r, d)
  BY <1>1, <1>2, <1>3, <1>4, <1>5 DEF Drains
<1>7. \A x \in 1..Len(sent) :
         On(r, x) /\ x \notin moved' => On(r, x)' \/ peers[r][sent[x].to] = NoSocket
  BY <1>1, <1>5
<1> QED BY <1>1, <1>2, <1>6, <1>7, DrainKeeps

\* The first message of a subscription, and the rest.
LEMMA Popped ==
    ASSUME NEW q \in Seq(Nat), q # <<>>, NEW t, t = Tail(q)
    PROVE  /\ t \in Seq(Nat) /\ Head(q) = q[1] /\ Len(q) \in Nat /\ 1 \in 1..Len(q)
           /\ \A j \in 1..Len(t) : j + 1 \in 1..Len(q) /\ t[j] = q[j + 1]
           /\ \A i \in 1..Len(q) : i = 1 \/ \E j \in 1..Len(t) : q[i] = t[j]
<1>1. /\ t \in Seq(Nat) /\ Head(q) = q[1] /\ Len(q) \in Nat /\ Len(t) = Len(q) - 1
      /\ \A j \in 1..Len(t) : t[j] = q[j + 1]
  BY HeadTailProperties
<1>2. Len(q) # 0
  BY EmptySeq
<1>3. \A j \in 1..Len(t) : j + 1 \in 1..Len(q)
  BY <1>1, <1>2
<1>4. ASSUME NEW i \in 1..Len(q), i # 1 PROVE \E j \in 1..Len(t) : q[i] = t[j]
  <2>1. i - 1 \in 1..Len(t) /\ (i - 1) + 1 = i
    BY <1>1, <1>2, <1>4
  <2>2. t[i - 1] = q[i]
    BY <1>1, <2>1
  <2> QED BY <2>1, <2>2
<1> QED BY <1>1, <1>2, <1>3, <1>4

\* The first message of a subscription goes into its addressee's box.
Delivers(r, m, s) ==
    /\ Drains(r, 1)
    /\ m \in 1..Len(sent) /\ 1 \in 1..Len(pubsub[r]) /\ m = pubsub[r][1]
    /\ s = peers[r][sent[m].to] /\ s # NoSocket
    /\ sent[m].outcome = "published" /\ (sent[m].at = r => m \in moved)
    /\ box' = Into(s, m) /\ moved' = moved
    /\ \A j \in 1..Len(pubsub'[r]) : m < pubsub'[r][j]
    /\ \A x : On(r, x) => x = m \/ On(r, x)'

LEMMA DeliveredKeeps ==
    ASSUME RelayInv, NEW r \in Replica, NEW m, NEW s, Delivers(r, m, s)
    PROVE  RelayInv'
<1> DEFINE to == sent[m].to
           new == Append(box[s], m)
<1>a. /\ Drains(r, 1) /\ box' = Into(s, m) /\ moved' = moved
      /\ m \in 1..Len(sent) /\ 1 \in 1..Len(pubsub[r]) /\ m = pubsub[r][1]
      /\ s = peers[r][to] /\ s # NoSocket
      /\ sent[m].outcome = "published" /\ (sent[m].at = r => m \in moved)
  BY DEF Delivers
<1>b. /\ \A j \in 1..Len(pubsub'[r]) : m < pubsub'[r][j]
      /\ \A x : On(r, x) => x = m \/ On(r, x)'
  BY DEF Delivers
<1>1. /\ UNCHANGED <<shared, peers, owner, sent>> /\ pubsub' \in [Replica -> Seq(Nat)]
      /\ \A q \in Replica : q # r => pubsub'[q] = pubsub[q]
  BY <1>a DEF Drains
<1>2. /\ Len(sent) \in Nat /\ m \in Nat /\ to \in Peer /\ Len(box) = Len(owner)
      /\ box \in Seq(Seq(Nat)) /\ DOMAIN box = 1..Len(box)
      /\ \A u \in 1..Len(box) : box[u] \in Seq(Nat) /\ Len(box[u]) \in Nat
  BY SMTT(20), <1>a, RelayTypes DEF RelayInv, RelayTypeOK, SentMessage
<1>3. /\ s \in 1..Len(box) /\ owner[s] = to
      /\ \A q \in Replica : peers[q][to] = s => q = r
  <2>1. Attached
    BY DEF RelayInv
  <2>2. peers[r][to] = s /\ peers[r][to] # NoSocket
    BY <1>a
  <2> HIDE DEF to
  <2>3. /\ peers[r][to] \in 1..Len(owner) /\ owner[peers[r][to]] = to
        /\ \A q \in Replica : peers[q][to] = peers[r][to] => q = r
    BY <1>2, <2>1, <2>2, Zenon DEF Attached
  <2> QED BY <1>2, <2>2, <2>3
<1>4. new \in Seq(Nat) /\ box' = [box EXCEPT ![s] = new] /\ box[s] \in Seq(Nat)
  <2>1. box' = [box EXCEPT ![s] = new]
    BY <1>a DEF Into
  <2>2. box[s] \in Seq(Nat)
    BY <1>2, <1>3
  <2>3. new \in Seq(Nat)
    BY <1>2, <2>2
  <2> QED BY <2>1, <2>2, <2>3
<1>5. new = box[s] \/ new = Append(box[s], m)
  OBVIOUS
<1> HIDE DEF new, to
<1>6. /\ box' \in Seq(Seq(Nat)) /\ Len(box') = Len(box)
      /\ \A u \in 1..Len(box) : box'[u] = IF u = s THEN new ELSE box[u]
      /\ DOMAIN box' = 1..Len(box')
  <2>1. box' \in Seq(Seq(Nat)) /\ Len(box') = Len(box)
    BY <1>2, <1>3, <1>4, ExceptSeq
  <2> QED BY <1>2, <1>4, <2>1, LenProperties
<1>7. RelayTypeOK' /\ Attached'
  <2>1. RelayTypeOK /\ Attached
    BY DEF RelayInv
  <2>2. RelayTypeOK'
    BY <1>1, <1>a, <1>6, <2>1 DEF RelayTypeOK
  <2> QED BY <1>1, <2>1, <2>2 DEF Attached
<1>8. Queued' /\ \A q \in Replica : \A j \in 1..Len(pubsub'[q]) :
                    \E i \in 1..Len(pubsub[q]) : pubsub'[q][j] = pubsub[q][i]
  BY <1>a, Drained
\* What is in a box: before the new one.
<1>9. ASSUME NEW u \in 1..Len(box), NEW k \in 1..Len(box'[u])
      PROVE  /\ \/ k \in 1..Len(box[u]) /\ box'[u][k] = box[u][k]
                \/ u = s /\ box'[u][k] = m
             /\ \A i \in 1..(k - 1) : i \in 1..Len(box[u]) /\ box'[u][i] = box[u][i]
  <2>1. CASE u = s
    <3>1. box'[u] = new /\ k \in 1..Len(new) /\ box[s] \in Seq(Nat) /\ m \in Nat
      BY <1>2, <1>4, <1>6, <1>9, <2>1
    <3> DEFINE b == box[s]
    <3>2. b \in Seq(Nat) /\ k \in 1..Len(new) /\ m \in Nat /\ (new = b \/ new = Append(b, m))
      BY <1>5, <3>1
    <3> HIDE DEF b
    <3>3. /\ \/ k \in 1..Len(b) /\ new[k] = b[k]
             \/ new = Append(b, m) /\ k = Len(b) + 1 /\ new[k] = m
          /\ \A i \in 1..(k - 1) : i \in 1..Len(b) /\ new[i] = b[i]
      BY <3>2, GrownBy
    <3> QED BY <2>1, <3>1, <3>3 DEF b
  <2>2. CASE u # s
    <3>1. box'[u] = box[u] /\ k \in 1..Len(box[u])
      BY <1>6, <1>9, <2>2
    <3>2. \A i \in 1..(k - 1) : i \in 1..Len(box[u])
      BY <1>2, <3>1
    <3> QED BY <3>1, <3>2
  <2> QED BY <2>1, <2>2
<1>10. ASSUME NEW u \in 1..Len(box), NEW k \in 1..Len(box[u])
       PROVE  k \in 1..Len(box'[u]) /\ box'[u][k] = box[u][k]
  <2>1. CASE u = s
    <3>1. box'[u] = new
      BY <1>6, <2>1
    <3>2. \A i \in 1..Len(box[s]) : i \in 1..Len(new) /\ new[i] = box[s][i]
      BY <1>2, <1>4, <1>5, GrownKeeps
    <3> QED BY <1>10, <2>1, <3>1, <3>2
  <2>2. CASE u # s
    BY <1>6, <1>10, <2>2
  <2> QED BY <2>1, <2>2
\* What is in the box already was sent before, or at this replica.
<1>11. ASSUME NEW k \in 1..Len(box[s]), NEW x, x = box[s][k]
       PROVE  x # m /\ (sent[x].at = sent[m].at /\ m \notin moved => x < m)
  <2> DEFINE y == box[s][k]
  <2>1. /\ y \in 1..Len(sent) /\ sent[y].outcome \in {"sent", "published"}
        /\ \A q \in Replica : peers[q][owner[s]] = s =>
              /\ sent[y].outcome = "sent" => sent[y].at = q
              /\ sent[y].outcome = "published" => \A j \in 1..Len(pubsub[q]) : y < pubsub[q][j]
    BY <1>3, Zenon DEF RelayInv, Boxed, InBox
  <2>2. x = y /\ peers[r][owner[s]] = s
    BY <1>a, <1>3, <1>11
  <2> HIDE DEF y
  <2>3. /\ sent[y].outcome = "published" => y < m
        /\ sent[y].outcome = "sent" => sent[y].at = r
    BY <1>a, <2>1, <2>2
  <2>4. sent[y].outcome = "sent" => y # m
    BY <1>a
  <2>5. y < m => y # m
    BY <1>2, <2>1
  <2>6. y # m
    BY <2>1, <2>3, <2>4, <2>5
  <2>7. sent[y].at = sent[m].at /\ m \notin moved => y < m
    BY <1>a, <2>1, <2>3
  <2> QED BY <2>2, <2>3, <2>6, <2>7
<1>12. Boxed'
  <2> SUFFICES ASSUME NEW u \in 1..Len(box'), NEW k \in 1..Len(box'[u]), NEW x, x = box'[u][k]
               PROVE  InBox(u, k, x)'
    BY BoxedNext
  <2>1. u \in 1..Len(box)
    BY <1>6
  <2>2. CASE /\ k \in 1..Len(box[u]) /\ box'[u][k] = box[u][k]
             /\ \A i \in 1..(k - 1) : i \in 1..Len(box[u]) /\ box'[u][i] = box[u][i]
    <3>1. /\ x \in 1..Len(sent) /\ sent[x].to = owner[u]
          /\ sent[x].outcome \in {"sent", "published"}
          /\ \A q \in Replica : peers[q][owner[u]] = u =>
                /\ sent[x].outcome = "sent" => sent[x].at = q
                /\ sent[x].outcome = "published" => \A j \in 1..Len(pubsub'[q]) : x < pubsub'[q][j]
          /\ \A j \in 1..(k - 1) :
                /\ box[u][j] # x
                /\ sent[box[u][j]].at = sent[x].at /\ x \notin moved' => box[u][j] < x
      <4>1. Drains(r, 1) /\ 1 \in Nat /\ x = box[u][k] /\ k \in 1..Len(box[u])
        BY <1>a, <2>2
      <4> QED BY <2>1, <4>1, BoxedStays, Zenon
    <3> QED BY <1>1, <2>2, <3>1 DEF InBox
  <2>3. CASE /\ u = s /\ box'[u][k] = m
             /\ \A i \in 1..(k - 1) : i \in 1..Len(box[u]) /\ box'[u][i] = box[u][i]
    <3>1. x = m /\ owner[u] = to /\ \A q \in Replica : peers[q][to] = u => q = r
      BY <1>3, <2>3
    <3>2. \A j \in 1..(k - 1) :
             /\ box'[u][j] # m
             /\ sent[box'[u][j]].at = sent[m].at /\ m \notin moved => box'[u][j] < m
      BY <1>11, <2>3
    <3>3. sent[m].to = to
      BY DEF to
    <3> QED BY <1>1, <1>a, <1>b, <3>1, <3>2, <3>3 DEF InBox
  <2> QED BY <1>9, <2>1, <2>2, <2>3
<1>13. \A x : x # m => Boxes(x)' = Boxes(x)
  <2> SUFFICES ASSUME NEW x, x # m PROVE Boxes(x)' = Boxes(x)
    OBVIOUS
  <2>1. \A u \in 1..Len(box) : (\E k \in 1..Len(box'[u]) : box'[u][k] = x)
                                  <=> (\E i \in 1..Len(box[u]) : box[u][i] = x)
    BY <1>9, <1>10
  <2>2. RelayTypeOK /\ RelayTypeOK' /\ Len(box') = Len(box)
    BY <1>6, <1>7 DEF RelayInv
  <2> QED BY <2>1, <2>2, BoxesSame
<1>14. Boxes(m) = {} => Boxes(m)' = {s}
  <2> SUFFICES ASSUME Boxes(m) = {} PROVE Boxes(m)' = {s}
    OBVIOUS
  <2>1. \A u \in 1..Len(box) : \A k \in 1..Len(box[u]) : box[u][k] # m
    <3>1. Boxes(m) = {u \in 1..Len(box) : \E k \in 1..Len(box[u]) : box[u][k] = m}
      BY BoxesIs DEF RelayInv
    <3> QED BY <3>1
  <2>2. Boxes(m)' = {u \in 1..Len(box') : \E k \in 1..Len(box'[u]) : box'[u][k] = m}
    BY <1>7, BoxesIsNext
  <2>3. \A u \in 1..Len(box) : (\E k \in 1..Len(box'[u]) : box'[u][k] = m) => u = s
    BY <1>9, <2>1
  <2>4. \E k \in 1..Len(box'[s]) : box'[s][k] = m
    <3>1. box'[s] = new
      BY <1>3, <1>6
    <3>2. \E k \in 1..Len(new) : new[k] = m
      BY <1>2, <1>4, PushedLast DEF new
    <3> QED BY <3>1, <3>2
  <2> QED BY <1>3, <1>6, <2>2, <2>3, <2>4
<1>15. Known'
  <2> SUFFICES ASSUME NEW x \in 1..Len(sent)
               PROVE  /\ sent[x].outcome = "published" /\ x \notin moved =>
                            \A h \in Replica : sent[x].holders = {h} => Reached(x, h)'
                      /\ sent[x].outcome = "not_found" =>
                            sent[x].at \notin sent[x].holders /\ ~shared
    BY <1>1, <1>a DEF Known
  <2>1. ASSUME NEW h \in Replica, sent[x].outcome = "published", x \notin moved, sent[x].holders = {h}
        PROVE  Reached(x, h)'
    <3>1. Reached(x, h)
      BY <2>1 DEF RelayInv, Known
    <3>2. ASSUME NEW q \in Replica, On(q, x)' PROVE On(q, x)
      <4>1. PICK j \in 1..Len(pubsub'[q]) : pubsub'[q][j] = x
        BY <3>2 DEF On
      <4> QED BY <1>8, <4>1 DEF On
    <3>3. CASE x # m
      <4>1. On(h, x) => On(h, x)'
        <5>1. CASE h # r
          BY <1>1, <5>1 DEF On
        <5>2. CASE h = r
          BY <1>b, <3>3, <5>2
        <5> QED BY <5>1, <5>2
      <4>2. Boxes(x)' = Boxes(x) /\ DOMAIN box' = DOMAIN box
        BY <1>2, <1>6, <1>13, <3>3
      <4> QED BY <1>1, <3>1, <3>2, <4>1, <4>2, ReachedStays
    <3>4. CASE x = m
      <4>1. On(r, m)
        BY <1>a DEF On
      <4>2. /\ \A q \in Replica : peers[q][sent[m].to] # NoSocket <=> q = h
            /\ On(h, m) => Boxes(m) = {}
        BY <3>1, <3>4, <4>1 DEF Reached
      <4>3. r = h
        BY <1>a, <4>2 DEF to
      <4>4. ~On(h, m)'
        <5>1. \A j \in 1..Len(pubsub'[r]) : pubsub'[r][j] # m
          BY <1>1, <1>2, <1>b
        <5> QED BY <4>3, <5>1 DEF On
      <4>5. Boxes(m)' = {s} /\ s \in DOMAIN box'
        BY <1>3, <1>6, <1>14, <4>1, <4>2, <4>3
      <4> QED BY <1>1, <3>4, <4>2, <4>4, <4>5 DEF Reached
    <3> QED BY <3>3, <3>4
  <2> QED BY <2>1 DEF RelayInv, Known
<1> QED BY <1>7, <1>8, <1>12, <1>15 DEF RelayInv

LEMMA DeliverStep ==
    ASSUME RelayInv, NEW r \in Replica, Deliver(r)
    PROVE  RelayInv'
<1> DEFINE q == pubsub[r]
           t == Tail(q)
           m == q[1]
           to == sent[m].to
           s == peers[r][to]
<1>1. q # <<>> /\ pubsub' = [pubsub EXCEPT ![r] = t] /\ UNCHANGED <<shared, peers, owner, sent>>
  BY DEF Deliver
<1>2. pubsub \in [Replica -> Seq(Nat)] /\ q \in Seq(Nat)
  BY DEF RelayInv, RelayTypeOK
<1>3. /\ t \in Seq(Nat) /\ Head(q) = m /\ Len(q) \in Nat /\ 1 \in 1..Len(q)
      /\ \A j \in 1..Len(t) : j + 1 \in 1..Len(q) /\ t[j] = q[j + 1]
      /\ \A i \in 1..Len(q) : i = 1 \/ \E j \in 1..Len(t) : q[i] = t[j]
  BY <1>1, <1>2, Popped
<1>4. \/ s = NoSocket /\ box' = box /\ moved' = moved
      \/ s # NoSocket /\ box' = Into(s, m) /\ moved' = moved
      \/ s # NoSocket /\ box' = box /\ moved' = moved \cup {m}
  BY <1>3, Zenon DEF Deliver
<1>5. /\ m \in 1..Len(sent) /\ sent[m].outcome = "published"
      /\ sent[m].at = r /\ peers[r][to] # NoSocket => m \in moved
      /\ \A j \in 1..Len(q) : \A i \in 1..(j - 1) : q[i] < q[j]
  BY <1>3 DEF RelayInv, Queued
<1>6. to \in Peer /\ Len(sent) \in Nat /\ m \in Nat
  BY <1>5, RelayTypes DEF RelayInv, SentMessage
<1>7. \A j \in 1..Len(t) : m < t[j]
  <2> SUFFICES ASSUME NEW j \in 1..Len(t) PROVE m < t[j]
    OBVIOUS
  <2>1. j + 1 \in 1..Len(q) /\ t[j] = q[j + 1] /\ 1 \in 1..((j + 1) - 1)
    BY <1>3
  <2>2. q[1] < q[j + 1]
    BY <1>5, <2>1
  <2> QED BY <2>1, <2>2
<1> HIDE DEF t
<1>8. pubsub' \in [Replica -> Seq(Nat)] /\ pubsub'[r] = t
      /\ \A u \in Replica : u # r => pubsub'[u] = pubsub[u]
  BY <1>1, <1>2, <1>3
<1>9. moved' \in SUBSET Nat /\ moved \subseteq moved'
  BY <1>4, <1>6 DEF RelayInv, RelayTypeOK
<1>10. Drains(r, 1)
  BY <1>1, <1>3, <1>8, <1>9 DEF Drains
<1>11. \A x : On(r, x) => x = m \/ On(r, x)'
  <2> SUFFICES ASSUME NEW x, NEW i \in 1..Len(q), q[i] = x, i # 1 PROVE \E j \in 1..Len(t) : t[j] = x
    BY <1>8, Zenon DEF On
  <2> QED BY <1>3
<1> HIDE DEF q, m, to, s
<1>12. CASE s = NoSocket /\ box' = box
  <2>1. \A x \in 1..Len(sent) :
           On(r, x) /\ x \notin moved' => On(r, x)' \/ peers[r][sent[x].to] = NoSocket
    BY <1>11, <1>12 DEF s, to
  <2> QED BY <1>10, <1>12, <2>1, DrainKeeps
<1>13. CASE box' = box /\ moved' = moved \cup {m}
  <2>1. \A x \in 1..Len(sent) :
           On(r, x) /\ x \notin moved' => On(r, x)' \/ peers[r][sent[x].to] = NoSocket
    BY <1>11, <1>13
  <2> QED BY <1>10, <1>13, <2>1, DrainKeeps
<1>14. CASE s # NoSocket /\ box' = Into(s, m) /\ moved' = moved
  <2>1. s = peers[r][sent[m].to] /\ m = pubsub[r][1] /\ 1 \in 1..Len(pubsub[r])
    BY <1>3 DEF s, to, m, q
  <2>2. \A j \in 1..Len(pubsub'[r]) : m < pubsub'[r][j]
    BY <1>7, <1>8
  <2>3. Delivers(r, m, s)
    BY <1>5, <1>10, <1>11, <1>14, <2>1, <2>2 DEF Delivers, to
  <2> QED BY <2>3, DeliveredKeeps
<1> QED BY <1>4, <1>12, <1>13, <1>14

LEMMA RelayInitHolds ==
    ASSUME RelayInit
    PROVE  RelayInv
<1>1. /\ shared \in BOOLEAN /\ peers = [r \in Replica |-> [p \in Peer |-> NoSocket]]
      /\ owner = <<>> /\ pubsub = [r \in Replica |-> <<>>]
      /\ box = <<>> /\ sent = <<>> /\ moved = {}
  BY DEF RelayInit
<1>2. <<>> \in Seq(Peer) /\ <<>> \in Seq(Nat) /\ <<>> \in Seq(Seq(Nat)) /\ Len(<<>>) = 0
      /\ <<>> \in Seq([to : Peer, at : Replica, outcome : Outcomes, holders : SUBSET Replica])
  OBVIOUS
<1>3. pubsub \in [Replica -> Seq(Nat)] /\ peers \in [Replica -> [Peer -> 1..MaxSockets \cup {NoSocket}]]
  BY <1>1, <1>2
<1>4. RelayTypeOK
  <2>1. 0 <= MaxSockets
    BY RelayAssumption
  <2> QED BY <1>1, <1>2, <1>3, <2>1 DEF RelayTypeOK
<1>5. \A x \in 1..0 : FALSE
  OBVIOUS
<1>6. Attached
  BY <1>1 DEF Attached
<1>7. Queued
  <2>1. \A r \in Replica : Len(pubsub[r]) = 0
    BY <1>1, <1>2
  <2> QED BY <1>5, <2>1 DEF Queued
<1>8. Boxed
  <2>1. Len(box) = 0
    BY <1>1, <1>2
  <2> QED BY <1>5, <2>1 DEF Boxed, InBox
<1>9. Known
  <2>1. Len(sent) = 0
    BY <1>1, <1>2
  <2> QED BY <1>5, <2>1 DEF Known
<1> QED BY <1>4, <1>6, <1>7, <1>8, <1>9 DEF RelayInv

LEMMA RelayNextHolds ==
    ASSUME RelayInv, [RelayNext]_relayVars
    PROVE  RelayInv'
<1>1. CASE RelayNext
  <2>1. PICK r \in Replica :
           \/ \E p \in Peer : Join(r, p) \/ Leave(r, p) \/ Forward(r, p)
           \/ Deliver(r) \/ Resubscribe(r)
    BY <1>1 DEF RelayNext
  <2>2. CASE \E p \in Peer : Join(r, p) \/ Leave(r, p) \/ Forward(r, p)
    BY <2>2, JoinStep, LeaveStep, ForwardStep
  <2>3. CASE Deliver(r)
    BY <2>3, DeliverStep
  <2>4. CASE Resubscribe(r)
    BY <2>4, ResubscribeStep
  <2> QED BY <2>1, <2>2, <2>3, <2>4
<1>2. CASE UNCHANGED relayVars
  <2>1. /\ UNCHANGED <<shared, peers, owner, pubsub, box, sent, moved>>
    BY <1>2 DEF relayVars
  <2>2. RelayTypeOK'
    BY <2>1 DEF RelayInv, RelayTypeOK
  <2>3. Attached' /\ Queued'
    BY <2>1 DEF RelayInv, Attached, Queued
  <2>4. Boxed'
    BY <2>1 DEF RelayInv, Boxed, InBox
  <2>5. ASSUME NEW m, NEW h PROVE Reached(m, h)' <=> Reached(m, h)
    BY <2>1 DEF Reached, On, Boxes
  <2>6. Known'
    BY <2>1, <2>5 DEF RelayInv, Known
  <2> QED BY <2>2, <2>3, <2>4, <2>6 DEF RelayInv
<1> QED BY <1>1, <1>2

\* The invariant says where every message is.
LEMMA Relayed ==
    ASSUME RelayInv
    PROVE  RelayedToAddressee
<1>1. /\ DOMAIN box = 1..Len(box) /\ DOMAIN sent = 1..Len(sent)
      /\ \A m \in 1..Len(sent) : sent[m] \in SentMessage
  BY RelayTypes DEF RelayInv
<1>2. \A s \in 1..Len(box) : DOMAIN box[s] = 1..Len(box[s])
  BY RelayTypes, LenProperties DEF RelayInv
<1>3. ASSUME NEW s \in DOMAIN box, NEW k \in DOMAIN box[s]
      PROVE  /\ sent[box[s][k]].to = owner[s]
             /\ \A j \in 1..(k - 1) :
                   /\ box[s][j] # box[s][k]
                   /\ sent[box[s][j]].at = sent[box[s][k]].at /\ box[s][k] \notin moved
                         => box[s][j] < box[s][k]
  <2>1. s \in 1..Len(box) /\ k \in 1..Len(box[s])
    BY <1>1, <1>2, <1>3
  <2> QED BY <2>1, Zenon DEF RelayInv, Boxed, InBox
<1>4. ASSUME NEW m \in DOMAIN sent
      PROVE  /\ sent[m].outcome = "published" /\ Cardinality(sent[m].holders) = 1
                      /\ m \notin moved /\ m \notin OnTheWay => Cardinality(Boxes(m)) = 1
             /\ sent[m].outcome = "not_found" => sent[m].at \notin sent[m].holders /\ ~shared
  <2>1. m \in 1..Len(sent) /\ sent[m].holders \in SUBSET Replica
    BY <1>1, <1>4 DEF SentMessage
  <2>2. ASSUME sent[m].outcome = "published", Cardinality(sent[m].holders) = 1,
               m \notin moved, m \notin OnTheWay
        PROVE  Cardinality(Boxes(m)) = 1
    <3>1. PICK h : sent[m].holders = {h}
      <4>1. IsFiniteSet(sent[m].holders)
        BY <2>1, RelayAssumption, FS_Subset
      <4> QED BY <2>2, <4>1, FS_Singleton
    <3>2. h \in Replica
      BY <2>1, <3>1
    <3>3. Reached(m, h)
      BY <2>1, <2>2, <3>1, <3>2 DEF RelayInv, Known
    <3>4. ~On(h, m)
      BY <2>1, <2>2, <3>2, OnTheWayIs DEF RelayInv
    <3>5. PICK s : Boxes(m) = {s}
      BY <3>3, <3>4 DEF Reached
    <3> QED BY <3>5, FS_Singleton
  <2>3. sent[m].outcome = "not_found" => sent[m].at \notin sent[m].holders /\ ~shared
    BY <2>1 DEF RelayInv, Known
  <2> QED BY <2>2, <2>3
<1> QED BY <1>3, <1>4 DEF RelayedToAddressee

\* However peers move between replicas, messages are published, delivered, lost
\* with a subscription or met by a full buffer: each reaches only its addressee's
\* sockets, once and in order, and arrives if the addressee stayed at one replica
\* (SendToPeer, listenRedisRelay).
THEOREM MessagesReachAddressee == RelaySpec => []RelayedToAddressee
<1>1. RelayInit => RelayInv
  BY RelayInitHolds
<1>2. RelayInv /\ [RelayNext]_relayVars => RelayInv'
  BY RelayNextHolds
<1>3. RelayInv => RelayedToAddressee
  BY Relayed
<1> QED BY <1>1, <1>2, <1>3, PTL DEF RelaySpec

-----------------------------------------------------------------------------
(* The tracker in Redis.                                                   *)

(* The lists ForEach makes: as in SumTheorems, by a smallest set.          *)

ListsOver(iter, cmds, first, D) ==
    iter = [s \in D |-> IF s = {} THEN first ELSE iter[s \ {Chosen(s)}] \o cmds[Chosen(s)]]

LEMMA ListsExist ==
    ASSUME NEW cmds, NEW first, NEW S, IsFiniteSet(S)
    PROVE  \E iter : ListsOver(iter, cmds, first, SUBSET S)
<1> DEFINE D(n) == {s \in SUBSET S : Cardinality(s) <= n}
           Bad == {n \in Nat : ~ \E iter : ListsOver(iter, cmds, first, D(n))}
<1>0. \A s \in SUBSET S : IsFiniteSet(s) /\ Cardinality(s) \in Nat
  BY FS_Subset, FS_CardinalityType
<1>1. ASSUME Bad # {} PROVE FALSE
  <2>1. PICK n \in Bad : \A k \in Bad : n <= k
    BY <1>1, LeastNumber
  <2>2. CASE n = 0
    <3>1. D(0) = {{}}
      <4>1. \A s \in SUBSET S : Cardinality(s) <= 0 <=> s = {}
        BY <1>0, FS_EmptySet
      <4> QED BY <4>1
    <3>2. ListsOver([s \in D(0) |-> first], cmds, first, D(0))
      BY <3>1 DEF ListsOver
    <3> QED BY <2>1, <2>2, <3>2
  <2>3. CASE n # 0
    <3>1. n \in Nat /\ n - 1 \in Nat /\ n - 1 \notin Bad
      <4>1. n \in Nat
        BY <2>1
      <4>2. n - 1 \in Nat /\ ~(n <= n - 1)
        BY <2>3, <4>1
      <4> HIDE DEF Bad
      <4> QED BY <2>1, <4>1, <4>2
    <3>2. PICK g : ListsOver(g, cmds, first, D(n - 1))
      BY <3>1
    <3> DEFINE h == [s \in D(n) |-> IF s = {} THEN first ELSE g[s \ {Chosen(s)}] \o cmds[Chosen(s)]]
    <3>3. ASSUME NEW s \in D(n), s # {}
          PROVE  /\ s \ {Chosen(s)} \in D(n - 1) /\ s \ {Chosen(s)} \in D(n)
      <4>1. Chosen(s) \in s
        BY <3>3 DEF Chosen
      <4>2. Cardinality(s \ {Chosen(s)}) = Cardinality(s) - 1
        BY <1>0, <4>1, FS_RemoveElement
      <4> QED BY <1>0, <3>1, <4>2
    <3>4. \A s \in D(n - 1) : g[s] = h[s]
      <4>1. D(n - 1) \subseteq D(n)
        BY <1>0, <3>1
      <4>2. \A s \in D(n - 1) : g[s] = IF s = {} THEN first ELSE g[s \ {Chosen(s)}] \o cmds[Chosen(s)]
        BY <3>2, Zenon DEF ListsOver
      <4> HIDE DEF D
      <4> QED BY <4>1, <4>2
    <3>5. ListsOver(h, cmds, first, D(n))
      <4>1. \A s \in D(n) : s # {} => g[s \ {Chosen(s)}] = h[s \ {Chosen(s)}]
        BY <3>3, <3>4
      <4> HIDE DEF D
      <4> QED BY <4>1 DEF ListsOver
    <3> QED BY <2>1, <3>5
  <2> QED BY <2>2, <2>3
<1>2. Cardinality(S) \in Nat /\ Cardinality(S) \notin Bad
  BY <1>0, <1>1
<1>3. D(Cardinality(S)) = SUBSET S
  BY <1>0, FS_Subset
<1> QED BY <1>2, <1>3

LEMMA ForEachIsLists ==
    ASSUME NEW cmds, NEW first, NEW S, IsFiniteSet(S)
    PROVE  \E iter : ListsOver(iter, cmds, first, SUBSET S) /\ ForEach(S, cmds, first) = iter[S]
<1> DEFINE g == CHOOSE iter : ListsOver(iter, cmds, first, SUBSET S)
<1>1. ListsOver(g, cmds, first, SUBSET S)
  BY ListsExist
<1>2. ForEach(S, cmds, first) = g[S]
  BY DEF ForEach, FoldSet, MapThenFoldSet, ListsOver, Chosen
<1> QED BY <1>1, <1>2

\* c is in the list.
Has(list, c) == \E i \in 1..Len(list) : list[i] = c

\* The commands of a list are those it starts with and those of each model.
LEMMA ForEachHas ==
    ASSUME NEW C, NEW S, IsFiniteSet(S), NEW cmds, \A m \in S : cmds[m] \in Seq(C),
           NEW first \in Seq(C)
    PROVE  /\ ForEach(S, cmds, first) \in Seq(C)
           /\ Len(ForEach(S, cmds, first)) >= Len(first)
           /\ \A c : Has(ForEach(S, cmds, first), c) <=>
                        Has(first, c) \/ \E m \in S : Has(cmds[m], c)
<1> DEFINE Fine(s, list) == /\ list \in Seq(C) /\ Len(list) >= Len(first)
                            /\ \A c : Has(list, c) <=> Has(first, c) \/ \E m \in s : Has(cmds[m], c)
<1>1. PICK iter : ListsOver(iter, cmds, first, SUBSET S) /\ ForEach(S, cmds, first) = iter[S]
  BY ForEachIsLists
<1> DEFINE Bad == {s \in SUBSET S : ~Fine(s, iter[s])}
<1>2. \A s \in SUBSET S : IsFiniteSet(s) /\ Cardinality(s) \in Nat
  BY FS_Subset, FS_CardinalityType
<1>3. ASSUME Bad # {} PROVE FALSE
  <2>1. PICK s \in Bad : \A t \in Bad : Cardinality(s) <= Cardinality(t)
    BY <1>2, <1>3, SmallestSet
  <2>2. /\ s \in SUBSET S
        /\ iter[s] = IF s = {} THEN first ELSE iter[s \ {Chosen(s)}] \o cmds[Chosen(s)]
    BY <1>1 DEF ListsOver
  <2>3. s # {}
    <3>1. s = {} => Fine(s, iter[s])
      BY <2>2, LenProperties
    <3> QED BY <2>1, <3>1
  <2>4. PICK x : x = Chosen(s)
    OBVIOUS
  <2>5. x \in s
    BY <2>3, <2>4 DEF Chosen
  <2>6. Cardinality(s \ {x}) = Cardinality(s) - 1
    BY <1>2, <2>2, <2>5, FS_RemoveElement
  <2>7. s \ {x} \in SUBSET S /\ s \ {x} \notin Bad
    <3>1. s \ {x} \in SUBSET S /\ ~(Cardinality(s) <= Cardinality(s \ {x}))
      BY <1>2, <2>2, <2>6
    <3> HIDE DEF Bad
    <3> QED BY <2>1, <3>1
  <2>8. PICK a : a = iter[s \ {x}]
    OBVIOUS
  <2>9. Fine(s \ {x}, a)
    BY <2>7, <2>8
  <2>10. PICK b : b = cmds[x]
    OBVIOUS
  <2>11. a \in Seq(C) /\ b \in Seq(C) /\ iter[s] = a \o b
    BY <2>2, <2>3, <2>4, <2>5, <2>8, <2>9, <2>10
  <2>12. /\ a \o b \in Seq(C) /\ Len(a \o b) = Len(a) + Len(b)
         /\ Len(a) \in Nat /\ Len(b) \in Nat /\ Len(first) \in Nat
         /\ \A i \in 1..(Len(a) + Len(b)) : (a \o b)[i] = IF i <= Len(a) THEN a[i] ELSE b[i - Len(a)]
    BY <2>11, ConcatProperties, LenProperties
  <2>13. ASSUME NEW c PROVE Has(a \o b, c) <=> Has(a, c) \/ Has(b, c)
    <3>1. ASSUME Has(a \o b, c) PROVE Has(a, c) \/ Has(b, c)
      <4>1. PICK i \in 1..(Len(a) + Len(b)) : (a \o b)[i] = c
        BY <2>12, <3>1 DEF Has
      <4>2. CASE i <= Len(a)
        <5>1. i \in 1..Len(a) /\ a[i] = c
          BY <2>12, <4>1, <4>2
        <5> QED BY <5>1 DEF Has
      <4>3. CASE ~(i <= Len(a))
        <5>1. i - Len(a) \in 1..Len(b) /\ b[i - Len(a)] = c
          BY <2>12, <4>1, <4>3
        <5> QED BY <5>1 DEF Has
      <4> QED BY <4>2, <4>3
    <3>2. ASSUME Has(a, c) PROVE Has(a \o b, c)
      <4>1. PICK i \in 1..Len(a) : a[i] = c
        BY <3>2 DEF Has
      <4>2. i \in 1..(Len(a) + Len(b)) /\ (a \o b)[i] = c
        BY <2>12, <4>1
      <4> QED BY <2>12, <4>2 DEF Has
    <3>3. ASSUME Has(b, c) PROVE Has(a \o b, c)
      <4>1. PICK i \in 1..Len(b) : b[i] = c
        BY <3>3 DEF Has
      <4>2. i + Len(a) \in 1..(Len(a) + Len(b)) /\ ~(i + Len(a) <= Len(a))
            /\ (i + Len(a)) - Len(a) = i
        BY <2>12, <4>1
      <4>3. (a \o b)[i + Len(a)] = c
        BY <2>12, <4>1, <4>2
      <4> QED BY <2>12, <4>2, <4>3 DEF Has
    <3> QED BY <3>1, <3>2, <3>3
  <2>14. Fine(s, a \o b)
    <3>1. \A c : Has(a, c) <=> Has(first, c) \/ \E m \in s \ {x} : Has(cmds[m], c)
      BY <2>9
    <3>2. Len(a) >= Len(first)
      BY <2>9
    <3>3. \A c : Has(a \o b, c) <=> Has(first, c) \/ \E m \in s : Has(cmds[m], c)
      BY <2>5, <2>10, <2>13, <3>1
    <3> QED BY <2>12, <3>2, <3>3
  <2> QED BY <2>1, <2>11, <2>14
<1>4. Fine(S, iter[S])
  BY <1>3
<1> QED BY <1>1, <1>4

-----------------------------------------------------------------------------
\* The invariant.

CmdName == {"SET_meta", "ZADD", "SADD_models", "EXPIRE_models", "PUT_chunks", "DEL_chunks",
            "EXPIRE_meta", "EXPIRE_chunks", "DEL_meta", "DEL_models", "ZREM",
            "SMEMBERS_models", "ZRANGEBYSCORE", "GET_meta", "SMEMBERS_chunks"}
Command == [name : CmdName, model : Model \cup {NoWallet}]
Time == Nat \cup {Never}
Op == [name : {"none", "announce", "heartbeat", "remove", "query"},
       model : Model \cup {NoWallet}, held : BOOLEAN, at : Nat, todo : Seq(Command)]

\* The types; what is remembered is not of the future.
TrackerTypeOK ==
    /\ now \in Nat /\ now <= MaxTime
    /\ meta \in [by : Conn \cup {NoWallet}, expires : Nat]
    /\ score \in [Model -> Time] /\ \A m \in Model : score[m] <= spoke
    /\ models \in [set : SUBSET Model, expires : Nat] /\ IsFiniteSet(models.set)
    /\ chunks \in [Model -> Nat]
    /\ op \in [Conn \cup {Asker} -> Op]
    /\ DOMAIN answer = {"wallet", "chunks"}
    /\ spoke \in Time /\ spoke <= now
    /\ shown \in [Model -> [at : Time, held : BOOLEAN]] /\ \A m \in Model : shown[m].at <= now
    /\ disturbed \in BOOLEAN

\* What is left of the commands of an operation o of c: a wallet is written by a connection
\* that announced, a score by an operation of a message.
AnnounceLeft(o) ==
    {<<Cmd("SET_meta", o.model), Cmd("ZADD", o.model), Cmd("SADD_models", o.model),
       Cmd("EXPIRE_models", o.model), Cmd(IF o.held THEN "PUT_chunks" ELSE "DEL_chunks", o.model)>>,
     <<Cmd("ZADD", o.model), Cmd("SADD_models", o.model),
       Cmd("EXPIRE_models", o.model), Cmd(IF o.held THEN "PUT_chunks" ELSE "DEL_chunks", o.model)>>,
     <<Cmd("SADD_models", o.model),
       Cmd("EXPIRE_models", o.model), Cmd(IF o.held THEN "PUT_chunks" ELSE "DEL_chunks", o.model)>>,
     <<Cmd("EXPIRE_models", o.model), Cmd(IF o.held THEN "PUT_chunks" ELSE "DEL_chunks", o.model)>>,
     <<Cmd(IF o.held THEN "PUT_chunks" ELSE "DEL_chunks", o.model)>>}

Reading == <<Cmd("SMEMBERS_models", NoWallet)>>
Names(list) == {list[i].name : i \in 1..Len(list)}

OpOK(c) ==
    LET o == op[c] IN
    /\ o.at <= now
    /\ o.name # "none" => o.todo # <<>>
    /\ o.name = "announce" => /\ c \in Conn /\ c \in wrote /\ o.model \in Model
                              /\ o.at <= spoke /\ o.todo \in AnnounceLeft(o)
    /\ o.name = "heartbeat" =>
          /\ c \in Conn /\ o.at <= spoke
          /\ \/ o.todo = Reading
             \/ Names(o.todo) \subseteq {"EXPIRE_meta", "EXPIRE_models", "ZADD", "EXPIRE_chunks"}
    /\ o.name = "remove" =>
          /\ c \in Conn
          /\ \/ o.todo = Reading
             \/ Names(o.todo) \subseteq {"DEL_meta", "DEL_models", "ZREM", "DEL_chunks"}
    /\ o.name = "query" =>
          /\ c = Asker
          /\ Names(o.todo) \subseteq {"ZRANGEBYSCORE", "GET_meta", "SMEMBERS_chunks"}

Written ==
    /\ meta.by \in wrote \cup {NoWallet}
    /\ answer.wallet \in wrote \cup {NoWallet}

\* Between operations: a model shown within the TTL (s, of shown) has its score, and its
\* keys live as long; one that has a score within the TTL is in the set that the next
\* operation reads, and was shown.
ShownIsKept(m, s) ==
    s.at # Never /\ s.at + PresenceTTL > now =>
        /\ score[m] >= s.at
        /\ m \in models.set /\ models.expires >= s.at + PresenceTTL
        /\ meta.by \in wrote /\ meta.expires >= s.at + PresenceTTL
        /\ s.held => chunks[m] >= s.at + PresenceTTL

Scored(m) == score[m] # Never /\ score[m] + PresenceTTL > now

KeptIsShown(m, s) ==
    /\ Scored(m) => m \in models.set /\ models.expires >= score[m] + PresenceTTL
    /\ m \in PeerModels => s.at # Never

Settled == \A m \in Model : ShownIsKept(m, shown[m]) /\ KeptIsShown(m, shown[m])

\* In the middle of an announcement, of a heartbeat, and of a removal: what its commands
\* have done and what they still have to do.
Announcing(o, s) ==
    /\ \A m \in Model \ {o.model} : ShownIsKept(m, s[m]) /\ KeptIsShown(m, s[m])
    /\ Len(o.todo) <= 4 => meta.by \in wrote /\ meta.expires = Fresh
    /\ Len(o.todo) <= 3 => score[o.model] = now
    /\ Len(o.todo) <= 2 => o.model \in models.set /\ Live(models.expires)
    /\ Len(o.todo) <= 1 => models.expires = Fresh
    /\ Len(o.todo) <= 0 => (o.held => chunks[o.model] = Fresh)

Renewed(o, cmd, expires) == Has(o.todo, cmd) \/ expires = Fresh \/ ~Live(expires)

Beating(o, s) ==
    /\ Renewed(o, Cmd("EXPIRE_meta", NoWallet), meta.expires)
    /\ Renewed(o, Cmd("EXPIRE_models", NoWallet), models.expires)
    /\ \A c : Has(o.todo, c) /\ c.name = "ZADD" => c.model \in PeerModels
    /\ \A m \in Model :
          /\ ShownIsKept(m, s[m])
          /\ Scored(m) => m \in PeerModels
          /\ m \in PeerModels => /\ s[m].at # Never
                                 /\ Has(o.todo, Cmd("ZADD", m)) \/ score[m] = now
                                 /\ Renewed(o, Cmd("EXPIRE_chunks", m), chunks[m])

Removing(o) ==
    /\ Has(o.todo, Cmd("DEL_models", NoWallet)) \/ models.set = {}
    /\ \A m \in Model : Scored(m) => Has(o.todo, Cmd("ZREM", m))

Midway(o) ==
    /\ o.at = now
    /\ o.name = "announce" => Announcing(o, shown)
    /\ o.name \in {"heartbeat", "remove"} /\ o.todo = Reading => Settled
    /\ o.name = "heartbeat" /\ o.todo # Reading => Beating(o, shown)
    /\ o.name = "remove" /\ o.todo # Reading => Removing(o)

OneByOne ==
    /\ \A c, d \in Conn : ~Idle(c) /\ ~Idle(d) => c = d
    /\ (\A c \in Conn : Idle(c)) => Settled
    /\ \A c \in Conn : ~Idle(c) => Midway(op[c])

TrackerInv ==
    /\ TrackerTypeOK
    /\ \A c \in Conn \cup {Asker} : OpOK(c)
    /\ Written
    /\ ~disturbed => OneByOne

-----------------------------------------------------------------------------

LEMMA PairHas ==
    ASSUME NEW a, NEW b
    PROVE  \A c : Has(<<a, b>>, c) <=> c = a \/ c = b
<1>1. Len(<<a, b>>) = 2 /\ <<a, b>>[1] = a /\ <<a, b>>[2] = b
  OBVIOUS
<1>2. \A i \in 1..2 : i = 1 \/ i = 2
  OBVIOUS
<1>3. 1 \in 1..2 /\ 2 \in 1..2
  OBVIOUS
<1> QED BY <1>1, <1>2, <1>3 DEF Has

LEMMA CmdType ==
    ASSUME NEW n \in CmdName, NEW m \in Model \cup {NoWallet}
    PROVE  Cmd(n, m) \in Command /\ Cmd(n, m).name = n /\ Cmd(n, m).model = m
BY DEF Cmd, Command

LEMMA PairType ==
    ASSUME NEW a \in Command, NEW b \in Command
    PROVE  <<a, b>> \in Seq(Command) /\ Len(<<a, b>>) = 2
OBVIOUS

\* A list of two commands, and two for each model of S.
Pairs(S, n1, n2, n3, n4) ==
    ForEach(S, [m \in Model |-> <<Cmd(n3, m), Cmd(n4, m)>>],
            <<Cmd(n1, NoWallet), Cmd(n2, NoWallet)>>)

HasPairs(list, S, n1, n2, n3, n4) ==
    /\ list \in Seq(Command) /\ Len(list) >= 2
    /\ Has(list, Cmd(n1, NoWallet)) /\ Has(list, Cmd(n2, NoWallet))
    /\ \A m \in S : Has(list, Cmd(n3, m)) /\ Has(list, Cmd(n4, m))
    /\ Names(list) \subseteq {n1, n2, n3, n4}
    /\ \A c : Has(list, c) /\ c.name \notin {n1, n2} => c.model \in S

LEMMA ListOfPairs ==
    ASSUME NEW S \in SUBSET Model, IsFiniteSet(S), NEW list,
           NEW n1 \in CmdName, NEW n2 \in CmdName, NEW n3 \in CmdName, NEW n4 \in CmdName,
           list = Pairs(S, n1, n2, n3, n4)
    PROVE  HasPairs(list, S, n1, n2, n3, n4)
<1> DEFINE cmds == [m \in Model |-> <<Cmd(n3, m), Cmd(n4, m)>>]
           first == <<Cmd(n1, NoWallet), Cmd(n2, NoWallet)>>
<1>0. \A n \in CmdName, m \in Model \cup {NoWallet} :
         Cmd(n, m) \in Command /\ Cmd(n, m).name = n /\ Cmd(n, m).model = m
  BY CmdType
<1>1. \A m \in S : cmds[m] = <<Cmd(n3, m), Cmd(n4, m)>>
  OBVIOUS
<1>2. \A m \in S : cmds[m] \in Seq(Command)
  BY <1>0, <1>1, PairType
<1>3. first \in Seq(Command) /\ Len(first) = 2
  BY <1>0, PairType
<1>4. list = ForEach(S, cmds, first)
  BY DEF Pairs
<1>5. \A c : Has(first, c) <=> c = Cmd(n1, NoWallet) \/ c = Cmd(n2, NoWallet)
  BY PairHas
<1>6. \A m \in S : \A c : Has(cmds[m], c) <=> c = Cmd(n3, m) \/ c = Cmd(n4, m)
  BY <1>1, PairHas
<1> HIDE DEF cmds, first
<1>7. /\ list \in Seq(Command) /\ Len(list) >= Len(first)
      /\ \A c : Has(list, c) <=> Has(first, c) \/ \E m \in S : Has(cmds[m], c)
  <2>1. /\ ForEach(S, cmds, first) \in Seq(Command)
        /\ Len(ForEach(S, cmds, first)) >= Len(first)
        /\ \A c : Has(ForEach(S, cmds, first), c) <=>
                     Has(first, c) \/ \E m \in S : Has(cmds[m], c)
    BY <1>2, <1>3, ForEachHas
  <2> QED BY <1>4, <2>1
<1>8. ASSUME NEW c, Has(list, c)
      PROVE  c.name \in {n1, n2, n3, n4} /\ (c.name \notin {n1, n2} => c.model \in S)
  <2>1. CASE Has(first, c)
    <3>1. c = Cmd(n1, NoWallet) \/ c = Cmd(n2, NoWallet)
      BY <1>5, <2>1
    <3> QED BY <1>0, <3>1
  <2>2. CASE \E m \in S : Has(cmds[m], c)
    <3>1. PICK m \in S : Has(cmds[m], c)
      BY <2>2
    <3>2. c = Cmd(n3, m) \/ c = Cmd(n4, m)
      BY <1>6, <3>1
    <3> QED BY <1>0, <3>2
  <2> QED BY <1>7, <1>8, <2>1, <2>2
<1>9. Has(list, Cmd(n1, NoWallet)) /\ Has(list, Cmd(n2, NoWallet))
  BY <1>5, <1>7
<1>10. ASSUME NEW m \in S PROVE Has(list, Cmd(n3, m)) /\ Has(list, Cmd(n4, m))
  <2>1. Has(cmds[m], Cmd(n3, m)) /\ Has(cmds[m], Cmd(n4, m))
    BY <1>6
  <2> QED BY <1>7, <2>1
<1>11. Names(list) \subseteq {n1, n2, n3, n4}
  BY <1>8 DEF Names, Has
<1> QED BY <1>3, <1>7, <1>8, <1>9, <1>10, <1>11 DEF HasPairs

\* What a heartbeat that has read S still does.
LEMMA HeartbeatList ==
    ASSUME NEW S \in SUBSET Model, IsFiniteSet(S)
    PROVE  /\ HeartbeatCmds(S) \in Seq(Command) /\ Len(HeartbeatCmds(S)) >= 2
           /\ Has(HeartbeatCmds(S), Cmd("EXPIRE_meta", NoWallet))
           /\ Has(HeartbeatCmds(S), Cmd("EXPIRE_models", NoWallet))
           /\ \A m \in S : /\ Has(HeartbeatCmds(S), Cmd("ZADD", m))
                           /\ Has(HeartbeatCmds(S), Cmd("EXPIRE_chunks", m))
           /\ Names(HeartbeatCmds(S)) \subseteq
                 {"EXPIRE_meta", "EXPIRE_models", "ZADD", "EXPIRE_chunks"}
           /\ \A c : Has(HeartbeatCmds(S), c) /\ c.name = "ZADD" => c.model \in S
<1>1. PICK list : list = HeartbeatCmds(S)
  OBVIOUS
<1>2. list = Pairs(S, "EXPIRE_meta", "EXPIRE_models", "ZADD", "EXPIRE_chunks")
  BY <1>1 DEF HeartbeatCmds, Pairs
<1>3. "EXPIRE_meta" \in CmdName /\ "EXPIRE_models" \in CmdName /\ "ZADD" \in CmdName
      /\ "EXPIRE_chunks" \in CmdName
  BY DEF CmdName
<1>4. HasPairs(list, S, "EXPIRE_meta", "EXPIRE_models", "ZADD", "EXPIRE_chunks")
  BY <1>2, <1>3, ListOfPairs
<1> QED BY <1>1, <1>4 DEF HasPairs

\* What a removal that has read S still does.
LEMMA RemoveList ==
    ASSUME NEW S \in SUBSET Model, IsFiniteSet(S)
    PROVE  /\ RemoveCmds(S) \in Seq(Command) /\ Len(RemoveCmds(S)) >= 2
           /\ Has(RemoveCmds(S), Cmd("DEL_models", NoWallet))
           /\ \A m \in S : Has(RemoveCmds(S), Cmd("ZREM", m))
           /\ Names(RemoveCmds(S)) \subseteq {"DEL_meta", "DEL_models", "ZREM", "DEL_chunks"}
<1>1. PICK list : list = RemoveCmds(S)
  OBVIOUS
<1>2. list = Pairs(S, "DEL_meta", "DEL_models", "ZREM", "DEL_chunks")
  BY <1>1 DEF RemoveCmds, Pairs
<1>3. "DEL_meta" \in CmdName /\ "DEL_models" \in CmdName /\ "ZREM" \in CmdName
      /\ "DEL_chunks" \in CmdName
  BY DEF CmdName
<1>4. HasPairs(list, S, "DEL_meta", "DEL_models", "ZREM", "DEL_chunks")
  BY <1>2, <1>3, ListOfPairs
<1> QED BY <1>1, <1>4 DEF HasPairs

\* After its head a list has what it had, but for the head.
LEMMA HeadGone ==
    ASSUME NEW list \in Seq(Command), list # <<>>
    PROVE  /\ Head(list) \in Command /\ Tail(list) \in Seq(Command)
           /\ \A c : Has(list, c) <=> c = Head(list) \/ Has(Tail(list), c)
           /\ Len(Tail(list)) = Len(list) - 1 /\ Len(list) \in Nat \ {0}
<1>1. /\ Head(list) \in Command /\ Tail(list) \in Seq(Command)
      /\ Len(Tail(list)) = Len(list) - 1 /\ Len(list) \in Nat \ {0}
      /\ \A i \in 1..(Len(list) - 1) : Tail(list)[i] = list[i + 1]
      /\ Head(list) = list[1]
  BY HeadTailProperties, LenProperties, EmptySeq
<1>2. ASSUME NEW c, Has(list, c) PROVE c = Head(list) \/ Has(Tail(list), c)
  <2>1. PICK i \in 1..Len(list) : list[i] = c
    BY <1>2 DEF Has
  <2>2. CASE i # 1
    <3>1. i - 1 \in 1..(Len(list) - 1) /\ (i - 1) + 1 = i
      BY <1>1, <2>1, <2>2
    <3>2. Tail(list)[i - 1] = c
      BY <1>1, <2>1, <3>1
    <3> QED BY <1>1, <3>1, <3>2 DEF Has
  <2> QED BY <1>1, <2>1, <2>2
<1>3. ASSUME NEW c, c = Head(list) \/ Has(Tail(list), c) PROVE Has(list, c)
  <2>1. CASE c = Head(list)
    <3>1. 1 \in 1..Len(list) /\ list[1] = c
      BY <1>1, <2>1
    <3> QED BY <3>1 DEF Has
  <2>2. CASE Has(Tail(list), c)
    <3>1. PICK i \in 1..(Len(list) - 1) : Tail(list)[i] = c
      BY <1>1, <2>2 DEF Has
    <3>2. i + 1 \in 1..Len(list) /\ list[i + 1] = c
      BY <1>1, <3>1
    <3> QED BY <3>2 DEF Has
  <2> QED BY <1>3, <2>1, <2>2
<1> QED BY <1>1, <1>2, <1>3

LEMMA TrackerStarts == now = 0 /\ TrackerInit => TrackerInv
<1> SUFFICES ASSUME now = 0, TrackerInit PROVE TrackerInv
  OBVIOUS
<1>1. op = [c \in Conn \cup {Asker} |-> Quiet]
  BY DEF TrackerInit
<1>2. Quiet \in Op /\ Quiet.name = "none" /\ Quiet.at = 0
  BY EmptySeq DEF Quiet, Op
<1>3. TrackerTypeOK
  <2>1. MaxTime \in Nat /\ 0 <= MaxTime
    BY ClockAssumption
  <2>2. op \in [Conn \cup {Asker} -> Op]
    BY <1>1, <1>2
  <2>3. IsFiniteSet({})
    BY FS_EmptySet
  <2>4. now \in Nat /\ now <= MaxTime /\ spoke \in Time /\ spoke <= now
    BY <2>1 DEF TrackerInit, Time, Never
  <2>5. meta \in [by : Conn \cup {NoWallet}, expires : Nat]
        /\ models \in [set : SUBSET Model, expires : Nat] /\ models.set = {}
    BY DEF TrackerInit, Gone
  <2>6. /\ score \in [Model -> Time] /\ \A m \in Model : score[m] <= spoke
        /\ chunks \in [Model -> Nat]
    BY DEF TrackerInit, Time, Never, Gone
  <2>7. /\ shown \in [Model -> [at : Time, held : BOOLEAN]]
        /\ \A m \in Model : shown[m].at <= now
    BY DEF TrackerInit, Time, Never
  <2>8. DOMAIN answer = {"wallet", "chunks"} /\ disturbed \in BOOLEAN
    BY DEF TrackerInit, NoAnswer
  <2> QED BY <2>2, <2>3, <2>4, <2>5, <2>6, <2>7, <2>8 DEF TrackerTypeOK
<1>4. \A c \in Conn \cup {Asker} : OpOK(c)
  BY <1>1, <1>2 DEF OpOK
<1>5. Written
  BY DEF TrackerInit, Written, NoAnswer
<1>6. OneByOne
  <2>1. \A c \in Conn : Idle(c)
    BY <1>1, <1>2 DEF Idle
  <2>2. Settled
    <3>1. \A m \in Model : shown[m].at = Never /\ score[m] = Never
      BY DEF TrackerInit
    <3>2. PeerModels = {}
      BY DEF TrackerInit, PeerModels, Live, Gone
    <3> QED BY <3>1, <3>2 DEF Settled, ShownIsKept, KeptIsShown, Scored
  <2> QED BY <2>1, <2>2 DEF OneByOne
<1> QED BY <1>3, <1>4, <1>5, <1>6 DEF TrackerInv

\* The numbers of the state, for arithmetic.
LEMMA TrackerNumbers ==
    ASSUME TrackerTypeOK
    PROVE  /\ now \in Nat /\ MaxTime \in Nat /\ now <= MaxTime /\ PresenceTTL \in Nat \ {0}
           /\ Never = -1 /\ Gone = 0 /\ Fresh = now + PresenceTTL /\ Fresh \in Nat
           /\ Persistent = MaxTime + PresenceTTL + 1 /\ Persistent \in Nat
           /\ spoke \in Int /\ spoke <= now
           /\ meta.expires \in Nat /\ models.expires \in Nat
           /\ models.set \in SUBSET Model /\ IsFiniteSet(models.set)
           /\ \A m \in Model : /\ score[m] \in Int /\ score[m] <= spoke
                               /\ shown[m].at \in Int /\ shown[m].at <= now
                               /\ shown[m].held \in BOOLEAN /\ chunks[m] \in Nat
           /\ PeerModels \in SUBSET Model /\ IsFiniteSet(PeerModels)
           /\ \A c \in Conn \cup {Asker} : /\ op[c] \in Op /\ op[c].at \in Nat
                                           /\ op[c].todo \in Seq(Command)
<1>1. now \in Nat /\ MaxTime \in Nat /\ PresenceTTL \in Nat \ {0} /\ now <= MaxTime
  BY ClockAssumption, TrackerAssumption DEF TrackerTypeOK
<1>2. /\ spoke \in Int /\ spoke <= now /\ meta.expires \in Nat /\ models.expires \in Nat
      /\ models.set \in SUBSET Model /\ IsFiniteSet(models.set)
  BY DEF TrackerTypeOK, Time, Never
<1>3. ASSUME NEW m \in Model
      PROVE  /\ score[m] \in Int /\ score[m] <= spoke
             /\ shown[m].at \in Int /\ shown[m].at <= now
             /\ shown[m].held \in BOOLEAN /\ chunks[m] \in Nat
  BY DEF TrackerTypeOK, Time, Never
<1>4. PeerModels \in SUBSET Model /\ IsFiniteSet(PeerModels)
  BY <1>2, FS_EmptySet DEF PeerModels
<1>5. \A c \in Conn \cup {Asker} : op[c] \in Op
  BY DEF TrackerTypeOK
<1>6. \A o \in Op : o.at \in Nat /\ o.todo \in Seq(Command)
  BY DEF Op
<1>7. /\ Never = -1 /\ Gone = 0 /\ Fresh = now + PresenceTTL /\ Fresh \in Nat
      /\ Persistent = MaxTime + PresenceTTL + 1 /\ Persistent \in Nat
  BY <1>1 DEF Never, Gone, Fresh, Persistent
<1> QED BY <1>1, <1>2, <1>3, <1>4, <1>5, <1>6, <1>7

\* An operation is as it was, later.
LEMMA OpLater ==
    ASSUME TrackerTypeOK, NEW c \in Conn \cup {Asker}, OpOK(c), op'[c] = op[c],
           now' \in Nat, spoke' \in Int, now <= now', spoke <= spoke', wrote \subseteq wrote'
    PROVE  OpOK(c)'
<1>1. op[c].at \in Nat /\ now \in Nat /\ spoke \in Int
  BY TrackerNumbers
<1>2. op[c].at <= now => op[c].at <= now'
  BY <1>1
<1>3. op[c].at <= spoke => op[c].at <= spoke'
  BY <1>1
<1> QED BY <1>2, <1>3 DEF OpOK

\* What Continue does to the operation and to what is shown.
LEMMA Continued ==
    ASSUME TrackerTypeOK, NEW c \in Conn \cup {Asker}, NEW list \in Seq(Command),
           Continue(c, list)
    PROVE  /\ op' \in [Conn \cup {Asker} -> Op]
           /\ op'[c] = IF list = <<>> THEN Quiet ELSE [op[c] EXCEPT !.todo = list]
           /\ op'[c].name = IF list = <<>> THEN "none" ELSE op[c].name
           /\ \A d \in (Conn \cup {Asker}) \ {c} : op'[d] = op[d]
           /\ shown' = IF list = <<>> THEN Completed(c) ELSE shown
<1>1. op[c] \in Op
  BY TrackerNumbers
<1>2. Quiet \in Op /\ Quiet.name = "none"
  BY EmptySeq DEF Quiet, Op
<1>3. [op[c] EXCEPT !.todo = list] \in Op /\ [op[c] EXCEPT !.todo = list].name = op[c].name
  BY <1>1 DEF Op
<1>4. op' = [op EXCEPT ![c] = IF list = <<>> THEN Quiet ELSE [op[c] EXCEPT !.todo = list]]
      /\ shown' = IF list = <<>> THEN Completed(c) ELSE shown
  BY DEF Continue
<1> QED BY <1>1, <1>2, <1>3, <1>4 DEF TrackerTypeOK

\* Of what is shown, what an operation changes when it is through.
LEMMA CompletedType ==
    ASSUME TrackerTypeOK, NEW c \in Conn \cup {Asker}, OpOK(c)
    PROVE  /\ Completed(c) \in [Model -> [at : Time, held : BOOLEAN]]
           /\ \A m \in Model : Completed(c)[m].at <= now
<1>1. /\ op[c] \in Op /\ op[c].at \in Nat /\ op[c].at <= now /\ now \in Nat /\ Never = -1
      /\ op[c].held \in BOOLEAN
      /\ shown \in [Model -> [at : Time, held : BOOLEAN]]
      /\ \A m \in Model : shown[m].at <= now
      /\ op[c].name \in {"none", "announce", "heartbeat", "remove", "query"}
  BY TrackerNumbers DEF OpOK, TrackerTypeOK, Op
<1>2. op[c].at \in Time
  BY <1>1 DEF Time
<1>3. CASE op[c].name = "announce"
  <2>1. Completed(c) = [shown EXCEPT ![op[c].model] = [at |-> op[c].at, held |-> op[c].held]]
    BY <1>3 DEF Completed
  <2>2. [at |-> op[c].at, held |-> op[c].held] \in [at : Time, held : BOOLEAN]
    BY <1>1, <1>2
  <2>3. \A m \in Model : \/ Completed(c)[m] = shown[m]
                           \/ Completed(c)[m] = [at |-> op[c].at, held |-> op[c].held]
    BY <1>1, <2>1
  <2>4. Completed(c) \in [Model -> [at : Time, held : BOOLEAN]]
    BY <1>1, <2>1, <2>2
  <2>5. \A m \in Model : Completed(c)[m].at <= now
    BY <1>1, <2>3
  <2> QED BY <2>4, <2>5
<1>4. CASE op[c].name = "heartbeat"
  <2>1. Completed(c) = [m \in Model |-> IF shown[m].at # Never /\ Live(shown[m].at + PresenceTTL)
                                        THEN [shown[m] EXCEPT !.at = op[c].at] ELSE shown[m]]
    BY <1>4 DEF Completed
  <2>2. ASSUME NEW m \in Model
        PROVE  /\ [shown[m] EXCEPT !.at = op[c].at] \in [at : Time, held : BOOLEAN]
               /\ [shown[m] EXCEPT !.at = op[c].at].at = op[c].at
    BY <1>1, <1>2
  <2>3. ASSUME NEW m \in Model
        PROVE  Completed(c)[m] \in [at : Time, held : BOOLEAN] /\ Completed(c)[m].at <= now
    <3>1. Completed(c)[m] = [shown[m] EXCEPT !.at = op[c].at] \/ Completed(c)[m] = shown[m]
      BY <2>1
    <3>2. shown[m] \in [at : Time, held : BOOLEAN] /\ shown[m].at <= now
      BY <1>1
    <3> QED BY <1>1, <2>2, <3>1, <3>2
  <2>4. Completed(c) = [m \in Model |-> Completed(c)[m]]
    BY <2>1
  <2> HIDE DEF Completed
  <2> QED BY <2>3, <2>4
<1>5. CASE op[c].name = "remove"
  <2>1. Completed(c) = [m \in Model |-> [at |-> Never, held |-> FALSE]]
    BY <1>5 DEF Completed
  <2> QED BY <1>1, <2>1 DEF Time
<1>6. CASE op[c].name \notin {"announce", "heartbeat", "remove"}
  <2>1. Completed(c) = shown
    BY <1>6 DEF Completed
  <2> QED BY <1>1, <2>1
<1> QED BY <1>3, <1>4, <1>5, <1>6

\* What the next command of c does to the keys keeps their types, and what c has left is
\* what an operation may have left.
Keys ==
    /\ meta' \in [by : Conn \cup {NoWallet}, expires : Nat]
    /\ score' \in [Model -> Time] /\ \A m \in Model : score'[m] <= spoke
    /\ models' \in [set : SUBSET Model, expires : Nat] /\ IsFiniteSet(models'.set)
    /\ chunks' \in [Model -> Nat]
    /\ DOMAIN answer' = {"wallet", "chunks"}
    /\ Written'

StepOf(c, list) ==
    /\ list \in Seq(Command) /\ Continue(c, list)
    /\ UNCHANGED <<gone, ops, spoke, wrote, disturbed, now>>
    /\ Keys
    /\ list # <<>> => OpOK(c)'

LEMMA ExecTypes ==
    ASSUME TrackerInv, NEW c \in Conn \cup {Asker}, NEW list, StepOf(c, list)
    PROVE  /\ TrackerTypeOK' /\ Written'
           /\ \A d \in Conn \cup {Asker} : OpOK(d)'
<1>1. /\ op' \in [Conn \cup {Asker} -> Op]
      /\ op'[c] = IF list = <<>> THEN Quiet ELSE [op[c] EXCEPT !.todo = list]
      /\ \A d \in (Conn \cup {Asker}) \ {c} : op'[d] = op[d]
      /\ shown' = IF list = <<>> THEN Completed(c) ELSE shown
  BY Continued DEF StepOf, TrackerInv
<1>2. shown' \in [Model -> [at : Time, held : BOOLEAN]] /\ \A m \in Model : shown'[m].at <= now
  BY <1>1, CompletedType DEF TrackerInv, TrackerTypeOK
<1>3. TrackerTypeOK'
  BY <1>1, <1>2 DEF TrackerTypeOK, StepOf, Keys, TrackerInv
<1>4. ASSUME NEW d \in Conn \cup {Asker} PROVE OpOK(d)'
  <2>1. CASE d # c
    <3>1. now \in Nat /\ spoke \in Int /\ now' = now /\ spoke' = spoke /\ wrote' = wrote
      BY TrackerNumbers DEF TrackerInv, StepOf
    <3>2. op'[d] = op[d] /\ OpOK(d) /\ now <= now' /\ spoke <= spoke'
      BY <1>1, <2>1, <3>1 DEF TrackerInv
    <3> QED BY <3>1, <3>2, OpLater DEF TrackerInv
  <2>2. CASE d = c /\ list = <<>>
    <3>1. op'[d] = Quiet
      BY <1>1, <2>2
    <3>2. now' \in Nat
      BY TrackerNumbers DEF TrackerInv, StepOf
    <3> QED BY <3>1, <3>2 DEF OpOK, Quiet
  <2> QED BY <2>1, <2>2 DEF StepOf
<1> QED BY <1>3, <1>4 DEF StepOf, Keys

LEMMA ExecKeeps ==
    ASSUME TrackerInv, NEW c \in Conn, ~Idle(c), NEW list, StepOf(c, list),
           ~disturbed /\ list = <<>> => Settled',
           ~disturbed /\ list # <<>> => Midway(op[c])'
    PROVE  TrackerInv'
<1>1. /\ TrackerTypeOK' /\ Written' /\ \A d \in Conn \cup {Asker} : OpOK(d)'
  BY ExecTypes
<1>2. /\ op'[c].name = IF list = <<>> THEN "none" ELSE op[c].name
      /\ \A d \in Conn \ {c} : op'[d] = op[d]
  BY Continued DEF StepOf, TrackerInv
<1>3. ASSUME ~disturbed PROVE OneByOne'
  <2>1. \A d \in Conn \ {c} : Idle(d) /\ Idle(d)'
    BY <1>2, <1>3 DEF TrackerInv, OneByOne, Idle
  <2>2. Idle(c)' <=> list = <<>>
    BY <1>2 DEF Idle
  <2> QED BY <1>3, <2>1, <2>2 DEF OneByOne
<1> QED BY <1>1, <1>3 DEF TrackerInv, StepOf

\* What is under way for the peer does not notice a query, nor a message elsewhere.
LEMMA MidwayStays ==
    ASSUME NEW o, Midway(o), UNCHANGED <<redis, shown, now, wrote>>
    PROVE  Midway(o)'
<1>1. UNCHANGED <<meta, score, models, chunks, shown, now, wrote>>
  BY DEF redis
<1>2. Settled => Settled'
  BY <1>1 DEF Settled, ShownIsKept, KeptIsShown, Scored, PeerModels, Live
<1>3. Announcing(o, shown) => Announcing(o, shown)'
  BY <1>1 DEF Announcing, ShownIsKept, KeptIsShown, Scored, PeerModels, Live, Fresh
<1>4. Beating(o, shown) => Beating(o, shown)'
  BY <1>1 DEF Beating, ShownIsKept, Scored, PeerModels, Live, Fresh, Renewed
<1>5. Removing(o) => Removing(o)'
  BY <1>1 DEF Removing, Scored
<1> QED BY <1>1, <1>2, <1>3, <1>4, <1>5 DEF Midway

\* A query reads.
LEMMA AskerKeeps ==
    ASSUME TrackerInv, NEW list, StepOf(Asker, list), op[Asker].name = "query", UNCHANGED redis
    PROVE  TrackerInv'
<1>1. /\ TrackerTypeOK' /\ Written' /\ \A d \in Conn \cup {Asker} : OpOK(d)'
  BY ExecTypes
<1>2. /\ \A d \in Conn : op'[d] = op[d]
      /\ shown' = IF list = <<>> THEN Completed(Asker) ELSE shown
  BY TrackerAssumption, Continued DEF StepOf, TrackerInv
<1>3. shown' = shown
  BY <1>2 DEF Completed
<1>4. OneByOne => OneByOne'
  <2>1. /\ UNCHANGED <<meta, score, models, chunks, shown, now, wrote>>
        /\ \A d \in Conn : op'[d] = op[d]
    BY <1>2, <1>3 DEF redis, StepOf
  <2>2. \A d \in Conn : Idle(d)' <=> Idle(d)
    BY <2>1 DEF Idle
  <2>3. Settled => Settled'
    BY <2>1 DEF Settled, ShownIsKept, KeptIsShown, Scored, PeerModels, Live
  <2>4. ASSUME NEW d \in Conn, Midway(op[d]) PROVE Midway(op[d])'
    <3>1. PICK o : o = op[d]
      OBVIOUS
    <3>2. op'[d] = o /\ Midway(o)
      BY <2>1, <2>4, <3>1
    <3>3. UNCHANGED <<redis, shown, now, wrote>>
      BY <2>1 DEF redis
    <3>4. Midway(o)'
      BY <3>2, <3>3, MidwayStays
    <3> QED BY <3>2, <3>4 DEF Midway
  <2> QED BY <2>2, <2>3, <2>4 DEF OneByOne
<1> QED BY <1>1, <1>4 DEF TrackerInv, StepOf

-----------------------------------------------------------------------------
\* The commands.

\* What each command of c does.
LEMMA ReadIs ==
    ASSUME NEW c, Exec(c), NEW cmd, NEW rest, cmd = Head(op[c].todo), rest = Tail(op[c].todo),
           cmd.name \in {"SMEMBERS_models", "ZRANGEBYSCORE", "GET_meta", "SMEMBERS_chunks"}
    PROVE  Read(c, cmd, rest) /\ UNCHANGED <<gone, ops, spoke, wrote, disturbed, now>>
BY DEF Exec, WriteSets, WriteKeys

LEMMA WriteIs ==
    ASSUME NEW c, Exec(c), NEW cmd, NEW rest, cmd = Head(op[c].todo), rest = Tail(op[c].todo),
           cmd.name \notin {"SMEMBERS_models", "ZRANGEBYSCORE", "GET_meta", "SMEMBERS_chunks"}
    PROVE  /\ WriteSets(c, cmd) \/ WriteKeys(c, cmd)
           /\ Continue(c, rest) /\ UNCHANGED answer
           /\ UNCHANGED <<gone, ops, spoke, wrote, disturbed, now>>
BY DEF Exec, Read

\* The score of a model.
LEMMA ScoreIs ==
    ASSUME NEW c, NEW cmd, WriteSets(c, cmd) \/ WriteKeys(c, cmd), cmd.name \in {"ZADD", "ZREM"}
    PROVE  /\ score' = [score EXCEPT ![cmd.model] = IF cmd.name = "ZADD" THEN op[c].at ELSE Never]
           /\ UNCHANGED <<meta, models, chunks>>
BY DEF WriteSets, WriteKeys

\* The set of the peer's models.
LEMMA SetIs ==
    ASSUME NEW c, NEW cmd, WriteSets(c, cmd) \/ WriteKeys(c, cmd),
           cmd.name \in {"SADD_models", "EXPIRE_models", "DEL_models"}
    PROVE  /\ models' = CASE cmd.name = "SADD_models" ->
                               [set |-> PeerModels \cup {cmd.model},
                                expires |-> IF Live(models.expires) THEN models.expires
                                                                    ELSE Persistent]
                          [] cmd.name = "EXPIRE_models" ->
                               [models EXCEPT !.expires = Renew(@)]
                          [] OTHER -> [set |-> {}, expires |-> Gone]
           /\ UNCHANGED <<meta, score, chunks>>
BY DEF WriteSets, WriteKeys

\* The key of the peer.
LEMMA MetaIs ==
    ASSUME NEW c, NEW cmd, WriteSets(c, cmd) \/ WriteKeys(c, cmd),
           cmd.name \in {"SET_meta", "EXPIRE_meta", "DEL_meta"}
    PROVE  /\ meta' = CASE cmd.name = "SET_meta" -> [by |-> c, expires |-> Fresh]
                        [] cmd.name = "EXPIRE_meta" -> [meta EXCEPT !.expires = Renew(@)]
                        [] OTHER -> [by |-> NoWallet, expires |-> Gone]
           /\ UNCHANGED <<score, models, chunks>>
BY DEF WriteSets, WriteKeys

\* The chunk list of a model.
LEMMA ChunksIs ==
    ASSUME NEW c, NEW cmd, WriteSets(c, cmd) \/ WriteKeys(c, cmd),
           cmd.name \in {"PUT_chunks", "EXPIRE_chunks", "DEL_chunks"}
    PROVE  /\ chunks' = [chunks EXCEPT ![cmd.model] =
                            CASE cmd.name = "PUT_chunks" -> Fresh
                              [] cmd.name = "EXPIRE_chunks" -> Renew(@)
                              [] OTHER -> Gone]
           /\ UNCHANGED <<meta, score, models>>
BY DEF WriteSets, WriteKeys

LEMMA Renews ==
    ASSUME TrackerTypeOK, NEW e \in Nat
    PROVE  /\ Renew(e) \in Nat /\ (Live(e) => Renew(e) = Fresh /\ Live(Renew(e)) /\ e > now)
           /\ ~Live(e) => ~Live(Renew(e)) /\ Renew(e) = Gone /\ e <= now
BY TrackerNumbers DEF Renew, Live

\* The keys keep their types, and are written by those who may.
LEMMA WritesTyped ==
    ASSUME TrackerInv, NEW c \in Conn \cup {Asker}, NEW cmd \in Command,
           WriteSets(c, cmd) \/ WriteKeys(c, cmd), UNCHANGED <<answer, wrote>>,
           cmd.name = "SET_meta" => c \in Conn /\ c \in wrote,
           cmd.name = "ZADD" => op[c].at <= spoke,
           cmd.name = "SADD_models" => cmd.model \in Model,
           cmd.name \notin {"SMEMBERS_models", "ZRANGEBYSCORE", "GET_meta", "SMEMBERS_chunks"}
    PROVE  Keys
<1>1. /\ meta \in [by : Conn \cup {NoWallet}, expires : Nat]
      /\ score \in [Model -> Time] /\ \A m \in Model : score[m] <= spoke
      /\ models \in [set : SUBSET Model, expires : Nat] /\ IsFiniteSet(models.set)
      /\ chunks \in [Model -> Nat] /\ DOMAIN answer = {"wallet", "chunks"}
      /\ spoke \in Int /\ Never = -1 /\ spoke \in Time
      /\ op[c].at \in Nat /\ Fresh \in Nat /\ Gone \in Nat /\ Persistent \in Nat
      /\ PeerModels \in SUBSET Model /\ IsFiniteSet(PeerModels)
  BY SMTT(20), TrackerNumbers DEF TrackerInv, TrackerTypeOK
<1>2. \A e \in Nat : Renew(e) \in Nat
  BY Renews DEF TrackerInv
<1>3. DOMAIN answer' = {"wallet", "chunks"} /\ answer'.wallet \in wrote' \cup {NoWallet}
      /\ meta.by \in wrote' \cup {NoWallet}
  BY <1>1 DEF TrackerInv, Written
<1>4. cmd.name \in CmdName
  BY DEF Command
<1>5. CASE cmd.name \in {"ZADD", "ZREM"}
  <2>1. /\ score' = [score EXCEPT ![cmd.model] = IF cmd.name = "ZADD" THEN op[c].at ELSE Never]
        /\ UNCHANGED <<meta, models, chunks>>
    BY <1>5, ScoreIs
  <2>2. PICK v : v = IF cmd.name = "ZADD" THEN op[c].at ELSE Never
    OBVIOUS
  <2>3. v \in Time /\ v <= spoke
    BY <1>1, <2>2 DEF Time
  <2>4. score' \in [Model -> Time] /\ \A m \in Model : score'[m] <= spoke
    BY <1>1, <2>1, <2>2, <2>3
  <2> QED BY <1>1, <1>3, <2>1, <2>4 DEF Keys, Written
<1>6. CASE cmd.name \in {"SADD_models", "EXPIRE_models", "DEL_models"}
  <2>1. UNCHANGED <<meta, score, chunks>>
    BY <1>6, SetIs
  <2>2. models' \in [set : SUBSET Model, expires : Nat] /\ IsFiniteSet(models'.set)
    <3>1. CASE cmd.name = "SADD_models"
      <4>1. models' = [set |-> PeerModels \cup {cmd.model},
                       expires |-> IF Live(models.expires) THEN models.expires ELSE Persistent]
        BY <3>1, SetIs
      <4>2. PeerModels \cup {cmd.model} \in SUBSET Model /\ IsFiniteSet(PeerModels \cup {cmd.model})
        BY <1>1, <3>1, FS_AddElement
      <4>3. (IF Live(models.expires) THEN models.expires ELSE Persistent) \in Nat
        BY <1>1
      <4> QED BY <4>1, <4>2, <4>3
    <3>2. CASE cmd.name = "EXPIRE_models"
      <4>1. models' = [models EXCEPT !.expires = Renew(models.expires)]
        BY <3>2, SetIs
      <4> QED BY <1>1, <1>2, <4>1
    <3>3. CASE cmd.name = "DEL_models"
      <4>1. models' = [set |-> {}, expires |-> Gone]
        BY <3>3, SetIs
      <4> QED BY <1>1, <4>1, FS_EmptySet
    <3> QED BY <1>6, <3>1, <3>2, <3>3
  <2> QED BY <1>1, <1>3, <2>1, <2>2 DEF Keys, Written
<1>7. CASE cmd.name \in {"SET_meta", "EXPIRE_meta", "DEL_meta"}
  <2>1. UNCHANGED <<models, score, chunks>>
    BY <1>7, MetaIs
  <2>2. meta' \in [by : Conn \cup {NoWallet}, expires : Nat]
        /\ meta'.by \in wrote' \cup {NoWallet}
    <3>1. CASE cmd.name = "SET_meta"
      <4>1. meta' = [by |-> c, expires |-> Fresh]
        BY <3>1, MetaIs
      <4> QED BY <1>1, <3>1, <4>1
    <3>2. CASE cmd.name = "EXPIRE_meta"
      <4>1. meta' = [meta EXCEPT !.expires = Renew(meta.expires)]
        BY <3>2, MetaIs
      <4> QED BY <1>1, <1>2, <1>3, <4>1
    <3>3. CASE cmd.name = "DEL_meta"
      <4>1. meta' = [by |-> NoWallet, expires |-> Gone]
        BY <3>3, MetaIs
      <4> QED BY <1>1, <4>1
    <3> QED BY <1>7, <3>1, <3>2, <3>3
  <2> QED BY <1>1, <1>3, <2>1, <2>2 DEF Keys, Written
<1>8. CASE cmd.name \in {"PUT_chunks", "EXPIRE_chunks", "DEL_chunks"}
  <2>1. /\ chunks' = [chunks EXCEPT ![cmd.model] =
                        CASE cmd.name = "PUT_chunks" -> Fresh
                          [] cmd.name = "EXPIRE_chunks" -> Renew(chunks[cmd.model])
                          [] OTHER -> Gone]
        /\ UNCHANGED <<meta, score, models>>
    BY <1>8, ChunksIs
  <2>2. chunks' \in [Model -> Nat]
    BY <1>1, <1>2, <1>8, <2>1
  <2> QED BY <1>1, <1>3, <2>1, <2>2 DEF Keys, Written
<1> QED BY <1>4, <1>5, <1>6, <1>7, <1>8 DEF CmdName

-----------------------------------------------------------------------------
\* Commands of an operation undisturbed.

Shown == {s \in [Model -> [at : Time, held : BOOLEAN]] : \A m \in Model : s[m].at <= now}

LEMMA ShownNumbers ==
    ASSUME TrackerTypeOK, NEW s \in Shown, NEW m \in Model
    PROVE  s[m].at \in Int /\ s[m].at <= now /\ s[m].held \in BOOLEAN
BY DEF Shown, Time, Never

\* o is the operation, p what it is after its next command.
Stepping(c, o, p, cmd) ==
    /\ o \in Op /\ op[c] = o /\ o.todo # <<>> /\ o.at = now
    /\ cmd = Head(o.todo) /\ p = [o EXCEPT !.todo = Tail(o.todo)]
    /\ WriteSets(c, cmd) \/ WriteKeys(c, cmd)
    /\ UNCHANGED <<now, wrote>>

LEMMA SteppingList ==
    ASSUME NEW c, NEW o, NEW p, NEW cmd, Stepping(c, o, p, cmd)
    PROVE  /\ cmd \in Command /\ cmd = Cmd(cmd.name, cmd.model) /\ p.todo \in Seq(Command)
           /\ \A x : Has(o.todo, x) <=> x = cmd \/ Has(p.todo, x)
           /\ Len(p.todo) = Len(o.todo) - 1 /\ Len(o.todo) \in Nat \ {0}
           /\ p.model = o.model /\ p.held = o.held /\ p.name = o.name /\ p.at = o.at
<1>1. o.todo \in Seq(Command) /\ o.todo # <<>>
  BY DEF Stepping, Op
<1>2. /\ Head(o.todo) \in Command /\ Tail(o.todo) \in Seq(Command)
      /\ \A x : Has(o.todo, x) <=> x = Head(o.todo) \/ Has(Tail(o.todo), x)
      /\ Len(Tail(o.todo)) = Len(o.todo) - 1 /\ Len(o.todo) \in Nat \ {0}
  BY <1>1, HeadGone
<1>3. p.todo = Tail(o.todo) /\ p.model = o.model /\ p.held = o.held /\ p.name = o.name
      /\ p.at = o.at
  BY DEF Stepping, Op
<1>4. cmd = Head(o.todo)
  BY DEF Stepping
<1>5. cmd = Cmd(cmd.name, cmd.model)
  BY <1>2, <1>4 DEF Command, Cmd
<1> QED BY <1>2, <1>3, <1>4, <1>5

\* A heartbeat.
LEMMA Beats ==
    ASSUME TrackerTypeOK, NEW c, NEW o, NEW p, NEW cmd, Stepping(c, o, p, cmd),
           cmd.name \in {"EXPIRE_meta", "EXPIRE_models", "ZADD", "EXPIRE_chunks"},
           NEW s \in Shown, Beating(o, s)
    PROVE  Beating(p, s)'
<1>1. /\ cmd \in Command /\ cmd = Cmd(cmd.name, cmd.model)
      /\ \A x : Has(o.todo, x) <=> x = cmd \/ Has(p.todo, x)
  BY SteppingList
<1>2. /\ now' = now /\ wrote' = wrote /\ op[c].at = now
      /\ WriteSets(c, cmd) \/ WriteKeys(c, cmd)
  BY DEF Stepping
<1>3. Fresh' = Fresh /\ \A e : Live(e)' <=> Live(e)
  BY <1>2 DEF Fresh, Live
<1>4. \A n, m : Cmd(n, m).name = n /\ Cmd(n, m).model = m
  BY DEF Cmd
<1>5. ASSUME NEW n, NEW m, cmd.name # n \/ cmd.model # m, Has(o.todo, Cmd(n, m))
      PROVE  Has(p.todo, Cmd(n, m))
  <2>1. Cmd(n, m) # cmd
    BY <1>4, <1>5
  <2> QED BY <1>1, <1>5, <2>1
<1>6. /\ Has(o.todo, Cmd("EXPIRE_meta", NoWallet)) \/ meta.expires = Fresh \/ ~Live(meta.expires)
      /\ \/ Has(o.todo, Cmd("EXPIRE_models", NoWallet))
         \/ models.expires = Fresh \/ ~Live(models.expires)
      /\ \A x : Has(o.todo, x) /\ x.name = "ZADD" => x.model \in PeerModels
  BY DEF Beating, Renewed
<1>7. \A m \in Model :
          /\ ShownIsKept(m, s[m])
          /\ Scored(m) => m \in PeerModels
          /\ m \in PeerModels =>
                /\ s[m].at # Never
                /\ Has(o.todo, Cmd("ZADD", m)) \/ score[m] = now
                /\ \/ Has(o.todo, Cmd("EXPIRE_chunks", m))
                   \/ chunks[m] = Fresh \/ ~Live(chunks[m])
  BY DEF Beating, Renewed
<1>8. /\ now \in Nat /\ PresenceTTL \in Nat \ {0} /\ Fresh = now + PresenceTTL
      /\ meta.expires \in Nat /\ models.expires \in Nat
      /\ \A m \in Model : /\ score[m] \in Int /\ chunks[m] \in Nat
                          /\ s[m].at \in Int /\ s[m].at <= now
  BY TrackerNumbers, ShownNumbers
<1>9. \A x : Has(p.todo, x) => Has(o.todo, x)
  BY <1>1
<1>10. CASE cmd.name = "EXPIRE_meta"
  <2>1. /\ meta' = [meta EXCEPT !.expires = Renew(meta.expires)]
        /\ UNCHANGED <<score, models, chunks>>
    BY <1>2, <1>10, MetaIs
  <2>2. meta'.expires = Renew(meta.expires) /\ meta'.by = meta.by
    BY <2>1 DEF TrackerTypeOK
  <2>3. meta'.expires = Fresh \/ ~Live(meta'.expires)
    BY <1>8, <2>2, Renews
  <2>4. \A e : Has(o.todo, Cmd("EXPIRE_models", NoWallet)) => Has(p.todo, Cmd("EXPIRE_models", NoWallet))
    BY <1>5, <1>10
  <2>5. PeerModels' = PeerModels /\ \A m \in Model : Scored(m)' <=> Scored(m)
    BY <1>2, <2>1 DEF PeerModels, Scored, Live
  <2>6. ASSUME NEW m \in Model PROVE ShownIsKept(m, s[m])'
    <3>1. ASSUME s[m].at # Never, s[m].at + PresenceTTL > now
          PROVE  meta'.expires >= s[m].at + PresenceTTL
      <4>1. meta.expires >= s[m].at + PresenceTTL
        BY <1>7, <3>1 DEF ShownIsKept
      <4>2. Live(meta.expires)
        BY <1>8, <3>1, <4>1 DEF Live
      <4> QED BY <1>8, <2>2, <4>2, Renews
    <3> QED BY <1>2, <1>7, <2>1, <2>2, <3>1 DEF ShownIsKept
  <2>7. ASSUME NEW m \in Model
        PROVE  /\ Has(o.todo, Cmd("ZADD", m)) => Has(p.todo, Cmd("ZADD", m))
               /\ Has(o.todo, Cmd("EXPIRE_chunks", m)) => Has(p.todo, Cmd("EXPIRE_chunks", m))
    BY <1>5, <1>10
  <2> QED BY <1>2, <1>3, <1>6, <1>7, <1>9, <2>1, <2>3, <2>4, <2>5, <2>6, <2>7 DEF Beating, Renewed
<1>11. CASE cmd.name = "EXPIRE_models"
  <2>1. /\ models' = [models EXCEPT !.expires = Renew(models.expires)]
        /\ UNCHANGED <<score, meta, chunks>>
    BY <1>2, <1>11, SetIs
  <2>2. models'.expires = Renew(models.expires) /\ models'.set = models.set
    BY <2>1 DEF TrackerTypeOK
  <2>3. models'.expires = Fresh \/ ~Live(models'.expires)
    BY <1>8, <2>2, Renews
  <2>4. \A e : Has(o.todo, Cmd("EXPIRE_meta", NoWallet)) => Has(p.todo, Cmd("EXPIRE_meta", NoWallet))
    BY <1>5, <1>11
  <2>5. PeerModels' = PeerModels
    <3>1. Live(models'.expires) <=> Live(models.expires)
      BY <1>8, <2>2, Renews
    <3> QED BY <1>3, <2>2, <3>1 DEF PeerModels
  <2>6. \A m \in Model : Scored(m)' <=> Scored(m)
    BY <1>2, <2>1 DEF Scored
  <2>7. ASSUME NEW m \in Model PROVE ShownIsKept(m, s[m])'
    <3>1. ASSUME s[m].at # Never, s[m].at + PresenceTTL > now
          PROVE  models'.expires >= s[m].at + PresenceTTL
      <4>1. models.expires >= s[m].at + PresenceTTL
        BY <1>7, <3>1 DEF ShownIsKept
      <4>2. Live(models.expires)
        BY <1>8, <3>1, <4>1 DEF Live
      <4> QED BY <1>8, <2>2, <4>2, Renews
    <3> QED BY <1>2, <1>7, <2>1, <2>2, <3>1 DEF ShownIsKept
  <2>8. ASSUME NEW m \in Model
        PROVE  /\ Has(o.todo, Cmd("ZADD", m)) => Has(p.todo, Cmd("ZADD", m))
               /\ Has(o.todo, Cmd("EXPIRE_chunks", m)) => Has(p.todo, Cmd("EXPIRE_chunks", m))
    BY <1>5, <1>11
  <2> QED BY <1>2, <1>3, <1>6, <1>7, <1>9, <2>1, <2>3, <2>4, <2>5, <2>6, <2>7, <2>8
             DEF Beating, Renewed
<1>12. CASE cmd.name = "ZADD"
  <2>1. /\ score' = [score EXCEPT ![cmd.model] = now]
        /\ UNCHANGED <<meta, models, chunks>>
    BY <1>2, <1>12, ScoreIs
  <2>2. cmd.model \in PeerModels
    BY <1>1, <1>6, <1>12
  <2>3. \A m \in Model : score'[m] = IF m = cmd.model THEN now ELSE score[m]
    BY <2>1 DEF TrackerTypeOK
  <2>4. PeerModels' = PeerModels
    BY <1>2, <2>1 DEF PeerModels, Live
  <2>5. Has(p.todo, Cmd("EXPIRE_meta", NoWallet)) <=> Has(o.todo, Cmd("EXPIRE_meta", NoWallet))
    BY <1>5, <1>9, <1>12
  <2>6. Has(p.todo, Cmd("EXPIRE_models", NoWallet)) <=> Has(o.todo, Cmd("EXPIRE_models", NoWallet))
    BY <1>5, <1>9, <1>12
  <2>7. ASSUME NEW m \in Model
        PROVE  /\ ShownIsKept(m, s[m])'
               /\ Scored(m)' => m \in PeerModels
               /\ Has(o.todo, Cmd("ZADD", m)) \/ score[m] = now =>
                    Has(p.todo, Cmd("ZADD", m)) \/ score'[m] = now
               /\ Has(o.todo, Cmd("EXPIRE_chunks", m)) => Has(p.todo, Cmd("EXPIRE_chunks", m))
    <3>1. score'[m] = IF m = cmd.model THEN now ELSE score[m]
      BY <2>3
    <3>2. Has(o.todo, Cmd("EXPIRE_chunks", m)) => Has(p.todo, Cmd("EXPIRE_chunks", m))
      BY <1>5, <1>12
    <3>3. m # cmd.model => (Has(o.todo, Cmd("ZADD", m)) => Has(p.todo, Cmd("ZADD", m)))
      BY <1>5
    <3>4. s[m].at # Never /\ s[m].at + PresenceTTL > now => score'[m] >= s[m].at
      BY <1>7, <1>8, <3>1 DEF ShownIsKept
    <3>5. ShownIsKept(m, s[m])'
      BY <1>2, <1>7, <2>1, <3>4 DEF ShownIsKept
    <3>6. Scored(m)' => m \in PeerModels
      <4>1. CASE m = cmd.model
        BY <2>2, <4>1
      <4>2. CASE m # cmd.model
        BY <1>2, <1>7, <3>1, <4>2 DEF Scored
      <4> QED BY <4>1, <4>2
    <3> QED BY <3>1, <3>2, <3>3, <3>5, <3>6
  <2> QED BY <1>2, <1>3, <1>6, <1>7, <1>9, <2>1, <2>4, <2>5, <2>6, <2>7 DEF Beating, Renewed
<1>13. CASE cmd.name = "EXPIRE_chunks"
  <2>1. /\ chunks' = [chunks EXCEPT ![cmd.model] = Renew(chunks[cmd.model])]
        /\ UNCHANGED <<meta, models, score>>
    BY <1>2, <1>13, ChunksIs
  <2>2. \A m \in Model : chunks'[m] = IF m = cmd.model THEN Renew(chunks[m]) ELSE chunks[m]
    BY <2>1 DEF TrackerTypeOK
  <2>3. PeerModels' = PeerModels /\ \A m \in Model : Scored(m)' <=> Scored(m)
    BY <1>2, <2>1 DEF PeerModels, Scored, Live
  <2>4. Has(p.todo, Cmd("EXPIRE_meta", NoWallet)) <=> Has(o.todo, Cmd("EXPIRE_meta", NoWallet))
    BY <1>5, <1>9, <1>13
  <2>5. Has(p.todo, Cmd("EXPIRE_models", NoWallet)) <=> Has(o.todo, Cmd("EXPIRE_models", NoWallet))
    BY <1>5, <1>9, <1>13
  <2>6. ASSUME NEW m \in Model
        PROVE  /\ ShownIsKept(m, s[m])'
               /\ Has(o.todo, Cmd("ZADD", m)) => Has(p.todo, Cmd("ZADD", m))
               /\ \/ Has(o.todo, Cmd("EXPIRE_chunks", m))
                  \/ chunks[m] = Fresh \/ ~Live(chunks[m])
                  => \/ Has(p.todo, Cmd("EXPIRE_chunks", m))
                     \/ chunks'[m] = Fresh \/ ~Live(chunks'[m])
    <3>1. chunks'[m] = IF m = cmd.model THEN Renew(chunks[m]) ELSE chunks[m]
      BY <2>2
    <3>2. Has(o.todo, Cmd("ZADD", m)) => Has(p.todo, Cmd("ZADD", m))
      BY <1>5, <1>13
    <3>3. m # cmd.model => (Has(o.todo, Cmd("EXPIRE_chunks", m)) => Has(p.todo, Cmd("EXPIRE_chunks", m)))
      BY <1>5
    <3>4. Renew(chunks[m]) = Fresh \/ ~Live(Renew(chunks[m]))
      BY <1>8, Renews
    <3>5. ASSUME s[m].at # Never, s[m].at + PresenceTTL > now, s[m].held
          PROVE  chunks'[m] >= s[m].at + PresenceTTL
      <4>1. chunks[m] >= s[m].at + PresenceTTL
        BY <1>7, <3>5 DEF ShownIsKept
      <4>2. Live(chunks[m])
        BY <1>8, <3>5, <4>1 DEF Live
      <4>3. Renew(chunks[m]) = Fresh
        BY <1>8, <4>2, Renews
      <4> QED BY <1>8, <3>1, <4>1, <4>3
    <3>6. ShownIsKept(m, s[m])'
      BY <1>2, <1>7, <2>1, <3>5 DEF ShownIsKept
    <3> QED BY <3>1, <3>2, <3>3, <3>4, <3>6
  <2> QED BY <1>2, <1>3, <1>6, <1>7, <1>9, <2>1, <2>3, <2>4, <2>5, <2>6 DEF Beating, Renewed
<1> QED BY <1>10, <1>11, <1>12, <1>13

\* The heartbeat is through: what was shown within the TTL is refreshed.
LEMMA BeatsEnd ==
    ASSUME TrackerTypeOK, Keys, now' = now, NEW o, o.todo = <<>>, NEW s \in Shown, Beating(o, s)',
           shown' = [m \in Model |-> IF s[m].at # Never /\ Live(s[m].at + PresenceTTL)
                                     THEN [s[m] EXCEPT !.at = now] ELSE s[m]]
    PROVE  Settled'
<1>1. \A x : ~Has(o.todo, x)
  BY DEF Has
<1>2. /\ now \in Nat /\ PresenceTTL \in Nat \ {0} /\ Fresh = now + PresenceTTL /\ Never = -1
      /\ models'.expires \in Nat /\ meta'.expires \in Nat
      /\ \A m \in Model : score'[m] \in Int /\ chunks'[m] \in Nat
  BY TrackerNumbers DEF Keys, Time
<1>3. Fresh' = Fresh
  BY DEF Fresh
<1>4. /\ meta'.expires = Fresh \/ ~Live(meta'.expires)
      /\ models'.expires = Fresh \/ ~Live(models'.expires)
  BY <1>1, <1>3 DEF Beating, Renewed, Live
<1>5. ASSUME NEW m \in Model
      PROVE  ShownIsKept(m, shown[m])' /\ KeptIsShown(m, shown[m])'
  <2>1. /\ ShownIsKept(m, s[m])'
        /\ Scored(m)' => m \in PeerModels'
        /\ m \in PeerModels' => /\ s[m].at # Never /\ score'[m] = now
                                /\ chunks'[m] = Fresh \/ ~Live(chunks'[m])
    BY <1>1, <1>3 DEF Beating, Renewed, Live
  <2>2. s[m] \in [at : Time, held : BOOLEAN] /\ s[m].at \in Int /\ s[m].at <= now
    BY ShownNumbers DEF Shown
  <2>3. m \in PeerModels' <=> m \in models'.set /\ models'.expires > now
    BY DEF PeerModels, Live
  <2>4. CASE s[m].at # Never /\ Live(s[m].at + PresenceTTL)
    <3>1. shown'[m] = [s[m] EXCEPT !.at = now]
      BY <2>4
    <3>2. shown'[m].at = now /\ shown'[m].held = s[m].held
      BY <2>2, <3>1
    <3>3. /\ m \in models'.set /\ models'.expires >= s[m].at + PresenceTTL
          /\ meta'.by \in wrote' /\ meta'.expires >= s[m].at + PresenceTTL
          /\ s[m].held => chunks'[m] >= s[m].at + PresenceTTL
      BY <2>1, <2>4 DEF ShownIsKept, Live
    <3>4. models'.expires > now /\ meta'.expires > now /\ (s[m].held => chunks'[m] > now)
      BY <1>2, <2>2, <2>4, <3>3 DEF Live
    <3>5. /\ models'.expires = Fresh /\ meta'.expires = Fresh /\ score'[m] = now
          /\ s[m].held => chunks'[m] = Fresh
      BY <1>4, <2>1, <2>3, <3>3, <3>4 DEF Live
    <3>6. ShownIsKept(m, shown[m])'
      BY <1>2, <3>2, <3>3, <3>5 DEF ShownIsKept
    <3>7. KeptIsShown(m, shown[m])'
      BY <1>2, <3>2, <3>3, <3>5 DEF KeptIsShown
    <3> QED BY <3>6, <3>7
  <2>5. CASE ~(s[m].at # Never /\ Live(s[m].at + PresenceTTL))
    <3>1. shown'[m] = s[m]
      BY <2>5
    <3>2. Scored(m)' => /\ m \in models'.set /\ models'.expires >= score'[m] + PresenceTTL
      BY <1>2, <1>4, <2>1, <2>3 DEF Live
    <3> QED BY <2>1, <3>1, <3>2 DEF KeptIsShown
  <2> QED BY <2>4, <2>5
<1> QED BY <1>5 DEF Settled

\* A removal.
LEMMA Removes ==
    ASSUME TrackerTypeOK, NEW c, NEW o, NEW p, NEW cmd, Stepping(c, o, p, cmd),
           cmd.name \in {"DEL_meta", "DEL_models", "ZREM", "DEL_chunks"}, Removing(o)
    PROVE  Removing(p)'
<1>1. /\ cmd \in Command /\ cmd = Cmd(cmd.name, cmd.model)
      /\ \A x : Has(o.todo, x) <=> x = cmd \/ Has(p.todo, x)
  BY SteppingList
<1>2. now' = now /\ (WriteSets(c, cmd) \/ WriteKeys(c, cmd))
  BY DEF Stepping
<1>3. \A n, m : Cmd(n, m).name = n /\ Cmd(n, m).model = m
  BY DEF Cmd
<1>4. ASSUME NEW n, NEW m, cmd.name # n \/ cmd.model # m, Has(o.todo, Cmd(n, m))
      PROVE  Has(p.todo, Cmd(n, m))
  <2>1. Cmd(n, m) # cmd
    BY <1>3, <1>4
  <2> QED BY <1>1, <1>4, <2>1
<1>5. CASE cmd.name \in {"DEL_meta", "DEL_chunks"}
  <2>1. UNCHANGED <<models, score>>
    BY <1>2, <1>5, MetaIs, ChunksIs
  <2>2. \A m : Has(o.todo, Cmd("ZREM", m)) => Has(p.todo, Cmd("ZREM", m))
    BY <1>4, <1>5
  <2>3. Has(o.todo, Cmd("DEL_models", NoWallet)) => Has(p.todo, Cmd("DEL_models", NoWallet))
    BY <1>4, <1>5
  <2> QED BY <1>2, <2>1, <2>2, <2>3 DEF Removing, Scored
<1>6. CASE cmd.name = "DEL_models"
  <2>1. models' = [set |-> {}, expires |-> Gone] /\ UNCHANGED score
    BY <1>2, <1>6, SetIs
  <2>2. \A m : Has(o.todo, Cmd("ZREM", m)) => Has(p.todo, Cmd("ZREM", m))
    BY <1>4, <1>6
  <2> QED BY <1>2, <2>1, <2>2 DEF Removing, Scored
<1>7. CASE cmd.name = "ZREM"
  <2>1. score' = [score EXCEPT ![cmd.model] = Never] /\ UNCHANGED models
    BY <1>2, <1>7, ScoreIs
  <2>2. Has(o.todo, Cmd("DEL_models", NoWallet)) => Has(p.todo, Cmd("DEL_models", NoWallet))
    BY <1>4, <1>7
  <2>3. ASSUME NEW m \in Model, Scored(m)' PROVE Has(p.todo, Cmd("ZREM", m))
    <3>1. score'[m] = IF m = cmd.model THEN Never ELSE score[m]
      BY <2>1 DEF TrackerTypeOK
    <3>2. m # cmd.model /\ Scored(m)
      BY <1>2, <2>3, <3>1 DEF Scored
    <3> QED BY <1>4, <3>2 DEF Removing
  <2> QED BY <2>1, <2>2, <2>3 DEF Removing
<1> QED BY <1>5, <1>6, <1>7

\* The removal is through: nothing is shown.
LEMMA RemovesEnd ==
    ASSUME NEW o, o.todo = <<>>, Removing(o)',
           shown' = [m \in Model |-> [at |-> Never, held |-> FALSE]]
    PROVE  Settled'
<1>1. \A x : ~Has(o.todo, x)
  BY DEF Has
<1>2. models'.set = {} /\ \A m \in Model : ~Scored(m)'
  BY <1>1 DEF Removing
<1>3. PeerModels' = {}
  BY <1>2 DEF PeerModels
<1>4. \A m \in Model : shown'[m].at = Never
  OBVIOUS
<1> QED BY <1>2, <1>3, <1>4 DEF Settled, ShownIsKept, KeptIsShown

\* An announcement: its commands in their order.
AtCommand(o, list, cmd) ==
    /\ Len(list) \in 1..5 /\ Len(Tail(list)) = Len(list) - 1
    /\ Tail(list) # <<>> => Tail(list) \in AnnounceLeft(o)
    /\ Tail(list) = <<>> <=> Len(list) = 1
    /\ list # Reading
    /\ cmd.model = o.model
    /\ Len(list) = 5 => cmd.name = "SET_meta"
    /\ Len(list) = 4 => cmd.name = "ZADD"
    /\ Len(list) = 3 => cmd.name = "SADD_models"
    /\ Len(list) = 2 => cmd.name = "EXPIRE_models"
    /\ Len(list) = 1 => cmd.name = IF o.held THEN "PUT_chunks" ELSE "DEL_chunks"

LEMMA AnnounceOrder ==
    ASSUME NEW o, NEW list \in AnnounceLeft(o), NEW cmd, cmd = Head(list)
    PROVE  AtCommand(o, list, cmd)
<1> USE DEF AtCommand
<1> DEFINE k == Cmd(IF o.held THEN "PUT_chunks" ELSE "DEL_chunks", o.model)
<1>1. \A n : Cmd(n, o.model).name = n /\ Cmd(n, o.model).model = o.model
  BY DEF Cmd
<1>2. k.name = (IF o.held THEN "PUT_chunks" ELSE "DEL_chunks") /\ k.model = o.model
  BY <1>1
<1>3. PICK k0 : k0 = k
  OBVIOUS
<1>4. \/ list = <<Cmd("SET_meta", o.model), Cmd("ZADD", o.model), Cmd("SADD_models", o.model),
                  Cmd("EXPIRE_models", o.model), k0>>
      \/ list = <<Cmd("ZADD", o.model), Cmd("SADD_models", o.model),
                  Cmd("EXPIRE_models", o.model), k0>>
      \/ list = <<Cmd("SADD_models", o.model), Cmd("EXPIRE_models", o.model), k0>>
      \/ list = <<Cmd("EXPIRE_models", o.model), k0>>
      \/ list = <<k0>>
  BY <1>3 DEF AnnounceLeft
<1>5. /\ <<Cmd("ZADD", o.model), Cmd("SADD_models", o.model),
           Cmd("EXPIRE_models", o.model), k0>> \in AnnounceLeft(o)
      /\ <<Cmd("SADD_models", o.model), Cmd("EXPIRE_models", o.model), k0>> \in AnnounceLeft(o)
      /\ <<Cmd("EXPIRE_models", o.model), k0>> \in AnnounceLeft(o)
      /\ <<k0>> \in AnnounceLeft(o)
  BY <1>3 DEF AnnounceLeft
<1>6. Reading[1].name = "SMEMBERS_models"
  BY DEF Reading, Cmd
<1>7. list[1] = Head(list) /\ Head(list).name # "SMEMBERS_models"
  BY <1>1, <1>2, <1>3, <1>4
<1>8. list # Reading
  BY <1>6, <1>7
<1> HIDE DEF k
<1>9. CASE list = <<Cmd("SET_meta", o.model), Cmd("ZADD", o.model), Cmd("SADD_models", o.model),
                    Cmd("EXPIRE_models", o.model), k0>>
  <2>1. Len(list) = 5 /\ Head(list) = Cmd("SET_meta", o.model)
        /\ Tail(list) = <<Cmd("ZADD", o.model), Cmd("SADD_models", o.model),
                          Cmd("EXPIRE_models", o.model), k0>>
    BY <1>9
  <2>2. Len(Tail(list)) = 4 /\ Tail(list) # <<>>
    BY <2>1
  <2>3. Tail(list) \in AnnounceLeft(o)
    BY <1>5, <2>1
  <2>4. cmd.model = o.model /\ cmd = Head(list)
    BY <1>1, <2>1
  <2> QED BY <1>1, <1>8, <2>1, <2>2, <2>3, <2>4
<1>10. CASE list = <<Cmd("ZADD", o.model), Cmd("SADD_models", o.model),
                     Cmd("EXPIRE_models", o.model), k0>>
  <2>1. Len(list) = 4 /\ Head(list) = Cmd("ZADD", o.model)
        /\ Tail(list) = <<Cmd("SADD_models", o.model), Cmd("EXPIRE_models", o.model), k0>>
    BY <1>10
  <2>2. Len(Tail(list)) = 3 /\ Tail(list) # <<>>
    BY <2>1
  <2>3. Tail(list) \in AnnounceLeft(o)
    BY <1>5, <2>1
  <2>4. cmd.model = o.model /\ cmd = Head(list)
    BY <1>1, <2>1
  <2> QED BY <1>1, <1>8, <2>1, <2>2, <2>3, <2>4
<1>11. CASE list = <<Cmd("SADD_models", o.model), Cmd("EXPIRE_models", o.model), k0>>
  <2>1. Len(list) = 3 /\ Head(list) = Cmd("SADD_models", o.model)
        /\ Tail(list) = <<Cmd("EXPIRE_models", o.model), k0>>
    BY <1>11
  <2>2. Len(Tail(list)) = 2 /\ Tail(list) # <<>>
    BY <2>1
  <2>3. Tail(list) \in AnnounceLeft(o)
    BY <1>5, <2>1
  <2>4. cmd.model = o.model /\ cmd = Head(list)
    BY <1>1, <2>1
  <2> QED BY <1>1, <1>8, <2>1, <2>2, <2>3, <2>4
<1>12. CASE list = <<Cmd("EXPIRE_models", o.model), k0>>
  <2>1. Len(list) = 2 /\ Head(list) = Cmd("EXPIRE_models", o.model) /\ Tail(list) = <<k0>>
    BY <1>12
  <2>2. Len(Tail(list)) = 1 /\ Tail(list) # <<>>
    BY <2>1
  <2>3. Tail(list) \in AnnounceLeft(o)
    BY <1>5, <2>1
  <2>4. cmd.model = o.model /\ cmd = Head(list)
    BY <1>1, <2>1
  <2> QED BY <1>1, <1>8, <2>1, <2>2, <2>3, <2>4
<1>13. CASE list = <<k0>>
  <2>1. Len(list) = 1 /\ Head(list) = k0 /\ Tail(list) = <<>> /\ Len(Tail(list)) = 0
    BY <1>13
  <2> QED BY <1>2, <1>3, <1>8, <2>1
<1> QED BY <1>4, <1>9, <1>10, <1>11, <1>12, <1>13

LEMMA Announces ==
    ASSUME TrackerTypeOK, NEW c \in wrote, NEW o, NEW p, NEW cmd, Stepping(c, o, p, cmd),
           o.todo \in AnnounceLeft(o), o.model \in Model, NEW s \in Shown, Announcing(o, s)
    PROVE  Announcing(p, s)'
<1>1. PICK n : n = Len(o.todo)
  OBVIOUS
<1>2. /\ n \in 1..5 /\ Len(p.todo) = n - 1 /\ p.model = o.model /\ p.held = o.held
      /\ cmd.model = o.model
      /\ n = 5 => cmd.name = "SET_meta"
      /\ n = 4 => cmd.name = "ZADD"
      /\ n = 3 => cmd.name = "SADD_models"
      /\ n = 2 => cmd.name = "EXPIRE_models"
      /\ n = 1 => cmd.name = IF o.held THEN "PUT_chunks" ELSE "DEL_chunks"
  <2>1. cmd = Head(o.todo)
    BY DEF Stepping
  <2>2. Len(p.todo) = n - 1 /\ p.model = o.model /\ p.held = o.held
    BY <1>1, SteppingList
  <2>3. AtCommand(o, o.todo, cmd)
    BY <2>1, AnnounceOrder
  <2> QED BY <1>1, <2>2, <2>3 DEF AtCommand
<1>3. /\ now' = now /\ wrote' = wrote /\ op[c].at = now
      /\ WriteSets(c, cmd) \/ WriteKeys(c, cmd)
  BY DEF Stepping
<1>4. Fresh' = Fresh /\ \A e : Live(e)' <=> Live(e)
  BY <1>3 DEF Fresh, Live
<1>5. /\ now \in Nat /\ PresenceTTL \in Nat \ {0} /\ Fresh = now + PresenceTTL /\ Never = -1
      /\ Persistent \in Nat /\ Persistent > now
      /\ meta.expires \in Nat /\ models.expires \in Nat
      /\ \A m \in Model : /\ score[m] \in Int /\ score[m] <= now /\ chunks[m] \in Nat
                          /\ s[m].at \in Int /\ s[m].at <= now
  BY SMTT(20), TrackerNumbers, ShownNumbers
<1>6. /\ \A m \in Model \ {o.model} : ShownIsKept(m, s[m]) /\ KeptIsShown(m, s[m])
      /\ n <= 4 => meta.by \in wrote /\ meta.expires = Fresh
      /\ n <= 3 => score[o.model] = now
      /\ n <= 2 => o.model \in models.set /\ Live(models.expires)
      /\ n <= 1 => models.expires = Fresh
  BY <1>1 DEF Announcing
<1>7. Fresh > now
  BY <1>5
<1>8. CASE n = 5
  <2>1. meta' = [by |-> c, expires |-> Fresh] /\ UNCHANGED <<score, models, chunks>>
    BY <1>2, <1>3, <1>8, MetaIs
  <2>2. meta'.by \in wrote /\ meta'.expires = Fresh
    BY <2>1
  <2>3. ASSUME NEW m \in Model \ {o.model}
        PROVE  ShownIsKept(m, s[m])' /\ KeptIsShown(m, s[m])'
    <3>1. s[m].at + PresenceTTL <= Fresh
      BY <1>5
    <3>2. ShownIsKept(m, s[m])'
      BY <1>3, <1>6, <2>1, <2>2, <3>1 DEF ShownIsKept
    <3>3. KeptIsShown(m, s[m])'
      BY <1>3, <1>6, <2>1 DEF KeptIsShown, Scored, PeerModels, Live
    <3> QED BY <3>2, <3>3
  <2> QED BY <1>2, <1>3, <1>4, <1>8, <2>2, <2>3 DEF Announcing
<1>9. CASE n = 4
  <2>1. score' = [score EXCEPT ![o.model] = now] /\ UNCHANGED <<meta, models, chunks>>
    BY <1>2, <1>3, <1>9, ScoreIs
  <2>2. score'[o.model] = now /\ \A m \in Model \ {o.model} : score'[m] = score[m]
    BY <2>1 DEF TrackerTypeOK
  <2>3. ASSUME NEW m \in Model \ {o.model}
        PROVE  ShownIsKept(m, s[m])' /\ KeptIsShown(m, s[m])'
    BY <1>3, <1>6, <2>1, <2>2 DEF ShownIsKept, KeptIsShown, Scored, PeerModels, Live
  <2> QED BY <1>2, <1>3, <1>4, <1>6, <1>9, <2>1, <2>2, <2>3 DEF Announcing
<1>10. CASE n = 3
  <2>1. models' = [set |-> PeerModels \cup {o.model},
                   expires |-> IF Live(models.expires) THEN models.expires ELSE Persistent]
        /\ UNCHANGED <<meta, score, chunks>>
    BY <1>2, <1>3, <1>10, SetIs
  <2>2. /\ models'.set = PeerModels \cup {o.model}
        /\ models'.expires = IF Live(models.expires) THEN models.expires ELSE Persistent
    BY <2>1
  <2>3. Live(models'.expires) /\ o.model \in models'.set
    BY <1>5, <2>2 DEF Live
  <2>4. ASSUME NEW m \in Model \ {o.model}
        PROVE  ShownIsKept(m, s[m])' /\ KeptIsShown(m, s[m])'
    <3>1. ShownIsKept(m, s[m]) /\ KeptIsShown(m, s[m])
      BY <1>6
    <3>2. CASE Live(models.expires)
      <4>1. models'.expires = models.expires /\ PeerModels = models.set
            /\ PeerModels' = PeerModels \cup {o.model}
        BY <1>3, <2>2, <3>2 DEF PeerModels, Live
      <4>2. ShownIsKept(m, s[m])'
        BY <1>3, <2>1, <2>2, <3>1, <4>1 DEF ShownIsKept
      <4>3. KeptIsShown(m, s[m])'
        BY <1>3, <2>1, <2>2, <3>1, <4>1 DEF KeptIsShown, Scored
      <4> QED BY <4>2, <4>3
    <3>3. CASE ~Live(models.expires)
      <4>1. ~(s[m].at # Never /\ s[m].at + PresenceTTL > now)
        BY <1>5, <3>1, <3>3 DEF ShownIsKept, Live
      <4>2. ~Scored(m)
        BY <1>5, <3>1, <3>3 DEF KeptIsShown, Scored, Live
      <4>3. m \notin PeerModels'
        BY <2>2, <3>3 DEF PeerModels
      <4> QED BY <1>3, <2>1, <4>1, <4>2, <4>3 DEF ShownIsKept, KeptIsShown, Scored
    <3> QED BY <3>2, <3>3
  <2> QED BY <1>2, <1>3, <1>4, <1>6, <1>10, <2>1, <2>3, <2>4 DEF Announcing
<1>11. CASE n = 2
  <2>1. models' = [models EXCEPT !.expires = Renew(models.expires)]
        /\ UNCHANGED <<meta, score, chunks>>
    BY <1>2, <1>3, <1>11, SetIs
  <2>2. /\ models'.set = models.set /\ models'.expires = Renew(models.expires)
        /\ Live(models.expires) /\ o.model \in models.set
    BY <1>6, <1>11, <2>1 DEF TrackerTypeOK
  <2>3. models'.expires = Fresh /\ Live(models'.expires)
    BY <1>5, <2>2, Renews
  <2>4. ASSUME NEW m \in Model \ {o.model}
        PROVE  ShownIsKept(m, s[m])' /\ KeptIsShown(m, s[m])'
    <3>1. ShownIsKept(m, s[m]) /\ KeptIsShown(m, s[m])
      BY <1>6
    <3>2. s[m].at + PresenceTTL <= Fresh /\ score[m] + PresenceTTL <= Fresh
      BY <1>5
    <3>3. PeerModels' = PeerModels
      BY <1>4, <2>2, <2>3 DEF PeerModels
    <3>4. ShownIsKept(m, s[m])'
      BY <1>3, <2>1, <2>2, <2>3, <3>1, <3>2 DEF ShownIsKept
    <3>5. KeptIsShown(m, s[m])'
      BY <1>3, <2>1, <2>2, <2>3, <3>1, <3>2, <3>3 DEF KeptIsShown, Scored
    <3> QED BY <3>4, <3>5
  <2> QED BY <1>2, <1>3, <1>4, <1>6, <1>11, <2>1, <2>2, <2>3, <2>4 DEF Announcing
<1>12. CASE n = 1
  <2>1. /\ chunks' = [chunks EXCEPT ![o.model] =
                         CASE cmd.name = "PUT_chunks" -> Fresh
                           [] cmd.name = "EXPIRE_chunks" -> Renew(chunks[o.model])
                           [] OTHER -> Gone]
        /\ UNCHANGED <<meta, score, models>>
    BY <1>2, <1>3, <1>12, ChunksIs
  <2>2. /\ o.held => chunks'[o.model] = Fresh
        /\ \A m \in Model \ {o.model} : chunks'[m] = chunks[m]
    BY <1>2, <1>12, <2>1 DEF TrackerTypeOK
  <2>3. ASSUME NEW m \in Model \ {o.model}
        PROVE  ShownIsKept(m, s[m])' /\ KeptIsShown(m, s[m])'
    BY <1>3, <1>6, <2>1, <2>2 DEF ShownIsKept, KeptIsShown, Scored, PeerModels, Live
  <2> QED BY <1>2, <1>3, <1>4, <1>6, <1>12, <2>1, <2>2, <2>3 DEF Announcing
<1>13. n = 1 \/ n = 2 \/ n = 3 \/ n = 4 \/ n = 5
  BY <1>2
<1> QED BY <1>8, <1>9, <1>10, <1>11, <1>12, <1>13

\* The announcement is through: its model is shown.
LEMMA AnnouncesEnd ==
    ASSUME TrackerTypeOK, Keys, now' = now, NEW o, o.todo = <<>>, o.model \in Model,
           o.held \in BOOLEAN, NEW s \in Shown, Announcing(o, s)',
           shown' = [s EXCEPT ![o.model] = [at |-> now, held |-> o.held]]
    PROVE  Settled'
<1>1. Len(o.todo) = 0
  OBVIOUS
<1>2. /\ meta'.by \in wrote' /\ meta'.expires = Fresh' /\ score'[o.model] = now
      /\ o.model \in models'.set /\ models'.expires = Fresh'
      /\ o.held => chunks'[o.model] = Fresh'
  BY <1>1 DEF Announcing
<1>3. /\ now \in Nat /\ PresenceTTL \in Nat \ {0} /\ Fresh' = now + PresenceTTL /\ Never = -1
  BY TrackerNumbers DEF Fresh
<1>4. ASSUME NEW m \in Model PROVE ShownIsKept(m, shown[m])' /\ KeptIsShown(m, shown[m])'
  <2>1. CASE m = o.model
    <3>1. shown'[m] = [at |-> now, held |-> o.held]
      BY <2>1 DEF Shown
    <3>2. shown'[m].at = now /\ shown'[m].held = o.held
      BY <3>1
    <3> QED BY <1>2, <1>3, <2>1, <3>2 DEF ShownIsKept, KeptIsShown
  <2>2. CASE m # o.model
    <3>1. shown'[m] = s[m]
      BY <2>2 DEF Shown
    <3>2. ShownIsKept(m, s[m])' /\ KeptIsShown(m, s[m])'
      BY <2>2 DEF Announcing
    <3> QED BY <3>1, <3>2 DEF ShownIsKept, KeptIsShown
  <2> QED BY <2>1, <2>2
<1> QED BY <1>4 DEF Settled

-----------------------------------------------------------------------------
\* The steps.

LEMMA HeadName ==
    ASSUME NEW list \in Seq(Command), list # <<>>
    PROVE  /\ Head(list).name \in Names(list) /\ Names(Tail(list)) \subseteq Names(list)
<1>1. /\ list[1] = Head(list) /\ Len(list) \in Nat \ {0}
      /\ Len(Tail(list)) = Len(list) - 1
      /\ \A i \in 1..(Len(list) - 1) : Tail(list)[i] = list[i + 1]
  BY HeadTailProperties, LenProperties, EmptySeq
<1>2. 1 \in 1..Len(list)
  BY <1>1
<1>3. ASSUME NEW i \in 1..Len(Tail(list)) PROVE Tail(list)[i].name \in Names(list)
  <2>1. i + 1 \in 1..Len(list) /\ Tail(list)[i] = list[i + 1]
    BY <1>1
  <2> QED BY <2>1 DEF Names
<1> QED BY <1>1, <1>2, <1>3 DEF Names

\* What an operation called o may have left.
MayLeave(o, list) ==
    /\ o.name = "announce" => list \in AnnounceLeft(o)
    /\ o.name = "heartbeat" =>
          Names(list) \subseteq {"EXPIRE_meta", "EXPIRE_models", "ZADD", "EXPIRE_chunks"}
    /\ o.name = "remove" => Names(list) \subseteq {"DEL_meta", "DEL_models", "ZREM", "DEL_chunks"}
    /\ o.name = "query" => Names(list) \subseteq {"ZRANGEBYSCORE", "GET_meta", "SMEMBERS_chunks"}

LEMMA LeftOK ==
    ASSUME TrackerInv, NEW c \in Conn \cup {Asker}, NEW list \in Seq(Command), list # <<>>,
           Continue(c, list), UNCHANGED <<now, spoke, wrote>>, MayLeave(op[c], list)
    PROVE  OpOK(c)'
<1>1. PICK o : o = op[c]
  OBVIOUS
<1>2. PICK p : p = [o EXCEPT !.todo = list]
  OBVIOUS
<1>3. op'[c] = p
  BY <1>1, <1>2, Continued DEF TrackerInv
<1>4. p.name = o.name /\ p.model = o.model /\ p.held = o.held /\ p.at = o.at /\ p.todo = list
  BY <1>1, <1>2, TrackerNumbers DEF Op, TrackerInv
<1>5. AnnounceLeft(p) = AnnounceLeft(o)
  BY <1>4 DEF AnnounceLeft
<1>6. /\ o.at <= now
      /\ o.name = "announce" => /\ c \in Conn /\ c \in wrote /\ o.model \in Model
                                /\ o.at <= spoke
      /\ o.name = "heartbeat" => c \in Conn /\ o.at <= spoke
      /\ o.name = "remove" => c \in Conn
      /\ o.name = "query" => c = Asker
  BY <1>1 DEF TrackerInv, OpOK
<1> QED BY <1>1, <1>3, <1>4, <1>5, <1>6 DEF OpOK, MayLeave

LEMMA QueryExec ==
    ASSUME TrackerInv, NEW c \in Conn \cup {Asker}, ~Idle(c), Exec(c), op[c].name = "query"
    PROVE  TrackerInv'
<1>1. /\ c = Asker /\ op[c].todo # <<>> /\ op[c].todo \in Seq(Command)
      /\ Names(op[c].todo) \subseteq {"ZRANGEBYSCORE", "GET_meta", "SMEMBERS_chunks"}
  BY TrackerNumbers, Zenon DEF TrackerInv, OpOK
<1>2. PICK cmd, rest : cmd = Head(op[c].todo) /\ rest = Tail(op[c].todo)
  OBVIOUS
<1>3. /\ cmd \in Command /\ rest \in Seq(Command)
      /\ cmd.name \in {"ZRANGEBYSCORE", "GET_meta", "SMEMBERS_chunks"}
      /\ Names(rest) \subseteq {"ZRANGEBYSCORE", "GET_meta", "SMEMBERS_chunks"}
  <2>1. cmd \in Command /\ rest \in Seq(Command)
    BY <1>1, <1>2, HeadGone
  <2>2. cmd.name \in Names(op[c].todo) /\ Names(rest) \subseteq Names(op[c].todo)
    BY <1>1, <1>2, HeadName
  <2> QED BY <1>1, <2>1, <2>2
<1>4. Read(c, cmd, rest) /\ UNCHANGED <<gone, ops, spoke, wrote, disturbed, now>>
  BY <1>2, <1>3, ReadIs
<1>5. UNCHANGED redis
  BY <1>4 DEF Read
<1>6. /\ meta \in [by : Conn \cup {NoWallet}, expires : Nat]
      /\ score \in [Model -> Time] /\ \A m \in Model : score[m] <= spoke
      /\ models \in [set : SUBSET Model, expires : Nat] /\ IsFiniteSet(models.set)
      /\ chunks \in [Model -> Nat] /\ DOMAIN answer = {"wallet", "chunks"}
      /\ Written
  BY DEF TrackerInv, TrackerTypeOK
<1>7. ASSUME DOMAIN answer' = {"wallet", "chunks"}, answer'.wallet \in wrote \cup {NoWallet}
      PROVE  Keys
  BY <1>4, <1>5, <1>6, <1>7 DEF Keys, Written, redis
<1>8. CASE cmd.name = "ZRANGEBYSCORE"
  <2>1. PICK list : list = IF Listed(cmd.model, op[c].at)
                           THEN <<Cmd("GET_meta", cmd.model), Cmd("SMEMBERS_chunks", cmd.model)>>
                           ELSE <<>>
    OBVIOUS
  <2>2. Continue(c, list) /\ answer' = NoAnswer
    BY <1>4, <1>8, <2>1 DEF Read
  <2>3. Keys
    BY <1>7, <2>2 DEF NoAnswer
  <2>4. list \in Seq(Command)
    <3>1. "GET_meta" \in CmdName /\ "SMEMBERS_chunks" \in CmdName
      BY DEF CmdName
    <3>2. cmd.model \in Model \cup {NoWallet}
      BY <1>3 DEF Command
    <3>3. Cmd("GET_meta", cmd.model) \in Command /\ Cmd("SMEMBERS_chunks", cmd.model) \in Command
      BY <3>1, <3>2, CmdType
    <3> QED BY <2>1, <3>3, PairType, EmptySeq
  <2>5. ASSUME list # <<>> PROVE OpOK(c)'
    <3>1. list = <<Cmd("GET_meta", cmd.model), Cmd("SMEMBERS_chunks", cmd.model)>>
      BY <2>1, <2>5
    <3>2. Names(list) \subseteq {"GET_meta", "SMEMBERS_chunks"}
      <4>1. Len(list) = 2 /\ list[1].name = "GET_meta" /\ list[2].name = "SMEMBERS_chunks"
        BY <3>1 DEF Cmd
      <4>2. \A i \in 1..2 : i = 1 \/ i = 2
        OBVIOUS
      <4> QED BY <4>1, <4>2 DEF Names
    <3>3. MayLeave(op[c], list)
      BY <3>2 DEF MayLeave
    <3> QED BY <1>4, <2>2, <2>4, <2>5, <3>3, LeftOK
  <2>6. StepOf(Asker, list)
    BY <1>1, <1>4, <2>2, <2>3, <2>4, <2>5 DEF StepOf
  <2> QED BY <1>1, <1>5, <2>6, AskerKeeps
<1>9. CASE cmd.name \in {"GET_meta", "SMEMBERS_chunks"}
  <2>1. Continue(c, rest)
    BY <1>4, <1>9 DEF Read
  <2>2. DOMAIN answer' = {"wallet", "chunks"} /\ answer'.wallet \in wrote \cup {NoWallet}
    <3>1. CASE cmd.name = "GET_meta"
      <4>1. answer' = [wallet |-> IF Live(meta.expires) THEN meta.by ELSE NoWallet,
                       chunks |-> FALSE]
        BY <1>4, <3>1 DEF Read
      <4> QED BY <1>6, <4>1 DEF Written
    <3>2. CASE cmd.name = "SMEMBERS_chunks"
      <4>1. answer' = [answer EXCEPT !.chunks = Live(chunks[cmd.model])]
        BY <1>4, <3>2 DEF Read
      <4>2. PICK b : b = Live(chunks[cmd.model])
        OBVIOUS
      <4>3. answer' = [answer EXCEPT !.chunks = b]
        BY <4>1, <4>2
      <4> QED BY <1>6, <4>3 DEF Written
    <3> QED BY <1>9, <3>1, <3>2
  <2>3. Keys
    BY <1>7, <2>2
  <2>4. rest # <<>> => OpOK(c)'
    <3>1. MayLeave(op[c], rest)
      BY <1>3 DEF MayLeave
    <3> QED BY <1>3, <1>4, <2>1, <3>1, LeftOK
  <2>5. StepOf(Asker, rest)
    BY <1>1, <1>3, <1>4, <2>1, <2>3, <2>4 DEF StepOf
  <2> QED BY <1>1, <1>5, <2>5, AskerKeeps
<1> QED BY <1>3, <1>8, <1>9

\* A heartbeat or a removal reads the set.
LEMMA ReadExec ==
    ASSUME TrackerInv, NEW c \in Conn, ~Idle(c), Exec(c), op[c].name \in {"heartbeat", "remove"},
           op[c].todo = Reading
    PROVE  TrackerInv'
<1>1. PICK cmd, rest : cmd = Head(op[c].todo) /\ rest = Tail(op[c].todo)
  OBVIOUS
<1>2. cmd.name = "SMEMBERS_models"
  BY <1>1 DEF Reading, Cmd
<1>3. Read(c, cmd, rest) /\ UNCHANGED <<gone, ops, spoke, wrote, disturbed, now>>
  BY <1>1, <1>2, ReadIs
<1>4. PICK list : list = IF op[c].name = "heartbeat" THEN HeartbeatCmds(PeerModels)
                                                     ELSE RemoveCmds(PeerModels)
  OBVIOUS
<1>5. Continue(c, list) /\ UNCHANGED answer /\ UNCHANGED redis
  BY <1>2, <1>3, <1>4 DEF Read
<1>6. Keys
  BY <1>3, <1>5 DEF TrackerInv, TrackerTypeOK, Keys, Written, redis
<1>7. PeerModels \in SUBSET Model /\ IsFiniteSet(PeerModels)
  BY TrackerNumbers DEF TrackerInv
<1>8. /\ list \in Seq(Command) /\ Len(list) >= 2
      /\ op[c].name = "heartbeat" =>
           /\ Has(list, Cmd("EXPIRE_meta", NoWallet)) /\ Has(list, Cmd("EXPIRE_models", NoWallet))
           /\ \A m \in PeerModels : Has(list, Cmd("ZADD", m)) /\ Has(list, Cmd("EXPIRE_chunks", m))
           /\ Names(list) \subseteq {"EXPIRE_meta", "EXPIRE_models", "ZADD", "EXPIRE_chunks"}
           /\ \A x : Has(list, x) /\ x.name = "ZADD" => x.model \in PeerModels
      /\ op[c].name = "remove" =>
           /\ Has(list, Cmd("DEL_models", NoWallet))
           /\ \A m \in PeerModels : Has(list, Cmd("ZREM", m))
           /\ Names(list) \subseteq {"DEL_meta", "DEL_models", "ZREM", "DEL_chunks"}
  <2>1. CASE op[c].name = "heartbeat"
    <3>1. list = HeartbeatCmds(PeerModels)
      BY <1>4, <2>1
    <3>2. PICK S \in SUBSET Model : S = PeerModels /\ IsFiniteSet(S)
      BY <1>7
    <3>3. list = HeartbeatCmds(S)
      BY <3>1, <3>2
    <3> QED BY <2>1, <3>2, <3>3, HeartbeatList
  <2>2. CASE op[c].name = "remove"
    <3>1. list = RemoveCmds(PeerModels)
      BY <1>4, <2>2
    <3>2. PICK S \in SUBSET Model : S = PeerModels /\ IsFiniteSet(S)
      BY <1>7
    <3>3. list = RemoveCmds(S)
      BY <3>1, <3>2
    <3> QED BY <2>2, <3>2, <3>3, RemoveList
  <2> QED BY <2>1, <2>2
<1>9. list # <<>> /\ list # Reading
  <2>1. Len(<<>>) = 0 /\ Len(Reading) = 1
    BY DEF Reading
  <2>2. Len(list) >= 2
    BY <1>8
  <2>3. list # <<>>
    <3>1. ~(Len(<<>>) >= 2)
      BY <2>1
    <3> QED BY <2>2, <3>1, Zenon
  <2>4. list # Reading
    <3>1. ~(Len(Reading) >= 2)
      BY <2>1
    <3> QED BY <2>2, <3>1, Zenon
  <2> QED BY <2>3, <2>4
<1>10. OpOK(c)'
  <2>1. MayLeave(op[c], list)
    BY <1>8 DEF MayLeave
  <2> QED BY <1>3, <1>5, <1>8, <1>9, <2>1, LeftOK
<1>11. StepOf(c, list)
  BY <1>3, <1>5, <1>6, <1>8, <1>10 DEF StepOf
<1>12. ASSUME ~disturbed PROVE Midway(op[c])'
  <2>1. Settled /\ op[c].at = now
    BY <1>12 DEF TrackerInv, OneByOne, Midway
  <2>2. PICK p : p = [op[c] EXCEPT !.todo = list]
    OBVIOUS
  <2>3. /\ op'[c] = p /\ p.todo = list /\ p.name = op[c].name /\ p.at = now
        /\ shown' = shown
    <3>1. op'[c] = p /\ shown' = shown
      BY <1>5, <1>8, <1>9, <2>2, Continued DEF TrackerInv
    <3> QED BY <2>1, <2>2, <3>1, TrackerNumbers DEF TrackerInv, Op
  <2>4. UNCHANGED <<meta, score, models, chunks, shown, now, wrote>>
    BY <1>3, <1>5, <2>3 DEF redis
  <2>5. ASSUME NEW m \in Model
        PROVE  /\ ShownIsKept(m, shown[m]) /\ (Scored(m) => m \in PeerModels)
               /\ m \in PeerModels => shown[m].at # Never
    <3>1. ShownIsKept(m, shown[m]) /\ KeptIsShown(m, shown[m])
      BY <2>1 DEF Settled
    <3>2. Scored(m) => m \in models.set /\ models.expires > now
      BY <3>1, TrackerNumbers DEF KeptIsShown, Scored, TrackerInv
    <3> QED BY <3>1, <3>2 DEF PeerModels, Live, KeptIsShown
  <2>6. CASE op[c].name = "heartbeat"
    <3>1. Beating(p, shown)
      BY <1>8, <2>3, <2>5, <2>6 DEF Beating, Renewed
    <3>2. Beating(p, shown)'
      BY <2>4, <3>1 DEF Beating, Renewed, Scored, ShownIsKept, PeerModels, Live, Fresh
    <3>3. now' = now
      BY <2>4
    <3> QED BY <1>9, <2>3, <2>6, <3>2, <3>3 DEF Midway
  <2>7. CASE op[c].name = "remove"
    <3>1. Removing(p)
      BY <1>8, <2>3, <2>5, <2>7 DEF Removing
    <3>2. Removing(p)'
      BY <2>4, <3>1 DEF Removing, Scored
    <3>3. now' = now
      BY <2>4
    <3> QED BY <1>9, <2>3, <2>7, <3>2, <3>3 DEF Midway
  <2> QED BY <2>6, <2>7
<1> QED BY <1>9, <1>11, <1>12, ExecKeeps

\* A command that writes, of an operation of the peer.
LEMMA WriteExec ==
    ASSUME TrackerInv, NEW c \in Conn, ~Idle(c), Exec(c),
           op[c].name \in {"announce", "heartbeat", "remove"}, op[c].todo # Reading
    PROVE  TrackerInv'
<1>1. PICK o : o = op[c]
  OBVIOUS
<1>2. /\ o \in Op /\ o.todo \in Seq(Command) /\ o.todo # <<>> /\ o.at <= now
      /\ o.name = "announce" => /\ c \in wrote /\ o.model \in Model /\ o.at <= spoke
                                /\ o.todo \in AnnounceLeft(o)
      /\ o.name = "heartbeat" => /\ o.at <= spoke
                                 /\ Names(o.todo) \subseteq
                                       {"EXPIRE_meta", "EXPIRE_models", "ZADD", "EXPIRE_chunks"}
      /\ o.name = "remove" =>
            Names(o.todo) \subseteq {"DEL_meta", "DEL_models", "ZREM", "DEL_chunks"}
  BY <1>1, TrackerNumbers DEF TrackerInv, OpOK
<1>3. PICK cmd, rest : cmd = Head(o.todo) /\ rest = Tail(o.todo)
  OBVIOUS
<1>4. PICK p : p = [o EXCEPT !.todo = rest]
  OBVIOUS
<1>5. /\ cmd \in Command /\ rest \in Seq(Command) /\ cmd.name \in Names(o.todo)
      /\ Names(rest) \subseteq Names(o.todo) /\ p.todo = rest /\ p.name = o.name
      /\ p.at = o.at /\ p.model = o.model /\ p.held = o.held
  BY <1>2, <1>3, <1>4, HeadGone, HeadName DEF Op
<1>6. /\ o.name = "announce" =>
            /\ rest # <<>> => rest \in AnnounceLeft(o)
            /\ cmd.model = o.model
            /\ cmd.name \in {"SET_meta", "ZADD", "SADD_models", "EXPIRE_models", "PUT_chunks",
                             "DEL_chunks"}
  <2> SUFFICES ASSUME o.name = "announce"
               PROVE  /\ rest # <<>> => rest \in AnnounceLeft(o)
                      /\ cmd.model = o.model
                      /\ cmd.name \in {"SET_meta", "ZADD", "SADD_models", "EXPIRE_models",
                                       "PUT_chunks", "DEL_chunks"}
    OBVIOUS
  <2>1. AtCommand(o, o.todo, cmd)
    BY <1>2, <1>3, AnnounceOrder
  <2>2. Len(o.todo) = 1 \/ Len(o.todo) = 2 \/ Len(o.todo) = 3 \/ Len(o.todo) = 4
        \/ Len(o.todo) = 5
    BY <2>1 DEF AtCommand
  <2>3. cmd.name \in {"SET_meta", "ZADD", "SADD_models", "EXPIRE_models", "PUT_chunks",
                      "DEL_chunks"}
    BY <2>1, <2>2 DEF AtCommand
  <2>4. cmd.model = o.model /\ (rest # <<>> => rest \in AnnounceLeft(o))
    BY <1>3, <2>1 DEF AtCommand
  <2> QED BY <2>3, <2>4
<1>7. /\ o.name = "heartbeat" =>
            cmd.name \in {"EXPIRE_meta", "EXPIRE_models", "ZADD", "EXPIRE_chunks"}
      /\ o.name = "remove" => cmd.name \in {"DEL_meta", "DEL_models", "ZREM", "DEL_chunks"}
  BY <1>2, <1>5
<1>8. /\ WriteSets(c, cmd) \/ WriteKeys(c, cmd)
      /\ Continue(c, rest) /\ UNCHANGED answer
      /\ UNCHANGED <<gone, ops, spoke, wrote, disturbed, now>>
  <2>1. cmd.name \notin {"SMEMBERS_models", "ZRANGEBYSCORE", "GET_meta", "SMEMBERS_chunks"}
    BY <1>1, <1>6, <1>7
  <2> QED BY <1>1, <1>3, <2>1, WriteIs
<1>9. Keys
  BY <1>1, <1>2, <1>5, <1>6, <1>7, <1>8, WritesTyped
<1>10. rest # <<>> => OpOK(c)'
  <2>1. ASSUME rest # <<>> PROVE MayLeave(op[c], rest)
    BY <1>1, <1>2, <1>5, <1>6, <2>1 DEF MayLeave
  <2> QED BY <1>5, <1>8, <2>1, LeftOK
<1>11. StepOf(c, rest)
  BY <1>5, <1>8, <1>9, <1>10 DEF StepOf
<1>12. /\ rest # <<>> => op'[c] = p /\ shown' = shown
       /\ rest = <<>> => shown' = Completed(c)
  BY <1>1, <1>4, <1>5, <1>8, Continued DEF TrackerInv
<1>13. ASSUME ~disturbed
       PROVE  (rest = <<>> => Settled') /\ (rest # <<>> => Midway(op[c])')
  <2>1. /\ o.at = now
        /\ o.name = "announce" => Announcing(o, shown)
        /\ o.name = "heartbeat" => Beating(o, shown)
        /\ o.name = "remove" => Removing(o)
    BY <1>1, <1>13 DEF TrackerInv, OneByOne, Midway
  <2>2. Stepping(c, o, p, cmd)
    BY <1>1, <1>2, <1>3, <1>4, <1>8, <2>1 DEF Stepping
  <2>3. TrackerTypeOK
    BY DEF TrackerInv
  <2>4. PICK s \in Shown : s = shown
    BY <2>3 DEF TrackerTypeOK, Shown
  <2>5. now' = now /\ p.at = now
    BY <1>5, <1>8, <2>1
  <2>6. rest # <<>> /\ o.name \in {"heartbeat", "remove"} => rest # Reading
    <3>1. Names(Reading) = {"SMEMBERS_models"}
      <4>1. Len(Reading) = 1 /\ Reading[1].name = "SMEMBERS_models"
        BY DEF Reading, Cmd
      <4>2. \A i \in 1..1 : i = 1
        OBVIOUS
      <4> QED BY <4>1, <4>2 DEF Names
    <3>2. o.name \in {"heartbeat", "remove"} => "SMEMBERS_models" \notin Names(rest)
      BY <1>2, <1>5
    <3> QED BY <3>1, <3>2
  <2>7. CASE o.name = "announce"
    <3>1. Announcing(p, s)'
      BY <1>2, <2>1, <2>2, <2>3, <2>4, <2>7, Announces
    <3>2. ASSUME rest = <<>> PROVE Settled'
      <4>1. shown' = [s EXCEPT ![p.model] = [at |-> now, held |-> p.held]]
        BY <1>1, <1>5, <1>12, <2>1, <2>4, <2>7, <3>2 DEF Completed
      <4>2. p.todo = <<>> /\ p.model \in Model /\ p.held \in BOOLEAN
        BY <1>2, <1>5, <2>7, <3>2 DEF Op
      <4> QED BY <1>9, <2>3, <2>5, <3>1, <4>1, <4>2, AnnouncesEnd
    <3>3. ASSUME rest # <<>> PROVE Midway(op[c])'
      <4>1. op'[c] = p /\ shown' = s
        BY <1>12, <2>4, <3>3
      <4>2. Announcing(p, shown)'
        BY <3>1, <4>1 DEF Announcing
      <4> QED BY <1>5, <2>5, <2>7, <4>1, <4>2 DEF Midway
    <3> QED BY <3>2, <3>3
  <2>8. CASE o.name = "heartbeat"
    <3>1. Beating(p, s)'
      BY <1>7, <2>1, <2>2, <2>3, <2>4, <2>8, Beats
    <3>2. ASSUME rest = <<>> PROVE Settled'
      <4>1. shown' = [m \in Model |-> IF s[m].at # Never /\ Live(s[m].at + PresenceTTL)
                                      THEN [s[m] EXCEPT !.at = now] ELSE s[m]]
        BY <1>1, <1>12, <2>1, <2>4, <2>8, <3>2 DEF Completed
      <4>2. p.todo = <<>>
        BY <1>5, <3>2
      <4> QED BY <1>9, <2>3, <2>5, <3>1, <4>1, <4>2, BeatsEnd
    <3>3. ASSUME rest # <<>> PROVE Midway(op[c])'
      <4>1. op'[c] = p /\ shown' = s
        BY <1>12, <2>4, <3>3
      <4>2. Beating(p, shown)'
        BY <3>1, <4>1 DEF Beating
      <4> QED BY <1>5, <2>5, <2>6, <2>8, <3>3, <4>1, <4>2 DEF Midway
    <3> QED BY <3>2, <3>3
  <2>9. CASE o.name = "remove"
    <3>1. Removing(p)'
      BY <1>7, <2>1, <2>2, <2>3, <2>9, Removes
    <3>2. ASSUME rest = <<>> PROVE Settled'
      <4>1. shown' = [m \in Model |-> [at |-> Never, held |-> FALSE]]
        BY <1>1, <1>12, <2>9, <3>2 DEF Completed
      <4>2. p.todo = <<>>
        BY <1>5, <3>2
      <4> QED BY <3>1, <4>1, <4>2, RemovesEnd
    <3>3. ASSUME rest # <<>> PROVE Midway(op[c])'
      <4>1. op'[c] = p
        BY <1>12, <3>3
      <4>2. Removing(p)'
        BY <3>1
      <4> QED BY <1>5, <2>5, <2>6, <2>9, <3>3, <4>1, <4>2 DEF Midway
    <3> QED BY <3>2, <3>3
  <2> QED BY <1>1, <2>7, <2>8, <2>9
<1> QED BY <1>11, <1>13, ExecKeeps

LEMMA ExecInv ==
    ASSUME TrackerInv, NEW c \in Conn \cup {Asker}, Exec(c)
    PROVE  TrackerInv'
<1>1. ~Idle(c)
  BY DEF Exec
<1>2. op[c].name \in {"announce", "heartbeat", "remove", "query"}
  BY <1>1, TrackerNumbers DEF TrackerInv, Op, Idle
<1>3. op[c].name # "query" => c \in Conn
  BY <1>2 DEF TrackerInv, OpOK
<1>4. op[c].name = "announce" => op[c].todo # Reading
  BY ZenonT(40), AnnounceOrder DEF TrackerInv, OpOK, AtCommand
<1> QED BY <1>1, <1>2, <1>3, <1>4, QueryExec, ReadExec, WriteExec

-----------------------------------------------------------------------------

\* With nothing under way for the peer, time and messages alone keep what is settled.
LEMMA SettledLater ==
    ASSUME TrackerTypeOK, Settled, UNCHANGED <<redis, shown>>, now' \in Nat, now <= now',
           wrote \subseteq wrote'
    PROVE  Settled'
<1>1. UNCHANGED <<meta, score, models, chunks, shown>>
  BY DEF redis
<1>2. ASSUME NEW m \in Model PROVE ShownIsKept(m, shown[m])' /\ KeptIsShown(m, shown[m])'
  <2>1. ShownIsKept(m, shown[m]) /\ KeptIsShown(m, shown[m])
    BY DEF Settled
  <2>2. /\ now \in Nat /\ PresenceTTL \in Nat /\ score[m] \in Int /\ shown[m].at \in Int
        /\ models.expires \in Nat
    BY TrackerNumbers
  <2>3. ShownIsKept(m, shown[m])'
    <3>1. shown[m].at + PresenceTTL > now' => shown[m].at + PresenceTTL > now
      BY <2>2
    <3> QED BY <1>1, <2>1, <3>1 DEF ShownIsKept
  <2>4. Scored(m)' => Scored(m)
    BY <1>1, <2>2 DEF Scored
  <2>5. m \in PeerModels' => m \in PeerModels
    BY <1>1, <2>2 DEF PeerModels, Live
  <2>6. KeptIsShown(m, shown[m])'
    BY <1>1, <2>1, <2>4, <2>5 DEF KeptIsShown
  <2> QED BY <2>3, <2>6
<1> QED BY <1>2 DEF Settled

\* A message of the peer arrives.
LEMMA MessageKeeps ==
    ASSUME TrackerInv, NEW c \in Conn, NEW name \in {"announce", "heartbeat", "remove"},
           NEW m \in Model \cup {NoWallet}, NEW held \in BOOLEAN, NEW list \in Seq(Command),
           list # <<>>, Start(c, name, m, held, list),
           UNCHANGED <<redis, answer, shown, now>>, wrote \subseteq wrote',
           spoke' \in {spoke, now}, name # "remove" => spoke' = now,
           NEW o, o = [name |-> name, model |-> m, held |-> held, at |-> now, todo |-> list],
           name = "announce" => c \in wrote' /\ m \in Model /\ list \in AnnounceLeft(o),
           name # "announce" => list = Reading,
           Settled' /\ name = "announce" => Announcing(o, shown)'
    PROVE  TrackerInv'
<1>1. /\ op' = [op EXCEPT ![c] = o] /\ Idle(c)
      /\ disturbed' = (disturbed \/ (c # Asker /\ \E d \in Conn : ~Idle(d)))
  BY DEF Start
<1>2. /\ now \in Nat /\ spoke \in Int /\ spoke <= now /\ op \in [Conn \cup {Asker} -> Op]
      /\ \A n \in Model : score[n] \in Int /\ score[n] <= spoke
      /\ disturbed \in BOOLEAN /\ spoke \in Time
  BY TrackerNumbers DEF TrackerInv, TrackerTypeOK
<1>3. /\ o \in Op /\ o.name = name /\ o.model = m /\ o.at = now /\ o.todo = list
  BY <1>2 DEF Op
<1>4. op'[c] = o /\ \A d \in (Conn \cup {Asker}) \ {c} : op'[d] = op[d]
  BY <1>1, <1>2
<1>5. TrackerTypeOK'
  <2>1. op' \in [Conn \cup {Asker} -> Op]
    BY <1>1, <1>2, <1>3
  <2>2. spoke' \in Time /\ spoke' <= now /\ spoke <= spoke' /\ spoke' \in Int
    BY <1>2 DEF Time
  <2>3. UNCHANGED <<meta, score, models, chunks, answer, shown, now>>
    BY DEF redis
  <2>4. \A n \in Model : score'[n] <= spoke'
    BY <1>2, <2>2, <2>3
  <2>5. disturbed' \in BOOLEAN
    BY <1>1, <1>2
  <2> QED BY <2>1, <2>2, <2>3, <2>4, <2>5 DEF TrackerTypeOK, TrackerInv
<1>6. ASSUME NEW d \in Conn \cup {Asker} PROVE OpOK(d)'
  <2>1. CASE d = c
    <3>1. o.name \in {"announce", "heartbeat", "remove"} /\ c \in Conn /\ o.at <= now'
          /\ (o.name # "remove" => o.at <= spoke') /\ o.todo # <<>>
      BY <1>2, <1>3
    <3>2. /\ o.name = "announce" => c \in wrote' /\ o.model \in Model /\ o.todo \in AnnounceLeft(o)
          /\ o.name # "announce" => o.todo = Reading
      BY <1>3
    <3> QED BY <1>4, <2>1, <3>1, <3>2 DEF OpOK
  <2>2. CASE d # c
    <3>1. op'[d] = op[d] /\ OpOK(d) /\ now <= now' /\ now' \in Nat /\ spoke' \in Int
          /\ spoke <= spoke'
      BY <1>2, <1>4, <2>2 DEF TrackerInv
    <3> QED BY <3>1, OpLater DEF TrackerInv
  <2> QED BY <2>1, <2>2
<1>7. Written'
  BY DEF TrackerInv, Written, redis
<1>8. ASSUME ~disturbed' PROVE OneByOne'
  <2>1. ~disturbed /\ \A d \in Conn : Idle(d)
    BY <1>1, <1>8, TrackerAssumption
  <2>2. Settled'
    <3>1. Settled /\ now' \in Nat /\ now <= now' /\ UNCHANGED <<redis, shown>>
      BY <1>2, <2>1 DEF TrackerInv, OneByOne
    <3> QED BY <3>1, SettledLater DEF TrackerInv
  <2>3. Midway(o)'
    <3>1. o.at = now' /\ (o.name # "announce" => o.todo = Reading)
      BY <1>3
    <3> QED BY <1>3, <2>2, <3>1 DEF Midway
  <2>4. Midway(op[c])'
    BY <1>4, <2>3 DEF Midway
  <2>5. \A d \in Conn \ {c} : Idle(d)'
    BY <1>4, <2>1 DEF Idle
  <2>6. ~Idle(c)'
    BY <1>3, <1>4 DEF Idle
  <2> QED BY <2>4, <2>5, <2>6 DEF OneByOne
<1> QED BY <1>5, <1>6, <1>7, <1>8 DEF TrackerInv

LEMMA AnnounceKeeps ==
    ASSUME TrackerInv, NEW c \in Conn, NEW m \in Model, NEW held \in BOOLEAN, Announce(c, m, held)
    PROVE  TrackerInv'
<1>1. PICK list : list = AnnounceCmds(m, held)
  OBVIOUS
<1>2. PICK o : o = [name |-> "announce", model |-> m, held |-> held, at |-> now, todo |-> list]
  OBVIOUS
<1>3. PICK k : k = Cmd(IF held THEN "PUT_chunks" ELSE "DEL_chunks", m)
  OBVIOUS
<1>4. list = <<Cmd("SET_meta", m), Cmd("ZADD", m), Cmd("SADD_models", m),
               Cmd("EXPIRE_models", m), k>>
  BY <1>1, <1>3 DEF AnnounceCmds
<1>5. Len(list) = 5 /\ list # <<>>
  BY <1>4
<1>6. list \in Seq(Command)
  <2>1. /\ "SET_meta" \in CmdName /\ "ZADD" \in CmdName /\ "SADD_models" \in CmdName
        /\ "EXPIRE_models" \in CmdName
        /\ (IF held THEN "PUT_chunks" ELSE "DEL_chunks") \in CmdName
    BY DEF CmdName
  <2>2. /\ Cmd("SET_meta", m) \in Command /\ Cmd("ZADD", m) \in Command
        /\ Cmd("SADD_models", m) \in Command /\ Cmd("EXPIRE_models", m) \in Command
        /\ k \in Command
    BY <1>3, <2>1, CmdType
  <2> HIDE DEF Command
  <2> QED BY <1>4, <2>2
<1>7. list \in AnnounceLeft(o)
  <2>1. o.model = m /\ o.held = held
    BY <1>2
  <2> QED BY <1>3, <1>4, <2>1 DEF AnnounceLeft
<1>8. Settled' => Announcing(o, shown)'
  <2>1. Len(o.todo) = 5
    BY <1>2, <1>5
  <2> QED BY <2>1 DEF Announcing, Settled
<1>9. /\ Start(c, "announce", m, held, list) /\ UNCHANGED <<redis, answer, shown, now>>
      /\ spoke' = now /\ wrote' = wrote \cup {c}
  BY <1>1 DEF Announce
<1>10. wrote \subseteq wrote' /\ c \in wrote' /\ spoke' \in {spoke, now}
  BY <1>9
<1> QED BY <1>2, <1>5, <1>6, <1>7, <1>8, <1>9, <1>10, MessageKeeps

LEMMA ReadingType == Reading \in Seq(Command) /\ Reading # <<>>
<1>1. "SMEMBERS_models" \in CmdName
  BY DEF CmdName
<1>2. Cmd("SMEMBERS_models", NoWallet) \in Command
  BY <1>1, CmdType
<1> QED BY <1>2 DEF Reading

LEMMA ReadingStarts ==
    ASSUME TrackerInv, NEW c \in Conn, Heartbeat(c) \/ RemovePeer(c)
    PROVE  TrackerInv'
<1>1. PICK name \in {"heartbeat", "remove"} :
         /\ Start(c, name, NoWallet, FALSE, Reading) /\ UNCHANGED <<redis, answer, shown, now>>
         /\ wrote' = wrote /\ spoke' \in {spoke, now} /\ (name # "remove" => spoke' = now)
  BY DEF Heartbeat, RemovePeer, Reading
<1>2. PICK o : o = [name |-> name, model |-> NoWallet, held |-> FALSE, at |-> now, todo |-> Reading]
  OBVIOUS
<1>3. name \in {"announce", "heartbeat", "remove"} /\ name # "announce"
      /\ NoWallet \in Model \cup {NoWallet} /\ FALSE \in BOOLEAN /\ wrote \subseteq wrote'
  BY <1>1
<1> QED BY <1>1, <1>2, <1>3, ReadingType, MessageKeeps

\* Nothing changes for the peer but that time may go by.
LEMMA OthersKeep ==
    ASSUME TrackerInv, UNCHANGED <<redis, answer, shown, spoke, wrote>>, now' \in Nat,
           now <= now', now' <= MaxTime,
           op' \in [Conn \cup {Asker} -> Op], disturbed' \in BOOLEAN,
           \A d \in Conn \cup {Asker} : op'[d] = op[d] \/ OpOK(d)',
           disturbed => disturbed',
           ~disturbed' => /\ \A d \in Conn : op'[d] = op[d]
                          /\ now' = now \/ \A d \in Conn : Idle(d)
    PROVE  TrackerInv'
<1>1. UNCHANGED <<meta, score, models, chunks, answer, shown, spoke, wrote>>
  BY DEF redis
<1>2. now \in Nat /\ spoke \in Int /\ MaxTime \in Nat /\ spoke <= now
      /\ \A m \in Model : shown[m].at \in Int /\ shown[m].at <= now
  BY TrackerNumbers DEF TrackerInv
<1>3. TrackerTypeOK'
  <2>1. spoke' <= now' /\ \A m \in Model : shown'[m].at <= now'
    BY <1>1, <1>2
  <2> QED BY <1>1, <2>1 DEF TrackerInv, TrackerTypeOK
<1>4. ASSUME NEW d \in Conn \cup {Asker}, op'[d] = op[d] PROVE OpOK(d)'
  <2>1. OpOK(d) /\ spoke' \in Int /\ spoke <= spoke' /\ wrote \subseteq wrote'
    BY <1>1, <1>2 DEF TrackerInv
  <2> QED BY <1>4, <2>1, OpLater DEF TrackerInv
<1>5. Written'
  BY <1>1 DEF TrackerInv, Written
<1>6. ASSUME ~disturbed' PROVE OneByOne'
  <2>1. ~disturbed /\ OneByOne /\ \A d \in Conn : op'[d] = op[d]
    BY <1>6 DEF TrackerInv
  <2>2. \A d \in Conn : Idle(d)' <=> Idle(d)
    BY <2>1 DEF Idle
  <2>3. Settled => Settled'
    BY <1>1, SettledLater DEF TrackerInv
  <2>4. ASSUME NEW d \in Conn, ~Idle(d) PROVE Midway(op[d])'
    <3>1. PICK o : o = op[d]
      OBVIOUS
    <3>2. op'[d] = o /\ Midway(o)
      BY <2>1, <2>4, <3>1 DEF OneByOne
    <3>3. now' = now
      BY <1>6, <2>4
    <3>4. Midway(o)'
      BY <1>1, <3>2, <3>3, MidwayStays
    <3> QED BY <3>2, <3>4 DEF Midway
  <2> QED BY <2>1, <2>2, <2>3, <2>4 DEF OneByOne
<1> QED BY <1>3, <1>4, <1>5, <1>6 DEF TrackerInv

LEMMA QueryKeeps ==
    ASSUME TrackerInv, NEW m \in Model, Query(m)
    PROVE  TrackerInv'
<1>1. PICK list : list = <<Cmd("ZRANGEBYSCORE", m)>>
  OBVIOUS
<1>2. PICK o : o = [name |-> "query", model |-> m, held |-> FALSE, at |-> now, todo |-> list]
  OBVIOUS
<1>3. /\ op' = [op EXCEPT ![Asker] = o] /\ disturbed' = disturbed
      /\ UNCHANGED <<redis, answer, spoke, wrote, shown, now>>
  <2>1. Start(Asker, "query", m, FALSE, list)
        /\ UNCHANGED <<redis, answer, spoke, wrote, shown, now>>
    BY <1>1 DEF Query
  <2>2. op' = [op EXCEPT ![Asker] = o]
    BY <1>2, <2>1 DEF Start
  <2>3. disturbed' = (disturbed \/ FALSE)
    BY <2>1 DEF Start
  <2>4. disturbed \in BOOLEAN
    BY DEF TrackerInv, TrackerTypeOK
  <2> QED BY <2>1, <2>2, <2>3, <2>4
<1>4. now \in Nat /\ now <= MaxTime /\ op \in [Conn \cup {Asker} -> Op] /\ disturbed \in BOOLEAN
  BY DEF TrackerInv, TrackerTypeOK
<1>5. list \in Seq(Command) /\ list # <<>> /\ Names(list) = {"ZRANGEBYSCORE"}
  <2>1. "ZRANGEBYSCORE" \in CmdName
    BY DEF CmdName
  <2>2. Cmd("ZRANGEBYSCORE", m) \in Command /\ Cmd("ZRANGEBYSCORE", m).name = "ZRANGEBYSCORE"
    BY <2>1, CmdType
  <2>3. Len(list) = 1 /\ list[1].name = "ZRANGEBYSCORE"
    BY <1>1, <2>2
  <2>4. \A i \in 1..1 : i = 1
    OBVIOUS
  <2> QED BY <1>1, <2>2, <2>3, <2>4 DEF Names
<1>6. /\ o \in Op /\ o.name = "query" /\ o.at = now /\ o.todo = list
  BY <1>2, <1>4, <1>5 DEF Op
<1>7. op' \in [Conn \cup {Asker} -> Op] /\ op'[Asker] = o
      /\ \A d \in Conn : op'[d] = op[d]
  BY <1>3, <1>4, <1>6, TrackerAssumption
<1>8. OpOK(Asker)'
  BY <1>3, <1>4, <1>5, <1>6, <1>7 DEF OpOK
<1> QED BY <1>3, <1>4, <1>7, <1>8, OthersKeep

LEMMA CutKeeps ==
    ASSUME TrackerInv, NEW c \in Conn \cup {Asker}, CutShort(c)
    PROVE  TrackerInv'
<1>1. /\ disturbed' = (disturbed \/ c # Asker)
      /\ UNCHANGED <<redis, answer, spoke, wrote, shown, now>>
  BY DEF CutShort
<1>2. now \in Nat /\ now <= MaxTime /\ op \in [Conn \cup {Asker} -> Op] /\ disturbed \in BOOLEAN
  BY DEF TrackerInv, TrackerTypeOK
<1>3. Quiet \in Op /\ Quiet.name = "none" /\ Quiet.at = 0
  BY EmptySeq DEF Quiet, Op
<1>4. op' \in [Conn \cup {Asker} -> Op] /\ OpOK(c)'
      /\ \A d \in (Conn \cup {Asker}) \ {c} : op'[d] = op[d]
  <2>1. CASE op' = [op EXCEPT ![c] = Quiet]
    <3>1. op'[c] = Quiet
      BY <1>2, <2>1
    <3> QED BY <1>1, <1>2, <1>3, <2>1, <3>1 DEF OpOK
  <2>2. CASE op[c].name = "remove" /\ op' = [op EXCEPT ![c].todo = RemoveCmds({})]
    <3>1. PICK list : list = RemoveCmds({})
      OBVIOUS
    <3>2. /\ list \in Seq(Command) /\ Len(list) >= 2
          /\ Names(list) \subseteq {"DEL_meta", "DEL_models", "ZREM", "DEL_chunks"}
      <4>1. {} \in SUBSET Model /\ IsFiniteSet({})
        BY FS_EmptySet
      <4> QED BY <3>1, <4>1, RemoveList
    <3>3. list # <<>>
      <4>1. ~(Len(<<>>) >= 2)
        OBVIOUS
      <4> QED BY <3>2, <4>1, Zenon
    <3>4. PICK p : p = [op[c] EXCEPT !.todo = list]
      OBVIOUS
    <3>5. op[c] \in Op /\ op[c].at <= now /\ c \in Conn
      BY <1>2, <2>2 DEF TrackerInv, OpOK
    <3>6. p \in Op /\ p.name = "remove" /\ p.at <= now /\ p.todo = list
      BY <2>2, <3>2, <3>4, <3>5 DEF Op
    <3>7. op' = [op EXCEPT ![c] = p]
      BY <1>2, <2>2, <3>1, <3>4
    <3>8. op'[c] = p /\ \A d \in (Conn \cup {Asker}) \ {c} : op'[d] = op[d]
      BY <1>2, <3>7
    <3>9. op' \in [Conn \cup {Asker} -> Op]
      BY <1>2, <3>6, <3>7
    <3>10. OpOK(c)'
      BY <1>1, <3>2, <3>3, <3>5, <3>6, <3>8 DEF OpOK
    <3> QED BY <3>8, <3>9, <3>10
  <2> QED BY <2>1, <2>2 DEF CutShort
<1>5. disturbed' \in BOOLEAN /\ (disturbed => disturbed')
      /\ (~disturbed' => \A d \in Conn : op'[d] = op[d])
  BY <1>1, <1>2, <1>4, TrackerAssumption
<1> QED BY <1>1, <1>2, <1>4, <1>5, OthersKeep

LEMMA TickKeeps ==
    ASSUME TrackerInv, TrackerTick
    PROVE  TrackerInv'
<1>1. /\ now < MaxTime /\ now' = now + 1
      /\ disturbed' = (disturbed \/ \E c \in Conn : ~Idle(c))
      /\ UNCHANGED <<redis, op, answer, spoke, wrote, shown>>
  BY DEF TrackerTick, Tick
<1>2. now \in Nat /\ MaxTime \in Nat
  BY TrackerNumbers DEF TrackerInv
<1>3. op \in [Conn \cup {Asker} -> Op] /\ disturbed \in BOOLEAN
  BY DEF TrackerInv, TrackerTypeOK
<1>4. now' \in Nat /\ now <= now' /\ now' <= MaxTime
  BY <1>1, <1>2
<1>5. disturbed' \in BOOLEAN /\ (disturbed => disturbed')
      /\ (~disturbed' => \A d \in Conn : Idle(d))
  BY <1>1, <1>3
<1> QED BY <1>1, <1>3, <1>4, <1>5, OthersKeep

LEMMA TrackerStep == TrackerInv /\ [TrackerNext]_<<trackerVars, now>> => TrackerInv'
<1> SUFFICES ASSUME TrackerInv, [TrackerNext]_<<trackerVars, now>> PROVE TrackerInv'
  OBVIOUS
<1>1. ASSUME NEW c \in Conn, NEW m \in Model, NEW held \in BOOLEAN, Announce(c, m, held)
      PROVE  TrackerInv'
  BY <1>1, AnnounceKeeps
<1>2. ASSUME NEW c \in Conn, Heartbeat(c) \/ RemovePeer(c) PROVE TrackerInv'
  BY <1>2, ReadingStarts
<1>3. ASSUME NEW m \in Model, Query(m) PROVE TrackerInv'
  BY <1>3, QueryKeeps
<1>4. ASSUME NEW c \in Conn \cup {Asker}, Exec(c) PROVE TrackerInv'
  BY <1>4, ExecInv
<1>5. ASSUME NEW c \in Conn \cup {Asker}, CutShort(c) PROVE TrackerInv'
  BY <1>5, CutKeeps
<1>6. CASE TrackerTick
  BY <1>6, TickKeeps
<1>7. CASE UNCHANGED <<trackerVars, now>>
  <2>1. UNCHANGED <<redis, op, answer, spoke, wrote, shown, disturbed, now>>
    BY <1>7 DEF trackerVars
  <2>2. now \in Nat /\ now <= MaxTime /\ op \in [Conn \cup {Asker} -> Op] /\ disturbed \in BOOLEAN
    BY DEF TrackerInv, TrackerTypeOK
  <2> QED BY <2>1, <2>2, OthersKeep
<1> QED BY <1>1, <1>2, <1>3, <1>4, <1>5, <1>6, <1>7 DEF TrackerNext

LEMMA TrackerInvCorrect == TrackerInv => TrackerCorrect
<1> SUFFICES ASSUME TrackerInv PROVE TrackerCorrect
  OBVIOUS
<1>1. /\ now \in Nat /\ PresenceTTL \in Nat \ {0} /\ Never = -1 /\ spoke \in Int /\ spoke <= now
      /\ \A m \in Model : score[m] \in Int /\ score[m] <= spoke /\ shown[m].at \in Int
  BY TrackerNumbers DEF TrackerInv
<1>2. SilentIsUnlisted
  <2>1. ASSUME NEW m \in Model, Listed(m, now) PROVE spoke # Never /\ now <= spoke + PresenceTTL
    <3>1. score[m] # Never /\ score[m] >= now - PresenceTTL /\ score[m] \in Time
      BY <2>1 DEF Listed, TrackerInv, TrackerTypeOK
    <3>2. score[m] >= 0 /\ score[m] <= spoke
      BY <1>1, <3>1 DEF Time
    <3> QED BY <1>1, <3>1, <3>2
  <2> QED BY <1>1, <2>1 DEF SilentIsUnlisted, Stats
<1>3. UndisturbedAgrees
  <2> SUFFICES ASSUME ~disturbed, \A c \in Conn : Idle(c), NEW m \in Model
               PROVE  /\ shown[m].at # Never /\ Live(shown[m].at + PresenceTTL) =>
                            /\ Listed(m, now)
                            /\ Live(meta.expires) /\ meta.by \in wrote
                            /\ shown[m].held => Live(chunks[m])
                            /\ m \in PeerModels
                      /\ shown[m].at = Never => ~Listed(m, now + 1)
    BY DEF UndisturbedAgrees
  <2>1. ShownIsKept(m, shown[m]) /\ KeptIsShown(m, shown[m])
    BY DEF TrackerInv, OneByOne, Settled
  <2>2. /\ meta.expires \in Nat /\ models.expires \in Nat /\ chunks[m] \in Nat
        /\ score[m] \in Time /\ shown[m].at \in Time
    BY DEF TrackerInv, TrackerTypeOK
  <2>3. ASSUME shown[m].at # Never, Live(shown[m].at + PresenceTTL)
        PROVE  /\ Listed(m, now) /\ Live(meta.expires) /\ meta.by \in wrote
               /\ shown[m].held => Live(chunks[m])
               /\ m \in PeerModels
    <3>1. /\ shown[m].at + PresenceTTL > now /\ score[m] >= shown[m].at
          /\ m \in models.set /\ models.expires >= shown[m].at + PresenceTTL
          /\ meta.by \in wrote /\ meta.expires >= shown[m].at + PresenceTTL
          /\ shown[m].held => chunks[m] >= shown[m].at + PresenceTTL
      BY <2>1, <2>3 DEF ShownIsKept, Live
    <3>2. shown[m].at >= 0
      BY <1>1, <2>2, <2>3 DEF Time
    <3>3. score[m] # Never /\ score[m] >= now - PresenceTTL
      BY <1>1, <2>2, <3>1, <3>2
    <3>4. models.expires > now /\ meta.expires > now /\ (shown[m].held => chunks[m] > now)
      BY <1>1, <2>2, <3>1
    <3> QED BY <3>1, <3>3, <3>4 DEF Listed, Live, PeerModels
  <2>4. ASSUME shown[m].at = Never, Listed(m, now + 1) PROVE FALSE
    <3>1. score[m] # Never /\ score[m] + PresenceTTL > now
      BY <1>1, <2>4 DEF Listed
    <3>2. m \in models.set /\ models.expires >= score[m] + PresenceTTL
      BY <2>1, <3>1 DEF KeptIsShown, Scored
    <3>3. m \in PeerModels
      BY <1>1, <2>2, <3>1, <3>2 DEF PeerModels, Live
    <3> QED BY <2>1, <2>4, <3>3 DEF KeptIsShown
  <2> QED BY <2>3, <2>4
<1>4. AnswerHasAnnouncer
  BY DEF TrackerInv, Written, AnswerHasAnnouncer
<1> QED BY <1>2, <1>3, <1>4 DEF TrackerCorrect

\* Whatever connections a peer has had and however their pipelines of commands interleave,
\* fail in the middle or lose keys to expiry (redis_tracker.go): no model lists a peer that
\* has been silent for longer than the TTL; as long as one operation on the peer follows the
\* other, Redis agrees with the tracker in memory; and an answer names an announcer's wallet.
THEOREM SharedTrackerCorrect == TrackerSpec => []TrackerCorrect
<1>1. now = 0 /\ TrackerInit => TrackerInv
  BY TrackerStarts
<1>2. TrackerInv /\ [TrackerNext]_<<trackerVars, now>> => TrackerInv'
  BY TrackerStep
<1>3. TrackerInv => TrackerCorrect
  BY TrackerInvCorrect
<1> QED BY <1>1, <1>2, <1>3, PTL DEF TrackerSpec
=============================================================================
