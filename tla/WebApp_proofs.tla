-------------------------- MODULE WebApp_proofs --------------------------
(***************************************************************************)
(* The components of the web application keep their promises, for any      *)
(* values of the constants.                                                *)
(*                                                                         *)
(* Asking for seeders.  A call that waits without the entry lost it to the *)
(* timer of an earlier call; the timers run out in order, so no such timer *)
(* is left to a call that was made alone.                                  *)
(*                                                                         *)
(* Seeding from a tab.  Of a model that was started once one seeder at most *)
(* is on; the ref of a page is the seeder of its model that the map has, or *)
(* the one it waits for, so that Stop reaches it; a seeder is off only when *)
(* its model was quit.                                                     *)
(*                                                                         *)
(* Publishing.  Pieces a handler has read are all that will ever be stored *)
(* under their model ID, as only the last ID is being filled and the wizard *)
(* has no pieces meanwhile; and what the handlers have read is what the    *)
(* wizard shows, unless a change was noted.                                *)
(*                                                                         *)
(* Downloading.  Unless a run was started beside one that nobody can stop, *)
(* there is at most one; what was paid for and not lost is stored, and     *)
(* held by the run, or is the piece it is at; what a run holds is stored   *)
(* until the storage is cleared.                                           *)
(*                                                                         *)
(* Listing.  A model is registered once, and what else happens to it on    *)
(* chain happens while it is active; so the indexer has its entity before  *)
(* an event needs it, and counts one by one the members of the sets of     *)
(* which its counters are the sizes.  An answer has what the indexer knew  *)
(* when it was asked for, and a list what was known before the answer's    *)
(* travel and its stay in the cache.                                       *)
(***************************************************************************)
EXTENDS SeederQuery, BrowserSeeding, UploadWizard, DownloadFlow, Catalogue, SumTheorems,
        SequenceTheorems, FiniteSetTheorems, TLAPS

-----------------------------------------------------------------------------
(* Asking for seeders.                                                     *)

Query == [by : {"download", "panel", "mesh"}, got : {"nothing", "empty", "seeders"},
          listens : BOOLEAN, sent : BOOLEAN, fired : BOOLEAN, alone : BOOLEAN]

\* The types.
QueryTypeOK ==
    /\ online \in BOOLEAN
    /\ queries \in Seq(Query)
    /\ pending \in 0..Len(queries)
    /\ unanswered \in Nat

\* The entry is the last call's, which waits; whoever waits without it lost it to
\* the timer of an earlier call that was running when it was made.
Waiting ==
    /\ pending # 0 => pending = Len(queries) /\ queries[pending].got = "nothing"
    /\ \A q \in 1..Len(queries) :
          queries[q].got = "nothing" /\ q # pending =>
              ~queries[q].alone /\ \E p \in 1..(q - 1) : queries[p].fired

\* Timers run out in order: before a call that was made alone all others' have.
Fired ==
    \A q \in 1..Len(queries) :
        /\ queries[q].alone => \A p \in 1..(q - 1) : queries[p].fired
        /\ queries[q].alone /\ queries[q].fired => queries[q].got # "nothing"

\* What was sent was sent on this socket.
OnTheSocket ==
    /\ \A q \in 1..Len(queries) : queries[q].sent => online
    /\ pending # 0 /\ online /\ queries[pending].sent => unanswered > 0

QueryInv == QueryTypeOK /\ Waiting /\ Fired /\ OnTheSocket

LEMMA QueryTypes ==
    ASSUME QueryTypeOK
    PROVE  /\ Len(queries) \in Nat /\ DOMAIN queries = 1..Len(queries)
           /\ \A q \in 1..Len(queries) : queries[q] \in Query
BY ElementOfSeq, LenProperties DEF QueryTypeOK

\* The calls of one state and the next, one by one: a call may settle or fire.
LEMMA SameCalls ==
    ASSUME QueryTypeOK, NEW R, \A q \in 1..Len(queries) : R[q] \in Query,
           R = [q \in 1..Len(queries) |-> R[q]]
    PROVE  R \in Seq(Query) /\ Len(R) = Len(queries)
<1>1. Len(queries) \in Nat
  BY QueryTypes
<1>2. R \in [1..Len(queries) -> Query]
  OBVIOUS
<1> QED BY <1>1, <1>2, SeqDef, LenProperties

\* What Settle makes of the calls.
LEMMA Settled ==
    ASSUME QueryTypeOK, NEW got \in {"empty", "seeders"}, NEW R, R = Settle(pending, got)
    PROVE  /\ R \in Seq(Query) /\ Len(R) = Len(queries)
           /\ \A q \in 1..Len(queries) :
                 /\ R[q].alone = queries[q].alone /\ R[q].fired = queries[q].fired
                 /\ R[q].sent = queries[q].sent
                 /\ q # pending => R[q] = queries[q]
                 /\ q = pending => R[q].got # "nothing"
<1>1. /\ Len(queries) \in Nat /\ DOMAIN queries = 1..Len(queries)
      /\ \A q \in 1..Len(queries) : queries[q] \in Query
  BY QueryTypes
<1>2. CASE pending = 0
  <2>1. R = queries
    BY <1>2 DEF Settle
  <2> QED BY <1>1, <1>2, <2>1 DEF QueryTypeOK
<1>3. CASE pending # 0
  <2> DEFINE p == pending
             new == [queries[p] EXCEPT !.got = IF @ = "nothing" THEN got ELSE @, !.listens = FALSE]
  <2>1. p \in 1..Len(queries) /\ queries[p] \in Query
    BY <1>1, <1>3 DEF QueryTypeOK
  <2>2. /\ new \in Query /\ new.got # "nothing"
        /\ new.alone = queries[p].alone /\ new.fired = queries[p].fired /\ new.sent = queries[p].sent
    BY <2>1 DEF Query
  <2>3. R = [queries EXCEPT ![p] = new]
    BY <1>1, <1>3, <2>1 DEF Settle, Query
  <2> HIDE DEF new, p
  <2>4. R \in Seq(Query) /\ Len(R) = Len(queries)
    BY <2>1, <2>2, <2>3, ExceptSeq DEF QueryTypeOK
  <2>5. \A q \in 1..Len(queries) : R[q] = IF q = p THEN new ELSE queries[q]
    BY <1>1, <2>3
  <2> QED BY <2>2, <2>4, <2>5 DEF p
<1> QED BY <1>2, <1>3

LEMMA QuerySeedersStep ==
    ASSUME QueryInv, NEW by \in {"download", "panel", "mesh"}, QuerySeeders(by)
    PROVE  QueryInv'
<1> DEFINE n == Len(queries)
           R == Replaced
           c == Call(by)
<1>1. /\ queries' = Append(R, c) /\ pending' = n + 1 /\ online' = online
      /\ unanswered' = IF online THEN unanswered + 1 ELSE unanswered
  BY DEF QuerySeeders
<1>2. /\ R \in Seq(Query) /\ Len(R) = n
      /\ \A q \in 1..n :
            /\ R[q].alone = queries[q].alone /\ R[q].fired = queries[q].fired
            /\ R[q].sent = queries[q].sent
            /\ q # pending => R[q] = queries[q]
            /\ q = pending => R[q].got # "nothing"
  BY Settled DEF Replaced, QueryInv
<1>3. n \in Nat /\ DOMAIN queries = 1..n /\ online \in BOOLEAN /\ unanswered \in Nat
  BY QueryTypes DEF QueryInv, QueryTypeOK
<1>4. /\ c \in Query /\ c.got = "nothing" /\ c.sent = online /\ c.fired = FALSE
      /\ c.alone => \A q \in 1..n : queries[q].fired
  <2>1. (\A q \in DOMAIN queries : queries[q].fired) \in BOOLEAN /\ (~online) \in BOOLEAN
    BY <1>3
  <2>2. c \in Query /\ c.got = "nothing" /\ c.sent = online /\ c.fired = FALSE
    BY <1>3, <2>1 DEF Call, Query
  <2>3. c.alone <=> \A q \in DOMAIN queries : queries[q].fired
    BY <2>1 DEF Call
  <2> QED BY <1>3, <2>2, <2>3
<1> HIDE DEF R, c, n
<1>5. /\ queries' \in Seq(Query) /\ Len(queries') = n + 1
      /\ \A q \in 1..n : queries'[q] = R[q]
      /\ queries'[n + 1] = c
  BY <1>1, <1>2, <1>4, AppendProperties
<1>6. \A q \in 1..Len(queries') : (q \in 1..n /\ q # n + 1) \/ q = n + 1
  BY <1>3, <1>5
<1>7. \A q \in 1..n : \A p \in 1..(q - 1) : p \in 1..n
  BY <1>3
<1>8. \A p \in 1..((n + 1) - 1) : p \in 1..n
  BY <1>3
<1>9. QueryTypeOK'
  BY <1>1, <1>3, <1>5 DEF QueryTypeOK
<1>10. Waiting'
  <2>1. pending' = Len(queries') /\ queries'[pending'].got = "nothing"
    BY <1>1, <1>4, <1>5
  <2>2. ASSUME NEW q \in 1..n, queries'[q].got = "nothing"
        PROVE  ~queries'[q].alone /\ \E p \in 1..(q - 1) : queries'[p].fired
    <3>1. q # pending /\ queries[q].got = "nothing" /\ R[q] = queries[q]
      BY <1>2, <1>5, <2>2
    <3>2. ~queries[q].alone /\ \E p \in 1..(q - 1) : queries[p].fired
      BY <3>1 DEF QueryInv, Waiting, n
    <3> QED BY <1>2, <1>5, <1>7, <3>1, <3>2
  <2> QED BY <1>1, <1>6, <2>1, <2>2 DEF Waiting
<1>11. Fired'
  <2>1. ASSUME NEW q \in 1..n
        PROVE  /\ queries'[q].alone => \A p \in 1..(q - 1) : queries'[p].fired
               /\ queries'[q].alone /\ queries'[q].fired => queries'[q].got # "nothing"
    <3>1. /\ queries[q].alone => \A p \in 1..(q - 1) : queries[p].fired
          /\ queries[q].alone /\ queries[q].fired => queries[q].got # "nothing"
      BY DEF QueryInv, Fired, n
    <3> QED BY <1>2, <1>5, <1>7, <3>1
  <2>2. /\ queries'[n + 1].alone => \A p \in 1..((n + 1) - 1) : queries'[p].fired
        /\ ~queries'[n + 1].fired
    BY <1>2, <1>4, <1>5, <1>8
  <2> QED BY <1>6, <2>1, <2>2 DEF Fired
<1>12. OnTheSocket'
  <2>1. \A q \in 1..n : queries[q].sent => online
    BY DEF QueryInv, OnTheSocket, n
  <2>2. \A q \in 1..Len(queries') : queries'[q].sent => online'
    BY <1>1, <1>2, <1>4, <1>5, <1>6, <2>1
  <2>3. online' => unanswered' > 0
    BY <1>1, <1>3
  <2> QED BY <2>2, <2>3 DEF OnTheSocket
<1> QED BY <1>9, <1>10, <1>11, <1>12 DEF QueryInv

LEMMA OnSeedersStep ==
    ASSUME QueryInv, NEW got \in {"empty", "seeders"}, OnSeeders(got)
    PROVE  QueryInv'
<1> DEFINE n == Len(queries)
<1>1. /\ queries' = Settle(pending, got) /\ pending' = 0 /\ online' = online
      /\ unanswered' = unanswered - 1 /\ unanswered > 0
  BY DEF OnSeeders
<1>2. /\ queries' \in Seq(Query) /\ Len(queries') = n
      /\ \A q \in 1..n :
            /\ queries'[q].alone = queries[q].alone /\ queries'[q].fired = queries[q].fired
            /\ queries'[q].sent = queries[q].sent
            /\ q # pending => queries'[q] = queries[q]
            /\ q = pending => queries'[q].got # "nothing"
  BY <1>1, Settled DEF QueryInv
<1>3. n \in Nat /\ online \in BOOLEAN /\ unanswered \in Nat
  BY QueryTypes DEF QueryInv, QueryTypeOK
<1> HIDE DEF n
<1>4. \A q \in 1..n : \A p \in 1..(q - 1) : p \in 1..n
  BY <1>3
<1>5. QueryTypeOK'
  BY <1>1, <1>2, <1>3 DEF QueryTypeOK
<1>6. Waiting'
  <2>1. ASSUME NEW q \in 1..n, queries'[q].got = "nothing"
        PROVE  ~queries'[q].alone /\ \E p \in 1..(q - 1) : queries'[p].fired
    <3>1. q # pending /\ queries[q].got = "nothing"
      BY <1>2, <2>1
    <3>2. ~queries[q].alone /\ \E p \in 1..(q - 1) : queries[p].fired
      BY <3>1 DEF QueryInv, Waiting, n
    <3> QED BY <1>2, <1>4, <3>2
  <2> QED BY <1>1, <1>2, <2>1 DEF Waiting
<1>7. Fired'
  <2> SUFFICES ASSUME NEW q \in 1..n
               PROVE  /\ queries'[q].alone => \A p \in 1..(q - 1) : queries'[p].fired
                      /\ queries'[q].alone /\ queries'[q].fired => queries'[q].got # "nothing"
    BY <1>2 DEF Fired
  <2>1. /\ queries[q].alone => \A p \in 1..(q - 1) : queries[p].fired
        /\ queries[q].alone /\ queries[q].fired => queries[q].got # "nothing"
    BY DEF QueryInv, Fired, n
  <2> QED BY <1>2, <1>4, <2>1
<1>8. OnTheSocket'
  <2>1. \A q \in 1..n : queries[q].sent => online
    BY DEF QueryInv, OnTheSocket, n
  <2> QED BY <1>1, <1>2, <2>1 DEF OnTheSocket
<1> QED BY <1>5, <1>6, <1>7, <1>8 DEF QueryInv

LEMMA OnTimeoutStep ==
    ASSUME QueryInv, NEW t, OnTimeout(t)
    PROVE  QueryInv'
<1> DEFINE n == Len(queries)
           new == [queries[t] EXCEPT !.fired = TRUE,
                                     !.got = IF pending # 0 /\ @ = "nothing" THEN "empty" ELSE @]
<1>1. /\ n \in Nat /\ DOMAIN queries = 1..n
      /\ \A q \in 1..n : queries[q] \in Query
      /\ online \in BOOLEAN /\ unanswered \in Nat /\ queries \in Seq(Query) /\ pending \in 0..n
  BY QueryTypes DEF QueryInv, QueryTypeOK
<1>2. /\ t \in 1..n /\ ~queries[t].fired
      /\ \A p \in 1..(t - 1) : queries[p].fired
      /\ pending' = 0 /\ online' = online /\ unanswered' = unanswered
  BY <1>1 DEF OnTimeout
<1>3. /\ new \in Query /\ new.fired /\ new.alone = queries[t].alone /\ new.sent = queries[t].sent
      /\ queries[t].got # "nothing" => new.got # "nothing"
      /\ pending # 0 => new.got # "nothing"
  BY <1>1, <1>2 DEF Query
<1>4. queries' = [queries EXCEPT ![t] = new]
  BY <1>1, <1>2 DEF OnTimeout, Query
<1> HIDE DEF new, n
<1>5. queries' \in Seq(Query) /\ Len(queries') = n
  BY <1>1, <1>2, <1>3, <1>4, ExceptSeq DEF n
<1>6. \A q \in 1..n : queries'[q] = IF q = t THEN new ELSE queries[q]
  BY <1>1, <1>4
<1>7. \A q \in 1..n : /\ queries'[q].alone = queries[q].alone /\ queries'[q].sent = queries[q].sent
                      /\ queries[q].fired => queries'[q].fired
                      /\ q # t => queries'[q] = queries[q]
  BY <1>3, <1>6
<1>8. \A q \in 1..n : \A p \in 1..(q - 1) : p \in 1..n
  BY <1>1
<1>9. QueryTypeOK'
  BY <1>1, <1>2, <1>5 DEF QueryTypeOK
\* A call that was made alone fires only after all the earlier ones.
<1>10. ASSUME NEW q \in 1..n, queries[q].got = "nothing", queries'[q].got = "nothing"
       PROVE  ~queries'[q].alone /\ \E p \in 1..(q - 1) : queries'[p].fired
  <2>1. CASE q # pending
    <3>1. ~queries[q].alone /\ \E p \in 1..(q - 1) : queries[p].fired
      BY <1>10, <2>1 DEF QueryInv, Waiting, n
    <3> QED BY <1>7, <1>8, <3>1
  <2>2. CASE q = pending
    <3>1. q = n /\ pending # 0
      <4>1. pending # 0
        BY <1>1, <2>2
      <4>2. pending # 0 => pending = n
        BY DEF QueryInv, Waiting, n
      <4> QED BY <2>2, <4>1, <4>2
    <3>2. q # t
      BY <1>3, <1>6, <1>10, <3>1
    <3>3. t \in 1..(q - 1)
      BY <1>1, <1>2, <3>1, <3>2
    <3>4. ~queries[q].alone
      BY <1>2, <3>3 DEF QueryInv, Fired, n
    <3>5. queries'[t].fired
      BY <1>2, <1>3, <1>6
    <3> QED BY <1>7, <3>3, <3>4, <3>5
  <2> QED BY <2>1, <2>2
<1>11. \A q \in 1..n : queries'[q].got = "nothing" => queries[q].got = "nothing"
  BY <1>3, <1>6
<1>12. Waiting'
  BY <1>2, <1>5, <1>10, <1>11 DEF Waiting
<1>13. Fired'
  <2> SUFFICES ASSUME NEW q \in 1..n
               PROVE  /\ queries'[q].alone => \A p \in 1..(q - 1) : queries'[p].fired
                      /\ queries'[q].alone /\ queries'[q].fired => queries'[q].got # "nothing"
    BY <1>5 DEF Fired
  <2>1. queries[q].alone => \A p \in 1..(q - 1) : queries[p].fired
    BY DEF QueryInv, Fired, n
  <2>2. queries'[q].alone => queries'[q].got # "nothing" \/ ~queries'[q].fired
    BY <1>10, <1>11
  <2> QED BY <1>7, <1>8, <2>1, <2>2
<1>14. OnTheSocket'
  <2>1. \A q \in 1..n : queries[q].sent => online
    BY DEF QueryInv, OnTheSocket, n
  <2> QED BY <1>2, <1>5, <1>7, <2>1 DEF OnTheSocket
<1> QED BY <1>9, <1>12, <1>13, <1>14 DEF QueryInv

\* The socket opens or closes: what was sent changes, the calls do not settle.
SocketChanges(R) ==
    /\ R \in Seq(Query) /\ Len(R) = Len(queries)
    /\ \A q \in 1..Len(queries) :
          /\ R[q].alone = queries[q].alone /\ R[q].fired = queries[q].fired
          /\ R[q].got = queries[q].got

LEMMA SocketKeeps ==
    ASSUME QueryInv, SocketChanges(queries'), pending' = pending
    PROVE  Waiting' /\ Fired'
<1> DEFINE n == Len(queries)
<1>1. /\ n \in Nat /\ pending \in 0..n /\ Len(queries') = n
      /\ \A q \in 1..n : /\ queries'[q].alone = queries[q].alone
                         /\ queries'[q].fired = queries[q].fired
                         /\ queries'[q].got = queries[q].got
  BY QueryTypes DEF QueryInv, QueryTypeOK, SocketChanges
<1>2. \A q \in 1..n : \A p \in 1..(q - 1) : p \in 1..n
  BY <1>1
<1>3. pending # 0 => pending \in 1..n
  BY <1>1
<1>4. /\ pending # 0 => pending = n /\ queries[pending].got = "nothing"
      /\ \A q \in 1..n : queries[q].got = "nothing" /\ q # pending =>
            ~queries[q].alone /\ \E p \in 1..(q - 1) : queries[p].fired
  BY DEF QueryInv, Waiting
<1>5. \A q \in 1..n :
         /\ queries[q].alone => \A p \in 1..(q - 1) : queries[p].fired
         /\ queries[q].alone /\ queries[q].fired => queries[q].got # "nothing"
  BY DEF QueryInv, Fired
<1> HIDE DEF n
<1>6. Waiting'
  BY <1>1, <1>2, <1>3, <1>4 DEF Waiting
<1>7. Fired'
  BY <1>1, <1>2, <1>5 DEF Fired
<1> QED BY <1>6, <1>7

LEMMA OnDroppedStep ==
    ASSUME QueryInv, OnDropped
    PROVE  QueryInv'
<1> DEFINE n == Len(queries)
           R == [q \in 1..n |-> [queries[q] EXCEPT !.sent = FALSE]]
<1>1. /\ DOMAIN queries = 1..n /\ n \in Nat
      /\ \A q \in 1..n : queries[q] \in Query
      /\ pending \in 0..n
  BY QueryTypes DEF QueryInv, QueryTypeOK
<1>2. queries' = R /\ online' = FALSE /\ unanswered' = 0 /\ pending' = pending
  BY <1>1 DEF OnDropped
<1>3. \A q \in 1..n : /\ R[q] \in Query /\ R[q].sent = FALSE
                      /\ R[q].alone = queries[q].alone /\ R[q].fired = queries[q].fired
                      /\ R[q].got = queries[q].got
  BY <1>1 DEF Query
<1>4. R \in Seq(Query) /\ Len(R) = n
  <2>1. R = [q \in 1..n |-> R[q]]
    OBVIOUS
  <2> HIDE DEF R
  <2> QED BY <1>3, <2>1, SameCalls DEF QueryInv
<1> HIDE DEF R
<1>5. SocketChanges(queries')
  BY <1>2, <1>3, <1>4 DEF SocketChanges
<1>6. Waiting' /\ Fired'
  BY <1>2, <1>5, SocketKeeps
<1>7. QueryTypeOK'
  BY <1>1, <1>2, <1>4 DEF QueryTypeOK
<1>8. OnTheSocket'
  BY <1>2, <1>3, <1>4 DEF OnTheSocket
<1> QED BY <1>6, <1>7, <1>8 DEF QueryInv

LEMMA OnConnectedStep ==
    ASSUME QueryInv, OnConnected
    PROVE  QueryInv'
<1> DEFINE n == Len(queries)
           listening == {q \in 1..n : queries[q].listens}
           R == [q \in 1..n |-> [queries[q] EXCEPT !.listens = FALSE,
                                                   !.sent = @ \/ (q = pending /\ listening # {})]]
<1>1. /\ DOMAIN queries = 1..n /\ n \in Nat
      /\ \A q \in 1..n : queries[q] \in Query
      /\ pending \in 0..n
  BY QueryTypes DEF QueryInv, QueryTypeOK
<1>2. /\ queries' = R /\ online' = TRUE /\ pending' = pending /\ ~online
      /\ unanswered' = IF pending = 0 THEN 0 ELSE Cardinality(listening)
  BY <1>1 DEF OnConnected
<1>3. Cardinality(listening) \in Nat /\ (listening # {} => Cardinality(listening) > 0)
  <2>1. IsFiniteSet(1..n)
    BY <1>1, FS_Interval
  <2>2. IsFiniteSet(listening)
    BY <2>1, FS_Subset
  <2> HIDE DEF listening
  <2>3. Cardinality(listening) \in Nat
    BY <2>2, FS_CardinalityType
  <2>4. Cardinality(listening) = 0 <=> listening = {}
    BY <2>2, FS_EmptySet
  <2> QED BY <2>3, <2>4
<1> HIDE DEF listening
<1>4. \A q \in 1..n : /\ R[q] \in Query
                      /\ R[q].sent => queries[q].sent \/ listening # {}
                      /\ R[q].alone = queries[q].alone /\ R[q].fired = queries[q].fired
                      /\ R[q].got = queries[q].got
  BY <1>1 DEF Query
<1>5. R \in Seq(Query) /\ Len(R) = n
  <2>1. R = [q \in 1..n |-> R[q]]
    OBVIOUS
  <2> HIDE DEF R
  <2> QED BY <1>4, <2>1, SameCalls DEF QueryInv
<1> HIDE DEF R
<1>6. SocketChanges(queries')
  BY <1>2, <1>4, <1>5 DEF SocketChanges
<1>7. Waiting' /\ Fired'
  BY <1>2, <1>6, SocketKeeps
<1>8. QueryTypeOK'
  BY <1>1, <1>2, <1>3, <1>5 DEF QueryTypeOK
<1>9. OnTheSocket'
  <2>1. \A q \in 1..n : ~queries[q].sent
    BY <1>2 DEF QueryInv, OnTheSocket
  <2>2. ASSUME pending # 0, queries'[pending].sent PROVE unanswered' > 0
    <3>1. pending \in 1..n
      BY <1>1, <2>2
    <3> QED BY <1>2, <1>3, <1>4, <2>1, <2>2, <3>1
  <2> QED BY <1>2, <2>2 DEF OnTheSocket
<1> QED BY <1>7, <1>8, <1>9 DEF QueryInv

\* Asking who seeds a model, by any callers, over any drops and answers: whoever
\* asks when no earlier timer runs is answered or times out (querySeeders).
THEOREM AskingCorrect == QuerySpec => []QueryCorrect
<1>1. QueryInit => QueryInv
  <2> SUFFICES ASSUME QueryInit PROVE QueryInv
    OBVIOUS
  <2>1. online \in BOOLEAN /\ pending = 0 /\ queries = <<>> /\ unanswered = 0
    BY DEF QueryInit
  <2>2. queries \in Seq(Query) /\ Len(queries) = 0
    BY <2>1
  <2>3. \A q \in 1..Len(queries) : FALSE
    BY <2>2
  <2> QED BY <2>1, <2>2, <2>3 DEF QueryInv, QueryTypeOK, Waiting, Fired, OnTheSocket
<1>2. QueryInv /\ [QueryNext]_queryVars => QueryInv'
  <2> SUFFICES ASSUME QueryInv, [QueryNext]_queryVars PROVE QueryInv'
    OBVIOUS
  <2>1. CASE Discover
    BY <2>1, QuerySeedersStep DEF Discover
  <2>2. CASE \E by \in {"panel", "mesh"} : Poll(by)
    BY <2>2, QuerySeedersStep DEF Poll
  <2>3. CASE \E got \in {"empty", "seeders"} : OnSeeders(got)
    BY <2>3, OnSeedersStep
  <2>4. CASE \E q \in 1..MaxQueries : OnTimeout(q)
    BY <2>4, OnTimeoutStep
  <2>5. CASE OnConnected
    BY <2>5, OnConnectedStep
  <2>6. CASE OnDropped
    BY <2>6, OnDroppedStep
  <2>7. CASE UNCHANGED queryVars
    BY <2>7 DEF queryVars, QueryInv, QueryTypeOK, Waiting, Fired, OnTheSocket
  <2> QED BY <2>1, <2>2, <2>3, <2>4, <2>5, <2>6, <2>7 DEF QueryNext
<1>3. ASSUME QueryInv PROVE QueryCorrect
  <2>1. DOMAIN queries = 1..Len(queries)
    BY <1>3, QueryTypes DEF QueryInv
  <2> QED BY <1>3, <2>1 DEF QueryInv, Waiting, Fired, OnTheSocket, QueryCorrect
<1> QED BY <1>1, <1>2, <1>3, PTL DEF QuerySpec
-----------------------------------------------------------------------------
\* Seeding from a browser tab.

Made == [model : SeedModel, page : Nat, starting : BOOLEAN, on : BOOLEAN, listens : BOOLEAN]
Hook == [page : Nat, wizard : BOOLEAN, model : SeedModel \cup {NoModel}, ref : Nat,
         sharing : BOOLEAN, sent : BOOLEAN]
PublishCall == [model : SeedModel \cup {NoModel}, page : Nat, sharing : BOOLEAN]

SeedingTypeOK ==
    /\ hook \in Hook
    /\ seeders \in Seq(Made)
    /\ hook.ref \in 0..Len(seeders)
    /\ active \in [SeedModel -> 0..Len(seeders)]
    /\ publishing \in PublishCall
    /\ listed \subseteq SeedModel
    /\ switched \in BOOLEAN

\* A seeder was made by a page there has been, and is on until its model is quit; of
\* two of a model that are on, the later one doubled the first.
SeedersMade ==
    \A s \in 1..Len(seeders) :
        /\ seeders[s].page <= hook.page
        /\ seeders[s].on \/ seeders[s].model \in quit
        /\ seeders[s].on /\ ~seeders[s].starting => seeders[s].listens
        /\ seeders[s].starting => ~seeders[s].listens
        /\ ~switched /\ seeders[s].starting =>
              seeders[s].on \/ seeders[s].model \in doubled
        /\ \A t \in 1..Len(seeders) :
              s # t /\ seeders[s].model = seeders[t].model /\ seeders[s].on /\ seeders[t].on =>
                  seeders[s].model \in doubled

\* What the map has was started, and is still on.
MapKept ==
    \A m \in SeedModel :
        active[m] # 0 =>
            /\ seeders[active[m]].model = m /\ ~seeders[active[m]].starting
            /\ m \in listed
            /\ ~switched /\ m \notin doubled => seeders[active[m]].on

\* Whatever is listed was quit, or is served.
ListKept == \A m \in listed : m \in quit \/ Serving(m) # {}

\* PublishedIsShared, of a model.
Shared(m) ==
    /\ m \in SeedModel
    /\ \/ active[m] # 0
       \/ \E s \in 1..Len(seeders) : seeders[s].starting /\ seeders[s].model = m
       \/ m \in quit

\* The page made s, and waits for it.
Awaits(s) == seeders[s].starting /\ seeders[s].page = hook.page

\* The ref of a page that does not share is the seeder it waits for.
RefKept == hook.ref # 0 => hook.sharing \/ Awaits(hook.ref)

\* The page's model is its seeders' until it changes under the hook; while it shares,
\* or waits, without a ref, the model was quit.
HookKept ==
    ~switched =>
        /\ hook.ref # 0 => seeders[hook.ref].model = hook.model
        /\ \A s \in 1..Len(seeders) :
              Awaits(s) =>
                  /\ seeders[s].model = hook.model
                  /\ s = hook.ref \/ hook.model \in doubled
                  /\ hook.ref = 0 => hook.model \in quit
        /\ hook.sharing =>
              /\ hook.ref = 0 => hook.model \in quit
              /\ Shared(hook.model)
              /\ hook.model \in doubled \/ (hook.ref = active[hook.model] /\ hook.ref # 0)
        /\ hook.sent => Shared(hook.model)

\* What a registration kept belongs to its page.
PublishKept ==
    publishing # NoPublishing =>
        /\ publishing.model \in SeedModel /\ publishing.page <= hook.page
        /\ ~switched /\ publishing.page = hook.page => publishing.model = hook.model
        /\ ~switched /\ publishing.sharing => Shared(publishing.model)

SeedingInv ==
    /\ SeedingTypeOK
    /\ SeedersMade /\ MapKept /\ ListKept /\ RefKept /\ HookKept /\ PublishKept

LEMMA NoCall == NoPublishing \in PublishCall
<1>1. NoModel \in SeedModel \cup {NoModel} /\ 0 \in Nat /\ FALSE \in BOOLEAN
  OBVIOUS
<1> QED BY <1>1 DEF NoPublishing, PublishCall

LEMMA SeedingFields ==
    ASSUME SeedingTypeOK
    PROVE  /\ Len(seeders) \in Nat /\ DOMAIN seeders = 1..Len(seeders)
           /\ \A s \in 1..Len(seeders) : seeders[s] \in Made /\ seeders[s].model \in SeedModel
                                         /\ seeders[s].page \in Nat
           /\ \A m \in SeedModel : active[m] \in 0..Len(seeders)
           /\ \A m \in SeedModel : active[m] # 0 => active[m] \in 1..Len(seeders)
           /\ hook.ref # 0 => hook.ref \in 1..Len(seeders)
           /\ hook.page \in Nat /\ hook.model \in SeedModel \cup {NoModel}
           /\ publishing.page \in Nat /\ NoPublishing \in PublishCall
<1>1. Len(seeders) \in Nat /\ DOMAIN seeders = 1..Len(seeders)
  BY LenProperties DEF SeedingTypeOK
<1>2. \A s \in 1..Len(seeders) : seeders[s] \in Made
  BY ElementOfSeq DEF SeedingTypeOK
<1>3. \A s \in 1..Len(seeders) : seeders[s].model \in SeedModel /\ seeders[s].page \in Nat
  BY <1>2 DEF Made
<1>4. \A m \in SeedModel : active[m] \in 0..Len(seeders)
  BY DEF SeedingTypeOK
<1>5. hook.ref \in 0..Len(seeders) /\ hook.page \in Nat
      /\ hook.model \in SeedModel \cup {NoModel} /\ publishing.page \in Nat
  BY DEF SeedingTypeOK, Hook, PublishCall
<1>6. NoPublishing \in PublishCall
  BY NoCall
<1> QED BY <1>1, <1>2, <1>3, <1>4, <1>5, <1>6

\* Of a model that was started once, no seeder but the map's is on, or starting.
LEMMA OneOfAModel ==
    ASSUME SeedingInv, ~switched, NEW m \in SeedModel, m \notin doubled, active[m] # 0,
           NEW s \in 1..Len(seeders), seeders[s].model = m, s # active[m]
    PROVE  ~seeders[s].on /\ ~seeders[s].starting
<1>1. active[m] \in 1..Len(seeders) /\ seeders[active[m]].model = m /\ seeders[active[m]].on
  BY SeedingFields DEF SeedingInv, MapKept
<1>2. ~seeders[s].on
  BY <1>1 DEF SeedingInv, SeedersMade
<1> QED BY <1>2 DEF SeedingInv, SeedersMade

\* A page that shares a model started once has the map's seeder, which is not starting.
LEMMA SharedByTheMap ==
    ASSUME SeedingInv, ~switched, hook.sharing, hook.model \notin doubled
    PROVE  /\ hook.model \in SeedModel /\ hook.ref = active[hook.model] /\ hook.ref # 0
           /\ hook.ref \in 1..Len(seeders) /\ ~seeders[hook.ref].starting
BY SeedingFields DEF SeedingInv, HookKept, Shared, MapKept

LEMMA MountedIs ==
    ASSUME SeedingInv, NEW visit \in Nat, NEW m \in SeedModel \cup {NoModel}, NEW h,
           h = Mounted(visit, m)
    PROVE  /\ h \in Hook /\ h.page = visit /\ h.model = m /\ ~h.sent
           /\ h.sharing <=> h.ref # 0
           /\ h.ref \in 0..Len(seeders)
           /\ h.ref # 0 => m \in SeedModel /\ h.ref = active[m]
<1> DEFINE s == IF m = NoModel THEN 0 ELSE active[m]
<1>1. s \in 0..Len(seeders) /\ s \in Nat /\ (s # 0 => m \in SeedModel /\ s = active[m])
  BY SeedingFields DEF SeedingInv
<1>2. h = [page |-> visit, wizard |-> m = NoModel, model |-> m, ref |-> s, sharing |-> s # 0,
           sent |-> FALSE]
  BY DEF Mounted
<1> HIDE DEF s
<1> DEFINE w == m = NoModel
           b == s # 0
<1>3. w \in BOOLEAN /\ b \in BOOLEAN /\ (b <=> s # 0)
  OBVIOUS
<1>4. h = [page |-> visit, wizard |-> w, model |-> m, ref |-> s, sharing |-> b, sent |-> FALSE]
  BY <1>2
<1> HIDE DEF w, b
<1> QED BY <1>1, <1>3, <1>4 DEF Hook

LEMMA SeedingStarts == SeedingInit => SeedingInv
<1> SUFFICES ASSUME SeedingInit PROVE SeedingInv
  OBVIOUS
<1>1. seeders = <<>> /\ Len(seeders) = 0 /\ seeders \in Seq(Made)
  BY EmptySeq DEF SeedingInit
<1>2. PICK m \in SeedModel \cup {NoModel} : hook = Mounted(1, m)
  BY DEF SeedingInit
<1>3. hook = [page |-> 1, wizard |-> m = NoModel, model |-> m, ref |-> 0, sharing |-> FALSE,
              sent |-> FALSE]
  BY <1>2 DEF Mounted, SeedingInit
<1>4. hook \in Hook /\ hook.ref = 0 /\ ~hook.sharing /\ ~hook.sent
  BY <1>3 DEF Hook
<1>5. SeedingTypeOK
  <2>1. active \in [SeedModel -> 0..Len(seeders)] /\ 0 \in 0..Len(seeders)
    BY <1>1 DEF SeedingInit
  <2>2. /\ publishing \in PublishCall /\ switched \in BOOLEAN /\ listed \subseteq SeedModel
    BY NoCall DEF SeedingInit
  <2> QED BY <1>1, <1>4, <2>1, <2>2 DEF SeedingTypeOK
<1> QED BY <1>1, <1>4, <1>5 DEF SeedingInit, SeedingInv, SeedersMade, MapKept, ListKept, RefKept,
           HookKept, PublishKept

-----------------------------------------------------------------------------
\* Another page has another number: nothing waits for it, and it shares what the map
\* has.
LEMMA NavigateKeeps ==
    ASSUME SeedingInv, NEW m \in SeedModel \cup {NoModel}, Navigate(m)
    PROVE  SeedingInv'
<1>1. /\ hook' = Mounted(hook.page + 1, m)
      /\ UNCHANGED <<active, seeders, listed, publishing, quit, doubled, switched>>
      /\ hook.page \in Nat
  BY SeedingFields DEF Navigate, SeedingInv
<1>2. /\ hook' \in Hook /\ hook'.page = hook.page + 1 /\ hook'.model = m /\ ~hook'.sent
      /\ hook'.sharing <=> hook'.ref # 0
      /\ hook'.ref \in 0..Len(seeders)
      /\ hook'.ref # 0 => m \in SeedModel /\ hook'.ref = active[m]
  BY <1>1, MountedIs
<1>3. SeedingTypeOK'
  BY <1>1, <1>2 DEF SeedingInv, SeedingTypeOK
<1>4. SeedersMade' /\ \A s \in 1..Len(seeders) : ~Awaits(s)'
  BY <1>1, <1>2, SeedingFields DEF SeedingInv, SeedersMade, Awaits
<1>5. MapKept' /\ ListKept' /\ RefKept'
  BY <1>1, <1>2 DEF SeedingInv, MapKept, ListKept, Serving, RefKept
<1>6. HookKept'
  <2> SUFFICES ASSUME ~switched PROVE HookKept'
    BY <1>1 DEF HookKept
  <2>1. hook'.ref # 0 => seeders[hook'.ref].model = hook'.model /\ Shared(hook.model)'
    BY <1>1, <1>2 DEF SeedingInv, MapKept, Shared
  <2> QED BY <1>1, <1>2, <1>4, <2>1 DEF HookKept
<1>7. PublishKept'
  <2>1. publishing # NoPublishing => publishing.page < hook'.page /\ publishing.page \in Nat
    BY <1>1, <1>2, SeedingFields DEF SeedingInv, PublishKept
  <2> QED BY <1>1, <1>2, <2>1 DEF SeedingInv, PublishKept, Shared
<1> QED BY <1>3, <1>4, <1>5, <1>6, <1>7 DEF SeedingInv

\* Another model under the hook: unless that is noted it shared nothing, and nothing
\* was being started or published.
LEMMA NextModelKeeps ==
    ASSUME SeedingInv, NEW m \in SeedModel, NextModel(m)
    PROVE  SeedingInv'
<1>1. /\ hook' = [hook EXCEPT !.model = m, !.sent = FALSE]
      /\ switched' = (switched \/ hook.sharing \/ Starting # {} \/ publishing # NoPublishing)
      /\ UNCHANGED <<active, seeders, listed, publishing, quit, doubled>>
  BY DEF NextModel
<1>2. /\ hook' \in Hook /\ hook'.page = hook.page /\ hook'.model = m /\ ~hook'.sent
      /\ hook'.sharing = hook.sharing /\ hook'.ref = hook.ref
  BY <1>1 DEF SeedingInv, SeedingTypeOK, Hook
<1>3. SeedingTypeOK'
  BY <1>1, <1>2 DEF SeedingInv, SeedingTypeOK
<1>4. SeedersMade' /\ MapKept' /\ ListKept' /\ RefKept'
  <2>1. SeedersMade'
    BY <1>1, <1>2 DEF SeedingInv, SeedersMade
  <2>2. MapKept'
    BY <1>1, <1>2 DEF SeedingInv, MapKept
  <2>3. ListKept' /\ RefKept'
    BY <1>1, <1>2 DEF SeedingInv, ListKept, Serving, RefKept, Awaits
  <2> QED BY <2>1, <2>2, <2>3
<1>5. ~switched' => /\ ~switched /\ ~hook.sharing /\ publishing = NoPublishing
                    /\ \A s \in 1..Len(seeders) : ~seeders[s].starting
  BY <1>1, SeedingFields DEF Starting, SeedingInv
<1>6. ~switched' => hook.ref = 0
  BY <1>5, SeedingFields DEF SeedingInv, RefKept, Awaits
<1>7. HookKept'
  BY <1>1, <1>2, <1>5, <1>6 DEF HookKept, Awaits
<1>8. PublishKept'
  BY <1>1, <1>2, <1>5 DEF SeedingInv, PublishKept
<1> QED BY <1>3, <1>4, <1>7, <1>8 DEF SeedingInv

\* What startSeeding is called with: the page's hook, or the one that has just sent its
\* registration; the model is the page's, unless that is noted.
Called(m, visit, h) ==
    /\ m \in SeedModel /\ visit \in Nat /\ visit <= hook.page
    /\ h \in Hook /\ h.page = hook.page /\ h.model = hook.model /\ h.ref = hook.ref
    /\ h.sharing = hook.sharing
    /\ ~switched /\ visit = hook.page => m = hook.model
    /\ h.sent => hook.sent \/ visit = hook.page

\* The map's seeder is used again.
LEMMA ReuseKeeps ==
    ASSUME SeedingInv, NEW m, NEW visit, NEW h, Called(m, visit, h), StartSeeding(m, visit, h),
           active[m] # 0, publishing' \in {publishing, NoPublishing}
    PROVE  SeedingInv'
<1>1. /\ UNCHANGED <<active, seeders, listed, quit, doubled, switched>>
      /\ hook' = IF h.page = visit THEN [h EXCEPT !.ref = active[m], !.sharing = TRUE] ELSE h
      /\ active[m] \in 1..Len(seeders) /\ active[m] \in Nat
      /\ seeders[active[m]].model = m /\ m \in SeedModel
  BY SeedingFields DEF StartSeeding, SeedingInv, MapKept, Called
<1>2. /\ hook' \in Hook /\ hook'.page = hook.page /\ hook'.model = hook.model
      /\ hook'.sent = h.sent
      /\ visit = hook.page => hook'.ref = active[m] /\ hook'.sharing
      /\ visit # hook.page => hook'.ref = hook.ref /\ hook'.sharing = hook.sharing
  <2>1. CASE h.page = visit
    <3>1. hook' = [h EXCEPT !.ref = active[m], !.sharing = TRUE]
      BY <1>1, <2>1
    <3> QED BY <1>1, <2>1, <3>1 DEF Called, Hook
  <2>2. CASE h.page # visit
    BY <1>1, <2>2 DEF Called
  <2> QED BY <2>1, <2>2
<1>3. SeedingTypeOK'
  <2>1. publishing' \in PublishCall
    BY NoCall DEF SeedingInv, SeedingTypeOK
  <2> QED BY <1>1, <1>2, <2>1 DEF SeedingInv, SeedingTypeOK
<1>4. SeedersMade' /\ MapKept' /\ ListKept'
  BY <1>1, <1>2 DEF SeedingInv, SeedersMade, MapKept, ListKept, Serving
<1>5. RefKept' /\ \A s \in 1..Len(seeders) : Awaits(s)' = Awaits(s)
  BY <1>1, <1>2 DEF SeedingInv, RefKept, Awaits
<1>6. \A x : Shared(x)' = Shared(x)
  BY <1>1 DEF Shared
<1>7. HookKept'
  <2> SUFFICES ASSUME ~switched PROVE HookKept'
    BY <1>1 DEF HookKept
  <2>1. CASE visit = hook.page
    <3>1. m = hook.model /\ Shared(m)
      BY <1>1, <2>1 DEF Called, Shared
    <3>2. \A s \in 1..Len(seeders) :
             Awaits(s) => /\ seeders[s].model = m
                          /\ s = active[m] \/ m \in doubled
      BY <1>1, <2>1, <3>1, OneOfAModel DEF SeedingInv, HookKept, Awaits
    <3> QED BY <1>1, <1>2, <1>5, <1>6, <2>1, <3>1, <3>2 DEF HookKept
  <2>2. CASE visit # hook.page
    BY <1>1, <1>2, <1>5, <1>6, <2>2 DEF SeedingInv, HookKept, Called
  <2> QED BY <2>1, <2>2
<1>8. PublishKept'
  BY <1>1, <1>2, <1>6 DEF SeedingInv, PublishKept
<1> QED BY <1>3, <1>4, <1>5, <1>7, <1>8 DEF SeedingInv

\* A new seeder: of a model the map does not have, so one that is doubled, or that this
\* page does not share.
LEMMA MakeKeeps ==
    ASSUME SeedingInv, NEW m, NEW visit, NEW h, Called(m, visit, h), StartSeeding(m, visit, h),
           active[m] = 0, publishing' \in {publishing, NoPublishing}
    PROVE  SeedingInv'
<1> DEFINE n == Len(seeders)
           new == [model |-> m, page |-> visit, starting |-> TRUE, on |-> TRUE, listens |-> FALSE]
<1>1. /\ UNCHANGED <<active, listed, quit, switched>>
      /\ seeders' = Append(seeders, new)
      /\ hook' = IF h.page = visit THEN [h EXCEPT !.ref = n + 1] ELSE h
      /\ doubled' = IF \E s \in DOMAIN seeders : seeders[s].model = m /\ seeders[s].on
                    THEN doubled \cup {m} ELSE doubled
      /\ n \in Nat /\ m \in SeedModel
  BY SeedingFields DEF StartSeeding, SeedingInv, Called
<1>2. /\ new \in Made /\ new.model = m /\ new.page = visit /\ new.starting /\ new.on
      /\ ~new.listens
  BY <1>1 DEF Called, Made
<1> HIDE DEF new
<1>3. /\ seeders' \in Seq(Made) /\ Len(seeders') = n + 1 /\ seeders'[n + 1] = new
      /\ \A s \in 1..n : seeders'[s] = seeders[s]
  BY <1>1, <1>2, AppendProperties DEF SeedingInv, SeedingTypeOK
<1>4. /\ doubled \subseteq doubled'
      /\ (\E s \in 1..n : seeders[s].model = m /\ seeders[s].on) => m \in doubled'
      /\ \A x : x # m => (x \in doubled' <=> x \in doubled)
  BY <1>1, SeedingFields DEF SeedingInv
<1>5. /\ hook' \in Hook /\ hook'.page = hook.page /\ hook'.model = hook.model
      /\ hook'.sent = h.sent /\ hook'.sharing = hook.sharing
      /\ visit = hook.page => hook'.ref = n + 1
      /\ visit # hook.page => hook'.ref = hook.ref
  <2>1. CASE h.page = visit
    <3>1. hook' = [h EXCEPT !.ref = n + 1] /\ n + 1 \in Nat
      BY <1>1, <2>1
    <3> QED BY <2>1, <3>1 DEF Called, Hook
  <2>2. CASE h.page # visit
    BY <1>1, <2>2 DEF Called
  <2> QED BY <2>1, <2>2
<1>6. SeedingTypeOK'
  <2>1. publishing' \in PublishCall
    BY NoCall DEF SeedingInv, SeedingTypeOK
  <2>2. hook'.ref \in 0..(n + 1) /\ \A x \in 0..n : x \in 0..(n + 1)
    BY <1>1, <1>5, SeedingFields DEF SeedingInv
  <2>3. active' \in [SeedModel -> 0..(n + 1)]
    BY <1>1, <2>2 DEF SeedingInv, SeedingTypeOK
  <2> QED BY <1>1, <1>3, <1>5, <2>1, <2>2, <2>3 DEF SeedingInv, SeedingTypeOK
<1>7. SeedersMade'
  <2> SUFFICES ASSUME NEW s \in 1..(n + 1)
               PROVE  /\ seeders'[s].page <= hook'.page
                      /\ seeders'[s].on \/ seeders'[s].model \in quit
                      /\ seeders'[s].on /\ ~seeders'[s].starting => seeders'[s].listens
                      /\ seeders'[s].starting => ~seeders'[s].listens
                      /\ ~switched /\ seeders'[s].starting =>
                            seeders'[s].on \/ seeders'[s].model \in doubled'
                      /\ \A t \in 1..(n + 1) :
                            /\ s # t /\ seeders'[s].model = seeders'[t].model
                            /\ seeders'[s].on /\ seeders'[t].on
                            => seeders'[s].model \in doubled'
    BY <1>1, <1>3 DEF SeedersMade
  <2>1. CASE s \in 1..n
    <3>1. seeders'[s] = seeders[s]
      BY <1>3, <2>1
    <3>2. ASSUME NEW t \in 1..(n + 1), s # t, seeders'[s].model = seeders'[t].model,
                 seeders'[s].on, seeders'[t].on
          PROVE  seeders'[s].model \in doubled'
      <4>1. CASE t \in 1..n
        BY <1>3, <1>4, <2>1, <3>1, <3>2, <4>1 DEF SeedingInv, SeedersMade
      <4>2. CASE t = n + 1
        BY <1>2, <1>3, <1>4, <2>1, <3>1, <3>2, <4>2
      <4> QED BY <1>1, <4>1, <4>2
    <3> QED BY <1>4, <1>5, <2>1, <3>1, <3>2 DEF SeedingInv, SeedersMade
  <2>2. CASE s = n + 1
    <3>1. seeders'[s] = new
      BY <1>3, <2>2
    <3>2. ASSUME NEW t \in 1..(n + 1), s # t, seeders'[s].model = seeders'[t].model,
                 seeders'[s].on, seeders'[t].on
          PROVE  seeders'[s].model \in doubled'
      <4>1. t \in 1..n
        BY <1>1, <2>2, <3>2
      <4> QED BY <1>2, <1>3, <1>4, <3>1, <3>2, <4>1
    <3> QED BY <1>2, <1>5, <3>1, <3>2 DEF Called
  <2> QED BY <1>1, <2>1, <2>2
<1>8. MapKept'
  <2> SUFFICES ASSUME NEW x \in SeedModel, active[x] # 0
               PROVE  /\ seeders'[active[x]].model = x /\ ~seeders'[active[x]].starting
                      /\ x \in listed
                      /\ ~switched /\ x \notin doubled' => seeders'[active[x]].on
    BY <1>1 DEF MapKept
  <2>1. seeders'[active[x]] = seeders[active[x]]
    BY <1>3, SeedingFields DEF SeedingInv
  <2> QED BY <1>4, <2>1 DEF SeedingInv, MapKept
<1>9. ListKept'
  <2>1. \A x : Serving(x) # {} => Serving(x)' # {}
    <3> SUFFICES ASSUME NEW x, NEW s \in 1..n, s \in Serving(x) PROVE s \in Serving(x)'
      BY SeedingFields DEF Serving, SeedingInv
    <3>1. s \in 1..(n + 1) /\ DOMAIN seeders' = 1..(n + 1)
      BY <1>1, <1>3, LenProperties
    <3> QED BY <1>3, <3>1 DEF Serving
  <2> QED BY <1>1, <2>1 DEF SeedingInv, ListKept
<1>10. \A s \in 1..n : Awaits(s)' = Awaits(s)
  BY <1>3, <1>5 DEF Awaits
<1>11. seeders'[n + 1].starting /\ seeders'[n + 1].page = visit /\ n + 1 # 0
  BY <1>1, <1>2, <1>3
<1>12. RefKept'
  <2>1. CASE visit = hook.page
    BY <1>5, <1>11, <2>1 DEF RefKept, Awaits
  <2>2. CASE visit # hook.page
    <3>1. hook.ref # 0 => hook.sharing \/ (hook.ref \in 1..n /\ Awaits(hook.ref))
      BY SeedingFields DEF SeedingInv, RefKept
    <3> QED BY <1>3, <1>5, <2>2, <3>1 DEF RefKept, Awaits
  <2> QED BY <2>1, <2>2
<1>13. Shared(m)' /\ \A x : Shared(x) => Shared(x)'
  <2>1. n + 1 \in 1..(n + 1) /\ \A s \in 1..n : s \in 1..(n + 1)
    BY <1>1
  <2> QED BY <1>1, <1>2, <1>3, <2>1 DEF Shared
<1>14. HookKept'
  <2> SUFFICES ASSUME ~switched PROVE HookKept'
    BY <1>1 DEF HookKept
  <2>1. hook.sharing /\ hook.model = m => m \in doubled
    BY SharedByTheMap
  <2>2. hook'.ref # 0 => seeders'[hook'.ref].model = hook'.model
    <3>1. CASE visit = hook.page
      BY <1>2, <1>3, <1>5, <3>1 DEF Called
    <3>2. CASE visit # hook.page
      BY <1>3, <1>5, <3>2, SeedingFields DEF SeedingInv, HookKept
    <3> QED BY <3>1, <3>2
  <2>3. ASSUME NEW s \in 1..(n + 1), Awaits(s)'
        PROVE  /\ seeders'[s].model = hook'.model
               /\ s = hook'.ref \/ hook'.model \in doubled'
               /\ hook'.ref = 0 => hook'.model \in quit
    <3>1. CASE s = n + 1
      <4>1. visit = hook.page
        BY <1>5, <1>11, <2>3, <3>1 DEF Awaits
      <4> QED BY <1>2, <1>3, <1>5, <1>11, <3>1, <4>1 DEF Called
    <3>2. CASE s \in 1..n /\ visit = hook.page
      <4>1. Awaits(s) /\ seeders[s].model = hook.model /\ hook.model = m
        BY <1>10, <2>3, <3>2 DEF SeedingInv, HookKept, Called
      <4>2. m \in doubled'
        BY <1>4, <3>2, <4>1 DEF SeedingInv, SeedersMade, Awaits
      <4> QED BY <1>1, <1>3, <1>5, <3>2, <4>1, <4>2
    <3>3. CASE s \in 1..n /\ visit # hook.page
      BY <1>3, <1>4, <1>5, <1>10, <2>3, <3>3 DEF SeedingInv, HookKept
    <3> QED BY <1>1, <3>1, <3>2, <3>3
  <2>4. hook'.sharing =>
           /\ hook'.ref = 0 => hook'.model \in quit
           /\ Shared(hook.model)'
           /\ hook'.model \in doubled' \/ (hook'.ref = active[hook'.model] /\ hook'.ref # 0)
    <3>1. CASE visit = hook.page
      BY <1>1, <1>4, <1>5, <1>13, <2>1, <3>1 DEF Called
    <3>2. CASE visit # hook.page
      BY <1>4, <1>5, <1>13, <3>2 DEF SeedingInv, HookKept
    <3> QED BY <3>1, <3>2
  <2>5. hook'.sent => Shared(hook.model)'
    BY <1>5, <1>13 DEF SeedingInv, HookKept, Called
  <2> QED BY <1>1, <1>3, <1>5, <2>2, <2>3, <2>4, <2>5 DEF HookKept
<1>15. PublishKept'
  BY <1>1, <1>5, <1>13 DEF SeedingInv, PublishKept
<1> QED BY <1>6, <1>7, <1>8, <1>9, <1>12, <1>14, <1>15 DEF SeedingInv

LEMMA StartKeeps ==
    ASSUME SeedingInv, NEW m, NEW visit, NEW h, Called(m, visit, h), StartSeeding(m, visit, h),
           publishing' \in {publishing, NoPublishing}
    PROVE  SeedingInv'
BY ReuseKeeps, MakeKeeps

LEMMA ShareKeeps == ASSUME SeedingInv, StartSharing PROVE SeedingInv'
<1>1. StartSeeding(hook.model, hook.page, hook) /\ publishing' = publishing
      /\ hook.model # NoModel
  BY DEF StartSharing, StartSeeding
<1>2. Called(hook.model, hook.page, hook)
  BY <1>1, SeedingFields DEF Called, SeedingInv, SeedingTypeOK
<1> QED BY <1>1, <1>2, StartKeeps

LEMMA PublishKeeps == ASSUME SeedingInv, Publish PROVE SeedingInv'
<1>1. /\ publishing' = [model |-> hook.model, page |-> hook.page, sharing |-> hook.sharing]
      /\ hook.model # NoModel
      /\ UNCHANGED <<hook, active, seeders, listed, quit, doubled, switched>>
  BY DEF Publish
<1>2. /\ publishing' \in PublishCall /\ publishing'.model = hook.model
      /\ publishing'.page = hook.page /\ publishing'.sharing = hook.sharing
      /\ hook.model \in SeedModel /\ hook.page \in Nat
  BY <1>1 DEF SeedingInv, SeedingTypeOK, Hook, PublishCall
<1>3. SeedingTypeOK'
  BY <1>1, <1>2 DEF SeedingInv, SeedingTypeOK
<1>4. SeedersMade' /\ MapKept' /\ ListKept' /\ RefKept' /\ HookKept'
  BY <1>1 DEF SeedingInv, SeedersMade, MapKept, ListKept, Serving, RefKept, Awaits, HookKept,
              Shared
<1>5. PublishKept'
  <2>1. ~switched /\ hook.sharing => Shared(hook.model)
    BY DEF SeedingInv, HookKept
  <2> QED BY <1>1, <1>2, <2>1 DEF PublishKept, Shared
<1> QED BY <1>3, <1>4, <1>5 DEF SeedingInv

LEMMA PublishedKeeps == ASSUME SeedingInv, Published PROVE SeedingInv'
<1> DEFINE shown == IF hook.page = publishing.page THEN [hook EXCEPT !.sent = TRUE] ELSE hook
<1>1. /\ publishing # NoPublishing /\ publishing' = NoPublishing
      /\ \/ StartSeeding(publishing.model, publishing.page, shown)
         \/ /\ publishing.sharing /\ hook' = shown
            /\ UNCHANGED <<active, seeders, listed, quit, doubled, switched>>
         \/ UNCHANGED <<hook, active, seeders, listed, quit, doubled, switched>>
  BY DEF Published
<1>2. /\ shown \in Hook /\ shown.page = hook.page /\ shown.model = hook.model
      /\ shown.ref = hook.ref /\ shown.sharing = hook.sharing
      /\ shown.sent => hook.sent \/ publishing.page = hook.page
  BY DEF SeedingInv, SeedingTypeOK, Hook
<1> HIDE DEF shown
<1>3. CASE StartSeeding(publishing.model, publishing.page, shown)
  <2>1. Called(publishing.model, publishing.page, shown)
    BY <1>1, <1>2, SeedingFields DEF Called, SeedingInv, PublishKept
  <2> QED BY <1>1, <1>3, <2>1, StartKeeps
<1>4. CASE /\ hook' = shown \/ hook' = hook
           /\ hook' = hook \/ publishing.sharing
           /\ UNCHANGED <<active, seeders, listed, quit, doubled, switched>>
  <2>1. /\ hook' \in Hook /\ hook'.page = hook.page /\ hook'.model = hook.model
        /\ hook'.ref = hook.ref /\ hook'.sharing = hook.sharing
        /\ hook'.sent => hook.sent \/ (publishing.page = hook.page /\ publishing.sharing)
    BY <1>2, <1>4 DEF SeedingInv, SeedingTypeOK
  <2>2. SeedingTypeOK'
    BY <1>1, <1>4, <2>1, NoCall DEF SeedingInv, SeedingTypeOK
  <2>3. SeedersMade' /\ MapKept' /\ ListKept'
    BY <1>4, <2>1 DEF SeedingInv, SeedersMade, MapKept, ListKept, Serving
  <2>4. RefKept' /\ PublishKept'
    BY <1>1, <1>4, <2>1 DEF SeedingInv, RefKept, Awaits, PublishKept
  <2>5. \A x : Shared(x)' = Shared(x)
    BY <1>4 DEF Shared
  <2>6. ~switched /\ hook'.sent => Shared(hook.model)
    BY <1>1, <2>1 DEF SeedingInv, HookKept, PublishKept
  <2>7. HookKept'
    BY <1>4, <2>1, <2>5, <2>6 DEF SeedingInv, HookKept, Awaits
  <2> QED BY <2>2, <2>3, <2>4, <2>7 DEF SeedingInv
<1> QED BY <1>1, <1>3, <1>4

\* The store's answer: the seeder listens, the map and the hub have it, and its page, if
\* it is still there, shares.
LEMMA StartedKeeps ==
    ASSUME SeedingInv, NEW s \in 1..MaxSeeders, Started(s)
    PROVE  SeedingInv'
<1>0. PICK k : k = seeders[s].model
  OBVIOUS
<1> DEFINE n == Len(seeders)
           c == [seeders[s] EXCEPT !.starting = FALSE, !.listens = TRUE]
<1>1. /\ n \in Nat /\ s \in 1..n /\ s # 0 /\ seeders[s].starting /\ seeders[s] \in Made
      /\ k \in SeedModel /\ k = seeders[s].model
  BY <1>0, SeedingFields DEF Started, Starting, SeedingInv
<1>2. /\ seeders' = [seeders EXCEPT ![s].starting = FALSE, ![s].listens = TRUE]
      /\ listed' = listed \cup {k} /\ active' = [active EXCEPT ![k] = s]
      /\ hook' = IF hook.page = seeders[s].page THEN [hook EXCEPT !.sharing = TRUE] ELSE hook
      /\ UNCHANGED <<publishing, quit, doubled, switched>>
  BY <1>0 DEF Started
<1>3. seeders' = [seeders EXCEPT ![s] = c]
  BY <1>2
<1>4. /\ c \in Made /\ c.model = k /\ c.page = seeders[s].page /\ ~c.starting /\ c.listens
      /\ c.on = seeders[s].on
  BY <1>0, <1>1 DEF Made
<1> HIDE DEF c
<1>5. /\ seeders' \in Seq(Made) /\ Len(seeders') = n /\ seeders'[s] = c
      /\ \A t \in 1..n : t # s => seeders'[t] = seeders[t]
      /\ DOMAIN seeders' = 1..n
  BY <1>1, <1>3, <1>4, ExceptSeq, LenProperties DEF SeedingInv, SeedingTypeOK
<1>6. /\ hook' \in Hook /\ hook'.page = hook.page /\ hook'.model = hook.model
      /\ hook'.ref = hook.ref /\ hook'.sent = hook.sent
      /\ hook'.sharing <=> hook.sharing \/ hook.page = seeders[s].page
  <2>1. hook \in Hook
    BY DEF SeedingInv, SeedingTypeOK
  <2> QED BY <1>2, <2>1 DEF Hook
<1>7. /\ active' \in [SeedModel -> 0..n] /\ active'[k] = s
      /\ \A x \in SeedModel : x # k => active'[x] = active[x]
  BY <1>1, <1>2 DEF SeedingInv, SeedingTypeOK
<1>8. SeedingTypeOK'
  BY <1>1, <1>2, <1>5, <1>6, <1>7 DEF SeedingInv, SeedingTypeOK
<1>9. \A t \in 1..n : /\ seeders'[t].model = seeders[t].model
                      /\ seeders'[t].page = seeders[t].page
                      /\ seeders'[t].on = seeders[t].on
                      /\ seeders[t].listens => seeders'[t].listens
                      /\ t # s => /\ seeders'[t].starting = seeders[t].starting
                                  /\ seeders'[t].listens = seeders[t].listens
  BY <1>0, <1>4, <1>5
<1>10. SeedersMade'
  <2> SUFFICES ASSUME NEW t \in 1..n
               PROVE  /\ seeders'[t].page <= hook'.page
                      /\ seeders'[t].on \/ seeders'[t].model \in quit
                      /\ seeders'[t].on /\ ~seeders'[t].starting => seeders'[t].listens
                      /\ seeders'[t].starting => ~seeders'[t].listens
                      /\ ~switched /\ seeders'[t].starting =>
                            seeders'[t].on \/ seeders'[t].model \in doubled
                      /\ \A u \in 1..n :
                            /\ t # u /\ seeders'[t].model = seeders'[u].model
                            /\ seeders'[t].on /\ seeders'[u].on
                            => seeders'[t].model \in doubled
    BY <1>2, <1>5 DEF SeedersMade
  <2>1. /\ seeders'[t].page <= hook'.page
        /\ seeders'[t].on \/ seeders'[t].model \in quit
        /\ \A u \in 1..n :
              /\ t # u /\ seeders'[t].model = seeders'[u].model
              /\ seeders'[t].on /\ seeders'[u].on
              => seeders'[t].model \in doubled
    BY <1>6, <1>9 DEF SeedingInv, SeedersMade
  <2>2. CASE t = s
    BY <1>4, <1>5, <2>1, <2>2
  <2>3. CASE t # s
    BY <1>9, <2>1, <2>3 DEF SeedingInv, SeedersMade
  <2> QED BY <2>2, <2>3
<1>11. MapKept'
  <2> SUFFICES ASSUME NEW x \in SeedModel, active'[x] # 0
               PROVE  /\ seeders'[active'[x]].model = x /\ ~seeders'[active'[x]].starting
                      /\ x \in listed'
                      /\ ~switched /\ x \notin doubled => seeders'[active'[x]].on
    BY <1>2 DEF MapKept
  <2>1. CASE x = k
    BY <1>1, <1>2, <1>4, <1>5, <1>7, <2>1 DEF SeedingInv, SeedersMade
  <2>2. CASE x # k
    <3>1. active'[x] = active[x] /\ active[x] \in 1..n
      BY <1>7, <2>2, SeedingFields DEF SeedingInv
    <3>2. active[x] # s
      BY <1>1, <2>2, <3>1 DEF SeedingInv, MapKept
    <3> QED BY <1>2, <1>9, <3>1, <3>2 DEF SeedingInv, MapKept
  <2> QED BY <2>1, <2>2
<1>12. ListKept'
  <2>1. \A x : Serving(x) \subseteq Serving(x)'
    BY <1>5, <1>9, SeedingFields DEF Serving, SeedingInv
  <2>2. k \in quit \/ s \in Serving(k)'
    BY <1>1, <1>4, <1>5 DEF Serving, SeedingInv, SeedersMade
  <2>3. \A x \in listed : x \in quit \/ Serving(x)' # {}
    BY <2>1 DEF SeedingInv, ListKept
  <2>4. k \in quit \/ Serving(k)' # {}
    BY <2>2
  <2> QED BY <1>2, <2>3, <2>4 DEF ListKept
<1>13. \A t \in 1..n : Awaits(t)' <=> t # s /\ Awaits(t)
  BY <1>4, <1>5, <1>6, <1>9 DEF Awaits
<1>14. RefKept'
  <2>1. CASE hook.ref = s
    BY <1>1, <1>6, <2>1 DEF SeedingInv, RefKept, Awaits
  <2>2. CASE hook.ref # s
    <3>1. hook.ref # 0 => hook.ref \in 1..n
      BY SeedingFields DEF SeedingInv
    <3>2. \A t : t = hook'.ref <=> t = hook.ref
      BY <1>6
    <3> QED BY <1>6, <1>9, <2>2, <3>1 DEF SeedingInv, RefKept, Awaits
  <2> QED BY <2>1, <2>2
<1>15. \A x : Shared(x) => Shared(x)'
  <2> SUFFICES ASSUME NEW x \in SeedModel, Shared(x) PROVE Shared(x)'
    BY DEF Shared
  <2>1. CASE x = k
    BY <1>1, <1>7, <2>1 DEF Shared
  <2>2. CASE x # k
    <3>1. ASSUME NEW t \in 1..n, seeders[t].starting, seeders[t].model = x
          PROVE  seeders'[t].starting /\ seeders'[t].model = x
      BY <1>0, <1>9, <2>2, <3>1
    <3> QED BY <1>2, <1>5, <1>7, <2>2, <3>1 DEF Shared
  <2> QED BY <2>1, <2>2
<1>16. HookKept'
  <2> SUFFICES ASSUME ~switched PROVE HookKept'
    BY <1>2 DEF HookKept
  <2>1. hook'.ref # 0 => seeders'[hook'.ref].model = hook'.model
    BY <1>6, <1>9, SeedingFields DEF SeedingInv, HookKept
  <2>2. \A t \in 1..n :
           Awaits(t)' => /\ seeders'[t].model = hook'.model
                         /\ t = hook'.ref \/ hook'.model \in doubled
                         /\ hook'.ref = 0 => hook'.model \in quit
    BY <1>6, <1>9, <1>13 DEF SeedingInv, HookKept
  <2>3. hook'.sent => Shared(hook.model)'
    BY <1>6, <1>15 DEF SeedingInv, HookKept
  <2>4. hook'.sharing =>
           /\ hook'.ref = 0 => hook'.model \in quit
           /\ Shared(hook.model)'
           /\ hook'.model \in doubled \/ (hook'.ref = active'[hook'.model] /\ hook'.ref # 0)
    <3>1. CASE hook.page = seeders[s].page
      <4>1. /\ k = hook.model
            /\ s = hook.ref \/ hook.model \in doubled
            /\ hook.ref = 0 => hook.model \in quit
        BY <1>1, <3>1 DEF SeedingInv, HookKept, Awaits
      <4>2. Shared(k)'
        BY <1>1, <1>7 DEF Shared
      <4>3. Shared(hook.model)'
        BY <4>1, <4>2, <1>6
      <4>4. hook'.ref = 0 => hook'.model \in quit
        BY <1>6, <4>1
      <4>5. hook'.model \in doubled \/ (hook'.ref = active'[hook'.model] /\ hook'.ref # 0)
        BY <1>1, <1>6, <1>7, <4>1
      <4> QED BY <4>3, <4>4, <4>5
    <3>2. CASE hook.page # seeders[s].page
      <4>1. hook.sharing /\ hook.model = k => hook.model \in doubled
        <5> SUFFICES ASSUME hook.sharing, hook.model = k, k \notin doubled PROVE FALSE
          OBVIOUS
        <5>1. hook.ref = active[k] /\ hook.ref # 0 /\ ~seeders[hook.ref].starting
          BY SharedByTheMap
        <5> QED BY <1>1, <5>1, OneOfAModel
      <4>2. hook.sharing =>
               /\ hook.ref = 0 => hook.model \in quit
               /\ Shared(hook.model) /\ hook.model \in SeedModel
               /\ hook.model \in doubled \/ (hook.ref = active[hook.model] /\ hook.ref # 0)
        BY DEF SeedingInv, HookKept, Shared
      <4>3. Shared(hook.model) => Shared(hook.model)'
        BY <1>6, <1>15
      <4> QED BY <1>6, <1>7, <3>2, <4>1, <4>2, <4>3
    <3> QED BY <3>1, <3>2
  <2> QED BY <1>2, <1>5, <2>1, <2>2, <2>3, <2>4 DEF HookKept
<1>17. PublishKept'
  BY <1>2, <1>6, <1>15 DEF SeedingInv, PublishKept
<1> QED BY <1>8, <1>10, <1>11, <1>12, <1>14, <1>16, <1>17 DEF SeedingInv

\* Stop: the map forgets the page's model, and its seeder, if the page has one, is off;
\* of a model started once that is the map's.
LEMMA StopKeeps == ASSUME SeedingInv, StopSeeding PROVE SeedingInv'
<1> DEFINE n == Len(seeders)
           c == [seeders[hook.ref] EXCEPT !.on = FALSE, !.listens = FALSE]
<1>0. PICK r, m : r = hook.ref /\ m = hook.model
  OBVIOUS
<1>1. /\ hook.sharing /\ n \in Nat /\ (r # 0 => r \in 1..n /\ seeders[r] \in Made)
      /\ active' = Forget(m)
      /\ hook' = [hook EXCEPT !.ref = 0, !.sharing = FALSE]
      /\ UNCHANGED <<listed, publishing, doubled, switched>>
      /\ r = 0 => seeders' = seeders /\ quit' = quit
      /\ r # 0 => /\ seeders' = [seeders EXCEPT ![r] = c]
                  /\ quit' = quit \cup {seeders[r].model}
  BY <1>0, SeedingFields DEF StopSeeding, SeedingInv
<1>2. r # 0 => /\ c \in Made /\ c.model = seeders[r].model /\ c.page = seeders[r].page
               /\ c.starting = seeders[r].starting /\ ~c.on /\ ~c.listens
  BY <1>0, <1>1 DEF Made
<1> HIDE DEF c
<1>3. /\ seeders' \in Seq(Made) /\ Len(seeders') = n /\ DOMAIN seeders' = 1..n
      /\ \A s \in 1..n :
            /\ seeders'[s].model = seeders[s].model /\ seeders'[s].page = seeders[s].page
            /\ seeders'[s].starting = seeders[s].starting
            /\ s # r => seeders'[s] = seeders[s]
            /\ s = r => ~seeders'[s].on /\ ~seeders'[s].listens
  <2>1. CASE r = 0
    BY <1>1, <2>1, LenProperties DEF SeedingInv, SeedingTypeOK
  <2>2. CASE r # 0
    <3>1. /\ seeders \in Seq(Made) /\ r \in 1..Len(seeders) /\ c \in Made
          /\ seeders' = [seeders EXCEPT ![r] = c]
      BY <1>1, <1>2, <2>2 DEF SeedingInv, SeedingTypeOK
    <3>2. /\ seeders' \in Seq(Made) /\ Len(seeders') = n /\ seeders'[r] = c
          /\ \A t \in 1..n : t # r => seeders'[t] = seeders[t]
      BY <3>1, ExceptSeq
    <3>3. DOMAIN seeders' = 1..n
      BY <3>2, LenProperties
    <3> QED BY <1>2, <2>2, <3>2, <3>3
  <2> QED BY <2>1, <2>2
<1>4. /\ hook' \in Hook /\ hook'.page = hook.page /\ hook'.model = m
      /\ hook'.ref = 0 /\ hook'.sent = hook.sent /\ ~hook'.sharing
  BY <1>0, <1>1 DEF SeedingInv, SeedingTypeOK, Hook
<1>5. /\ active' \in [SeedModel -> 0..n]
      /\ \A x \in SeedModel : active'[x] = IF x = m THEN 0 ELSE active[x]
  BY <1>0, <1>1, SeedingFields, SeedingAssumption DEF SeedingInv, SeedingTypeOK, Forget
<1>6. SeedingTypeOK'
  BY <1>1, <1>3, <1>4, <1>5 DEF SeedingInv, SeedingTypeOK
<1>7. quit \subseteq quit' /\ (r # 0 => seeders[r].model \in quit')
      /\ (~switched => m \in quit')
  BY <1>0, <1>1 DEF SeedingInv, HookKept
<1>8. ASSUME ~switched, r # 0
      PROVE  /\ seeders[r].model = m
             /\ m \in doubled \/ (r = active[m] /\ ~seeders[r].starting)
  <2>1. seeders[r].model = m
    BY <1>0, <1>8 DEF SeedingInv, HookKept
  <2>2. m \notin doubled => r = active[m] /\ ~seeders[r].starting
    BY <1>0, <1>1, <1>8, SharedByTheMap
  <2> QED BY <2>1, <2>2
<1>9. SeedersMade'
  <2> SUFFICES ASSUME NEW s \in 1..n
               PROVE  /\ seeders'[s].page <= hook'.page
                      /\ seeders'[s].on \/ seeders'[s].model \in quit'
                      /\ seeders'[s].on /\ ~seeders'[s].starting => seeders'[s].listens
                      /\ seeders'[s].starting => ~seeders'[s].listens
                      /\ ~switched /\ seeders'[s].starting =>
                            seeders'[s].on \/ seeders'[s].model \in doubled
                      /\ \A t \in 1..n :
                            /\ s # t /\ seeders'[s].model = seeders'[t].model
                            /\ seeders'[s].on /\ seeders'[t].on
                            => seeders'[s].model \in doubled
    BY <1>1, <1>3 DEF SeedersMade
  <2>1. CASE s = r
    <3>1. /\ seeders'[s].page <= hook'.page /\ seeders'[s].model \in quit'
          /\ ~seeders'[s].on /\ ~seeders'[s].listens
      BY <1>1, <1>3, <1>4, <1>7, <2>1 DEF SeedingInv, SeedersMade
    <3>2. ~switched /\ seeders'[s].starting => seeders'[s].model \in doubled
      BY <1>1, <1>3, <1>8, <2>1
    <3> QED BY <3>1, <3>2
  <2>2. CASE s # r
    <3>1. seeders'[s] = seeders[s]
      BY <1>3, <2>2
    <3>2. ASSUME NEW t \in 1..n, s # t, seeders'[s].model = seeders'[t].model,
                 seeders'[s].on, seeders'[t].on
          PROVE  seeders'[s].model \in doubled
      <4>1. t # r
        BY <1>3, <3>2
      <4>2. seeders'[t] = seeders[t]
        BY <1>3, <4>1
      <4> QED BY <3>1, <3>2, <4>2 DEF SeedingInv, SeedersMade
    <3> QED BY <1>4, <1>7, <3>1, <3>2 DEF SeedingInv, SeedersMade
  <2> QED BY <2>1, <2>2
<1>10. MapKept'
  <2> SUFFICES ASSUME NEW x \in SeedModel, active'[x] # 0
               PROVE  /\ seeders'[active'[x]].model = x /\ ~seeders'[active'[x]].starting
                      /\ x \in listed
                      /\ ~switched /\ x \notin doubled => seeders'[active'[x]].on
    BY <1>1 DEF MapKept
  <2>1. x # m /\ active'[x] = active[x] /\ active[x] \in 1..n
    BY <1>5, SeedingFields DEF SeedingInv
  <2>2. seeders[active[x]].model = x
    BY <2>1 DEF SeedingInv, MapKept
  <2>3. ~switched => active[x] # r
    BY <1>1, <1>8, <2>1, <2>2
  <2> QED BY <1>3, <2>1, <2>3 DEF SeedingInv, MapKept
<1>11. ListKept'
  <2> SUFFICES ASSUME NEW x \in listed, x \notin quit' PROVE Serving(x)' # {}
    BY <1>1 DEF ListKept
  <2>1. PICK s \in 1..n : s \in Serving(x)
    BY <1>7, SeedingFields DEF SeedingInv, ListKept, Serving
  <2>2. s # r
    BY <1>1, <1>7, <2>1 DEF Serving
  <2>3. s \in Serving(x)'
    BY <1>3, <2>1, <2>2 DEF Serving
  <2> QED BY <2>3
<1>12. RefKept'
  BY <1>4 DEF RefKept
<1>13. ASSUME ~switched, NEW x, Shared(x) PROVE Shared(x)'
  BY <1>3, <1>5, <1>7, <1>13 DEF Shared
<1>14. HookKept'
  <2> SUFFICES ASSUME ~switched PROVE HookKept'
    BY <1>1 DEF HookKept
  <2>1. ASSUME NEW s \in 1..n, Awaits(s)'
        PROVE  /\ seeders'[s].model = hook'.model
               /\ s = hook'.ref \/ hook'.model \in doubled
               /\ hook'.ref = 0 => hook'.model \in quit'
    <3>1. seeders[s].starting /\ seeders[s].page = hook.page /\ seeders[s].model = m
      BY <1>0, <1>3, <1>4, <2>1 DEF Awaits, SeedingInv, HookKept
    <3>2. m \in doubled
      <4> SUFFICES ASSUME m \notin doubled PROVE FALSE
        OBVIOUS
      <4>1. m \in SeedModel /\ r = active[m] /\ r # 0 /\ ~seeders[r].starting
        BY <1>0, <1>1, SharedByTheMap
      <4> QED BY <3>1, <4>1, OneOfAModel
    <3> QED BY <1>3, <1>4, <1>7, <3>1, <3>2
  <2>2. hook'.sent => Shared(hook.model)'
    <3>1. hook.sent => Shared(m)
      BY <1>0 DEF SeedingInv, HookKept
    <3> QED BY <1>4, <1>13, <3>1
  <2> QED BY <1>1, <1>3, <1>4, <2>1, <2>2 DEF HookKept
<1>15. PublishKept'
  <2>1. PICK p : p = publishing.model
    OBVIOUS
  <2>2. p = publishing'.model
    BY <1>1, <2>1
  <2>3. ~switched /\ publishing # NoPublishing /\ publishing.sharing => Shared(p)'
    BY <1>13, <2>1 DEF SeedingInv, PublishKept
  <2> QED BY <1>0, <1>1, <1>4, <2>1, <2>2, <2>3 DEF SeedingInv, PublishKept
<1> QED BY <1>6, <1>9, <1>10, <1>11, <1>12, <1>14, <1>15 DEF SeedingInv

\* Registered anew: every seeder of the map announces its model.
LEMMA HubRegisteredKeeps == ASSUME SeedingInv, OnHubRegistered PROVE SeedingInv'
<1>1. /\ listed' = {m \in SeedModel : active[m] # 0}
                   \cup {seeders[s].model : s \in {t \in DOMAIN seeders :
                                                      seeders[t].on /\ seeders[t].listens}}
      /\ UNCHANGED <<hook, active, seeders, publishing, quit, doubled, switched>>
  BY DEF OnHubRegistered
<1>2. SeedingTypeOK'
  BY <1>1, SeedingFields DEF SeedingInv, SeedingTypeOK
<1>3. MapKept'
  BY <1>1 DEF SeedingInv, MapKept
<1>4. ListKept'
  <2> SUFFICES ASSUME NEW m \in listed', m \notin quit PROVE Serving(m) # {}
    BY <1>1 DEF ListKept, Serving
  <2>1. CASE m \in SeedModel /\ active[m] # 0
    <3>1. /\ active[m] \in 1..Len(seeders) /\ seeders[active[m]].model = m
          /\ ~seeders[active[m]].starting
      BY <2>1, SeedingFields DEF SeedingInv, MapKept
    <3>2. active[m] \in Serving(m)
      BY <3>1, SeedingFields DEF Serving, SeedingInv, SeedersMade
    <3> QED BY <3>2
  <2>2. CASE \E s \in DOMAIN seeders : seeders[s].on /\ seeders[s].listens /\ seeders[s].model = m
    BY <2>2 DEF Serving
  <2> QED BY <1>1, <2>1, <2>2
<1>5. SeedersMade' /\ RefKept' /\ HookKept' /\ PublishKept'
  BY <1>1 DEF SeedingInv, SeedersMade, RefKept, Awaits, HookKept, PublishKept, Shared
<1> QED BY <1>2, <1>3, <1>4, <1>5 DEF SeedingInv

LEMMA SeedingStep == SeedingInv /\ [SeedingNext]_seedingVars => SeedingInv'
<1> SUFFICES ASSUME SeedingInv, [SeedingNext]_seedingVars PROVE SeedingInv'
  OBVIOUS
<1>1. CASE UNCHANGED seedingVars
  BY <1>1 DEF seedingVars, SeedingInv, SeedingTypeOK, SeedersMade, MapKept, ListKept, Serving,
              RefKept, Awaits, HookKept, PublishKept, Shared
<1>2. CASE SeedingNext
  BY <1>2, NavigateKeeps, NextModelKeeps, StartedKeeps, ShareKeeps, PublishKeeps, PublishedKeeps,
     StopKeeps, HubRegisteredKeeps DEF SeedingNext
<1> QED BY <1>1, <1>2

\* What a tab that seeds can rely on (SeedingCorrect): the map has each model's own
\* seeder; whatever the hub lists the tab for answers offers until it is stopped, over
\* navigation and the hub's restarts; and a published model is shared.
THEOREM BrowserSeedingCorrect == SeedingSpec => []SeedingCorrect
<1>1. SeedingInv => SeedingCorrect
  <2> SUFFICES ASSUME SeedingInv PROVE MapTrue /\ ListedIsServed /\ PublishedIsShared
    BY DEF SeedingCorrect
  <2>1. MapTrue
    <3> SUFFICES ASSUME NEW m \in SeedModel
                 PROVE  /\ active[m] # 0 => seeders[active[m]].model = m
                        /\ ~switched /\ m \notin doubled /\ active[m] # 0 =>
                              {s \in DOMAIN seeders : seeders[s].model = m /\ seeders[s].on}
                                  = {active[m]}
                                  /\ Serving(m) = {active[m]}
                        /\ ~switched /\ m \notin doubled /\ hook.model = m /\ hook.sharing =>
                              active[m] # 0 /\ hook.ref = active[m]
      BY DEF MapTrue
    <3>1. active[m] # 0 => seeders[active[m]].model = m
      BY DEF SeedingInv, MapKept
    <3>2. ASSUME ~switched, m \notin doubled, active[m] # 0
          PROVE  /\ {s \in DOMAIN seeders : seeders[s].model = m /\ seeders[s].on} = {active[m]}
                 /\ Serving(m) = {active[m]}
      <4>1. /\ active[m] \in 1..Len(seeders) /\ DOMAIN seeders = 1..Len(seeders)
            /\ seeders[active[m]].model = m /\ seeders[active[m]].on
            /\ seeders[active[m]].listens
        BY <3>2, SeedingFields DEF SeedingInv, MapKept, SeedersMade
      <4>2. \A s \in 1..Len(seeders) : seeders[s].model = m /\ seeders[s].on => s = active[m]
        BY <3>2, OneOfAModel
      <4> QED BY <4>1, <4>2 DEF Serving
    <3>3. ~switched /\ m \notin doubled /\ hook.model = m /\ hook.sharing =>
              active[m] # 0 /\ hook.ref = active[m]
      BY SharedByTheMap
    <3> QED BY <3>1, <3>2, <3>3
  <2>2. ListedIsServed
    BY DEF SeedingInv, ListKept, MapKept, ListedIsServed
  <2>3. PublishedIsShared
    BY SeedingFields DEF SeedingInv, HookKept, Shared, PublishedIsShared, Starting
  <2> QED BY <2>1, <2>2, <2>3
<1> QED BY <1>1, SeedingStarts, SeedingStep, PTL DEF SeedingSpec
-----------------------------------------------------------------------------
\* The upload wizard.

Pieces == [file : File \cup {NoFile}, count : Nat]
Held == [busy : BOOLEAN, id : Nat, file : File \cup {NoFile}, pieces : Pieces,
         cid : Nat \cup {FakeCid}, by : Wallet \cup {NoWallet}]

\* The types; a model ID is the number of its hashing, the wizard has the last.
WizardTypeOK ==
    /\ wizard \in [file : File \cup {NoFile}, id : Nat, pieces : Pieces, hashed : BOOLEAN,
                   cid : Nat \cup {FakeCid}, sent : BOOLEAN]
    /\ work \in [hash : Held, pin : Held, register : Held]
    /\ account \in Wallet \cup {NoWallet}
    /\ creators \in Seq(Wallet \cup {NoWallet})
    /\ chunkStore \in Seq(Pieces)
    /\ Len(chunkStore) = Len(creators)
    /\ wizard.id = Len(creators)
    /\ passports \in Seq([id : Nat, pieces : Pieces, by : Wallet \cup {NoWallet}])
    /\ changed \in BOOLEAN

\* The pieces a handler has of a model are all it will ever have.
Whole(id, pieces) ==
    pieces.count > 0 =>
        id \in 1..Len(chunkStore) /\ chunkStore[id] = pieces /\ pieces.count = SizeOf[pieces.file]

\* Only the last model ID is being filled, and the wizard has no pieces meanwhile.
Filling ==
    /\ work.hash.busy =>
          /\ ~wizard.hashed
          /\ work.hash.id = Len(creators) /\ Len(creators) > 0
          /\ work.hash.file \in File
          /\ \/ chunkStore[work.hash.id] = NoPieces
             \/ /\ chunkStore[work.hash.id].file = work.hash.file
                /\ chunkStore[work.hash.id].count \in 0..SizeOf[work.hash.file]
    /\ ~wizard.hashed => wizard.pieces = NoPieces
    /\ Whole(wizard.id, wizard.pieces)
    /\ work.register.busy => /\ work.register.id \in 1..Len(creators)
                             /\ Whole(work.register.id, work.register.pieces)

\* CountIsStored, for entries that have an ID and chunks.
Recorded ==
    \A e \in registry :
        /\ e.id \in 1..Len(creators) /\ e.id \in localModels
        /\ e.count > 0 /\ e.count = chunkStore[e.id].count
        /\ e.count = SizeOf[chunkStore[e.id].file]
        /\ \A d \in registry : d.id = e.id => d = e

\* The passport of that CID is this one.
Names(cid, id, pieces, by) ==
    cid # FakeCid =>
        cid \in 1..Len(passports) /\ passports[cid] = [id |-> id, pieces |-> pieces, by |-> by]

\* What the handlers have is what the wizard shows.
Together ==
    /\ \A i \in 1..Len(creators) : creators[i] = account
    /\ work.pin.busy =>
          /\ wizard.hashed /\ wizard.pieces.count > 0 /\ wizard.cid = NoCid
          /\ work.pin.id = wizard.id /\ work.pin.pieces = wizard.pieces /\ work.pin.by = account
    /\ wizard.cid # NoCid =>
          /\ wizard.hashed /\ wizard.pieces.count > 0
          /\ Names(wizard.cid, wizard.id, wizard.pieces, account)
    /\ work.register.busy =>
          /\ wizard.cid # NoCid
          /\ work.register.id = wizard.id /\ work.register.cid = wizard.cid
          /\ work.register.pieces = wizard.pieces
    /\ \A e \in registry :
          e.owner = account /\ Names(e.cid, e.id, chunkStore[e.id], account)
    /\ \A id \in localModels : \E e \in registry : e.id = id

WizardInv == WizardTypeOK /\ Filling /\ Recorded /\ (~changed => Together)

LEMMA WizardFields ==
    ASSUME WizardTypeOK
    PROVE  /\ Len(creators) \in Nat /\ Len(passports) \in Nat /\ Len(chunkStore) = Len(creators)
           /\ DOMAIN chunkStore = 1..Len(creators)
           /\ \A i \in 1..Len(creators) : chunkStore[i] \in Pieces /\ chunkStore[i].count \in Nat
           /\ wizard.pieces \in Pieces /\ wizard.pieces.count \in Nat
           /\ wizard.file \in File \cup {NoFile} /\ wizard.id = Len(creators)
           /\ work.hash \in Held /\ work.pin \in Held /\ work.register \in Held
           /\ DOMAIN work = {"hash", "pin", "register"}
<1>1. /\ Len(creators) \in Nat /\ Len(passports) \in Nat /\ Len(chunkStore) = Len(creators)
      /\ DOMAIN chunkStore = 1..Len(creators)
  BY LenProperties DEF WizardTypeOK
<1>2. \A i \in 1..Len(creators) : chunkStore[i] \in Pieces
  BY <1>1, ElementOfSeq DEF WizardTypeOK
<1>3. \A p \in Pieces : p.count \in Nat
  BY DEF Pieces
<1>4. /\ wizard.pieces \in Pieces /\ wizard.file \in File \cup {NoFile} /\ wizard.id = Len(creators)
      /\ work.hash \in Held /\ work.pin \in Held /\ work.register \in Held
      /\ DOMAIN work = {"hash", "pin", "register"}
  BY DEF WizardTypeOK
<1> QED BY <1>1, <1>2, <1>3, <1>4

\* The page's state, by itself.
WizardState == [file : File \cup {NoFile}, id : Nat, pieces : Pieces, hashed : BOOLEAN,
                cid : Nat \cup {FakeCid}, sent : BOOLEAN]

\* NoPieces and NoWork are of the types.
LEMMA Nothing == /\ NoPieces \in Pieces /\ NoPieces.count = 0
                 /\ NoWork \in Held /\ NoWork.busy = FALSE
BY DEF NoPieces, NoWork, Pieces, Held

LEMMA WizardStarts == WizardInit => WizardInv
<1> SUFFICES ASSUME WizardInit PROVE WizardInv
  OBVIOUS
<1>1. /\ creators = <<>> /\ chunkStore = <<>> /\ passports = <<>>
      /\ Len(creators) = 0 /\ Len(chunkStore) = 0 /\ Len(passports) = 0
      /\ creators \in Seq(Wallet \cup {NoWallet}) /\ chunkStore \in Seq(Pieces)
      /\ passports \in Seq([id : Nat, pieces : Pieces, by : Wallet \cup {NoWallet}])
  BY EmptySeq DEF WizardInit
<1>2. WizardTypeOK
  BY <1>1, Nothing DEF WizardInit, WizardTypeOK, NoCid
<1>3. NoPieces.count = 0
  BY DEF NoPieces
<1>4. Filling /\ Recorded
  BY <1>1, <1>3, Nothing DEF WizardInit, Filling, Recorded, Whole
<1>5. Together
  BY <1>1, Nothing DEF WizardInit, Together, NoCid
<1> QED BY <1>2, <1>4, <1>5 DEF WizardInv

\* Another file: nothing the handlers have is touched, but what they wait for is
\* marked as changed.
LEMMA SelectKeeps ==
    ASSUME WizardInv, NEW f \in File \cup {NoFile}, HandleFileSelect(f)
    PROVE  WizardInv'
<1> DEFINE w == wizard
           n == Selected(f)
<1>1. /\ n \in [file : File \cup {NoFile}, id : Nat, pieces : Pieces, hashed : BOOLEAN,
                cid : Nat \cup {FakeCid}, sent : BOOLEAN]
      /\ n.id = wizard.id /\ ~n.hashed /\ n.pieces = NoPieces /\ n.cid = NoCid
  BY Nothing DEF WizardInv, WizardTypeOK, Selected, NoCid
<1>2. wizard' = n /\ UNCHANGED <<work, account, creators, chunkStore, passports, registry,
                                 localModels>>
      /\ changed' = (changed \/ Busy)
  BY DEF HandleFileSelect
<1> HIDE DEF n
<1>3. WizardTypeOK'
  BY <1>1, <1>2 DEF WizardInv, WizardTypeOK
<1>4. NoPieces.count = 0
  BY DEF NoPieces
<1>5. Filling'
  BY <1>1, <1>2, <1>4 DEF WizardInv, Filling, Whole
<1>6. Recorded'
  BY <1>2 DEF WizardInv, Recorded
<1>7. ~changed' => Together'
  <2> SUFFICES ASSUME ~changed' PROVE Together'
    OBVIOUS
  <2>1. ~changed /\ ~Busy
    BY <1>2
  <2>2. ~work.pin.busy /\ ~work.register.busy
    BY <2>1, WizardFields DEF Busy, WizardInv
  <2> QED BY <1>1, <1>2, <2>1, <2>2 DEF WizardInv, Together, Names
<1> QED BY <1>3, <1>5, <1>6, <1>7 DEF WizardInv

\* Another account, likewise; before the first hashing nothing has an owner.
LEMMA SwitchKeeps ==
    ASSUME WizardInv, NEW a \in Wallet \cup {NoWallet}, SwitchAccount(a)
    PROVE  WizardInv'
<1>1. /\ UNCHANGED <<wizard, work, creators, chunkStore, passports, registry, localModels>>
      /\ account' = a /\ changed' = (changed \/ Busy \/ wizard.id # 0)
  BY DEF SwitchAccount
<1>2. WizardTypeOK' /\ Filling' /\ Recorded'
  BY <1>1 DEF WizardInv, WizardTypeOK, Filling, Recorded, Whole
<1>3. ~changed' => Together'
  <2> SUFFICES ASSUME ~changed' PROVE Together'
    OBVIOUS
  <2>1. ~changed /\ ~Busy /\ wizard.id = 0
    BY <1>1
  <2>2. ~work.pin.busy /\ ~work.register.busy
    BY <2>1, WizardFields DEF Busy, WizardInv
  <2>3. Len(creators) = 0 /\ Len(chunkStore) = 0
    BY <2>1 DEF WizardInv, WizardTypeOK
  <2>4. ~(wizard.pieces.count > 0)
    BY <2>1, <2>3 DEF WizardInv, Filling, Whole
  <2>5. registry = {}
    BY <2>3 DEF WizardInv, Recorded
  <2>6. wizard.cid = NoCid
    BY <2>1, <2>4 DEF WizardInv, Together
  <2> QED BY <1>1, <2>1, <2>2, <2>3, <2>5, <2>6 DEF WizardInv, Together
<1> QED BY <1>2, <1>3 DEF WizardInv

\* A new model ID: the wizard has no pieces, so no CID, and no handler waits with
\* what would now be another model's.
LEMMA HashingKeeps == ASSUME WizardInv, HandleStartHashing PROVE WizardInv'
<1> DEFINE n == Len(creators)
           h == [[NoWork EXCEPT !.id = n + 1, !.file = wizard.file] EXCEPT !.busy = TRUE]
<1>1. /\ n \in Nat /\ Len(chunkStore) = n
      /\ wizard.file \in File
      /\ wizard.id = n /\ DOMAIN work = {"hash", "pin", "register"}
  BY WizardFields DEF WizardInv, HandleStartHashing
<1>2. /\ h \in Held /\ h.busy /\ h.id = n + 1 /\ h.file = wizard.file
  <2> DEFINE read == [NoWork EXCEPT !.id = n + 1, !.file = wizard.file]
  <2>1. read \in Held /\ read.id = n + 1 /\ read.file = wizard.file
    <3>1. n + 1 \in Nat /\ wizard.file \in File \cup {NoFile} /\ NoWork \in Held
      BY <1>1, Nothing
    <3> QED BY <3>1 DEF Held
  <2> HIDE DEF read
  <2>2. h = [read EXCEPT !.busy = TRUE]
    BY DEF read
  <2> QED BY <2>1, <2>2 DEF Held
<1>3. /\ creators' = Append(creators, account) /\ chunkStore' = Append(chunkStore, NoPieces)
      /\ wizard' = [wizard EXCEPT !.id = n + 1] /\ work' = [work EXCEPT !["hash"] = h]
      /\ UNCHANGED <<account, passports, registry, localModels, changed>>
      /\ ~wizard.hashed /\ account \in Wallet \cup {NoWallet}
  BY DEF HandleStartHashing, Await, WizardInv, WizardTypeOK
<1>4. /\ creators' \in Seq(Wallet \cup {NoWallet}) /\ Len(creators') = n + 1
      /\ creators'[n + 1] = account /\ \A i \in 1..n : creators'[i] = creators[i]
  BY <1>1, <1>3, AppendProperties DEF WizardInv, WizardTypeOK
<1>5. /\ chunkStore' \in Seq(Pieces) /\ Len(chunkStore') = n + 1
      /\ chunkStore'[n + 1] = NoPieces /\ \A i \in 1..n : chunkStore'[i] = chunkStore[i]
  BY <1>1, <1>3, Nothing, AppendProperties DEF WizardInv, WizardTypeOK
<1> HIDE DEF h, n
<1>6. /\ work' \in [hash : Held, pin : Held, register : Held]
      /\ work'.hash = h /\ work'.pin = work.pin /\ work'.register = work.register
  BY <1>2, <1>3 DEF WizardInv, WizardTypeOK
<1>7. /\ wizard' \in [file : File \cup {NoFile}, id : Nat, pieces : Pieces, hashed : BOOLEAN,
                      cid : Nat \cup {FakeCid}, sent : BOOLEAN]
      /\ wizard'.id = n + 1 /\ wizard'.pieces = wizard.pieces /\ wizard'.hashed = wizard.hashed
      /\ wizard'.cid = wizard.cid
  <2>1. wizard \in WizardState /\ n + 1 \in Nat
    BY <1>1 DEF WizardInv, WizardTypeOK, WizardState
  <2> QED BY <2>1, <1>3 DEF WizardState
<1>8. WizardTypeOK'
  BY <1>3, <1>4, <1>5, <1>6, <1>7 DEF WizardInv, WizardTypeOK
<1>9. NoPieces.count = 0 /\ wizard.pieces = NoPieces
  BY <1>3 DEF NoPieces, WizardInv, Filling
<1>10. Filling'
  <2>1. Whole(wizard.id, wizard.pieces)' /\ (~wizard.hashed => wizard.pieces = NoPieces)'
    BY <1>7, <1>9 DEF Whole
  <2>2. work'.hash.busy => /\ ~wizard'.hashed /\ work'.hash.id = n + 1 /\ work'.hash.file \in File
                           /\ chunkStore'[work'.hash.id] = NoPieces
    BY <1>1, <1>2, <1>3, <1>5, <1>6, <1>7
  <2>3. work'.register.busy => /\ work'.register.id \in 1..(n + 1)
                               /\ Whole(work.register.id, work.register.pieces)'
    BY <1>1, <1>5, <1>6 DEF WizardInv, Filling, Whole, n
  <2> QED BY <2>1, <2>2, <2>3, <1>4, <1>1 DEF Filling
<1>11. Recorded'
  BY <1>1, <1>3, <1>4, <1>5 DEF WizardInv, Recorded, n
<1>12. ~changed' => Together'
  <2> SUFFICES ASSUME ~changed PROVE Together'
    BY <1>3
  <2>1. ~work.pin.busy /\ ~work.register.busy /\ wizard.cid = NoCid
    BY <1>3 DEF WizardInv, Together
  <2>2. \A i \in 1..Len(creators') : creators'[i] = account
    BY <1>1, <1>4 DEF WizardInv, Together, n
  <2>3. \A e \in registry : e.id \in 1..n /\ chunkStore'[e.id] = chunkStore[e.id]
    BY <1>5 DEF WizardInv, Recorded, n
  <2>4. \A e \in registry :
           e.owner = account /\ Names(e.cid, e.id, chunkStore'[e.id], account)
    BY <2>3 DEF WizardInv, Together
  <2> QED BY <2>1, <2>2, <2>4, <1>3, <1>6, <1>7 DEF WizardInv, Together, Names
<1> QED BY <1>8, <1>10, <1>11, <1>12 DEF WizardInv

\* Another chunk: of the last model, which has none of the whole pieces.
LEMMA StoreKeeps == ASSUME WizardInv, StoreChunk PROVE WizardInv'
<1> DEFINE h == work.hash
           n == Len(creators)
           c == [file |-> h.file, count |-> chunkStore[h.id].count + 1]
<1>1. /\ n \in Nat /\ Len(chunkStore) = n /\ DOMAIN chunkStore = 1..n
      /\ h.busy /\ h.id \in 1..n /\ h.id = n /\ h.file \in File /\ ~wizard.hashed
      /\ chunkStore[h.id].count < SizeOf[h.file]
      /\ \A i \in 1..n : chunkStore[i].count \in Nat
      /\ DOMAIN work = {"hash", "pin", "register"}
      /\ SizeOf[h.file] \in Nat
  BY WizardFields, WizardAssumption DEF WizardInv, Filling, StoreChunk, MoreChunks
<1>2. /\ UNCHANGED <<wizard, account, creators, passports, registry, localModels, changed>>
      /\ \/ chunkStore' = [chunkStore EXCEPT ![h.id] = c] /\ work' = work
         \/ work' = [work EXCEPT !["hash"] = NoWork] /\ chunkStore' = chunkStore
  BY <1>1 DEF StoreChunk, Through
<1>3. CASE work' = [work EXCEPT !["hash"] = NoWork] /\ chunkStore' = chunkStore
  <2>1. /\ work' \in [hash : Held, pin : Held, register : Held]
        /\ ~work'.hash.busy /\ work'.pin = work.pin /\ work'.register = work.register
    BY <1>3, Nothing DEF WizardInv, WizardTypeOK
  <2>2. WizardTypeOK' /\ Recorded'
    BY <1>2, <1>3, <2>1 DEF WizardInv, WizardTypeOK, Recorded
  <2>3. Filling'
    BY <1>2, <1>3, <2>1 DEF WizardInv, Filling, Whole
  <2>4. ~changed' => Together'
    BY <1>2, <1>3, <2>1 DEF WizardInv, Together, Names
  <2> QED BY <2>2, <2>3, <2>4 DEF WizardInv
<1>4. CASE chunkStore' = [chunkStore EXCEPT ![h.id] = c] /\ work' = work
  <2>1. /\ c \in Pieces /\ c.file = h.file /\ c.count = chunkStore[h.id].count + 1
        /\ c.count \in 0..SizeOf[h.file]
    <3>1. chunkStore[h.id].count \in Nat
      BY <1>1
    <3> QED BY <1>1, <3>1 DEF Pieces
  <2> HIDE DEF c
  <2>2. /\ chunkStore' \in Seq(Pieces) /\ Len(chunkStore') = n
        /\ chunkStore'[h.id] = c
        /\ \A i \in 1..n : i # h.id => chunkStore'[i] = chunkStore[i]
    <3>1. chunkStore \in Seq(Pieces) /\ h.id \in 1..Len(chunkStore) /\ n = Len(chunkStore)
      BY <1>1 DEF WizardInv, WizardTypeOK
    <3> HIDE DEF h, n
    <3> QED BY <1>1, <1>4, <2>1, <3>1, ExceptSeq
  <2>3. WizardTypeOK'
    BY <1>1, <1>2, <1>4, <2>2 DEF WizardInv, WizardTypeOK
  <2>4. \A id, p : Whole(id, p) => Whole(id, p)'
    <3> SUFFICES ASSUME NEW id, NEW p, Whole(id, p), p.count > 0,
                        id \in 1..n, chunkStore[id] = p, p.count = SizeOf[p.file]
                 PROVE  chunkStore'[id] = p
      BY <1>1, <2>2 DEF Whole
    <3>1. CASE id = h.id
      <4>1. chunkStore[h.id] # NoPieces
        BY <3>1, Nothing
      <4>2. p.file = h.file
        BY <3>1, <4>1, <1>1 DEF WizardInv, Filling
      <4> QED BY <3>1, <4>2, <1>1
    <3> QED BY <3>1, <2>2
  <2>5. Filling'
    <3>1. Whole(wizard.id, wizard.pieces)' /\ (~wizard.hashed => wizard.pieces = NoPieces)'
      BY <1>2, <2>4 DEF WizardInv, Filling, Whole
    <3>2. work.register.busy =>
             /\ work.register.id \in 1..n
             /\ Whole(work.register.id, work.register.pieces)'
      BY <1>4, <2>4 DEF WizardInv, Filling, Whole
    <3>3. /\ work'.hash.busy => /\ ~wizard'.hashed /\ work'.hash.id = n /\ n > 0
                                /\ work'.hash.file \in File
          /\ chunkStore'[work'.hash.id].file = work'.hash.file
          /\ chunkStore'[work'.hash.id].count \in 0..SizeOf[work'.hash.file]
      <4>1. work'.hash = h /\ wizard' = wizard /\ n > 0
        BY <1>1, <1>2, <1>4
      <4> HIDE DEF h, n
      <4> QED BY <1>1, <4>1, <2>1, <2>2
    <3>4. Len(creators') = n /\ work'.register = work.register
      BY <1>2, <1>4
    <3> HIDE DEF h, n
    <3> QED BY <3>1, <3>2, <3>3, <3>4 DEF Filling
  <2>6. \A e \in registry : chunkStore'[e.id] = chunkStore[e.id] /\ e.id \in 1..n
    <3> SUFFICES ASSUME NEW e \in registry PROVE e.id # h.id /\ e.id \in 1..n
      BY <2>2
    <3>1. /\ e.id \in 1..n /\ e.count > 0 /\ e.count = chunkStore[e.id].count
          /\ e.count = SizeOf[chunkStore[e.id].file]
      BY DEF WizardInv, Recorded
    <3>2. e.id # h.id
      <4> SUFFICES ASSUME e.id = h.id PROVE FALSE
        OBVIOUS
      <4>1. e.count = chunkStore[h.id].count /\ chunkStore[h.id].count \in Nat
        BY <3>1, <1>1
      <4>2. chunkStore[h.id] # NoPieces
        BY <3>1, <4>1, Nothing
      <4>3. chunkStore[h.id].file = h.file
        BY <4>2, <1>1 DEF WizardInv, Filling
      <4>4. e.count = SizeOf[h.file]
        BY <3>1, <4>3
      <4> QED BY <4>1, <4>4, <1>1
    <3> QED BY <3>1, <3>2
  <2>7. Recorded'
    BY <1>2, <2>6 DEF WizardInv, Recorded
  <2>8. ~changed' => Together'
    BY <1>2, <1>4, <2>6 DEF WizardInv, Together, Names
  <2> QED BY <2>3, <2>5, <2>7, <2>8 DEF WizardInv
<1> QED BY <1>2, <1>3, <1>4

\* The file is read: what the wizard gets is whole.
LEMMA HashedKeeps == ASSUME WizardInv, Hashed PROVE WizardInv'
<1> DEFINE h == work.hash
           n == Len(creators)
           p == chunkStore[h.id]
<1>1. /\ n \in Nat /\ Len(chunkStore) = n /\ DOMAIN chunkStore = 1..n
      /\ h.busy /\ h.id \in 1..n /\ h.id = n /\ h.file \in File /\ ~wizard.hashed
      /\ wizard.id = n
      /\ ~(p.count < SizeOf[h.file])
      /\ p \in Pieces /\ p.count \in Nat
      /\ DOMAIN work = {"hash", "pin", "register"}
      /\ SizeOf[h.file] \in Nat
  BY WizardFields, WizardAssumption DEF WizardInv, Filling, Hashed, MoreChunks
<1>2. /\ wizard' = [wizard EXCEPT !.pieces = p, !.hashed = TRUE]
      /\ work' = [work EXCEPT !["hash"] = NoWork]
      /\ UNCHANGED <<account, creators, chunkStore, passports, registry, localModels, changed>>
  BY DEF Hashed, Through
<1>3. Whole(n, p)
  <2>1. p.count > 0 => p # NoPieces
    BY DEF NoPieces
  <2>2. p.count > 0 => p.file = h.file /\ p.count \in 0..SizeOf[h.file]
    BY <1>1, <2>1 DEF WizardInv, Filling
  <2> QED BY <1>1, <2>2 DEF Whole
<1>4. p \in Pieces
  BY <1>1
<1> HIDE DEF p
<1>5. /\ work' \in [hash : Held, pin : Held, register : Held]
      /\ ~work'.hash.busy /\ work'.pin = work.pin /\ work'.register = work.register
  BY <1>2, Nothing DEF WizardInv, WizardTypeOK
<1>6. /\ wizard' \in [file : File \cup {NoFile}, id : Nat, pieces : Pieces, hashed : BOOLEAN,
                      cid : Nat \cup {FakeCid}, sent : BOOLEAN]
      /\ wizard'.id = n /\ wizard'.pieces = p /\ wizard'.hashed
      /\ wizard'.cid = wizard.cid
  BY <1>1, <1>2, <1>4 DEF WizardInv, WizardTypeOK
<1>7. WizardTypeOK' /\ Recorded'
  BY <1>2, <1>5, <1>6 DEF WizardInv, WizardTypeOK, Recorded
<1>8. Filling'
  BY <1>2, <1>3, <1>5, <1>6 DEF WizardInv, Filling, Whole
<1>9. ~changed' => Together'
  <2> SUFFICES ASSUME ~changed PROVE Together'
    BY <1>2
  <2>1. ~work.pin.busy /\ ~work.register.busy /\ wizard.cid = NoCid
    BY <1>1 DEF WizardInv, Together
  <2> QED BY <2>1, <1>2, <1>5, <1>6 DEF WizardInv, Together, Names
<1> QED BY <1>7, <1>8, <1>9 DEF WizardInv

\* The pin handler starts with what the wizard shows.
LEMMA PinKeeps == ASSUME WizardInv, HandlePinPassport PROVE WizardInv'
<1> DEFINE read == [NoWork EXCEPT !.id = wizard.id, !.file = wizard.file,
                                  !.pieces = wizard.pieces, !.by = account]
           h == [read EXCEPT !.busy = TRUE]
<1>1. /\ wizard.pieces.count > 0 /\ wizard.cid = NoCid
      /\ work' = [work EXCEPT !["pin"] = h]
      /\ UNCHANGED <<wizard, account, creators, chunkStore, passports, registry, localModels,
                     changed>>
  BY DEF HandlePinPassport, Await
<1>2. read \in Held /\ read.id = wizard.id /\ read.pieces = wizard.pieces /\ read.by = account
  <2>1. /\ wizard.id \in Nat /\ wizard.file \in File \cup {NoFile} /\ wizard.pieces \in Pieces
        /\ account \in Wallet \cup {NoWallet} /\ NoWork \in Held
    BY WizardFields, Nothing DEF WizardInv, WizardTypeOK
  <2> QED BY <2>1 DEF Held
<1> HIDE DEF read
<1>3. h \in Held /\ h.id = wizard.id /\ h.pieces = wizard.pieces /\ h.by = account
  BY <1>2 DEF Held
<1> HIDE DEF h
<1>4. /\ work' \in [hash : Held, pin : Held, register : Held]
      /\ work'.pin = h /\ work'.hash = work.hash /\ work'.register = work.register
  BY <1>1, <1>3 DEF WizardInv, WizardTypeOK
<1>5. WizardTypeOK' /\ Recorded'
  BY <1>1, <1>4 DEF WizardInv, WizardTypeOK, Recorded
<1>6. Filling'
  BY <1>1, <1>4 DEF WizardInv, Filling, Whole
<1>7. wizard.hashed
  BY <1>1, Nothing DEF WizardInv, Filling
<1>8. ~changed' => Together'
  BY <1>1, <1>3, <1>4, <1>7 DEF WizardInv, Together, Names
<1> QED BY <1>5, <1>6, <1>8 DEF WizardInv

\* The broker's answer.  If nothing was changed it is to what the wizard shows.
LEMMA PinnedKeeps == ASSUME WizardInv, Pinned PROVE WizardInv'
<1> DEFINE p == work.pin
           new == [id |-> p.id, pieces |-> p.pieces, by |-> p.by]
           n == Len(passports)
<1>1. /\ p \in Held /\ p.busy /\ n \in Nat
      /\ UNCHANGED <<account, creators, chunkStore, registry, localModels, changed>>
      /\ work' = [work EXCEPT !["pin"] = NoWork]
      /\ \/ /\ account = p.by /\ passports' = Append(passports, new)
            /\ \E c \in {n + 1, FakeCid} : wizard' = [wizard EXCEPT !.cid = c]
         \/ /\ passports' = passports
            /\ \E c \in {wizard.cid, FakeCid} : wizard' = [wizard EXCEPT !.cid = c]
  <2>1. p \in Held /\ n \in Nat
    BY WizardFields DEF WizardInv
  <2>2. wizard = [wizard EXCEPT !.cid = wizard.cid]
    BY DEF WizardInv, WizardTypeOK
  <2> QED BY <2>1, <2>2 DEF Pinned, Through
<1>2. /\ work' \in [hash : Held, pin : Held, register : Held]
      /\ ~work'.pin.busy /\ work'.hash = work.hash /\ work'.register = work.register
  BY <1>1, Nothing DEF WizardInv, WizardTypeOK
<1>3. /\ passports' \in Seq([id : Nat, pieces : Pieces, by : Wallet \cup {NoWallet}])
      /\ \A cid, id, pieces, by : Names(cid, id, pieces, by) => Names(cid, id, pieces, by)'
      /\ passports' # passports => Len(passports') = n + 1 /\ passports'[n + 1] = new
  <2>1. new \in [id : Nat, pieces : Pieces, by : Wallet \cup {NoWallet}]
    BY <1>1 DEF Held
  <2> HIDE DEF new
  <2>2. CASE passports' = passports
    BY <2>2 DEF WizardInv, WizardTypeOK, Names
  <2>3. CASE passports' = Append(passports, new)
    <3>1. /\ passports' \in Seq([id : Nat, pieces : Pieces, by : Wallet \cup {NoWallet}])
          /\ Len(passports') = n + 1 /\ passports'[n + 1] = new
          /\ \A i \in 1..n : passports'[i] = passports[i]
      BY <1>1, <2>1, <2>3, AppendProperties DEF WizardInv, WizardTypeOK
    <3>2. ASSUME NEW cid, cid \in 1..n
          PROVE  cid \in 1..Len(passports') /\ passports'[cid] = passports[cid]
      BY <1>1, <3>1, <3>2
    <3> QED BY <3>1, <3>2 DEF Names
  <2> QED BY <1>1, <2>2, <2>3
<1> HIDE DEF new
<1>4. /\ wizard' \in WizardState /\ wizard'.id = wizard.id /\ wizard'.pieces = wizard.pieces
      /\ wizard'.hashed = wizard.hashed
      /\ \/ wizard'.cid = wizard.cid \/ wizard'.cid = FakeCid
         \/ /\ account = p.by /\ passports' = Append(passports, new) /\ wizard'.cid = n + 1
  <2>1. PICK c \in {wizard.cid, FakeCid, n + 1} :
           /\ wizard' = [wizard EXCEPT !.cid = c]
           /\ \/ c = wizard.cid \/ c = FakeCid
              \/ account = p.by /\ passports' = Append(passports, new) /\ c = n + 1
    BY <1>1
  <2>2. wizard \in WizardState /\ c \in Nat \cup {FakeCid}
    BY <1>1, <2>1 DEF WizardInv, WizardTypeOK, WizardState
  <2> QED BY <2>1, <2>2 DEF WizardState
<1>5. WizardTypeOK' /\ Recorded'
  BY <1>1, <1>2, <1>3, <1>4 DEF WizardInv, WizardTypeOK, Recorded, WizardState
<1>6. Filling'
  BY <1>1, <1>2, <1>4 DEF WizardInv, Filling, Whole
<1>7. ~changed' => Together'
  <2> SUFFICES ASSUME ~changed PROVE Together'
    BY <1>1
  <2>1. /\ wizard.hashed /\ wizard.pieces.count > 0 /\ wizard.cid = NoCid
        /\ p.id = wizard.id /\ p.pieces = wizard.pieces /\ p.by = account
        /\ ~work.register.busy
    BY <1>1 DEF WizardInv, Together
  <2>2. wizard'.cid # NoCid => Names(wizard.cid, wizard.id, wizard.pieces, account)'
    <3>1. CASE wizard'.cid = wizard.cid \/ wizard'.cid = FakeCid
      BY <3>1, <2>1 DEF Names
    <3>2. CASE passports' = Append(passports, new) /\ wizard'.cid = n + 1
      <4>1. passports' # passports
        BY <1>1, <3>2, AppendProperties DEF WizardInv, WizardTypeOK, new, Held
      <4>2. Len(passports') = n + 1 /\ passports'[n + 1] = new /\ n + 1 \in 1..(n + 1)
        BY <1>1, <1>3, <4>1
      <4> QED BY <1>1, <1>4, <2>1, <3>2, <4>2 DEF Names, new
    <3> QED BY <1>4, <3>1, <3>2
  <2>3. \A e \in registry : Names(e.cid, e.id, chunkStore[e.id], account)'
    <3> SUFFICES ASSUME NEW e \in registry PROVE Names(e.cid, e.id, chunkStore[e.id], account)'
      BY <1>1
    <3>1. Names(e.cid, e.id, chunkStore[e.id], account)
      BY DEF WizardInv, Together
    <3> DEFINE cid == e.cid  id == e.id  c == chunkStore[id]  by == account
    <3>2. c' = c /\ by' = by
      BY <1>1
    <3> QED BY <1>1, <1>3, <3>1 DEF Names
  <2> QED BY <1>1, <1>2, <1>4, <2>1, <2>2, <2>3 DEF WizardInv, Together
<1> QED BY <1>5, <1>6, <1>7 DEF WizardInv

\* Registering starts with what the wizard shows.
LEMMA RegisterKeeps == ASSUME WizardInv, HandleRegisterOnChain PROVE WizardInv'
<1> DEFINE read == [NoWork EXCEPT !.id = wizard.id, !.cid = wizard.cid,
                                  !.pieces = wizard.pieces]
           h == [read EXCEPT !.busy = TRUE]
<1>1. /\ wizard.cid # NoCid /\ wizard.id # 0
      /\ work' = [work EXCEPT !["register"] = h]
      /\ UNCHANGED <<wizard, account, creators, chunkStore, passports, registry, localModels,
                     changed>>
  BY DEF HandleRegisterOnChain, Await
<1>2. /\ read \in Held /\ read.id = wizard.id /\ read.pieces = wizard.pieces
      /\ read.cid = wizard.cid
  <2>1. /\ wizard.id \in Nat /\ wizard.pieces \in Pieces /\ wizard.cid \in Nat \cup {FakeCid}
        /\ NoWork \in Held
    BY WizardFields, Nothing DEF WizardInv, WizardTypeOK
  <2> QED BY <2>1 DEF Held
<1> HIDE DEF read
<1>3. h \in Held /\ h.id = wizard.id /\ h.pieces = wizard.pieces /\ h.cid = wizard.cid
  BY <1>2 DEF Held
<1> HIDE DEF h
<1>4. /\ work' \in [hash : Held, pin : Held, register : Held]
      /\ work'.register = h /\ work'.hash = work.hash /\ work'.pin = work.pin
  BY <1>1, <1>3 DEF WizardInv, WizardTypeOK
<1>5. WizardTypeOK' /\ Recorded'
  BY <1>1, <1>4 DEF WizardInv, WizardTypeOK, Recorded
<1>6. wizard.id \in 1..Len(creators)
  BY <1>1, WizardFields DEF WizardInv
<1>7. Filling'
  BY <1>1, <1>3, <1>4, <1>6 DEF WizardInv, Filling, Whole
<1>8. ~changed' => Together'
  BY <1>1, <1>3, <1>4 DEF WizardInv, Together, Names
<1> QED BY <1>5, <1>7, <1>8 DEF WizardInv

\* The wallet's answer.  An entry is only made of whole pieces, so they have a model
\* ID nothing is stored under any more.
LEMMA RegisteredKeeps == ASSUME WizardInv, Registered PROVE WizardInv'
<1> DEFINE r == work.register
           new == [id |-> r.id, cid |-> r.cid, owner |-> account, count |-> r.pieces.count]
<1>1. /\ r \in Held /\ r.busy
      /\ UNCHANGED <<account, creators, chunkStore, passports, changed>>
      /\ work' = [work EXCEPT !["register"] = NoWork]
  BY WizardFields DEF WizardInv, Registered, Through
<1>2. /\ work' \in [hash : Held, pin : Held, register : Held]
      /\ ~work'.register.busy /\ work'.hash = work.hash /\ work'.pin = work.pin
  BY <1>1, Nothing DEF WizardInv, WizardTypeOK
<1>3. /\ wizard' \in WizardState /\ wizard'.id = wizard.id /\ wizard'.pieces = wizard.pieces
      /\ wizard'.hashed = wizard.hashed /\ wizard'.cid = wizard.cid
  <2>1. wizard \in WizardState
    BY DEF WizardInv, WizardTypeOK, WizardState
  <2>2. wizard' = wizard \/ wizard' = [wizard EXCEPT !.sent = TRUE]
    BY DEF Registered
  <2> QED BY <2>1, <2>2 DEF WizardState
<1>4. WizardTypeOK'
  BY <1>1, <1>2, <1>3 DEF WizardInv, WizardTypeOK, WizardState
<1>5. Filling'
  BY <1>1, <1>2, <1>3 DEF WizardInv, Filling, Whole
<1>6. \/ registry' = registry /\ localModels' = localModels
      \/ /\ localModels' = localModels \cup {r.id}
         /\ ~Accepted(r) /\ registry' = registry
      \/ /\ localModels' = localModels \cup {r.id}
         /\ Accepted(r) /\ registry' = registry \cup {new}
  BY DEF Registered
<1>7. Accepted(r) =>
         /\ new.id \in 1..Len(creators)
         /\ new.count > 0 /\ new.count = chunkStore[new.id].count
         /\ new.count = SizeOf[chunkStore[new.id].file]
         /\ \A e \in registry : e.id # new.id
  BY <1>1 DEF WizardInv, Filling, Whole, Accepted
<1>8. new.id = r.id /\ new.owner = account /\ new.cid = r.cid
  OBVIOUS
<1> HIDE DEF new
<1>9. Recorded'
  BY <1>1, <1>6, <1>7, <1>8 DEF WizardInv, Recorded
<1>10. ~changed' => Together'
  <2> SUFFICES ASSUME ~changed PROVE Together'
    BY <1>1
  <2>1. /\ wizard.cid # NoCid /\ wizard.pieces.count > 0
        /\ Names(wizard.cid, wizard.id, wizard.pieces, account)
        /\ r.id = wizard.id /\ r.cid = wizard.cid /\ r.pieces = wizard.pieces
    BY <1>1 DEF WizardInv, Together
  <2>2. chunkStore[r.id] = r.pieces
    BY <2>1 DEF WizardInv, Filling, Whole
  <2>3. \A e \in registry' : e.owner = account /\ Names(e.cid, e.id, chunkStore[e.id], account)
    BY <1>6, <1>8, <2>1, <2>2 DEF WizardInv, Together
  <2>4. \A id \in localModels' : \E e \in registry' : e.id = id
    BY <1>6, <1>8, <2>1 DEF WizardInv, Together, Accepted
  <2>5. \A cid, id, pieces, by : Names(cid, id, pieces, by) = Names(cid, id, pieces, by)'
    BY <1>1 DEF Names
  <2>6. \A e \in registry' : e.owner = account' /\ Names(e.cid, e.id, chunkStore[e.id], account)'
    BY <1>1, <2>3 DEF Names
  <2> QED BY <1>1, <1>2, <1>3, <2>4, <2>6 DEF WizardInv, Together, Names
<1> QED BY <1>4, <1>5, <1>9, <1>10 DEF WizardInv

LEMMA WizardStep == WizardInv /\ [WizardNext]_wizardVars => WizardInv'
<1> SUFFICES ASSUME WizardInv, [WizardNext]_wizardVars PROVE WizardInv'
  OBVIOUS
<1>1. CASE UNCHANGED wizardVars
  BY <1>1 DEF wizardVars, WizardInv, WizardTypeOK, Filling, Whole, Recorded, Together, Names
<1>2. CASE WizardNext
  BY <1>2, SelectKeeps, SwitchKeeps, HashingKeeps, StoreKeeps, HashedKeeps, PinKeeps, PinnedKeeps,
     RegisterKeeps, RegisteredKeeps DEF WizardNext
<1> QED BY <1>1, <1>2

\* What the upload page publishes belongs together (WizardCorrect): a model on chain
\* has the chunks that are stored under its ID, whatever was selected or switched
\* while a handler waited; and if nothing was, its passport is its own.
THEOREM PublishingCorrect == WizardSpec => []WizardCorrect
<1>1. WizardInv => WizardCorrect
  <2> SUFFICES ASSUME WizardInv PROVE CountIsStored /\ PassportAgrees
    BY DEF WizardCorrect
  <2>1. CountIsStored
    BY DEF WizardInv, Recorded, CountIsStored
  <2>2. PassportAgrees
    <3> SUFFICES ASSUME ~changed
                 PROVE  /\ \A e \in registry :
                              /\ e.owner = creators[e.id]
                              /\ e.cid # FakeCid =>
                                    passports[e.cid] = [id |-> e.id, pieces |-> chunkStore[e.id],
                                                        by |-> e.owner]
                        /\ \A id \in localModels : \E e \in registry : e.id = id
      BY DEF PassportAgrees
    <3>1. Recorded /\ Together
      BY DEF WizardInv
    <3>2. ASSUME NEW e \in registry
          PROVE  /\ e.owner = creators[e.id]
                 /\ e.cid # FakeCid =>
                       passports[e.cid] = [id |-> e.id, pieces |-> chunkStore[e.id], by |-> e.owner]
      <4>1. e.owner = account /\ Names(e.cid, e.id, chunkStore[e.id], account)
        BY <3>1 DEF Together
      <4>2. creators[e.id] = account
        BY <3>1 DEF Recorded, Together
      <4> QED BY <4>1, <4>2 DEF Names
    <3> QED BY <3>1, <3>2 DEF Together
  <2> QED BY <2>1, <2>2
<1> QED BY <1>1, WizardStarts, WizardStep, PTL DEF WizardSpec
-----------------------------------------------------------------------------
\* Downloads of a model's page.

Phase == {"held", "discover", "request", "paying", "paid", "store", "reassemble", "over"}
Run == [visit : Nat, wallet : Wallet, phase : Phase, held : SUBSET Piece,
        cancelled : BOOLEAN, cut : BOOLEAN]
Page == [visit : Nat \ {0}, downloading : BOOLEAN,
         status : {"idle", "running", "complete", "error"},
         error : {"none", "other", "storage", "chain", "missing"}, ref : Nat]

\* The types; modals and runs are of this visit or an earlier one, and while the modal
\* of this visit executes the page shows no download.
FlowTypeOK ==
    /\ page \in Page
    /\ runs \in Seq(Run)
    /\ \A r \in 1..Len(runs) : runs[r].visit <= page.visit
    /\ storage \subseteq Wallet \X Piece
    /\ haunted \in BOOLEAN /\ cleared \in BOOLEAN
    /\ ~modal.downloading /\ modal.visit \in Nat /\ modal.visit <= page.visit
    /\ modal.visit = page.visit => ~page.downloading

\* The chunk a run that holds h is after.
Wanted(h) == CHOOSE c \in Piece \ h : \A d \in Piece \ h : c <= d

\* What a run holds is stored until the storage is cleared; it asks only for what it
\* does not hold, and reassembles only what is stored.
Goal(x) ==
    /\ x.phase \in {"request", "paying", "paid", "store"} => x.held # Piece
    /\ ~cleared /\ x.phase # "over" =>
          x.held \subseteq Readable /\ (x.phase = "reassemble" => Piece \subseteq Readable)

\* What was paid for and not lost is stored, or is what this run has paid for last; and
\* the run does not ask for it again.
Spent(x) ==
    /\ x.phase \in {"paid", "store"} => settled \subseteq (Readable \cap x.held) \cup {Wanted(x.held)}
    /\ x.phase \notin {"paid", "store"} => settled \subseteq Readable
    /\ x.phase \in {"discover", "request", "paying"} => settled \subseteq x.held

\* Unless haunted there is at most the one run, and the page shows it if it is its own
\* and not cancelled.
Shown(r) ==
    /\ page.downloading <=> runs[r].visit = page.visit /\ ~runs[r].cancelled
    /\ page.downloading => page.ref = r /\ page.status \notin {"complete", "error"}

Sole ==
    \/ Alive = {} /\ ~page.downloading /\ settled \subseteq Readable
    \/ \E r \in Alive : Alive = {r} /\ Shown(r) /\ Spent(runs[r])

FlowInv ==
    /\ FlowTypeOK
    /\ \A r \in 1..Len(runs) : Goal(runs[r])
    /\ ~haunted => Sole
    /\ again = {}
    /\ page.error = "missing" => cleared

LEMMA WantedIsWanted ==
    ASSUME NEW h \in SUBSET Piece, h # Piece
    PROVE  Wanted(h) \in Piece \ h
<1>1. Piece \ h # {} /\ Piece \ h \subseteq Nat
  <2>1. Piece \subseteq Nat
    BY FlowAssumption DEF Piece
  <2> HIDE DEF Piece
  <2>2. \E c \in Piece : c \notin h
    OBVIOUS
  <2> QED BY <2>1, <2>2
<1>2. \E c \in Piece \ h : \A d \in Piece \ h : c <= d
  BY <1>1, LeastNumber
<1> QED BY <1>2 DEF Wanted

LEMMA FlowFields ==
    ASSUME FlowTypeOK
    PROVE  /\ Len(runs) \in Nat /\ DOMAIN runs = 1..Len(runs)
           /\ \A r \in 1..Len(runs) : runs[r] \in Run /\ runs[r].visit \in Nat
           /\ Alive = {r \in 1..Len(runs) : runs[r].phase # "over"}
           /\ page.visit \in Nat /\ page.ref \in Nat /\ page.downloading \in BOOLEAN
           /\ Readable \subseteq Piece
<1>1. Len(runs) \in Nat /\ DOMAIN runs = 1..Len(runs)
  BY LenProperties DEF FlowTypeOK
<1>2. \A r \in 1..Len(runs) : runs[r] \in Run
  BY ElementOfSeq DEF FlowTypeOK
<1>3. \A x \in Run : x.visit \in Nat
  BY DEF Run
<1>4. page.visit \in Nat /\ page.ref \in Nat /\ page.downloading \in BOOLEAN
  BY DEF FlowTypeOK, Page
<1>5. Readable \subseteq Piece
  BY DEF FlowTypeOK, Readable
<1> QED BY <1>1, <1>2, <1>3, <1>4, <1>5 DEF Alive

\* The pages a setState makes.
LEMMA PagesAre ==
    ASSUME page \in Page
    PROVE  /\ \A s \in {"idle", "running", "complete", "error"}, g \in BOOLEAN :
                 /\ With(s, g) \in Page
                 /\ With(s, g).visit = page.visit /\ With(s, g).ref = page.ref
                 /\ With(s, g).status = s /\ With(s, g).downloading = g
                 /\ With(s, g).error = "none"
           /\ \A k \in {"other", "storage", "chain", "missing"} :
                 /\ Failed(k) \in Page /\ Failed(k).visit = page.visit
                 /\ ~Failed(k).downloading /\ Failed(k).error = k
<1>1. ASSUME NEW s \in {"idle", "running", "complete", "error"}, NEW g \in BOOLEAN
      PROVE  /\ With(s, g) \in Page
             /\ With(s, g).visit = page.visit /\ With(s, g).ref = page.ref
             /\ With(s, g).status = s /\ With(s, g).downloading = g
             /\ With(s, g).error = "none"
  BY DEF With, Page
<1>2. ASSUME NEW k \in {"other", "storage", "chain", "missing"}
      PROVE  /\ Failed(k) \in Page /\ Failed(k).visit = page.visit
             /\ ~Failed(k).downloading /\ Failed(k).error = k
  <2>1. PICK p : p = With("error", FALSE)
    OBVIOUS
  <2>2. p \in Page /\ p.visit = page.visit /\ ~p.downloading
    BY <1>1, <2>1
  <2>3. Failed(k) = [p EXCEPT !.error = k]
    BY <2>1 DEF Failed
  <2> QED BY <2>2, <2>3 DEF Page
<1> QED BY <1>1, <1>2

LEMMA FlowStarts == FlowInit => FlowInv
<1> SUFFICES ASSUME FlowInit PROVE FlowInv
  OBVIOUS
<1>1. runs = <<>> /\ Len(runs) = 0 /\ runs \in Seq(Run)
  BY EmptySeq DEF FlowInit
<1>2. /\ page \in Page /\ page.visit = 1 /\ ~page.downloading /\ page.error = "none"
      /\ page.visit \in Nat
  BY DEF FlowInit, Visit, Page
<1>3. ~modal.downloading /\ modal.visit = 0
  BY DEF FlowInit, NoModal
<1>4. FlowTypeOK
  <2>1. /\ ~modal.downloading /\ modal.visit \in Nat /\ modal.visit <= page.visit
        /\ modal.visit = page.visit => ~page.downloading
    BY <1>2, <1>3
  <2>2. \A r \in 1..Len(runs) : runs[r].visit <= page.visit
    BY <1>1
  <2>3. storage \subseteq Wallet \X Piece /\ haunted \in BOOLEAN /\ cleared \in BOOLEAN
    BY DEF FlowInit
  <2> QED BY <1>1, <1>2, <2>1, <2>2, <2>3 DEF FlowTypeOK
<1>5. Alive = {}
  BY <1>1, <1>4, FlowFields
<1> QED BY <1>1, <1>2, <1>4, <1>5 DEF FlowInv, FlowInit, Sole

\* A step of a run, to the run x: what it does to the page, the storage and what was paid
\* for decides whether the page still tells the truth.
Steps(r, x) ==
    /\ r \in Alive /\ x \in Run /\ x.visit = runs[r].visit
    /\ runs' = [runs EXCEPT ![r] = x]
    /\ UNCHANGED <<modal, cleared, haunted, again>>
    /\ storage \subseteq storage' /\ storage' \subseteq Wallet \X Piece
    /\ page' \in Page /\ page'.visit = page.visit
    /\ page'.error = "missing" => page.error = "missing" \/ cleared

Continues(r, x) ==
    /\ Steps(r, x)
    /\ x.phase # "over" /\ x.cancelled = runs[r].cancelled
    /\ page'.downloading = page.downloading /\ page'.ref = page.ref
    /\ page'.status \in {page.status, "running"}

Finishes(r, x) ==
    /\ Steps(r, x)
    /\ x.phase = "over"
    /\ IF x.visit = page.visit THEN ~page'.downloading ELSE page' = page

LEMMA StepTypes ==
    ASSUME FlowInv, NEW r, NEW x, Steps(r, x), page'.downloading => page.downloading
    PROVE  /\ FlowTypeOK' /\ r \in 1..Len(runs) /\ Len(runs') = Len(runs)
           /\ \A s \in 1..Len(runs) : runs'[s] = IF s = r THEN x ELSE runs[s]
           /\ Readable \subseteq Readable'
           /\ \A s \in 1..Len(runs) : s # r => Goal(runs[s])'
           /\ again' = {} /\ (page.error = "missing" => cleared)'
<1>1. r \in 1..Len(runs) /\ Len(runs) \in Nat
  BY FlowFields DEF Steps, FlowInv
<1>2. /\ runs' \in Seq(Run) /\ Len(runs') = Len(runs)
      /\ \A s \in 1..Len(runs) : runs'[s] = IF s = r THEN x ELSE runs[s]
  <2> DEFINE q == runs
  <2>1. q \in Seq(Run) /\ r \in 1..Len(q) /\ x \in Run /\ runs' = [q EXCEPT ![r] = x]
    BY <1>1 DEF Steps, FlowInv, FlowTypeOK
  <2> HIDE DEF q
  <2>2. runs' \in Seq(Run) /\ Len(runs') = Len(q)
        /\ \A s \in 1..Len(q) : runs'[s] = IF s = r THEN x ELSE q[s]
    BY <2>1, ExceptSeq
  <2> QED BY <2>2 DEF q
<1>3. Readable \subseteq Readable'
  BY DEF Readable, Steps
<1>4. \A s \in 1..Len(runs) : s # r => Goal(runs[s])'
  <2> SUFFICES ASSUME NEW s \in 1..Len(runs), s # r PROVE Goal(runs[s])'
    OBVIOUS
  <2>1. runs'[s] = runs[s] /\ Goal(runs[s]) /\ cleared' = cleared
    BY <1>2 DEF FlowInv, Steps
  <2> QED BY <1>3, <2>1 DEF Goal
<1>5. again' = {} /\ (page.error = "missing" => cleared)'
  BY DEF FlowInv, Steps
<1>6. \A s \in 1..Len(runs) : runs'[s].visit = runs[s].visit
  BY <1>2 DEF Steps
<1>7. FlowTypeOK'
  BY <1>1, <1>2, <1>6 DEF FlowInv, FlowTypeOK, Steps
<1> QED BY <1>1, <1>2, <1>3, <1>4, <1>5, <1>7

LEMMA Continued ==
    ASSUME FlowInv, NEW r, NEW x, Continues(r, x),
           Goal(x)', ~haunted => Spent(x)'
    PROVE  FlowInv'
<1>1. /\ FlowTypeOK' /\ r \in 1..Len(runs) /\ Len(runs') = Len(runs)
      /\ \A s \in 1..Len(runs) : runs'[s] = IF s = r THEN x ELSE runs[s]
      /\ \A s \in 1..Len(runs) : s # r => Goal(runs[s])'
      /\ again' = {} /\ (page.error = "missing" => cleared)'
  BY StepTypes DEF Continues
<1>2. \A s \in 1..Len(runs) : Goal(runs[s])'
  BY <1>1 DEF Goal
<1>3. Alive' = Alive
  <2>1. /\ Alive = {s \in 1..Len(runs) : runs[s].phase # "over"}
        /\ Alive' = {s \in 1..Len(runs') : runs'[s].phase # "over"}
    BY <1>1, FlowFields, LenProperties DEF FlowInv, Alive, FlowTypeOK
  <2> QED BY <1>1, <2>1 DEF Continues, Steps
<1>4. ~haunted' => Sole'
  <2> SUFFICES ASSUME ~haunted PROVE Sole'
    BY DEF Continues, Steps
  <2>1. Alive = {r} /\ Shown(r)
    BY DEF FlowInv, Sole, Continues, Steps
  <2>2. runs'[r] = x
    BY <1>1
  <2>3. Shown(r)'
    BY <2>1, <2>2 DEF Shown, Continues, Steps
  <2>4. Spent(runs[r])'
    BY <2>2 DEF Spent
  <2> QED BY <1>3, <2>1, <2>3, <2>4 DEF Sole
<1> QED BY <1>1, <1>2, <1>4 DEF FlowInv

LEMMA Finished ==
    ASSUME FlowInv, NEW r, NEW x, Finishes(r, x), ~haunted => (settled \subseteq Readable)'
    PROVE  FlowInv'
<1>0. page'.downloading => page.downloading
  BY DEF Finishes
<1>1. /\ FlowTypeOK' /\ r \in 1..Len(runs) /\ Len(runs') = Len(runs)
      /\ \A s \in 1..Len(runs) : runs'[s] = IF s = r THEN x ELSE runs[s]
      /\ \A s \in 1..Len(runs) : s # r => Goal(runs[s])'
      /\ again' = {} /\ (page.error = "missing" => cleared)'
  BY <1>0, StepTypes DEF Finishes
<1>2. \A s \in 1..Len(runs) : Goal(runs[s])'
  BY <1>1 DEF Goal, Finishes
<1>3. Alive' = Alive \ {r}
  <2>1. /\ Alive = {s \in 1..Len(runs) : runs[s].phase # "over"}
        /\ Alive' = {s \in 1..Len(runs') : runs'[s].phase # "over"}
    BY <1>1, FlowFields, LenProperties DEF FlowInv, Alive, FlowTypeOK
  <2> QED BY <1>1, <2>1 DEF Finishes
<1>4. ~haunted' => Sole'
  <2> SUFFICES ASSUME ~haunted PROVE Sole'
    BY DEF Finishes, Steps
  <2>1. Alive = {r} /\ Shown(r)
    BY DEF FlowInv, Sole, Finishes, Steps
  <2>2. ~page'.downloading
    BY <2>1 DEF Shown, Finishes, Steps
  <2> QED BY <1>3, <2>1, <2>2 DEF Sole
<1> QED BY <1>1, <1>2, <1>4 DEF FlowInv

\* Nothing of the page but the run, its page, and what was stored or paid for changes.
Else(r) ==
    /\ r \in Alive
    /\ UNCHANGED <<modal, cleared, haunted, again>>
    /\ storage \subseteq storage' /\ storage' \subseteq Wallet \X Piece

LEMMA TheRun ==
    ASSUME FlowInv, NEW r \in Alive
    PROVE  /\ r \in 1..Len(runs) /\ runs[r] \in Run /\ runs[r].held \in SUBSET Piece
           /\ Goal(runs[r]) /\ (~haunted => Spent(runs[r]))
           /\ runs[r].phase # "over" /\ runs[r].wallet \in Wallet /\ runs[r].visit \in Nat
           /\ Readable \subseteq Piece
<1>1. r \in 1..Len(runs) /\ runs[r] \in Run /\ runs[r].phase # "over" /\ Readable \subseteq Piece
  BY FlowFields DEF FlowInv
<1>2. runs[r].held \in SUBSET Piece /\ runs[r].wallet \in Wallet /\ runs[r].visit \in Nat
  BY <1>1 DEF Run
<1>3. Goal(runs[r])
  BY <1>1 DEF FlowInv
<1>4. ~haunted => Spent(runs[r])
  BY DEF FlowInv, Sole
<1> QED BY <1>1, <1>2, <1>3, <1>4

\* After this step a run may be in the phase ph with the chunks h.
Allows(ph, h) ==
    \A x \in Run : x.phase = ph /\ x.held = h => Goal(x)' /\ (~haunted => Spent(x)')

Moving(r, ph, h) ==
    /\ runs' = [runs EXCEPT ![r].phase = ph, ![r].held = h]
    /\ Shows(runs[r].visit, With("running", page.downloading)) \/ page' = page

\* The run goes on, in the phase ph with the chunks h.
LEMMA Moves ==
    ASSUME FlowInv, NEW r, Else(r),
           NEW ph \in Phase \ {"over"}, NEW h \in SUBSET Piece,
           Moving(r, ph, h), Allows(ph, h)
    PROVE  FlowInv'
<1>0. PICK x : x = [runs[r] EXCEPT !.phase = ph, !.held = h]
  OBVIOUS
<1>1. r \in Alive /\ r \in 1..Len(runs) /\ runs[r] \in Run
  BY TheRun DEF Else
<1>2. /\ x \in Run /\ x.phase = ph /\ x.held = h /\ x.visit = runs[r].visit
      /\ x.cancelled = runs[r].cancelled
  BY <1>0, <1>1 DEF Run
<1>3. runs' = [runs EXCEPT ![r] = x]
  BY <1>0, <1>1 DEF Moving
<1>4. /\ page' \in Page /\ page'.visit = page.visit /\ page'.ref = page.ref
      /\ page'.downloading = page.downloading
      /\ page'.status \in {page.status, "running"}
      /\ page'.error = "missing" => page.error = "missing"
  <2>1. page \in Page /\ page.downloading \in BOOLEAN
    BY FlowFields DEF FlowInv, FlowTypeOK
  <2>2. page' = page \/ page' = With("running", page.downloading)
    BY DEF Shows, Moving
  <2>3. CASE page' = page
    BY <2>1, <2>3
  <2>4. CASE page' = With("running", page.downloading)
    BY <2>1, <2>4, PagesAre
  <2> QED BY <2>2, <2>3, <2>4
<1>5. Continues(r, x)
  BY <1>1, <1>2, <1>3, <1>4 DEF Continues, Steps, Else
<1>6. Goal(x)' /\ (~haunted => Spent(x)')
  BY <1>2 DEF Allows
<1> QED BY <1>5, <1>6, Continued

LEMMA GoesOn ==
    ASSUME FlowInv, NEW r, Else(r), NEW ph \in Phase \ {"over"},
           Goes(r, ph) \/ (runs' = [runs EXCEPT ![r].phase = ph] /\ UNCHANGED page),
           Allows(ph, runs[r].held)
    PROVE  FlowInv'
<1>1. r \in Alive /\ r \in 1..Len(runs) /\ runs[r] \in Run /\ runs[r].held \in SUBSET Piece
      /\ DOMAIN runs = 1..Len(runs)
  BY TheRun, FlowFields DEF Else, FlowInv
<1>2. PICK h \in SUBSET Piece : h = runs[r].held
  BY <1>1
<1>3. [runs[r] EXCEPT !.phase = ph] = [runs[r] EXCEPT !.phase = ph, !.held = h]
  BY <1>1, <1>2 DEF Run
<1>4. runs' = [runs EXCEPT ![r].phase = ph, ![r].held = h]
  BY <1>1, <1>3 DEF Goes
<1>5. Moving(r, ph, h)
  BY <1>4 DEF Goes, Moving
<1>6. Allows(ph, h)
  BY <1>2
<1> QED BY <1>5, <1>6, Moves

\* The run is over, and its page shows no download.
LEMMA EndsHere ==
    ASSUME FlowInv, NEW r, Else(r), NEW p \in Page, Ends(r, p),
           p.visit = page.visit, ~p.downloading,
           p.error = "missing" => page.error = "missing" \/ cleared,
           ~haunted => (settled \subseteq Readable)'
    PROVE  FlowInv'
<1>0. PICK x : x = [NewRun(runs[r].visit, runs[r].wallet) EXCEPT !.phase = "over"]
  OBVIOUS
<1>1. r \in Alive /\ r \in 1..Len(runs) /\ runs[r] \in Run
      /\ runs[r].visit \in Nat /\ runs[r].wallet \in Wallet
  BY TheRun DEF Else
<1>2. x \in Run /\ x.phase = "over" /\ x.visit = runs[r].visit
  <2>1. PICK y : y = NewRun(runs[r].visit, runs[r].wallet)
    OBVIOUS
  <2>2. y \in Run /\ y.visit = runs[r].visit
    BY <1>1, <2>1 DEF NewRun, Run, Phase
  <2> QED BY <1>0, <2>1, <2>2 DEF Run, Phase
<1>3. runs' = [runs EXCEPT ![r] = x]
  BY <1>0, <1>1 DEF Ends
<1>4. IF x.visit = page.visit THEN page' = p ELSE page' = page
  BY <1>2 DEF Ends, Shows
<1>5. page \in Page
  BY DEF FlowInv, FlowTypeOK
<1>6. Finishes(r, x)
  BY <1>1, <1>2, <1>3, <1>4, <1>5 DEF Finishes, Steps, Else
<1> QED BY <1>6, Finished

LEMMA FailsHere ==
    ASSUME FlowInv, NEW r, Else(r), NEW k \in {"other", "storage", "chain", "missing"},
           Fails(r, k), k = "missing" => cleared, ~haunted => (settled \subseteq Readable)'
    PROVE  FlowInv'
<1>1. PICK p : p = Failed(k)
  OBVIOUS
<1>2. p \in Page /\ p.visit = page.visit /\ ~p.downloading /\ p.error = k
  BY <1>1, PagesAre DEF FlowInv, FlowTypeOK
<1>3. Ends(r, p)
  BY <1>1 DEF Fails
<1> QED BY <1>2, <1>3, EndsHere

LEMMA StopsHere ==
    ASSUME FlowInv, NEW r, Else(r), NEW s \in {"idle", "complete"}, Ends(r, With(s, FALSE)),
           ~haunted => (settled \subseteq Readable)'
    PROVE  FlowInv'
<1>1. PICK p : p = With(s, FALSE)
  OBVIOUS
<1>2. p \in Page /\ p.visit = page.visit /\ ~p.downloading /\ p.error = "none"
  <2>1. page \in Page
    BY DEF FlowInv, FlowTypeOK
  <2>2. s \in {"idle", "running", "complete", "error"} /\ FALSE \in BOOLEAN
    OBVIOUS
  <2> QED BY <1>1, <2>1, <2>2, PagesAre
<1>3. Ends(r, p)
  BY <1>1
<1> QED BY <1>2, <1>3, EndsHere

\* The loop over the chunks goes on with h, which is stored and has all that was paid for.
LEMMA Loops ==
    ASSUME FlowInv, NEW r, Else(r), NEW h \in SUBSET Piece, Loop(r, h),
           (~cleared => h \subseteq Readable)',
           ~haunted => (settled \subseteq Readable /\ settled \subseteq h)'
    PROVE  FlowInv'
<1>1. CASE Stops(r)
  BY <1>1, StopsHere DEF Stops
<1>2. CASE h = Piece /\ Goes(r, "reassemble")
  <2>1. ASSUME NEW x \in Run, x.phase = "reassemble", x.held = runs[r].held
        PROVE  Goal(x)' /\ (~haunted => Spent(x)')
    <3>1. ~cleared => runs[r].held \subseteq Readable'
      <4>1. Readable \subseteq Readable'
        BY DEF Readable, Else
      <4> QED BY <4>1, TheRun DEF Else, Goal
    <3>2. ~cleared' => Piece \subseteq Readable' /\ x.held \subseteq Readable'
      BY <1>2, <2>1, <3>1 DEF Else
    <3> QED BY <2>1, <3>2 DEF Goal, Spent
  <2>2. "reassemble" \in Phase \ {"over"}
    BY DEF Phase
  <2>3. Allows("reassemble", runs[r].held)
    BY <2>1 DEF Allows
  <2> QED BY <1>2, <2>2, <2>3, GoesOn
<1>3. CASE /\ h # Piece
           /\ runs' = [runs EXCEPT ![r].phase = "request", ![r].held = h]
           /\ Shows(runs[r].visit, With("running", page.downloading))
  <2>1. ASSUME NEW x \in Run, x.phase = "request", x.held = h
        PROVE  Goal(x)' /\ (~haunted => Spent(x)')
    BY <1>3, <2>1 DEF Goal, Spent
  <2>2. "request" \in Phase \ {"over"}
    BY DEF Phase
  <2>3. Allows("request", h) /\ Moving(r, "request", h)
    BY <1>3, <2>1 DEF Allows, Moving
  <2> QED BY <2>2, <2>3, Moves
<1>4. CASE Fails(r, "other")
  BY <1>4, FailsHere
<1> QED BY <1>1, <1>2, <1>3, <1>4 DEF Loop

\* What a step of the run r may use, and what it leaves alone.
LEMMA HeldIsReadable ==
    ASSUME FlowTypeOK, NEW w \in Wallet
    PROVE  HeldBy(w) \in SUBSET Piece /\ HeldBy(w) \subseteq Readable
BY DEF FlowTypeOK, HeldBy, Readable

LEMMA GotHeldKeepsInv ==
    ASSUME FlowInv, NEW r \in Alive, GotHeld(r)
    PROVE  FlowInv'
<1>1. /\ runs[r].phase = "held" /\ runs[r] \in Run /\ runs[r].wallet \in Wallet
      /\ runs[r].held \in SUBSET Piece
      /\ Goal(runs[r]) /\ (~haunted => settled \subseteq Readable)
  BY TheRun DEF GotHeld, Spent
<1>2. PICK h : h = HeldBy(runs[r].wallet)
  OBVIOUS
<1>3. h \in SUBSET Piece /\ h \subseteq Readable
  BY <1>1, <1>2, HeldIsReadable DEF FlowInv
<1>4. Else(r) /\ Readable' = Readable
  BY DEF GotHeld, Else, Readable, FlowInv, FlowTypeOK
<1>5. CASE h = Piece /\ Goes(r, "reassemble") /\ UNCHANGED settled
  <2>1. Allows("reassemble", runs[r].held)
    BY <1>1, <1>3, <1>4, <1>5 DEF Allows, Goal, Spent, Else
  <2>2. "reassemble" \in Phase \ {"over"}
    BY DEF Phase
  <2> QED BY <1>4, <1>5, <2>1, <2>2, GoesOn
<1>6. CASE /\ h # Piece
           /\ runs' = [runs EXCEPT ![r].phase = "discover", ![r].held = h]
           /\ Shows(runs[r].visit, With("running", page.downloading))
           /\ settled' = settled \ (Readable \ h)
  <2>1. Allows("discover", h)
    BY <1>1, <1>3, <1>4, <1>6 DEF Allows, Goal, Spent, Else
  <2>2. "discover" \in Phase \ {"over"}
    BY DEF Phase
  <2>3. Moving(r, "discover", h)
    BY <1>6 DEF Moving
  <2> QED BY <1>3, <1>4, <2>1, <2>2, <2>3, Moves
<1>7. CASE \E kind \in {"other", "storage"} : Fails(r, kind) /\ UNCHANGED settled
  <2>1. PICK kind \in {"other", "storage"} : Fails(r, kind) /\ UNCHANGED settled
    BY <1>7
  <2>2. kind \in {"other", "storage", "chain", "missing"} /\ kind # "missing"
    OBVIOUS
  <2>3. ~haunted => settled' \subseteq Readable'
    BY <1>1, <1>4, <2>1
  <2> QED BY <1>4, <2>1, <2>2, <2>3, FailsHere
<1> QED BY <1>2, <1>5, <1>6, <1>7 DEF GotHeld, HeldSet

LEMMA DiscoversKeepsInv ==
    ASSUME FlowInv, NEW r \in Alive, Discovers(r)
    PROVE  FlowInv'
<1>1. /\ runs[r].phase = "discover" /\ runs[r].held \in SUBSET Piece
      /\ Goal(runs[r])
      /\ ~haunted => settled \subseteq Readable /\ settled \subseteq runs[r].held
  BY TheRun DEF Discovers, Spent
<1>2. Else(r) /\ Readable' = Readable /\ settled' = settled /\ cleared' = cleared
  BY DEF Discovers, Else, Readable, FlowInv, FlowTypeOK
<1>3. ~cleared => runs[r].held \subseteq Readable
  BY <1>1 DEF Goal
<1>4. CASE Loop(r, runs[r].held)
  <2>1. PICK h \in SUBSET Piece : h = runs[r].held
    BY <1>1
  <2>2. Loop(r, h) /\ (~cleared' => h \subseteq Readable')
        /\ (~haunted => settled' \subseteq Readable' /\ settled' \subseteq h)
    BY <1>1, <1>2, <1>3, <1>4, <2>1
  <2> QED BY <1>2, <2>2, Loops
<1>5. CASE Goes(r, "discover")
  <2>1. Allows("discover", runs[r].held)
    BY <1>1, <1>2, <1>3 DEF Allows, Goal, Spent
  <2>2. "discover" \in Phase \ {"over"}
    BY DEF Phase
  <2> QED BY <1>2, <1>5, <2>1, <2>2, GoesOn
<1>6. CASE Fails(r, "other")
  <2>1. ~haunted => settled' \subseteq Readable'
    BY <1>1, <1>2
  <2> QED BY <1>2, <1>6, <2>1, FailsHere
<1> QED BY <1>4, <1>5, <1>6 DEF Discovers

LEMMA PaymentRequiredKeepsInv ==
    ASSUME FlowInv, NEW r \in Alive, PaymentRequired(r)
    PROVE  FlowInv'
<1>1. /\ runs[r].phase = "request" /\ runs[r].held # Piece /\ Goal(runs[r])
      /\ ~haunted => settled \subseteq Readable /\ settled \subseteq runs[r].held
  BY TheRun DEF PaymentRequired, Spent, Goal
<1>2. Else(r) /\ Readable' = Readable /\ settled' = settled /\ cleared' = cleared
  BY DEF PaymentRequired, Else, Readable, FlowInv, FlowTypeOK
<1>3. Allows("paying", runs[r].held)
  BY <1>1, <1>2 DEF Allows, Goal, Spent
<1>4. "paying" \in Phase \ {"over"}
  BY DEF Phase
<1> QED BY <1>2, <1>3, <1>4, GoesOn DEF PaymentRequired

LEMMA PaysKeepsInv ==
    ASSUME FlowInv, NEW r \in Alive, Pays(r)
    PROVE  FlowInv'
<1>1. /\ runs[r].phase = "paying" /\ runs[r].held # Piece /\ Goal(runs[r])
      /\ runs[r].held \in SUBSET Piece
      /\ ~haunted => settled \subseteq Readable /\ settled \subseteq runs[r].held
  BY TheRun DEF Pays, Spent, Goal
<1>2. Wanted(runs[r].held) \in Piece \ runs[r].held /\ WantedPiece(r) = Wanted(runs[r].held)
  BY <1>1, WantedIsWanted DEF WantedPiece, Wanted
<1>3. /\ settled' = settled \cup {Wanted(runs[r].held)}
      /\ Readable' = Readable /\ cleared' = cleared
  BY <1>2 DEF Pays, Readable
<1>4. again' = again
  BY <1>1, <1>2 DEF Pays, FlowInv
<1>5. Else(r)
  BY <1>4 DEF Pays, Else, FlowInv, FlowTypeOK
<1>6. Allows("paid", runs[r].held)
  BY <1>1, <1>3 DEF Allows, Goal, Spent
<1>7. "paid" \in Phase \ {"over"}
  BY DEF Phase
<1> QED BY <1>5, <1>6, <1>7, GoesOn DEF Pays

LEMMA PieceVerifiedKeepsInv ==
    ASSUME FlowInv, NEW r \in Alive, PieceVerified(r)
    PROVE  FlowInv'
<1>1. /\ runs[r].phase = "paid" /\ Goal(runs[r]) /\ (~haunted => Spent(runs[r]))
  BY TheRun DEF PieceVerified
<1>2. Else(r) /\ Readable' = Readable /\ settled' = settled /\ cleared' = cleared
  BY DEF PieceVerified, Else, Readable, FlowInv, FlowTypeOK
<1>3. Allows("store", runs[r].held)
  BY <1>1, <1>2 DEF Allows, Goal, Spent
<1>4. "store" \in Phase \ {"over"}
  BY DEF Phase
<1> QED BY <1>2, <1>3, <1>4, GoesOn DEF PieceVerified

LEMMA StoredPieceKeepsInv ==
    ASSUME FlowInv, NEW r \in Alive, StoredPiece(r)
    PROVE  FlowInv'
<1>1. /\ runs[r].phase = "store" /\ runs[r].held # Piece
      /\ runs[r].held \in SUBSET Piece /\ runs[r].wallet \in Wallet
      /\ ~cleared => runs[r].held \subseteq Readable
      /\ ~haunted => settled \subseteq (Readable \cap runs[r].held) \cup {Wanted(runs[r].held)}
  BY TheRun DEF StoredPiece, Spent, Goal
<1>2. PICK c : c = Wanted(runs[r].held)
  OBVIOUS
<1>3. c \in Piece /\ WantedPiece(r) = c
  BY <1>1, <1>2, WantedIsWanted DEF WantedPiece, Wanted
<1>4. storage' = storage \cup {<<runs[r].wallet, c>>} /\ settled' = settled /\ cleared' = cleared
  BY <1>3 DEF StoredPiece
<1>5. Else(r)
  BY <1>1, <1>3, <1>4 DEF StoredPiece, Else, FlowInv, FlowTypeOK
<1>6. Readable' = Readable \cup {c}
  <2>1. PICK t : t = <<runs[r].wallet, c>>
    OBVIOUS
  <2>2. t[2] = c /\ storage' = storage \cup {t}
    BY <1>4, <2>1
  <2> QED BY <2>2, Zenon DEF Readable
<1>7. PICK h \in SUBSET Piece : h = runs[r].held \cup {c}
  BY <1>1, <1>3
<1>8. Loop(r, h)
  BY <1>3, <1>7 DEF StoredPiece
<1>9. ~cleared' => h \subseteq Readable'
  BY <1>1, <1>4, <1>6, <1>7
<1>10. ~haunted => settled' \subseteq Readable' /\ settled' \subseteq h
  BY <1>1, <1>2, <1>4, <1>6, <1>7
<1> QED BY <1>5, <1>8, <1>9, <1>10, Loops

LEMMA AttemptFailsKeepsInv ==
    ASSUME FlowInv, NEW r \in Alive, AttemptFails(r)
    PROVE  FlowInv'
<1>1. /\ runs[r].phase \in {"request", "paying", "paid", "store"}
      /\ runs[r].held # Piece /\ runs[r].held \in SUBSET Piece
      /\ ~cleared => runs[r].held \subseteq Readable
      /\ ~haunted => Spent(runs[r])
  BY TheRun DEF AttemptFails, Goal
<1>2. Else(r) /\ Readable' = Readable /\ cleared' = cleared
  BY DEF AttemptFails, Else, Readable, FlowInv, FlowTypeOK
<1>3. settled' = IF runs[r].phase = "request" THEN settled ELSE settled \ {Wanted(runs[r].held)}
  BY DEF AttemptFails, WantedPiece, Wanted
<1>4. ~haunted => settled' \subseteq Readable' /\ settled' \subseteq runs[r].held
  BY <1>1, <1>2, <1>3 DEF Spent
<1>5. ~haunted => settled' \subseteq Readable'
  BY <1>4
<1>6. CASE Stops(r)
  BY <1>2, <1>5, <1>6, StopsHere DEF Stops
<1>7. CASE runs' = [runs EXCEPT ![r].phase = "request"] /\ UNCHANGED page
  <2>1. Allows("request", runs[r].held)
    BY <1>1, <1>2, <1>4 DEF Allows, Goal, Spent
  <2>2. "request" \in Phase \ {"over"}
    BY DEF Phase
  <2> QED BY <1>2, <1>7, <2>1, <2>2, GoesOn
<1>8. CASE \E kind \in {"other", "storage", "chain"} : Fails(r, kind)
  <2>1. PICK kind \in {"other", "storage", "chain"} : Fails(r, kind)
    BY <1>8
  <2>2. kind \in {"other", "storage", "chain", "missing"} /\ kind # "missing"
    OBVIOUS
  <2> QED BY <1>2, <1>5, <2>1, <2>2, FailsHere
<1> QED BY <1>6, <1>7, <1>8 DEF AttemptFails

\* Unless the storage was cleared, all the pieces are there when they are put together.
LEMMA ReassembledKeepsInv ==
    ASSUME FlowInv, NEW r \in Alive, Reassembled(r)
    PROVE  FlowInv'
<1>1. /\ runs[r].phase = "reassemble" /\ Readable \subseteq Piece
      /\ ~cleared => Piece \subseteq Readable
      /\ ~haunted => settled \subseteq Readable
  BY TheRun DEF Reassembled, Goal, Spent
<1>2. Else(r) /\ Readable' = Readable /\ cleared' = cleared /\ settled' = settled
  BY DEF Reassembled, Else, Readable, FlowInv, FlowTypeOK
<1>3. ~haunted => settled' \subseteq Readable'
  BY <1>1, <1>2
<1>4. CASE Ends(r, With("complete", FALSE))
  BY <1>2, <1>3, <1>4, StopsHere
<1>5. CASE Readable # Piece /\ Fails(r, "missing")
  <2>1. cleared
    BY <1>1, <1>5
  <2> QED BY <1>2, <1>3, <1>5, <2>1, FailsHere
<1> QED BY <1>4, <1>5 DEF Reassembled

\* What is stored and paid for, over a step that is no run's.
Kept ==
    /\ UNCHANGED again
    /\ \/ UNCHANGED <<storage, settled, cleared>>
       \/ storage' = {} /\ settled' = {} /\ cleared'

\* The modal executes on a page that shows no download, or on none.
Uncovered(m, p) ==
    /\ ~m.downloading /\ m.visit \in Nat /\ m.visit <= p.visit
    /\ m.visit = p.visit => ~p.downloading

LEMMA KeptIsKept ==
    ASSUME FlowInv, Kept
    PROVE  /\ storage' \subseteq Wallet \X Piece /\ cleared' \in BOOLEAN /\ again' = {}
           /\ cleared => cleared'
           /\ \A x \in Run : Goal(x) => Goal(x)'
           /\ \A x \in Run : Spent(x) => Spent(x)'
           /\ settled \subseteq Readable => settled' \subseteq Readable'
<1>1. storage' \subseteq Wallet \X Piece /\ cleared' \in BOOLEAN /\ again' = {}
      /\ (cleared => cleared')
  BY DEF FlowInv, FlowTypeOK, Kept
<1>2. CASE UNCHANGED <<storage, settled, cleared>>
  <2>1. Readable' = Readable
    BY <1>2 DEF Readable
  <2> QED BY <1>1, <1>2, <2>1 DEF Goal, Spent
<1>3. CASE storage' = {} /\ settled' = {} /\ cleared'
  <2>1. \A x \in Run : Goal(x) => Goal(x)'
    BY <1>3 DEF Goal
  <2>2. \A x \in Run : Spent(x) => Spent(x)'
    BY <1>3 DEF Spent
  <2> QED BY <1>1, <1>3, <2>1, <2>2
<1> QED BY <1>2, <1>3 DEF Kept

\* The runs stay as they are, and the page goes on showing what it shows.
LEMMA Quiet ==
    ASSUME FlowInv, Kept, UNCHANGED <<runs, haunted>>, Uncovered(modal, page)',
           page' \in Page, page'.visit = page.visit, page'.downloading = page.downloading,
           page.downloading => page'.ref = page.ref /\ page'.status \in {page.status, "running"},
           page'.error = "missing" => page.error = "missing"
    PROVE  FlowInv'
<1>1. /\ storage' \subseteq Wallet \X Piece /\ cleared' \in BOOLEAN /\ again' = {}
      /\ cleared => cleared'
      /\ \A x \in Run : Goal(x) => Goal(x)'
      /\ \A x \in Run : Spent(x) => Spent(x)'
      /\ settled \subseteq Readable => settled' \subseteq Readable'
  BY KeptIsKept
<1>2. /\ \A r \in 1..Len(runs) : runs[r] \in Run
      /\ Alive \subseteq 1..Len(runs) /\ Alive' = Alive
      /\ runs' = runs /\ Len(runs') = Len(runs) /\ haunted' = haunted
  BY FlowFields DEF FlowInv, Alive
<1>3. FlowTypeOK'
  BY <1>1, <1>2 DEF FlowInv, FlowTypeOK, Uncovered
<1>4. \A r \in 1..Len(runs') : Goal(runs[r])'
  <2> SUFFICES ASSUME NEW r \in 1..Len(runs) PROVE Goal(runs[r])'
    BY <1>2
  <2>1. PICK x \in Run : x = runs[r]
    BY <1>2
  <2>2. Goal(x)'
    BY <1>1, <2>1 DEF FlowInv
  <2> QED BY <1>2, <2>1, <2>2 DEF Goal
<1>5. ASSUME ~haunted PROVE Sole'
  <2>1. CASE Alive = {} /\ ~page.downloading /\ settled \subseteq Readable
    BY <1>1, <1>2, <2>1 DEF Sole
  <2>2. CASE \E r \in Alive : Alive = {r} /\ Shown(r) /\ Spent(runs[r])
    <3>1. PICK r \in Alive : Alive = {r} /\ Shown(r) /\ Spent(runs[r])
      BY <2>2
    <3>2. PICK x \in Run : x = runs[r]
      BY <1>2
    <3>3. Spent(x)'
      BY <1>1, <3>1, <3>2
    <3>4. Spent(runs[r])'
      BY <1>2, <3>2, <3>3 DEF Spent
    <3>5. Shown(r)'
      BY <1>2, <3>1 DEF Shown
    <3> QED BY <1>2, <3>1, <3>4, <3>5 DEF Sole
  <2> QED BY <1>5, <2>1, <2>2 DEF FlowInv, Sole
<1>6. (page.error = "missing" => cleared)'
  BY <1>1 DEF FlowInv
<1> QED BY <1>1, <1>2, <1>3, <1>4, <1>5, <1>6 DEF FlowInv

\* startDownload, from a render of this visit in which no download was shown, or of an
\* earlier one.
LEMMA StartKeepsInv ==
    ASSUME FlowInv, Kept, NEW c, StartDownload(c),
           c.visit \in Nat, c.visit = page.visit /\ ~c.downloading => ~page.downloading,
           c.visit <= page.visit,
           ~modal'.downloading, modal'.visit \in Nat, modal'.visit < page.visit
    PROVE  FlowInv'
<1>1. page \in Page /\ page.visit \in Nat /\ page.downloading \in BOOLEAN
  BY FlowFields DEF FlowInv, FlowTypeOK
<1>2. page'.visit = page.visit => Uncovered(modal, page)'
  BY <1>1 DEF Uncovered
<1>3. CASE UNCHANGED <<page, runs, haunted>>
  BY <1>1, <1>2, <1>3, Quiet
<1>4. CASE \E k \in {"chain", "other"} :
              ~c.downloading /\ Shows(c.visit, Failed(k)) /\ UNCHANGED <<runs, haunted>>
  <2>1. PICK k \in {"chain", "other"} :
              ~c.downloading /\ Shows(c.visit, Failed(k)) /\ UNCHANGED <<runs, haunted>>
    BY <1>4
  <2>2. PICK p : p = Failed(k)
    OBVIOUS
  <2>3. p \in Page /\ p.visit = page.visit /\ ~p.downloading /\ p.error = k
    BY <1>1, <2>2, PagesAre
  <2>4. page' = IF page.visit = c.visit THEN p ELSE page
    BY <2>1, <2>2 DEF Shows
  <2>5. CASE page.visit = c.visit
    <3>1. page' = p /\ ~page.downloading /\ page'.error # "missing"
      BY <2>1, <2>3, <2>4, <2>5
    <3>2. page'.downloading = page.downloading
      BY <1>1, <2>3, <3>1, PagesAre DEF Page
    <3> QED BY <1>2, <2>1, <2>3, <3>1, <3>2, Quiet
  <2>6. CASE page.visit # c.visit
    BY <1>1, <1>2, <2>1, <2>4, <2>6, Quiet
  <2> QED BY <2>5, <2>6
<1>5. CASE /\ ~c.downloading /\ c.signer \in Wallet
           /\ runs' = Append(runs, NewRun(c.visit, c.signer))
           /\ Shows(c.visit, [With("idle", TRUE) EXCEPT !.ref = Len(runs) + 1])
           /\ haunted' = (\/ haunted
                          \/ c.visit # page.visit
                          \/ \E r \in Alive : \/ runs[r].cancelled \/ runs[r].cut
                                              \/ runs[r].visit # page.visit)
  <2> DEFINE n == Len(runs) + 1
  <2>0. PICK x : x = NewRun(c.visit, c.signer)
    OBVIOUS
  <2>1. /\ x \in Run /\ x.phase = "held" /\ x.held = {} /\ x.visit = c.visit /\ ~x.cancelled
    BY <1>5, <2>0 DEF NewRun, Run, Phase
  <2>2. /\ runs' \in Seq(Run) /\ Len(runs') = n /\ n \in Nat
        /\ \A s \in 1..Len(runs) : runs'[s] = runs[s]
        /\ runs'[n] = x
    <3>1. runs \in Seq(Run) /\ runs' = Append(runs, x)
      BY <1>5, <2>0 DEF FlowInv, FlowTypeOK
    <3> QED BY <2>1, <3>1, AppendProperties, LenProperties
  <2>3. PICK w : w = With("idle", TRUE)
    OBVIOUS
  <2>4. PICK p : p = [w EXCEPT !.ref = n]
    OBVIOUS
  <2>5. /\ p \in Page /\ p.visit = page.visit /\ p.downloading /\ p.error = "none"
        /\ p.ref = n /\ p.status = "idle"
    <3>1. w \in Page /\ w.visit = page.visit /\ w.downloading /\ w.error = "none"
          /\ w.status = "idle"
      BY <1>1, <2>3, PagesAre
    <3> QED BY <2>2, <2>4, <3>1 DEF Page
  <2>6. page' = IF page.visit = c.visit THEN p ELSE page
    BY <1>5, <2>3, <2>4 DEF Shows
  <2>7. /\ storage' \subseteq Wallet \X Piece /\ cleared' \in BOOLEAN /\ again' = {}
        /\ cleared => cleared'
        /\ \A y \in Run : Goal(y) => Goal(y)'
        /\ settled \subseteq Readable => settled' \subseteq Readable'
    BY KeptIsKept
  <2>8. page' \in Page /\ page'.visit = page.visit
        /\ (page'.error = "missing" => page.error = "missing")
    BY <1>1, <2>5, <2>6
  <2>9. /\ \A r \in 1..Len(runs) : runs[r] \in Run /\ runs[r].visit <= page.visit
        /\ Len(runs) \in Nat /\ Alive = {r \in 1..Len(runs) : runs[r].phase # "over"}
    BY FlowFields DEF FlowInv, FlowTypeOK
  <2> HIDE DEF n
  <2>10. n = Len(runs) + 1
    BY DEF n
  <2>11. FlowTypeOK'
    <3>1. \A r \in 1..Len(runs') : runs'[r].visit <= page'.visit
      BY <2>1, <2>2, <2>8, <2>9, <2>10
    <3>2. haunted' \in BOOLEAN
      BY <1>5 DEF FlowInv, FlowTypeOK
    <3>3. Uncovered(modal, page)'
      BY <1>2, <2>8
    <3> QED BY <2>2, <2>7, <2>8, <3>1, <3>2, <3>3 DEF FlowTypeOK, Uncovered
  <2>12. \A r \in 1..Len(runs') : Goal(runs[r])'
    <3> SUFFICES ASSUME NEW r \in 1..Len(runs') PROVE Goal(runs[r])'
      OBVIOUS
    <3>1. CASE r \in 1..Len(runs)
      <4>1. PICK y \in Run : y = runs[r]
        BY <2>9, <3>1
      <4>2. Goal(y)'
        BY <2>7, <3>1, <4>1 DEF FlowInv
      <4> QED BY <2>2, <3>1, <4>1, <4>2 DEF Goal
    <3>2. CASE r = n
      BY <2>1, <2>2, <3>2 DEF Goal
    <3> QED BY <2>2, <2>9, <2>10, <3>1, <3>2
  <2>13. ASSUME ~haunted' PROVE Sole'
    <3>1. ~haunted /\ c.visit = page.visit /\ ~page.downloading
      BY <1>5, <2>13
    <3>2. \A r \in Alive : ~runs[r].cancelled /\ runs[r].visit = page.visit
      BY <1>5, <2>13
    <3>3. Alive = {} /\ settled \subseteq Readable
      BY <3>1, <3>2 DEF FlowInv, Sole, Shown
    <3>4. Alive' = {n}
      <4>1. Alive' = {r \in 1..Len(runs') : runs'[r].phase # "over"}
        BY <2>2, LenProperties DEF Alive
      <4>2. \A r \in 1..Len(runs) : runs'[r].phase = "over"
        BY <2>2, <2>9, <3>3
      <4>3. \A r \in 1..n : r \in 1..Len(runs) \/ r = n
        BY <2>9, <2>10
      <4>4. n \in 1..n
        BY <2>9, <2>10
      <4> QED BY <2>1, <2>2, <4>1, <4>2, <4>3, <4>4
    <3>5. page' = p
      BY <2>6, <3>1
    <3>6. /\ page'.downloading /\ page'.ref = n /\ page'.status \notin {"complete", "error"}
          /\ runs'[n].visit = page'.visit /\ ~runs'[n].cancelled
      BY <2>1, <2>2, <2>5, <3>1, <3>5
    <3>7. runs'[n].phase = "held" /\ settled' \subseteq Readable'
      BY <2>1, <2>2, <2>7, <3>3
    <3>8. \E r \in Alive' : /\ Alive' = {r}
                            /\ page'.downloading <=> runs'[r].visit = page'.visit /\ ~runs'[r].cancelled
                            /\ page'.downloading => page'.ref = r /\ page'.status \notin {"complete", "error"}
                            /\ runs'[r].phase = "held"
      BY <3>4, <3>6, <3>7
    <3>9. Sole'
      BY <3>7, <3>8 DEF Sole, Shown, Spent
    <3> QED BY <3>9
  <2>14. (page.error = "missing" => cleared)'
    BY <2>7, <2>8 DEF FlowInv
  <2> QED BY <2>7, <2>11, <2>12, <2>13, <2>14 DEF FlowInv
<1> QED BY <1>3, <1>4, <1>5 DEF StartDownload

\* Cutting a run, which may cancel it, changes nothing else of the runs.
LEMMA Cleaned ==
    ASSUME FlowInv, NEW q, NEW b \in BOOLEAN, runs' = Cleanup(q, b)
    PROVE  /\ runs' \in Seq(Run) /\ Len(runs') = Len(runs) /\ Alive' = Alive
           /\ \A s \in 1..Len(runs) :
                 /\ runs'[s].visit = runs[s].visit /\ runs'[s].phase = runs[s].phase
                 /\ runs'[s].held = runs[s].held
                 /\ s = q /\ s \in Alive /\ b => runs'[s].cancelled
<1>1. /\ runs \in Seq(Run) /\ Alive = {r \in 1..Len(runs) : runs[r].phase # "over"}
      /\ \A r \in 1..Len(runs) : runs[r] \in Run
  BY FlowFields DEF FlowInv, FlowTypeOK
<1>2. CASE q \notin Alive
  BY <1>1, <1>2 DEF Cleanup, Alive
<1>3. CASE q \in Alive
  <2>1. PICK x : x = [runs[q] EXCEPT !.cut = TRUE, !.cancelled = @ \/ b]
    OBVIOUS
  <2>2. /\ x \in Run /\ x.visit = runs[q].visit /\ x.phase = runs[q].phase
        /\ x.held = runs[q].held /\ (b => x.cancelled)
    <3>1. runs[q] \in Run /\ runs[q].cancelled \in BOOLEAN
      BY <1>1, <1>3 DEF Run
    <3> DEFINE w == runs[q].cancelled \/ b
    <3>2. w \in BOOLEAN /\ (b => w) /\ x = [runs[q] EXCEPT !.cut = TRUE, !.cancelled = w]
      BY <2>1
    <3> HIDE DEF w
    <3> QED BY <3>1, <3>2 DEF Run
  <2>3. runs' = [runs EXCEPT ![q] = x]
    BY <1>3, <2>1 DEF Cleanup
  <2>4. /\ runs' \in Seq(Run) /\ Len(runs') = Len(runs)
        /\ \A s \in 1..Len(runs) : runs'[s] = IF s = q THEN x ELSE runs[s]
    <3> DEFINE z == runs
    <3>1. z \in Seq(Run) /\ q \in 1..Len(z) /\ runs' = [z EXCEPT ![q] = x]
      BY <1>1, <1>3, <2>3
    <3> HIDE DEF z
    <3>2. /\ runs' \in Seq(Run) /\ Len(runs') = Len(z)
          /\ \A s \in 1..Len(z) : runs'[s] = IF s = q THEN x ELSE z[s]
      BY <2>2, <3>1, ExceptSeq
    <3> QED BY <3>2 DEF z
  <2>5. \A s \in 1..Len(runs) :
           /\ runs'[s].visit = runs[s].visit /\ runs'[s].phase = runs[s].phase
           /\ runs'[s].held = runs[s].held
           /\ s = q /\ s \in Alive /\ b => runs'[s].cancelled
    BY <2>2, <2>4
  <2>6. Alive' = Alive
    <3>1. Alive' = {r \in 1..Len(runs') : runs'[r].phase # "over"}
      BY <2>4, LenProperties DEF Alive
    <3> QED BY <1>1, <2>4, <2>5, <3>1
  <2> QED BY <2>4, <2>5, <2>6
<1> QED BY <1>2, <1>3

\* The page's run is cut, and no download shown: by Cancel, which cancels it, or by leaving.
LEMMA CutKeepsInv ==
    ASSUME FlowInv, NEW b \in BOOLEAN, runs' = Cleanup(page.ref, b),
           UNCHANGED <<modal, storage, settled, again, cleared, haunted>>,
           page' \in Page, ~page'.downloading, page'.error = "missing" => page.error = "missing",
           page'.visit >= page.visit, page'.visit = page.visit => b /\ page.downloading
    PROVE  FlowInv'
<1>1. /\ runs' \in Seq(Run) /\ Len(runs') = Len(runs) /\ Alive' = Alive
      /\ \A s \in 1..Len(runs) :
            /\ runs'[s].visit = runs[s].visit /\ runs'[s].phase = runs[s].phase
            /\ runs'[s].held = runs[s].held
            /\ s = page.ref /\ s \in Alive /\ b => runs'[s].cancelled
  BY Cleaned
<1>2. /\ Alive \subseteq 1..Len(runs) /\ page.visit \in Nat /\ page'.visit \in Nat
      /\ \A s \in 1..Len(runs) : runs[s].visit \in Nat /\ runs[s].visit <= page.visit
  BY FlowFields DEF FlowInv, FlowTypeOK, Page
<1>3. FlowTypeOK'
  <2>1. \A s \in 1..Len(runs') : runs'[s].visit <= page'.visit
    BY <1>1, <1>2
  <2>2. Uncovered(modal, page)'
    BY <1>2 DEF Uncovered, FlowInv, FlowTypeOK
  <2> QED BY <1>1, <2>1, <2>2 DEF FlowInv, FlowTypeOK, Uncovered
<1>4. Readable' = Readable
  BY DEF Readable
<1>5. \A s \in 1..Len(runs') : Goal(runs[s])'
  BY <1>1, <1>4 DEF FlowInv, Goal
<1>6. ASSUME ~haunted PROVE Sole'
  <2>1. CASE Alive = {} /\ ~page.downloading /\ settled \subseteq Readable
    BY <1>1, <1>4, <2>1 DEF Sole
  <2>2. CASE \E r \in Alive : Alive = {r} /\ Shown(r) /\ Spent(runs[r])
    <3>1. PICK r \in Alive : Alive = {r} /\ Shown(r) /\ Spent(runs[r])
      BY <2>2
    <3>2. Spent(runs[r])'
      BY <1>1, <1>2, <1>4, <3>1 DEF Spent
    <3>3. runs'[r].visit = page'.visit => runs'[r].cancelled
      BY <1>1, <1>2, <3>1 DEF Shown
    <3>4. Shown(r)'
      BY <3>3 DEF Shown
    <3> QED BY <1>1, <3>1, <3>2, <3>4 DEF Sole
  <2> QED BY <1>6, <2>1, <2>2 DEF FlowInv, Sole
<1>7. (page.error = "missing" => cleared)' /\ again' = {}
  BY DEF FlowInv
<1> QED BY <1>3, <1>5, <1>6, <1>7 DEF FlowInv

LEMMA PrimaryActionKeepsInv == FlowInv /\ PrimaryAction => FlowInv'
<1> SUFFICES ASSUME FlowInv, PrimaryAction PROVE FlowInv'
  OBVIOUS
<1>1. Kept
  BY DEF PrimaryAction, Kept
<1>2. PICK c : c = Render
  OBVIOUS
<1>3. StartDownload(c) /\ c.visit = page.visit /\ c.downloading = page.downloading
  BY <1>2 DEF PrimaryAction, Render
<1>4. page.visit \in Nat /\ modal' = modal /\ modal.visit # page.visit
      /\ ~modal.downloading /\ modal.visit \in Nat /\ modal.visit <= page.visit
  BY FlowFields DEF PrimaryAction, BeforeDownload, Covered, FlowInv, FlowTypeOK
<1>5. modal'.visit < page.visit
  BY <1>4
<1> QED BY <1>1, <1>3, <1>4, <1>5, StartKeepsInv

LEMMA OnSuccessKeepsInv == FlowInv /\ OnSuccess => FlowInv'
<1> SUFFICES ASSUME FlowInv, OnSuccess PROVE FlowInv'
  OBVIOUS
<1>1. Kept
  BY DEF OnSuccess, Kept
<1>2. PICK c : c = modal
  OBVIOUS
<1>3. StartDownload(c) /\ c.visit \in Nat /\ c.visit <= page.visit
      /\ (c.visit = page.visit => ~page.downloading)
  BY <1>2 DEF OnSuccess, FlowInv, FlowTypeOK
<1>4. ~modal'.downloading /\ modal'.visit = 0
  BY DEF OnSuccess, NoModal
<1>5. page.visit \in Nat \ {0}
  BY DEF FlowInv, FlowTypeOK, Page
<1>6. modal'.visit \in Nat /\ modal'.visit < page.visit
  BY <1>4, <1>5
<1> QED BY <1>1, <1>3, <1>4, <1>6, StartKeepsInv

LEMMA UserKeepsInv ==
    ASSUME FlowInv,
           HandleExecute \/ CancelDownload \/ LeavePage \/ PromptAnswered
              \/ \E w \in Wallet \cup {NoWallet, OtherChain} : ChangeWallet(w)
    PROVE  FlowInv'
<1>1. page \in Page /\ page.visit \in Nat \ {0} /\ page.downloading \in BOOLEAN
  BY DEF FlowInv, FlowTypeOK, Page
<1>2. Uncovered(modal, page)
  BY DEF FlowInv, FlowTypeOK, Uncovered
<1>3. CASE HandleExecute
  <2>1. Kept /\ UNCHANGED <<runs, haunted, page>> /\ ~page.downloading
    BY <1>3 DEF HandleExecute, Kept, BeforeDownload
  <2>2. ~modal'.downloading /\ modal'.visit = page.visit
    BY <1>3, <2>1 DEF HandleExecute, Render
  <2>3. Uncovered(modal, page)'
    BY <1>1, <2>1, <2>2 DEF Uncovered
  <2> QED BY <1>1, <2>1, <2>3, Quiet
<1>4. CASE CancelDownload
  <2>1. /\ runs' = Cleanup(page.ref, TRUE) /\ page.downloading
        /\ UNCHANGED <<modal, storage, settled, again, cleared, haunted>>
    BY <1>4 DEF CancelDownload
  <2>2. page' \in Page /\ ~page'.downloading /\ page'.visit = page.visit
        /\ (page'.error = "missing" => page.error = "missing")
    <3>1. CASE page' = [page EXCEPT !.downloading = FALSE]
      BY <1>1, <3>1 DEF Page
    <3>2. CASE page' = [With("idle", FALSE) EXCEPT !.ref = 0]
      <4>1. PICK w : w = With("idle", FALSE)
        OBVIOUS
      <4>2. w \in Page /\ w.visit = page.visit /\ ~w.downloading /\ w.error = "none"
        BY <1>1, <4>1, PagesAre
      <4>3. page' = [w EXCEPT !.ref = 0]
        BY <3>2, <4>1
      <4> QED BY <4>2, <4>3 DEF Page
    <3> QED BY <1>4, <3>1, <3>2 DEF CancelDownload
  <2>3. page'.visit >= page.visit
    BY <1>1, <2>2
  <2> QED BY <2>1, <2>2, <2>3, CutKeepsInv
<1>5. CASE LeavePage
  <2>1. /\ runs' = Cleanup(page.ref, FALSE) /\ page' = Visit(page.visit + 1)
        /\ UNCHANGED <<modal, storage, settled, again, cleared, haunted>>
    BY <1>5 DEF LeavePage
  <2>2. PICK n \in Nat \ {0} : n = page.visit + 1
    BY <1>1
  <2>3. page' = [visit |-> n, downloading |-> FALSE, status |-> "idle", error |-> "none",
                 ref |-> 0]
    BY <2>1, <2>2 DEF Visit
  <2>4. page' \in Page /\ ~page'.downloading /\ page'.visit = n /\ page'.error = "none"
    BY <2>3 DEF Page
  <2>5. page'.visit >= page.visit /\ page'.visit # page.visit
    BY <1>1, <2>2, <2>4
  <2> QED BY <2>1, <2>4, <2>5, CutKeepsInv
<1>6. CASE PromptAnswered
  <2>1. /\ Kept /\ UNCHANGED <<runs, haunted, modal>>
        /\ page' = page \/ page' = With("running", page.downloading)
    BY <1>6 DEF PromptAnswered, Kept
  <2>2. /\ page' \in Page /\ page'.visit = page.visit /\ page'.downloading = page.downloading
        /\ page'.ref = page.ref /\ page'.status \in {page.status, "running"}
        /\ (page'.error = "missing" => page.error = "missing")
    <3>1. CASE page' = page
      BY <1>1, <3>1
    <3>2. CASE page' = With("running", page.downloading)
      BY <1>1, <3>2, PagesAre
    <3> QED BY <2>1, <3>1, <3>2
  <2>3. Uncovered(modal, page)'
    BY <1>2, <2>1, <2>2 DEF Uncovered
  <2> QED BY <2>1, <2>2, <2>3, Quiet
<1>7. CASE \E w \in Wallet \cup {NoWallet, OtherChain} : ChangeWallet(w)
  <2>1. Kept /\ UNCHANGED <<page, runs, haunted, modal>>
    BY <1>7 DEF ChangeWallet, Kept
  <2>2. Uncovered(modal, page)'
    BY <1>2, <2>1 DEF Uncovered
  <2> QED BY <1>1, <2>1, <2>2, Quiet
<1> QED BY <1>3, <1>4, <1>5, <1>6, <1>7

LEMMA FlowStep == FlowInv /\ [FlowNext]_flowVars => FlowInv'
<1> SUFFICES ASSUME FlowInv, [FlowNext]_flowVars PROVE FlowInv'
  OBVIOUS
<1>1. CASE PrimaryAction \/ OnSuccess
  BY <1>1, PrimaryActionKeepsInv, OnSuccessKeepsInv
<1>2. CASE HandleExecute \/ CancelDownload \/ LeavePage \/ PromptAnswered
              \/ \E w \in Wallet \cup {NoWallet, OtherChain} : ChangeWallet(w)
  BY <1>2, UserKeepsInv
<1>3. ASSUME NEW r \in Alive,
             \/ GotHeld(r) \/ Discovers(r) \/ PaymentRequired(r) \/ Pays(r)
             \/ PieceVerified(r) \/ StoredPiece(r) \/ AttemptFails(r) \/ Reassembled(r)
      PROVE  FlowInv'
  BY <1>3, GotHeldKeepsInv, DiscoversKeepsInv, PaymentRequiredKeepsInv, PaysKeepsInv,
     PieceVerifiedKeepsInv, StoredPieceKeepsInv, AttemptFailsKeepsInv, ReassembledKeepsInv
<1>4. CASE UNCHANGED flowVars
  <2>1. Kept /\ UNCHANGED <<page, runs, haunted, modal>>
    BY <1>4 DEF flowVars, Kept
  <2>2. Uncovered(modal, page)'
    BY <2>1 DEF Uncovered, FlowInv, FlowTypeOK
  <2>3. page \in Page
    BY DEF FlowInv, FlowTypeOK
  <2> QED BY <2>1, <2>2, <2>3, Quiet
<1> QED BY <1>1, <1>2, <1>3, <1>4 DEF FlowNext

\* Over every run of start() a model's page left behind, the page tells the truth about its
\* download, nothing is paid for twice without a reason, and what is put together is there
\* (useDownload, Downloader.start).
THEOREM DownloadsCorrect == FlowSpec => []DownloadCorrect
<1>1. FlowInv => DownloadCorrect
  <2> SUFFICES ASSUME FlowInv PROVE DownloadCorrect
    OBVIOUS
  <2>1. PageTellsTruth
    <3> SUFFICES ASSUME ~haunted PROVE PageTellsTruth
      BY DEF PageTellsTruth
    <3> DEFINE mine == {r \in Alive : runs[r].visit = page.visit /\ ~runs[r].cancelled}
    <3>1. (page.downloading <=> mine # {})
          /\ (page.downloading => mine = {page.ref} /\ page.status \notin {"complete", "error"})
      <4>1. CASE Alive = {} /\ ~page.downloading
        BY <4>1
      <4>2. CASE \E r \in Alive : Alive = {r} /\ Shown(r)
        BY <4>2 DEF Shown
      <4> QED BY <4>1, <4>2 DEF FlowInv, Sole
    <3> QED BY <3>1 DEF PageTellsTruth
  <2>2. PaidAgainForReason /\ NothingMissing
    BY DEF FlowInv, PaidAgainForReason, NothingMissing
  <2> QED BY <2>1, <2>2 DEF DownloadCorrect
<1> QED BY <1>1, FlowStarts, FlowStep, PTL DEF FlowSpec

-----------------------------------------------------------------------------
(* The lists of models.                                                    *)

Event == [kind : {"registered", "deactivated", "paid"}, title : Title, by : Wallet]
Entity == [known : BOOLEAN, creator : Wallet \cup {NoWallet}, active : BOOLEAN, paid : Nat]
Entities ==
    [model : [Title -> Entity],
     creator : [Wallet -> [known : BOOLEAN, all : Nat, active : Nat, chunks : Nat]],
     seeder : [Wallet -> Nat],
     network : [models : Nat, active : Nat, payments : Nat, creators : Nat, seeders : Nat]]

CatalogueTypeOK ==
    /\ now \in Nat
    /\ log \in Seq(Event) /\ when \in Seq(Nat) /\ Len(when) <= Len(log)
    /\ \A i \in 1..Len(when) : when[i] <= now
    /\ db \in Entities
    /\ response \in [titles : SUBSET Title, until : Nat]
    /\ asked \in [titles : SUBSET Title, at : Nat, open : BOOLEAN]
    /\ list \in [titles : SUBSET Title, at : Nat, scanned : BOOLEAN]
    /\ saved \subseteq [title : Title, by : Wallet]

\* The events on chain: a model is registered once, and whatever else happens to it,
\* happens while it is active.
ChainOK ==
    /\ \A i, j \in 1..Len(log) :
          log[i].kind = "registered" /\ log[j].kind = "registered" /\ log[i].title = log[j].title
          => i = j
    /\ \A i \in 1..Len(log) : log[i].kind # "registered" => ActiveBy(i - 1, log[i].title)

\* What the indexer's entities say of the events it has processed.
PaidFor(t) == {i \in Paid : log[i].title = t}
ChunksOf(w) == {i \in Paid : db.model[log[i].title].creator = w}
PaidTo(w) == {i \in Paid : log[i].by = w}
ActiveTitles == {t \in Title : db.model[t].active}
ActiveOf(w) == {t \in Title : db.model[t].active /\ db.model[t].creator = w}
Seeders == {w \in Wallet : db.seeder[w] > 0}
Creators == {w \in Wallet : db.creator[w].all > 0}

ModelsInv ==
    \A t \in Title :
        /\ db.model[t].known <=> RegisteredBy(Len(when), t) # {}
        /\ db.model[t].known => RegisteredBy(Len(when), t) = {db.model[t].creator}
        /\ db.model[t].known => db.model[t].creator \in Creators
        /\ db.model[t].active <=> ActiveBy(Len(when), t)
        /\ db.model[t].paid = Cardinality(PaidFor(t))

CountsInv ==
    /\ \A w \in Wallet :
          /\ IsFiniteSet(ActiveOf(w)) /\ db.creator[w].active = Cardinality(ActiveOf(w))
          /\ db.creator[w].chunks = Cardinality(ChunksOf(w))
          /\ db.seeder[w] = Cardinality(PaidTo(w))
          /\ db.creator[w].known <=> w \in Creators
    /\ IsFiniteSet(ActiveTitles) /\ db.network.active = Cardinality(ActiveTitles)
    /\ db.network.payments = Cardinality(Paid)
    /\ IsFiniteSet(Seeders) /\ db.network.seeders = Cardinality(Seeders)
    /\ IsFiniteSet(Creators) /\ db.network.creators = Cardinality(Creators)

\* An answer has what the indexer knew before a time.
Knows(titles, time) ==
    \A i \in 1..Len(when) : when[i] < time =>
        /\ log[i].kind = "deactivated" => log[i].title \notin titles
        /\ log[i].kind = "registered" /\ Asks(log[i].by) =>
              log[i].title \in titles \/ DeactivatedBy(Len(when), log[i].title)

RecentInv ==
    /\ asked.titles \subseteq OnChainModels /\ response.titles \subseteq OnChainModels
    /\ list.titles \subseteq OnChainModels \cup LocalModels
    /\ asked.open => /\ asked.at <= now /\ now <= asked.at + QueryTimeout
                     /\ Knows(asked.titles, asked.at)
    /\ response.until <= now + CacheTTL
    /\ response.until # 0 => Knows(response.titles, response.until - CacheTTL - QueryTimeout)
    /\ list.at <= now
    /\ ~list.scanned =>
          \E titles \in SUBSET Title :
              /\ list.titles \ LocalModels \subseteq titles /\ titles \subseteq list.titles
              /\ Knows(titles, list.at - CacheTTL - QueryTimeout)

CatalogueInv == CatalogueTypeOK /\ ChainOK /\ ModelsInv /\ CountsInv /\ RecentInv

-----------------------------------------------------------------------------
\* The past of a model, up to an event.

LEMMA PastIs ==
    ASSUME NEW n, NEW t
    PROVE  /\ \A w : w \in RegisteredBy(n, t) <=>
                 \E i \in 1..n : log[i].kind = "registered" /\ log[i].title = t /\ log[i].by = w
           /\ DeactivatedBy(n, t) <=>
                 \E i \in 1..n : log[i].kind = "deactivated" /\ log[i].title = t
BY DEF RegisteredBy, DeactivatedBy, Is

LEMMA PastIsPrimed ==
    ASSUME NEW n, NEW t
    PROVE  /\ \A w : w \in RegisteredBy(n, t)' <=>
                 \E i \in 1..n : log'[i].kind = "registered" /\ log'[i].title = t /\ log'[i].by = w
           /\ DeactivatedBy(n, t)' <=>
                 \E i \in 1..n : log'[i].kind = "deactivated" /\ log'[i].title = t
BY DEF RegisteredBy, DeactivatedBy, Is

\* The chain only grows.
Grows ==
    /\ log' \in Seq(Event) /\ Len(log) <= Len(log')
    /\ \A i \in 1..Len(log) : log'[i] = log[i]

LEMMA PastKept ==
    ASSUME log \in Seq(Event), Grows, NEW n \in Nat, n <= Len(log), NEW t
    PROVE  /\ RegisteredBy(n, t)' = RegisteredBy(n, t)
           /\ DeactivatedBy(n, t)' <=> DeactivatedBy(n, t)
           /\ ActiveBy(n, t)' <=> ActiveBy(n, t)
<1>1. \A i \in 1..n : i \in 1..Len(log)
  BY LenProperties
<1>2. \A i \in 1..n : log'[i] = log[i]
  BY <1>1 DEF Grows
<1>3. RegisteredBy(n, t)' = RegisteredBy(n, t)
  <2>1. \A w : w \in RegisteredBy(n, t) <=>
           \E i \in 1..n : log[i].kind = "registered" /\ log[i].title = t /\ log[i].by = w
    BY PastIs
  <2>2. \A w : w \in RegisteredBy(n, t)' <=>
           \E i \in 1..n : log'[i].kind = "registered" /\ log'[i].title = t /\ log'[i].by = w
    BY PastIsPrimed
  <2>3. \A w : w \in RegisteredBy(n, t)' <=> w \in RegisteredBy(n, t)
    BY <1>2, <2>1, <2>2
  <2> QED BY <2>3
<1>4. DeactivatedBy(n, t)' <=> DeactivatedBy(n, t)
  BY <1>2, PastIs, PastIsPrimed
<1> QED BY <1>3, <1>4 DEF ActiveBy

LEMMA PastGrows ==
    ASSUME NEW n \in Nat, NEW k \in Nat, n <= k, NEW t
    PROVE  /\ RegisteredBy(n, t) \subseteq RegisteredBy(k, t)
           /\ DeactivatedBy(n, t) => DeactivatedBy(k, t)
<1>1. \A i \in 1..n : i \in 1..k
  OBVIOUS
<1> QED BY <1>1, PastIs

\* One event more.
LEMMA PastNext ==
    ASSUME NEW n \in Nat, NEW t
    PROVE  /\ RegisteredBy(n + 1, t) =
                 IF log[n + 1].kind = "registered" /\ log[n + 1].title = t
                 THEN RegisteredBy(n, t) \cup {log[n + 1].by} ELSE RegisteredBy(n, t)
           /\ DeactivatedBy(n + 1, t) <=>
                 \/ DeactivatedBy(n, t)
                 \/ log[n + 1].kind = "deactivated" /\ log[n + 1].title = t
<1>1. \A i : i \in 1..(n + 1) <=> i \in 1..n \/ i = n + 1
  OBVIOUS
<1>2. \A w : w \in RegisteredBy(n + 1, t) <=>
               \/ w \in RegisteredBy(n, t)
               \/ log[n + 1].kind = "registered" /\ log[n + 1].title = t /\ log[n + 1].by = w
  <2>1. \A w : w \in RegisteredBy(n + 1, t) <=>
           \E i \in 1..(n + 1) : log[i].kind = "registered" /\ log[i].title = t /\ log[i].by = w
    BY PastIs
  <2>2. \A w : w \in RegisteredBy(n, t) <=>
           \E i \in 1..n : log[i].kind = "registered" /\ log[i].title = t /\ log[i].by = w
    BY PastIs
  <2> QED BY <1>1, <2>1, <2>2
<1>3. DeactivatedBy(n + 1, t) <=>
         (DeactivatedBy(n, t) \/ (log[n + 1].kind = "deactivated" /\ log[n + 1].title = t))
  <2>1. DeactivatedBy(n + 1, t) <=>
           \E i \in 1..(n + 1) : log[i].kind = "deactivated" /\ log[i].title = t
    BY PastIs
  <2>2. DeactivatedBy(n, t) <=> \E i \in 1..n : log[i].kind = "deactivated" /\ log[i].title = t
    BY PastIs
  <2>3. PICK k : k = n + 1
    OBVIOUS
  <2>4. \A i : i \in 1..k <=> i \in 1..n \/ i = k
    BY <1>1, <2>3
  <2>5. DeactivatedBy(k, t) <=> \E i \in 1..k : log[i].kind = "deactivated" /\ log[i].title = t
    BY <2>1, <2>3
  <2> QED BY <2>2, <2>3, <2>4, <2>5
<1>4. CASE log[n + 1].kind = "registered" /\ log[n + 1].title = t
  BY <1>2, <1>3, <1>4
<1>5. CASE ~(log[n + 1].kind = "registered" /\ log[n + 1].title = t)
  <2>1. \A w : w \in RegisteredBy(n + 1, t) <=> w \in RegisteredBy(n, t)
    BY <1>2, <1>5
  <2>2. RegisteredBy(n + 1, t) = RegisteredBy(n, t)
    BY <2>1
  <2> QED BY <1>3, <1>5, <2>2
<1> QED BY <1>4, <1>5

\* The types, for arithmetic.
LEMMA CatalogueTypes ==
    ASSUME CatalogueTypeOK
    PROVE  /\ now \in Nat /\ Len(log) \in Nat /\ Len(when) \in Nat /\ Len(when) <= Len(log)
           /\ DOMAIN when = 1..Len(when) /\ CacheTTL \in Nat /\ QueryTimeout \in Nat
           /\ \A i \in 1..Len(log) : /\ log[i] \in Event /\ log[i].title \in Title
                                     /\ log[i].by \in Wallet
                                     /\ log[i].kind \in {"registered", "deactivated", "paid"}
           /\ \A i \in 1..Len(when) : when[i] \in Nat /\ when[i] <= now /\ i \in 1..Len(log)
           /\ asked.at \in Nat /\ list.at \in Nat /\ response.until \in Nat
<1>1. /\ Len(log) \in Nat /\ Len(when) \in Nat /\ DOMAIN when = 1..Len(when)
      /\ \A i \in 1..Len(log) : log[i] \in Event
      /\ \A i \in 1..Len(when) : when[i] \in Nat
  BY LenProperties, ElementOfSeq DEF CatalogueTypeOK
<1>2. \A i \in 1..Len(when) : i \in 1..Len(log)
  BY <1>1 DEF CatalogueTypeOK
<1>3. \A e \in Event : e.title \in Title /\ e.by \in Wallet
                       /\ e.kind \in {"registered", "deactivated", "paid"}
  BY DEF Event
<1> QED BY <1>1, <1>2, <1>3, CatalogueAssumption DEF CatalogueTypeOK

\* The first event of a model is its registration, and there is no other.
LEMMA ChainPast ==
    ASSUME CatalogueTypeOK, ChainOK, NEW n \in Nat, n <= Len(log), NEW t, RegisteredBy(n, t) = {}
    PROVE  \A i \in 1..n : log[i].title # t
<1>1. \A w : w \in RegisteredBy(n, t) <=>
         \E j \in 1..n : log[j].kind = "registered" /\ log[j].title = t /\ log[j].by = w
  BY PastIs
<1>2. ASSUME NEW i \in 1..n, log[i].title = t PROVE FALSE
  <2>1. i \in 1..Len(log) /\ i - 1 \in Nat /\ i - 1 <= n
    BY CatalogueTypes
  <2>2. log[i].kind # "registered"
    <3>1. ASSUME log[i].kind = "registered" PROVE log[i].by \in RegisteredBy(n, t)
      BY <1>1, <1>2, <3>1
    <3> QED BY <3>1
  <2>3. RegisteredBy(i - 1, log[i].title) # {}
    BY <2>1, <2>2 DEF ChainOK, ActiveBy
  <2> QED BY <1>2, <2>1, <2>3, PastGrows
<1> QED BY <1>2

LEMMA RegisteredOnce ==
    ASSUME CatalogueTypeOK, ChainOK, NEW n \in Nat, n <= Len(log), NEW t,
           NEW v \in RegisteredBy(n, t), NEW w \in RegisteredBy(n, t)
    PROVE  v = w
<1>1. PICK i \in 1..n : log[i].kind = "registered" /\ log[i].title = t /\ log[i].by = v
  BY PastIs
<1>2. PICK j \in 1..n : log[j].kind = "registered" /\ log[j].title = t /\ log[j].by = w
  BY PastIs
<1>3. i \in 1..Len(log) /\ j \in 1..Len(log)
  BY CatalogueTypes
<1>4. i = j
  BY <1>1, <1>2, <1>3 DEF ChainOK
<1> QED BY <1>1, <1>2, <1>4

LEMMA CatalogueStarts == now = 0 /\ CatalogueInit => CatalogueInv
<1> SUFFICES ASSUME now = 0, CatalogueInit PROVE CatalogueInv
  OBVIOUS
<1>1. Len(log) = 0 /\ Len(when) = 0 /\ log \in Seq(Event) /\ when \in Seq(Nat)
      /\ DOMAIN when = {}
  BY EmptySeq DEF CatalogueInit
<1>2. db \in Entities
  <2>1. NoEntity \in Entity
    BY DEF NoEntity, Entity
  <2>2. [known |-> FALSE, all |-> 0, active |-> 0, chunks |-> 0]
           \in [known : BOOLEAN, all : Nat, active : Nat, chunks : Nat]
    OBVIOUS
  <2> QED BY <2>1, <2>2 DEF CatalogueInit, Entities
<1>3. CatalogueTypeOK
  BY <1>1, <1>2 DEF CatalogueInit, CatalogueTypeOK, NoResponse, NotAsked, NoList
<1>4. ChainOK
  BY <1>1 DEF ChainOK
<1>5. \A t : RegisteredBy(0, t) = {} /\ ~ActiveBy(0, t)
  BY PastIs DEF ActiveBy
<1>6. Paid = {} /\ \A t \in Title : PaidFor(t) = {}
  BY <1>1 DEF Paid, PaidFor
<1>7. /\ \A t \in Title : /\ ~db.model[t].known /\ ~db.model[t].active /\ db.model[t].paid = 0
      /\ \A w \in Wallet : /\ db.creator[w].active = 0 /\ db.creator[w].chunks = 0
                           /\ db.creator[w].all = 0 /\ db.seeder[w] = 0 /\ ~db.creator[w].known
      /\ db.network.active = 0 /\ db.network.payments = 0 /\ db.network.seeders = 0
      /\ db.network.creators = 0
  BY DEF CatalogueInit, NoEntity
<1>8. IsFiniteSet({}) /\ Cardinality({}) = 0
  BY FS_EmptySet
<1>9. ModelsInv
  BY <1>1, <1>5, <1>6, <1>7, <1>8 DEF ModelsInv
<1>10. CountsInv
  <2>1. /\ Seeders = {} /\ Creators = {} /\ ActiveTitles = {}
        /\ \A w \in Wallet : ActiveOf(w) = {} /\ ChunksOf(w) = {} /\ PaidTo(w) = {}
    BY <1>6, <1>7 DEF Seeders, Creators, ActiveTitles, ActiveOf, ChunksOf, PaidTo
  <2> QED BY <1>6, <1>7, <1>8, <2>1 DEF CountsInv
<1>11. RecentInv
  BY <1>1, CatalogueAssumption DEF RecentInv, CatalogueInit, NoResponse, NotAsked, NoList
<1> QED BY <1>3, <1>4, <1>9, <1>10, <1>11 DEF CatalogueInv

-----------------------------------------------------------------------------
\* Steps of the chain and of the clients: the indexer stays as it is.

LEMMA IndexedKept ==
    ASSUME CatalogueInv, Grows, UNCHANGED <<when, db>>
    PROVE  ModelsInv' /\ CountsInv'
<1>1. /\ log \in Seq(Event) /\ Len(when) \in Nat /\ Len(when) <= Len(log)
      /\ \A i \in DOMAIN when : i \in 1..Len(log)
  BY CatalogueTypes DEF CatalogueInv, CatalogueTypeOK
<1>2. \A i \in DOMAIN when : log'[i] = log[i]
  BY <1>1 DEF Grows
<1>3. \A t : /\ RegisteredBy(Len(when), t)' = RegisteredBy(Len(when), t)
             /\ ActiveBy(Len(when), t)' <=> ActiveBy(Len(when), t)
  <2>1. PICK n : n = Len(when)
    OBVIOUS
  <2>2. \A t : /\ RegisteredBy(n, t)' = RegisteredBy(n, t)
               /\ ActiveBy(n, t)' <=> ActiveBy(n, t)
    BY <1>1, <2>1, PastKept
  <2>3. Len(when)' = n
    BY <2>1
  <2> QED BY <2>1, <2>2, <2>3 DEF RegisteredBy, ActiveBy, DeactivatedBy
<1>4. Paid' = Paid
  BY <1>2 DEF Paid
<1>5. /\ \A t : PaidFor(t)' = PaidFor(t)
      /\ \A w : PaidTo(w)' = PaidTo(w)
      /\ \A w : ChunksOf(w)' = ChunksOf(w)
  <2>1. \A i \in Paid : log'[i] = log[i]
    BY <1>2 DEF Paid
  <2> QED BY <1>4, <2>1 DEF PaidFor, PaidTo, ChunksOf
<1>6. /\ Seeders' = Seeders /\ Creators' = Creators /\ ActiveTitles' = ActiveTitles
      /\ \A w : ActiveOf(w)' = ActiveOf(w)
  BY DEF Seeders, Creators, ActiveTitles, ActiveOf
<1>7. ModelsInv'
  BY <1>3, <1>5, <1>6 DEF CatalogueInv, ModelsInv
<1>8. CountsInv'
  BY <1>4, <1>5, <1>6 DEF CatalogueInv, CountsInv
<1> QED BY <1>7, <1>8

\* What was known before a time stays known.
LEMMA KnowsKept ==
    ASSUME CatalogueTypeOK, Grows, query' = query, when' \in Seq(Nat), Len(when) <= Len(when'),
           \A i \in 1..Len(when) : when'[i] = when[i],
           NEW titles, NEW time \in Int,
           \A i \in 1..Len(when') : i > Len(when) => when'[i] >= time,
           Knows(titles, time)
    PROVE  Knows(titles, time)'
<1> SUFFICES ASSUME NEW i \in 1..Len(when'), when'[i] < time
             PROVE  /\ log'[i].kind = "deactivated" => log'[i].title \notin titles
                    /\ log'[i].kind = "registered" /\ Asks(log[i].by)' =>
                         log'[i].title \in titles \/ DeactivatedBy(Len(when), log[i].title)'
  BY DEF Knows
<1>1. Len(when) \in Nat /\ Len(when') \in Nat /\ Len(when) <= Len(log)
  BY CatalogueTypes, LenProperties
<1>2. when'[i] \in Nat
  BY ElementOfSeq
<1>3. i \in 1..Len(when)
  BY <1>1, <1>2
<1>4. when[i] < time /\ log'[i] = log[i] /\ (Asks(log[i].by)' <=> Asks(log[i].by))
  BY <1>1, <1>3, CatalogueTypes DEF Grows, Asks
<1>5. /\ log[i].kind = "deactivated" => log[i].title \notin titles
      /\ log[i].kind = "registered" /\ Asks(log[i].by) =>
           log[i].title \in titles \/ DeactivatedBy(Len(when), log[i].title)
  BY <1>3, <1>4 DEF Knows
<1>6. DeactivatedBy(Len(when), log[i].title) => DeactivatedBy(Len(when), log[i].title)'
  <2> SUFFICES ASSUME DeactivatedBy(Len(when), log[i].title)
               PROVE  DeactivatedBy(Len(when), log[i].title)'
    OBVIOUS
  <2>1. PICK j \in 1..Len(when) : log[j].kind = "deactivated" /\ log[j].title = log[i].title
    BY PastIs
  <2>2. j \in 1..Len(when') /\ log'[j] = log[j]
    BY <1>1, <2>1, CatalogueTypes DEF Grows
  <2>3. log'[j].kind = "deactivated" /\ log'[j].title = log'[i].title
    BY <1>4, <2>1, <2>2
  <2> QED BY <2>2, <2>3 DEF DeactivatedBy, Is
<1> QED BY <1>4, <1>5, <1>6 DEF Asks

LEMMA OnChainGrows ==
    ASSUME CatalogueTypeOK, Grows, query' = query, saved \subseteq saved'
    PROVE  OnChainModels \subseteq OnChainModels' /\ LocalModels \subseteq LocalModels'
<1>1. ASSUME NEW t \in OnChainModels PROVE t \in OnChainModels'
  <2>1. t \in Title /\ \E w \in RegisteredBy(Len(log), t) : Asks(w)
    BY DEF OnChainModels
  <2>2. PICK w \in RegisteredBy(Len(log), t) : Asks(w)
    BY <2>1
  <2>3. PICK i \in 1..Len(log) : log[i].kind = "registered" /\ log[i].title = t /\ log[i].by = w
    BY PastIs
  <2>4. i \in 1..Len(log') /\ log'[i] = log[i]
    BY CatalogueTypes, LenProperties DEF Grows
  <2>5. w \in RegisteredBy(Len(log), t)'
    BY <2>3, <2>4 DEF RegisteredBy, Is
  <2>6. Asks(w)'
    BY <2>2 DEF Asks
  <2> QED BY <2>1, <2>5, <2>6 DEF OnChainModels
<1>2. LocalModels \subseteq LocalModels'
  BY DEF LocalModels, Asks
<1> QED BY <1>1, <1>2

LEMMA RecentKept ==
    ASSUME CatalogueInv, Grows, UNCHANGED <<asked, response, list, query>>, saved \subseteq saved',
           now' \in Nat, now <= now', asked.open => now' <= asked.at + QueryTimeout,
           when' \in Seq(Nat), Len(when) <= Len(when'),
           \A i \in 1..Len(when) : when'[i] = when[i],
           \A i \in 1..Len(when') : i > Len(when) => when'[i] >= now
    PROVE  RecentInv'
<1>1. /\ now \in Nat /\ CacheTTL \in Nat /\ QueryTimeout \in Nat /\ Len(when) \in Nat
      /\ Len(when') \in Nat /\ \A i \in 1..Len(when') : when'[i] \in Nat
      /\ asked.at \in Nat /\ list.at \in Nat /\ response.until \in Nat
  BY CatalogueTypes, LenProperties, ElementOfSeq DEF CatalogueInv
<1>2. OnChainModels \subseteq OnChainModels' /\ LocalModels \subseteq LocalModels'
  BY OnChainGrows DEF CatalogueInv
<1>3. ASSUME NEW titles, NEW time \in Int, time <= now, Knows(titles, time)
      PROVE  Knows(titles, time)'
  <2>1. \A i \in 1..Len(when') : i > Len(when) => when'[i] >= time
    BY <1>1, <1>3
  <2> QED BY <1>3, <2>1, KnowsKept DEF CatalogueInv
<1>4. /\ asked.titles \subseteq OnChainModels /\ response.titles \subseteq OnChainModels
      /\ list.titles \subseteq OnChainModels \cup LocalModels
      /\ asked.open => asked.at <= now /\ Knows(asked.titles, asked.at)
      /\ response.until <= now + CacheTTL
      /\ response.until # 0 => Knows(response.titles, response.until - CacheTTL - QueryTimeout)
      /\ list.at <= now
  BY DEF CatalogueInv, RecentInv
<1>5. asked.open => asked.at <= now' /\ Knows(asked.titles, asked.at)'
  BY <1>1, <1>3, <1>4
<1>6. response.until # 0 => Knows(response.titles, response.until - CacheTTL - QueryTimeout)'
  <2>1. response.until - CacheTTL - QueryTimeout \in Int
        /\ response.until - CacheTTL - QueryTimeout <= now
    BY <1>1, <1>4
  <2> QED BY <1>3, <1>4, <2>1
<1>7. response.until <= now' + CacheTTL /\ list.at <= now'
  BY <1>1, <1>4
<1>8. ASSUME ~list.scanned
      PROVE  \E titles \in SUBSET Title :
                /\ list.titles \ LocalModels' \subseteq titles /\ titles \subseteq list.titles
                /\ Knows(titles, list.at - CacheTTL - QueryTimeout)'
  <2>1. PICK titles \in SUBSET Title :
           /\ list.titles \ LocalModels \subseteq titles /\ titles \subseteq list.titles
           /\ Knows(titles, list.at - CacheTTL - QueryTimeout)
    BY <1>8 DEF CatalogueInv, RecentInv
  <2>2. list.at - CacheTTL - QueryTimeout \in Int /\ list.at - CacheTTL - QueryTimeout <= now
    BY <1>1, <1>4
  <2>3. Knows(titles, list.at - CacheTTL - QueryTimeout)'
    BY <1>3, <2>1, <2>2
  <2> QED BY <1>2, <2>1, <2>3
<1>9. asked' = asked /\ response' = response /\ list' = list
  OBVIOUS
<1>10. /\ (asked.titles \subseteq OnChainModels)' /\ (response.titles \subseteq OnChainModels)'
       /\ (list.titles \subseteq OnChainModels \cup LocalModels)'
  BY <1>2, <1>4, <1>9
<1>11. (asked.open => /\ asked.at <= now /\ now <= asked.at + QueryTimeout
                      /\ Knows(asked.titles, asked.at))'
  BY <1>5, <1>9 DEF Knows
<1>12. (response.until # 0 => Knows(response.titles, response.until - CacheTTL - QueryTimeout))'
  BY <1>6, <1>9 DEF Knows
<1>13. (~list.scanned =>
          \E titles \in SUBSET Title :
              /\ list.titles \ LocalModels \subseteq titles /\ titles \subseteq list.titles
              /\ Knows(titles, list.at - CacheTTL - QueryTimeout))'
  BY <1>8, <1>9 DEF Knows
<1> QED BY <1>7, <1>9, <1>10, <1>11, <1>12, <1>13 DEF RecentInv

\* A step of the chain, or one that saves a model in this browser.
LEMMA ChainKeeps ==
    ASSUME CatalogueInv, Grows, ChainOK', saved \subseteq saved',
           saved' \subseteq [title : Title, by : Wallet],
           UNCHANGED <<when, db, query, response, asked, list, now>>
    PROVE  CatalogueInv'
<1>1. ModelsInv' /\ CountsInv'
  BY IndexedKept
<1>2. CatalogueTypeOK'
  <2>1. Len(when) \in Nat /\ Len(log) \in Nat /\ Len(log') \in Nat
    BY CatalogueTypes, LenProperties DEF CatalogueInv, Grows
  <2>2. Len(when) <= Len(log')
    BY <2>1 DEF CatalogueInv, CatalogueTypeOK, Grows
  <2> QED BY <2>2 DEF CatalogueInv, CatalogueTypeOK, Grows
<1>3. RecentInv'
  <2>1. /\ now \in Nat /\ Len(when) \in Nat /\ when' \in Seq(Nat)
        /\ asked.open => now <= asked.at + QueryTimeout
    BY CatalogueTypes DEF CatalogueInv, CatalogueTypeOK, RecentInv
  <2>2. \A i \in 1..Len(when') : i > Len(when) => when'[i] >= now
    BY <2>1
  <2> QED BY <2>1, <2>2, RecentKept
<1> QED BY <1>1, <1>2, <1>3 DEF CatalogueInv

LEMMA EmitKeeps ==
    ASSUME CatalogueInv, NEW kind \in {"registered", "deactivated", "paid"}, NEW t \in Title,
           NEW w \in Wallet, Emits(kind, t, w),
           saved \subseteq saved', saved' \subseteq [title : Title, by : Wallet],
           kind = "registered" => RegisteredBy(Len(log), t) = {},
           kind # "registered" => ActiveBy(Len(log), t)
    PROVE  CatalogueInv'
<1> DEFINE e == [kind |-> kind, title |-> t, by |-> w]
<1>1. e \in Event /\ e.kind = kind /\ e.title = t
  BY DEF Event
<1>2. log' = Append(log, e) /\ UNCHANGED <<when, db, query, response, asked, list, now>>
  BY DEF Emits
<1> HIDE DEF e
<1>3. log \in Seq(Event) /\ CatalogueTypeOK /\ ChainOK
  BY DEF CatalogueInv, CatalogueTypeOK
<1>4. /\ log' \in Seq(Event) /\ Len(log') = Len(log) + 1 /\ Len(log) \in Nat
      /\ \A i \in 1..Len(log) : log'[i] = log[i]
      /\ log'[Len(log) + 1] = e
  BY <1>1, <1>2, <1>3, AppendProperties, LenProperties
<1>5. Grows
  BY <1>4 DEF Grows
<1>6. PICK n : n = Len(log)
  OBVIOUS
<1>7. \A i \in 1..Len(log') : i \in 1..n \/ i = n + 1
  BY <1>4, <1>6
<1>8. ChainOK'
  <2>1. ASSUME NEW i \in 1..n, log[i].kind = "registered", kind = "registered" PROVE log[i].title # t
    BY <1>3, <1>4, <1>6, <2>1, ChainPast
  <2>2. ASSUME NEW i \in 1..Len(log'), NEW j \in 1..Len(log'),
               log'[i].kind = "registered", log'[j].kind = "registered",
               log'[i].title = log'[j].title
        PROVE  i = j
    <3>1. CASE i \in 1..n /\ j \in 1..n
      BY <1>3, <1>4, <1>6, <2>2, <3>1 DEF ChainOK
    <3>2. CASE i \in 1..n /\ j = n + 1
      <4>1. log'[i] = log[i] /\ log'[j] = e
        BY <1>4, <1>6, <3>2
      <4> QED BY <1>1, <2>1, <2>2, <3>2, <4>1
    <3>3. CASE i = n + 1 /\ j \in 1..n
      <4>1. log'[j] = log[j] /\ log'[i] = e
        BY <1>4, <1>6, <3>3
      <4> QED BY <1>1, <2>1, <2>2, <3>3, <4>1
    <3> QED BY <1>7, <3>1, <3>2, <3>3
  <2>3. ASSUME NEW i \in 1..Len(log'), log'[i].kind # "registered"
        PROVE  ActiveBy(i - 1, log[i].title)'
    <3>1. PICK k, u : k = i - 1 /\ u = log'[i].title
      OBVIOUS
    <3>2. k \in Nat /\ k <= n /\ n \in Nat
      BY <1>4, <1>6, <1>7, <3>1
    <3>3. ActiveBy(k, u)
      <4>1. CASE i \in 1..n
        <5>1. log'[i] = log[i]
          BY <1>4, <1>6, <4>1
        <5> QED BY <1>3, <1>6, <2>3, <3>1, <4>1, <5>1 DEF ChainOK
      <4>2. CASE i = n + 1
        <5>1. log'[i] = e /\ k = n
          BY <1>4, <1>6, <3>1, <3>2, <4>2
        <5> QED BY <1>1, <1>6, <2>3, <3>1, <5>1
      <4> QED BY <1>7, <4>1, <4>2
    <3>4. ActiveBy(k, u)'
      BY <1>3, <1>5, <1>6, <3>2, <3>3, PastKept
    <3> QED BY <3>1, <3>4 DEF ActiveBy, RegisteredBy, DeactivatedBy, Is
  <2> QED BY <2>2, <2>3 DEF ChainOK
<1> QED BY <1>2, <1>5, <1>8, ChainKeeps

\* A step that leaves the chain alone.
LEMMA ChainSame ==
    ASSUME ChainOK, log' = log
    PROVE  ChainOK'
<1>1. ASSUME NEW i \in 1..Len(log), log[i].kind # "registered"
      PROVE  ActiveBy(i - 1, log[i].title)'
  <2>1. PICK k, u : k = i - 1 /\ u = log[i].title
    OBVIOUS
  <2>2. ActiveBy(k, u)
    BY <1>1, <2>1 DEF ChainOK
  <2>3. RegisteredBy(k, u)' = RegisteredBy(k, u) /\ (DeactivatedBy(k, u)' <=> DeactivatedBy(k, u))
    BY DEF RegisteredBy, DeactivatedBy, Is
  <2>4. ActiveBy(k, u)'
    BY <2>2, <2>3 DEF ActiveBy
  <2> QED BY <2>1, <2>4 DEF ActiveBy, RegisteredBy, DeactivatedBy, Is
<1> QED BY <1>1 DEF ChainOK

\* A transaction, or a model that only this browser has.
LEMMA TransactionKeeps ==
    ASSUME CatalogueInv, NEW t \in Title,
           \/ \E w \in Wallet : RegisterTitle(t, w) \/ RegisterFails(t, w) \/ PayForChunk(t, w)
           \/ DeactivateTitle(t)
    PROVE  CatalogueInv'
<1>1. saved \subseteq [title : Title, by : Wallet] /\ log \in Seq(Event)
  BY DEF CatalogueInv, CatalogueTypeOK
<1>2. ASSUME NEW w \in Wallet
      PROVE  saved \cup {[title |-> t, by |-> w]} \subseteq [title : Title, by : Wallet]
  BY <1>1
<1>3. ASSUME NEW w \in Wallet, RegisterTitle(t, w) PROVE CatalogueInv'
  <2>1. /\ RegisteredBy(Len(log), t) = {} /\ Emits("registered", t, w)
        /\ saved \subseteq saved' /\ saved' \subseteq [title : Title, by : Wallet]
    BY <1>1, <1>2, <1>3 DEF RegisterTitle
  <2> QED BY <2>1, EmitKeeps
<1>4. ASSUME NEW w \in Wallet, RegisterFails(t, w) PROVE CatalogueInv'
  <2>1. /\ saved \subseteq saved' /\ saved' \subseteq [title : Title, by : Wallet]
        /\ UNCHANGED <<log, when, db, query, response, asked, list, now>>
    BY <1>1, <1>2, <1>4 DEF RegisterFails
  <2>2. Len(log) \in Nat
    BY CatalogueTypes DEF CatalogueInv
  <2>3. Grows
    BY <1>1, <2>1, <2>2 DEF Grows
  <2>4. ChainOK'
    BY <2>1, ChainSame DEF CatalogueInv
  <2> QED BY <2>1, <2>3, <2>4, ChainKeeps
<1>5. ASSUME NEW w \in Wallet, PayForChunk(t, w) PROVE CatalogueInv'
  <2>1. ActiveBy(Len(log), t) /\ Emits("paid", t, w) /\ saved' = saved
    BY <1>5 DEF PayForChunk
  <2> QED BY <1>1, <2>1, EmitKeeps
<1>6. CASE DeactivateTitle(t)
  <2>1. PICK w \in RegisteredBy(Len(log), t) : Emits("deactivated", t, w)
    BY <1>6 DEF DeactivateTitle
  <2>2. w \in Wallet
    <3>1. PICK i \in 1..Len(log) : log[i].by = w
      BY PastIs
    <3> QED BY <3>1, CatalogueTypes DEF CatalogueInv
  <2>3. ActiveBy(Len(log), t) /\ saved' = saved
    BY <1>6 DEF DeactivateTitle
  <2> QED BY <1>1, <2>1, <2>2, <2>3, EmitKeeps
<1> QED BY <1>3, <1>4, <1>5, <1>6

\* What the indexer answers is what it knows.
LEMMA EnvioKnows ==
    ASSUME CatalogueInv, NEW time
    PROVE  /\ EnvioModels \subseteq OnChainModels /\ EnvioModels \in SUBSET Title
           /\ Knows(EnvioModels, time)
<1>1. PICK n : n = Len(when)
  OBVIOUS
<1>2. n \in Nat /\ Len(log) \in Nat /\ n <= Len(log)
  BY <1>1, CatalogueTypes DEF CatalogueInv
<1>3. ASSUME NEW t \in EnvioModels PROVE t \in OnChainModels
  <2>1. t \in Title /\ db.model[t].active /\ Asks(db.model[t].creator)
    BY <1>3 DEF EnvioModels
  <2>2. RegisteredBy(n, t) = {db.model[t].creator}
    BY <1>1, <2>1 DEF CatalogueInv, ModelsInv, ActiveBy
  <2>3. db.model[t].creator \in RegisteredBy(Len(log), t)
    BY <1>2, <2>2, PastGrows
  <2> QED BY <2>1, <2>3 DEF OnChainModels
<1>4. ASSUME NEW i \in 1..n
      PROVE  /\ log[i].kind = "deactivated" => log[i].title \notin EnvioModels
             /\ log[i].kind = "registered" /\ Asks(log[i].by) =>
                  log[i].title \in EnvioModels \/ DeactivatedBy(n, log[i].title)
  <2>1. PICK t : t = log[i].title
    OBVIOUS
  <2>2. t \in Title
    BY <1>1, <2>1, CatalogueTypes DEF CatalogueInv
  <2>3. /\ db.model[t].known <=> RegisteredBy(n, t) # {}
        /\ db.model[t].known => RegisteredBy(n, t) = {db.model[t].creator}
        /\ db.model[t].active <=> ActiveBy(n, t)
    BY <1>1, <2>2 DEF CatalogueInv, ModelsInv
  <2>4. log[i].kind = "deactivated" => DeactivatedBy(n, t)
    BY <2>1 DEF DeactivatedBy, Is
  <2>5. log[i].kind = "registered" => log[i].by \in RegisteredBy(n, t)
    BY <2>1 DEF RegisteredBy, Is
  <2>6. log[i].kind = "deactivated" => t \notin EnvioModels
    BY <2>3, <2>4 DEF ActiveBy, EnvioModels
  <2>7. log[i].kind = "registered" /\ Asks(log[i].by) /\ ~DeactivatedBy(n, t) => t \in EnvioModels
    BY <2>2, <2>3, <2>5 DEF ActiveBy, EnvioModels
  <2> QED BY <2>1, <2>6, <2>7
<1> QED BY <1>1, <1>3, <1>4 DEF Knows, EnvioModels

\* A page lists what it was answered.
LEMMA ListsKeeps ==
    ASSUME CatalogueInv, NEW titles, Lists(titles),
           titles \in SUBSET Title, titles \subseteq OnChainModels,
           titles # {} => Knows(titles, now - CacheTTL - QueryTimeout)
    PROVE  /\ list' \in [titles : SUBSET Title, at : Nat, scanned : BOOLEAN]
           /\ list'.at <= now /\ list'.titles \subseteq OnChainModels \cup LocalModels
           /\ ~list'.scanned =>
                 \E found \in SUBSET Title :
                    /\ list'.titles \ LocalModels \subseteq found /\ found \subseteq list'.titles
                    /\ Knows(found, list'.at - CacheTTL - QueryTimeout)
<1>1. PICK found \in IF titles # {} THEN {titles} ELSE SUBSET OnChainModels :
         list' = [titles |-> found \cup LocalModels,
                  at |-> IF titles = {} THEN 0 ELSE now, scanned |-> titles = {}]
  BY DEF Lists
<1>2. PICK b \in BOOLEAN, a \in Nat : b = (titles = {}) /\ a = IF titles = {} THEN 0 ELSE now
  BY DEF CatalogueInv, CatalogueTypeOK
<1>3. list' = [titles |-> found \cup LocalModels, at |-> a, scanned |-> b]
  BY <1>1, <1>2
<1>4. found \subseteq OnChainModels
  BY <1>1
<1>5. OnChainModels \subseteq Title /\ LocalModels \subseteq Title
  BY DEF OnChainModels, LocalModels, CatalogueInv, CatalogueTypeOK
<1>6. a \in Nat /\ a <= now
  BY <1>2 DEF CatalogueInv, CatalogueTypeOK
<1>7. ASSUME ~list'.scanned
      PROVE  \E f \in SUBSET Title :
                /\ list'.titles \ LocalModels \subseteq f /\ f \subseteq list'.titles
                /\ Knows(f, list'.at - CacheTTL - QueryTimeout)
  <2>1. ~b /\ titles # {}
    BY <1>2, <1>3, <1>7
  <2>3. found = titles
    BY <1>1, <2>1
  <2>2. list'.titles \ LocalModels \subseteq titles /\ titles \subseteq list'.titles
    BY <1>3, <2>3
  <2>4. list'.at = now
    BY <1>2, <1>3, <2>1
  <2> QED BY <2>1, <2>2, <2>4
<1>8. list' \in [titles : SUBSET Title, at : Nat, scanned : BOOLEAN]
  BY <1>3, <1>4, <1>5, <1>6
<1>9. list'.at <= now /\ list'.titles \subseteq OnChainModels \cup LocalModels
  BY <1>3, <1>4, <1>6
<1> QED BY <1>7, <1>8, <1>9

\* A fetch keeps the invariant if what it sets is recent.
LEMMA ClientKeeps ==
    ASSUME CatalogueInv, UNCHANGED <<log, when, db, query, saved, now>>,
           response' \in [titles : SUBSET Title, until : Nat],
           asked' \in [titles : SUBSET Title, at : Nat, open : BOOLEAN],
           list' \in [titles : SUBSET Title, at : Nat, scanned : BOOLEAN],
           asked'.titles \subseteq OnChainModels, response'.titles \subseteq OnChainModels,
           list'.titles \subseteq OnChainModels \cup LocalModels,
           asked'.open => /\ asked'.at <= now /\ now <= asked'.at + QueryTimeout
                          /\ Knows(asked'.titles, asked'.at),
           response'.until <= now + CacheTTL,
           response'.until # 0 =>
               Knows(response'.titles, response'.until - CacheTTL - QueryTimeout),
           list'.at <= now,
           ~list'.scanned =>
               \E titles \in SUBSET Title :
                  /\ list'.titles \ LocalModels \subseteq titles /\ titles \subseteq list'.titles
                  /\ Knows(titles, list'.at - CacheTTL - QueryTimeout)
    PROVE  CatalogueInv'
<1>1. log \in Seq(Event) /\ Len(log) \in Nat
  BY CatalogueTypes DEF CatalogueInv, CatalogueTypeOK
<1>2. Grows
  BY <1>1 DEF Grows
<1>3. ModelsInv' /\ CountsInv'
  BY <1>2, IndexedKept
<1>4. CatalogueTypeOK'
  BY DEF CatalogueInv, CatalogueTypeOK
<1>5. ChainOK'
  BY ChainSame DEF CatalogueInv
<1>6. OnChainModels' = OnChainModels /\ LocalModels' = LocalModels
  BY DEF OnChainModels, LocalModels, Asks, RegisteredBy, Is
<1>7. ASSUME NEW titles, NEW time, Knows(titles, time) PROVE Knows(titles, time)'
  <2>1. \A t : DeactivatedBy(Len(when), t)' <=> DeactivatedBy(Len(when), t)
    BY DEF DeactivatedBy, Is
  <2> SUFFICES ASSUME NEW i \in 1..Len(when), when[i] < time
               PROVE  /\ log[i].kind = "deactivated" => log[i].title \notin titles
                      /\ log[i].kind = "registered" /\ Asks(log[i].by)' =>
                           log[i].title \in titles \/ DeactivatedBy(Len(when), log[i].title)'
    BY DEF Knows
  <2>2. /\ log[i].kind = "deactivated" => log[i].title \notin titles
        /\ log[i].kind = "registered" /\ Asks(log[i].by) =>
             log[i].title \in titles \/ DeactivatedBy(Len(when), log[i].title)
    BY <1>7 DEF Knows
  <2>3. Asks(log[i].by)' <=> Asks(log[i].by)
    BY DEF Asks
  <2>4. DeactivatedBy(Len(when), log[i].title) => DeactivatedBy(Len(when), log[i].title)'
    BY DEF DeactivatedBy, Is
  <2> QED BY <2>2, <2>3, <2>4
<1>8. (asked.titles \subseteq OnChainModels)' /\ (response.titles \subseteq OnChainModels)'
      /\ (list.titles \subseteq OnChainModels \cup LocalModels)'
  BY <1>6
<1>9. (asked.open => /\ asked.at <= now /\ now <= asked.at + QueryTimeout
                     /\ Knows(asked.titles, asked.at))'
  <2>1. PICK a, u : a = asked'.titles /\ u = asked'.at
    OBVIOUS
  <2>2. Knows(a, u) => Knows(a, u)'
    BY <1>7
  <2> QED BY <2>1, <2>2 DEF Knows
<1>10. (response.until # 0 => Knows(response.titles, response.until - CacheTTL - QueryTimeout))'
  <2>1. PICK a, u : a = response'.titles /\ u = response'.until - CacheTTL - QueryTimeout
    OBVIOUS
  <2>2. Knows(a, u) => Knows(a, u)'
    BY <1>7
  <2> QED BY <2>1, <2>2 DEF Knows
<1>11. (~list.scanned =>
          \E titles \in SUBSET Title :
              /\ list.titles \ LocalModels \subseteq titles /\ titles \subseteq list.titles
              /\ Knows(titles, list.at - CacheTTL - QueryTimeout))'
  <2> SUFFICES ASSUME ~list'.scanned
               PROVE  \E titles \in SUBSET Title :
                         /\ list'.titles \ LocalModels' \subseteq titles
                         /\ titles \subseteq list'.titles
                         /\ Knows(titles, list.at - CacheTTL - QueryTimeout)'
    OBVIOUS
  <2>1. PICK titles \in SUBSET Title :
           /\ list'.titles \ LocalModels \subseteq titles /\ titles \subseteq list'.titles
           /\ Knows(titles, list'.at - CacheTTL - QueryTimeout)
    OBVIOUS
  <2>2. PICK u : u = list'.at - CacheTTL - QueryTimeout
    OBVIOUS
  <2>3. Knows(titles, u)'
    BY <1>7, <2>1, <2>2
  <2>4. Knows(titles, list.at - CacheTTL - QueryTimeout)'
    BY <2>2, <2>3 DEF Knows
  <2> QED BY <1>6, <2>1, <2>4
<1>12. (response.until <= now + CacheTTL)' /\ (list.at <= now)'
  OBVIOUS
<1>13. RecentInv'
  BY <1>8, <1>9, <1>10, <1>11, <1>12 DEF RecentInv
<1> QED BY <1>3, <1>4, <1>5, <1>13 DEF CatalogueInv

\* Of an answer that took its time, and of one from the cache, what was known long enough ago.
LEMMA KnowsEarlier ==
    ASSUME CatalogueTypeOK, NEW titles, NEW late \in Int, NEW early \in Int, early <= late,
           Knows(titles, late)
    PROVE  Knows(titles, early)
<1>1. \A i \in 1..Len(when) : when[i] < early => when[i] < late
  <2>1. \A i \in 1..Len(when) : when[i] \in Nat
    BY CatalogueTypes
  <2> QED BY <2>1
<1> QED BY <1>1 DEF Knows

LEMMA FetchKeeps ==
    ASSUME CatalogueInv, FetchModels \/ Answered \/ Unanswered
    PROVE  CatalogueInv'
<1>1. /\ CatalogueTypeOK /\ now \in Nat /\ CacheTTL \in Nat /\ QueryTimeout \in Nat
      /\ asked.at \in Nat /\ list.at \in Nat /\ response.until \in Nat
      /\ response \in [titles : SUBSET Title, until : Nat]
      /\ asked \in [titles : SUBSET Title, at : Nat, open : BOOLEAN]
      /\ list \in [titles : SUBSET Title, at : Nat, scanned : BOOLEAN]
  BY CatalogueTypes DEF CatalogueInv, CatalogueTypeOK
<1>2. /\ asked.titles \subseteq OnChainModels /\ response.titles \subseteq OnChainModels
      /\ list.titles \subseteq OnChainModels \cup LocalModels
      /\ asked.open => /\ asked.at <= now /\ now <= asked.at + QueryTimeout
                       /\ Knows(asked.titles, asked.at)
      /\ response.until <= now + CacheTTL
      /\ response.until # 0 => Knows(response.titles, response.until - CacheTTL - QueryTimeout)
      /\ list.at <= now
      /\ ~list.scanned =>
            \E titles \in SUBSET Title :
                /\ list.titles \ LocalModels \subseteq titles /\ titles \subseteq list.titles
                /\ Knows(titles, list.at - CacheTTL - QueryTimeout)
  BY DEF CatalogueInv, RecentInv
<1>3. /\ now - CacheTTL - QueryTimeout \in Int
      /\ response.until - CacheTTL - QueryTimeout \in Int
  BY <1>1
<1>4. /\ NotAsked \in [titles : SUBSET Title, at : Nat, open : BOOLEAN]
      /\ NotAsked.titles = {} /\ ~NotAsked.open
  BY DEF NotAsked
<1>5. CASE FetchModels
  <2>1. UNCHANGED <<log, when, db, query, response, saved, now>>
    BY <1>5 DEF FetchModels
  <2>2. CASE Cached
    <3>1. Lists(response.titles) /\ asked' = asked
      BY <1>5, <2>2 DEF FetchModels
    <3>2. Knows(response.titles, now - CacheTTL - QueryTimeout)
      <4>1. response.until # 0
            /\ now - CacheTTL - QueryTimeout <= response.until - CacheTTL - QueryTimeout
        BY <1>1, <2>2 DEF Cached
      <4> QED BY <1>1, <1>2, <1>3, <4>1, KnowsEarlier
    <3>3. response.titles \in SUBSET Title
      BY <1>1
    <3>4. /\ list' \in [titles : SUBSET Title, at : Nat, scanned : BOOLEAN]
          /\ list'.at <= now /\ list'.titles \subseteq OnChainModels \cup LocalModels
          /\ ~list'.scanned =>
                \E found \in SUBSET Title :
                   /\ list'.titles \ LocalModels \subseteq found /\ found \subseteq list'.titles
                   /\ Knows(found, list'.at - CacheTTL - QueryTimeout)
      BY <1>2, <3>1, <3>2, <3>3, ListsKeeps
    <3> QED BY <1>1, <1>2, <2>1, <3>1, <3>4, ClientKeeps
  <2>3. CASE ~Cached
    <3>1. asked' = [titles |-> EnvioModels, at |-> now, open |-> TRUE] /\ list' = list
      BY <1>5, <2>3 DEF FetchModels
    <3>2. /\ EnvioModels \subseteq OnChainModels /\ EnvioModels \in SUBSET Title
          /\ Knows(EnvioModels, now)
      BY EnvioKnows
    <3>3. /\ asked' \in [titles : SUBSET Title, at : Nat, open : BOOLEAN]
          /\ asked'.titles = EnvioModels /\ asked'.at = now /\ now <= now + QueryTimeout
      BY <1>1, <3>1, <3>2
    <3>4. /\ asked'.titles \subseteq OnChainModels /\ asked'.at <= now
          /\ now <= asked'.at + QueryTimeout /\ Knows(asked'.titles, asked'.at)
      BY <1>1, <3>2, <3>3
    <3> QED BY <1>1, <1>2, <2>1, <3>1, <3>3, <3>4, ClientKeeps
  <2> QED BY <2>2, <2>3
<1>6. CASE Answered
  <2>1. /\ asked.open /\ response' = [titles |-> asked.titles, until |-> now + CacheTTL]
        /\ Lists(asked.titles) /\ asked' = NotAsked
        /\ UNCHANGED <<log, when, db, query, saved, now>>
    BY <1>6 DEF Answered
  <2>2. now - QueryTimeout \in Int /\ now - QueryTimeout <= asked.at
        /\ now - CacheTTL - QueryTimeout <= asked.at
    BY <1>1, <1>2, <2>1
  <2>3. Knows(asked.titles, now - QueryTimeout)
        /\ Knows(asked.titles, now - CacheTTL - QueryTimeout)
    BY <1>1, <1>2, <1>3, <2>1, <2>2, KnowsEarlier
  <2>4. asked.titles \in SUBSET Title
    BY <1>1
  <2>5. /\ list' \in [titles : SUBSET Title, at : Nat, scanned : BOOLEAN]
        /\ list'.at <= now /\ list'.titles \subseteq OnChainModels \cup LocalModels
        /\ ~list'.scanned =>
              \E found \in SUBSET Title :
                 /\ list'.titles \ LocalModels \subseteq found /\ found \subseteq list'.titles
                 /\ Knows(found, list'.at - CacheTTL - QueryTimeout)
    BY <1>2, <2>1, <2>3, <2>4, ListsKeeps
  <2>6. /\ response' \in [titles : SUBSET Title, until : Nat]
        /\ response'.titles = asked.titles /\ response'.until = now + CacheTTL
    BY <1>1, <2>1, <2>4
  <2>7. response'.until - CacheTTL - QueryTimeout = now - QueryTimeout
        /\ response'.until <= now + CacheTTL /\ list'.at <= now
    BY <1>1, <2>5, <2>6
  <2>8. Knows(response'.titles, response'.until - CacheTTL - QueryTimeout)
    BY <2>3, <2>6, <2>7
  <2>9. response'.titles \subseteq OnChainModels /\ asked'.titles \subseteq OnChainModels
        /\ ~asked'.open /\ asked' \in [titles : SUBSET Title, at : Nat, open : BOOLEAN]
    BY <1>2, <1>4, <2>1, <2>6
  <2> QED BY <2>1, <2>5, <2>6, <2>7, <2>8, <2>9, ClientKeeps
<1>7. CASE Unanswered
  <2>1. /\ Lists({}) /\ asked' = NotAsked
        /\ UNCHANGED <<log, when, db, query, response, saved, now>>
    BY <1>7 DEF Unanswered
  <2>2. /\ list' \in [titles : SUBSET Title, at : Nat, scanned : BOOLEAN]
        /\ list'.at <= now /\ list'.titles \subseteq OnChainModels \cup LocalModels
        /\ ~list'.scanned =>
              \E found \in SUBSET Title :
                 /\ list'.titles \ LocalModels \subseteq found /\ found \subseteq list'.titles
                 /\ Knows(found, list'.at - CacheTTL - QueryTimeout)
    BY <2>1, ListsKeeps
  <2>3. asked'.titles \subseteq OnChainModels
        /\ ~asked'.open /\ asked' \in [titles : SUBSET Title, at : Nat, open : BOOLEAN]
    BY <1>4, <2>1
  <2> QED BY <1>1, <1>2, <2>1, <2>2, <2>3, ClientKeeps
<1> QED BY <1>5, <1>6, <1>7

LEMMA TimeKeeps ==
    ASSUME CatalogueInv, CatalogueTick \/ UNCHANGED <<catalogueVars, now>>
    PROVE  CatalogueInv'
<1>1. /\ UNCHANGED <<log, when, db, query, response, asked, list, saved>>
      /\ now' = now \/ (now' = now + 1 /\ (asked.open => now < asked.at + QueryTimeout))
  BY DEF CatalogueTick, Tick, catalogueVars
<1>2. /\ now \in Nat /\ asked.at \in Nat /\ QueryTimeout \in Nat /\ Len(when) \in Nat
      /\ log \in Seq(Event) /\ when \in Seq(Nat) /\ Len(log) \in Nat
      /\ \A i \in 1..Len(when) : when[i] \in Nat /\ when[i] <= now
      /\ asked.open => now <= asked.at + QueryTimeout
  BY CatalogueTypes DEF CatalogueInv, CatalogueTypeOK, RecentInv
<1>3. now' \in Nat /\ now <= now' /\ (asked.open => now' <= asked.at + QueryTimeout)
  BY <1>1, <1>2
<1>4. Grows
  BY <1>1, <1>2 DEF Grows
<1>5. ModelsInv' /\ CountsInv'
  BY <1>1, <1>4, IndexedKept
<1>6. CatalogueTypeOK'
  <2>1. \A i \in 1..Len(when) : when[i] <= now'
    BY <1>2, <1>3
  <2> QED BY <1>1, <1>3, <2>1 DEF CatalogueInv, CatalogueTypeOK
<1>7. ChainOK'
  BY <1>1, ChainSame DEF CatalogueInv
<1>8. RecentInv'
  <2>1. \A i \in 1..Len(when') : i > Len(when) => when'[i] >= now
    BY <1>1, <1>2
  <2> QED BY <1>1, <1>2, <1>3, <1>4, <2>1, RecentKept
<1> QED BY <1>5, <1>6, <1>7, <1>8 DEF CatalogueInv

-----------------------------------------------------------------------------
\* A step of the indexer.

\* The events it has processed are one more.
Progress(e) ==
    /\ e = log[Len(when) + 1] /\ e \in Event
    /\ Len(when) \in Nat /\ Len(when) + 1 \in 1..Len(log) /\ Len(when') = Len(when) + 1
    /\ when' \in Seq(Nat) /\ when'[Len(when) + 1] = now
    /\ \A i \in 1..Len(when) : when'[i] = when[i]

LEMMA IndexProgress ==
    ASSUME CatalogueInv, Indexes
    PROVE  Progress(log[Len(when) + 1])
<1>1. /\ when \in Seq(Nat) /\ now \in Nat /\ Len(when) \in Nat /\ Len(log) \in Nat
      /\ \A i \in 1..Len(log) : log[i] \in Event
  BY CatalogueTypes DEF CatalogueInv, CatalogueTypeOK
<1>2. Len(when) < Len(log) /\ when' = Append(when, now)
  BY DEF Indexes
<1>3. /\ when' \in Seq(Nat) /\ Len(when') = Len(when) + 1 /\ when'[Len(when) + 1] = now
      /\ \A i \in 1..Len(when) : when'[i] = when[i]
  BY <1>1, <1>2, AppendProperties
<1>4. Len(when) + 1 \in 1..Len(log)
  BY <1>1, <1>2
<1> QED BY <1>1, <1>3, <1>4 DEF Progress

LEMMA PastProgress ==
    ASSUME CatalogueInv, NEW e, Progress(e), log' = log, NEW t
    PROVE  /\ RegisteredBy(Len(when), t)' =
                 IF e.kind = "registered" /\ e.title = t
                 THEN RegisteredBy(Len(when), t) \cup {e.by} ELSE RegisteredBy(Len(when), t)
           /\ DeactivatedBy(Len(when), t)' <=>
                 DeactivatedBy(Len(when), t) \/ (e.kind = "deactivated" /\ e.title = t)
<1>1. PICK n : n = Len(when)
  OBVIOUS
<1>2. n \in Nat /\ Len(when') = n + 1 /\ e = log[n + 1]
  BY <1>1 DEF Progress
<1>3. /\ RegisteredBy(n + 1, t) =
             IF log[n + 1].kind = "registered" /\ log[n + 1].title = t
             THEN RegisteredBy(n, t) \cup {log[n + 1].by} ELSE RegisteredBy(n, t)
      /\ DeactivatedBy(n + 1, t) <=>
             DeactivatedBy(n, t) \/ (log[n + 1].kind = "deactivated" /\ log[n + 1].title = t)
  BY <1>2, PastNext
<1>4. RegisteredBy(Len(when), t)' = RegisteredBy(n + 1, t)
  BY <1>2 DEF RegisteredBy, Is
<1>5. DeactivatedBy(Len(when), t)' <=> DeactivatedBy(n + 1, t)
  BY <1>2 DEF DeactivatedBy, Is
<1> QED BY <1>1, <1>2, <1>3, <1>4, <1>5

LEMMA PaidProgress ==
    ASSUME CatalogueInv, NEW e, Progress(e), log' = log
    PROVE  /\ Paid' = IF e.kind = "paid" THEN Paid \cup {Len(when) + 1} ELSE Paid
           /\ IsFiniteSet(Paid) /\ Len(when) + 1 \notin Paid
<1>1. PICK n : n = Len(when)
  OBVIOUS
<1>2. /\ n \in Nat /\ Len(when') = n + 1 /\ e = log[n + 1] /\ when \in Seq(Nat)
      /\ when' \in Seq(Nat)
  BY <1>1 DEF Progress, CatalogueInv, CatalogueTypeOK
<1>3. DOMAIN when = 1..n /\ DOMAIN when' = 1..(n + 1)
  BY <1>1, <1>2, LenProperties
<1>4. \A i : i \in 1..(n + 1) <=> i \in 1..n \/ i = n + 1
  BY <1>2
<1>5. Paid' = {i \in 1..(n + 1) : log[i].kind = "paid"} /\ Paid = {i \in 1..n : log[i].kind = "paid"}
  BY <1>3 DEF Paid
<1>6. n + 1 \notin Paid
  BY <1>2, <1>5
<1>7. IsFiniteSet(Paid)
  <2>1. IsFiniteSet(1..n)
    BY <1>2, FS_Interval
  <2> QED BY <1>5, <2>1, FS_Subset
<1>8. \A i : i \in Paid' <=> (i \in 1..n \/ i = n + 1) /\ log[i].kind = "paid"
  BY <1>4, <1>5
<1>9. CASE e.kind = "paid"
  <2>1. \A i : i \in Paid' <=> i \in Paid \/ i = n + 1
    BY <1>2, <1>5, <1>8, <1>9
  <2> QED BY <1>1, <1>6, <1>7, <1>9, <2>1
<1>10. CASE e.kind # "paid"
  <2>1. \A i : i \in Paid' <=> i \in Paid
    BY <1>2, <1>5, <1>8, <1>10
  <2> QED BY <1>1, <1>6, <1>7, <1>10, <2>1
<1> QED BY <1>9, <1>10

\* A creator's and the network's entity, field by field.
LEMMA CountsByField ==
    ASSUME db \in Entities
    PROVE  /\ \A w \in Wallet :
                LET c == db.creator[w] IN
                /\ c = [known |-> c.known, all |-> c.all, active |-> c.active, chunks |-> c.chunks]
                /\ c.all \in Nat /\ c.active \in Nat /\ c.chunks \in Nat
           /\ LET k == db.network IN
                /\ k = [models |-> k.models, active |-> k.active, payments |-> k.payments,
                         creators |-> k.creators, seeders |-> k.seeders]
                /\ k.models \in Nat /\ k.active \in Nat /\ k.payments \in Nat
                /\ k.creators \in Nat /\ k.seeders \in Nat
BY DEF Entities

LEMMA EntitiesAre ==
    ASSUME NEW m \in [Title -> Entity], NEW s \in [Wallet -> Nat],
           NEW c \in [Wallet -> [known : BOOLEAN, all : Nat, active : Nat, chunks : Nat]],
           NEW k \in [models : Nat, active : Nat, payments : Nat, creators : Nat, seeders : Nat]
    PROVE  [model |-> m, creator |-> c, seeder |-> s, network |-> k] \in Entities
BY DEF Entities

\* What each handler writes.
LEMMA RegisteredWrites ==
    ASSUME db \in Entities, NEW e \in Event, db' = HandleRegistered(db, e)
    PROVE  /\ db' \in Entities
           /\ \A u \in Title : db'.model[u] =
                IF u = e.title THEN [known |-> TRUE, creator |-> e.by, active |-> TRUE, paid |-> 0]
                ELSE db.model[u]
           /\ \A v \in Wallet :
                /\ v # e.by => db'.creator[v] = db.creator[v]
                /\ v = e.by => /\ db'.creator[v].known /\ db'.creator[v].chunks = db.creator[v].chunks
                               /\ db'.creator[v].all = db.creator[v].all + 1
                               /\ db'.creator[v].active = db.creator[v].active + 1
           /\ db'.seeder = db.seeder
           /\ db'.network.active = db.network.active + 1
           /\ db'.network.payments = db.network.payments /\ db'.network.seeders = db.network.seeders
           /\ db'.network.creators =
                db.network.creators + (IF db.creator[e.by].known THEN 0 ELSE 1)
<1>1. e.title \in Title /\ e.by \in Wallet
  BY DEF Event
<1>2. /\ db.model \in [Title -> Entity] /\ db.seeder \in [Wallet -> Nat]
      /\ db.creator \in [Wallet -> [known : BOOLEAN, all : Nat, active : Nat, chunks : Nat]]
      /\ db.network \in [models : Nat, active : Nat, payments : Nat, creators : Nat, seeders : Nat]
      /\ db = [model |-> db.model, creator |-> db.creator, seeder |-> db.seeder,
               network |-> db.network]
  BY DEF Entities
<1>3. PICK r : r = [known |-> TRUE, creator |-> e.by, active |-> TRUE, paid |-> 0]
  OBVIOUS
<1>4. PICK c : c = [db.creator[e.by] EXCEPT !.known = TRUE, !.all = @ + 1, !.active = @ + 1]
  OBVIOUS
<1>5. PICK k : k = [db.network EXCEPT !.models = @ + 1, !.active = @ + 1,
                                      !.creators = @ + One(db.creator[e.by].known)]
  OBVIOUS
<1>6. r \in Entity
  BY <1>1, <1>3 DEF Entity
<1>7. /\ c \in [known : BOOLEAN, all : Nat, active : Nat, chunks : Nat]
      /\ c.known /\ c.chunks = db.creator[e.by].chunks /\ c.all = db.creator[e.by].all + 1
      /\ c.active = db.creator[e.by].active + 1
  <2>1. PICK x : x = db.creator[e.by]
    OBVIOUS
  <2>2. /\ x = [known |-> x.known, all |-> x.all, active |-> x.active, chunks |-> x.chunks]
        /\ x.all \in Nat /\ x.active \in Nat /\ x.chunks \in Nat
    BY <1>1, <2>1, CountsByField
  <2>3. PICK y \in BOOLEAN : y = TRUE
    OBVIOUS
  <2>4. c = [known |-> y, all |-> x.all + 1, active |-> x.active + 1, chunks |-> x.chunks]
    BY <1>4, <2>1, <2>2, <2>3
  <2>5. x.all + 1 \in Nat /\ x.active + 1 \in Nat
    BY <2>2
  <2>6. c \in [known : BOOLEAN, all : Nat, active : Nat, chunks : Nat]
    BY <2>2, <2>4, <2>5
  <2> QED BY <2>1, <2>3, <2>4, <2>6
<1>8. /\ k \in [models : Nat, active : Nat, payments : Nat, creators : Nat, seeders : Nat]
      /\ k.active = db.network.active + 1
      /\ k.payments = db.network.payments /\ k.seeders = db.network.seeders
      /\ k.creators = db.network.creators + (IF db.creator[e.by].known THEN 0 ELSE 1)
  <2>1. PICK x : x = db.network
    OBVIOUS
  <2>2. /\ x = [models |-> x.models, active |-> x.active, payments |-> x.payments,
                 creators |-> x.creators, seeders |-> x.seeders]
        /\ x.models \in Nat /\ x.active \in Nat /\ x.payments \in Nat
        /\ x.creators \in Nat /\ x.seeders \in Nat
    BY <2>1, CountsByField
  <2>3. PICK b \in Nat : b = One(db.creator[e.by].known)
    BY DEF One
  <2>4. k = [models |-> x.models + 1, active |-> x.active + 1, payments |-> x.payments,
             creators |-> x.creators + b, seeders |-> x.seeders]
    BY <1>5, <2>1, <2>2, <2>3
  <2>5. x.models + 1 \in Nat /\ x.active + 1 \in Nat /\ x.creators + b \in Nat
    BY <2>2
  <2>6. k \in [models : Nat, active : Nat, payments : Nat, creators : Nat, seeders : Nat]
    BY <2>2, <2>4, <2>5
  <2>7. b = IF db.creator[e.by].known THEN 0 ELSE 1
    BY <2>3 DEF One
  <2> QED BY <2>1, <2>4, <2>6, <2>7
<1>9. db' = [model |-> [db.model EXCEPT ![e.title] = r], creator |-> [db.creator EXCEPT ![e.by] = c],
             seeder |-> db.seeder, network |-> k]
  <2>1. db' = [db EXCEPT !.model[e.title] = r, !.creator[e.by] = c, !.network = k]
    BY <1>2, <1>3, <1>4, <1>5 DEF HandleRegistered
  <2> QED BY <1>2, <2>1
<1>10. /\ [db.model EXCEPT ![e.title] = r] \in [Title -> Entity]
       /\ [db.creator EXCEPT ![e.by] = c]
             \in [Wallet -> [known : BOOLEAN, all : Nat, active : Nat, chunks : Nat]]
  BY <1>1, <1>2, <1>6, <1>7
<1>11. db' \in Entities
  BY <1>2, <1>8, <1>9, <1>10 DEF Entities
<1>12. /\ db'.model = [db.model EXCEPT ![e.title] = r]
       /\ db'.creator = [db.creator EXCEPT ![e.by] = c]
       /\ db'.seeder = db.seeder /\ db'.network = k
  BY <1>9
<1>13. \A u \in Title : db'.model[u] = IF u = e.title THEN r ELSE db.model[u]
  BY <1>2, <1>12
<1>14. \A v \in Wallet : db'.creator[v] = IF v = e.by THEN c ELSE db.creator[v]
  BY <1>2, <1>12
<1> QED BY <1>3, <1>7, <1>8, <1>11, <1>12, <1>13, <1>14

LEMMA DeactivatedWrites ==
    ASSUME db \in Entities, NEW e \in Event, db' = HandleDeactivated(db, e),
           db.model[e.title].active, NEW w \in Wallet, w = db.model[e.title].creator,
           db.creator[w].active > 0, db.network.active > 0
    PROVE  /\ db' \in Entities
           /\ \A u \in Title :
                /\ u # e.title => db'.model[u] = db.model[u]
                /\ u = e.title => /\ db'.model[u].known = db.model[u].known
                                  /\ db'.model[u].creator = db.model[u].creator
                                  /\ ~db'.model[u].active /\ db'.model[u].paid = db.model[u].paid
           /\ \A v \in Wallet :
                /\ v # w => db'.creator[v] = db.creator[v]
                /\ v = w => /\ db'.creator[v].known = db.creator[v].known
                            /\ db'.creator[v].chunks = db.creator[v].chunks
                            /\ db'.creator[v].all = db.creator[v].all
                            /\ db'.creator[v].active = db.creator[v].active - 1
           /\ db'.seeder = db.seeder
           /\ db'.network.active = db.network.active - 1
           /\ db'.network.payments = db.network.payments /\ db'.network.seeders = db.network.seeders
           /\ db'.network.creators = db.network.creators
<1>1. e.title \in Title
  BY DEF Event
<1>2. /\ db.model \in [Title -> Entity] /\ db.seeder \in [Wallet -> Nat]
      /\ db.creator \in [Wallet -> [known : BOOLEAN, all : Nat, active : Nat, chunks : Nat]]
      /\ db.network \in [models : Nat, active : Nat, payments : Nat, creators : Nat, seeders : Nat]
      /\ db = [model |-> db.model, creator |-> db.creator, seeder |-> db.seeder,
               network |-> db.network]
  BY DEF Entities
<1>3. PICK r : r = [db.model[e.title] EXCEPT !.active = FALSE]
  OBVIOUS
<1>4. PICK c : c = [db.creator[w] EXCEPT !.active = @ - 1]
  OBVIOUS
<1>5. PICK k : k = [db.network EXCEPT !.active = @ - 1]
  OBVIOUS
<1>6. /\ r \in Entity /\ r.known = db.model[e.title].known
      /\ r.creator = db.model[e.title].creator /\ ~r.active /\ r.paid = db.model[e.title].paid
  <2>1. db.model[e.title] \in Entity
    BY <1>1, <1>2
  <2> QED BY <1>3, <2>1 DEF Entity
<1>7. /\ c \in [known : BOOLEAN, all : Nat, active : Nat, chunks : Nat]
      /\ c.known = db.creator[w].known /\ c.chunks = db.creator[w].chunks
      /\ c.all = db.creator[w].all /\ c.active = db.creator[w].active - 1
  <2>1. PICK x : x = db.creator[w]
    OBVIOUS
  <2>2. x \in [known : BOOLEAN, all : Nat, active : Nat, chunks : Nat]
    BY <1>2, <2>1
  <2>3. c = [x EXCEPT !.active = @ - 1]
    BY <1>4, <2>1
  <2>6. x.active \in Nat /\ x.active > 0
    BY <2>1, <2>2
  <2>7. x.active - 1 \in Nat
    BY <2>6
  <2>4. c.known = x.known
    BY <2>2, <2>3
  <2>5. c \in [known : BOOLEAN, all : Nat, active : Nat, chunks : Nat]
    BY <2>2, <2>3, <2>7
  <2> QED BY <2>1, <2>2, <2>3, <2>4, <2>5
<1>8. /\ k \in [models : Nat, active : Nat, payments : Nat, creators : Nat, seeders : Nat]
      /\ k.active = db.network.active - 1 /\ k.creators = db.network.creators
      /\ k.payments = db.network.payments /\ k.seeders = db.network.seeders
  BY <1>2, <1>5
<1>9. db' = [model |-> [db.model EXCEPT ![e.title] = r], creator |-> [db.creator EXCEPT ![w] = c],
             seeder |-> db.seeder, network |-> k]
  <2>1. db' = [db EXCEPT !.model[e.title].active = FALSE,
                         !.creator[w].active = @ - 1, !.network.active = @ - 1]
    BY DEF HandleDeactivated
  <2> QED BY <1>2, <1>3, <1>4, <1>5, <2>1
<1>10. /\ [db.model EXCEPT ![e.title] = r] \in [Title -> Entity]
       /\ [db.creator EXCEPT ![w] = c]
             \in [Wallet -> [known : BOOLEAN, all : Nat, active : Nat, chunks : Nat]]
  BY <1>1, <1>2, <1>6, <1>7
<1>11. db' \in Entities
  BY <1>2, <1>8, <1>9, <1>10 DEF Entities
<1>12. /\ db'.model = [db.model EXCEPT ![e.title] = r]
       /\ db'.creator = [db.creator EXCEPT ![w] = c]
       /\ db'.seeder = db.seeder /\ db'.network = k
  BY <1>9
<1>13. \A u \in Title : db'.model[u] = IF u = e.title THEN r ELSE db.model[u]
  BY <1>2, <1>12
<1>14. \A v \in Wallet : db'.creator[v] = IF v = w THEN c ELSE db.creator[v]
  BY <1>2, <1>12
<1>15. \A u \in Title :
           /\ u # e.title => db'.model[u] = db.model[u]
           /\ u = e.title => /\ db'.model[u].known = db.model[u].known
                             /\ db'.model[u].creator = db.model[u].creator
                             /\ ~db'.model[u].active /\ db'.model[u].paid = db.model[u].paid
  BY <1>6, <1>13
<1>16. \A v \in Wallet :
           /\ v # w => db'.creator[v] = db.creator[v]
           /\ v = w => /\ db'.creator[v].known = db.creator[v].known
                       /\ db'.creator[v].chunks = db.creator[v].chunks
                       /\ db'.creator[v].all = db.creator[v].all
                       /\ db'.creator[v].active = db.creator[v].active - 1
  BY <1>7, <1>14
<1> QED BY <1>8, <1>11, <1>12, <1>15, <1>16

LEMMA PaymentWrites ==
    ASSUME db \in Entities, NEW e \in Event, db' = HandlePaymentSplit(db, e),
           db.model[e.title].known, NEW w \in Wallet,
           w = CHOOSE v \in RegisteredBy(Len(log), e.title) : TRUE, db.creator[w].known
    PROVE  /\ db' \in Entities
           /\ \A u \in Title :
                /\ u # e.title => db'.model[u] = db.model[u]
                /\ u = e.title => /\ db'.model[u].known = db.model[u].known
                                  /\ db'.model[u].creator = db.model[u].creator
                                  /\ db'.model[u].active = db.model[u].active
                                  /\ db'.model[u].paid = db.model[u].paid + 1
           /\ \A v \in Wallet :
                /\ v # w => db'.creator[v] = db.creator[v]
                /\ v = w => /\ db'.creator[v].known = db.creator[v].known
                            /\ db'.creator[v].chunks = db.creator[v].chunks + 1
                            /\ db'.creator[v].all = db.creator[v].all
                            /\ db'.creator[v].active = db.creator[v].active
           /\ \A v \in Wallet :
                db'.seeder[v] = IF v = e.by THEN db.seeder[v] + 1 ELSE db.seeder[v]
           /\ db'.network.active = db.network.active
           /\ db'.network.payments = db.network.payments + 1
           /\ db'.network.seeders = db.network.seeders + (IF db.seeder[e.by] > 0 THEN 0 ELSE 1)
           /\ db'.network.creators = db.network.creators
<1>1. e.title \in Title /\ e.by \in Wallet
  BY DEF Event
<1>2. /\ db.model \in [Title -> Entity] /\ db.seeder \in [Wallet -> Nat]
      /\ db.creator \in [Wallet -> [known : BOOLEAN, all : Nat, active : Nat, chunks : Nat]]
      /\ db.network \in [models : Nat, active : Nat, payments : Nat, creators : Nat, seeders : Nat]
      /\ db = [model |-> db.model, creator |-> db.creator, seeder |-> db.seeder,
               network |-> db.network]
  BY DEF Entities
<1>3. PICK r : r = [db.model[e.title] EXCEPT !.paid = @ + 1]
  OBVIOUS
<1>4. PICK c : c = [db.creator[w] EXCEPT !.chunks = @ + 1]
  OBVIOUS
<1>5. PICK k : k = [db.network EXCEPT !.payments = @ + 1, !.seeders = @ + One(db.seeder[e.by] > 0)]
  OBVIOUS
<1>6. /\ r \in Entity /\ r.known = db.model[e.title].known
      /\ r.creator = db.model[e.title].creator /\ r.active = db.model[e.title].active
      /\ r.paid = db.model[e.title].paid + 1
  <2>1. PICK x : x = db.model[e.title]
    OBVIOUS
  <2>2. x \in Entity
    BY <1>1, <1>2, <2>1
  <2>3. r = [x EXCEPT !.paid = @ + 1]
    BY <1>3, <2>1
  <2>4. r.known = x.known /\ r.active = x.active
    BY <2>2, <2>3 DEF Entity
  <2>5. r \in Entity
    BY <2>2, <2>3 DEF Entity
  <2> QED BY <2>1, <2>2, <2>3, <2>4, <2>5 DEF Entity
<1>7. /\ c \in [known : BOOLEAN, all : Nat, active : Nat, chunks : Nat]
      /\ c.known = db.creator[w].known /\ c.chunks = db.creator[w].chunks + 1
      /\ c.all = db.creator[w].all /\ c.active = db.creator[w].active
  <2>1. PICK x : x = db.creator[w]
    OBVIOUS
  <2>2. x \in [known : BOOLEAN, all : Nat, active : Nat, chunks : Nat]
    BY <1>2, <2>1
  <2>3. c = [x EXCEPT !.chunks = @ + 1]
    BY <1>4, <2>1
  <2>4. c.known = x.known
    BY <2>2, <2>3
  <2>5. c \in [known : BOOLEAN, all : Nat, active : Nat, chunks : Nat]
    BY <2>2, <2>3
  <2> QED BY <2>1, <2>2, <2>3, <2>4, <2>5
<1>8. /\ k \in [models : Nat, active : Nat, payments : Nat, creators : Nat, seeders : Nat]
      /\ k.active = db.network.active /\ k.creators = db.network.creators
      /\ k.payments = db.network.payments + 1
      /\ k.seeders = db.network.seeders + (IF db.seeder[e.by] > 0 THEN 0 ELSE 1)
  <2>1. PICK x : x = db.network
    OBVIOUS
  <2>2. /\ x = [models |-> x.models, active |-> x.active, payments |-> x.payments,
                 creators |-> x.creators, seeders |-> x.seeders]
        /\ x.models \in Nat /\ x.active \in Nat /\ x.payments \in Nat
        /\ x.creators \in Nat /\ x.seeders \in Nat
    BY <2>1, CountsByField
  <2>3. PICK b \in Nat : b = One(db.seeder[e.by] > 0)
    BY DEF One
  <2>4. k = [models |-> x.models, active |-> x.active, payments |-> x.payments + 1,
             creators |-> x.creators, seeders |-> x.seeders + b]
    BY <1>5, <2>1, <2>2, <2>3
  <2>5. x.payments + 1 \in Nat /\ x.seeders + b \in Nat
    BY <2>2
  <2>6. k \in [models : Nat, active : Nat, payments : Nat, creators : Nat, seeders : Nat]
    BY <2>2, <2>4, <2>5
  <2>7. b = IF db.seeder[e.by] > 0 THEN 0 ELSE 1
    BY <2>3 DEF One
  <2> QED BY <2>1, <2>4, <2>6, <2>7
<1>9. db' = [model |-> [db.model EXCEPT ![e.title] = r], creator |-> [db.creator EXCEPT ![w] = c],
             seeder |-> [db.seeder EXCEPT ![e.by] = @ + 1], network |-> k]
  <2>1. db' = [db EXCEPT !.model[e.title] = r, !.creator[w].chunks = @ + 1,
                         !.seeder[e.by] = @ + 1, !.network = k]
    <3>1. PICK m : m = db.model[e.title]
      OBVIOUS
    <3>2. db' = [db EXCEPT !.model[e.title] = [m EXCEPT !.paid = @ + 1],
                           !.creator[w].chunks = @ + 1, !.seeder[e.by] = @ + 1,
                           !.network = [db.network EXCEPT !.payments = @ + 1,
                                                          !.seeders = @ + One(db.seeder[e.by] > 0)]]
      BY <3>1 DEF HandlePaymentSplit
    <3> QED BY <1>2, <1>3, <1>5, <3>1, <3>2
  <2> QED BY <1>2, <1>4, <2>1
<1>10. /\ [db.model EXCEPT ![e.title] = r] \in [Title -> Entity]
       /\ [db.creator EXCEPT ![w] = c]
             \in [Wallet -> [known : BOOLEAN, all : Nat, active : Nat, chunks : Nat]]
       /\ [db.seeder EXCEPT ![e.by] = @ + 1] \in [Wallet -> Nat]
  <2>1. \A b \in Nat : b + 1 \in Nat
    OBVIOUS
  <2>2. [db.seeder EXCEPT ![e.by] = @ + 1] \in [Wallet -> Nat]
    BY <1>1, <1>2, <2>1
  <2> QED BY <1>1, <1>2, <1>6, <1>7, <2>2
<1>11. db' \in Entities
  <2>1. PICK m, cs, s : /\ m = [db.model EXCEPT ![e.title] = r]
                        /\ cs = [db.creator EXCEPT ![w] = c]
                        /\ s = [db.seeder EXCEPT ![e.by] = @ + 1]
    OBVIOUS
  <2>2. /\ m \in [Title -> Entity] /\ s \in [Wallet -> Nat]
        /\ cs \in [Wallet -> [known : BOOLEAN, all : Nat, active : Nat, chunks : Nat]]
    BY <1>10, <2>1
  <2>3. db' = [model |-> m, creator |-> cs, seeder |-> s, network |-> k]
    BY <1>9, <2>1
  <2>4. k \in [models : Nat, active : Nat, payments : Nat, creators : Nat, seeders : Nat]
    BY <1>8
  <2>5. [model |-> m, creator |-> cs, seeder |-> s, network |-> k] \in Entities
    BY <2>2, <2>4, EntitiesAre
  <2> QED BY <2>3, <2>5
<1>12. /\ db'.model = [db.model EXCEPT ![e.title] = r]
       /\ db'.creator = [db.creator EXCEPT ![w] = c]
       /\ db'.seeder = [db.seeder EXCEPT ![e.by] = @ + 1] /\ db'.network = k
  BY <1>9
<1>13. \A u \in Title : db'.model[u] = IF u = e.title THEN r ELSE db.model[u]
  BY <1>2, <1>12
<1>14. \A v \in Wallet : db'.creator[v] = IF v = w THEN c ELSE db.creator[v]
  BY <1>2, <1>12
<1>15. \A v \in Wallet : db'.seeder[v] = IF v = e.by THEN db.seeder[v] + 1 ELSE db.seeder[v]
  <2>1. db.seeder \in [Wallet -> Nat] /\ db'.seeder = [db.seeder EXCEPT ![e.by] = @ + 1]
    BY <1>2, <1>12
  <2> QED BY <2>1
<1>16. \A u \in Title :
           /\ u # e.title => db'.model[u] = db.model[u]
           /\ u = e.title => /\ db'.model[u].known = db.model[u].known
                             /\ db'.model[u].creator = db.model[u].creator
                             /\ db'.model[u].active = db.model[u].active
                             /\ db'.model[u].paid = db.model[u].paid + 1
  BY <1>6, <1>13
<1>17. \A v \in Wallet :
           /\ v # w => db'.creator[v] = db.creator[v]
           /\ v = w => /\ db'.creator[v].known = db.creator[v].known
                       /\ db'.creator[v].chunks = db.creator[v].chunks + 1
                       /\ db'.creator[v].all = db.creator[v].all
                       /\ db'.creator[v].active = db.creator[v].active
  BY <1>7, <1>14
<1> QED BY <1>8, <1>11, <1>12, <1>15, <1>16, <1>17

\* A payment or a deactivation is of a model the indexer knows to be active.
LEMMA IndexedActive ==
    ASSUME CatalogueInv, NEW e, Progress(e), e.kind # "registered"
    PROVE  /\ e.title \in Title /\ ActiveBy(Len(when), e.title)
           /\ db.model[e.title].known /\ db.model[e.title].active
           /\ db.model[e.title].creator \in Creators
           /\ RegisteredBy(Len(when), e.title) = {db.model[e.title].creator}
<1>1. PICK n : n = Len(when)
  OBVIOUS
<1>2. n \in Nat /\ n + 1 \in 1..Len(log) /\ e = log[n + 1] /\ e.title \in Title
  BY <1>1 DEF Progress, Event
<1>3. ActiveBy((n + 1) - 1, log[n + 1].title)
  BY <1>2 DEF CatalogueInv, ChainOK
<1>4. (n + 1) - 1 = n
  BY <1>2
<1>5. ActiveBy(n, e.title)
  BY <1>2, <1>3, <1>4
<1> QED BY <1>1, <1>2, <1>5 DEF CatalogueInv, ModelsInv, ActiveBy

\* A registration is of a model of which it has processed nothing yet.
LEMMA IndexedNew ==
    ASSUME CatalogueInv, NEW e, Progress(e), e.kind = "registered"
    PROVE  /\ e.title \in Title /\ e.by \in Wallet
           /\ RegisteredBy(Len(when), e.title) = {} /\ ~DeactivatedBy(Len(when), e.title)
           /\ ~db.model[e.title].known /\ ~db.model[e.title].active
           /\ PaidFor(e.title) = {}
<1>1. PICK n : n = Len(when)
  OBVIOUS
<1>2. /\ n \in Nat /\ n + 1 \in 1..Len(log) /\ e = log[n + 1] /\ e.title \in Title /\ e.by \in Wallet
      /\ \A i \in 1..n : i \in 1..Len(log) /\ i # n + 1
  BY <1>1, CatalogueTypes DEF Progress, Event, CatalogueInv
<1>3. RegisteredBy(n, e.title) = {}
  <2> SUFFICES ASSUME NEW w \in RegisteredBy(n, e.title) PROVE FALSE
    OBVIOUS
  <2>1. PICK i \in 1..n : log[i].kind = "registered" /\ log[i].title = e.title
    BY PastIs
  <2> QED BY <1>2, <2>1 DEF CatalogueInv, ChainOK
<1>4. \A i \in 1..n : log[i].title # e.title
  <2>1. n <= Len(log)
    BY <1>1, CatalogueTypes DEF CatalogueInv
  <2> QED BY <1>2, <1>3, <2>1, ChainPast DEF CatalogueInv
<1>5. ~DeactivatedBy(n, e.title)
  BY <1>4, PastIs
<1>6. PaidFor(e.title) = {}
  <2>1. DOMAIN when = 1..n
    BY <1>1, CatalogueTypes DEF CatalogueInv
  <2> QED BY <1>4, <2>1 DEF PaidFor, Paid
<1>7. ~db.model[e.title].known /\ ~db.model[e.title].active
  <2>1. /\ db.model[e.title].known <=> RegisteredBy(n, e.title) # {}
        /\ db.model[e.title].active <=> ActiveBy(n, e.title)
    BY <1>1, <1>2 DEF CatalogueInv, ModelsInv
  <2> QED BY <1>3, <2>1 DEF ActiveBy
<1> QED BY <1>1, <1>2, <1>3, <1>5, <1>6, <1>7

\* The payments are those the indexer has seen, before and after a step.
LEMMA PaymentsSeen ==
    ASSUME CatalogueInv, NEW e, Progress(e), log' = log
    PROVE  /\ \A i \in Paid : /\ log'[i] = log[i] /\ log[i].title \in Title
                              /\ log[i].by \in Wallet
           /\ log[Len(when) + 1] = e /\ log'[Len(when) + 1] = e
           /\ \A t : IsFiniteSet(PaidFor(t)) /\ Len(when) + 1 \notin PaidFor(t)
           /\ \A w : IsFiniteSet(PaidTo(w)) /\ Len(when) + 1 \notin PaidTo(w)
           /\ \A w : IsFiniteSet(ChunksOf(w)) /\ Len(when) + 1 \notin ChunksOf(w)
<1>1. IsFiniteSet(Paid) /\ Len(when) + 1 \notin Paid
  BY PaidProgress
<1>2. \A i \in Paid : log[i].title \in Title /\ log[i].by \in Wallet
  <2>1. DOMAIN when = 1..Len(when)
    BY CatalogueTypes DEF CatalogueInv
  <2> QED BY <2>1, CatalogueTypes DEF CatalogueInv, Paid
<1>3. /\ \A t : PaidFor(t) \in SUBSET Paid
      /\ \A w : PaidTo(w) \in SUBSET Paid
      /\ \A w : ChunksOf(w) \in SUBSET Paid
  BY DEF PaidFor, PaidTo, ChunksOf
<1>4. \A S \in SUBSET Paid : IsFiniteSet(S) /\ Len(when) + 1 \notin S
  BY <1>1, FS_Subset
<1> QED BY <1>2, <1>3, <1>4 DEF Progress

LEMMA IndexRegistered ==
    ASSUME CatalogueInv, NEW e, Progress(e), log' = log, e.kind = "registered",
           db' = HandleRegistered(db, e)
    PROVE  db' \in Entities /\ ModelsInv' /\ CountsInv'
<1>1. e \in Event /\ db \in Entities
  BY DEF Progress, CatalogueInv, CatalogueTypeOK
<1>2. /\ db' \in Entities
      /\ \A u \in Title : db'.model[u] =
           IF u = e.title THEN [known |-> TRUE, creator |-> e.by, active |-> TRUE, paid |-> 0]
           ELSE db.model[u]
      /\ \A v \in Wallet :
           /\ v # e.by => db'.creator[v] = db.creator[v]
           /\ v = e.by => /\ db'.creator[v].known /\ db'.creator[v].chunks = db.creator[v].chunks
                          /\ db'.creator[v].all = db.creator[v].all + 1
                          /\ db'.creator[v].active = db.creator[v].active + 1
      /\ db'.seeder = db.seeder
      /\ db'.network.active = db.network.active + 1
      /\ db'.network.payments = db.network.payments /\ db'.network.seeders = db.network.seeders
      /\ db'.network.creators = db.network.creators + (IF db.creator[e.by].known THEN 0 ELSE 1)
  BY <1>1, RegisteredWrites
<1>3. /\ e.title \in Title /\ e.by \in Wallet
      /\ RegisteredBy(Len(when), e.title) = {} /\ ~DeactivatedBy(Len(when), e.title)
      /\ ~db.model[e.title].known /\ ~db.model[e.title].active
      /\ PaidFor(e.title) = {}
  BY IndexedNew
<1>4. \A t : /\ RegisteredBy(Len(when), t)' =
                  IF e.title = t THEN RegisteredBy(Len(when), t) \cup {e.by}
                  ELSE RegisteredBy(Len(when), t)
             /\ DeactivatedBy(Len(when), t)' <=> DeactivatedBy(Len(when), t)
  BY PastProgress
<1>5. Paid' = Paid
  BY PaidProgress
<1>6. \A i \in Paid : /\ log'[i] = log[i] /\ log[i].title \in Title /\ log[i].title # e.title
  <2>1. \A i \in Paid : log[i].title # e.title
    BY <1>3 DEF PaidFor
  <2> QED BY <2>1, PaymentsSeen
<1>7. /\ \A t : PaidFor(t)' = PaidFor(t)
      /\ \A w : PaidTo(w)' = PaidTo(w)
      /\ \A w : ChunksOf(w)' = ChunksOf(w)
  <2>1. \A i \in Paid : db'.model[log[i].title] = db.model[log[i].title]
    BY <1>2, <1>6
  <2>2. \A w : ChunksOf(w)' = ChunksOf(w)
    BY <1>5, <1>6, <2>1 DEF ChunksOf
  <2> QED BY <1>5, <1>6, <2>2 DEF PaidFor, PaidTo
<1>8. \A w \in Wallet : db.creator[w].all \in Nat /\ db.creator[w].active \in Nat
  BY <1>1, CountsByField
<1>9. Creators' = Creators \cup {e.by}
  BY <1>2, <1>3, <1>8 DEF Creators
<1>10. Seeders' = Seeders
  BY <1>2 DEF Seeders
<1>11. ActiveTitles' = ActiveTitles \cup {e.title} /\ e.title \notin ActiveTitles
  BY <1>2, <1>3 DEF ActiveTitles
<1>12. \A w \in Wallet : /\ e.title \notin ActiveOf(w)
                         /\ w = e.by => ActiveOf(w)' = ActiveOf(w) \cup {e.title}
                         /\ w # e.by => ActiveOf(w)' = ActiveOf(w)
  BY <1>2, <1>3 DEF ActiveOf
<1>13. ModelsInv'
  <2>1. ASSUME NEW t \in Title, t = e.title
        PROVE  (/\ db.model[t].known <=> RegisteredBy(Len(when), t) # {}
                /\ db.model[t].known => RegisteredBy(Len(when), t) = {db.model[t].creator}
                /\ db.model[t].known => db.model[t].creator \in Creators
                /\ db.model[t].active <=> ActiveBy(Len(when), t)
                /\ db.model[t].paid = Cardinality(PaidFor(t)))'
    <3>1. RegisteredBy(Len(when), t)' = {e.by} /\ ActiveBy(Len(when), t)'
      BY <1>3, <1>4, <2>1 DEF ActiveBy
    <3>2. PICK r : r = [known |-> TRUE, creator |-> e.by, active |-> TRUE, paid |-> 0]
      OBVIOUS
    <3>3. r.known /\ r.active /\ r.creator = e.by /\ r.paid = 0
      BY <3>2
    <3>4. db'.model[t] = r
      BY <1>2, <2>1, <3>2
    <3>5. PaidFor(t)' = {}
      BY <1>3, <1>7, <2>1
    <3>6. Cardinality({}) = 0
      BY FS_EmptySet
    <3> QED BY <1>9, <3>1, <3>3, <3>4, <3>5, <3>6
  <2>2. ASSUME NEW t \in Title, t # e.title
        PROVE  (/\ db.model[t].known <=> RegisteredBy(Len(when), t) # {}
                /\ db.model[t].known => RegisteredBy(Len(when), t) = {db.model[t].creator}
                /\ db.model[t].known => db.model[t].creator \in Creators
                /\ db.model[t].active <=> ActiveBy(Len(when), t)
                /\ db.model[t].paid = Cardinality(PaidFor(t)))'
    <3>1. /\ RegisteredBy(Len(when), t)' = RegisteredBy(Len(when), t)
          /\ ActiveBy(Len(when), t)' <=> ActiveBy(Len(when), t)
      BY <1>4, <2>2 DEF ActiveBy
    <3>2. db'.model[t] = db.model[t] /\ PaidFor(t)' = PaidFor(t)
      BY <1>2, <1>7, <2>2
    <3>3. /\ db.model[t].known <=> RegisteredBy(Len(when), t) # {}
          /\ db.model[t].known => RegisteredBy(Len(when), t) = {db.model[t].creator}
          /\ db.model[t].known => db.model[t].creator \in Creators
          /\ db.model[t].active <=> ActiveBy(Len(when), t)
          /\ db.model[t].paid = Cardinality(PaidFor(t))
      BY DEF CatalogueInv, ModelsInv
    <3> QED BY <1>9, <3>1, <3>2, <3>3
  <2> QED BY <2>1, <2>2 DEF ModelsInv
<1>14. CountsInv'
  <2>1. /\ \A w \in Wallet :
              /\ IsFiniteSet(ActiveOf(w)) /\ db.creator[w].active = Cardinality(ActiveOf(w))
              /\ db.creator[w].chunks = Cardinality(ChunksOf(w))
              /\ db.seeder[w] = Cardinality(PaidTo(w))
              /\ db.creator[w].known <=> w \in Creators
        /\ IsFiniteSet(ActiveTitles) /\ db.network.active = Cardinality(ActiveTitles)
        /\ db.network.payments = Cardinality(Paid)
        /\ IsFiniteSet(Seeders) /\ db.network.seeders = Cardinality(Seeders)
        /\ IsFiniteSet(Creators) /\ db.network.creators = Cardinality(Creators)
    BY DEF CatalogueInv, CountsInv
  <2>2. ASSUME NEW w \in Wallet
        PROVE  (/\ IsFiniteSet(ActiveOf(w)) /\ db.creator[w].active = Cardinality(ActiveOf(w))
                /\ db.creator[w].chunks = Cardinality(ChunksOf(w))
                /\ db.seeder[w] = Cardinality(PaidTo(w))
                /\ db.creator[w].known <=> w \in Creators)'
    <3>1. CASE w = e.by
      <4>1. /\ IsFiniteSet(ActiveOf(w) \cup {e.title})
            /\ Cardinality(ActiveOf(w) \cup {e.title}) = Cardinality(ActiveOf(w)) + 1
        BY <1>12, <2>1, FS_AddElement
      <4>2. ActiveOf(w)' = ActiveOf(w) \cup {e.title}
        BY <1>12, <3>1
      <4>3. IsFiniteSet(ActiveOf(w))'
        BY <4>1, <4>2
      <4>4. db'.creator[w].active = db.creator[w].active + 1
            /\ db'.creator[w].chunks = db.creator[w].chunks /\ db'.creator[w].known
        BY <1>2, <3>1
      <4>5. db'.creator[w].active = Cardinality(ActiveOf(w)')
        BY <2>1, <4>1, <4>2, <4>4
      <4>6. db'.creator[w].known <=> w \in Creators'
        BY <1>9, <3>1, <4>4
      <4> QED BY <1>2, <1>7, <2>1, <4>3, <4>4, <4>5, <4>6
    <3>2. CASE w # e.by
      BY <1>2, <1>7, <1>9, <1>12, <2>1, <3>2
    <3> QED BY <3>1, <3>2
  <2>3. /\ IsFiniteSet(ActiveTitles)' /\ db'.network.active = Cardinality(ActiveTitles)'
    <3>1. /\ IsFiniteSet(ActiveTitles \cup {e.title})
          /\ Cardinality(ActiveTitles \cup {e.title}) = Cardinality(ActiveTitles) + 1
      BY <1>11, <2>1, FS_AddElement
    <3> QED BY <1>2, <1>11, <2>1, <3>1
  <2>4. /\ IsFiniteSet(Creators)' /\ db'.network.creators = Cardinality(Creators)'
    <3>1. /\ IsFiniteSet(Creators \cup {e.by})
          /\ Cardinality(Creators \cup {e.by}) =
               IF e.by \in Creators THEN Cardinality(Creators) ELSE Cardinality(Creators) + 1
      BY <2>1, FS_AddElement
    <3>2. Cardinality(Creators) \in Nat
      BY <2>1, FS_CardinalityType
    <3> QED BY <1>2, <1>3, <1>9, <2>1, <3>1, <3>2
  <2> QED BY <1>2, <1>5, <1>10, <2>1, <2>2, <2>3, <2>4 DEF CountsInv
<1> QED BY <1>2, <1>13, <1>14

LEMMA IndexDeactivated ==
    ASSUME CatalogueInv, NEW e, Progress(e), log' = log, e.kind = "deactivated",
           db' = HandleDeactivated(db, e)
    PROVE  db' \in Entities /\ ModelsInv' /\ CountsInv'
<1>1. e \in Event /\ db \in Entities
  BY DEF Progress, CatalogueInv, CatalogueTypeOK
<1>2. PICK w : w = db.model[e.title].creator
  OBVIOUS
<1>3. /\ e.title \in Title /\ ActiveBy(Len(when), e.title)
      /\ db.model[e.title].known /\ db.model[e.title].active
      /\ w \in Creators /\ w \in Wallet
      /\ RegisteredBy(Len(when), e.title) = {w}
  <2>1. w \in Creators => w \in Wallet
    BY DEF Creators
  <2> QED BY <1>2, <2>1, IndexedActive
<1>4. /\ \A v \in Wallet :
            /\ IsFiniteSet(ActiveOf(v)) /\ db.creator[v].active = Cardinality(ActiveOf(v))
            /\ db.creator[v].chunks = Cardinality(ChunksOf(v))
            /\ db.seeder[v] = Cardinality(PaidTo(v))
            /\ db.creator[v].known <=> v \in Creators
      /\ IsFiniteSet(ActiveTitles) /\ db.network.active = Cardinality(ActiveTitles)
      /\ db.network.payments = Cardinality(Paid)
      /\ IsFiniteSet(Seeders) /\ db.network.seeders = Cardinality(Seeders)
      /\ IsFiniteSet(Creators) /\ db.network.creators = Cardinality(Creators)
  BY DEF CatalogueInv, CountsInv
<1>5. e.title \in ActiveTitles /\ e.title \in ActiveOf(w)
  BY <1>2, <1>3 DEF ActiveTitles, ActiveOf
<1>6. db.network.active > 0
  <2>1. Cardinality(ActiveTitles) \in Nat /\ Cardinality(ActiveTitles) # 0
    BY <1>4, <1>5, FS_CardinalityType, FS_EmptySet
  <2> QED BY <1>4, <2>1
<1>7. db.creator[w].active > 0
  <2>1. Cardinality(ActiveOf(w)) \in Nat /\ Cardinality(ActiveOf(w)) # 0
    BY <1>3, <1>4, <1>5, FS_CardinalityType, FS_EmptySet
  <2> QED BY <1>3, <1>4, <2>1
<1>8. /\ db' \in Entities
      /\ \A u \in Title :
           /\ u # e.title => db'.model[u] = db.model[u]
           /\ u = e.title => /\ db'.model[u].known = db.model[u].known
                             /\ db'.model[u].creator = db.model[u].creator
                             /\ ~db'.model[u].active /\ db'.model[u].paid = db.model[u].paid
      /\ \A v \in Wallet :
           /\ v # w => db'.creator[v] = db.creator[v]
           /\ v = w => /\ db'.creator[v].known = db.creator[v].known
                       /\ db'.creator[v].chunks = db.creator[v].chunks
                       /\ db'.creator[v].all = db.creator[v].all
                       /\ db'.creator[v].active = db.creator[v].active - 1
      /\ db'.seeder = db.seeder
      /\ db'.network.active = db.network.active - 1
      /\ db'.network.payments = db.network.payments /\ db'.network.seeders = db.network.seeders
      /\ db'.network.creators = db.network.creators
  BY <1>1, <1>2, <1>3, <1>6, <1>7, DeactivatedWrites
<1>9. \A t : /\ RegisteredBy(Len(when), t)' = RegisteredBy(Len(when), t)
             /\ DeactivatedBy(Len(when), t)' <=> DeactivatedBy(Len(when), t) \/ e.title = t
  BY PastProgress
<1>10. Paid' = Paid
  BY PaidProgress
<1>11. \A i \in Paid : log'[i] = log[i] /\ log[i].title \in Title
  BY PaymentsSeen
<1>12. \A u \in Title : db'.model[u].creator = db.model[u].creator
                        /\ db'.model[u].known = db.model[u].known
                        /\ db'.model[u].paid = db.model[u].paid
  BY <1>8
<1>13. /\ \A t : PaidFor(t)' = PaidFor(t)
       /\ \A v : PaidTo(v)' = PaidTo(v)
       /\ \A v : ChunksOf(v)' = ChunksOf(v)
  <2>1. \A v : ChunksOf(v)' = ChunksOf(v)
    BY <1>10, <1>11, <1>12 DEF ChunksOf
  <2> QED BY <1>10, <1>11, <2>1 DEF PaidFor, PaidTo
<1>14. Creators' = Creators
  <2>1. \A v \in Wallet : db'.creator[v].all = db.creator[v].all
    BY <1>8
  <2> QED BY <2>1 DEF Creators
<1>15. Seeders' = Seeders
  BY <1>8 DEF Seeders
<1>16. ActiveTitles' = ActiveTitles \ {e.title}
  BY <1>3, <1>8 DEF ActiveTitles
<1>17. \A v \in Wallet : /\ v = w => ActiveOf(v)' = ActiveOf(v) \ {e.title}
                         /\ v # w => ActiveOf(v)' = ActiveOf(v)
  <2>1. \A v : \A u \in Title : u # e.title => (u \in ActiveOf(v)' <=> u \in ActiveOf(v))
    BY <1>8 DEF ActiveOf
  <2>2. \A v : e.title \notin ActiveOf(v)'
    BY <1>3, <1>8 DEF ActiveOf
  <2>3. \A v : v # w => e.title \notin ActiveOf(v)
    BY <1>2 DEF ActiveOf
  <2>4. \A v : ActiveOf(v) \subseteq Title /\ ActiveOf(v)' \subseteq Title
    BY DEF ActiveOf
  <2> QED BY <2>1, <2>2, <2>3, <2>4
<1>18. ModelsInv'
  <2> SUFFICES ASSUME NEW t \in Title
        PROVE  (/\ db.model[t].known <=> RegisteredBy(Len(when), t) # {}
                /\ db.model[t].known => RegisteredBy(Len(when), t) = {db.model[t].creator}
                /\ db.model[t].known => db.model[t].creator \in Creators
                /\ db.model[t].active <=> ActiveBy(Len(when), t)
                /\ db.model[t].paid = Cardinality(PaidFor(t)))'
    BY DEF ModelsInv
  <2>1. /\ db.model[t].known <=> RegisteredBy(Len(when), t) # {}
        /\ db.model[t].known => RegisteredBy(Len(when), t) = {db.model[t].creator}
        /\ db.model[t].known => db.model[t].creator \in Creators
        /\ db.model[t].active <=> ActiveBy(Len(when), t)
        /\ db.model[t].paid = Cardinality(PaidFor(t))
    BY DEF CatalogueInv, ModelsInv
  <2>2. db'.model[t].active <=> ActiveBy(Len(when), t)'
    <3>1. CASE t = e.title
      BY <1>8, <1>9, <3>1 DEF ActiveBy
    <3>2. CASE t # e.title
      <4>1. db'.model[t] = db.model[t]
        BY <1>8, <3>2
      <4>2. ActiveBy(Len(when), t)' <=> ActiveBy(Len(when), t)
        BY <1>9, <3>2 DEF ActiveBy
      <4> QED BY <2>1, <4>1, <4>2
    <3> QED BY <3>1, <3>2
  <2> QED BY <1>9, <1>12, <1>13, <1>14, <2>1, <2>2
<1>19. CountsInv'
  <2>1. ASSUME NEW v \in Wallet
        PROVE  (/\ IsFiniteSet(ActiveOf(v)) /\ db.creator[v].active = Cardinality(ActiveOf(v))
                /\ db.creator[v].chunks = Cardinality(ChunksOf(v))
                /\ db.seeder[v] = Cardinality(PaidTo(v))
                /\ db.creator[v].known <=> v \in Creators)'
    <3>1. CASE v = w
      <4>1. /\ IsFiniteSet(ActiveOf(v) \ {e.title})
            /\ Cardinality(ActiveOf(v) \ {e.title}) = Cardinality(ActiveOf(v)) - 1
        BY <1>4, <1>5, <3>1, FS_RemoveElement
      <4>2. ActiveOf(v)' = ActiveOf(v) \ {e.title}
        BY <1>17, <3>1
      <4>3. IsFiniteSet(ActiveOf(v))'
        BY <4>1, <4>2
      <4>4. /\ db'.creator[v].active = db.creator[v].active - 1
            /\ db'.creator[v].chunks = db.creator[v].chunks
            /\ db'.creator[v].known = db.creator[v].known
        BY <1>8, <3>1
      <4>5. db'.creator[v].active = Cardinality(ActiveOf(v)')
        BY <1>4, <4>1, <4>2, <4>4
      <4> QED BY <1>4, <1>8, <1>13, <1>14, <4>3, <4>4, <4>5
    <3>2. CASE v # w
      BY <1>4, <1>8, <1>13, <1>14, <1>17, <3>2
    <3> QED BY <3>1, <3>2
  <2>2. IsFiniteSet(ActiveTitles)' /\ db'.network.active = Cardinality(ActiveTitles)'
    <3>1. /\ IsFiniteSet(ActiveTitles \ {e.title})
          /\ Cardinality(ActiveTitles \ {e.title}) = Cardinality(ActiveTitles) - 1
      BY <1>4, <1>5, FS_RemoveElement
    <3> QED BY <1>4, <1>8, <1>16, <3>1
  <2> QED BY <1>4, <1>8, <1>10, <1>14, <1>15, <2>1, <2>2 DEF CountsInv
<1> QED BY <1>8, <1>18, <1>19

LEMMA IndexPaid ==
    ASSUME CatalogueInv, NEW e, Progress(e), log' = log, e.kind = "paid",
           db' = HandlePaymentSplit(db, e)
    PROVE  db' \in Entities /\ ModelsInv' /\ CountsInv'
<1>1. e \in Event /\ db \in Entities /\ e.by \in Wallet
  BY DEF Progress, Event, CatalogueInv, CatalogueTypeOK
<1>2. PICK w : w = db.model[e.title].creator
  OBVIOUS
<1>3. /\ e.title \in Title /\ ActiveBy(Len(when), e.title)
      /\ db.model[e.title].known
      /\ w \in Creators /\ w \in Wallet
      /\ RegisteredBy(Len(when), e.title) = {w}
  <2>1. w \in Creators => w \in Wallet
    BY DEF Creators
  <2> QED BY <1>2, <2>1, IndexedActive
<1>4. /\ \A v \in Wallet :
            /\ IsFiniteSet(ActiveOf(v)) /\ db.creator[v].active = Cardinality(ActiveOf(v))
            /\ db.creator[v].chunks = Cardinality(ChunksOf(v))
            /\ db.seeder[v] = Cardinality(PaidTo(v))
            /\ db.creator[v].known <=> v \in Creators
      /\ IsFiniteSet(ActiveTitles) /\ db.network.active = Cardinality(ActiveTitles)
      /\ db.network.payments = Cardinality(Paid)
      /\ IsFiniteSet(Seeders) /\ db.network.seeders = Cardinality(Seeders)
      /\ IsFiniteSet(Creators) /\ db.network.creators = Cardinality(Creators)
  BY DEF CatalogueInv, CountsInv
<1>5. w = CHOOSE v \in RegisteredBy(Len(log), e.title) : TRUE
  <2>1. CatalogueTypeOK /\ ChainOK /\ Len(log) \in Nat /\ Len(when) \in Nat /\ Len(when) <= Len(log)
    BY CatalogueTypes DEF CatalogueInv
  <2>2. w \in RegisteredBy(Len(log), e.title)
    BY <1>3, <2>1, PastGrows
  <2>3. PICK k : k = Len(log)
    OBVIOUS
  <2>4. \A v \in RegisteredBy(k, e.title) : v = w
    BY <2>1, <2>2, <2>3, RegisteredOnce
  <2>5. RegisteredBy(Len(log), e.title) = {w}
    BY <2>2, <2>3, <2>4
  <2> QED BY <2>5
<1>6. /\ db' \in Entities
      /\ \A u \in Title :
           /\ u # e.title => db'.model[u] = db.model[u]
           /\ u = e.title => /\ db'.model[u].known = db.model[u].known
                             /\ db'.model[u].creator = db.model[u].creator
                             /\ db'.model[u].active = db.model[u].active
                             /\ db'.model[u].paid = db.model[u].paid + 1
      /\ \A v \in Wallet :
           /\ v # w => db'.creator[v] = db.creator[v]
           /\ v = w => /\ db'.creator[v].known = db.creator[v].known
                       /\ db'.creator[v].chunks = db.creator[v].chunks + 1
                       /\ db'.creator[v].all = db.creator[v].all
                       /\ db'.creator[v].active = db.creator[v].active
      /\ \A v \in Wallet :
           db'.seeder[v] = IF v = e.by THEN db.seeder[v] + 1 ELSE db.seeder[v]
      /\ db'.network.active = db.network.active
      /\ db'.network.payments = db.network.payments + 1
      /\ db'.network.seeders = db.network.seeders + (IF db.seeder[e.by] > 0 THEN 0 ELSE 1)
      /\ db'.network.creators = db.network.creators
  <2>1. /\ db \in Entities /\ e \in Event /\ db' = HandlePaymentSplit(db, e)
        /\ db.model[e.title].known /\ w \in Wallet /\ db.creator[w].known
    BY <1>1, <1>3, <1>4
  <2> QED BY <1>5, <2>1, PaymentWrites
<1>7. \A t : /\ RegisteredBy(Len(when), t)' = RegisteredBy(Len(when), t)
             /\ ActiveBy(Len(when), t)' <=> ActiveBy(Len(when), t)
  <2>1. \A t : /\ RegisteredBy(Len(when), t)' = RegisteredBy(Len(when), t)
               /\ DeactivatedBy(Len(when), t)' <=> DeactivatedBy(Len(when), t)
    BY PastProgress
  <2> QED BY <2>1 DEF ActiveBy
<1>8. PICK k : k = Len(when) + 1
  OBVIOUS
<1>9. Paid' = Paid \cup {k} /\ IsFiniteSet(Paid) /\ k \notin Paid
  BY <1>8, PaidProgress
<1>10. /\ \A i \in Paid : log'[i] = log[i] /\ log[i].title \in Title
       /\ log'[k] = e
       /\ \A t : IsFiniteSet(PaidFor(t)) /\ k \notin PaidFor(t)
       /\ \A v : IsFiniteSet(PaidTo(v)) /\ k \notin PaidTo(v)
       /\ \A v : IsFiniteSet(ChunksOf(v)) /\ k \notin ChunksOf(v)
  BY <1>8, PaymentsSeen
<1>11. \A u \in Title : /\ db'.model[u].creator = db.model[u].creator
                        /\ db'.model[u].known = db.model[u].known
                        /\ db'.model[u].active = db.model[u].active
  BY <1>6
<1>12. \A t : /\ t = e.title => PaidFor(t)' = PaidFor(t) \cup {k}
              /\ t # e.title => PaidFor(t)' = PaidFor(t)
  BY <1>9, <1>10 DEF PaidFor
<1>13. \A v : /\ v = e.by => PaidTo(v)' = PaidTo(v) \cup {k}
              /\ v # e.by => PaidTo(v)' = PaidTo(v)
  BY <1>9, <1>10 DEF PaidTo
<1>14. \A v : /\ v = w => ChunksOf(v)' = ChunksOf(v) \cup {k}
              /\ v # w => ChunksOf(v)' = ChunksOf(v)
  <2>1. db'.model[log'[k].title].creator = w
    BY <1>2, <1>3, <1>10, <1>11
  <2>2. \A i \in Paid : db'.model[log'[i].title].creator = db.model[log[i].title].creator
    BY <1>10, <1>11
  <2> QED BY <1>9, <2>1, <2>2 DEF ChunksOf
<1>15. Creators' = Creators
  <2>1. \A v \in Wallet : db'.creator[v].all = db.creator[v].all
    BY <1>6
  <2> QED BY <2>1 DEF Creators
<1>16. ActiveTitles' = ActiveTitles /\ \A v : ActiveOf(v)' = ActiveOf(v)
  <2>1. \A u \in Title : (db'.model[u].active <=> db.model[u].active)
                         /\ db'.model[u].creator = db.model[u].creator
    BY <1>11
  <2> QED BY <2>1 DEF ActiveTitles, ActiveOf
<1>17. Seeders' = Seeders \cup {e.by}
  <2>1. \A v \in Wallet : db.seeder[v] \in Nat
    BY <1>1 DEF Entities
  <2> QED BY <1>1, <1>6, <2>1 DEF Seeders
<1>18. ModelsInv'
  <2> SUFFICES ASSUME NEW t \in Title
        PROVE  (/\ db.model[t].known <=> RegisteredBy(Len(when), t) # {}
                /\ db.model[t].known => RegisteredBy(Len(when), t) = {db.model[t].creator}
                /\ db.model[t].known => db.model[t].creator \in Creators
                /\ db.model[t].active <=> ActiveBy(Len(when), t)
                /\ db.model[t].paid = Cardinality(PaidFor(t)))'
    BY DEF ModelsInv
  <2>1. /\ db.model[t].known <=> RegisteredBy(Len(when), t) # {}
        /\ db.model[t].known => RegisteredBy(Len(when), t) = {db.model[t].creator}
        /\ db.model[t].known => db.model[t].creator \in Creators
        /\ db.model[t].active <=> ActiveBy(Len(when), t)
        /\ db.model[t].paid = Cardinality(PaidFor(t))
    BY DEF CatalogueInv, ModelsInv
  <2>2. db'.model[t].paid = Cardinality(PaidFor(t)')
    <3>1. CASE t = e.title
      <4>1. Cardinality(PaidFor(t) \cup {k}) = Cardinality(PaidFor(t)) + 1
        BY <1>10, FS_AddElement
      <4>2. PaidFor(t)' = PaidFor(t) \cup {k} /\ db'.model[t].paid = db.model[t].paid + 1
        BY <1>6, <1>12, <3>1
      <4> QED BY <2>1, <4>1, <4>2
    <3>2. CASE t # e.title
      BY <1>6, <1>12, <2>1, <3>2
    <3> QED BY <3>1, <3>2
  <2> QED BY <1>7, <1>11, <1>15, <2>1, <2>2
<1>19. CountsInv'
  <2>1. ASSUME NEW v \in Wallet
        PROVE  (/\ IsFiniteSet(ActiveOf(v)) /\ db.creator[v].active = Cardinality(ActiveOf(v))
                /\ db.creator[v].chunks = Cardinality(ChunksOf(v))
                /\ db.seeder[v] = Cardinality(PaidTo(v))
                /\ db.creator[v].known <=> v \in Creators)'
    <3>1. /\ db'.creator[v].active = db.creator[v].active
          /\ db'.creator[v].known = db.creator[v].known
      BY <1>6
    <3>2. db'.creator[v].chunks = Cardinality(ChunksOf(v)')
      <4>1. CASE v = w
        <5>1. Cardinality(ChunksOf(v) \cup {k}) = Cardinality(ChunksOf(v)) + 1
          BY <1>10, FS_AddElement
        <5>2. ChunksOf(v)' = ChunksOf(v) \cup {k}
              /\ db'.creator[v].chunks = db.creator[v].chunks + 1
          BY <1>6, <1>14, <4>1
        <5> QED BY <1>4, <5>1, <5>2
      <4>2. CASE v # w
        BY <1>4, <1>6, <1>14, <4>2
      <4> QED BY <4>1, <4>2
    <3>3. db'.seeder[v] = Cardinality(PaidTo(v)')
      <4>1. CASE v = e.by
        <5>1. Cardinality(PaidTo(v) \cup {k}) = Cardinality(PaidTo(v)) + 1
          BY <1>10, FS_AddElement
        <5>2. PaidTo(v)' = PaidTo(v) \cup {k} /\ db'.seeder[v] = db.seeder[v] + 1
          BY <1>6, <1>13, <4>1
        <5> QED BY <1>4, <5>1, <5>2
      <4>2. CASE v # e.by
        BY <1>4, <1>6, <1>13, <4>2
      <4> QED BY <4>1, <4>2
    <3> QED BY <1>4, <1>15, <1>16, <3>1, <3>2, <3>3
  <2>2. db'.network.payments = Cardinality(Paid)'
    <3>1. Cardinality(Paid \cup {k}) = Cardinality(Paid) + 1
      BY <1>9, FS_AddElement
    <3> QED BY <1>4, <1>6, <1>9, <3>1
  <2>3. IsFiniteSet(Seeders)' /\ db'.network.seeders = Cardinality(Seeders)'
    <3>1. /\ IsFiniteSet(Seeders \cup {e.by})
          /\ Cardinality(Seeders \cup {e.by}) =
               IF e.by \in Seeders THEN Cardinality(Seeders) ELSE Cardinality(Seeders) + 1
      BY <1>4, FS_AddElement
    <3>2. e.by \in Seeders <=> db.seeder[e.by] > 0
      BY <1>1 DEF Seeders
    <3>3. Cardinality(Seeders) \in Nat
      BY <1>4, FS_CardinalityType
    <3> QED BY <1>4, <1>6, <1>17, <3>1, <3>2, <3>3
  <2> QED BY <1>4, <1>6, <1>15, <1>16, <2>1, <2>2, <2>3 DEF CountsInv
<1> QED BY <1>6, <1>18, <1>19

LEMMA IndexKeeps ==
    ASSUME CatalogueInv, Indexes
    PROVE  CatalogueInv'
<1>1. PICK e : e = log[Len(when) + 1]
  OBVIOUS
<1>2. Progress(e)
  BY <1>1, IndexProgress
<1>3. UNCHANGED <<log, query, response, asked, list, saved, now>>
  BY DEF Indexes
<1>4. e.kind \in {"registered", "deactivated", "paid"}
  BY <1>2 DEF Progress, Event
<1>5. db' = IF e.kind = "registered" THEN HandleRegistered(db, e)
            ELSE IF e.kind = "deactivated" THEN HandleDeactivated(db, e)
            ELSE HandlePaymentSplit(db, e)
  BY <1>1 DEF Indexes
<1>6. db' \in Entities /\ ModelsInv' /\ CountsInv'
  <2>1. CASE e.kind = "registered"
    BY <1>2, <1>3, <1>5, <2>1, IndexRegistered
  <2>2. CASE e.kind = "deactivated"
    BY <1>2, <1>3, <1>5, <2>2, IndexDeactivated
  <2>3. CASE e.kind = "paid"
    BY <1>2, <1>3, <1>5, <2>3, IndexPaid
  <2> QED BY <1>4, <2>1, <2>2, <2>3
<1>7. /\ now \in Nat /\ Len(when) \in Nat /\ Len(log) \in Nat /\ Len(when') = Len(when) + 1
      /\ when' \in Seq(Nat) /\ Len(when) + 1 <= Len(log)
      /\ when'[Len(when) + 1] = now /\ \A i \in 1..Len(when) : when'[i] = when[i]
      /\ \A i \in 1..Len(when) : when[i] <= now
      /\ log \in Seq(Event)
  BY <1>2, CatalogueTypes DEF CatalogueInv, CatalogueTypeOK, Progress
<1>8. \A i \in 1..Len(when') : i \in 1..Len(when) \/ i = Len(when) + 1
  BY <1>7
<1>9. CatalogueTypeOK'
  <2>1. \A i \in 1..Len(when') : when'[i] <= now
    BY <1>7, <1>8
  <2> QED BY <1>3, <1>6, <1>7, <2>1 DEF CatalogueInv, CatalogueTypeOK
<1>10. ChainOK'
  BY <1>3, ChainSame DEF CatalogueInv
<1>11. RecentInv'
  <2>1. Grows
    BY <1>3, <1>7 DEF Grows
  <2>2. asked.open => now <= asked.at + QueryTimeout
    BY DEF CatalogueInv, RecentInv
  <2>3. Len(when) <= Len(when') /\ \A i \in 1..Len(when') : i > Len(when) => when'[i] >= now
    BY <1>7, <1>8
  <2> QED BY <1>3, <1>7, <2>1, <2>2, <2>3, RecentKept
<1> QED BY <1>6, <1>9, <1>10, <1>11 DEF CatalogueInv

LEMMA CatalogueSteps == CatalogueInv /\ [CatalogueNext]_<<catalogueVars, now>> => CatalogueInv'
<1> SUFFICES ASSUME CatalogueInv, [CatalogueNext]_<<catalogueVars, now>> PROVE CatalogueInv'
  OBVIOUS
<1>1. ASSUME NEW t \in Title,
             \/ \E w \in Wallet : RegisterTitle(t, w) \/ RegisterFails(t, w) \/ PayForChunk(t, w)
             \/ DeactivateTitle(t)
      PROVE  CatalogueInv'
  BY <1>1, TransactionKeeps
<1>2. CASE FetchModels \/ Answered \/ Unanswered
  BY <1>2, FetchKeeps
<1>3. CASE Indexes
  BY <1>3, IndexKeeps
<1>4. CASE CatalogueTick \/ UNCHANGED <<catalogueVars, now>>
  BY <1>4, TimeKeeps
<1> QED BY <1>1, <1>2, <1>3, <1>4 DEF CatalogueNext

LEMMA CatalogueInvImplies == CatalogueInv => CatalogueCorrect
<1> SUFFICES ASSUME CatalogueInv PROVE CatalogueCorrect
  OBVIOUS
<1>1. IndexerAgrees
  <2>1. /\ \A t \in Title :
              /\ db.model[t].known <=> RegisteredBy(Len(when), t) # {}
              /\ db.model[t].known => RegisteredBy(Len(when), t) = {db.model[t].creator}
              /\ db.model[t].active <=> ActiveBy(Len(when), t)
              /\ db.model[t].paid = Cardinality(PaidFor(t))
        /\ \A w \in Wallet :
              /\ db.creator[w].active = Cardinality(ActiveOf(w))
              /\ db.creator[w].chunks = Cardinality(ChunksOf(w))
              /\ db.seeder[w] = Cardinality(PaidTo(w))
        /\ db.network.active = Cardinality(ActiveTitles)
        /\ db.network.payments = Cardinality(Paid)
        /\ db.network.seeders = Cardinality(Seeders)
        /\ db.network.creators = Cardinality(Creators)
    BY DEF CatalogueInv, ModelsInv, CountsInv
  <2>2. \A w \in Wallet :
           ActiveOf(w) = {t \in Title : ActiveBy(Len(when), t) /\ w \in RegisteredBy(Len(when), t)}
    <3>1. \A w \in Wallet : \A t \in Title :
             (db.model[t].active /\ db.model[t].creator = w)
             <=> (ActiveBy(Len(when), t) /\ w \in RegisteredBy(Len(when), t))
      BY <2>1 DEF ActiveBy
    <3> QED BY <3>1 DEF ActiveOf
  <2>3. ActiveTitles = {t \in Title : ActiveBy(Len(when), t)}
    BY <2>1 DEF ActiveTitles
  <2>4. \A w \in Wallet : Cardinality(ActiveOf(w)) =
           Cardinality({t \in Title : ActiveBy(Len(when), t) /\ w \in RegisteredBy(Len(when), t)})
    BY <2>2
  <2> QED BY <2>1, <2>3, <2>4
          DEF IndexerAgrees, PaidFor, ChunksOf, PaidTo, Seeders, Creators
<1>2. ListedExists
  BY DEF ListedExists, CatalogueInv, RecentInv
<1>3. ListIsRecent
  <2> SUFFICES ASSUME NEW i \in DOMAIN when,
                      list.at > when[i] + QueryTimeout + CacheTTL, ~list.scanned
               PROVE  /\ log[i].kind = "deactivated" =>
                            log[i].title \notin list.titles \ LocalModels
                      /\ log[i].kind = "registered" /\ Asks(log[i].by) =>
                            log[i].title \in list.titles \/ DeactivatedBy(Len(when), log[i].title)
    BY DEF ListIsRecent
  <2>1. PICK titles \in SUBSET Title :
           /\ list.titles \ LocalModels \subseteq titles /\ titles \subseteq list.titles
           /\ Knows(titles, list.at - CacheTTL - QueryTimeout)
    BY DEF CatalogueInv, RecentInv
  <2>2. i \in 1..Len(when) /\ when[i] < list.at - CacheTTL - QueryTimeout
    BY CatalogueTypes DEF CatalogueInv
  <2>3. /\ log[i].kind = "deactivated" => log[i].title \notin titles
        /\ log[i].kind = "registered" /\ Asks(log[i].by) =>
             log[i].title \in titles \/ DeactivatedBy(Len(when), log[i].title)
    BY <2>1, <2>2 DEF Knows
  <2> QED BY <2>1, <2>3
<1> QED BY <1>1, <1>2, <1>3 DEF CatalogueCorrect

\* What is listed of the models: the indexer's counts are those of the events it has
\* processed; a page lists what was registered, or saved by this browser; and a list
\* the indexer answered is behind it by no more than the answer's travel and its stay
\* in the cache (EventHandlers.ts, envio-client.ts, api-client.ts).
THEOREM ListingsCorrect == CatalogueSpec => []CatalogueCorrect
<1>1. now = 0 /\ CatalogueInit => CatalogueInv
  BY CatalogueStarts
<1>2. CatalogueInv /\ [CatalogueNext]_<<catalogueVars, now>> => CatalogueInv'
  BY CatalogueSteps
<1>3. CatalogueInv => CatalogueCorrect
  BY CatalogueInvImplies
<1> QED BY <1>1, <1>2, <1>3, PTL DEF CatalogueSpec
=============================================================================
