----------------------------- MODULE SeederQuery -----------------------------
(***************************************************************************)
(* Asking the hub who seeds a model: querySeeders of                       *)
(* src/frontend/src/services/signaling-client.ts and its callers, which    *)
(* share one client: the discovery loop of a download, and panels that     *)
(* poll.                                                                   *)
(*                                                                         *)
(* The client keeps one entry per model, here of one model; answers carry  *)
(* no number, so an answer goes to whoever is in the entry.  A query's     *)
(* timer is of 12 s, so timers run out in the order of the calls.          *)
(***************************************************************************)
EXTENDS Naturals, Sequences, FiniteSets

CONSTANT MaxQueries   \* bound: calls of querySeeders

VARIABLES
    online,     \* the socket is open
    pending,    \* whose resolver pendingQueries has: the call's number, or 0
    queries,    \* the calls so far
    unanswered  \* query messages on this socket without an answer

queryVars == <<online, pending, queries, unanswered>>

-----------------------------------------------------------------------------

\* got: how the promise settled.  listens: waits for the status "connected".
\* sent: a message went out on this socket since.  alone: history, the timers of
\* the calls before it had run out.
Call(by) == [by |-> by, got |-> "nothing", listens |-> ~online, sent |-> online,
             fired |-> FALSE,
             alone |-> \A q \in DOMAIN queries : queries[q].fired]

QueryInit ==
    /\ online \in BOOLEAN
    /\ pending = 0
    /\ queries = <<>>
    /\ unanswered = 0

\* A promise settles once; a resolver that was wrapped also stops listening.
Settle(q, got) ==
    IF q = 0 THEN queries
    ELSE [queries EXCEPT ![q].got = IF @ = "nothing" THEN got ELSE @, ![q].listens = FALSE]

\* Mutant of Replaced: the entry is overwritten, its resolver forgotten.
ReplacedSilently == queries

\* A prior call of the model is resolved empty.
Replaced == Settle(pending, "empty")

\* querySeeders.
QuerySeeders(by) ==
    /\ Len(queries) < MaxQueries
    /\ queries' = Append(Replaced, Call(by))
    /\ pending' = Len(queries) + 1
    /\ unanswered' = IF online THEN unanswered + 1 ELSE unanswered
    /\ UNCHANGED online

\* Downloader.start: again after an empty answer, until somebody seeds.
Discover ==
    /\ \A q \in DOMAIN queries : queries[q].by = "download" => queries[q].got = "empty"
    /\ QuerySeeders("download")

\* An interval of the seeder panel, only while connected, or of the dashboard's
\* swarm tab, whatever became of the last poll.
Poll(by) ==
    /\ by = "panel" => online
    /\ QuerySeeders(by)

\* The message "seeders" arrives.
OnSeeders(got) ==
    /\ unanswered > 0
    /\ unanswered' = unanswered - 1
    /\ queries' = Settle(pending, got)
    /\ pending' = 0
    /\ UNCHANGED online

\* The 12 s of a call are over: if there is an entry, whosever, it is deleted,
\* and the call is resolved, with the resolver that keeps listening.
OnTimeout(q) ==
    /\ q \in DOMAIN queries /\ ~queries[q].fired
    /\ \A p \in 1..(q - 1) : queries[p].fired
    /\ queries' = [queries EXCEPT ![q].fired = TRUE,
                                  ![q].got = IF pending # 0 /\ @ = "nothing" THEN "empty" ELSE @]
    /\ pending' = 0
    /\ UNCHANGED <<online, unanswered>>

\* Status "connected": every call that listens sends, if there is an entry.
OnConnected ==
    /\ ~online
    /\ online' = TRUE
    /\ LET listening == {q \in DOMAIN queries : queries[q].listens} IN
       /\ unanswered' = IF pending = 0 THEN 0 ELSE Cardinality(listening)
       /\ queries' = [q \in DOMAIN queries |->
             [queries[q] EXCEPT !.listens = FALSE,
                                !.sent = @ \/ (q = pending /\ listening # {})]]
    /\ UNCHANGED pending

\* The socket closes; what was sent on it is not answered.
OnDropped ==
    /\ online
    /\ online' = FALSE
    /\ unanswered' = 0
    /\ queries' = [q \in DOMAIN queries |-> [queries[q] EXCEPT !.sent = FALSE]]
    /\ UNCHANGED pending

QueryNext ==
    \/ Discover
    \/ \E by \in {"panel", "mesh"} : Poll(by)
    \/ \E got \in {"empty", "seeders"} : OnSeeders(got)
    \/ \E q \in 1..MaxQueries : OnTimeout(q)
    \/ OnConnected \/ OnDropped

QuerySpec == QueryInit /\ [][QueryNext]_queryVars

-----------------------------------------------------------------------------

\* What holds of "Timeout safety: if no response in 12s, return empty array"
\* (querySeeders): a call made after the timers of all earlier calls have run out is
\* settled when its own has.  The entry is always the last call's, still
\* unsettled; an unsettled call without the entry lost it to the timer of an
\* earlier call that was running when it was made; and as long as the socket
\* holds, an answer to a call that is waiting is on its way.
QueryCorrect ==
    /\ pending # 0 => pending = Len(queries) /\ queries[pending].got = "nothing"
    /\ \A q \in DOMAIN queries :
          queries[q].got = "nothing" /\ q # pending =>
              /\ ~queries[q].alone
              /\ \E p \in 1..(q - 1) : queries[p].fired
    /\ \A q \in DOMAIN queries :
          queries[q].alone /\ queries[q].fired => queries[q].got # "nothing"
    /\ pending # 0 /\ online /\ queries[pending].sent => unanswered > 0
=============================================================================
