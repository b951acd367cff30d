------------------------------ MODULE Catalogue ------------------------------
(***************************************************************************)
(* What is listed of the models: the registry's and payment contract's     *)
(* events, the indexer that adds them up (src/indexer/src/EventHandlers.ts)*)
(* and the clients of the frontend that list models                        *)
(* (src/frontend/src/services/{envio-client,api-client}.ts, with the hooks *)
(* use-models.ts and use-creator-data.ts): from the indexer, through a     *)
(* cache; from a scan of the chain, if the indexer does not answer or has  *)
(* nothing; and from what this browser saved when it published.            *)
(*                                                                         *)
(* The indexer's library hands it the events in the order of the chain and *)
(* runs each handler alone; get() answers at once, as the handlers declare *)
(* it.  Amounts are counts of payments; the lists have one entry per model,*)
(* all of them listed as active.  Demo mode and the optional REST indexer, *)
(* which is not in this repository, are left out.                          *)
(***************************************************************************)
EXTENDS Common, Sequences, FiniteSets

CONSTANTS Title,        \* the models
          CacheTTL,     \* ticks: QUERY_CACHE_TTL_MS
          QueryTimeout, \* ticks: timeoutMs of queryEnvio
          MaxEvents     \* bound

VARIABLES
    log,       \* the events of the chain
    when,      \* of each event processed so far, at which tick
    db,        \* the indexer's entities
    query,     \* what the page lists: all models, or those of an account
    response,  \* responseCache, of that query
    asked,     \* inFlightQueries, of that query: the answer on its way
    list,      \* what the page lists, from where, and since when, if from the indexer
    saved      \* torrentia_local_models

ASSUME CatalogueAssumption == CacheTTL \in Nat /\ QueryTimeout \in Nat

catalogueVars == <<log, when, db, query, response, asked, list, saved>>

-----------------------------------------------------------------------------

\* A page of the marketplace has no creator in its query, a dashboard its account:
\* what is cached and asked for one does not concern the other.
QueryKey == Wallet \cup {NoWallet}

NoResponse == [titles |-> {}, until |-> 0]
NotAsked == [titles |-> {}, at |-> 0, open |-> FALSE]
NoList == [titles |-> {}, at |-> 0, scanned |-> TRUE]
NoEntity == [known |-> FALSE, creator |-> NoWallet, active |-> FALSE, paid |-> 0]

CatalogueInit ==
    /\ log = <<>> /\ when = <<>>
    /\ db = [model |-> [t \in Title |-> NoEntity],
             creator |-> [w \in Wallet |-> [known |-> FALSE, all |-> 0, active |-> 0, chunks |-> 0]],
             seeder |-> [w \in Wallet |-> 0],
             network |-> [models |-> 0, active |-> 0, payments |-> 0, creators |-> 0, seeders |-> 0]]
    /\ query \in QueryKey
    /\ response = NoResponse /\ asked = NotAsked /\ list = NoList
    /\ saved = {}

Is(i, kind, t) == log[i].kind = kind /\ log[i].title = t
RegisteredBy(n, t) == {log[i].by : i \in {j \in 1..n : Is(j, "registered", t)}}
DeactivatedBy(n, t) == \E i \in 1..n : Is(i, "deactivated", t)
ActiveBy(n, t) == RegisteredBy(n, t) # {} /\ ~DeactivatedBy(n, t)

-----------------------------------------------------------------------------
\* The chain.  A transaction of this browser may also fail.

Emits(kind, t, w) ==
    /\ Len(log) < MaxEvents
    /\ log' = Append(log, [kind |-> kind, title |-> t, by |-> w])
    /\ UNCHANGED <<when, db, query, response, asked, list, now>>

\* A model ID is made up by the wizard of its creator.
MadeBy(t, w) ==
    /\ RegisteredBy(Len(log), t) \subseteq {w}
    /\ \A s \in saved : s.title = t => s.by = w

\* In this browser, which saves the model, or in another.
RegisterTitle(t, w) ==
    /\ RegisteredBy(Len(log), t) = {} /\ MadeBy(t, w)
    /\ Emits("registered", t, w)
    /\ saved' \in {saved, saved \cup {[title |-> t, by |-> w]}}

\* The wizard saved a model that the chain refused.
RegisterFails(t, w) ==
    /\ MadeBy(t, w)
    /\ saved' = saved \cup {[title |-> t, by |-> w]}
    /\ UNCHANGED <<log, when, db, query, response, asked, list, now>>

DeactivateTitle(t) ==
    /\ ActiveBy(Len(log), t)
    /\ \E w \in RegisteredBy(Len(log), t) : Emits("deactivated", t, w)
    /\ UNCHANGED saved

PayForChunk(t, seeder) ==
    /\ ActiveBy(Len(log), t)
    /\ Emits("paid", t, seeder)
    /\ UNCHANGED saved

-----------------------------------------------------------------------------
\* The handlers of the indexer, each on the entities d.

One(known) == IF known THEN 0 ELSE 1

HandleRegistered(d, e) ==
    [d EXCEPT !.model[e.title] = [known |-> TRUE, creator |-> e.by, active |-> TRUE, paid |-> 0],
              !.creator[e.by] = [d.creator[e.by] EXCEPT !.known = TRUE, !.all = @ + 1,
                                                        !.active = @ + 1],
              !.network = [d.network EXCEPT !.models = @ + 1, !.active = @ + 1,
                                            !.creators = @ + One(d.creator[e.by].known)]]

HandleDeactivated(d, e) ==
    IF ~d.model[e.title].active THEN d
    ELSE LET w == d.model[e.title].creator IN
         [d EXCEPT !.model[e.title].active = FALSE,
                   !.creator[w].active = IF @ > 0 THEN @ - 1 ELSE @,
                   !.network.active = IF @ > 0 THEN @ - 1 ELSE @]

\* The placeholder a payment makes for a model it does not know is active at once;
\* the creator is the one the contract read from the registry.
HandlePaymentSplit(d, e) ==
    LET creator == CHOOSE w \in RegisteredBy(Len(log), e.title) : TRUE
        m == IF d.model[e.title].known THEN d.model[e.title]
             ELSE [known |-> TRUE, creator |-> creator, active |-> TRUE, paid |-> 0] IN
    [d EXCEPT !.model[e.title] = [m EXCEPT !.paid = @ + 1],
              !.creator[creator].chunks = IF d.creator[creator].known THEN @ + 1 ELSE @,
              !.seeder[e.by] = @ + 1,
              !.network = [d.network EXCEPT !.payments = @ + 1,
                                            !.seeders = @ + One(d.seeder[e.by] > 0)]]

Indexes ==
    /\ Len(when) < Len(log)
    /\ LET e == log[Len(when) + 1] IN
       db' = IF e.kind = "registered" THEN HandleRegistered(db, e)
             ELSE IF e.kind = "deactivated" THEN HandleDeactivated(db, e)
             ELSE HandlePaymentSplit(db, e)
    /\ when' = Append(when, now)
    /\ UNCHANGED <<log, query, response, asked, list, saved, now>>

-----------------------------------------------------------------------------
\* The clients.

\* What a query asks for: fetchEnvioModels, which leaves out what is not active;
\* the events of ModelRegistered in the range scanned; the models saved.
Asks(w) == query \in {w, NoWallet}
EnvioModels == {t \in Title : db.model[t].active /\ Asks(db.model[t].creator)}
OnChainModels == {t \in Title : \E w \in RegisteredBy(Len(log), t) : Asks(w)}
LocalModels == {s.title : s \in {r \in saved : Asks(r.by)}}

\* fetchModels, once the indexer's list is there, or is not: without any model in
\* it the chain is scanned, as much of it as is in range and answers.
Lists(titles) ==
    \E found \in IF titles # {} THEN {titles} ELSE SUBSET OnChainModels :
        list' = [titles |-> found \cup LocalModels,
                 at |-> IF titles = {} THEN 0 ELSE now, scanned |-> titles = {}]

\* Mutant of Cached: what is cached stays.
CachedForever == response.until > 0

Cached == response.until > now

\* queryEnvio: the cached answer, or a query, which another may be waiting for.
FetchModels ==
    /\ ~asked.open
    /\ IF Cached
       THEN Lists(response.titles) /\ UNCHANGED asked
       ELSE /\ asked' = [titles |-> EnvioModels, at |-> now, open |-> TRUE]
            /\ UNCHANGED list
    /\ UNCHANGED <<log, when, db, query, response, saved, now>>

Answered ==
    /\ asked.open
    /\ response' = [titles |-> asked.titles, until |-> now + CacheTTL]
    /\ Lists(asked.titles)
    /\ asked' = NotAsked
    /\ UNCHANGED <<log, when, db, query, saved, now>>

\* An error, or the abort after the timeout.
Unanswered ==
    /\ asked.open
    /\ Lists({})
    /\ asked' = NotAsked
    /\ UNCHANGED <<log, when, db, query, response, saved, now>>

CatalogueTick ==
    /\ asked.open => now < asked.at + QueryTimeout
    /\ Tick
    /\ UNCHANGED catalogueVars

CatalogueNext ==
    \/ \E t \in Title :
          \/ \E w \in Wallet : RegisterTitle(t, w) \/ RegisterFails(t, w) \/ PayForChunk(t, w)
          \/ DeactivateTitle(t)
    \/ FetchModels \/ Answered \/ Unanswered
    \/ Indexes \/ CatalogueTick

CatalogueSpec == now = 0 /\ CatalogueInit /\ [][CatalogueNext]_<<catalogueVars, now>>

-----------------------------------------------------------------------------

\* The payments the indexer has processed.
Paid == {i \in DOMAIN when : log[i].kind = "paid"}

\* What the indexer has added up, event by event, is what the events it has
\* processed say: which models are active, how many of each creator, how many
\* payments of each model and each seeder, how many creators and seeders.
IndexerAgrees ==
    LET n == Len(when)
        active(w) == {t \in Title : ActiveBy(n, t) /\ w \in RegisteredBy(n, t)} IN
    /\ \A t \in Title :
          /\ db.model[t].active <=> ActiveBy(n, t)
          /\ db.model[t].paid = Cardinality({i \in Paid : log[i].title = t})
    /\ \A w \in Wallet :
          /\ db.creator[w].active = Cardinality(active(w))
          /\ db.creator[w].chunks =
                Cardinality({i \in Paid : db.model[log[i].title].creator = w})
          /\ db.seeder[w] = Cardinality({i \in Paid : log[i].by = w})
    /\ db.network.active = Cardinality({t \in Title : ActiveBy(n, t)})
    /\ db.network.payments = Cardinality(Paid)
    /\ db.network.seeders = Cardinality({w \in Wallet : db.seeder[w] > 0})
    /\ db.network.creators = Cardinality({w \in Wallet : db.creator[w].all > 0})

\* What a page lists was registered, or saved by this browser; on the dashboard,
\* by the account.
ListedExists == list.titles \subseteq OnChainModels \cup LocalModels

\* A list the indexer answered is behind it by no more than the answer's travel
\* and its stay in the cache: a model it knew to be deactivated that long is not
\* listed, unless this browser saved it; one it knew to be active that long is
\* listed, unless it has been deactivated since.
ListIsRecent ==
    \A i \in DOMAIN when :
        list.at > when[i] + QueryTimeout + CacheTTL /\ ~list.scanned =>
            LET t == log[i].title IN
            /\ log[i].kind = "deactivated" => t \notin list.titles \ LocalModels
            /\ log[i].kind = "registered" /\ Asks(log[i].by) =>
                  t \in list.titles \/ DeactivatedBy(Len(when), t)

\* From the event on chain to the list on the page (EventHandlers.ts,
\* envio-client.ts, api-client.ts): counted once, listed, and listed in time.
CatalogueCorrect == IndexerAgrees /\ ListedExists /\ ListIsRecent
=============================================================================
