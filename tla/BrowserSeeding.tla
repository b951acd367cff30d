---------------------------- MODULE BrowserSeeding ----------------------------
(***************************************************************************)
(* Seeding from a browser tab: the hook useSeeding with its module-level   *)
(* map of seeders (src/frontend/src/hooks/use-p2p.ts), the Seeder          *)
(* (services/seeder.ts) as far as it is started, stopped and announced,    *)
(* and the two pages that use the hook: a model's page, which starts by    *)
(* itself once the model is held, and the upload wizard, whose model       *)
(* changes under the hook.                                                 *)
(*                                                                         *)
(* ChunkExchange has what a seeder and a downloader say to each other.     *)
(* startSeeding waits for the chunk store once, before it announces; calls *)
(* that wait go on when their page is gone.                                *)
(***************************************************************************)
EXTENDS Common, Sequences, FiniteSets

CONSTANTS SeedModel, NoModel,
          MaxSeeders, MaxPages   \* bounds

ASSUME SeedingAssumption == NoModel \notin SeedModel

VARIABLES
    hook,       \* useSeeding of the page shown
    active,     \* globalActiveSeedersByModel: a seeder's number, or 0
    seeders,    \* the Seeders made
    listed,     \* models the hub lists this tab for
    publishing, \* the wizard's startSeeding, kept over the registration
    quit,       \* history: models for which sharing was stopped
    doubled,    \* history: models a second Seeder was made for
    switched       \* history: the hook's model changed while it shared or started

seedingVars == <<hook, active, seeders, listed, publishing, quit, doubled, switched>>

-----------------------------------------------------------------------------

\* A page as it is mounted: the effect takes over a seeder of the map.
Mounted(page, m) ==
    LET s == IF m = NoModel THEN 0 ELSE active[m] IN
    [page |-> page, wizard |-> m = NoModel, model |-> m, ref |-> s, sharing |-> s # 0,
     sent |-> FALSE]

NoPublishing == [model |-> NoModel, page |-> 0, sharing |-> FALSE]

\* The wizard has its buttons to share once the registration was sent.
Controls == hook.wizard => hook.sent

SeedingInit ==
    /\ active = [m \in SeedModel |-> 0]
    /\ hook \in {Mounted(1, m) : m \in SeedModel \cup {NoModel}}
    /\ seeders = <<>>
    /\ listed = {}
    /\ publishing = NoPublishing
    /\ quit = {} /\ doubled = {} /\ switched = FALSE

Starting == {s \in DOMAIN seeders : seeders[s].starting}

\* Another page: the old one's ref is cleared, its seeders live on.
Navigate(m) ==
    /\ hook.page < MaxPages
    /\ hook' = Mounted(hook.page + 1, m)
    /\ UNCHANGED <<active, seeders, listed, publishing, quit, doubled, switched, now>>

\* The wizard hashes a file: its model is one nobody has seeded.  What the hook
\* has of the model before stays.
NextModel(m) ==
    /\ hook.wizard /\ m # hook.model
    /\ \A s \in DOMAIN seeders : seeders[s].model # m
    /\ active[m] = 0
    /\ hook' = [hook EXCEPT !.model = m, !.sent = FALSE]
    /\ switched' = (switched \/ hook.sharing \/ Starting # {} \/ publishing # NoPublishing)
    /\ UNCHANGED <<active, seeders, listed, publishing, quit, doubled, now>>

\* startSeeding, for the model its closure has, on the page h: a seeder of the map
\* is used again, else a new one is made, which waits for the store.
StartSeeding(m, page, h) ==
    /\ m # NoModel
    /\ \/ /\ active[m] # 0
          /\ hook' = IF h.page = page THEN [h EXCEPT !.ref = active[m], !.sharing = TRUE] ELSE h
          /\ UNCHANGED <<seeders, doubled>>
       \/ /\ active[m] = 0
          /\ Len(seeders) < MaxSeeders
          /\ seeders' = Append(seeders, [model |-> m, page |-> page, starting |-> TRUE,
                                         on |-> TRUE, listens |-> FALSE])
          /\ hook' = IF h.page = page THEN [h EXCEPT !.ref = Len(seeders) + 1] ELSE h
          /\ doubled' = IF \E s \in DOMAIN seeders : seeders[s].model = m /\ seeders[s].on
                        THEN doubled \cup {m} ELSE doubled
    /\ UNCHANGED <<active, listed, quit, switched, now>>

\* The button of either page, and the effect of a model's page that holds the
\* model; neither knows of a call that is still waiting.
StartSharing ==
    /\ Controls /\ ~hook.sharing
    /\ StartSeeding(hook.model, hook.page, hook)
    /\ UNCHANGED publishing

\* "Publish model on Monad" keeps the startSeeding of this moment.
Publish ==
    /\ hook.wizard /\ ~hook.sent /\ hook.model # NoModel /\ publishing = NoPublishing
    /\ publishing' = [model |-> hook.model, page |-> hook.page, sharing |-> hook.sharing]
    /\ UNCHANGED <<hook, active, seeders, listed, quit, doubled, switched, now>>

\* The transaction is sent, and the model shared; or it is declined.
Published ==
    /\ publishing # NoPublishing
    /\ publishing' = NoPublishing
    /\ LET shown == IF hook.page = publishing.page THEN [hook EXCEPT !.sent = TRUE] ELSE hook IN
       \/ ~publishing.sharing /\ StartSeeding(publishing.model, publishing.page, shown)
       \/ /\ publishing.sharing /\ hook' = shown
          /\ UNCHANGED <<active, seeders, listed, quit, doubled, switched, now>>
       \/ UNCHANGED <<hook, active, seeders, listed, quit, doubled, switched, now>>

\* The store has answered: the seeder announces and listens, and the hook enters
\* it in the map.
Started(s) ==
    /\ s \in Starting
    /\ seeders' = [seeders EXCEPT ![s].starting = FALSE, ![s].listens = TRUE]
    /\ listed' = listed \cup {seeders[s].model}
    /\ active' = [active EXCEPT ![seeders[s].model] = s]
    /\ hook' = IF hook.page = seeders[s].page THEN [hook EXCEPT !.sharing = TRUE] ELSE hook
    /\ UNCHANGED <<publishing, quit, doubled, switched, now>>

\* Mutant of Forget: the map keeps the seeder.
ForgetNot(m) == active

Forget(m) == IF m = NoModel THEN active ELSE [active EXCEPT ![m] = 0]

\* stopSeeding: Seeder.stopSeeding of the ref, the map's entry of the model; the
\* hub is not told.
StopSeeding ==
    /\ Controls /\ hook.sharing
    /\ seeders' = IF hook.ref = 0 THEN seeders
                  ELSE [seeders EXCEPT ![hook.ref].on = FALSE, ![hook.ref].listens = FALSE]
    /\ quit' = IF hook.ref = 0 THEN quit ELSE quit \cup {seeders[hook.ref].model}
    /\ active' = Forget(hook.model)
    /\ hook' = [hook EXCEPT !.ref = 0, !.sharing = FALSE]
    /\ UNCHANGED <<listed, publishing, doubled, switched, now>>

\* The hub has registered the tab anew, without its entries: the seeders of the
\* map announce, and those that listen.
OnHubRegistered ==
    /\ listed' = {m \in SeedModel : active[m] # 0}
                 \cup {seeders[s].model : s \in {t \in DOMAIN seeders :
                                                    seeders[t].on /\ seeders[t].listens}}
    /\ UNCHANGED <<hook, active, seeders, publishing, quit, doubled, switched, now>>

SeedingNext ==
    \/ \E m \in SeedModel \cup {NoModel} : Navigate(m)
    \/ \E m \in SeedModel : NextModel(m)
    \/ \E s \in 1..MaxSeeders : Started(s)
    \/ StartSharing \/ Publish \/ Published \/ StopSeeding \/ OnHubRegistered

SeedingSpec == SeedingInit /\ [][SeedingNext]_seedingVars

-----------------------------------------------------------------------------

Serving(m) == {s \in DOMAIN seeders : seeders[s].model = m /\ seeders[s].on /\ seeders[s].listens}

\* The map has a model's own seeder.  Unless a model was started twice or changed
\* under the hook: that seeder is the only one of the model that is on, and it
\* listens, whatever pages were left meanwhile; the page shows "sharing" only for
\* a model of the map, and its Stop button reaches that seeder.
MapTrue ==
    \A m \in SeedModel :
        /\ active[m] # 0 => seeders[active[m]].model = m
        /\ ~switched /\ m \notin doubled /\ active[m] # 0 =>
              {s \in DOMAIN seeders : seeders[s].model = m /\ seeders[s].on} = {active[m]}
                  /\ Serving(m) = {active[m]}
        /\ ~switched /\ m \notin doubled /\ hook.model = m /\ hook.sharing =>
              active[m] # 0 /\ hook.ref = active[m]

\* What the hub lists this tab for has a seeder that answers offers, until the
\* user stops sharing: the listing is left to the next registration.  And what
\* the map has stays listed, over every registration.
ListedIsServed ==
    /\ \A m \in listed \ quit : Serving(m) # {}
    /\ \A m \in SeedModel : active[m] # 0 => m \in listed

\* "Auto-start seeding from this browser so the model is immediately
\* downloadable" (Upload.tsx): of a model that was published the tab has a seeder,
\* or one is starting, until the user stops it.  Not so for the second model of a
\* wizard that still shares the first: startSeeding then returns at once.
PublishedIsShared ==
    hook.sent /\ ~switched =>
        \/ active[hook.model] # 0
        \/ \E s \in Starting : seeders[s].model = hook.model
        \/ hook.model \in quit

\* What a tab that seeds can rely on over navigation, publishing and stopping
\* (useSeeding, Seeder): the map, what is listed, and what was published.
SeedingCorrect == MapTrue /\ ListedIsServed /\ PublishedIsShared
=============================================================================
