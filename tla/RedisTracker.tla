---------------------------- MODULE RedisTracker ----------------------------
(***************************************************************************)
(* The tracker the hub replicas share through Redis:                       *)
(* src/signaling/internal/tracker/redis_tracker.go.                        *)
(*                                                                         *)
(* An operation is a list of Redis commands.  A pipeline saves round trips *)
(* but is no transaction: commands of another connection come in between,  *)
(* and a dropped connection or the context's deadline cuts the list short. *)
(* A heartbeat, a removal and a query read first and build the rest of     *)
(* their list from the answer.  Each key has its own expiry.               *)
(*                                                                         *)
(* One peer ID is followed: its keys, and its member of the models' sets,  *)
(* are disjoint from those of other peers.  Conn are the connections it    *)
(* has had, on whichever replica, each with a wallet of its own; a query   *)
(* comes from somebody else, Asker.  Of a chunk list only whether there is *)
(* one is kept.                                                            *)
(***************************************************************************)
EXTENDS Common, Integers, Sequences, FiniteSets, FiniteSetsExt

CONSTANTS Conn, Asker,
          PresenceTTL,  \* in ticks
          MaxOps        \* bound: operations started

VARIABLES
    meta,      \* presence:peer: the connection that wrote it, its expiry
    score,     \* presence:model:*:seeders: the peer's score in each set
    models,    \* presence:peer_models: the set, its expiry
    chunks,    \* presence:chunks of each model: its expiry
    op,        \* what the handler of each connection is at
    gone,      \* connections whose ReadPump has ended
    answer,    \* the last entry for the peer in an answer to Asker
    ops,       \* operations started
    spoke,     \* history: when the peer's last message came in
    wrote,     \* history: connections that announced
    shown,     \* history: when each model was last announced or refreshed
    disturbed  \* history: operations overlapped, one was cut short, or a
               \* second went by (and a key may have expired) during one

redis == <<meta, score, models, chunks>>
trackerVars == <<redis, op, gone, answer, ops, spoke, wrote, shown, disturbed>>

-----------------------------------------------------------------------------

Never == -1        \* not a member, not a time
Gone == 0          \* the expiry of a key that does not exist
Persistent == MaxTime + PresenceTTL + 1    \* that of a key without a TTL
Fresh == now + PresenceTTL
Live(expires) == expires > now

Cmd(name, m) == [name |-> name, model |-> m]
Quiet == [name |-> "none", model |-> NoWallet, held |-> FALSE, at |-> 0, todo |-> <<>>]
NoAnswer == [wallet |-> NoWallet, chunks |-> FALSE]
Idle(c) == op[c].name = "none"

ASSUME TrackerAssumption ==
    /\ NoWallet \notin Conn
    /\ Asker \notin Conn
    /\ PresenceTTL \in Nat \ {0}

TrackerInit ==
    /\ meta = [by |-> NoWallet, expires |-> Gone]
    /\ score = [m \in Model |-> Never]
    /\ models = [set |-> {}, expires |-> Gone]
    /\ chunks = [m \in Model |-> Gone]
    /\ op = [c \in Conn \cup {Asker} |-> Quiet]
    /\ gone = {}
    /\ answer = NoAnswer
    /\ ops = 0
    /\ spoke = Never
    /\ wrote = {}
    /\ shown = [m \in Model |-> [at |-> Never, held |-> FALSE]]
    /\ disturbed = FALSE

PeerModels == IF Live(models.expires) THEN models.set ELSE {}

\* In the part of a model's set that ZRANGEBYSCORE reads at time t.
Listed(m, t) == score[m] # Never /\ score[m] >= t - PresenceTTL

\* Stats: models whose set exists, and whether the peer counts as a seeder.
Stats == [models |-> Cardinality({m \in Model : score[m] # Never}),
          seeder |-> \E m \in Model : Listed(m, now)]

-----------------------------------------------------------------------------
(* The operations and their command lists.                                 *)

\* PUT chunks is DEL, SADD and EXPIRE of one key, of which nothing is read in
\* between but by a query.
AnnounceCmds(m, held) ==
    <<Cmd("SET_meta", m), Cmd("ZADD", m), Cmd("SADD_models", m), Cmd("EXPIRE_models", m),
      Cmd(IF held THEN "PUT_chunks" ELSE "DEL_chunks", m)>>

\* One pair of commands after the other for the models a read found.
ForEach(S, cmds, first) == FoldSet(LAMBDA m, list : list \o cmds[m], first, S)

HeartbeatCmds(S) ==
    ForEach(S, [m \in Model |-> <<Cmd("ZADD", m), Cmd("EXPIRE_chunks", m)>>],
            <<Cmd("EXPIRE_meta", NoWallet), Cmd("EXPIRE_models", NoWallet)>>)

\* Mutant of RemoveCmds: the scores are left to expire.
RemoveCmdsKeepScores(S) ==
    ForEach(S, [m \in Model |-> <<Cmd("DEL_chunks", m)>>],
            <<Cmd("DEL_meta", NoWallet), Cmd("DEL_models", NoWallet)>>)

RemoveCmds(S) ==
    ForEach(S, [m \in Model |-> <<Cmd("ZREM", m), Cmd("DEL_chunks", m)>>],
            <<Cmd("DEL_meta", NoWallet), Cmd("DEL_models", NoWallet)>>)

\* A message of the peer arrives, or its query, at connection c.
Start(c, name, m, held, list) ==
    /\ Idle(c)
    /\ ops < MaxOps
    /\ ops' = ops + 1
    /\ op' = [op EXCEPT ![c] = [name |-> name, model |-> m, held |-> held,
                                at |-> now, todo |-> list]]
    /\ disturbed' = (disturbed \/ (c # Asker /\ \E d \in Conn : ~Idle(d)))

Announce(c, m, held) ==
    /\ c \notin gone
    /\ Start(c, "announce", m, held, AnnounceCmds(m, held))
    /\ spoke' = now
    /\ wrote' = wrote \cup {c}
    /\ UNCHANGED <<redis, gone, answer, shown, now>>

Heartbeat(c) ==
    /\ c \notin gone
    /\ Start(c, "heartbeat", NoWallet, FALSE, <<Cmd("SMEMBERS_models", NoWallet)>>)
    /\ spoke' = now
    /\ UNCHANGED <<redis, gone, answer, wrote, shown, now>>

\* The connection's ReadPump ends and calls UnregisterPeer.
RemovePeer(c) ==
    /\ c \notin gone
    /\ Start(c, "remove", NoWallet, FALSE, <<Cmd("SMEMBERS_models", NoWallet)>>)
    /\ gone' = gone \cup {c}
    /\ UNCHANGED <<redis, answer, spoke, wrote, shown, now>>

Query(m) ==
    /\ Start(Asker, "query", m, FALSE, <<Cmd("ZRANGEBYSCORE", m)>>)
    /\ UNCHANGED <<redis, gone, answer, spoke, wrote, shown, now>>

-----------------------------------------------------------------------------
(* The commands.                                                           *)

\* What the in-memory tracker would hold once the operation of c is through.
Completed(c) ==
    CASE op[c].name = "announce" ->
            [shown EXCEPT ![op[c].model] = [at |-> op[c].at, held |-> op[c].held]]
      [] op[c].name = "heartbeat" ->
            [m \in Model |-> IF shown[m].at # Never /\ Live(shown[m].at + PresenceTTL)
                             THEN [shown[m] EXCEPT !.at = op[c].at] ELSE shown[m]]
      [] op[c].name = "remove" -> [m \in Model |-> [at |-> Never, held |-> FALSE]]
      [] OTHER -> shown

\* The rest of the operation of c; the handler returns after the last command.
Continue(c, list) ==
    /\ op' = [op EXCEPT ![c] = IF list = <<>> THEN Quiet ELSE [@ EXCEPT !.todo = list]]
    /\ shown' = IF list = <<>> THEN Completed(c) ELSE shown

\* Commands that read; on the answer depends the rest of the list.
Read(c, cmd, rest) ==
    /\ \/ /\ cmd.name = "SMEMBERS_models"
          /\ Continue(c, IF op[c].name = "heartbeat" THEN HeartbeatCmds(PeerModels)
                                                     ELSE RemoveCmds(PeerModels))
          /\ UNCHANGED answer
       \/ /\ cmd.name = "ZRANGEBYSCORE"
          /\ Continue(c, IF Listed(cmd.model, op[c].at)
                         THEN <<Cmd("GET_meta", cmd.model), Cmd("SMEMBERS_chunks", cmd.model)>>
                         ELSE <<>>)
          /\ answer' = NoAnswer
       \/ /\ cmd.name = "GET_meta"
          /\ answer' = [wallet |-> IF Live(meta.expires) THEN meta.by ELSE NoWallet,
                        chunks |-> FALSE]
          /\ Continue(c, rest)
       \/ /\ cmd.name = "SMEMBERS_chunks"
          /\ answer' = [answer EXCEPT !.chunks = Live(chunks[cmd.model])]
          /\ Continue(c, rest)
    /\ UNCHANGED redis

\* EXPIRE leaves a missing key missing.
Renew(expires) == IF Live(expires) THEN Fresh ELSE Gone

WriteSets(c, cmd) ==
    /\ \/ /\ cmd.name \in {"ZADD", "ZREM"}
          /\ score' = [score EXCEPT ![cmd.model] = IF cmd.name = "ZADD" THEN op[c].at ELSE Never]
          /\ UNCHANGED models
       \/ /\ cmd.name = "SADD_models"
          /\ models' = [set |-> PeerModels \cup {cmd.model},
                        expires |-> IF Live(models.expires) THEN models.expires
                                                            ELSE Persistent]
          /\ UNCHANGED score
       \/ /\ cmd.name = "EXPIRE_models"
          /\ models' = [models EXCEPT !.expires = Renew(@)]
          /\ UNCHANGED score
       \/ /\ cmd.name = "DEL_models"
          /\ models' = [set |-> {}, expires |-> Gone]
          /\ UNCHANGED score
    /\ UNCHANGED <<meta, chunks>>

WriteKeys(c, cmd) ==
    /\ \/ /\ \/ cmd.name = "SET_meta" /\ meta' = [by |-> c, expires |-> Fresh]
             \/ cmd.name = "EXPIRE_meta" /\ meta' = [meta EXCEPT !.expires = Renew(@)]
             \/ cmd.name = "DEL_meta" /\ meta' = [by |-> NoWallet, expires |-> Gone]
          /\ UNCHANGED chunks
       \/ /\ cmd.name \in {"PUT_chunks", "EXPIRE_chunks", "DEL_chunks"}
          /\ chunks' = [chunks EXCEPT ![cmd.model] =
                CASE cmd.name = "PUT_chunks" -> Fresh
                  [] cmd.name = "EXPIRE_chunks" -> Renew(@)
                  [] OTHER -> Gone]
          /\ UNCHANGED meta
    /\ UNCHANGED <<score, models>>

\* Redis executes the next command of c.
Exec(c) ==
    /\ ~Idle(c)
    /\ LET cmd == Head(op[c].todo)
           rest == Tail(op[c].todo) IN
          \/ Read(c, cmd, rest)
          \/ (WriteSets(c, cmd) \/ WriteKeys(c, cmd)) /\ Continue(c, rest) /\ UNCHANGED answer
    /\ UNCHANGED <<gone, ops, spoke, wrote, disturbed, now>>

\* The Redis connection or the 3 s of the context end in the middle; of a removal
\* maybe the read alone, whose error is ignored.
CutShort(c) ==
    /\ ~Idle(c)
    /\ \/ op' = [op EXCEPT ![c] = Quiet]
       \/ /\ op[c].name = "remove" /\ Head(op[c].todo).name = "SMEMBERS_models"
          /\ op' = [op EXCEPT ![c].todo = RemoveCmds({})]
    /\ disturbed' = (disturbed \/ c # Asker)
    /\ UNCHANGED <<redis, gone, answer, ops, spoke, wrote, shown, now>>

TrackerTick ==
    /\ Tick
    /\ disturbed' = (disturbed \/ \E c \in Conn : ~Idle(c))
    /\ UNCHANGED <<redis, op, gone, answer, ops, spoke, wrote, shown>>

TrackerNext ==
    \/ \E c \in Conn, m \in Model, held \in BOOLEAN : Announce(c, m, held)
    \/ \E c \in Conn : Heartbeat(c) \/ RemovePeer(c)
    \/ \E m \in Model : Query(m)
    \/ \E c \in Conn \cup {Asker} : Exec(c) \/ CutShort(c)
    \/ TrackerTick

TrackerSpec == now = 0 /\ TrackerInit /\ [][TrackerNext]_<<trackerVars, now>>

-----------------------------------------------------------------------------

\* Whatever the interleaving of the pipelines, a late removal, or a cut: no
\* model lists, and /health does not count, a peer that has been silent for
\* longer than the 60 s of PresenceTTL (QueryContext, StatsContext).
SilentIsUnlisted ==
    /\ \A m \in Model : score[m] <= spoke
    /\ Stats.seeder => spoke # Never /\ now <= spoke + PresenceTTL

\* As long as operations on the peer have neither overlapped nor failed nor
\* taken longer than the clock's tick, Redis agrees with the in-memory tracker:
\* a model announced, or kept alive by heartbeats, within the TTL is listed,
\* with the wallet and with the chunks announced, and is in the set the next
\* heartbeat and removal read; after a removal nothing is listed (in the TTL's
\* last second the set a removal reads may be gone before the score is).
UndisturbedAgrees ==
    ~disturbed /\ (\A c \in Conn : Idle(c)) =>
        \A m \in Model :
            /\ shown[m].at # Never /\ Live(shown[m].at + PresenceTTL) =>
                  /\ Listed(m, now)
                  /\ Live(meta.expires) /\ meta.by \in wrote
                  /\ shown[m].held => Live(chunks[m])
                  /\ m \in PeerModels
            /\ shown[m].at = Never => ~Listed(m, now + 1)

\* An answer shows a wallet only if that wallet announced under the peer ID.
AnswerHasAnnouncer == answer.wallet \in wrote \cup {NoWallet}

\* What the tracker in Redis keeps of the promises of the one in memory, though
\* its pipelines interleave and its keys expire apart (redis_tracker.go).
TrackerCorrect == SilentIsUnlisted /\ UndisturbedAgrees /\ AnswerHasAnnouncer
=============================================================================
