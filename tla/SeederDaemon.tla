----------------------------- MODULE SeederDaemon -----------------------------
(***************************************************************************)
(* The command-line seeder: src/signaling/cmd/seeder and, of               *)
(* src/signaling/internal/seeder, the engine, its chunk store, its catalog *)
(* and its signaling client.  PaidDownload has its HTTP server.            *)
(*                                                                         *)
(* Every command is a process of its own that reads the configuration and  *)
(* the whole catalog when it starts and writes the whole catalog back; the *)
(* daemon is one that keeps running.  Only the file system is shared, each *)
(* process locks for itself.  "list", "status" and "config" change nothing *)
(* and are left out, and so are downloads: "add --download" makes none, a  *)
(* chunk gets to the disk by a program that calls PutChunk.  A catalog     *)
(* entry is the model's ID: the rest of it is read from the disk again.    *)
(***************************************************************************)
EXTENDS Common, FiniteSets

CONSTANTS Process, Writer,   \* processes of commands, and of callers of PutChunk
          ModelID, Index,    \* chunks are of size 1
          MaxStorage,        \* Limits.MaxStorageBytes, in chunks
          NotListed,
          MaxCommands        \* bound: processes started

VARIABLES
    config,     \* what the configuration file has
    catalog,    \* catalog.json
    disk,       \* the .bin files: model and index
    cli,        \* the process of each command
    writer,     \* what each writer has checked and not yet written
    daemon,     \* the daemon's process
    listing,    \* what the hub lists for the daemon's socket
    started,    \* processes started
    expected,   \* history: the catalog if each command had been alone
    overlapped, \* history: commands ran at once, or one could not read
    touched,    \* history: models changed since the daemon read the catalog
    doctor      \* history: the last report, while the file is unchanged

daemonVars == <<config, catalog, disk, cli, writer, daemon, listing, started,
                expected, overlapped, touched, doctor>>

-----------------------------------------------------------------------------

Off == [step |-> "off", cmd |-> "none", models |-> {}, arg |-> NotListed]
NoDaemon == [step |-> "off", models |-> {}, conn |-> "none", todo |-> {}]
Unlisted == [m \in ModelID |-> NotListed]
NoReport == [address |-> "none", split |-> "none", registry |-> "none"]

Chunk == ModelID \X Index
HeldChunks(m) == {i \in Index : <<m, i>> \in disk}

ASSUME DaemonAssumption ==
    /\ MaxStorage \in Nat \ {0}
    /\ NotListed \notin ModelID
    /\ IsFiniteSet(Writer)

DaemonInit ==
    /\ config = [address |-> "ok", split |-> "ok", registry |-> "ok"]
    /\ catalog = {}
    /\ disk = {}
    /\ cli = [p \in Process |-> Off]
    /\ writer = [w \in Writer |-> NotListed]
    /\ daemon = NoDaemon
    /\ listing = Unlisted
    /\ started = 0
    /\ expected = {}
    /\ overlapped = FALSE
    /\ touched = {}
    /\ doctor = NoReport

\* SaveConfig renames a finished file into place.
SaveConfig(c) == config' = c /\ doctor' = NoReport

\* "init" writes a complete file, with the address it is given or its own; a
\* hand edits it.
WriteConfig ==
    /\ started = 0 /\ disk = {}    \* bound: no process keeps what it read
    /\ config = [address |-> "ok", split |-> "ok", registry |-> "ok"]
    /\ \E address \in {"ok", "malformed"}, split, registry \in {"ok", ""} :
          SaveConfig([address |-> address, split |-> split, registry |-> registry])
    /\ UNCHANGED <<catalog, disk, cli, writer, daemon, listing, started, expected,
                   overlapped, touched>>

\* Config.Validate.
ValidConfig(c) == c.address = "ok" /\ c.split # "" /\ c.registry # ""

\* "doctor": RunDoctor looks at the directory, the address, the hub, the RPC and
\* the contract's code.  It passes over an empty contract, over a request for
\* the code that fails, and over another chain.
RunDoctor ==
    /\ started = 0 /\ disk = {}    \* bound
    /\ \E reachable \in BOOLEAN, code \in {"found", "none", "failed"} :
          LET passed == /\ config.address = "ok" /\ reachable
                        /\ config.split = "" \/ code # "none" IN
          doctor' = IF passed THEN config ELSE NoReport
    /\ UNCHANGED <<config, catalog, disk, cli, writer, daemon, listing, started,
                   expected, overlapped, touched>>

-----------------------------------------------------------------------------
(* "add" and "remove".                                                     *)

\* NewEngine refuses an invalid configuration and ignores an error of
\* loadCatalog: the catalog then looks empty.
NewEngine(p, cmd, m) ==
    /\ cli[p] = Off
    /\ started < MaxCommands /\ started' = started + 1
    /\ ValidConfig(config)
    /\ \E read \in BOOLEAN :
          /\ cli' = [cli EXCEPT ![p] = [step |-> "loaded", cmd |-> cmd, arg |-> m,
                                        models |-> IF read THEN catalog ELSE {}]]
          /\ overlapped' = (overlapped \/ ~read \/ \E q \in Process : cli[q] # Off)
    /\ UNCHANGED <<config, catalog, disk, writer, daemon, listing, expected, touched, doctor>>

\* Mutant of Save: the process's catalog is merged into the file's.
SaveMerged(models) ==
    /\ catalog' = catalog \cup models
    /\ touched' = touched \cup (models \ catalog)

\* saveCatalogLocked: the process's whole catalog, in a file renamed into place.
\* That it failed is ignored.
Save(models) ==
    /\ catalog' = models
    /\ touched' = touched \cup (models \ catalog) \cup (catalog \ models)

\* The gateways are asked in turn until an answer validates, or none does.
FetchManifest == BOOLEAN

\* AddModel; its process is not connected, so the announcement fails.  Without a
\* manifest the command fails, and without the save nothing says so.
AddModel(p) ==
    /\ cli[p].step = "loaded" /\ cli[p].cmd = "add"
    /\ \/ /\ TRUE \in FetchManifest
          /\ Save(cli[p].models \cup {cli[p].arg}) /\ expected' = expected \cup {cli[p].arg}
       \/ UNCHANGED <<catalog, touched, expected>>
    /\ cli' = [cli EXCEPT ![p] = Off]
    /\ UNCHANGED <<config, disk, writer, daemon, listing, started, overlapped, doctor>>

Remaining(p) == cli[p].models \ {cli[p].arg}

\* RemoveModel; "--purge" deletes the files next.
RemoveModel(p, purge) ==
    /\ cli[p].step = "loaded" /\ cli[p].cmd = "remove"
    /\ \/ Save(Remaining(p)) /\ expected' = expected \ {cli[p].arg}
       \/ UNCHANGED <<catalog, touched, expected>>
    /\ cli' = [cli EXCEPT ![p] = IF purge THEN [@ EXCEPT !.step = "purging"] ELSE Off]
    /\ UNCHANGED <<config, disk, writer, daemon, listing, started, overlapped, doctor>>

\* Store.DeleteModel.
DeleteModel(p) ==
    /\ cli[p].step = "purging"
    /\ disk' = {c \in disk : c[1] # cli[p].arg}
    /\ touched' = touched \cup {cli[p].arg}
    /\ cli' = [cli EXCEPT ![p] = Off]
    /\ UNCHANGED <<config, catalog, writer, daemon, listing, started, expected, overlapped, doctor>>

\* The process is killed in the middle.
Kill(p) ==
    /\ cli[p] # Off
    /\ cli' = [cli EXCEPT ![p] = Off]
    /\ UNCHANGED <<config, catalog, disk, writer, daemon, listing, started, expected,
                   overlapped, touched, doctor>>

\* PutChunk checks the hash and the quota, which counts a chunk that is there
\* already, under the lock of its own process ...
CheckQuota(w, c) ==
    /\ writer[w] = NotListed
    /\ Cardinality(disk) + 1 <= MaxStorage
    /\ writer' = [writer EXCEPT ![w] = c]
    /\ UNCHANGED <<config, catalog, disk, cli, daemon, listing, started, expected,
                   overlapped, touched, doctor>>

\* ... and renames the written file into place, or fails to write it.
WriteChunk(w) ==
    /\ writer[w] # NotListed
    /\ \E written \in SUBSET {writer[w]} :
          /\ disk' = disk \cup written
          /\ touched' = touched \cup {c[1] : c \in written}
    /\ writer' = [writer EXCEPT ![w] = NotListed]
    /\ UNCHANGED <<config, catalog, cli, daemon, listing, started, expected, overlapped, doctor>>

-----------------------------------------------------------------------------
(* "run".                                                                  *)

Daemon(changes) ==
    /\ changes
    /\ UNCHANGED <<config, catalog, disk, cli, writer, expected, overlapped, doctor>>

\* SignalingClient.Connect: the socket, registered, with its loops; or none.
Dialled == {"open", "failed"}

\* NewEngine, and Connect: when the dial fails Start says that it will retry,
\* and goes on.
StartDaemon ==
    /\ daemon.step = "off" /\ started < MaxCommands
    /\ ValidConfig(config)
    /\ Daemon(/\ \E read \in BOOLEAN, conn \in Dialled :
                    LET models == IF read THEN catalog ELSE {} IN
                    /\ daemon' = [step |-> "announcing", models |-> models, todo |-> models,
                                  conn |-> conn]
                    /\ touched' = IF read THEN {} ELSE ModelID
              /\ started' = started + 1
              /\ UNCHANGED listing)

\* SignalingClient.Announce: to the hub if the socket is there.
Listing(m) == IF daemon.conn = "open" THEN [listing EXCEPT ![m] = HeldChunks(m)] ELSE listing

\* One round of AnnounceAll's loop: the chunks on the disk.
AnnounceAll(m) ==
    /\ daemon.step = "announcing" /\ m \in daemon.todo
    /\ Daemon(/\ listing' = Listing(m)
              /\ daemon' = [daemon EXCEPT !.todo = @ \ {m}]
              /\ UNCHANGED <<started, touched>>)

Serve ==
    /\ daemon.step = "announcing" /\ daemon.todo = {}
    /\ Daemon(daemon' = [daemon EXCEPT !.step = "running"] /\ UNCHANGED <<listing, started, touched>>)

\* The socket drops: readLoop returns, heartbeatLoop goes on writing to it, and
\* the hub unlists the peer.
Drop ==
    /\ daemon.conn = "open"
    /\ Daemon(/\ daemon' = [daemon EXCEPT !.conn = "dropped"]
              /\ listing' = Unlisted
              /\ UNCHANGED <<started, touched>>)

Close == daemon' = NoDaemon /\ listing' = Unlisted

\* A signal, Engine.Stop and SignalingClient.Close; or a crash.
Stop ==
    /\ daemon.step # "off"
    /\ Daemon(Close /\ UNCHANGED <<started, touched>>)

DaemonNext ==
    \/ WriteConfig \/ RunDoctor
    \/ \E p \in Process :
          \/ \E cmd \in {"add", "remove"}, m \in ModelID : NewEngine(p, cmd, m)
          \/ \E purge \in BOOLEAN : RemoveModel(p, purge)
          \/ AddModel(p) \/ DeleteModel(p) \/ Kill(p)
    \/ \E w \in Writer : (\E c \in Chunk : CheckQuota(w, c)) \/ WriteChunk(w)
    \/ \E m \in ModelID : AnnounceAll(m)
    \/ StartDaemon \/ Serve \/ Drop \/ Stop

DaemonSpec == DaemonInit /\ [][DaemonNext]_daemonVars

-----------------------------------------------------------------------------

\* Commands that do not run at once, and that can read the catalog, leave in it
\* what each of them did, whichever is killed in the middle; of commands that
\* do, the last to save undoes the others (loadCatalog, saveCatalogLocked).
CatalogSerial == ~overlapped => catalog = expected

\* From its start until its socket drops the daemon lists every model of the
\* catalog with the chunks on the disk, as long as no command changes them: it
\* announces once, and reads neither again.  Whoever started without a hub, or
\* lost it, is not listed (AnnounceAll, readLoop).
ListingTrue ==
    /\ daemon.step = "running" /\ daemon.conn = "open" =>
          \A m \in ModelID \ touched :
              listing[m] = IF m \in catalog THEN HeldChunks(m) ELSE NotListed
    /\ daemon.conn # "open" => listing = Unlisted

\* The quota is each process's own: n processes that write at once may be over
\* it by n - 1 chunks, and not by more (PutChunk).
QuotaHeld == Cardinality(disk) <= MaxStorage + Cardinality(Writer) - 1

\* "All diagnostics passed": the daemon then starts with this file, unless one
\* of the contracts is missing, which the doctor does not look for.
DoctorAgrees ==
    doctor # NoReport /\ doctor.split # "" /\ doctor.registry # "" => ValidConfig(config)

\* What the command-line seeder's processes promise together over the files they
\* share (engine.go, store.go, doctor.go).
DaemonCorrect == CatalogSerial /\ ListingTrue /\ QuotaHeld /\ DoctorAgrees
=============================================================================
