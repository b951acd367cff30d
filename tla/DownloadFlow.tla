---------------------------- MODULE DownloadFlow ----------------------------
(***************************************************************************)
(* Downloads as a model's page runs them: the hook useDownload             *)
(* (src/frontend/src/hooks/use-p2p.ts), the page's states and buttons      *)
(* (use-download-state-machine.ts, DownloadSection.tsx), the funding modal *)
(* (CrossChainFundingModal.tsx), and of a Downloader                       *)
(* (services/downloader.ts) the order of its steps; ChunkExchange has what *)
(* it says to the seeders.                                                 *)
(*                                                                         *)
(* A run of start() outlives what it was started from: it looks at         *)
(* isCancelled only between chunks, its callbacks keep writing to the page *)
(* it came from, leaving the page only closes its connections, and a       *)
(* prompt in the wallet stays open after the attempt that opened it.       *)
(*                                                                         *)
(* The page's count of held chunks may be old: the download button, which  *)
(* it hides, is there in any case.  The labels of a download that goes on  *)
(* are one, "running".                                                     *)
(***************************************************************************)
EXTENDS Common, Sequences, FiniteSets

CONSTANTS NumPieces, OtherChain,
          MaxRuns, MaxVisits   \* bounds: runs, visits of the page

ASSUME FlowAssumption == NumPieces \in Nat

VARIABLES
    page,       \* the page shown: the state of its hooks
    runs,       \* the Downloaders
    prompt,     \* a payment of this visit is still open whose attempt has given up
    modal,      \* the render of the page whose modal executes an intent
    signer,     \* the wallet: its account, none, or one on another chain
    storage,    \* IndexedDB: chunks by wallet
    settled,    \* history: chunks paid for, of which nothing was lost since
    again,      \* history: chunks paid for a second time while settled
    cleared,    \* history: the storage was cleared
    haunted     \* history: a run started beside one nobody could stop, or from
                \* a page already left

flowVars == <<page, runs, prompt, modal, signer, storage, settled, again, cleared, haunted>>

-----------------------------------------------------------------------------

Piece == 0..(NumPieces - 1)
NoModal == [visit |-> 0, downloading |-> FALSE, signer |-> NoWallet]

Readable == {s[2] : s \in storage}

\* getHeldChunks: the wallet's own chunks; of a wallet that has none, anybody's.
HeldBy(w) ==
    LET own == {c \in Piece : <<w, c>> \in storage} IN
    IF own # {} THEN own ELSE Readable

Visit(n) == [visit |-> n, downloading |-> FALSE, status |-> "idle", error |-> "none",
             ref |-> 0]

FlowInit ==
    /\ page = Visit(1)
    /\ runs = <<>>
    /\ prompt = FALSE
    /\ modal = NoModal
    /\ signer = NoWallet
    /\ storage = {}
    /\ settled = {} /\ again = {} /\ cleared = FALSE /\ haunted = FALSE

Alive == {r \in DOMAIN runs : runs[r].phase # "over"}

\* A setState of a hook reaches its page while that is mounted.
Shows(visit, p) == page' = IF page.visit = visit THEN p ELSE page

-----------------------------------------------------------------------------

NewRun(visit, w) == [visit |-> visit, wallet |-> w, phase |-> "held", held |-> {},
                     cancelled |-> FALSE, cut |-> FALSE]

\* What a setState makes of the page.
With(status, going) == [page EXCEPT !.status = status, !.error = "none", !.downloading = going]
Failed(kind) == [With("error", FALSE) EXCEPT !.error = kind]

\* startDownload, with the values of the render c it was made in.
StartDownload(c) ==
    \/ c.downloading /\ UNCHANGED <<page, runs, haunted>>
    \/ /\ ~c.downloading /\ c.signer \in Wallet
       /\ Len(runs) < MaxRuns
       /\ runs' = Append(runs, NewRun(c.visit, c.signer))
       /\ Shows(c.visit, [With("idle", TRUE) EXCEPT !.ref = Len(runs) + 1])
       /\ haunted' = \/ haunted
                     \/ c.visit # page.visit
                     \/ \E r \in Alive : \/ runs[r].cancelled \/ runs[r].cut
                                         \/ runs[r].visit # page.visit
    \/ /\ ~c.downloading    \* no wallet, another chain, or no signer to be had
       /\ Shows(c.visit, Failed(IF c.signer = OtherChain THEN "chain" ELSE "other"))
       /\ UNCHANGED <<runs, haunted>>

Render == [visit |-> page.visit, downloading |-> page.downloading, signer |-> signer]

Covered == modal.visit = page.visit   \* by the modal, which stays while it executes

BeforeDownload == ~Covered /\ ~page.downloading /\ page.status # "complete"

\* handlePrimaryAction, where it starts a download: the button before a download
\* and the one below an error.  An error that speaks of the chain only ever
\* switches it; one of the storage deletes all that is stored, before the new run
\* can read it.
PrimaryAction ==
    /\ BeforeDownload \/ (~Covered /\ page.status = "error")
    /\ signer \in Wallet
    /\ page.status = "error" => page.error # "chain"
    /\ IF page.status = "error" /\ page.error = "storage"
       THEN storage' = {} /\ cleared' = TRUE /\ settled' = {}
       ELSE UNCHANGED <<storage, cleared, settled>>
    /\ StartDownload(Render)
    /\ UNCHANGED <<prompt, modal, signer, again, now>>

\* "Pay from Base, Arbitrum, or Solana", and the modal's button.
\* Only while there is a run left for it, else it would cover the page for ever.
HandleExecute ==
    /\ BeforeDownload /\ modal = NoModal
    /\ Len(runs) < MaxRuns
    /\ modal' = Render
    /\ UNCHANGED <<page, runs, prompt, signer, storage, settled, again, cleared, haunted, now>>

\* executeAuroraIntent has slept and onSuccess is called, on a page that may be gone.
OnSuccess ==
    /\ modal # NoModal
    /\ StartDownload(modal)
    /\ modal' = NoModal
    /\ UNCHANGED <<prompt, signer, storage, settled, again, cleared, now>>

Cleanup(r, cancels) ==
    IF r \notin Alive THEN runs
    ELSE [runs EXCEPT ![r].cut = TRUE, ![r].cancelled = @ \/ cancels]

CancelDownload ==
    /\ ~Covered /\ page.downloading
    /\ runs' = Cleanup(page.ref, TRUE)
    /\ page' = IF page.ref = 0 THEN [page EXCEPT !.downloading = FALSE]
               ELSE [With("idle", FALSE) EXCEPT !.ref = 0]
    /\ UNCHANGED <<prompt, modal, signer, storage, settled, again, cleared, haunted, now>>

\* Another page and back: the connections are closed, the run is not cancelled.
LeavePage ==
    /\ page.visit < MaxVisits
    /\ page' = Visit(page.visit + 1)
    /\ prompt' = FALSE
    /\ runs' = Cleanup(page.ref, FALSE)
    /\ UNCHANGED <<modal, signer, storage, settled, again, cleared, haunted, now>>

\* Connecting, switching the account or the chain.
ChangeWallet(w) ==
    /\ w # signer
    /\ signer' = w
    /\ UNCHANGED <<page, runs, prompt, modal, storage, settled, again, cleared, haunted, now>>

-----------------------------------------------------------------------------
\* The steps of a run.

Goes(r, phase) ==
    /\ runs' = [runs EXCEPT ![r].phase = phase]
    /\ Shows(runs[r].visit, With("running", page.downloading))

Ends(r, p) ==
    /\ runs' = [runs EXCEPT ![r] = [NewRun(@.visit, @.wallet) EXCEPT !.phase = "over"]]
    /\ Shows(runs[r].visit, p)

Fails(r, kind) == Ends(r, Failed(kind))
Stops(r) == Ends(r, With("idle", FALSE))

WantedPiece(r) == CHOOSE c \in Piece \ runs[r].held : \A d \in Piece \ runs[r].held : c <= d

\* The loop over the chunks comes to its next round, or to its end; of a missing
\* chunk there may be no seeder.
Loop(r, held) ==
    IF runs[r].cancelled THEN Stops(r)
    ELSE IF held = Piece THEN Goes(r, "reassemble")
    ELSE \/ /\ runs' = [runs EXCEPT ![r].phase = "request", ![r].held = held]
            /\ Shows(runs[r].visit, With("running", page.downloading))
         \/ Fails(r, "other")

\* Mutant of HeldSet: nothing is held.
HeldSetEmpty(r) == {}

HeldSet(r) == HeldBy(runs[r].wallet)

\* What the storage holds for this wallet need not be paid for; what it hides is.
GotHeld(r) ==
    /\ runs[r].phase = "held"
    /\ LET held == HeldSet(r) IN
       \/ held = Piece /\ Goes(r, "reassemble") /\ UNCHANGED settled
       \/ /\ held # Piece
          /\ runs' = [runs EXCEPT ![r].phase = "discover", ![r].held = held]
          /\ Shows(runs[r].visit, With("running", page.downloading))
          /\ settled' = settled \ (Readable \ HeldBy(runs[r].wallet))
       \/ \E kind \in {"other", "storage"} : Fails(r, kind) /\ UNCHANGED settled
    /\ UNCHANGED <<prompt, modal, signer, storage, again, cleared, haunted, now>>

\* querySeeders found some, or nobody for now, or nobody to the end.
Discovers(r) ==
    /\ runs[r].phase = "discover"
    /\ Loop(r, runs[r].held) \/ Goes(r, "discover") \/ Fails(r, "other")
    /\ UNCHANGED <<prompt, modal, signer, storage, settled, again, cleared, haunted, now>>

\* The seeder answers payment-required and the wallet prompt.
PaymentRequired(r) ==
    /\ runs[r].phase = "request" /\ ~runs[r].cut
    /\ Goes(r, "paying")
    /\ UNCHANGED <<prompt, modal, signer, storage, settled, again, cleared, haunted, now>>

Pays(r) ==
    /\ runs[r].phase = "paying"
    /\ settled' = settled \cup {WantedPiece(r)}
    /\ again' = IF haunted THEN again ELSE again \cup (settled \cap {WantedPiece(r)})
    /\ Goes(r, "paid")
    /\ UNCHANGED <<prompt, modal, signer, storage, cleared, haunted, now>>

\* A payment whose attempt has given up, its run over or not: confirmed, or declined.
PromptAnswered ==
    /\ prompt
    /\ prompt' \in BOOLEAN    \* there may be more
    /\ page' \in {page, With("running", page.downloading)}
    /\ UNCHANGED <<runs, modal, signer, storage, settled, again, cleared, haunted, now>>

\* The data has come and its hash is right.
PieceVerified(r) ==
    /\ runs[r].phase = "paid" /\ ~runs[r].cut
    /\ Goes(r, "store")
    /\ UNCHANGED <<prompt, modal, signer, storage, settled, again, cleared, haunted, now>>

StoredPiece(r) ==
    /\ runs[r].phase = "store"
    /\ storage' = storage \cup {<<runs[r].wallet, WantedPiece(r)>>}
    /\ Loop(r, runs[r].held \cup {WantedPiece(r)})
    /\ UNCHANGED <<prompt, modal, signer, settled, again, cleared, haunted, now>>

\* An attempt is refused, declined, times out or cannot be stored, and what was
\* paid for it is lost: the next candidate, if there is one and the run goes on.
AttemptFails(r) ==
    /\ runs[r].phase \in {"request", "paying", "paid", "store"}
    /\ prompt' \in {prompt, prompt \/ (runs[r].phase = "paying" /\ runs[r].visit = page.visit)}
    /\ settled' = IF runs[r].phase = "request" THEN settled ELSE settled \ {WantedPiece(r)}
    /\ IF runs[r].cancelled THEN Stops(r)
       ELSE \/ runs' = [runs EXCEPT ![r].phase = "request"] /\ UNCHANGED page
            \/ \E kind \in {"other", "storage", "chain"} : Fails(r, kind)
    /\ UNCHANGED <<modal, signer, storage, again, cleared, haunted, now>>

\* reassemble, with whatever getAllChunks can read.
Reassembled(r) ==
    /\ runs[r].phase = "reassemble"
    /\ IF Readable = Piece
       THEN Ends(r, With("complete", FALSE))
       ELSE Fails(r, "missing")
    /\ UNCHANGED <<prompt, modal, signer, storage, settled, again, cleared, haunted, now>>

FlowNext ==
    \/ PrimaryAction \/ HandleExecute \/ OnSuccess \/ CancelDownload \/ LeavePage
    \/ PromptAnswered
    \/ \E w \in Wallet \cup {NoWallet, OtherChain} : ChangeWallet(w)
    \/ \E r \in 1..MaxRuns :
          /\ r \in Alive
          /\ \/ GotHeld(r) \/ Discovers(r) \/ PaymentRequired(r) \/ Pays(r)
             \/ PieceVerified(r) \/ StoredPiece(r) \/ AttemptFails(r) \/ Reassembled(r)

FlowSpec == FlowInit /\ [][FlowNext]_flowVars

-----------------------------------------------------------------------------

\* The page tells the truth about its download: unless a run was started beside
\* one that nobody can stop any more, at most one run of the page goes on, it is
\* the one its Cancel button reaches, the page shows a download exactly while it
\* does, and shows it neither as complete nor as failed.
PageTellsTruth ==
    ~haunted =>
        LET mine == {r \in Alive : runs[r].visit = page.visit /\ ~runs[r].cancelled} IN
        /\ page.downloading <=> mine # {}
        /\ page.downloading => /\ mine = {page.ref}
                               /\ page.status \notin {"complete", "error"}

\* A chunk that was paid for is not paid for again, over retries, cancelled and
\* resumed downloads and pages left in the middle, unless its payment outlived the
\* attempt, the storage was cleared, the chunk is another wallet's, or two runs
\* are after it.
PaidAgainForReason == again = {}

\* What reassemble reads is there, whatever wallet stored it, unless the storage
\* was cleared.
NothingMissing == page.error = "missing" => cleared

\* What a model's page owes its reader over every run it started (useDownload,
\* Downloader.start): the truth, no second payment without a reason, the file.
DownloadCorrect == PageTellsTruth /\ PaidAgainForReason /\ NothingMissing
=============================================================================
