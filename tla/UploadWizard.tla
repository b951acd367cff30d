---------------------------- MODULE UploadWizard ----------------------------
(***************************************************************************)
(* Publishing a model: the wizard of src/frontend/src/pages/Upload.tsx,    *)
(* from the file to the registration, with the chunker, the upload broker  *)
(* and the registry as the wizard sees them.                               *)
(*                                                                         *)
(* The steps of the wizard can be visited in any order, so a button counts *)
(* as offered whenever its own conditions hold.  Hashing, pinning and      *)
(* registering each wait, for the chunk store, the wallet, the broker; the *)
(* handler goes on with what it read at the click, and the page with what  *)
(* the user has selected by then: another file, another account.           *)
(*                                                                         *)
(* A file is a size in chunks; names, prices and shares are left out.  A   *)
(* model ID is the number of its hashing, a CID that of its manifest.      *)
(***************************************************************************)
EXTENDS Common, Sequences, FiniteSets

CONSTANTS File, NoFile,
          SizeOf,       \* chunks of each file
          MaxHashings   \* bound

VARIABLES
    wizard,     \* the page's state
    work,       \* what each handler that waits has read: hash, pin, register
    account,    \* the wallet's account; NoWallet: not connected
    creators,   \* of each model ID, who hashed it
    chunkStore, \* chunks in IndexedDB of each model ID, and of which file
    passports,  \* the manifests pinned
    registry,   \* the registrations the chain took
    localModels,\* saveLocalUploadedModel
    changed   \* history: a file or account was changed while a handler
                \* waited, or an account after the hashing

wizardVars == <<wizard, work, account, creators, chunkStore, passports, registry,
                localModels, changed>>

-----------------------------------------------------------------------------

NoPieces == [file |-> NoFile, count |-> 0]
NoWork == [busy |-> FALSE, id |-> 0, file |-> NoFile, pieces |-> NoPieces, cid |-> 0,
           by |-> NoWallet]
NoCid == 0
FakeCid == MaxHashings + 1   \* one of a manifest that is nowhere

ASSUME WizardAssumption == SizeOf \in [File -> Nat]

WizardInit ==
    /\ wizard = [file |-> NoFile, id |-> 0, pieces |-> NoPieces, hashed |-> FALSE,
                 cid |-> NoCid, sent |-> FALSE]
    /\ work = [hash |-> NoWork, pin |-> NoWork, register |-> NoWork]
    /\ account = NoWallet
    /\ creators = <<>>
    /\ chunkStore = <<>>
    /\ passports = <<>>
    /\ registry = {}
    /\ localModels = {}
    /\ changed = FALSE

Busy == \E h \in DOMAIN work : work[h].busy

\* A handler starts to wait with what it has read; a handler is through.
Await(h, read) == work' = [work EXCEPT ![h] = [read EXCEPT !.busy = TRUE]]
Through(h) == work' = [work EXCEPT ![h] = NoWork]

\* Mutant of Selected: the pieces of the file before stay.
SelectedKeepsPieces(f) == [wizard EXCEPT !.file = f, !.hashed = FALSE, !.cid = NoCid, !.sent = FALSE]

\* What handleFileSelect sets; the model ID stays, and what is under way.
Selected(f) == [wizard EXCEPT !.file = f, !.hashed = FALSE, !.pieces = NoPieces,
                              !.cid = NoCid, !.sent = FALSE]

HandleFileSelect(f) ==
    /\ wizard.file = NoFile \/ f = NoFile    \* FileDropZone: remove it first
    /\ wizard' = Selected(f)
    /\ changed' = (changed \/ Busy)
    /\ UNCHANGED <<work, account, creators, chunkStore, passports, registry, localModels>>

\* In the wallet: another account, or disconnected.
SwitchAccount(w) ==
    /\ account' = w
    /\ changed' = (changed \/ Busy \/ wizard.id # 0)
    /\ UNCHANGED <<wizard, work, creators, chunkStore, passports, registry, localModels>>

-----------------------------------------------------------------------------

\* handleStartHashing, by the button that is there until hashingComplete.
HandleStartHashing ==
    /\ wizard.file # NoFile /\ account # NoWallet
    /\ ~wizard.hashed /\ ~work.hash.busy
    /\ Len(creators) < MaxHashings
    /\ creators' = Append(creators, account)
    /\ chunkStore' = Append(chunkStore, NoPieces)
    /\ wizard' = [wizard EXCEPT !.id = Len(creators) + 1]
    /\ Await("hash", [NoWork EXCEPT !.id = Len(creators) + 1, !.file = wizard.file])
    /\ UNCHANGED <<account, passports, registry, localModels, changed>>

\* chunkFile has another chunk of the file being hashed.
MoreChunks == chunkStore[work.hash.id].count < SizeOf[work.hash.file]

\* The next chunk is stored; or the store refuses it.
StoreChunk ==
    /\ work.hash.busy /\ MoreChunks
    /\ \/ /\ chunkStore' = [chunkStore EXCEPT ![work.hash.id] =
                                [file |-> work.hash.file, count |-> @.count + 1]]
          /\ UNCHANGED work
       \/ Through("hash") /\ UNCHANGED chunkStore
    /\ UNCHANGED <<wizard, account, creators, passports, registry, localModels, changed>>

Hashed ==
    /\ work.hash.busy /\ ~MoreChunks
    /\ wizard' = [wizard EXCEPT !.pieces = chunkStore[work.hash.id], !.hashed = TRUE]
    /\ Through("hash")
    /\ UNCHANGED <<account, creators, chunkStore, passports, registry, localModels, changed>>

\* handlePinPassport, by the button that is there without a CID.
HandlePinPassport ==
    /\ wizard.file # NoFile /\ account # NoWallet /\ wizard.id # 0 /\ wizard.pieces.count > 0
    /\ wizard.cid = NoCid /\ ~work.pin.busy
    /\ Await("pin", [NoWork EXCEPT !.id = wizard.id, !.file = wizard.file,
                                   !.pieces = wizard.pieces, !.by = account])
    /\ UNCHANGED <<wizard, account, creators, chunkStore, passports, registry, localModels,
                   changed>>

\* Signed with the account of then, pinned by the broker if it is the creator's
\* and the sizes add up; an answer that does not come makes up a CID; an error
\* does so in demo mode.
Pinned ==
    /\ work.pin.busy
    /\ LET p == work.pin
           good == account = p.by /\ p.pieces.count = SizeOf[p.file] IN
       \/ /\ good
          /\ passports' = Append(passports, [id |-> p.id, pieces |-> p.pieces, by |-> p.by])
          /\ wizard' \in {[wizard EXCEPT !.cid = c] : c \in {Len(passports) + 1, FakeCid}}
       \/ /\ wizard' \in {wizard, [wizard EXCEPT !.cid = FakeCid]}
          /\ UNCHANGED passports
    /\ Through("pin")
    /\ UNCHANGED <<account, creators, chunkStore, registry, localModels, changed>>

\* handleRegisterOnChain, by the button that is there until a hash is shown.
HandleRegisterOnChain ==
    /\ wizard.id # 0 /\ wizard.cid # NoCid /\ wizard.file # NoFile /\ account # NoWallet
    /\ ~wizard.sent /\ ~work.register.busy
    /\ Await("register", [NoWork EXCEPT !.id = wizard.id, !.cid = wizard.cid,
                                        !.pieces = wizard.pieces])
    /\ UNCHANGED <<wizard, account, creators, chunkStore, passports, registry, localModels,
                   changed>>

\* registerModel's conditions on what the wizard sends.
Accepted(r) == r.pieces.count > 0 /\ \A e \in registry : e.id # r.id

\* The wallet sends it, and the wizard saves the model, whether the transaction
\* will succeed or revert; or the user declines.
Registered ==
    /\ work.register.busy
    /\ LET r == work.register IN
       \/ /\ account # NoWallet
          /\ wizard' = [wizard EXCEPT !.sent = TRUE]
          /\ localModels' = localModels \cup {r.id}
          /\ registry' = IF ~Accepted(r) THEN registry
                         ELSE registry \cup {[id |-> r.id, cid |-> r.cid, owner |-> account,
                                              count |-> r.pieces.count]}
       \/ UNCHANGED <<wizard, registry, localModels>>
    /\ Through("register")
    /\ UNCHANGED <<account, creators, chunkStore, passports, changed>>

WizardNext ==
    /\ \/ \E f \in File \cup {NoFile} : HandleFileSelect(f)
       \/ \E w \in Wallet \cup {NoWallet} : SwitchAccount(w)
       \/ HandleStartHashing \/ StoreChunk \/ Hashed
       \/ HandlePinPassport \/ Pinned
       \/ HandleRegisterOnChain \/ Registered
    /\ UNCHANGED now

WizardSpec == WizardInit /\ [][WizardNext]_wizardVars

-----------------------------------------------------------------------------

\* Whatever the user changes while a handler waits: a model on chain has as many
\* chunks as this browser stored under its ID, all those of one file; the ID was
\* registered once, and is in the local catalogue.
CountIsStored ==
    \A e \in registry :
        /\ e.count = chunkStore[e.id].count
        /\ e.count = SizeOf[chunkStore[e.id].file]
        /\ e.id \in localModels
        /\ \A d \in registry : d.id = e.id => d = e

\* If nothing was changed meanwhile: the passport a registration names, when its
\* CID is a real one, is of this model, lists the chunks that are stored and was
\* signed by the owner; the owner is who hashed the file; and every model of the
\* local catalogue is on chain.
PassportAgrees ==
    ~changed =>
        /\ \A e \in registry :
              /\ e.owner = creators[e.id]
              /\ e.cid # FakeCid =>
                    passports[e.cid] = [id |-> e.id, pieces |-> chunkStore[e.id], by |-> e.owner]
        /\ \A id \in localModels : \E e \in registry : e.id = id

\* What the upload page publishes belongs together, over files selected again
\* and accounts switched in the middle (Upload.tsx).
WizardCorrect == CountIsStored /\ PassportAgrees
=============================================================================
