------------------------------ MODULE MCWebApp ------------------------------
(***************************************************************************)
(* The components of the web application above the exchange of chunks, one *)
(* at a time: "part" chooses one in the initial state and the others stay  *)
(* as they started.                                                        *)
(***************************************************************************)
EXTENDS SeederQuery, BrowserSeeding, UploadWizard, DownloadFlow, Catalogue, TLC

VARIABLE part

MCFile == {"small", "large"}
MCSizeOf == [f \in MCFile |-> IF f = "small" THEN 1 ELSE 2]

vars == <<now, part, queryVars, seedingVars, wizardVars, flowVars, catalogueVars>>

Init ==
    /\ now = 0
    /\ part \in {"query", "seeding", "wizard", "flow", "catalogue"}
    /\ QueryInit /\ SeedingInit /\ WizardInit /\ FlowInit /\ CatalogueInit
    /\ part # "query" => online
    /\ part # "seeding" => hook.wizard
    /\ part # "catalogue" => query = NoWallet

Next ==
    /\ UNCHANGED part
    /\ \/ /\ part = "query" /\ QueryNext
          /\ UNCHANGED <<now, seedingVars, wizardVars, flowVars, catalogueVars>>
       \/ /\ part = "seeding" /\ SeedingNext
          /\ UNCHANGED <<queryVars, wizardVars, flowVars, catalogueVars>>
       \/ /\ part = "wizard" /\ WizardNext
          /\ UNCHANGED <<queryVars, seedingVars, flowVars, catalogueVars>>
       \/ /\ part = "flow" /\ FlowNext
          /\ UNCHANGED <<queryVars, seedingVars, wizardVars, catalogueVars>>
       \/ /\ part = "catalogue" /\ CatalogueNext
          /\ UNCHANGED <<queryVars, seedingVars, wizardVars, flowVars>>

Spec == Init /\ [][Next]_vars

Symmetry == Permutations(Wallet) \cup Permutations(Title)
=============================================================================
