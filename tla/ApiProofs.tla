----------------------------- MODULE ApiProofs -----------------------------
(***************************************************************************)
(* The parts side by side, as they are checked: what is proved of a part   *)
(* by itself holds of every part there, the ones that rest included.       *)
(***************************************************************************)
EXTENDS MCApi, FirewallProofs, AdmissionProofs, CatalogProofs, ResourcesProofs,
        LedgerAccessProofs, TLAPS

\* A part rests in its first state, and starts in one.
LEMMA PartsAtFirst ==
  InitApi => /\ InitFirewall /\ InitAdmission /\ InitCatalog
             /\ InitResources /\ InitLedger /\ InitAccess
BY DEF InitApi, Starts, Rest

\* A step of one part is no step of another.
LEMMA PartsStep ==
  [NextApi]_apivars => /\ [NextFirewall]_fwvars /\ [NextAdmission]_admissionvars
                       /\ [NextCatalog]_catalogvars /\ [NextResources]_resourcesvars
                       /\ [NextLedger]_ledgervars /\ [NextAccess]_accessvars
BY DEF NextApi, FirewallWorks, AdmissionWorks, CatalogWorks, ResourcesWork, LedgerWorks,
       AccessWorks, apivars

LEMMA EachPart ==
  SpecApi => /\ SpecFirewall /\ SpecAdmission /\ SpecCatalog
             /\ SpecResources /\ SpecLedger /\ SpecAccess
BY PartsAtFirst, PartsStep, PTL
   DEF SpecApi, SpecFirewall, SpecAdmission, SpecCatalog, SpecResources, SpecLedger, SpecAccess

(* Every part keeps its types, whichever of them is at work.                 *)
THEOREM ApiTyped == SpecApi => []TypeOKApi
<1>1. TypeOKFirewall /\ TypeOKAdmission /\ TypeOKCatalog /\ TypeOKResources /\ TypeOKLedger
         /\ TypeOKAccess => TypeOKApi
  BY DEF TypeOKApi
<1>. QED  BY <1>1, EachPart, FirewallTyped, AdmissionTyped, CatalogTyped, ResourcesTyped,
             LedgerTyped, AccessTyped, PTL

(* What the run Api checks of each part holds for every        *)
(* instance of them: rules are in force, no admission meets an index or      *)
(* passes a limit, media and resources are kept, with the exceptions named   *)
(* in FirewallIsTrue and ResourcesAccounted, entries and keys live as long   *)
(* as they may.                                                              *)
THEOREM ApiSafe ==
  SpecApi => /\ [](FirewallIsTrue /\ NoIndexMet /\ TakenOnce)
             /\ NeverShutNorOpen /\ AdmittedWithinLimits /\ MediaKeptForTheirUsers
             /\ ResourcesAccounted /\ OnlyDeadEntriesRemoved /\ KeysKept
BY EachPart, FirewallAlwaysTrue, NeverShutNorOpenAlways, IndexNeverMet, AdmissionsWithinLimits,
   MediaAreKept, ResourcesAreAccounted, DeadEntriesOnly, NothingTakenTwice, KeysKeptAlways, PTL
=============================================================================
