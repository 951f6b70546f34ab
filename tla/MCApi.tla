------------------------------- MODULE MCApi -------------------------------
(* The parts of the API that requests work on, side by side: `part` says     *)
(* which of them is at work, the others rest in their first state.  They     *)
(* share no state; what one does to another (an admitted instance is a       *)
(* member, a guest, a mirrored VM) is an input of the other's.               *)
EXTENDS Firewall, Admission, Catalog, Resources, Ledger, Access

VARIABLE part

apivars == <<part, fwvars, admissionvars, catalogvars, resourcesvars, ledgervars, accessvars>>

Rest(p) ==
    /\ p # "firewall"  => InitFirewall /\ ~sg[Default].exists /\ \A m \in Machine : member[m] = Absent
    /\ p # "admission" => InitAdmission
    /\ p # "catalog"   => InitCatalog
    /\ p # "resources" => InitResources /\ record = {}
    /\ p # "ledger"    => InitLedger /\ \A i \in Mirrored : vm[i].life = "none"
    /\ p # "access"    => InitAccess /\ keyfile = NoFile /\ session = {}

\* Tenants are alike, so what there is at first may be any one's.  Services have
\* nothing to do with buckets and keys.  Where there is nothing, requests can only
\* make things, which they also do beside what there is.
OneTenantHasAlike ==
    /\ record # {}
    /\ \A x, y \in record : /\ x.account = CHOOSE a \in Tenant : TRUE
                            /\ (x.family = "service") = (y.family = "service")

\* The default group is made with an account's first request.
Starts(p) ==
    /\ p = "firewall"  => InitFirewall /\ \A m \in Machine : member[m] # Ungrouped /\ sg[Default].exists = (member[m] # Absent)
    /\ p = "admission" => InitAdmission
    /\ p = "catalog"   => InitCatalog
    /\ p = "resources" => InitResources /\ OneTenantHasAlike
    /\ p = "ledger"    => InitLedger
    /\ p = "access"    => InitAccess

InitApi == \E p \in {"firewall", "admission", "catalog", "resources", "ledger", "access"} :
              part = p /\ Starts(p) /\ Rest(p)

FirewallWorks  == part = "firewall" /\ NextFirewall
                  /\ UNCHANGED <<part, admissionvars, catalogvars, resourcesvars, ledgervars, accessvars>>
AdmissionWorks == part = "admission" /\ NextAdmission
                  /\ UNCHANGED <<part, fwvars, catalogvars, resourcesvars, ledgervars, accessvars>>
CatalogWorks   == part = "catalog" /\ NextCatalog
                  /\ UNCHANGED <<part, fwvars, admissionvars, resourcesvars, ledgervars, accessvars>>
ResourcesWork  == part = "resources" /\ NextResources
                  /\ UNCHANGED <<part, fwvars, admissionvars, catalogvars, ledgervars, accessvars>>
LedgerWorks    == part = "ledger" /\ NextLedger
                  /\ UNCHANGED <<part, fwvars, admissionvars, catalogvars, resourcesvars, accessvars>>
AccessWorks    == part = "access" /\ NextAccess
                  /\ UNCHANGED <<part, fwvars, admissionvars, catalogvars, resourcesvars, ledgervars>>

NextApi == FirewallWorks \/ AdmissionWorks \/ CatalogWorks \/ ResourcesWork \/ LedgerWorks \/ AccessWorks

SpecApi == InitApi /\ [][NextApi]_apivars

\* FairnessFirewall and FairnessLedger, each while its part is at work.
Filters == part = "firewall"

FairSpecApi ==
    /\ SpecApi
    /\ \A h \in Handler : WF_fwvars(Filters /\ Proceeds(h)) /\ WF_fwvars(Filters /\ IsCancelled(h))
    /\ WF_fwvars(Filters /\ Writes) /\ WF_fwvars(Filters /\ CannotGoOn)
    /\ \A m \in Machine : /\ SF_fwvars(Filters /\ ClaimsWrite(m))
                          /\ WF_fwvars(Filters /\ LaunchTaken(m))
                          /\ WF_fwvars(Filters /\ WriteLeaseExpires(m))
    /\ <>[][Filters => ~Outage]_fwvars
    /\ WF_ledgervars(part = "ledger" /\ PassSteps)

TypeOKApi == /\ TypeOKFirewall /\ TypeOKAdmission /\ TypeOKCatalog
             /\ TypeOKResources /\ TypeOKLedger /\ TypeOKAccess

-----------------------------------------------------------------------------
(* The instance *)

CONSTANTS m1

Machines1 == {m1}
Two       == 1..2
Three     == 1..3
Traffic2  == 0..1
AllKinds  == {"authorize", "revoke", "create", "delete", "set", "run", "adopt", "describe"}

OneAccount   == {"alice"}
OneToken     == {"token"}
SetAside     == {3}
Foreigners   == {1}
Sizes        == {2}
DefaultDisk  == {0}
SiteLimits   == [instances |-> 2, memory |-> 3, budget |-> 0, reserve |-> 0,
                 diskMin |-> 1, diskDefault |-> 1, diskMax |-> 2]
NotSet       == [l \in {} |-> 0]
SetOrNot     == {NotSet, [diskDefault |-> 2, memory |-> 2]}

Media2  == {"image", "iso"}
Isos    == {"iso"}
Empty   == {}
Guests2 == {"a", "b"}
Texts1  == {"text"}

Tenants  == {"alice", "bob"}
Families == {"bucket", "key", "service"}
Serials  == 1..3

Vms    == {"i1"}
Others == {"terraform"}
Titles == {"x", "y"}

TwoKeys == {"k1", "k2"}
Ann     == {"ann"}
OneTry  == {"login"}
OneUrl  == {"url"}
Tickets == {1}
=============================================================================
