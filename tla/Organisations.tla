----------------------------- MODULE Organisations -----------------------------
(***************************************************************************)
(* Who works for which firm: registration, set-up links, the operators an  *)
(* MLRO adds, renames, deactivates and reactivates, the platform's own     *)
(* entry points (cases/operators.py, the routes of api/mobile.py,          *)
(* api/routers/admin.py and system.py), and the requests for a quotation   *)
(* that a platform admin reads (cases/applications.py).                    *)
(*                                                                         *)
(* Names that read alike must not meet in one firm, and only identical     *)
(* ones are excluded by the table: every entry point looks first, hashes a *)
(* password and writes in a transaction of its own.                        *)
(***************************************************************************)
EXTENDS Requests, Integers, FiniteSets

CONSTANTS
    Firms,          \* slugs of organisations
    Mailboxes,      \* e-mail addresses, unique over all operators: they stand for the rows
    Spellings,      \* names of operators
    Alike,          \* the names of Spellings that read as one person
    OperatorCap,    \* operators the plan allows
    Leads,          \* requests for a quotation
    RETENTION_DAYS

ASSUME OrganisationsAssumption ==
    /\ None \notin Firms \cup Mailboxes /\ Alike \subseteq Spellings /\ Spellings # {}
    /\ OperatorCap \in Nat /\ RETENTION_DAYS \in Nat

VARIABLES
    firm,        \* firm[f]: the row of organizations
    setupLink,   \* firms with an unused set-up link
    member,      \* member[e]: the row of operators
    lead,        \* lead[a]: the row of applications
    orgreq       \* orgreq[s]: the request in slot s

organisationVars == <<firm, setupLink, member, lead, orgreq>>

-------------------------------------------------------------------------------
\* Vocabulary

\* Legacy organisations are unlimited; self-service ones pay first.
Firm == {"absent", "legacy", "subscribed", "pending_payment"}
Member == [firm : Firms \cup {None}, name : Spellings, role : {"officer", "mlro"},
           active : BOOLEAN, super_admin : BOOLEAN]
Nobody == [firm |-> None, name |-> CHOOSE n \in Spellings : TRUE, role |-> "officer",
           active |-> FALSE, super_admin |-> FALSE]
\* new, contacted, quoted and lost are one: only a won lead is kept.
Statuses == {"open", "won"}
Lead == [status : Statuses \cup {"absent"}, idle : 0..RETENTION_DAYS + 1]
NoLead == [status |-> "absent", idle |-> 0]

OrganisationRequest ==
    [phase : {"idle", "register", "setup", "create", "rename", "deactivate", "reactivate"},
     firm : Firms \cup {None}, email : Mailboxes \cup {None}, name : Spellings,
     role : {"officer", "mlro"}, paid : BOOLEAN]
NoOrganisationRequest == [phase |-> "idle", firm |-> None, email |-> None, name |-> Nobody.name,
                          role |-> "officer", paid |-> TRUE]

\* operator_name_lookalike_key
operator_name_lookalike_key(n) == IF n \in Alike THEN Alike ELSE {n}
Of(f) == {e \in Mailboxes : member[e].firm = f}

\* Mutation: an operator who was deactivated does not count.
TakenByActive(f, n, except) ==
    \E e \in Of(f) \ {except} :
        member[e].active /\ operator_name_lookalike_key(member[e].name) = operator_name_lookalike_key(n)
operator_name_taken(f, n, except) ==
    \E e \in Of(f) \ {except} :
        operator_name_lookalike_key(member[e].name) = operator_name_lookalike_key(n)

\* check_limit for operators, in a deployment with billing; a lapsed plan refuses too.
SeatFree(f) ==
    \/ firm[f] = "legacy"
    \/ firm[f] = "subscribed" /\ Cardinality({e \in Of(f) : member[e].active}) < OperatorCap

IsMlro(e) == member[e].firm # None /\ member[e].active /\ member[e].role = "mlro"
\* _is_applications_viewer: here every super-admin's address is a recipient of quotes.
IsViewer(e) == member[e].firm # None /\ member[e].active /\ member[e].super_admin

-------------------------------------------------------------------------------
\* One firm from before tenancy with its set-up link (Migrations).
OrganisationInit ==
    /\ \E f \in Firms : /\ firm = [g \in Firms |-> IF g = f THEN "legacy" ELSE "absent"]
                        /\ setupLink = {f}
    /\ member = [e \in Mailboxes |-> Nobody]
    /\ lead = [a \in Leads |-> NoLead]
    /\ orgreq = [s \in Slots |-> NoOrganisationRequest]

Ask(s, r) == /\ orgreq[s].phase = "idle"
             /\ orgreq' = [orgreq EXCEPT ![s] = r]
             /\ UNCHANGED <<firm, setupLink, member, lead>>
Answered(s) == orgreq' = [orgreq EXCEPT ![s] = NoOrganisationRequest]

Hired(e, f, n, role) ==
    [member EXCEPT ![e] = [firm |-> f, name |-> n, role |-> role, active |-> TRUE, super_admin |-> FALSE]]
\* UNIQUE (email) and UNIQUE (org_id, name)
Insertable(e, f, n) == member[e].firm = None /\ \A o \in Of(f) : member[o].name # n

\* make_org_slug gives a slug that is free, or refuses; firms are told apart by it.
RegisterCheck(s, f, e, n, paid) ==
    /\ firm[f] = "absent"
    /\ Ask(s, [NoOrganisationRequest EXCEPT !.phase = "register", !.firm = f, !.email = e,
                                            !.name = n, !.role = "mlro", !.paid = paid])

\* The firm and its first operator, or neither.
register_organization(s) ==
    LET r == orgreq[s] IN
    /\ r.phase = "register"
    /\ IF firm[r.firm] = "absent" /\ member[r.email].firm = None
       THEN /\ firm' = [firm EXCEPT ![r.firm] = IF r.paid THEN "legacy" ELSE "pending_payment"]
            /\ member' = Hired(r.email, r.firm, r.name, r.role)
       ELSE UNCHANGED <<firm, member>>
    /\ Answered(s) /\ UNCHANGED <<setupLink, lead>>

\* Refused before the link is used, so that the link can be tried again.
SetupCheck(s, f, e, n) ==
    /\ f \in setupLink /\ member[e].firm = None /\ ~operator_name_taken(f, n, None)
    /\ Ask(s, [NoOrganisationRequest EXCEPT !.phase = "setup", !.firm = f, !.email = e,
                                            !.name = n, !.role = "mlro"])

\* The claim of the link and the operator are one transaction.
complete_initial_setup(s) ==
    LET r == orgreq[s]
        done == r.firm \in setupLink /\ Insertable(r.email, r.firm, r.name)
    IN  /\ r.phase = "setup"
        /\ setupLink' = IF done THEN setupLink \ {r.firm} ELSE setupLink
        /\ member' = IF done THEN Hired(r.email, r.firm, r.name, r.role) ELSE member
        /\ Answered(s) /\ UNCHANGED <<firm, lead>>

\* An MLRO adds a colleague: name, then plan.
CreateCheck(s, by, e, n, role) ==
    LET f == member[by].firm IN
    /\ IsMlro(by) /\ ~operator_name_taken(f, n, None) /\ SeatFree(f)
    /\ Ask(s, [NoOrganisationRequest EXCEPT !.phase = "create", !.firm = f, !.email = e,
                                            !.name = n, !.role = role])

\* The platform adds an operator to any firm, whatever its plan.
ProvisionCheck(s, f, e, n, role) ==
    /\ firm[f] # "absent" /\ ~operator_name_taken(f, n, None)
    /\ Ask(s, [NoOrganisationRequest EXCEPT !.phase = "create", !.firm = f, !.email = e,
                                            !.name = n, !.role = role])

provision_operator(s) ==
    LET r == orgreq[s] IN
    /\ r.phase = "create"
    /\ member' = IF Insertable(r.email, r.firm, r.name) THEN Hired(r.email, r.firm, r.name, r.role)
                 ELSE member
    /\ Answered(s) /\ UNCHANGED <<firm, setupLink, lead>>

\* To the name it has already, a rename changes nothing.
RenameCheck(s, by, e, n) ==
    /\ IsMlro(by) /\ member[e].firm = member[by].firm /\ member[e].name # n
    /\ ~operator_name_taken(member[e].firm, n, e)
    /\ Ask(s, [NoOrganisationRequest EXCEPT !.phase = "rename", !.email = e, !.name = n])

rename_operator(s) ==
    LET r == orgreq[s] IN
    /\ r.phase = "rename"
    /\ member' = IF \E o \in Of(member[r.email].firm) : member[o].name = r.name THEN member
                 ELSE [member EXCEPT ![r.email].name = r.name]
    /\ Answered(s) /\ UNCHANGED <<firm, setupLink, lead>>

\* The page refuses the last active MLRO of a firm; the app does not ask.
DeactivateCheck(s, by, e, app) ==
    /\ IsMlro(by) /\ member[e].firm = member[by].firm
    /\ app \/ ~IsMlro(e) \/ \E o \in Of(member[e].firm) \ {e} : IsMlro(o)
    /\ Ask(s, [NoOrganisationRequest EXCEPT !.phase = "deactivate", !.email = e])

ReactivateCheck(s, by, e) ==
    /\ IsMlro(by) /\ member[e].firm = member[by].firm /\ SeatFree(member[e].firm)
    /\ Ask(s, [NoOrganisationRequest EXCEPT !.phase = "reactivate", !.email = e])

SetActive(s) ==
    LET r == orgreq[s] IN
    /\ r.phase \in {"deactivate", "reactivate"}
    /\ member' = [member EXCEPT ![r.email].active = r.phase = "reactivate"]
    /\ Answered(s) /\ UNCHANGED <<firm, setupLink, lead>>

\* Out of band: no route within the application grants it.
set_super_admin(e, grant) ==
    /\ member[e].firm # None
    /\ member' = [member EXCEPT ![e].super_admin = grant]
    /\ UNCHANGED <<firm, setupLink, lead, orgreq>>

\* Billing: the payment arrives, or the plan is chosen.
Subscribe(f) ==
    /\ firm[f] \in {"pending_payment", "legacy"}
    /\ firm' = [firm EXCEPT ![f] = "subscribed"]
    /\ UNCHANGED <<setupLink, member, lead, orgreq>>

OrganisationDies(s) ==
    /\ orgreq[s].phase # "idle"
    /\ Answered(s)
    /\ UNCHANGED <<firm, setupLink, member, lead>>

-------------------------------------------------------------------------------
\* Applications

OnLeads(new) == lead' = new /\ UNCHANGED <<firm, setupLink, member, orgreq>>

\* A form that does not validate, or that a robot filled, leaves nothing.
validate(complete, consent) == complete /\ consent
apply_submit(a, complete, consent, honeypot) ==
    /\ lead[a].status = "absent"
    /\ OnLeads(IF ~honeypot /\ validate(complete, consent) THEN [lead EXCEPT ![a].status = "open"] ELSE lead)

set_status(a, status) ==
    /\ \E e \in Mailboxes : IsViewer(e)
    /\ lead[a].status # "absent"
    /\ OnLeads([lead EXCEPT ![a] = [status |-> status, idle |-> 0]])

delete_application(a) ==
    /\ \E e \in Mailboxes : IsViewer(e)
    /\ OnLeads([lead EXCEPT ![a] = NoLead])

\* Never a lead that became a customer.
ExpiredLeads == {a \in Leads : lead[a].status = "open" /\ lead[a].idle > RETENTION_DAYS}
purge_expired ==
    /\ \E e \in Mailboxes : IsViewer(e)
    /\ OnLeads([a \in Leads |-> IF a \in ExpiredLeads THEN NoLead ELSE lead[a]])

DayPasses == OnLeads([a \in Leads |->
    IF lead[a].status = "absent" \/ lead[a].idle > RETENTION_DAYS THEN lead[a]
    ELSE [lead[a] EXCEPT !.idle = @ + 1]])

OrganisationStep(s) ==
    \/ \E e \in Mailboxes, n \in Spellings, f \in Firms :
          \/ SetupCheck(s, f, e, n)
          \/ \E paid \in BOOLEAN : RegisterCheck(s, f, e, n, paid)
          \/ \E role \in {"officer", "mlro"} : ProvisionCheck(s, f, e, n, role)
    \/ \E by, e \in Mailboxes :
          \/ ReactivateCheck(s, by, e)
          \/ \E app \in BOOLEAN : DeactivateCheck(s, by, e, app)
          \/ \E n \in Spellings : \/ RenameCheck(s, by, e, n)
                                  \/ \E role \in {"officer", "mlro"} : CreateCheck(s, by, e, n, role)
    \/ register_organization(s) \/ complete_initial_setup(s) \/ provision_operator(s)
    \/ rename_operator(s) \/ SetActive(s) \/ OrganisationDies(s)

OrganisationNext ==
    \/ \E s \in Slots : OrganisationStep(s)
    \/ \E e \in Mailboxes, grant \in BOOLEAN : set_super_admin(e, grant)
    \/ \E f \in Firms : Subscribe(f)
    \/ purge_expired \/ DayPasses
    \/ \E a \in Leads :
          \/ delete_application(a) \/ \E status \in Statuses : set_status(a, status)
          \/ \E complete, consent, honeypot \in BOOLEAN : apply_submit(a, complete, consent, honeypot)

OrganisationSpec == OrganisationInit /\ [][OrganisationNext]_organisationVars

-------------------------------------------------------------------------------
\* Properties

\* Types of the rows and of the requests.
OrganisationTypeOK ==
    /\ firm \in [Firms -> Firm] /\ setupLink \subseteq Firms
    /\ member \in [Mailboxes -> Member]
    /\ lead \in [Leads -> Lead]
    /\ orgreq \in [Slots -> OrganisationRequest]

\* While requests do not overlap, no two operators of a firm, active or not, have names
\* that read alike, through whichever of the five doors they came or were renamed: an
\* audit trail that names one of them names one person.
NoLookalikes ==
    \A e, o \in Mailboxes :
        e # o /\ member[e].firm # None /\ member[e].firm = member[o].firm =>
            operator_name_lookalike_key(member[e].name) # operator_name_lookalike_key(member[o].name)
===============================================================================
