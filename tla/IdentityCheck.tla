------------------------------ MODULE IdentityCheck ------------------------------
(***************************************************************************)
(* A customer proves who they are with UAE PASS: the two routes of         *)
(* api/routers/customers.py, the exchange with the provider (uaepass.py)   *)
(* and record_uaepass_verification of cases/manager.py.                    *)
(*                                                                         *)
(* The callback claims its state, asks the provider, reads the customer    *)
(* and the earlier verifications in autocommit, and writes evidence, alert *)
(* and copied fields in one transaction.                                   *)
(***************************************************************************)
EXTENDS Requests, Integers, FiniteSets

CONSTANTS
    Files,        \* customers
    Holders,      \* persons with a UAE PASS identity and an Emirates ID number
    Unnumbered,   \* persons whose UAE PASS returns no Emirates ID number
    MaxStates     \* bound: states issued for each customer

VARIABLES
    onFile,       \* onFile[c]: the identity columns of a customer
    issued,       \* issued[c]: states issued; oauth[c]: states not consumed yet
    oauth,
    verification, \* rows of uaepass_verifications: <<customer, person>>
    reuseAlert,   \* rows of identity_reuse_alerts: <<customer, other customer>>
    idreq         \* idreq[s]: the callback in slot s

identityVars == <<onFile, issued, oauth, verification, reuseAlert, idreq>>

-------------------------------------------------------------------------------
\* Vocabulary

\* An officer's entry agrees with nobody's; the other value of a column is the person
\* it was copied from.  'contact' stands for e-mail, phone, gender and nationality.
Entry == "officer"
Persons_ == Holders \cup Unnumbered
Column == Persons_ \cup {Entry, None}

\* None and the officer's entry stand for no customer and no person.
ASSUME IdentityAssumption ==
    /\ MaxStates \in Nat
    /\ None \notin Files \cup Persons_ \cup {Entry}
    /\ Entry \notin Persons_

Row == [id_number : Column, id_type : {"emirates_id", "passport", None}, contact : Column]

\* What the provider says of a person; a claim may be missing.
Profile == [person : Persons_, named : BOOLEAN, contact : BOOLEAN]
NoProfile == [person |-> None, named |-> FALSE, contact |-> FALSE]
idn(profile) == IF profile.person \in Holders THEN profile.person ELSE None

IdentityRequest == [phase : {"idle", "exchange", "read", "write"}, file : Files \cup {None},
                    profile : Profile \cup {NoProfile}, mismatch : BOOLEAN,
                    reused : Files \cup {None}, old : Row \cup {None}]
NoIdentity == [phase |-> "idle", file |-> None, profile |-> NoProfile, mismatch |-> FALSE,
               reused |-> None, old |-> None]

\* _uaepass_match.  'agrees' compares the names (canonical_key); a file always has one.
Mismatch(row, profile, agrees) ==
    \/ profile.named /\ ~agrees
    \/ ~profile.named /\ idn(profile) # None
    \/ /\ row.id_number # None /\ row.id_type \in {"emirates_id", None}
       /\ row.id_number # idn(profile)

\* The same Emirates ID number on the row of another customer.
Elsewhere(c, profile) ==
    idn(profile) # None /\ \E d \in Files \ {c} : onFile[d].id_number = idn(profile)

\* Another customer the number was verified for before.
\* Mutation: a verification that was a mismatch does not count.
CopiedFor(c, profile) ==
    {d \in Files \ {c} : /\ idn(profile) # None /\ <<d, profile.person>> \in verification
                         /\ onFile[d].id_number = profile.person}
VerifiedFor(c, profile) ==
    {d \in Files \ {c} : idn(profile) # None /\ <<d, profile.person>> \in verification}

-------------------------------------------------------------------------------
\* Customers with and without identity columns filled by an officer.
IdentityInit ==
    /\ onFile \in [Files -> [id_number : {None}, id_type : {None, "passport"}, contact : {None, Entry}]]
    /\ issued = [c \in Files |-> 0]
    /\ oauth = [c \in Files |-> 0]
    /\ verification = {}
    /\ reuseAlert = {}
    /\ idreq = [s \in Slots |-> NoIdentity]

IdentityEnd(s) == idreq' = [idreq EXCEPT ![s] = NoIdentity]

\* The state is bound to the customer.
uaepass_customer_start(c) ==
    /\ issued[c] < MaxStates
    /\ issued' = [issued EXCEPT ![c] = @ + 1]
    /\ oauth' = [oauth EXCEPT ![c] = @ + 1]
    /\ UNCHANGED <<onFile, verification, reuseAlert, idreq>>

\* consume_uaepass_state: a single UPDATE claims it (OneTimeTokens).
Consume(s, c) ==
    /\ idreq[s].phase = "idle" /\ oauth[c] > 0
    /\ oauth' = [oauth EXCEPT ![c] = @ - 1]
    /\ idreq' = [idreq EXCEPT ![s] = [NoIdentity EXCEPT !.phase = "exchange", !.file = c]]
    /\ UNCHANGED <<onFile, issued, verification, reuseAlert>>

\* exchange_code and fetch_userinfo; whoever holds the phone signs in.
Exchange(s, profile) ==
    /\ idreq[s].phase = "exchange"
    /\ idreq' = [idreq EXCEPT ![s].phase = "read", ![s].profile = profile]
    /\ UNCHANGED <<onFile, issued, oauth, verification, reuseAlert>>

\* The provider refuses or answers something else, or the customer cancels.
ExchangeFails(s) ==
    /\ idreq[s].phase = "exchange"
    /\ IdentityEnd(s)
    /\ UNCHANGED <<onFile, issued, oauth, verification, reuseAlert>>

ReadFile(s, agrees) ==
    LET c == idreq[s].file
        profile == idreq[s].profile
        others == VerifiedFor(c, profile)
    IN  /\ idreq[s].phase = "read"
        /\ \E other \in IF others = {} THEN {None} ELSE others :
              idreq' = [idreq EXCEPT
                  ![s].phase = "write", ![s].old = onFile[c], ![s].reused = other,
                  ![s].mismatch = Mismatch(onFile[c], profile, agrees) \/ Elsewhere(c, profile)]
        /\ UNCHANGED <<onFile, issued, oauth, verification, reuseAlert>>

\* Only what the file did not hold when it was read is filled; number and type go
\* together.  A nationality code that does not convert is left out.
Filled(row, old, profile, converts) ==
    LET contact == IF old.contact = None /\ profile.contact /\ converts
                   THEN profile.person ELSE row.contact
    IN  IF old.id_number = None /\ old.id_type = None /\ idn(profile) # None
        THEN [id_number |-> idn(profile), id_type |-> "emirates_id", contact |-> contact]
        ELSE [row EXCEPT !.contact = contact]

record_uaepass_verification(s, converts) ==
    LET r == idreq[s] IN
    /\ r.phase = "write"
    /\ verification' = verification \cup {<<r.file, r.profile.person>>}
    /\ reuseAlert' = IF r.reused = None THEN reuseAlert
                     ELSE reuseAlert \cup {<<r.file, r.reused>>}
    /\ onFile' = IF r.mismatch \/ r.reused # None THEN onFile
                 ELSE [onFile EXCEPT ![r.file] = Filled(@, r.old, r.profile, converts)]
    /\ IdentityEnd(s)
    /\ UNCHANGED <<issued, oauth>>

IdentityDies(s) ==
    /\ idreq[s].phase # "idle"
    /\ IdentityEnd(s)
    /\ UNCHANGED <<onFile, issued, oauth, verification, reuseAlert>>

IdentityStep(s) ==
    \/ \E c \in Files : Consume(s, c)
    \/ \E profile \in Profile : Exchange(s, profile)
    \/ ExchangeFails(s) \/ IdentityDies(s)
    \/ \E choice \in BOOLEAN : ReadFile(s, choice) \/ record_uaepass_verification(s, choice)

IdentityNext ==
    (\E s \in Slots : IdentityStep(s)) \/ (\E c \in Files : uaepass_customer_start(c))

IdentitySpec == IdentityInit /\ [][IdentityNext]_identityVars

-------------------------------------------------------------------------------
\* Properties

\* Types of the rows and of the callbacks.
IdentityTypeOK ==
    /\ onFile \in [Files -> Row]
    /\ issued \in [Files -> 0..MaxStates] /\ oauth \in [Files -> 0..MaxStates]
    /\ verification \subseteq Files \X Persons_
    /\ reuseAlert \subseteq Files \X Files
    /\ idreq \in [Slots -> IdentityRequest]

\* While callbacks do not overlap: of two customers that one person with an Emirates ID
\* number verified, one is flagged against a customer of that person, and nothing of the person
\* is copied onto two files, whatever was verified, refused or mismatched in between.
OneFilePerIdentity ==
    \A c, d \in Files : \A p \in Holders :
        c # d /\ <<c, p>> \in verification /\ <<d, p>> \in verification =>
            /\ \E e \in Files : <<e, p>> \in verification /\ {<<c, e>>, <<d, e>>} \cap reuseAlert # {}
            /\ ~(p \in {onFile[c].id_number, onFile[c].contact} /\ p \in {onFile[d].id_number, onFile[d].contact})
===============================================================================
