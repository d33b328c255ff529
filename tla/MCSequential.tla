----------------------------- MODULE MCSequential -----------------------------
(* Instances for TLC of the modules whose requests share a server and no row.    *)
(* As they never read each other's rows, a behaviour exercises one of them.      *)
EXTENDS Sessions, Mfa, OneTimeTokens, Retention, RiskRating, Kyt, Ownership, AdverseMedia,
        Onboarding, IdentityCheck, LocalList, Migrations, Organisations, Staleness, TLC

CONSTANTS
    Parts,   \* the modules exercised
    Subjects, Owners, Datasets, Entities, Contents, MaxTime, l1

ASSUME ScreeningAssumption ==
    /\ Owners \subseteq Subjects /\ l1 \in Datasets
    /\ MaxTime \in Nat \ {0} /\ None \notin Contents

VARIABLES
    part,
    entity, cache, subject, alert, clock, req, dirty, screened, moved

OneList == [e \in Entities |-> l1]
\* Every edition of the entry matches.
Edition == [c \in Contents |-> Subjects]

\* Screening names its operators as other modules do.
Screenings == INSTANCE Screening WITH DatasetOf <- OneList, Matches <- Edition

screeningVars == <<entity, cache, subject, alert, clock, req, dirty, screened, moved>>

vars == <<sessionVars, mfaVars, tokenVars, retentionVars, ratingVars, kytVars,
          ownershipVars, mediaVars, onboardingVars, identityVars, localListVars, migrationVars,
          organisationVars, stalenessVars, screeningVars, part>>

\* A part that is not exercised has one initial state.
Init == /\ part \in Parts
        /\ MfaInit /\ TokensInit /\ KytInit /\ OwnershipInit /\ LocalListInit
        /\ SessionsInit /\ (part = "sessions" \/ \A o \in Operators : account[o].verified)
        /\ RetentionInit /\ (part = "retention" \/ customer = [c \in Customers |-> Absent])
        /\ RatingInit /\ (part = "rating" \/ assessment.sector = Min(Sectors))
        /\ MediaInit /\ (part = "media" \/ /\ environ = [e \in DOMAIN environ |-> FALSE]
                                           /\ mediaRating = "high")
        /\ OnboardingInit /\ (part = "onboarding" \/ subscription = CHOOSE v \in Subscription : TRUE)
        /\ IdentityInit /\ (part = "identity" \/ \A c \in Files : onFile[c].id_type = None /\ onFile[c].contact = None)
        /\ MigrationInit /\ (part = "migrations" \/ store = CHOOSE v \in Versions : TRUE)
        /\ Screenings!Init
        /\ StalenessInit /\ (part = "staleness" \/ smtp = FALSE)
        /\ OrganisationInit /\ (part = "organisations" \/ setupLink = {CHOOSE f \in Firms : TRUE})

\* The other parts stand still.
Others ==
    /\ UNCHANGED part
    /\ IF part = "sessions" THEN TRUE ELSE UNCHANGED sessionVars
    /\ IF part = "mfa" THEN TRUE ELSE UNCHANGED mfaVars
    /\ IF part = "tokens" THEN TRUE ELSE UNCHANGED tokenVars
    /\ IF part = "retention" THEN TRUE ELSE UNCHANGED retentionVars
    /\ IF part = "rating" THEN TRUE ELSE UNCHANGED ratingVars
    /\ IF part = "kyt" THEN TRUE ELSE UNCHANGED kytVars
    /\ IF part = "ownership" THEN TRUE ELSE UNCHANGED ownershipVars
    /\ IF part = "media" THEN TRUE ELSE UNCHANGED mediaVars
    /\ IF part = "onboarding" THEN TRUE ELSE UNCHANGED onboardingVars
    /\ IF part = "identity" THEN TRUE ELSE UNCHANGED identityVars
    /\ IF part = "locallist" THEN TRUE ELSE UNCHANGED localListVars
    /\ IF part = "migrations" THEN TRUE ELSE UNCHANGED migrationVars
    /\ IF part = "organisations" THEN TRUE ELSE UNCHANGED organisationVars
    /\ IF part = "staleness" THEN TRUE ELSE UNCHANGED stalenessVars
    /\ IF part = "screening" THEN TRUE ELSE UNCHANGED screeningVars

Next ==
    \/ part = "sessions" /\ SessionsNext /\ Others
    \/ part = "mfa" /\ MfaNext /\ Others
    \/ part = "tokens" /\ TokensNext /\ Others
    \/ part = "retention" /\ RetentionNext /\ Others
    \/ part = "rating" /\ RatingNext /\ Others
    \/ part = "kyt" /\ KytNext /\ Others
    \/ part = "ownership" /\ OwnershipNext /\ Others
    \/ part = "media" /\ MediaNext /\ Others
    \/ part = "onboarding" /\ OnboardingNext /\ Others
    \/ part = "identity" /\ IdentityNext /\ Others
    \/ part = "locallist" /\ LocalListNext /\ Others
    \/ part = "migrations" /\ MigrationNext /\ Others
    \/ part = "organisations" /\ OrganisationNext /\ Others
    \/ part = "staleness" /\ StalenessNext /\ Others
    \/ part = "screening" /\ Screenings!Next /\ Others

Spec == Init /\ [][Next]_vars

\* Every variable of the exercised part has its type; the others keep their first value.
TypeOK ==
    /\ part = "sessions" => SessionsTypeOK
    /\ part = "mfa" => MfaTypeOK
    /\ part = "tokens" => TokensTypeOK
    /\ part = "retention" => RetentionTypeOK
    /\ part = "rating" => RatingTypeOK
    /\ part = "kyt" => KytTypeOK
    /\ part = "ownership" => OwnershipTypeOK
    /\ part = "media" => MediaTypeOK
    /\ part = "onboarding" => OnboardingTypeOK
    /\ part = "identity" => IdentityTypeOK
    /\ part = "locallist" => LocalListTypeOK
    /\ part = "migrations" => MigrationTypeOK
    /\ part = "organisations" => OrganisationTypeOK
    /\ part = "staleness" => StalenessTypeOK
    /\ part = "screening" => Screenings!TypeOK
===============================================================================
