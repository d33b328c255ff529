---------------------------- MODULE SequentialProofs ----------------------------
(***************************************************************************)
(* Proofs about MCSequential: a behaviour of the parts together is one of  *)
(* every part by itself, so what the other modules prove of a part holds   *)
(* of them together: their types, what they guarantee however requests     *)
(* overlap and what they guarantee when requests do not.                   *)
(***************************************************************************)
EXTENDS MCSequential, RecordsProofs, AccessProofs

\* Screening once more, with its theorems.
SP == INSTANCE ScreeningProofs WITH DatasetOf <- OneList, Matches <- Edition

-------------------------------------------------------------------------------
\* Screenings and SP are the same module under two names: action by action.

LEMMA ScreeningConstants == SP!ListAssumption /\ SP!ScreeningBounds
  BY ScreeningAssumption DEF SP!ListAssumption, SP!ScreeningBounds, OneList, Edition

LEMMA SameInit == Screenings!Init <=> SP!Init
  BY DEF Screenings!Init, SP!Init, Screenings!NoRequest, SP!NoRequest, Screenings!NoAlert,
         SP!NoAlert

LEMMA Same_Tick == Screenings!Tick <=> SP!Tick
  BY DEF Screenings!Tick, SP!Tick, Screenings!history, SP!history, Screenings!tables, SP!tables

LEMMA Same_StartRefresh == ASSUME NEW i  PROVE Screenings!StartRefresh(i) <=> SP!StartRefresh(i)
  BY DEF Screenings!StartRefresh, SP!StartRefresh, Screenings!NoRequest, SP!NoRequest,
         Screenings!history, SP!history, Screenings!tables, SP!tables

LEMMA Same_LoadFrom ==
    ASSUME NEW i, NEW d, NEW source, NEW now
    PROVE  Screenings!LoadFrom(i, d, source, now) <=> SP!LoadFrom(i, d, source, now)
  BY DEF Screenings!LoadFrom, SP!LoadFrom, Screenings!Listed, SP!Listed, Screenings!LoadedRow,
         SP!LoadedRow, Screenings!NoAlert, SP!NoAlert, Screenings!On, SP!On,
         Screenings!Untouched, SP!Untouched

LEMMA Same_Load == ASSUME NEW i, NEW d  PROVE Screenings!Load(i, d) <=> SP!Load(i, d)
  BY Same_LoadFrom DEF Screenings!Load, SP!Load, Screenings!On, SP!On

LEMMA Same_LoadFailed ==
    ASSUME NEW i, NEW d  PROVE Screenings!LoadFailed(i, d) <=> SP!LoadFailed(i, d)
  BY DEF Screenings!LoadFailed, SP!LoadFailed, Screenings!history, SP!history, Screenings!tables,
         SP!tables

LEMMA Same_Invalidate == ASSUME NEW i  PROVE Screenings!Invalidate(i) <=> SP!Invalidate(i)
  BY DEF Screenings!Invalidate, SP!Invalidate, Screenings!invalidate, SP!invalidate,
         Screenings!tables, SP!tables

LEMMA Same_StartRescreen == ASSUME NEW i  PROVE Screenings!StartRescreen(i) <=> SP!StartRescreen(i)
  BY DEF Screenings!StartRescreen, SP!StartRescreen, Screenings!NoRequest, SP!NoRequest,
         Screenings!history, SP!history, Screenings!tables, SP!tables

LEMMA Same_ListCustomers == ASSUME NEW i  PROVE Screenings!ListCustomers(i) <=> SP!ListCustomers(i)
  BY DEF Screenings!ListCustomers, SP!ListCustomers, Screenings!Continue, SP!Continue,
         Screenings!NoRequest, SP!NoRequest, Screenings!Onward, SP!Onward, Screenings!history,
         SP!history, Screenings!tables, SP!tables

LEMMA Same_ListOwners == ASSUME NEW i  PROVE Screenings!ListOwners(i) <=> SP!ListOwners(i)
  BY DEF Screenings!ListOwners, SP!ListOwners, Screenings!Continue, SP!Continue,
         Screenings!NoRequest, SP!NoRequest, Screenings!Onward, SP!Onward,
         Screenings!RelatedParties, SP!RelatedParties, Screenings!history, SP!history,
         Screenings!tables, SP!tables

LEMMA Same_Lookup == ASSUME NEW i, NEW s  PROVE Screenings!Lookup(i, s) <=> SP!Lookup(i, s)
  BY DEF Screenings!Lookup, SP!Lookup, Screenings!IsHit, SP!IsHit, Screenings!Listed, SP!Listed,
         Screenings!Tokens, SP!Tokens, Screenings!history, SP!history, Screenings!tables, SP!tables

LEMMA Same_Fill == ASSUME NEW i  PROVE Screenings!Fill(i) <=> SP!Fill(i)
  BY DEF Screenings!Fill, SP!Fill, Screenings!history, SP!history, Screenings!tables, SP!tables

LEMMA Same_Score == ASSUME NEW i  PROVE Screenings!Score(i) <=> SP!Score(i)
  BY DEF Screenings!Score, SP!Score, Screenings!IsHit, SP!IsHit, Screenings!Listed, SP!Listed,
         Screenings!history, SP!history, Screenings!tables, SP!tables

LEMMA Same_Persist == ASSUME NEW i  PROVE Screenings!Persist(i) <=> SP!Persist(i)
  BY DEF Screenings!Persist, SP!Persist, Screenings!Covered, SP!Covered, Screenings!Finish,
         SP!Finish, Screenings!NoRequest, SP!NoRequest, Screenings!OneMore, SP!OneMore,
         Screenings!Onward, SP!Onward, Screenings!Raise, SP!Raise, Screenings!Uncovered,
         SP!Uncovered

LEMMA Same_Abort == ASSUME NEW i  PROVE Screenings!Abort(i) <=> SP!Abort(i)
  BY DEF Screenings!Abort, SP!Abort, Screenings!Finish, SP!Finish, Screenings!NoRequest,
         SP!NoRequest, Screenings!history, SP!history, Screenings!tables, SP!tables

LEMMA Same_Onboard == ASSUME NEW i, NEW s  PROVE Screenings!Onboard(i, s) <=> SP!Onboard(i, s)
  BY DEF Screenings!Onboard, SP!Onboard, Screenings!NoRequest, SP!NoRequest, Screenings!history,
         SP!history

LEMMA Same_close_relationship ==
    ASSUME NEW s  PROVE Screenings!close_relationship(s) <=> SP!close_relationship(s)
  BY DEF Screenings!close_relationship, SP!close_relationship, Screenings!history, SP!history

LEMMA Same_reactivate_customer ==
    ASSUME NEW s  PROVE Screenings!reactivate_customer(s) <=> SP!reactivate_customer(s)
  BY DEF Screenings!reactivate_customer, SP!reactivate_customer, Screenings!history, SP!history

LEMMA Same_ChangeSubject == ASSUME NEW s  PROVE Screenings!ChangeSubject(s) <=> SP!ChangeSubject(s)
  BY DEF Screenings!ChangeSubject, SP!ChangeSubject

LEMMA Same_DecideStamp ==
    ASSUME NEW i, NEW s, NEW e  PROVE Screenings!DecideStamp(i, s, e) <=> SP!DecideStamp(i, s, e)
  BY DEF Screenings!DecideStamp, SP!DecideStamp, Screenings!NoRequest, SP!NoRequest,
         Screenings!history, SP!history, Screenings!tables, SP!tables

LEMMA Same_DecideCommit == ASSUME NEW i  PROVE Screenings!DecideCommit(i) <=> SP!DecideCommit(i)
  BY DEF Screenings!DecideCommit, SP!DecideCommit, Screenings!Decided, SP!Decided,
         Screenings!Finish, SP!Finish, Screenings!NoRequest, SP!NoRequest

LEMMA SameNext == Screenings!Next => SP!Next
  BY Same_Tick, Same_StartRefresh, Same_Load, Same_LoadFailed, Same_Invalidate, Same_StartRescreen,
     Same_ListCustomers, Same_ListOwners, Same_Lookup, Same_Fill, Same_Score, Same_Persist,
     Same_Abort, Same_Onboard, Same_close_relationship, Same_reactivate_customer,
     Same_ChangeSubject, Same_DecideStamp, Same_DecideCommit
     DEF Screenings!Next, SP!Next, Screenings!RefreshStep, SP!RefreshStep, Screenings!ScreenStep,
         SP!ScreenStep

LEMMA SameTypes == SP!TypeOK <=> Screenings!TypeOK
  BY DEF Screenings!TypeOK, SP!TypeOK, Screenings!EntityRow, SP!EntityRow, Screenings!SubjectRow,
         SP!SubjectRow, Screenings!AlertRows, SP!AlertRows, Screenings!Request, SP!Request

-------------------------------------------------------------------------------
\* A step of the whole is a step of one part, and the others stand still.

LEMMA SessionsAlone == [Next]_vars => [SessionsNext]_sessionVars
  BY DEF Next, Others, vars

LEMMA MfaAlone == [Next]_vars => [MfaNext]_mfaVars
  BY DEF Next, Others, vars

LEMMA TokensAlone == [Next]_vars => [TokensNext]_tokenVars
  BY DEF Next, Others, vars

LEMMA RetentionAlone == [Next]_vars => [RetentionNext]_retentionVars
  BY DEF Next, Others, vars

LEMMA RatingAlone == [Next]_vars => [RatingNext]_ratingVars
  BY DEF Next, Others, vars

LEMMA KytAlone == [Next]_vars => [KytNext]_kytVars
  BY DEF Next, Others, vars

LEMMA OwnershipAlone == [Next]_vars => [OwnershipNext]_ownershipVars
  BY DEF Next, Others, vars

LEMMA MediaAlone == [Next]_vars => [MediaNext]_mediaVars
  BY DEF Next, Others, vars

LEMMA OnboardingAlone == [Next]_vars => [OnboardingNext]_onboardingVars
  BY DEF Next, Others, vars

LEMMA IdentityAlone == [Next]_vars => [IdentityNext]_identityVars
  BY DEF Next, Others, vars

LEMMA LocalListAlone == [Next]_vars => [LocalListNext]_localListVars
  BY DEF Next, Others, vars

LEMMA MigrationAlone == [Next]_vars => [MigrationNext]_migrationVars
  BY DEF Next, Others, vars

LEMMA OrganisationAlone == [Next]_vars => [OrganisationNext]_organisationVars
  BY DEF Next, Others, vars

LEMMA StalenessAlone == [Next]_vars => [StalenessNext]_stalenessVars
  BY DEF Next, Others, vars

LEMMA ScreeningAlone == [Next]_vars => [SP!Next]_SP!vars
<1>1. UNCHANGED screeningVars => UNCHANGED SP!vars
  BY DEF screeningVars, SP!vars, SP!tables, SP!history
<1>2. [Next]_vars => Screenings!Next \/ UNCHANGED screeningVars
  BY DEF Next, Others, vars
<1> QED  BY <1>1, <1>2, SameNext

-------------------------------------------------------------------------------
\* The parts share a server and no row: a behaviour of all of them is, for every
\* part, a behaviour of its module alone.  No other request writes its variables.
THEOREM PartsImplemented ==
    Spec => /\ SessionsSpec /\ MfaSpec /\ TokensSpec /\ RetentionSpec /\ RatingSpec
            /\ KytSpec /\ OwnershipSpec /\ MediaSpec /\ OnboardingSpec /\ IdentitySpec
            /\ LocalListSpec /\ MigrationSpec /\ OrganisationSpec /\ StalenessSpec
            /\ SP!Spec
<1>1. Spec => SessionsSpec
  <2>1. Init => SessionsInit
    BY DEF Init
  <2> QED  BY <2>1, SessionsAlone, PTL DEF Spec, SessionsSpec
<1>2. Spec => MfaSpec
  <2>1. Init => MfaInit
    BY DEF Init
  <2> QED  BY <2>1, MfaAlone, PTL DEF Spec, MfaSpec
<1>3. Spec => TokensSpec
  <2>1. Init => TokensInit
    BY DEF Init
  <2> QED  BY <2>1, TokensAlone, PTL DEF Spec, TokensSpec
<1>4. Spec => RetentionSpec
  <2>1. Init => RetentionInit
    BY DEF Init
  <2> QED  BY <2>1, RetentionAlone, PTL DEF Spec, RetentionSpec
<1>5. Spec => RatingSpec
  <2>1. Init => RatingInit
    BY DEF Init
  <2> QED  BY <2>1, RatingAlone, PTL DEF Spec, RatingSpec
<1>6. Spec => KytSpec
  <2>1. Init => KytInit
    BY DEF Init
  <2> QED  BY <2>1, KytAlone, PTL DEF Spec, KytSpec
<1>7. Spec => OwnershipSpec
  <2>1. Init => OwnershipInit
    BY DEF Init
  <2> QED  BY <2>1, OwnershipAlone, PTL DEF Spec, OwnershipSpec
<1>8. Spec => MediaSpec
  <2>1. Init => MediaInit
    BY DEF Init
  <2> QED  BY <2>1, MediaAlone, PTL DEF Spec, MediaSpec
<1>9. Spec => OnboardingSpec
  <2>1. Init => OnboardingInit
    BY DEF Init
  <2> QED  BY <2>1, OnboardingAlone, PTL DEF Spec, OnboardingSpec
<1>10. Spec => IdentitySpec
  <2>1. Init => IdentityInit
    BY DEF Init
  <2> QED  BY <2>1, IdentityAlone, PTL DEF Spec, IdentitySpec
<1>11. Spec => LocalListSpec
  <2>1. Init => LocalListInit
    BY DEF Init
  <2> QED  BY <2>1, LocalListAlone, PTL DEF Spec, LocalListSpec
<1>12. Spec => MigrationSpec
  <2>1. Init => MigrationInit
    BY DEF Init
  <2> QED  BY <2>1, MigrationAlone, PTL DEF Spec, MigrationSpec
<1>13. Spec => OrganisationSpec
  <2>1. Init => OrganisationInit
    BY DEF Init
  <2> QED  BY <2>1, OrganisationAlone, PTL DEF Spec, OrganisationSpec
<1>14. Spec => StalenessSpec
  <2>1. Init => StalenessInit
    BY DEF Init
  <2> QED  BY <2>1, StalenessAlone, PTL DEF Spec, StalenessSpec
<1>15. Spec => SP!Spec
  <2>1. Init => SP!Init
    BY SameInit DEF Init
  <2> QED  BY <2>1, ScreeningAlone, PTL DEF Spec, SP!Spec
<1> QED  BY <1>1, <1>2, <1>3, <1>4, <1>5, <1>6, <1>7, <1>8, <1>9, <1>10, <1>11, <1>12, <1>13, <1>14,
            <1>15

\* Types of every part that is exercised, whichever that is.
THEOREM SequentialTypeCorrect == Spec => []TypeOK
<1>1. SP!Spec => []Screenings!TypeOK
  <2>1. SP!Spec => []SP!TypeOK
    BY ScreeningConstants, SP!TypeCorrect, PTL DEF SP!TypeCorrect
  <2> QED  BY <2>1, SameTypes, PTL
<1>2. /\ SessionsTypeOK /\ MfaTypeOK /\ TokensTypeOK /\ RetentionTypeOK /\ RatingTypeOK
      /\ KytTypeOK /\ OwnershipTypeOK /\ MediaTypeOK /\ OnboardingTypeOK /\ IdentityTypeOK
      /\ LocalListTypeOK /\ MigrationTypeOK /\ OrganisationTypeOK /\ StalenessTypeOK
      /\ Screenings!TypeOK
      => TypeOK
  BY DEF TypeOK
<1> QED
  BY <1>1, <1>2, PartsImplemented, SessionsTypeCorrect, MfaTypeCorrect, TokensTypeCorrect,
     RetentionTypeCorrect, RatingTypeCorrect, KytTypeCorrect, OwnershipTypeCorrect,
     MediaTypeCorrect, OnboardingTypeCorrect, IdentityTypeCorrect, OnlyTheLocalListCorrect,
     MigrationTypeCorrect, OrganisationTypeCorrect, StalenessTypeCorrect, PTL

\* What the parts guarantee together however their requests overlap.
THEOREM OverlappingCorrect ==
    Spec => /\ [](ChallengedFirst /\ CodeAcceptedOnce /\ SpentOnceByWork)
            /\ [](OneLiveLink /\ AdmittedIsLinked)
            /\ [](OneFindingPerArticle /\ DoneIsComplete /\ OnlyTheLocalList /\ UpgradedOnce)
            /\ OverdueNeedsReview /\ SplitIsRaised /\ NomineeNeverHelps
BY PartsImplemented, ChallengedFirstCorrect, CodeAcceptedOnceCorrect, SpentOnceByWorkCorrect,
   OneLiveLinkCorrect, AdmittedIsLinkedCorrect, OneFindingPerArticleCorrect, DoneIsCompleteCorrect,
   OnlyTheLocalListCorrect, UpgradedOnceCorrect, OverdueNeedsReviewCorrect, SplitIsRaisedCorrect,
   NomineeNeverHelpsCorrect, PTL

\* What they guarantee besides when requests do not overlap.
THEOREM SequentialCorrect ==
    ASSUME OneRequest
    PROVE  Spec => /\ [](SessionLimit /\ PasswordEndsSessions /\ LocksOut /\ ConfirmedIsProven)
                   /\ [](NoOrphanedFile /\ OneFilePerIdentity /\ NoLookalikes)
                   /\ PurgedInTime /\ OnlyExtended
<1>1. OneRequestEach
  BY OneRequestIsOneEach
<1> QED
  BY <1>1, PartsImplemented, SessionLimitCorrect, PasswordEndsSessionsCorrect,
     LocksOutCorrect, ConfirmedIsProvenCorrect, NoOrphanedFileCorrect,
     OneFilePerIdentityCorrect, NoLookalikesCorrect, PurgedInTimeCorrect,
     OnlyExtendedCorrect, PTL
===============================================================================
