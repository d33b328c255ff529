------------------------------- MODULE Ownership -------------------------------
(***************************************************************************)
(* The recorded owners of one legal person and what the risk rating makes  *)
(* of them: add_ubo, ownership_state and _identified_ownership of          *)
(* cases/manager.py.                                                       *)
(*                                                                         *)
(* A row of ubo_links is a stake in the customer, or in the row it names   *)
(* as its parent.  Rows are only added, so a parent is always older than   *)
(* its children and the chain has no cycle.  Effective shares are kept in  *)
(* units that leave no remainder down to the deepest level.                *)
(***************************************************************************)
EXTENDS Requests, Integers, Sequences, FiniteSets, FiniteSetsExt

CONSTANTS
    Persons,                \* names an owner can be recorded under
    Self,               \* the name of the customer itself
    Percents,               \* stakes that are entered; 0 also stands for none entered
    UBO_THRESHOLD_PCT,
    MAX_UBO_DEPTH,
    MAX_UBOS_PER_CUSTOMER

ASSUME OwnershipAssumption ==
    /\ Percents \subseteq 0..100 /\ UBO_THRESHOLD_PCT \in 0..100
    /\ MAX_UBO_DEPTH \in Nat \ {0} /\ MAX_UBOS_PER_CUSTOMER \in Nat

VARIABLES
    ubo_links,   \* the rows, in the order of their ids
    adding       \* adding[s]: the row the request in slot s is about to insert

ownershipVars == <<ubo_links, adding>>

-------------------------------------------------------------------------------
\* Vocabulary

Top == 0   \* parent_ubo_id IS NULL
UboIds == 1..Len(ubo_links)
Stakes(parent) == {i \in UboIds : ubo_links[i].parent = parent}
Stake(rows) == SumFunctionOnSet([i \in UboIds |-> ubo_links[i].pct], rows)

\* The number of levels from the customer down to row i.
Depth == LET depth[i \in 0..Len(ubo_links)] ==
                 IF i = Top THEN 0 ELSE 1 + depth[ubo_links[i].parent]
         IN depth

\* Set when the row is recorded, from its own stake.
IsUbo(row) == ~row.nominee /\ (row.control = "senior_official" \/ row.pct >= UBO_THRESHOLD_PCT)

\* _identified_ownership: a stake times the effective share of its parent.
Unit == LET unit[d \in 1..MAX_UBO_DEPTH] == IF d = 1 THEN 1 ELSE 100 * unit[d - 1]
        IN unit[MAX_UBO_DEPTH]
Effective == LET eff[i \in 0..Len(ubo_links)] ==
                     IF i = Top THEN 100 * Unit
                     ELSE (ubo_links[i].pct * eff[ubo_links[i].parent]) \div 100
             IN eff

\* The owners that count: a corporate owner with owners of its own does not.
\* Mutation: a nominee does.
HoldingNominees(i) == IsUbo([ubo_links[i] EXCEPT !.nominee = FALSE]) /\ Stakes(i) = {}
Holding(i) == IsUbo(ubo_links[i]) /\ Stakes(i) = {}

\* The same person twice under one parent counts once, with the larger stake.
SameHolder(i, j) == /\ ubo_links[i].person = ubo_links[j].person
                    /\ ubo_links[i].parent = ubo_links[j].parent
Superseded(i) == \E j \in UboIds : /\ Holding(j) /\ SameHolder(i, j)
                                  /\ \/ Effective[j] > Effective[i]
                                     \/ Effective[j] = Effective[i] /\ j < i
identified_ownership ==
    Min({100 * Unit, SumFunctionOnSet(Effective, {i \in UboIds : Holding(i) /\ ~Superseded(i)})})

ownership_state ==
    LET own == {i \in UboIds : ~ubo_links[i].nominee} IN
    IF \E i \in own : ubo_links[i].control = "nominee" THEN "nominee_or_bearer"
    ELSE IF ~\E i \in own : IsUbo(ubo_links[i]) THEN "ubo_undisclosed"
    ELSE IF identified_ownership < 50 * Unit THEN "multi_layer_offshore"
    ELSE IF identified_ownership < 75 * Unit THEN "single_layer_foreign"
    ELSE "fully_transparent"

\* risk/ruleset.yaml: what the state adds to the risk score.
points_by_state ==
    [ubo_undisclosed |-> 45, nominee_or_bearer |-> 40, multi_layer_offshore |-> 30,
     single_layer_foreign |-> 15, fully_transparent |-> 0]

-------------------------------------------------------------------------------
OwnershipInit == /\ ubo_links = <<>>
                 /\ adding = [s \in Slots |-> None]

\* _check_ubo_structure and the sum of the direct stakes.
MayAdd(row) ==
    /\ row.person # Self
    /\ Len(ubo_links) < MAX_UBOS_PER_CUSTOMER
    /\ Depth[row.parent] < MAX_UBO_DEPTH
    /\ row.parent = Top => Stake(Stakes(Top)) + row.pct <= 100

\* add_ubo checks in autocommit; the INSERT opens the transaction.
AddUboCheck(s, row) ==
    /\ adding[s] = None /\ MayAdd(row)
    /\ adding' = [adding EXCEPT ![s] = row]
    /\ UNCHANGED ubo_links

AddUboInsert(s) ==
    /\ adding[s] # None
    /\ ubo_links' = Append(ubo_links, adding[s])
    /\ adding' = [adding EXCEPT ![s] = None]

AddUboDies(s) ==
    /\ adding[s] # None
    /\ adding' = [adding EXCEPT ![s] = None]
    /\ UNCHANGED ubo_links

UboRow == [person : Persons \cup {Self}, pct : Percents, parent : UboIds \cup {Top},
         control : {"ownership", "senior_official", "nominee"}, nominee : BOOLEAN]

OwnershipNext == \E s \in Slots : \/ \E row \in UboRow : AddUboCheck(s, row)
                                  \/ AddUboInsert(s) \/ AddUboDies(s)

OwnershipSpec == OwnershipInit /\ [][OwnershipNext]_ownershipVars

-------------------------------------------------------------------------------
\* Properties

\* Types of the rows; a chain never leads back, so that every depth is defined.
OwnershipTypeOK ==
    /\ \A i \in UboIds : ubo_links[i] \in UboRow /\ ubo_links[i].parent < i
    /\ \A s \in Slots : adding[s] \in UboRow \cup {None}

\* Recording a nominee, wherever in the chain, never makes the ownership look clearer
\* to the risk rating.
NomineeNeverHelps ==
    [][Len(ubo_links') > Len(ubo_links) /\ ubo_links'[Len(ubo_links')].nominee
           => points_by_state[ownership_state] <= points_by_state[ownership_state']]_ownershipVars
===============================================================================
