---------------------------------- MODULE Kyt ----------------------------------
(***************************************************************************)
(* Transaction monitoring of one customer (screening/kyt.py): every rule   *)
(* is evaluated for the transaction just recorded, in its transaction, so  *)
(* that two requests never interleave here.                                *)
(*                                                                         *)
(* Operators enter transactions in any order, with the date they happened  *)
(* on.  Amounts and dates are small numbers; the rule on countries, which *)
(* looks at the transaction's own country alone, is left out.              *)
(***************************************************************************)
EXTENDS Requests, Integers, Sequences, FiniteSets, FiniteSetsExt

CONSTANTS
    Amounts,
    TransactionDates,         \* when a transaction happened
    Methods,                  \* of payment: "cash", and others
    Thresholds,               \* what an organisation may configure
    Windows,
    LARGE_CASH_THRESHOLD_AED, \* in force until it does
    STRUCTURING_WINDOW_DAYS,
    STRUCTURING_MIN_COUNT,
    VELOCITY_WINDOW,
    VELOCITY_MAX_COUNT,
    MaxTransactions           \* bound

ASSUME KytAssumption ==
    /\ Amounts \subseteq Nat /\ TransactionDates \subseteq Nat /\ Thresholds \subseteq Nat
    /\ Windows \subseteq Nat
    /\ "cash" \in Methods
    /\ \A n \in {LARGE_CASH_THRESHOLD_AED, STRUCTURING_WINDOW_DAYS, STRUCTURING_MIN_COUNT, VELOCITY_WINDOW,
                 VELOCITY_MAX_COUNT, MaxTransactions} : n \in Nat

VARIABLES
    transactions,   \* the rows of transactions, by id
    raised,         \* the open rows of transaction_alerts, by rule and transaction
    setting         \* org_settings.kyt_large_cash_threshold and kyt_structuring_window_days

kytVars == <<transactions, raised, setting>>

-------------------------------------------------------------------------------
\* Vocabulary

\* "other" and crypto count as cash does for structuring but not for large_cash;
\* a wire, cheque or card counts for neither.
STRUCTURING_METHODS == {"cash", "other"}
RuleConfig == [threshold : Thresholds \cup {None}, window : Windows \cup {None}]
Transaction == [direction : {"in", "out"}, method : Methods, amount : Amounts, at : TransactionDates]

\* get_rule_config: each request reads the settings on a connection of its own, so
\* that the cache, which is kept by connection, is never stale.  The limits
\* of velocity, which can be configured too, stay at their defaults.
threshold == IF setting.threshold = None THEN LARGE_CASH_THRESHOLD_AED ELSE setting.threshold
window_days == IF setting.window = None THEN STRUCTURING_WINDOW_DAYS ELSE setting.window

_has_open_alert(rule) == \E a \in raised : a.rule = rule

\* Rows the structuring rule reads for a transaction: its kind, on both sides of it.
\* Mutation: only what happened before.
Before(txs, id) == {i \in DOMAIN txs :
    /\ txs[i].direction = txs[id].direction /\ txs[i].method \in STRUCTURING_METHODS
    /\ txs[i].at \in txs[id].at - window_days..txs[id].at}
Siblings(txs, id) == {i \in DOMAIN txs :
    /\ txs[i].direction = txs[id].direction /\ txs[i].method \in STRUCTURING_METHODS
    /\ txs[i].at \in txs[id].at - window_days..txs[id].at + window_days}

\* A window opens at one of them; amounts of the threshold and more do not count.
InWindow(txs, id, start) ==
    {i \in Siblings(txs, id) : txs[i].at \in txs[start].at..txs[start].at + window_days}
AmountOf(txs, ids) == SumFunctionOnSet([i \in DOMAIN txs |-> txs[i].amount], ids)

Structuring(txs, id) ==
    /\ txs[id].method \in STRUCTURING_METHODS /\ ~_has_open_alert("structuring")
    /\ txs[id].amount < threshold
    /\ \E start \in Siblings(txs, id) :
          LET window == InWindow(txs, id, start)
              under == {i \in window : txs[i].amount < threshold}
          IN /\ id \in window
             /\ AmountOf(txs, under) >= threshold
             /\ Cardinality(under) >= STRUCTURING_MIN_COUNT

\* The window of velocity ends at the transaction.
Velocity(txs, id) ==
    Cardinality({i \in DOMAIN txs : txs[i].at \in txs[id].at - VELOCITY_WINDOW..txs[id].at})
        > VELOCITY_MAX_COUNT

evaluate_transaction(txs, id) ==
    LET tx == txs[id]
        rules == [large_cash |-> tx.method = "cash" /\ tx.amount >= threshold,
                  large_value |-> tx.method # "cash" /\ tx.amount >= threshold,
                  structuring |-> Structuring(txs, id),
                  velocity |-> Velocity(txs, id)]
    IN {rule \in DOMAIN rules : rules[rule]}

-------------------------------------------------------------------------------
KytInit ==
    /\ transactions = <<>>
    /\ raised = {}
    /\ setting = [threshold |-> None, window |-> None]

record_transaction_evaluated(tx) ==
    LET txs == Append(transactions, tx)
        id == Len(txs)
    IN /\ id <= MaxTransactions
       /\ transactions' = txs
       /\ raised' = raised \cup {[rule |-> rule, id |-> id] : rule \in evaluate_transaction(txs, id)}
       /\ UNCHANGED setting

\* A decided alert is no longer open; one officer is enough.
disposition_raised(a) ==
    /\ raised' = raised \ {a}
    /\ UNCHANGED <<transactions, setting>>

save_rule_config(config) ==
    /\ setting' = config
    /\ UNCHANGED <<transactions, raised>>

KytNext ==
    \/ \E tx \in Transaction : record_transaction_evaluated(tx)
    \/ \E a \in raised : disposition_raised(a)
    \/ \E config \in RuleConfig : save_rule_config(config)

KytSpec == KytInit /\ [][KytNext]_kytVars

-------------------------------------------------------------------------------
\* Properties

\* Types of the rows.
KytTypeOK ==
    /\ transactions \in Seq(Transaction)
    /\ raised \subseteq [rule : {"large_cash", "large_value", "structuring", "velocity"},
                         id : DOMAIN transactions]
    /\ setting \in RuleConfig

\* Amounts of one direction kept under the threshold that reach it together.
Split(txs, ids) ==
    /\ Cardinality(ids) >= STRUCTURING_MIN_COUNT
    /\ \A i, j \in ids : /\ txs[i].direction = txs[j].direction
                         /\ txs[i].at - txs[j].at <= window_days
    /\ \A i \in ids : txs[i].method \in STRUCTURING_METHODS /\ txs[i].amount < threshold
    /\ AmountOf(txs, ids) >= threshold

\* In whatever order its parts are entered, whatever was decided and configured before,
\* a split amount leaves a structuring alert open once its last part is recorded.
SplitIsRaised ==
    [][transactions' # transactions =>
           LET id == Len(transactions') IN
           (\E ids \in SUBSET DOMAIN transactions' : id \in ids /\ Split(transactions', ids))
               => \E a \in raised' : a.rule = "structuring"]_kytVars
===============================================================================
