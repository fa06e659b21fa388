----------------------------- MODULE Antifraud -----------------------------
(***************************************************************************)
(* The antifraud service: one call of OnlineCheck runs the rules of its    *)
(* kind in goroutines of one errgroup.  Each rule reads a feature of the   *)
(* sender from Cassandra and returns nil or an error; the first error wins *)
(* and cancels the context of the others.  The handler turns an error that *)
(* contains "declined" into Declined and any other into FailedPrecondition.*)
(*                                                                         *)
(* The features are those of one sender.  Airflow refreshes them behind    *)
(* the service's back.                                                     *)
(***************************************************************************)
EXTENDS Integers, FiniteSets

CONSTANTS
    Call,       \* calls of OnlineCheck
    KindOf,     \* which RPC a call is
    AmountOf,   \* transaction.amount
    Total,      \* values of the features that are sums of money
    Count,      \* numbers of partners
    MaxRefresh  \* bound: refreshes by Airflow

ASSUME AntifraudAssumption ==
    /\ KindOf \in [Call -> {"CashOut", "Internal", "SbpOutgoing"}]
    /\ AmountOf \in [Call -> Int]
    /\ Total \subseteq Int
    /\ Count \subseteq Nat
    /\ MaxRefresh \in Nat

Rule    == {"bigSpent", "largeCashOut", "manyPartners"}
Feature == {"spent3h", "cashOut30m", "sbpPartners30m", "internalPartners30m"}

\* The rules main.go configures for each RPC.
RulesOf(c) ==
    IF KindOf[c] = "CashOut" THEN {"bigSpent", "largeCashOut"}
                             ELSE {"bigSpent", "manyPartners"}

\* amountThs: a rule runs from this amount on.
AmountThs == [bigSpent |-> 7500000, largeCashOut |-> 4500000, manyPartners |-> 1000000]

\* largeThs and partners: a rule declines from here on.
LargeThs == [bigSpent |-> 9000000, largeCashOut |-> 11000000]
Partners == 10

\* getPartnersLastNBuckets(..., 5) is LIMIT 5 on the rows.
RowLimit == 5

FeatureOf(c, rule) ==
    CASE rule = "bigSpent"     -> "spent3h"
      [] rule = "largeCashOut" -> "cashOut30m"
      [] rule = "manyPartners" -> IF KindOf[c] = "Internal" THEN "internalPartners30m"
                                                            ELSE "sbpPartners30m"

VARIABLES
    feature,   \* the newest rows of the feature tables
    refreshes, \* refreshes so far
    rule,      \* where each goroutine of a call is
    first,     \* the error the errgroup keeps
    cancelled, \* the context of the call is cancelled
    answer,    \* what the caller gets
    fraud,     \* rules that returned "declined"
    broken,    \* the store failed for a rule
    gone,      \* the caller went away or its deadline passed
    shifted    \* a feature changed while the rules ran

store == <<feature, refreshes>>
call  == <<rule, first, cancelled, answer>>
ghost == <<fraud, broken, gone, shifted>>
vars  == <<store, call, ghost>>

Init ==
    /\ feature \in [Feature -> Total \cup Count]
    /\ \A f \in {"spent3h", "cashOut30m"} : feature[f] \in Total
    /\ \A f \in {"sbpPartners30m", "internalPartners30m"} : feature[f] \in Count
    /\ refreshes = 0
    /\ rule = [c \in Call |-> [r \in RulesOf(c) |-> "ready"]]
    /\ first = [c \in Call |-> "none"]
    /\ cancelled = [c \in Call |-> FALSE]
    /\ answer = [c \in Call |-> "none"]
    /\ fraud = [c \in Call |-> {}]
    /\ broken = [c \in Call |-> FALSE]
    /\ gone = [c \in Call |-> FALSE]
    /\ shifted = [c \in Call |-> FALSE]

\* Variant of Return: the last error of the goroutines is reported.
ReturnLast(c, r, err) ==
    /\ rule' = [rule EXCEPT ![c][r] = "returned"]
    /\ first' = [first EXCEPT ![c] = IF err = "none" THEN @ ELSE err]
    /\ cancelled' = [cancelled EXCEPT ![c] = @ \/ err # "none"]

\* The goroutine returns err; errgroup keeps the first error and cancels.
Return(c, r, err) ==
    /\ rule' = [rule EXCEPT ![c][r] = "returned"]
    /\ IF err = "none" \/ first[c] # "none"
       THEN UNCHANGED first
       ELSE first' = [first EXCEPT ![c] = err]
    /\ cancelled' = [cancelled EXCEPT ![c] = @ \/ err # "none"]

ShouldRun(c, r) == AmountOf[c] >= AmountThs[r]

\* Variant of Start: a goroutine whose context is cancelled never returns.
StartOrHang(c, r) ==
    /\ rule[c][r] = "ready"
    /\ ~cancelled[c]
    /\ IF ~ShouldRun(c, r) THEN Return(c, r, "none")
       ELSE /\ rule' = [rule EXCEPT ![c][r] = "reading"]
            /\ UNCHANGED <<first, cancelled>>
    /\ UNCHANGED <<store, answer, ghost>>

\* A goroutine starts: a cancelled context, or ShouldRun, may end it at once.
Start(c, r) ==
    /\ rule[c][r] = "ready"
    /\ IF cancelled[c] THEN Return(c, r, "cancelled")
       ELSE IF ~ShouldRun(c, r) THEN Return(c, r, "none")
       ELSE /\ rule' = [rule EXCEPT ![c][r] = "reading"]
            /\ UNCHANGED <<first, cancelled>>
    /\ UNCHANGED <<store, answer, ghost>>

\* What the query of a rule can return: LIMIT cuts the partners, of whom
\* several rows may name the same one.
Readable(r, value) ==
    IF r = "manyPartners" /\ value > 0
    THEN 1 .. (IF value < RowLimit THEN value ELSE RowLimit)
    ELSE {value}

Exceeds(c, r, value) ==
    IF r = "manyPartners" THEN value >= Partners
                          ELSE AmountOf[c] + value >= LargeThs[r]

\* Variant of Decide: a sum equal to the limit passes.
DecideAbove(c, r) ==
    /\ rule[c][r] = "reading"
    /\ \E value \in Readable(r, feature[FeatureOf(c, r)]) :
           IF Exceeds(c, r, value - 1)
           THEN /\ Return(c, r, "declined")
                /\ fraud' = [fraud EXCEPT ![c] = @ \cup {r}]
           ELSE /\ Return(c, r, "none")
                /\ UNCHANGED fraud
    /\ UNCHANGED <<store, answer, broken, gone, shifted>>

\* The store answers and the rule decides.
Decide(c, r) ==
    /\ rule[c][r] = "reading"
    /\ \E value \in Readable(r, feature[FeatureOf(c, r)]) :
           IF Exceeds(c, r, value)
           THEN /\ Return(c, r, "declined")
                /\ fraud' = [fraud EXCEPT ![c] = @ \cup {r}]
           ELSE /\ Return(c, r, "none")
                /\ UNCHANGED fraud
    /\ UNCHANGED <<store, answer, broken, gone, shifted>>

\* Variant of StoreError: a rule that cannot read its feature declines.
StoreErrorDeclines(c, r, err) == Return(c, r, IF r = "bigSpent" THEN "none" ELSE "declined")

\* What a rule makes of an error of the store: bigSpent drops it.
StoreError(c, r, err) == Return(c, r, IF r = "bigSpent" THEN "none" ELSE err)

\* The query ends with the cancellation of the context.
ReadCancelled(c, r) ==
    /\ rule[c][r] = "reading"
    /\ cancelled[c]
    /\ StoreError(c, r, "cancelled")
    /\ UNCHANGED <<store, answer, ghost>>

\* Cassandra fails (timeout, no host).
ReadFails(c, r) ==
    /\ rule[c][r] = "reading"
    /\ StoreError(c, r, "storeError")
    /\ broken' = [broken EXCEPT ![c] = TRUE]
    /\ UNCHANGED <<store, answer, fraud, gone, shifted>>

\* The handler looks for "declined" in the text of the error.
StatusOf(err) ==
    CASE err = "none"     -> "Approved"
      [] err = "declined" -> "Declined"
      [] OTHER            -> "FailedPrecondition"

\* Variant of Answer: the error of the rules is handed to the caller as it is.
AnswerRaw(c) ==
    /\ answer[c] = "none"
    /\ \A r \in RulesOf(c) : rule[c][r] = "returned"
    /\ answer' = [answer EXCEPT ![c] = IF first[c] = "none" THEN "Approved" ELSE first[c]]
    /\ UNCHANGED <<store, rule, first, cancelled, ghost>>

\* g.Wait returns and the handler answers.
Answer(c) ==
    /\ answer[c] = "none"
    /\ \A r \in RulesOf(c) : rule[c][r] = "returned"
    /\ answer' = [answer EXCEPT ![c] = StatusOf(first[c])]
    /\ UNCHANGED <<store, rule, first, cancelled, ghost>>

\* The deadline the caller set passes, or the caller goes away.
CallerCancels(c) ==
    /\ answer[c] = "none"
    /\ ~gone[c]
    /\ cancelled' = [cancelled EXCEPT ![c] = TRUE]
    /\ gone' = [gone EXCEPT ![c] = TRUE]
    /\ UNCHANGED <<store, rule, first, answer, fraud, broken, shifted>>

\* Airflow writes a newer window.
Refresh ==
    /\ refreshes < MaxRefresh
    /\ refreshes' = refreshes + 1
    /\ \E f \in Feature :
           \E value \in IF f \in {"spent3h", "cashOut30m"} THEN Total ELSE Count :
               /\ value # feature[f]
               /\ feature' = [feature EXCEPT ![f] = value]
    /\ shifted' = [c \in Call |-> shifted[c] \/ \E r \in RulesOf(c) : rule[c][r] # "ready"]
    /\ UNCHANGED <<call, fraud, broken, gone>>

\* Every call is answered.
Idle ==
    /\ \A c \in Call : answer[c] # "none"
    /\ UNCHANGED vars

Step(c) ==
    \/ \E r \in RulesOf(c) : Start(c, r) \/ Decide(c, r) \/ ReadCancelled(c, r) \/ ReadFails(c, r)
    \/ Answer(c)

Next ==
    \/ \E c \in Call : Step(c) \/ CallerCancels(c)
    \/ Refresh
    \/ Idle

Spec == Init /\ [][Next]_vars

\* Goroutines run and queries end, with an answer or an error (gocql's
\* timeout): a step that is possible for a call is taken.
FairSpec == Spec /\ \A c \in Call : WF_vars(Step(c))

-----------------------------------------------------------------------------
(* Properties. *)

\* Every variable holds a value of its type.
TypeOK ==
    /\ feature \in [Feature -> Total \cup Count]
    /\ refreshes \in Nat
    /\ \A c \in Call : rule[c] \in [RulesOf(c) -> {"ready", "reading", "returned"}]
    /\ first \in [Call -> {"none", "declined", "storeError", "cancelled"}]
    /\ cancelled \in [Call -> BOOLEAN]
    /\ answer \in [Call -> {"none", "Approved", "Declined", "FailedPrecondition"}]
    /\ fraud \in [Call -> SUBSET Rule]
    /\ broken \in [Call -> BOOLEAN]
    /\ gone \in [Call -> BOOLEAN]
    /\ shifted \in [Call -> BOOLEAN]

\* The rules of a call that decline the features as they are.
Suspicious(c) ==
    {r \in RulesOf(c) :
        /\ ShouldRun(c, r)
        /\ \E value \in Readable(r, feature[FeatureOf(c, r)]) : Exceeds(c, r, value)}

\* The answer to a call is being given, and nothing got in its way.
Answers(c) == answer[c] = "none" /\ answer'[c] # "none"
Undisturbed(c) == ~broken[c] /\ ~gone[c] /\ ~shifted[c]

\* A call that met no error and no refresh is declined exactly when one of
\* its rules objects to the features, in whatever order the goroutines run
\* and although the first objection cancels the other rules.
VerdictIsTheRules ==
    [][\A c \in Call :
           Answers(c) /\ Undisturbed(c) =>
               answer'[c] = IF Suspicious(c) # {} THEN "Declined" ELSE "Approved"]_vars

\* A cancellation that the service caused itself never hides a decline, and
\* nobody is declined without a rule that objects, even when the store fails.
DeclinesHaveAReason ==
    \A c \in Call :
        /\ answer[c] = "Declined" => fraud[c] # {}
        /\ answer[c] # "none" /\ fraud[c] # {} /\ ~broken[c] /\ ~gone[c] =>
               answer[c] = "Declined"

\* Every call is answered.
CallsEnd == \A c \in Call : <>(answer[c] # "none")

\* README (sequence diagram): a fraudulent transaction is declined.  A rule
\* of a call that its caller still waits for found fraud.
FraudIsDeclined ==
    \A c \in Call :
        answer[c] # "none" /\ fraud[c] # {} /\ ~gone[c] => answer[c] = "Declined"

\* featureName.go, many_partners.go: a sender with `Partners` partners in the
\* last 30 minutes or more is declined.
ManyPartnersAreDeclined ==
    [][\A c \in Call :
           /\ Answers(c) /\ Undisturbed(c)
           /\ "manyPartners" \in RulesOf(c) /\ ShouldRun(c, "manyPartners")
           /\ feature[FeatureOf(c, "manyPartners")] >= Partners
           => answer'[c] = "Declined"]_vars
=============================================================================
