------------------------------- MODULE System -------------------------------
(***************************************************************************)
(* processing_core with the antifraud it asks.  Processing assumes nothing *)
(* of the antifraud, and Antifraud nothing of its callers; here each debit *)
(* is one call of OnlineCheck, and what the core does next is tied to what *)
(* the rules answered, through the client of af_integration.go, its        *)
(* deadlines, and a connection that may fail.                              *)
(***************************************************************************)
EXTENDS Processing

CONSTANTS
    Unit,      \* kopecks in one unit of the core's amounts
    Total,     \* values of the features that are sums of money
    Count      \* numbers of partners

ASSUME SystemAssumption ==
    /\ Unit \in Nat \ {0}
    /\ Total \subseteq Int
    /\ Count \subseteq Nat

VARIABLES
    \* the antifraud (see Antifraud)
    feature, refreshes, rule, first, cancelled, answer, fraud, broken, gone, shifted,
    \* why the core went on without an answer
    excuse

antifraud  == <<feature, refreshes, rule, first, cancelled, answer, fraud, broken, gone, shifted>>
systemVars == <<vars, antifraud, excuse>>

Debit == {r \in Request : Debits(r)}

\* Features stay as they are here; Antifraud's own run changes them.
AF == INSTANCE Antifraud WITH
          Call       <- Debit,
          KindOf     <- [r \in Debit |-> KindOf[r]],
          AmountOf   <- [r \in Debit |-> AmountOf[r] * Unit],
          MaxRefresh <- 0

SystemInit ==
    /\ Init
    /\ AF!Init
    /\ excuse = [r \in Request |-> "none"]

-----------------------------------------------------------------------------

\* The call is on its way or with the antifraud.
Begun(r) == \E x \in AF!RulesOf(r) : rule[r][x] # "ready"
Asked(r) == pc[r] = "antifraud" \/ Begun(r)

\* A step of the antifraud for a call, which it finishes even when the core
\* no longer waits.
Check(r) ==
    /\ Asked(r)
    /\ AF!Step(r)
    /\ UNCHANGED <<vars, excuse>>

\* The context of the call is cancelled: its deadline passed, which a
\* cash-out does not have, or the core went on.
Cancel(r) ==
    /\ Begun(r)
    /\ KindOf[r] # "CashOut" \/ pc[r] # "antifraud"
    /\ AF!CallerCancels(r)
    /\ UNCHANGED <<vars, excuse>>

\* The answer arrives: Approved, Declined, or a status the client takes for
\* no answer at all.
Approved(r) ==
    /\ answer[r] = "Approved"
    /\ AntifraudApproves(r)
    /\ UNCHANGED <<antifraud, excuse>>

Declined(r) ==
    /\ answer[r] = "Declined"
    /\ AntifraudDeclines(r)
    /\ UNCHANGED <<antifraud, excuse>>

Unusable(r) ==
    /\ answer[r] = "FailedPrecondition"
    /\ AntifraudUnavailable(r)
    /\ UNCHANGED <<antifraud, excuse>>

\* Variant of Deadline: every call is abandoned after a while.
DeadlineForAll(r) ==
    /\ AntifraudUnavailable(r)
    /\ excuse' = [excuse EXCEPT ![r] = "deadline"]
    /\ UNCHANGED antifraud

Deadline(r) ==
    /\ AntifraudDeadline(r)
    /\ excuse' = [excuse EXCEPT ![r] = "deadline"]
    /\ UNCHANGED antifraud

\* The connection between the services fails during the call.
Disconnect(r) ==
    /\ AntifraudUnavailable(r)
    /\ excuse' = [excuse EXCEPT ![r] = "connection"]
    /\ UNCHANGED antifraud

\* What the core does without the antifraud.
Alone(r) == Receive(r) \/ Step(r) \/ DeadlockAbort(r)

\* Crashes, statements that fail and features that change are left to the two
\* modules, where they meet every state of a handler.
SystemNext ==
    \/ \E r \in Request : Alone(r) /\ UNCHANGED <<antifraud, excuse>>
    \/ \E r \in Debit : \/ Check(r) \/ Cancel(r)
                        \/ Approved(r) \/ Declined(r) \/ Unusable(r)
                        \/ Deadline(r) \/ Disconnect(r)
    \/ Idle /\ UNCHANGED <<antifraud, excuse>>

SystemSpec == SystemInit /\ [][SystemNext]_systemVars

\* What the two services, deadlines and Postgres do on their own, and the
\* arrival of an answer that was given.
Progress ==
    \/ \E r \in Request : (Step(r) \/ DeadlockAbort(r)) /\ UNCHANGED <<antifraud, excuse>>
    \/ \E r \in Debit : Check(r) \/ Approved(r) \/ Declined(r) \/ Unusable(r) \/ Deadline(r)

\* The services go on while one of them can.  Requests take finitely many
\* steps, so that none can starve the others.
FairSystemSpec == SystemSpec /\ WF_systemVars(Progress)

-----------------------------------------------------------------------------
(* Properties. *)

\* README (sequence diagram), end to end: money of a debit to which a rule
\* objected moves only because the feature store failed, because the
\* connection failed, or, for transfers, because the deadline had passed.
FraudMovesOnlyByFault ==
    \A r \in Debit :
        r \in outbox /\ fraud[r] # {} =>
            \/ broken[r]
            \/ excuse[r] = "connection"
            \/ KindOf[r] # "CashOut" /\ (excuse[r] = "deadline" \/ gone[r])

\* CashOutCheck: cash that leaves the bank without an approval leaves after a
\* failure that can be named, and never because an answer was late.  That is
\* the code; README.md:319 lets every operation go on when the antifraud is late
\* (see run silent_antifraud), and with its deadline this would not hold.
CashNeedsAnAnswer ==
    \A r \in payouts :
        KindOf[r] = "CashOut" /\ verdict[r] # "approved" =>
            excuse[r] = "connection" \/ (answer[r] = "FailedPrecondition" /\ broken[r])

\* With an antifraud that runs, a time comes when every request that was
\* received has ended, the cash-outs without a deadline included.
AllRequestsEnd == []<>(\A r \in Request : pc[r] \in {"new"} \cup Finished)
=============================================================================
