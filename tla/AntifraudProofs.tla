-------------------------- MODULE AntifraudProofs --------------------------
(***************************************************************************)
(* Proofs about Antifraud for any number of calls, amounts and feature     *)
(* values, and any order of the goroutines.                                *)
(***************************************************************************)
EXTENDS Antifraud, TLAPS

USE AntifraudAssumption

-----------------------------------------------------------------------------
(***************************************************************************)
(* The inductive invariant.  What makes a decline win is that the context  *)
(* of a call is cancelled only by its caller or by an error the errgroup   *)
(* keeps, so that the errors a cancellation causes come too late to be     *)
(* kept.                                                                   *)
(***************************************************************************)

GoroutinesTyped ==
    /\ rule = [c \in Call |-> rule[c]]
    /\ \A c \in Call : rule[c] \in [RulesOf(c) -> {"ready", "reading", "returned"}]

\* What the errgroup keeps of a call, and why.
FirstExplained(c) ==
    /\ cancelled[c] => gone[c] \/ first[c] # "none"
    /\ first[c] = "cancelled" => gone[c]
    /\ first[c] = "storeError" => broken[c]
    /\ first[c] = "declined" => fraud[c] # {}
    /\ fraud[c] # {} => first[c] # "none"

\* The answer is the errgroup's error once every goroutine has returned.
AnswerFinal(c) ==
    answer[c] # "none" =>
        /\ \A r \in RulesOf(c) : rule[c][r] = "returned"
        /\ answer[c] = StatusOf(first[c])

AInv ==
    /\ TypeOK
    /\ GoroutinesTyped
    /\ \A c \in Call : FirstExplained(c) /\ AnswerFinal(c)

-----------------------------------------------------------------------------

\* The rules of a call are rules.
LEMMA RulesAreRules == \A c \in Call : RulesOf(c) \subseteq Rule
  BY DEF RulesOf, Rule

\* The invariant holds before the first call.
LEMMA AntifraudInit == Init => AInv
  BY DEF Init, AInv, TypeOK, GoroutinesTyped, FirstExplained, AnswerFinal

\* A goroutine that returns leaves everything well typed, and other calls as
\* they are.
LEMMA ReturnTyped ==
    ASSUME AInv, NEW c \in Call, NEW r \in RulesOf(c),
           NEW err \in {"none", "declined", "storeError", "cancelled"}, Return(c, r, err)
    PROVE  /\ GoroutinesTyped'
           /\ first' \in [Call -> {"none", "declined", "storeError", "cancelled"}]
           /\ cancelled' \in [Call -> BOOLEAN]
           /\ first'[c] = IF first[c] = "none" THEN err ELSE first[c]
           /\ cancelled'[c] <=> cancelled[c] \/ err # "none"
           /\ \A d \in Call \ {c} : /\ rule'[d] = rule[d] /\ first'[d] = first[d]
                                    /\ cancelled'[d] = cancelled[d]
  <1>1. /\ rule = [d \in Call |-> rule[d]]
        /\ rule[c] \in [RulesOf(c) -> {"ready", "reading", "returned"}]
        /\ first \in [Call -> {"none", "declined", "storeError", "cancelled"}]
        /\ cancelled \in [Call -> BOOLEAN]
    BY DEF AInv, TypeOK, GoroutinesTyped
  <1>2. rule' = [rule EXCEPT ![c][r] = "returned"]
    BY DEF Return
  <1>3. /\ rule'[c] \in [RulesOf(c) -> {"ready", "reading", "returned"}]
        /\ \A d \in Call \ {c} : rule'[d] = rule[d]
        /\ rule' = [d \in Call |-> rule'[d]]
    BY <1>1, <1>2
  <1>4. GoroutinesTyped'
    BY <1>3 DEF AInv, GoroutinesTyped
  <1>5. /\ first' \in [Call -> {"none", "declined", "storeError", "cancelled"}]
        /\ first'[c] = IF first[c] = "none" THEN err ELSE first[c]
        /\ \A d \in Call \ {c} : first'[d] = first[d]
    BY <1>1 DEF Return
  <1>6. /\ cancelled' \in [Call -> BOOLEAN]
        /\ cancelled'[c] <=> cancelled[c] \/ err # "none"
        /\ \A d \in Call \ {c} : cancelled'[d] = cancelled[d]
    BY <1>1 DEF Return
  <1>7. QED
    BY <1>3, <1>4, <1>5, <1>6

\* A goroutine returns an error that has a cause: the cause is recorded, or
\* it is a cancellation that somebody else caused.
LEMMA ReturnKeeps ==
    ASSUME AInv, NEW c \in Call, NEW r \in RulesOf(c),
           NEW err \in {"none", "declined", "storeError", "cancelled"}, Return(c, r, err),
           rule[c][r] # "returned", UNCHANGED <<store, answer, gone, shifted>>,
           err = "cancelled" => cancelled[c],
           fraud' = IF err = "declined" THEN [fraud EXCEPT ![c] = @ \cup {r}] ELSE fraud,
           broken' \in [Call -> BOOLEAN], \A d \in Call : broken[d] => broken'[d],
           err = "storeError" => broken'[c]
    PROVE  AInv'
  <1>1. /\ GoroutinesTyped'
        /\ first' \in [Call -> {"none", "declined", "storeError", "cancelled"}]
        /\ cancelled' \in [Call -> BOOLEAN]
        /\ first'[c] = IF first[c] = "none" THEN err ELSE first[c]
        /\ cancelled'[c] <=> cancelled[c] \/ err # "none"
        /\ \A d \in Call \ {c} : /\ rule'[d] = rule[d] /\ first'[d] = first[d]
                                 /\ cancelled'[d] = cancelled[d]
    BY ReturnTyped
  <1>2. /\ fraud' \in [Call -> SUBSET Rule]
        /\ fraud'[c] = IF err = "declined" THEN fraud[c] \cup {r} ELSE fraud[c]
        /\ \A d \in Call \ {c} : fraud'[d] = fraud[d]
    BY RulesAreRules DEF AInv, TypeOK
  <1>3. TypeOK'
    BY <1>1, <1>2 DEF AInv, TypeOK, GoroutinesTyped, store
  <1>4. answer[c] = "none"
    BY DEF AInv, AnswerFinal
  <1>5. FirstExplained(c)'
    BY <1>1, <1>2 DEF AInv, FirstExplained, TypeOK
  <1>6. AnswerFinal(c)'
    BY <1>4 DEF AnswerFinal
  <1>7. ASSUME NEW d \in Call \ {c} PROVE FirstExplained(d)' /\ AnswerFinal(d)'
    BY <1>1, <1>2 DEF AInv, FirstExplained, AnswerFinal
  <1>8. QED
    BY <1>1, <1>3, <1>5, <1>6, <1>7 DEF AInv

\* A goroutine starts: it may return at once, or it reads its feature.
LEMMA StartKeeps ==
    ASSUME AInv, NEW c \in Call, NEW r \in RulesOf(c), Start(c, r)
    PROVE  AInv'
  <1>1. /\ rule[c][r] = "ready" /\ UNCHANGED <<store, answer, fraud, broken, gone, shifted>>
        /\ broken \in [Call -> BOOLEAN]
    BY DEF Start, ghost, AInv, TypeOK
  <1>2. CASE cancelled[c]
    BY <1>1, <1>2, ReturnKeeps DEF Start
  <1>3. CASE ~cancelled[c] /\ ~ShouldRun(c, r)
    BY <1>1, <1>3, ReturnKeeps DEF Start
  <1>4. CASE ~cancelled[c] /\ ShouldRun(c, r)
    <2>1. /\ rule' = [rule EXCEPT ![c][r] = "reading"]
          /\ UNCHANGED <<first, cancelled>>
      BY <1>4 DEF Start
    <2>2. /\ rule = [d \in Call |-> rule[d]]
          /\ rule[c] \in [RulesOf(c) -> {"ready", "reading", "returned"}]
      BY DEF AInv, GoroutinesTyped
    <2>3. /\ rule'[c] \in [RulesOf(c) -> {"ready", "reading", "returned"}]
          /\ \A d \in Call \ {c} : rule'[d] = rule[d]
          /\ rule' = [d \in Call |-> rule'[d]]
      BY <2>1, <2>2
    <2>4. GoroutinesTyped'
      BY <2>3 DEF AInv, GoroutinesTyped
    <2>5. TypeOK'
      BY <1>1, <2>1, <2>4 DEF AInv, TypeOK, GoroutinesTyped, store
    <2>6. answer[c] = "none"
      BY <1>1 DEF AInv, AnswerFinal
    <2>7. \A d \in Call : FirstExplained(d)' /\ AnswerFinal(d)'
      BY <1>1, <2>1, <2>3, <2>6 DEF AInv, FirstExplained, AnswerFinal
    <2>8. QED
      BY <2>4, <2>5, <2>7 DEF AInv
  <1>5. QED
    BY <1>2, <1>3, <1>4

\* A goroutine gets its feature, or an error instead.
LEMMA ReadKeeps ==
    ASSUME AInv, NEW c \in Call, NEW r \in RulesOf(c),
           Decide(c, r) \/ ReadCancelled(c, r) \/ ReadFails(c, r)
    PROVE  AInv'
  <1>1. broken \in [Call -> BOOLEAN]
    BY DEF AInv, TypeOK
  <1>2. CASE Decide(c, r)
    <2>1. /\ rule[c][r] = "reading" /\ UNCHANGED <<store, answer, broken, gone, shifted>>
          /\ \E err \in {"none", "declined"} :
                 /\ Return(c, r, err)
                 /\ fraud' = IF err = "declined" THEN [fraud EXCEPT ![c] = @ \cup {r}] ELSE fraud
      BY <1>2 DEF Decide
    <2>2. QED
      BY <1>1, <2>1, ReturnKeeps
  <1>3. CASE ReadCancelled(c, r)
    <2>1. /\ rule[c][r] = "reading" /\ cancelled[c]
          /\ UNCHANGED <<store, answer, fraud, broken, gone, shifted>>
          /\ Return(c, r, "none") \/ Return(c, r, "cancelled")
      BY <1>3 DEF ReadCancelled, StoreError, ghost
    <2>2. QED
      BY <1>1, <2>1, ReturnKeeps
  <1>4. CASE ReadFails(c, r)
    <2>1. /\ rule[c][r] = "reading" /\ broken' = [broken EXCEPT ![c] = TRUE]
          /\ UNCHANGED <<store, answer, fraud, gone, shifted>>
          /\ Return(c, r, "none") \/ Return(c, r, "storeError")
      BY <1>4 DEF ReadFails, StoreError
    <2>2. /\ broken' \in [Call -> BOOLEAN] /\ broken'[c]
          /\ \A d \in Call : broken[d] => broken'[d]
      BY <1>1, <2>1
    <2>3. QED
      BY <2>1, <2>2, ReturnKeeps
  <1>5. QED
    BY <1>2, <1>3, <1>4

\* The handler answers; the caller leaves; Airflow writes.
LEMMA OtherKeeps ==
    ASSUME AInv, Refresh \/ \E c \in Call : Answer(c) \/ CallerCancels(c)
    PROVE  AInv'
  <1>1. CASE Refresh
    <2>1. UNCHANGED <<rule, first, cancelled, answer, fraud, broken, gone>>
      BY <1>1 DEF Refresh, call
    <2>2. /\ feature' \in [Feature -> Total \cup Count] /\ refreshes' \in Nat
          /\ shifted' \in [Call -> BOOLEAN]
      BY <1>1 DEF Refresh, AInv, TypeOK
    <2>3. QED
      BY <2>1, <2>2 DEF AInv, TypeOK, GoroutinesTyped, FirstExplained, AnswerFinal
  <1>2. ASSUME NEW c \in Call, Answer(c) PROVE AInv'
    <2>1. UNCHANGED <<feature, refreshes, rule, first, cancelled, fraud, broken, gone, shifted>>
      BY <1>2 DEF Answer, StatusOf, store, ghost
    <2>2. /\ \A r \in RulesOf(c) : rule[c][r] = "returned"
          /\ answer' \in [Call -> {"none", "Approved", "Declined", "FailedPrecondition"}]
          /\ answer'[c] = StatusOf(first[c])
          /\ \A d \in Call \ {c} : answer'[d] = answer[d]
      BY <1>2 DEF Answer, StatusOf, AInv, TypeOK
    <2>3. QED
      BY <2>1, <2>2 DEF AInv, TypeOK, GoroutinesTyped, FirstExplained, AnswerFinal
  <1>3. ASSUME NEW c \in Call, CallerCancels(c) PROVE AInv'
    BY <1>3 DEF CallerCancels, store, AInv, TypeOK, GoroutinesTyped, FirstExplained, AnswerFinal
  <1>4. QED
    BY <1>1, <1>2, <1>3

\* The invariant is inductive.
LEMMA AntifraudStep == AInv /\ [Next]_vars => AInv'
  <1> SUFFICES ASSUME AInv, [Next]_vars PROVE AInv'
    OBVIOUS
  <1>1. CASE UNCHANGED vars
    BY <1>1 DEF AInv, TypeOK, GoroutinesTyped, FirstExplained, AnswerFinal,
       vars, store, call, ghost
  <1>2. QED
    BY <1>1, StartKeeps, ReadKeeps, OtherKeeps DEF Next, Step, Idle

\* The invariant holds in every reachable state.
THEOREM AntifraudInvariance == Spec => []AInv
  BY AntifraudInit, AntifraudStep, PTL DEF Spec

-----------------------------------------------------------------------------

\* A decline is never lost to a cancellation the service caused itself, and
\* nobody is declined without a rule that objects, for any amounts, features
\* and order of the goroutines.
THEOREM DeclineWins == Spec => []DeclinesHaveAReason
  <1>1. AInv => DeclinesHaveAReason
    BY DEF AInv, TypeOK, FirstExplained, AnswerFinal, StatusOf, DeclinesHaveAReason
  <1>2. QED
    BY <1>1, AntifraudInvariance, PTL

\* Every variable keeps its type: the handler has an answer for every error.
THEOREM TypeCorrect == Spec => []TypeOK
  BY AntifraudInvariance, PTL DEF AInv

-----------------------------------------------------------------------------
(***************************************************************************)
(* The verdict.  As long as nothing got in the way of a call, the rules    *)
(* that returned fraud are rules that object to the features as they are,  *)
(* and if the errgroup has no error yet, the others that returned do not.  *)
(***************************************************************************)

Returned(c) == {r \in RulesOf(c) : rule[c][r] = "returned"}

Judged(c) ==
    /\ \A r \in RulesOf(c) : rule[c][r] = "reading" => ShouldRun(c, r)
    /\ fraud[c] \subseteq Returned(c)
    /\ Undisturbed(c) => /\ fraud[c] \subseteq Suspicious(c)
                         /\ first[c] = "none" => Returned(c) \cap Suspicious(c) = {}

VInv == AInv /\ \A c \in Call : Judged(c)

\* Whatever rows LIMIT leaves, a rule that reads them decides the same.
LEMMA RowsDecide ==
    ASSUME AInv, NEW c \in Call, NEW r \in RulesOf(c), ShouldRun(c, r),
           NEW value \in Readable(r, feature[FeatureOf(c, r)])
    PROVE  Exceeds(c, r, value) <=> r \in Suspicious(c)
  <1> DEFINE now == feature[FeatureOf(c, r)]
  <1>1. \A v \in Readable(r, now) : Exceeds(c, r, v) <=> Exceeds(c, r, value)
    <2>1. CASE r = "manyPartners" /\ now > 0
      <3>1. Readable(r, now) \subseteq 1 .. RowLimit
        <4>1. FeatureOf(c, r) \in Feature
          BY <2>1 DEF FeatureOf, Feature
        <4>2. now \in Total \cup Count
          BY <4>1 DEF AInv, TypeOK
        <4> HIDE DEF now
        <4>3. now \in Int
          BY <4>2
        <4>4. QED
          BY <2>1, <4>3 DEF Readable, RowLimit
      <3>2. QED
        BY <2>1, <3>1 DEF Exceeds, RowLimit, Partners
    <2>2. CASE ~(r = "manyPartners" /\ now > 0)
      <3>1. Readable(r, now) = {now}
        BY <2>2 DEF Readable
      <3>2. QED
        BY <3>1
    <2>3. QED
      BY <2>1, <2>2
  <1>2. QED
    BY <1>1 DEF Suspicious

\* A goroutine that returns what its rule says of the features keeps every
\* call judged.
LEMMA ReturnJudged ==
    ASSUME VInv, NEW c \in Call, NEW r \in RulesOf(c),
           NEW err \in {"none", "declined", "storeError", "cancelled"}, Return(c, r, err),
           rule[c][r] # "returned", UNCHANGED <<store, gone, shifted>>,
           fraud' = IF err = "declined" THEN [fraud EXCEPT ![c] = @ \cup {r}] ELSE fraud,
           \A d \in Call : broken[d] => broken'[d],
           err = "declined" => r \in Suspicious(c),
           err = "none" /\ Undisturbed(c)' /\ first[c] = "none" => r \notin Suspicious(c)
    PROVE  \A d \in Call : Judged(d)'
  <1>1. /\ first'[c] = IF first[c] = "none" THEN err ELSE first[c]
        /\ \A d \in Call \ {c} : rule'[d] = rule[d] /\ first'[d] = first[d]
    BY ReturnTyped DEF VInv
  <1>2. rule[c] \in [RulesOf(c) -> {"ready", "reading", "returned"}]
    BY DEF VInv, AInv, GoroutinesTyped
  <1>3. rule'[c] = [rule[c] EXCEPT ![r] = "returned"]
    BY DEF Return, VInv, AInv, GoroutinesTyped
  <1>4. /\ Returned(c)' = Returned(c) \cup {r}
        /\ \A x \in RulesOf(c) : rule'[c][x] = "reading" => rule[c][x] = "reading"
    BY <1>2, <1>3 DEF Returned
  <1>5. /\ fraud'[c] = IF err = "declined" THEN fraud[c] \cup {r} ELSE fraud[c]
        /\ \A d \in Call \ {c} : fraud'[d] = fraud[d]
    BY DEF VInv, AInv, TypeOK
  <1>6. /\ \A d \in Call : Suspicious(d)' = Suspicious(d)
        /\ \A d \in Call : Undisturbed(d)' => Undisturbed(d)
        /\ \A d \in Call : Judged(d)
    BY DEF Suspicious, Undisturbed, store, VInv
  <1>7. Judged(c)'
    <2>1. fraud'[c] \subseteq Returned(c)'
      BY <1>4, <1>5, <1>6 DEF Judged
    <2>2. ASSUME Undisturbed(c)'
          PROVE  /\ fraud'[c] \subseteq Suspicious(c)
                 /\ first'[c] = "none" => Returned(c)' \cap Suspicious(c) = {}
      BY <1>1, <1>4, <1>5, <1>6, <2>2 DEF Judged
    <2>3. QED
      BY <1>4, <1>6, <2>1, <2>2 DEF Judged
  <1>8. ASSUME NEW d \in Call \ {c} PROVE Judged(d)'
    <2>1. Returned(d)' = Returned(d)
      BY <1>1 DEF Returned
    <2>2. QED
      BY <1>1, <1>5, <1>6, <2>1 DEF Judged
  <1>9. QED
    BY <1>7, <1>8

\* A goroutine of a call nobody disturbed is cancelled only after an error.
LEMMA CancelledLate ==
    ASSUME AInv, NEW c \in Call, cancelled[c], Undisturbed(c)
    PROVE  first[c] # "none"
  BY DEF AInv, FirstExplained, Undisturbed

\* Each step of a goroutine keeps every call judged.
LEMMA GoroutineJudged ==
    ASSUME VInv, NEW c \in Call, NEW r \in RulesOf(c),
           Start(c, r) \/ Decide(c, r) \/ ReadCancelled(c, r) \/ ReadFails(c, r)
    PROVE  \A d \in Call : Judged(d)'
  <1>1. CASE Start(c, r)
    <2>1. /\ rule[c][r] = "ready" /\ UNCHANGED <<store, fraud, broken, gone, shifted>>
      BY <1>1 DEF Start, ghost
    <2>2. CASE cancelled[c]
      BY <1>1, <2>1, <2>2, ReturnJudged DEF Start
    <2>3. CASE ~cancelled[c] /\ ~ShouldRun(c, r)
      <3>1. r \notin Suspicious(c)
        BY <2>3 DEF Suspicious
      <3>2. QED
        BY <1>1, <2>1, <2>3, <3>1, ReturnJudged DEF Start
    <2>4. CASE ~cancelled[c] /\ ShouldRun(c, r)
      <3>1. rule' = [rule EXCEPT ![c][r] = "reading"] /\ first' = first
        BY <1>1, <2>4 DEF Start
      <3>2. /\ rule = [d \in Call |-> rule[d]]
            /\ rule[c] \in [RulesOf(c) -> {"ready", "reading", "returned"}]
        BY DEF VInv, AInv, GoroutinesTyped
      <3>3. /\ \A d \in Call \ {c} : rule'[d] = rule[d]
            /\ rule'[c] = [rule[c] EXCEPT ![r] = "reading"]
        BY <3>1, <3>2
      <3>4. ASSUME NEW d \in Call
            PROVE  /\ Returned(d)' = Returned(d)
                   /\ \A x \in RulesOf(d) : rule'[d][x] = "reading" => ShouldRun(d, x)
        <4>1. CASE d = c
          <5>1. \A x \in RulesOf(c) : x # r => rule'[c][x] = rule[c][x]
            BY <3>2, <3>3
          <5>2. rule'[c][r] = "reading"
            BY <3>2, <3>3
          <5>3. Returned(c)' = Returned(c)
            BY <2>1, <5>1, <5>2 DEF Returned
          <5>4. \A x \in RulesOf(c) : rule'[c][x] = "reading" => ShouldRun(c, x)
            BY <2>4, <5>1 DEF VInv, Judged
          <5>5. QED
            BY <4>1, <5>3, <5>4
        <4>2. CASE d # c
          BY <3>3, <4>2 DEF Returned, VInv, Judged
        <4>3. QED
          BY <4>1, <4>2
      <3>5. /\ \A d \in Call : Suspicious(d)' = Suspicious(d)
            /\ \A d \in Call : Undisturbed(d)' <=> Undisturbed(d)
        BY <2>1 DEF Suspicious, Undisturbed, store
      <3>6. QED
        BY <2>1, <3>1, <3>4, <3>5 DEF VInv, Judged
    <2>5. QED
      BY <2>2, <2>3, <2>4
  <1>2. CASE Decide(c, r)
    <2>1. /\ rule[c][r] = "reading" /\ UNCHANGED <<store, broken, gone, shifted>>
          /\ ShouldRun(c, r)
      BY <1>2 DEF Decide, VInv, Judged
    <2>2. PICK value \in Readable(r, feature[FeatureOf(c, r)]) :
              IF Exceeds(c, r, value)
              THEN Return(c, r, "declined") /\ fraud' = [fraud EXCEPT ![c] = @ \cup {r}]
              ELSE Return(c, r, "none") /\ fraud' = fraud
      BY <1>2 DEF Decide
    <2>3. Exceeds(c, r, value) <=> r \in Suspicious(c)
      BY <2>1, RowsDecide DEF VInv
    <2>4. CASE Exceeds(c, r, value)
      BY <2>1, <2>2, <2>3, <2>4, ReturnJudged
    <2>5. CASE ~Exceeds(c, r, value)
      BY <2>1, <2>2, <2>3, <2>5, ReturnJudged
    <2>6. QED
      BY <2>4, <2>5
  <1>3. CASE ReadCancelled(c, r)
    <2>1. /\ rule[c][r] = "reading" /\ cancelled[c]
          /\ UNCHANGED <<store, fraud, broken, gone, shifted>>
          /\ Return(c, r, "none") \/ Return(c, r, "cancelled")
      BY <1>3 DEF ReadCancelled, StoreError, ghost
    <2>2. Undisturbed(c)' => first[c] # "none"
      BY <2>1, CancelledLate DEF VInv, Undisturbed
    <2>3. QED
      BY <2>1, <2>2, ReturnJudged
  <1>4. CASE ReadFails(c, r)
    <2>1. /\ rule[c][r] = "reading" /\ broken' = [broken EXCEPT ![c] = TRUE]
          /\ UNCHANGED <<store, fraud, gone, shifted>>
          /\ Return(c, r, "none") \/ Return(c, r, "storeError")
      BY <1>4 DEF ReadFails, StoreError
    <2>2. /\ \A d \in Call : broken[d] => broken'[d]
          /\ ~Undisturbed(c)'
      BY <2>1 DEF VInv, AInv, TypeOK, Undisturbed
    <2>3. QED
      BY <2>1, <2>2, ReturnJudged
  <1>5. QED
    BY <1>1, <1>2, <1>3, <1>4

\* A refresh disturbs the calls whose rules run, and a call none of whose
\* rules has started has nothing to judge.
LEMMA RefreshJudged ==
    ASSUME VInv, Refresh, NEW c \in Call
    PROVE  Judged(c)'
  <1>1. /\ UNCHANGED <<rule, first, fraud>> /\ Judged(c)
        /\ shifted'[c] = (shifted[c] \/ \E r \in RulesOf(c) : rule[c][r] # "ready")
    BY DEF Refresh, call, VInv
  <1>2. CASE \E r \in RulesOf(c) : rule[c][r] # "ready"
    BY <1>1, <1>2 DEF Judged, Returned, Undisturbed
  <1>3. CASE \A r \in RulesOf(c) : rule[c][r] = "ready"
    <2>1. Returned(c) = {} /\ Returned(c)' = {}
      BY <1>1, <1>3 DEF Returned
    <2>2. QED
      BY <1>1, <2>1 DEF Judged
  <1>4. QED
    BY <1>2, <1>3

\* The invariant of the verdict is inductive.
LEMMA VerdictStep == VInv /\ [Next]_vars => VInv'
  <1> SUFFICES ASSUME VInv, [Next]_vars PROVE VInv'
    OBVIOUS
  <1>1. AInv'
    BY AntifraudStep DEF VInv
  <1>2. ASSUME UNCHANGED <<store, rule, first, fraud, broken, shifted>>,
               \A d \in Call : gone[d] => gone'[d]
        PROVE  \A d \in Call : Judged(d)'
    BY <1>2 DEF VInv, Judged, Returned, Suspicious, Undisturbed, store
  <1>3. ASSUME NEW c \in Call, Answer(c) \/ CallerCancels(c) PROVE \A d \in Call : Judged(d)'
    <2>1. UNCHANGED <<store, rule, first, fraud, broken, shifted>>
      BY <1>3 DEF Answer, CallerCancels, ghost
    <2>2. \A d \in Call : gone[d] => gone'[d]
      BY <1>3 DEF Answer, CallerCancels, ghost, VInv, AInv, TypeOK
    <2>3. QED
      BY <1>2, <2>1, <2>2
  <1>4. CASE UNCHANGED vars
    <2>1. UNCHANGED <<store, rule, first, fraud, broken, shifted>>
      BY <1>4 DEF vars, call, ghost
    <2>2. \A d \in Call : gone[d] => gone'[d]
      BY <1>4 DEF vars, ghost
    <2>3. QED
      BY <1>1, <1>2, <2>1, <2>2 DEF VInv
  <1>5. CASE \E c \in Call : \E r \in RulesOf(c) :
                 Start(c, r) \/ Decide(c, r) \/ ReadCancelled(c, r) \/ ReadFails(c, r)
    BY <1>1, <1>5, GoroutineJudged DEF VInv
  <1>6. CASE Refresh
    BY <1>1, <1>6, RefreshJudged DEF VInv
  <1>7. QED
    BY <1>1, <1>3, <1>4, <1>5, <1>6 DEF VInv, Next, Step, Idle

\* An answer to a call nothing got in the way of is what the rules say of the
\* features, for any amounts, features and order of the goroutines.
THEOREM VerdictFollowsRules == Spec => VerdictIsTheRules
  <1>1. Init => VInv
    <2> SUFFICES ASSUME Init PROVE VInv
      OBVIOUS
    <2>1. AInv
      BY AntifraudInit
    <2>2. \A c \in Call : Judged(c)
      BY DEF Init, Judged, Returned
    <2>3. QED
      BY <2>1, <2>2 DEF VInv
  <1>2. VInv /\ [Next]_vars =>
            [\A c \in Call :
                Answers(c) /\ Undisturbed(c) =>
                    answer'[c] = IF Suspicious(c) # {} THEN "Declined" ELSE "Approved"]_vars
    <2> SUFFICES ASSUME VInv, Next, NEW c \in Call, Answers(c), Undisturbed(c)
                 PROVE  answer'[c] = IF Suspicious(c) # {} THEN "Declined" ELSE "Approved"
      OBVIOUS
    <2>1. Answer(c)
      <3>1. ASSUME NEW d \in Call, NEW r \in RulesOf(d),
                   Start(d, r) \/ Decide(d, r) \/ ReadCancelled(d, r) \/ ReadFails(d, r)
            PROVE  answer' = answer
        BY <3>1 DEF Start, Decide, ReadCancelled, ReadFails, StoreError
      <3>2. Refresh \/ Idle \/ (\E d \in Call : CallerCancels(d)) => answer' = answer
        BY DEF Refresh, Idle, CallerCancels, vars, call
      <3>3. \A d \in Call : d # c /\ Answer(d) => answer'[c] = answer[c]
        BY DEF Answer, VInv, AInv, TypeOK
      <3>4. answer' # answer /\ answer'[c] # answer[c]
        BY DEF Answers
      <3>5. QED
        BY <3>1, <3>2, <3>3, <3>4 DEF Next, Step
    <2>2. answer'[c] = StatusOf(first[c]) /\ Returned(c) = RulesOf(c)
      BY <2>1 DEF Answer, Returned, VInv, AInv, TypeOK
    <2>3. first[c] \in {"none", "declined"}
      BY DEF VInv, AInv, TypeOK, FirstExplained, Undisturbed
    <2>4. Suspicious(c) # {} <=> first[c] = "declined"
      BY <2>2, <2>3 DEF VInv, AInv, FirstExplained, Judged, Suspicious
    <2>5. QED
      BY <2>2, <2>3, <2>4 DEF StatusOf
  <1>3. QED
    BY <1>1, <1>2, VerdictStep, PTL DEF Spec, VerdictIsTheRules
=============================================================================
