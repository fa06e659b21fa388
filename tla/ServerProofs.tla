---------------------------- MODULE ServerProofs ----------------------------
(***************************************************************************)
(* Proofs about Server for any number of calls, signals and scrapes,       *)
(* whichever of the calls hang, are malformed or lose their caller.        *)
(***************************************************************************)
EXTENDS Server, FiniteSetTheorems, TLAPS

USE ServerAssumption

-----------------------------------------------------------------------------
(* The process and its calls. *)

\* What cuts calls off.
CutExplained ==
    LET cut == {c \in Call : call[c] = "cut"}
    IN  cut # {} => \/ main = "panicked" /\ cut \cap Malformed # {}
                    \/ main = "fatal" /\ serving
                    \/ main = "killed" /\ serving /\ signals = 0

\* The inductive invariant: main gets past GracefulStop without open calls
\* only and closes the session last, calls are open only after Serve, signals
\* are heard only after signal.Notify, and a scrape ends with the process.
SInv ==
    /\ TypeOK
    /\ CutExplained
    /\ main \in Over \cup {"stopped"} => OpenCalls = {}
    /\ session = "closed" => main = "exited"
    /\ main \in {"starting", "listening"} => signals = 0
    /\ ~serving => OpenCalls = {}
    /\ scraping => main \notin Over
    /\ ~scraping => \A k \in Metric : read[k] = Unread

\* The reason an error is counted under is a label of the metric, and so is
\* the code.
LEMMA LabelsExist ==
    ASSUME NEW o \in Outcome
    PROVE  /\ CodeOf(o) \in Code /\ ReasonOf(o) \in Reason
           /\ CodeOf(o) = "OK" <=> o = "ok"
  BY DEF Outcome, CodeOf, ReasonOf, Code, Reason

\* The process starts with the session open and without calls.
LEMMA ServerInit == Init => SInv
  <1> SUFFICES ASSUME Init PROVE SInv
    OBVIOUS
  <1>1. TypeOK
    <2>1. read \in [Metric -> Nat \cup {Unread}] /\ count \in [Metric -> Nat]
      BY DEF Init
    <2>2. call \in [Call -> Open \cup {"sent", "answered", "refused", "cut"}]
      BY DEF Init
    <2>3. \A c \in Call : call[c] \notin Open \cup {"answered"}
      BY DEF Init, Open
    <2>4. outcome \in [Call -> Returns \cup {"none"}] /\ gone \in SUBSET Call
      BY DEF Init
    <2>5. /\ main \in Up \cup Over \cup {"starting", "draining", "stopped"}
          /\ serving \in BOOLEAN /\ quit \in 0 .. 1 /\ session \in {"open", "closed"}
          /\ signals \in Nat /\ scraping \in BOOLEAN /\ busy \in SUBSET Call /\ scrapes \in Nat
      <3>1. main = "starting" /\ serving = FALSE /\ session = "open" /\ scraping = FALSE
        BY DEF Init
      <3>2. quit = 0 /\ signals = 0 /\ scrapes = 0 /\ busy = {}
        BY DEF Init
      <3>3. quit \in 0 .. 1 /\ signals \in Nat /\ scrapes \in Nat
        BY <3>2
      <3>4. serving \in BOOLEAN /\ scraping \in BOOLEAN
        BY <3>1
      <3>5. QED
        BY <3>1, <3>2, <3>3, <3>4
    <2>6. QED
      BY <2>1, <2>2, <2>3, <2>4, <2>5 DEF TypeOK
  <1>2. /\ OpenCalls = {} /\ {c \in Call : call[c] = "cut"} = {}
        /\ \A k \in Metric : read[k] = Unread
    BY DEF Init, OpenCalls, Open
  <1>3. QED
    BY <1>1, <1>2 DEF Init, SInv, CutExplained, Over

\* A call that is open is not cut, and the process is not over.
LEMMA OpenMeansAlive ==
    ASSUME SInv, NEW c \in Call, call[c] \in Open
    PROVE  /\ main \notin Over \cup {"stopped"} /\ serving
           /\ \A d \in Call : call[d] # "cut"
  <1>1. c \in OpenCalls
    BY DEF OpenCalls
  <1>2. QED
    BY <1>1 DEF SInv, CutExplained, Over

\* While the process is not over nothing is cut off.
LEMMA AliveCutsNothing ==
    ASSUME SInv, main \notin Over
    PROVE  \A d \in Call : call[d] # "cut"
  BY DEF SInv, CutExplained, Over

\* A process that dies takes its open calls with it, and nothing else.
LEMMA DieStep ==
    ASSUME SInv, main \notin Over, NEW how \in {"killed", "fatal", "panicked"}, Die(how),
           how = "killed" => signals = 0,
           how = "panicked" => \E c \in Malformed : call[c] \in Open
    PROVE  SInv'
  <1>1. /\ main' = how /\ serving' = serving /\ signals' = signals /\ session' = session
        /\ quit' = quit /\ gone' = gone /\ outcome' = outcome /\ count' = count
        /\ scrapes' = scrapes /\ scraping' = FALSE /\ busy' = {}
        /\ read' = [k \in Metric |-> Unread]
        /\ call' = [c \in Call |-> IF call[c] \in Open THEN "cut" ELSE call[c]]
    BY DEF Die, NoScrape
  <1>2. \A c \in Call : call'[c] \notin Open
    BY <1>1 DEF Open
  <1>3. \A c \in Call : call'[c] = "cut" => call[c] \in Open
    BY <1>1, AliveCutsNothing
  <1>4. TypeOK'
    <2>1. call' \in [Call -> Open \cup {"sent", "answered", "refused", "cut"}]
      BY <1>1 DEF SInv, TypeOK
    <2>2. read' \in [Metric -> Nat \cup {Unread}]
      BY <1>1
    <2>3. QED
      BY <1>1, <1>2, <2>1, <2>2 DEF SInv, TypeOK, Over
  <1>5. CutExplained'
    <2> SUFFICES ASSUME NEW c \in Call, call'[c] = "cut"
                 PROVE  \/ how = "panicked" /\ {d \in Call : call'[d] = "cut"} \cap Malformed # {}
                        \/ how = "fatal" /\ serving
                        \/ how = "killed" /\ serving /\ signals = 0
      BY <1>1 DEF CutExplained
    <2>1. serving
      BY <1>3, OpenMeansAlive
    <2>2. CASE how = "panicked"
      <3>1. PICK d \in Malformed : call[d] \in Open
        BY <2>2
      <3>2. d \in Call /\ call'[d] = "cut"
        BY <1>1, <3>1
      <3>3. QED
        BY <2>2, <3>1, <3>2
    <2>3. QED
      BY <2>1, <2>2
  <1>6. OpenCalls' = {}
    BY <1>2 DEF OpenCalls
  <1>7. \A k \in Metric : read'[k] = Unread
    BY <1>1
  <1>8. QED
    BY <1>1, <1>4, <1>5, <1>6, <1>7 DEF SInv, Over

\* A step of a call but a panic leaves main alone.
LEMMA CallStep ==
    ASSUME SInv, NEW c \in Call,
           Accept(c) \/ Refuse(c) \/ CallerLeaves(c) \/ Handle(c) \/ Report(c)
    PROVE  SInv'
  <1> USE DEF MoveTo, process, scrape
  <1>1. TypeOK'
    <2>1. CASE Accept(c)
      BY <2>1 DEF Accept, SInv, TypeOK, Open
    <2>2. CASE Refuse(c) \/ CallerLeaves(c)
      BY <2>2 DEF Refuse, CallerLeaves, SInv, TypeOK, Open
    <2>3. CASE Handle(c)
      BY <2>3 DEF Handle, SInv, TypeOK, Open
    <2>4. CASE CountRequest(c)
      <3>1. CodeOf(outcome[c]) \in Metric
        BY <2>4, LabelsExist DEF CountRequest, SInv, TypeOK, Open, Metric
      <3>2. count' \in [Metric -> Nat]
        BY <2>4, <3>1 DEF CountRequest, Increment, SInv, TypeOK
      <3>3. QED
        BY <2>4, <3>2 DEF CountRequest, SInv, TypeOK, Open
    <2>5. CASE Observe(c)
      BY <2>5 DEF Observe, Increment, SInv, TypeOK, Open, Metric
    <2>6. CASE CountError(c)
      <3>1. ReasonOf(outcome[c]) \in Metric
        BY <2>6, LabelsExist DEF CountError, SInv, TypeOK, Open, Metric
      <3>2. count' \in [Metric -> Nat]
        BY <2>6, <3>1 DEF CountError, Increment, SInv, TypeOK
      <3>3. QED
        BY <2>6, <3>2 DEF CountError, SInv, TypeOK, Open
    <2>7. CASE Send(c)
      BY <2>7 DEF Send, SInv, TypeOK, Open
    <2>8. QED
      BY <2>1, <2>2, <2>3, <2>4, <2>5, <2>6, <2>7 DEF Report
  <1>2. UNCHANGED <<process, scraping, read>>
    BY DEF Accept, Refuse, CallerLeaves, Handle, Report, CountRequest, Observe, CountError, Send
  <1>3. \A d \in Call : call'[d] = "cut" <=> call[d] = "cut"
    BY DEF Accept, Refuse, CallerLeaves, Handle, Report, CountRequest, Observe, CountError,
           Send, SInv, TypeOK
  <1>4. CutExplained'
    <2>1. {d \in Call : call'[d] = "cut"} = {d \in Call : call[d] = "cut"}
      BY <1>3
    <2>2. QED
      BY <1>2, <2>1 DEF CutExplained, SInv
  <1>5. \A d \in Call : call'[d] \in Open => \/ call[d] \in Open
                                             \/ serving /\ main \in Up
    BY DEF Accept, Refuse, CallerLeaves, Handle, Report, CountRequest, Observe, CountError,
           Send, SInv, TypeOK, Open
  <1>6. main \in Up => main \notin Over \cup {"stopped"}
    BY DEF Up, Over
  <1>7. QED
    BY <1>1, <1>2, <1>4, <1>5, <1>6 DEF SInv, OpenCalls

\* A step of main, of the goroutine that serves, or a signal, while the
\* process goes on.
LEMMA MainStep ==
    ASSUME SInv, Listen \/ Notify \/ Wait \/ Drain \/ Stop \/ Exit \/ Serve \/ Signal
    PROVE  SInv'
  <1>1. /\ UNCHANGED <<calls, count>>
        /\ OpenCalls' = OpenCalls
        /\ main \notin Over
    BY DEF Listen, Notify, Wait, Drain, Stop, Exit, Serve, Signal, calls, OpenCalls, Up, Over
  <1>2. \A d \in Call : call'[d] # "cut"
    BY <1>1, AliveCutsNothing DEF calls
  <1>3. CutExplained'
    BY <1>2 DEF CutExplained
  <1>4. TypeOK'
    <2>1. CASE Exit
      <3>1. read' = [k \in Metric |-> Unread]
        BY <2>1 DEF Exit, NoScrape
      <3>2. read' \in [Metric -> Nat \cup {Unread}]
        BY <3>1
      <3>3. QED
        BY <1>1, <2>1, <3>2 DEF SInv, TypeOK, Exit, NoScrape, calls, Over
    <2>2. CASE Listen \/ Notify \/ Wait \/ Drain \/ Stop \/ Serve \/ Signal
      <3>1. UNCHANGED scrape
        BY <2>2 DEF Listen, Notify, Wait, Drain, Stop, Serve, Signal
      <3>2. /\ main' \in Up \cup Over \cup {"starting", "draining", "stopped"}
            /\ serving' \in BOOLEAN /\ quit' \in 0 .. 1 /\ signals' \in Nat
            /\ session' \in {"open", "closed"}
        <4>1. CASE Listen \/ Notify \/ Wait \/ Stop
          BY <4>1 DEF SInv, TypeOK, Listen, Notify, Wait, Stop, Up
        <4>2. CASE Drain
          BY <4>2 DEF SInv, TypeOK, Drain
        <4>3. CASE Serve
          BY <4>3 DEF SInv, TypeOK, Serve
        <4>4. CASE Signal
          BY <4>4 DEF SInv, TypeOK, Signal
        <4>5. QED
          BY <2>2, <4>1, <4>2, <4>3, <4>4
      <3>3. QED
        BY <1>1, <3>1, <3>2 DEF SInv, TypeOK, calls, scrape
    <2>3. QED
      BY <2>1, <2>2
  <1>5. scraping' => scraping /\ main' \notin Over
    BY <1>1 DEF SInv, Listen, Notify, Wait, Drain, Stop, Exit, Serve, Signal, NoScrape, scrape, Over
  <1>6. ~scraping' => \A k \in Metric : read'[k] = Unread
    BY DEF SInv, Listen, Notify, Wait, Drain, Stop, Exit, Serve, Signal, NoScrape, scrape
  <1>7. QED
    BY <1>1, <1>3, <1>4, <1>5, <1>6 DEF SInv, Listen, Notify, Wait, Drain, Stop, Exit, Serve,
       Signal, Up, Over

\* A step of a scrape.
LEMMA ScrapeStep == SInv /\ Scrape => SInv'
  <1> SUFFICES ASSUME SInv, Scrape PROVE SInv'
    OBVIOUS
  <1>1. UNCHANGED <<process, calls, count>>
    BY DEF Scrape, BeginScrape, ReadMetric, EndScrape
  <1>2. TypeOK'
    <2>1. CASE BeginScrape
      BY <1>1, <2>1 DEF BeginScrape, SInv, TypeOK, process, calls, OpenCalls
    <2>2. ASSUME NEW k \in Metric, ReadMetric(k)
          PROVE  TypeOK'
      <3>1. read' \in [Metric -> Nat \cup {Unread}]
        BY <2>2 DEF ReadMetric, SInv, TypeOK
      <3>2. QED
        BY <1>1, <2>2, <3>1 DEF ReadMetric, SInv, TypeOK, process, calls
    <2>3. CASE EndScrape
      BY <1>1, <2>3 DEF EndScrape, NoScrape, SInv, TypeOK, process, calls
    <2>4. QED
      BY <2>1, <2>2, <2>3 DEF Scrape
  <1>3. scraping' => scraping \/ main \notin Over
    BY DEF Scrape, BeginScrape, ReadMetric, EndScrape, NoScrape
  <1>4. ~scraping' => \A k \in Metric : read'[k] = Unread
    BY DEF Scrape, BeginScrape, ReadMetric, EndScrape, NoScrape, SInv
  <1>5. QED
    BY <1>1, <1>2, <1>3, <1>4 DEF SInv, CutExplained, OpenCalls, process, calls

\* The invariant is inductive.
LEMMA ServerStep == SInv /\ [Next]_vars => SInv'
  <1> SUFFICES ASSUME SInv, [Next]_vars PROVE SInv'
    OBVIOUS
  <1>1. CASE UNCHANGED vars
    BY <1>1 DEF SInv, TypeOK, CutExplained, OpenCalls, vars, process, calls, scrape
  <1>2. ASSUME NEW c \in Call, Panic(c)
        PROVE  SInv'
    <2>1. c \in Malformed /\ call[c] \in Open /\ Die("panicked")
      BY <1>2 DEF Panic, Open
    <2>2. main \notin Over
      BY <2>1, OpenMeansAlive
    <2>3. QED
      BY <2>1, <2>2, DieStep
  <1>3. CASE ListenFails \/ ServeFails
    <2>1. Die("fatal") /\ main \notin Over
      BY <1>3 DEF ListenFails, ServeFails, Up, Over
    <2>2. QED
      BY <2>1, DieStep
  <1>4. CASE SignalKills
    <2>1. Die("killed") /\ main \notin Over /\ signals = 0
      BY <1>4 DEF SignalKills, SInv, Over
    <2>2. QED
      BY <2>1, DieStep
  <1>5. CASE Scrape
    BY <1>5, ScrapeStep
  <1>6. QED
    BY <1>1, <1>2, <1>3, <1>4, <1>5, CallStep, MainStep DEF Next, Main, Idle

\* The invariant holds in every reachable state.
THEOREM ServerInvariance == Spec => []SInv
  BY ServerInit, ServerStep, PTL DEF Spec

\* No handler runs on a closed session, for any number of calls.
THEOREM SessionIsClosedLast == Spec => []SessionOutlivesCalls
  <1>1. SInv => SessionOutlivesCalls
    BY DEF SInv, SessionOutlivesCalls, Over
  <1>2. QED
    BY <1>1, ServerInvariance, PTL

\* GracefulStop answers every call the server accepted, and nothing but a
\* panic, a Serve that fails or a signal before signal.Notify cuts calls off.
THEOREM StopIsGraceful == Spec => []StopAnswersCalls
  <1>1. SInv => StopAnswersCalls
    BY DEF SInv, CutExplained, StopAnswersCalls
  <1>2. QED
    BY <1>1, ServerInvariance, PTL

\* Every variable keeps its type; in particular a handler that returned has
\* an outcome that the metrics have labels for.
THEOREM TypeCorrect == Spec => []TypeOK
  BY ServerInvariance, PTL DEF SInv

-----------------------------------------------------------------------------
(***************************************************************************)
(* What a scrape shows.  While the process goes on, a metric is the number *)
(* of calls that got past the statement that counts them.  A reading lies  *)
(* between the calls it counts that were answered before the scrape began  *)
(* and the metric as it is now.                                            *)
(***************************************************************************)

\* Past a statement of the interceptor.
PastRequest == {"counted", "observed", "returned", "answered"}
PastLatency == {"observed", "returned", "answered"}
PastError   == {"returned", "answered"}

\* The calls that a metric counts.
Requests(k) == {c \in Call : call[c] \in PastRequest /\ CodeOf(outcome[c]) = k}
Latencies   == {c \in Call : call[c] \in PastLatency}
Errors(k)   == {c \in Call : /\ call[c] \in PastError
                             /\ outcome[c] # "ok" /\ ReasonOf(outcome[c]) = k}
Counted(k) == IF k \in Code THEN Requests(k) ELSE IF k \in Reason THEN Errors(k) ELSE Latencies

\* The calls that were answered before the scrape began.
Before == {c \in Call : call[c] = "answered"} \ busy

CountsAreExact == main \notin Over => \A k \in Metric : count[k] = Cardinality(Counted(k))

ReadingsInBetween ==
    scraping =>
        /\ OpenCalls \subseteq busy
        /\ \A k \in Metric :
               read[k] # Unread => read[k] \in Cardinality(Before \cap Counted(k)) .. count[k]

RInv == CountsAreExact /\ ReadingsInBetween

\* Sets of calls are finite.
LEMMA CallCounting ==
    ASSUME NEW S \in SUBSET Call, NEW T \in SUBSET Call
    PROVE  /\ Cardinality(S) \in Nat
           /\ S \subseteq T => Cardinality(S) <= Cardinality(T)
           /\ S \cap T = {} => Cardinality(S \cup T) = Cardinality(S) + Cardinality(T)
           /\ Cardinality(S \cup T) <= Cardinality(S) + Cardinality(T)
           /\ \A c \in Call : c \notin S /\ T = S \cup {c} => Cardinality(T) = Cardinality(S) + 1
  <1>0. IsFiniteSet(S) /\ IsFiniteSet(T) /\ IsFiniteSet(S \cap T)
    BY FS_Subset
  <1>1. Cardinality(S) \in Nat /\ Cardinality(T) \in Nat /\ Cardinality(S \cap T) \in Nat
    BY <1>0, FS_CardinalityType
  <1>2. S \subseteq T => Cardinality(S) <= Cardinality(T)
    BY <1>0, FS_Subset
  <1>3. Cardinality(S \cup T) = Cardinality(S) + Cardinality(T) - Cardinality(S \cap T)
    BY <1>0, FS_Union
  <1>4. S \cap T = {} => Cardinality(S \cap T) = 0
    BY FS_EmptySet
  <1>5. ASSUME NEW c \in Call, c \notin S, T = S \cup {c}
        PROVE  Cardinality(T) = Cardinality(S) + 1
    BY <1>0, <1>5, FS_AddElement
  <1>6. QED
    BY <1>1, <1>2, <1>3, <1>4, <1>5

\* What a metric counts are calls.
LEMMA CountedCalls == \A k : Counted(k) \in SUBSET Call
  BY DEF Counted, Requests, Errors, Latencies

\* Labels and metrics are different names.
LEMMA MetricNames ==
    /\ \A k \in Metric : k \in Code \/ k \in Reason \/ k = "latency"
    /\ Code \cap Reason = {} /\ "latency" \notin Code \cup Reason
    /\ "latency" \in Metric /\ Code \subseteq Metric /\ Reason \subseteq Metric
  BY DEF Metric, Code, Reason

\* A call that gets past a statement is counted by one metric more.
LEMMA CountOne ==
    ASSUME SInv, CountsAreExact, main \notin Over, main' = main, NEW c \in Call, NEW k \in Metric,
           Increment(k), c \notin Counted(k), Counted(k)' = Counted(k) \cup {c},
           \A j \in Metric \ {k} : Counted(j)' = Counted(j)
    PROVE  CountsAreExact' /\ \A j \in Metric : count[j] <= count'[j]
  <1>1. /\ count \in [Metric -> Nat]
        /\ count' = [count EXCEPT ![k] = @ + 1]
    BY DEF SInv, TypeOK, Increment
  <1>2. Cardinality(Counted(k)') = Cardinality(Counted(k)) + 1
    <2>1. Counted(k) \in SUBSET Call /\ Counted(k)' \in SUBSET Call
      BY CountedCalls
    <2>2. QED
      BY <2>1, CallCounting
  <1>3. \A j \in Metric \ {k} : count'[j] = count[j] /\ count[j] \in Nat
    BY <1>1
  <1>4. count'[k] = count[k] + 1 /\ count[k] \in Nat
    BY <1>1
  <1>5. \A j \in Metric : count[j] = Cardinality(Counted(j))
    BY DEF CountsAreExact
  <1>6. \A j \in Metric : count'[j] = Cardinality(Counted(j)')
    <2> TAKE j \in Metric
    <2>1. CASE j = k
      BY <1>2, <1>4, <1>5, <2>1
    <2>2. CASE j # k
      <3>1. Counted(j)' = Counted(j)
        BY <2>2
      <3>2. QED
        BY <1>3, <1>5, <2>2, <3>1
    <2>3. QED
      BY <2>1, <2>2
  <1>7. QED
    BY <1>3, <1>4, <1>6 DEF CountsAreExact

\* A step of a call moves it past at most one statement, and the metric of
\* that statement with it.
LEMMA CallCounts ==
    ASSUME SInv, CountsAreExact, NEW c \in Call,
           Accept(c) \/ Refuse(c) \/ CallerLeaves(c) \/ Handle(c) \/ Report(c)
    PROVE  CountsAreExact' /\ \A j \in Metric : count[j] <= count'[j]
  <1> USE DEF MoveTo, process
  <1>1. CASE Accept(c) \/ Refuse(c) \/ CallerLeaves(c) \/ Handle(c) \/ Send(c)
    <2>1. /\ count' = count /\ main' = main
          /\ \A k \in Metric : count[k] \in Nat
      BY <1>1 DEF Accept, Refuse, CallerLeaves, Handle, Send, SInv, TypeOK
    <2>2. \A d \in Call : /\ call'[d] \in PastRequest <=> call[d] \in PastRequest
                          /\ call'[d] \in PastLatency <=> call[d] \in PastLatency
                          /\ call'[d] \in PastError <=> call[d] \in PastError
                          /\ call[d] \in PastRequest => outcome'[d] = outcome[d]
      BY <1>1 DEF Accept, Refuse, CallerLeaves, Handle, Send, SInv, TypeOK,
         PastRequest, PastLatency, PastError
    <2>3. \A k : Counted(k)' = Counted(k)
      <3>1. \A k : Requests(k)' = Requests(k)
        BY <2>2 DEF Requests
      <3>2. \A k : Errors(k)' = Errors(k)
        BY <2>2 DEF Errors, PastRequest, PastError
      <3>3. Latencies' = Latencies
        BY <2>2 DEF Latencies
      <3>4. QED
        BY <3>1, <3>2, <3>3 DEF Counted
    <2>4. QED
      BY <2>1, <2>3 DEF CountsAreExact
  <1>2. CASE CountRequest(c)
    <2>1. /\ call[c] = "handled" /\ call' = [call EXCEPT ![c] = "counted"]
          /\ outcome' = outcome /\ main' = main /\ Increment(CodeOf(outcome[c]))
          /\ outcome[c] \in Outcome /\ c \in Call
      BY <1>2 DEF CountRequest, SInv, TypeOK, Open
    <2>2. CodeOf(outcome[c]) \in Code /\ main \notin Over
      BY <2>1, LabelsExist, OpenMeansAlive DEF Open
    <2>3. \A k : Requests(k)' = IF k = CodeOf(outcome[c]) THEN Requests(k) \cup {c} ELSE Requests(k)
      BY <2>1 DEF Requests, PastRequest, SInv, TypeOK
    <2>4. (\A k : Errors(k)' = Errors(k)) /\ Latencies' = Latencies
      BY <2>1 DEF Errors, Latencies, PastError, PastLatency, SInv, TypeOK
    <2>5. \A k : c \notin Requests(k)
      BY <2>1 DEF Requests, PastRequest
    <2>0. PICK k \in Code : k = CodeOf(outcome[c])
      BY <2>2
    <2>6. /\ k \in Metric /\ c \notin Counted(k) /\ Counted(k)' = Counted(k) \cup {c}
          /\ \A j \in Metric \ {k} : Counted(j)' = Counted(j)
      BY <2>0, <2>3, <2>4, <2>5, MetricNames DEF Counted
    <2>7. Increment(k)
      BY <2>0, <2>1
    <2>8. QED
      BY <2>1, <2>2, <2>6, <2>7, CountOne
  <1>3. CASE Observe(c)
    <2>1. /\ call[c] = "counted" /\ call' = [call EXCEPT ![c] = "observed"]
          /\ outcome' = outcome /\ main' = main /\ Increment("latency")
      BY <1>3 DEF Observe
    <2>2. main \notin Over
      BY <2>1, OpenMeansAlive DEF Open
    <2>3. Latencies' = Latencies \cup {c} /\ c \notin Latencies
      BY <2>1 DEF Latencies, PastLatency, SInv, TypeOK
    <2>4. \A k : Errors(k)' = Errors(k) /\ Requests(k)' = Requests(k)
      BY <2>1 DEF Errors, Requests, PastError, PastRequest, SInv, TypeOK
    <2>5. /\ "latency" \in Metric /\ c \notin Counted("latency")
          /\ Counted("latency")' = Counted("latency") \cup {c}
          /\ \A j \in Metric \ {"latency"} : Counted(j)' = Counted(j)
      BY <2>3, <2>4, MetricNames DEF Counted
    <2>6. QED
      BY <2>1, <2>2, <2>5, CountOne
  <1>4. CASE CountError(c)
    <2>1. /\ call[c] = "observed" /\ call' = [call EXCEPT ![c] = "returned"]
          /\ outcome' = outcome /\ main' = main /\ outcome[c] \in Outcome
      BY <1>4 DEF CountError, SInv, TypeOK, Open
    <2>2. /\ Latencies' = Latencies /\ \A k : Requests(k)' = Requests(k)
      BY <2>1 DEF Latencies, Requests, PastLatency, PastRequest, SInv, TypeOK
    <2>3. CASE outcome[c] = "ok"
      <3>1. \A k : Errors(k)' = Errors(k)
        BY <2>1, <2>3 DEF Errors, PastError, SInv, TypeOK
      <3>2. count' = count /\ \A k \in Metric : count[k] \in Nat
        BY <1>4, <2>3 DEF CountError, SInv, TypeOK
      <3>3. \A k : Counted(k)' = Counted(k)
        BY <2>2, <3>1 DEF Counted
      <3>4. QED
        BY <2>1, <3>2, <3>3 DEF CountsAreExact
    <2>4. CASE outcome[c] # "ok"
      <3>1. /\ ReasonOf(outcome[c]) \in Reason /\ main \notin Over
            /\ Increment(ReasonOf(outcome[c]))
        BY <1>4, <2>1, <2>4, LabelsExist, OpenMeansAlive DEF CountError, Open
      <3>2. \A k : Errors(k)' = IF k = ReasonOf(outcome[c]) THEN Errors(k) \cup {c} ELSE Errors(k)
        BY <2>1, <2>4 DEF Errors, PastError, SInv, TypeOK
      <3>3. \A k : c \notin Errors(k)
        BY <2>1 DEF Errors, PastError
      <3>0. PICK k \in Reason : k = ReasonOf(outcome[c])
        BY <3>1
      <3>4. /\ k \in Metric /\ c \notin Counted(k) /\ Counted(k)' = Counted(k) \cup {c}
            /\ \A j \in Metric \ {k} : Counted(j)' = Counted(j)
        BY <2>2, <3>0, <3>2, <3>3, MetricNames DEF Counted
      <3>5. Increment(k) /\ main \notin Over
        BY <3>0, <3>1
      <3>6. QED
        BY <2>1, <3>4, <3>5, CountOne
    <2>5. QED
      BY <2>3, <2>4
  <1>5. QED
    BY <1>1, <1>2, <1>3, <1>4 DEF Report

\* A call that is answered during a scrape is one of those the scrape takes
\* for busy, so those answered before it stay the same.
LEMMA BeforeStays ==
    ASSUME SInv, ReadingsInBetween, scraping, scraping', NEW c \in Call,
           Accept(c) \/ Refuse(c) \/ CallerLeaves(c) \/ Handle(c) \/ Report(c)
    PROVE  /\ Before' = Before /\ OpenCalls' \subseteq busy'
           /\ \A d \in Before : call'[d] = "answered" /\ outcome'[d] = outcome[d]
  <1> USE DEF MoveTo, scrape
  <1>1. OpenCalls \subseteq busy
    BY DEF ReadingsInBetween
  <1>2. \A d \in Call \ {c} : call'[d] = call[d] /\ outcome'[d] = outcome[d]
    BY DEF Accept, Refuse, CallerLeaves, Handle, Report, CountRequest, Observe, CountError,
       Send, SInv, TypeOK
  <1>3. CASE Accept(c)
    <2>1. /\ busy' = busy \cup {c} /\ call[c] = "sent" /\ call'[c] = "handling"
          /\ outcome' = outcome
      BY <1>3 DEF Accept, SInv, TypeOK
    <2>2. QED
      BY <1>1, <1>2, <2>1 DEF Before, OpenCalls
  <1>4. CASE Refuse(c)
    <2>1. /\ busy' = busy /\ call[c] = "sent" /\ call'[c] = "refused" /\ outcome' = outcome
      BY <1>4 DEF Refuse, SInv, TypeOK
    <2>2. QED
      BY <1>1, <1>2, <2>1 DEF Before, OpenCalls, Open
  <1>5. CASE CallerLeaves(c) \/ Handle(c) \/ Report(c)
    <2>1. busy' = busy /\ call[c] \in Open
      BY <1>5 DEF CallerLeaves, Handle, Report, CountRequest, Observe, CountError, Send, Open
    <2>2. c \in busy
      BY <1>1, <2>1 DEF OpenCalls
    <2>3. call[c] # "answered"
      BY <2>1 DEF Open
    <2>4. QED
      BY <1>1, <1>2, <2>1, <2>2 DEF Before, OpenCalls
  <1>6. QED
    BY <1>3, <1>4, <1>5

\* What a metric counts of answered calls depends on their outcome only.
LEMMA CountedAnswered ==
    ASSUME NEW k, NEW d \in Call, call[d] = "answered"
    PROVE  d \in Counted(k) <=> IF k \in Code THEN CodeOf(outcome[d]) = k
                                ELSE k \in Reason => outcome[d] # "ok" /\ ReasonOf(outcome[d]) = k
  BY DEF Counted, Requests, Errors, Latencies, PastRequest, PastLatency, PastError

\* A step of a call keeps the readings where they should be.
LEMMA CallReadings ==
    ASSUME SInv, RInv, NEW c \in Call,
           Accept(c) \/ Refuse(c) \/ CallerLeaves(c) \/ Handle(c) \/ Report(c)
    PROVE  RInv'
  <1>1. CountsAreExact' /\ \A k \in Metric : count[k] <= count'[k]
    BY CallCounts DEF RInv
  <1>2. scraping' = scraping /\ read' = read
    BY DEF Accept, Refuse, CallerLeaves, Handle, Report, CountRequest, Observe, CountError,
       Send, scrape
  <1>3. SUFFICES ASSUME scraping, NEW k \in Metric, read[k] # Unread
                 PROVE  read[k] \in Cardinality((Before \cap Counted(k))') .. count'[k]
    <2>1. scraping => OpenCalls' \subseteq busy'
      BY <1>2, BeforeStays DEF RInv
    <2>2. QED
      BY <1>1, <1>2, <1>3, <2>1 DEF RInv, ReadingsInBetween
  <1>4. /\ Before' = Before
        /\ \A d \in Before : call'[d] = "answered" /\ outcome'[d] = outcome[d]
    BY <1>2, <1>3, BeforeStays DEF RInv
  <1>5. \A d \in Before : d \in Call /\ call[d] = "answered"
    BY DEF Before
  <1>6. \A d \in Before : d \in Counted(k)' <=> d \in Counted(k)
    <2> TAKE d \in Before
    <2>1. d \in Call /\ call[d] = "answered" /\ call'[d] = "answered" /\ outcome'[d] = outcome[d]
      BY <1>4, <1>5
    <2>2. d \in Counted(k) <=> IF k \in Code THEN CodeOf(outcome[d]) = k
                               ELSE k \in Reason => outcome[d] # "ok" /\ ReasonOf(outcome[d]) = k
      BY <2>1, CountedAnswered
    <2>3. d \in Counted(k)' <=> IF k \in Code THEN CodeOf(outcome'[d]) = k
                                ELSE k \in Reason => outcome'[d] # "ok" /\ ReasonOf(outcome'[d]) = k
      BY <2>1 DEF Counted, Requests, Errors, Latencies, PastRequest, PastLatency, PastError
    <2>4. QED
      BY <2>1, <2>2, <2>3
  <1>7. (Before \cap Counted(k))' = Before \cap Counted(k)
    BY <1>4, <1>6
  <1>8. /\ read[k] \in Cardinality(Before \cap Counted(k)) .. count[k]
        /\ count[k] \in Nat /\ count'[k] \in Nat /\ count[k] <= count'[k]
        /\ Cardinality(Before \cap Counted(k)) \in Nat
    <2>1. count \in [Metric -> Nat] /\ count' \in [Metric -> Nat]
      BY CallStep DEF SInv, TypeOK
    <2>2. Before \cap Counted(k) \in SUBSET Call
      BY DEF Before
    <2>3. QED
      BY <1>1, <1>3, <2>1, <2>2, CallCounting DEF RInv, ReadingsInBetween
  <1>9. QED
    BY <1>7, <1>8

\* A process that dies or exits ends its scrape.
LEMMA EndReadings == main' \in Over /\ scraping' = FALSE => RInv'
  BY DEF RInv, CountsAreExact, ReadingsInBetween

\* Whatever leaves the calls and the scrape alone.
LEMMA ReadingsFrame ==
    ASSUME RInv, main \notin Over, UNCHANGED <<calls, count, scrape>>
    PROVE  RInv'
  <1>1. \A k : Counted(k)' = Counted(k)
    <2>1. \A k : Requests(k)' = Requests(k)
      BY DEF Requests, calls
    <2>2. \A k : Errors(k)' = Errors(k)
      BY DEF Errors, calls
    <2>3. Latencies' = Latencies
      BY DEF Latencies, calls
    <2>4. QED
      BY <2>1, <2>2, <2>3 DEF Counted
  <1>2. Before' = Before /\ OpenCalls' = OpenCalls
    BY DEF Before, OpenCalls, calls, scrape
  <1>3. QED
    BY <1>1, <1>2 DEF RInv, CountsAreExact, ReadingsInBetween, scrape

\* A step of the scrape.
LEMMA ScrapeReadings ==
    ASSUME SInv, RInv, Scrape
    PROVE  RInv'
  <1>1. UNCHANGED <<main, calls, count>>
    BY DEF Scrape, BeginScrape, ReadMetric, EndScrape, process
  <1>2. \A k : Counted(k)' = Counted(k)
    <2>1. \A k : Requests(k)' = Requests(k)
      BY <1>1 DEF Requests, calls
    <2>2. \A k : Errors(k)' = Errors(k)
      BY <1>1 DEF Errors, calls
    <2>3. Latencies' = Latencies
      BY <1>1 DEF Latencies, calls
    <2>4. QED
      BY <2>1, <2>2, <2>3 DEF Counted
  <1>3. CountsAreExact'
    BY <1>1, <1>2 DEF RInv, CountsAreExact
  <1>4. CASE BeginScrape
    <2>1. \A k \in Metric : read'[k] = Unread
      BY <1>4 DEF BeginScrape, SInv
    <2>2. QED
      BY <1>1, <1>3, <1>4, <2>1 DEF BeginScrape, RInv, ReadingsInBetween, OpenCalls, calls
  <1>5. ASSUME NEW m \in Metric, ReadMetric(m)
        PROVE  RInv'
    <2>1. /\ scraping /\ scraping' /\ busy' = busy /\ Before' = Before /\ OpenCalls' = OpenCalls
          /\ read' = [read EXCEPT ![m] = count[m]]
      BY <1>1, <1>5 DEF ReadMetric, Before, OpenCalls, calls
    <2>2. \A k \in Metric : read'[k] = IF k = m THEN count[k] ELSE read[k]
      BY <2>1 DEF SInv, TypeOK
    <2>3. main \notin Over
      BY <2>1 DEF SInv
    <2>4. ASSUME NEW k \in Metric
          PROVE  count[k] \in Cardinality(Before \cap Counted(k)) .. count[k]
      <3>1. Before \cap Counted(k) \in SUBSET Call /\ Counted(k) \in SUBSET Call
        BY CountedCalls
      <3>2. Cardinality(Before \cap Counted(k)) <= Cardinality(Counted(k))
            /\ Cardinality(Before \cap Counted(k)) \in Nat
        BY <3>1, CallCounting
      <3>3. count[k] = Cardinality(Counted(k)) /\ count[k] \in Nat
        BY <2>3 DEF RInv, CountsAreExact, SInv, TypeOK
      <3>4. QED
        BY <3>2, <3>3
    <2>5. ASSUME NEW k \in Metric, read'[k] # Unread
          PROVE  read'[k] \in Cardinality((Before \cap Counted(k))') .. count'[k]
      BY <1>1, <1>2, <2>1, <2>2, <2>4, <2>5 DEF RInv, ReadingsInBetween
    <2>6. QED
      BY <1>3, <2>1, <2>5 DEF RInv, ReadingsInBetween
  <1>6. CASE EndScrape
    BY <1>3, <1>6 DEF EndScrape, NoScrape, RInv, ReadingsInBetween
  <1>7. QED
    BY <1>4, <1>5, <1>6 DEF Scrape

\* A number read of the calls of a set: no less than those answered before the
\* scrape, no more than all of them, and the others were busy during the scrape.
Reads(n, S) ==
    /\ n \in Int /\ S \in SUBSET Call
    /\ S \subseteq (Before \cap S) \cup busy
    /\ n \in Cardinality(Before \cap S) .. Cardinality(S)

\* Numbers read of disjoint sets add up.
LEMMA ReadsSum ==
    ASSUME NEW n, NEW S, NEW m, NEW T, Reads(n, S), Reads(m, T), S \cap T = {}
    PROVE  Reads(n + m, S \cup T)
  <1>1. /\ S \in SUBSET Call /\ T \in SUBSET Call
        /\ Before \cap S \in SUBSET Call /\ Before \cap T \in SUBSET Call
        /\ (Before \cap S) \cap (Before \cap T) = {}
        /\ Before \cap (S \cup T) = (Before \cap S) \cup (Before \cap T)
    BY DEF Reads
  <1>2. /\ Cardinality(S \cup T) = Cardinality(S) + Cardinality(T)
        /\ Cardinality((Before \cap S) \cup (Before \cap T))
               = Cardinality(Before \cap S) + Cardinality(Before \cap T)
        /\ Cardinality(S) \in Nat /\ Cardinality(T) \in Nat
        /\ Cardinality(Before \cap S) \in Nat /\ Cardinality(Before \cap T) \in Nat
    BY <1>1, CallCounting DEF Reads
  <1>3. n + m \in Cardinality(Before \cap (S \cup T)) .. Cardinality(S \cup T)
    <2>1. Cardinality(Before \cap (S \cup T)) = Cardinality(Before \cap S) + Cardinality(Before \cap T)
      BY <1>1, <1>2
    <2>2. /\ n \in Cardinality(Before \cap S) .. Cardinality(S)
          /\ m \in Cardinality(Before \cap T) .. Cardinality(T)
      BY DEF Reads
    <2>3. QED
      BY <1>2, <2>1, <2>2
  <1>4. QED
    BY <1>1, <1>3 DEF Reads

\* A number that is read counts those answered before and some busy ones.
LEMMA ReadsUpToBusy ==
    ASSUME SInv, NEW n, NEW S, Reads(n, S)
    PROVE  n \in Cardinality(Before \cap S) .. (Cardinality(Before \cap S) + Cardinality(busy))
  <1> DEFINE A == Before \cap S
  <1>1. /\ busy \in SUBSET Call /\ A \in SUBSET Call /\ A \cup busy \in SUBSET Call
        /\ S \in SUBSET Call /\ S \subseteq A \cup busy
    BY DEF SInv, TypeOK, Reads
  <1>2. /\ Cardinality(S) <= Cardinality(A \cup busy)
        /\ Cardinality(A \cup busy) <= Cardinality(A) + Cardinality(busy)
        /\ Cardinality(A) \in Nat /\ Cardinality(S) \in Nat
        /\ Cardinality(busy) \in Nat /\ Cardinality(A \cup busy) \in Nat
    BY <1>1, CallCounting
  <1>3. QED
    BY <1>2 DEF Reads

\* What one metric shows.
LEMMA OneReading ==
    ASSUME SInv, RInv, scraping, NEW k \in Metric, read[k] # Unread
    PROVE  Reads(read[k], Counted(k))
  <1>1. main \notin Over /\ count[k] = Cardinality(Counted(k))
    BY DEF SInv, RInv, CountsAreExact
  <1>2. read[k] \in Cardinality(Before \cap Counted(k)) .. count[k] /\ OpenCalls \subseteq busy
    BY DEF RInv, ReadingsInBetween
  <1>3. \A c \in Counted(k) : c \in Call /\ (call[c] = "answered" \/ call[c] \in Open)
    BY DEF Counted, Requests, Errors, Latencies, PastRequest, PastLatency, PastError, Open
  <1>4. read[k] \in Int
    BY DEF SInv, TypeOK
  <1>5. Counted(k) \subseteq (Before \cap Counted(k)) \cup busy
    BY <1>2, <1>3 DEF Before, OpenCalls
  <1>6. QED
    BY <1>1, <1>2, <1>4, <1>5, CountedCalls DEF Reads

\* What a scrape shows of a metric is a reading, or the zero of a metric that
\* no call is counted by.
LEMMA ShownReading ==
    ASSUME SInv, RInv, Shown, NEW k \in Metric
    PROVE  Reads(Shows(k), Counted(k))
  <1>1. CASE k \in Exposed
    BY <1>1, OneReading DEF Shown, Shows
  <1>2. CASE k \notin Exposed
    <2>1. \A c \in Call : call[c] \in PastRequest => outcome[c] \in Returns
      BY DEF SInv, TypeOK, PastRequest, Open
    <2>2. Counted(k) = {}
      <3>1. k # "latency" /\ Requests(k) = {} /\ Errors(k) = {}
        BY <1>2, <2>1 DEF Exposed, Requests, Errors, PastError, PastRequest
      <3>2. QED
        BY <3>1, MetricNames DEF Counted
    <2>3. Shows(k) = 0 /\ Cardinality({}) = 0
      BY <1>2, FS_EmptySet DEF Shows
    <2>4. QED
      BY <2>2, <2>3 DEF Reads
  <1>3. QED
    BY <1>1, <1>2

\* What the metrics of a family count, and that no call is counted by two.
LEMMA MetricsOfCalls ==
    /\ Counted("latency") = Latencies
    /\ \A k \in Code : Counted(k) = Requests(k)
    /\ \A k \in Reason : Counted(k) = Errors(k)
    /\ \A k, j : k # j => Requests(k) \cap Requests(j) = {} /\ Errors(k) \cap Errors(j) = {}
  <1>1. /\ Counted("latency") = Latencies
        /\ \A k \in Code : Counted(k) = Requests(k)
        /\ \A k \in Reason : Counted(k) = Errors(k)
    BY MetricNames DEF Counted
  <1>2. \A k, j : k # j => Requests(k) \cap Requests(j) = {} /\ Errors(k) \cap Errors(j) = {}
    BY DEF Requests, Errors
  <1>3. QED
    BY <1>1, <1>2

\* The answered calls by code and by reason.
LEMMA AnsweredByLabel ==
    /\ Before \cap Latencies = Before
    /\ Before \cap (Requests("OK") \cup (Requests("InvalidArgument") \cup Requests("Internal"))) = Before
    /\ Before \cap (Requests("InvalidArgument") \cup Requests("Internal"))
           = {c \in Before : outcome[c] # "ok"}
    /\ Before \cap (((Errors("context_canceled") \cup Errors("fraud_operation"))
                          \cup Errors("limit_overflow")) \cup Errors("other"))
           = {c \in Before : outcome[c] # "ok"}
  <1>1. \A c \in Before : c \in Call /\ call[c] = "answered"
    BY DEF Before
  <1>2. \A c \in Before : c \in Latencies
    BY <1>1 DEF Latencies, PastLatency
  <1>3. \A c \in Before : \A k : /\ c \in Requests(k) <=> CodeOf(outcome[c]) = k
                                 /\ c \in Errors(k) <=> outcome[c] # "ok" /\ ReasonOf(outcome[c]) = k
    BY <1>1 DEF Requests, Errors, PastRequest, PastError
  <1>4. \A c : /\ CodeOf(outcome[c]) \in {"OK", "InvalidArgument", "Internal"}
               /\ CodeOf(outcome[c]) = "OK" <=> outcome[c] = "ok"
               /\ ReasonOf(outcome[c]) \in {"context_canceled", "fraud_operation",
                                            "limit_overflow", "other"}
    BY DEF CodeOf, ReasonOf
  <1>5. QED
    BY <1>2, <1>3, <1>4

\* metricsUnaryInterceptor, promhttp: a scrape agrees with itself up to the
\* calls that were open while it ran, for any number of calls and whatever the
\* order in which it reads the metrics.
THEOREM MetricsAgree == Spec => []ScrapesAgree
  <1>1. Init => RInv
    <2> SUFFICES ASSUME Init PROVE RInv
      OBVIOUS
    <2>1. \A k : Counted(k) = {}
      BY DEF Init, Counted, Requests, Errors, Latencies, PastRequest, PastLatency, PastError
    <2>2. \A k \in Metric : count[k] = 0
      BY DEF Init
    <2>3. QED
      BY <2>1, <2>2, FS_EmptySet DEF Init, RInv, CountsAreExact, ReadingsInBetween
  <1>2. SInv /\ RInv /\ [Next]_vars => RInv'
    <2> SUFFICES ASSUME SInv, RInv, [Next]_vars PROVE RInv'
      OBVIOUS
    <2>1. ASSUME NEW c \in Call, Panic(c)
          PROVE  RInv'
      BY <2>1, EndReadings DEF Panic, Die, NoScrape, Over
    <2>2. CASE ListenFails \/ ServeFails \/ SignalKills \/ Exit
      BY <2>2, EndReadings DEF ListenFails, ServeFails, SignalKills, Exit, Die, NoScrape, Over
    <2>3. CASE Listen \/ Notify \/ Wait \/ Drain \/ Stop \/ Serve \/ Signal
      <3>1. main \notin Over /\ UNCHANGED <<calls, count, scrape>>
        BY <2>3 DEF Listen, Notify, Wait, Drain, Stop, Serve, Signal, Over, Up
      <3>2. QED
        BY <3>1, ReadingsFrame
    <2>4. CASE UNCHANGED vars
      <3>1. UNCHANGED <<calls, count, scrape>> /\ main' = main
        BY <2>4 DEF vars, process
      <3>2. CASE main \in Over
        <4>1. ~scraping /\ ~scraping'
          BY <3>1, <3>2 DEF SInv, scrape
        <4>2. QED
          BY <3>1, <3>2, <4>1 DEF RInv, CountsAreExact, ReadingsInBetween
      <3>3. CASE main \notin Over
        BY <3>1, <3>3, ReadingsFrame
      <3>4. QED
        BY <3>2, <3>3
    <2>5. CASE Scrape
      BY <2>5, ScrapeReadings
    <2>6. ASSUME NEW c \in Call,
                 Accept(c) \/ Refuse(c) \/ CallerLeaves(c) \/ Handle(c) \/ Report(c)
          PROVE  RInv'
      BY <2>6, CallReadings
    <2>7. QED
      BY <2>1, <2>2, <2>3, <2>4, <2>5, <2>6 DEF Next, Main, Idle
  <1>3. SInv /\ RInv => ScrapesAgree
    <2> SUFFICES ASSUME SInv, RInv, Shown PROVE ScrapesAgree
      BY DEF ScrapesAgree
    <2>2. \A k \in Metric : Reads(Shows(k), Counted(k))
      BY ShownReading
    <2>3. Reads(Shows("latency"), Latencies)
      BY <2>2, MetricNames, MetricsOfCalls
    <2>4. /\ Reads(Shows("OK"), Requests("OK"))
          /\ Reads(Shows("InvalidArgument"), Requests("InvalidArgument"))
          /\ Reads(Shows("Internal"), Requests("Internal"))
      BY <2>2, MetricsOfCalls DEF Metric, Code
    <2>5. /\ Reads(Shows("context_canceled"), Errors("context_canceled"))
          /\ Reads(Shows("fraud_operation"), Errors("fraud_operation"))
          /\ Reads(Shows("limit_overflow"), Errors("limit_overflow"))
          /\ Reads(Shows("other"), Errors("other"))
      BY <2>2, MetricsOfCalls DEF Metric, Reason
    <2>6. Reads(FailuresRead, Requests("InvalidArgument") \cup Requests("Internal"))
      BY <2>4, ReadsSum, MetricsOfCalls DEF FailuresRead
    <2>7. Reads(RequestsRead, Requests("OK") \cup (Requests("InvalidArgument") \cup Requests("Internal")))
      <3>1. Requests("OK") \cap (Requests("InvalidArgument") \cup Requests("Internal")) = {}
        BY MetricsOfCalls
      <3>2. QED
        BY <2>4, <2>6, <3>1, ReadsSum DEF RequestsRead
    <2>8. Reads(ErrorsRead, ((Errors("context_canceled") \cup Errors("fraud_operation"))
                                 \cup Errors("limit_overflow")) \cup Errors("other"))
      <3> DEFINE two == Errors("context_canceled") \cup Errors("fraud_operation")
                 three == two \cup Errors("limit_overflow")
      <3>1. /\ Errors("context_canceled") \cap Errors("fraud_operation") = {}
            /\ two \cap Errors("limit_overflow") = {}
            /\ three \cap Errors("other") = {}
        BY MetricsOfCalls
      <3>2. Reads(Shows("context_canceled") + Shows("fraud_operation"), two)
        BY <2>5, <3>1, ReadsSum
      <3> HIDE DEF two
      <3>3. Reads(Shows("context_canceled") + Shows("fraud_operation") + Shows("limit_overflow"), three)
        BY <2>5, <3>1, <3>2, ReadsSum
      <3> HIDE DEF three
      <3>4. Reads(ErrorsRead, three \cup Errors("other"))
        BY <2>5, <3>1, <3>3, ReadsSum DEF ErrorsRead
      <3>5. QED
        BY <3>4 DEF three, two
    <2> DEFINE before == {c \in Call : call[c] = "answered"} \ busy
               failed == {c \in before : outcome[c] # "ok"}
    <2>9. before = Before /\ failed = {c \in Before : outcome[c] # "ok"}
      BY DEF Before
    <2>10. /\ RequestsRead \in Cardinality(before) .. (Cardinality(before) + Cardinality(busy))
           /\ Shows("latency") \in Cardinality(before) .. (Cardinality(before) + Cardinality(busy))
      BY <2>3, <2>7, <2>9, ReadsUpToBusy, AnsweredByLabel
    <2>11. /\ FailuresRead \in Cardinality(failed) .. (Cardinality(failed) + Cardinality(busy))
           /\ ErrorsRead \in Cardinality(failed) .. (Cardinality(failed) + Cardinality(busy))
      BY <2>6, <2>8, <2>9, ReadsUpToBusy, AnsweredByLabel
    <2>12. QED
      BY <2>10, <2>11 DEF ScrapesAgree
  <1>4. QED
    BY <1>1, <1>2, <1>3, ServerInvariance, ServerStep, PTL DEF Spec
=============================================================================
