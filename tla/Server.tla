------------------------------- MODULE Server -------------------------------
(***************************************************************************)
(* The process around the handlers: main.go and metrics.go, whose shape is *)
(* the same in processing_core and in the antifraud.  main opens a session *)
(* (the connection to the antifraud; the Cassandra session), listens,      *)
(* serves gRPC in a goroutine, and waits for a signal.  Then GracefulStop  *)
(* refuses new calls and waits for the open ones, and the deferred Close   *)
(* ends the session as main returns.  An interceptor runs each handler and *)
(* counts its result, one Prometheus metric after the other.  Meanwhile a  *)
(* scrape reads the metrics, one after the other too, in any order.        *)
(*                                                                         *)
(* A handler is what Processing and Antifraud model: here it only ends     *)
(* with an outcome, or hangs.                                              *)
(***************************************************************************)
EXTENDS Integers, FiniteSets

CONSTANTS
    Call,       \* calls that callers make
    MayHang,    \* calls that may wait for ever (cash-outs, see Processing)
    Malformed,  \* calls without a transaction
    Returns,    \* what the handlers of the service return
    MaxSignals, \* bound: SIGINT and SIGTERM that main is told of
    MaxScrapes  \* bound: scrapes of the metrics

\* A handler returns nil, or an error for one of these reasons.
Outcome == {"ok", "invalid", "fraud", "limit", "cancelled", "failed"}

ASSUME ServerAssumption ==
    /\ IsFiniteSet(Call)
    /\ MayHang \subseteq Call
    /\ Malformed \subseteq Call
    /\ Returns \subseteq Outcome
    /\ MaxSignals \in Nat
    /\ MaxScrapes \in Nat

\* The handlers wrap errors with status.Error.
Code == {"OK", "InvalidArgument", "Internal"}
CodeOf(o) ==
    CASE o = "ok"      -> "OK"
      [] o = "invalid" -> "InvalidArgument"
      [] OTHER         -> "Internal"

\* categorizeError.  status.Error keeps the text of an error and not the error
\* itself, so errors.Is(err, context.Canceled) is false for every outcome.
Reason == {"context_canceled", "fraud_operation", "limit_overflow", "other"}
ReasonOf(o) ==
    CASE o = "fraud" -> "fraud_operation"
      [] o = "limit" -> "limit_overflow"
      [] OTHER       -> "other"

\* requests_total by code, the observations of request_duration_seconds, and
\* errors_total by reason.
Metric == Code \cup {"latency"} \cup Reason

\* What a scrape comes to: a vector has a child for each label that a call was
\* counted under, and no call is counted under another than these.
Exposed == {CodeOf(o) : o \in Returns} \cup {"latency"} \cup {ReasonOf(o) : o \in Returns \ {"ok"}}

Unread == -1

VARIABLES
    main,     \* where main is
    serving,  \* server.Serve runs in its goroutine
    quit,     \* signals in the channel
    session,  \* the connection that main closes when it returns
    signals,  \* signals since signal.Notify
    call,     \* where each call is
    gone,     \* callers that gave up
    outcome,  \* what each handler returned
    count,    \* of each metric
    scraping, \* Prometheus scrapes
    read,     \* what the scrape has read of each metric
    busy,     \* calls that were open at some moment of the scrape
    scrapes   \* scrapes begun

process == <<main, serving, quit, session, signals>>
calls   == <<call, gone, outcome>>
scrape  == <<scraping, read, busy, scrapes>>
vars    == <<process, calls, count, scrape>>

\* A call that the interceptor has and that was not answered yet.
Open == {"handling", "handled", "counted", "observed", "returned"}
OpenCalls == {c \in Call : call[c] \in Open}

Init ==
    /\ main = "starting"
    /\ serving = FALSE
    /\ quit = 0
    /\ session = "open"
    /\ signals = 0
    /\ call = [c \in Call |-> "sent"]
    /\ gone = {}
    /\ outcome = [c \in Call |-> "none"]
    /\ count = [k \in Metric |-> 0]
    /\ scraping = FALSE
    /\ read = [k \in Metric |-> Unread]
    /\ busy = {}
    /\ scrapes = 0

MoveTo(c, place) == call' = [call EXCEPT ![c] = place]

\* Where main is while the port is open and nobody has asked it to stop.
Up == {"listening", "notified", "waiting"}

\* Where the process is over.
Over == {"exited", "killed", "fatal", "panicked"}

NoScrape ==
    /\ scraping' = FALSE
    /\ read' = [k \in Metric |-> Unread]
    /\ busy' = {}

\* The process ends without main returning: no deferred call runs, and the
\* open calls and the scrape end with it.
Die(how) ==
    /\ main' = how
    /\ call' = [c \in Call |-> IF call[c] \in Open THEN "cut" ELSE call[c]]
    /\ NoScrape
    /\ UNCHANGED <<serving, quit, session, signals, gone, outcome, count, scrapes>>

-----------------------------------------------------------------------------
(* A call. *)

\* The server starts the interceptor, which calls the handler.
Accept(c) ==
    /\ call[c] = "sent"
    /\ serving
    /\ main \in Up
    /\ MoveTo(c, "handling")
    /\ busy' = IF scraping THEN busy \cup {c} ELSE busy
    /\ UNCHANGED <<process, gone, outcome, count, scraping, read, scrapes>>

\* Nobody listens, or the server has sent GOAWAY.
Refuse(c) ==
    /\ call[c] = "sent"
    /\ main \notin Up
    /\ MoveTo(c, "refused")
    /\ UNCHANGED <<process, gone, outcome, count, scrape>>

CallerLeaves(c) ==
    /\ call[c] = "handling"
    /\ c \notin gone
    /\ gone' = gone \cup {c}
    /\ UNCHANGED <<process, call, outcome, count, scrape>>

\* The handler returns.
Handle(c) ==
    /\ call[c] = "handling"
    /\ c \notin Malformed
    /\ \E o \in Returns :
           /\ o = "cancelled" => c \in gone
           /\ outcome' = [outcome EXCEPT ![c] = o]
    /\ MoveTo(c, "handled")
    /\ UNCHANGED <<process, gone, count, scrape>>

\* Variant of Panic: the interceptor recovers, and the handler has no result.
PanicRecovered(c) ==
    /\ call[c] = "handling"
    /\ c \in Malformed
    /\ MoveTo(c, "handled")
    /\ UNCHANGED <<process, gone, outcome, count, scrape>>

\* validateTransaction takes the address of a field of a nil message: it
\* panics, nothing recovers, and the process is gone with its open calls.
Panic(c) ==
    /\ call[c] = "handling"
    /\ c \in Malformed
    /\ Die("panicked")

Increment(k) == count' = [count EXCEPT ![k] = @ + 1]

CountRequest(c) ==
    /\ call[c] = "handled"
    /\ Increment(CodeOf(outcome[c]))
    /\ MoveTo(c, "counted")
    /\ UNCHANGED <<process, gone, outcome, scrape>>

\* Variant of Observe: the latency of successful calls only.
ObserveSuccess(c) ==
    /\ call[c] = "counted"
    /\ IF outcome[c] = "ok" THEN Increment("latency") ELSE UNCHANGED count
    /\ MoveTo(c, "observed")
    /\ UNCHANGED <<process, gone, outcome, scrape>>

Observe(c) ==
    /\ call[c] = "counted"
    /\ Increment("latency")
    /\ MoveTo(c, "observed")
    /\ UNCHANGED <<process, gone, outcome, scrape>>

CountError(c) ==
    /\ call[c] = "observed"
    /\ IF outcome[c] = "ok" THEN UNCHANGED count ELSE Increment(ReasonOf(outcome[c]))
    /\ MoveTo(c, "returned")
    /\ UNCHANGED <<process, gone, outcome, scrape>>

\* The answer is written, whether anybody still waits for it or not.
Send(c) ==
    /\ call[c] = "returned"
    /\ MoveTo(c, "answered")
    /\ UNCHANGED <<process, gone, outcome, count, scrape>>

-----------------------------------------------------------------------------
(* A scrape. *)

\* The metrics are served from the time the port is open until the process
\* is over.
BeginScrape ==
    /\ main \notin Over \cup {"starting"}
    /\ ~scraping
    /\ scrapes < MaxScrapes
    /\ scraping' = TRUE
    /\ busy' = OpenCalls
    /\ scrapes' = scrapes + 1
    /\ UNCHANGED <<process, calls, count, read>>

\* Gather collects the registered metrics concurrently, and reads the value
\* of each when it comes to it.
ReadMetric(k) ==
    /\ scraping
    /\ k \in Exposed
    /\ read[k] = Unread
    /\ read' = [read EXCEPT ![k] = count[k]]
    /\ UNCHANGED <<process, calls, count, scraping, busy, scrapes>>

\* Every metric is read.
Shown == scraping /\ \A k \in Exposed : read[k] # Unread

EndScrape ==
    /\ Shown
    /\ NoScrape
    /\ UNCHANGED <<process, calls, count, scrapes>>

-----------------------------------------------------------------------------
(* main. *)

\* The port is open; the goroutines are started.
Listen ==
    /\ main = "starting"
    /\ main' = "listening"
    /\ UNCHANGED <<serving, quit, session, signals, calls, count, scrape>>

\* log.Fatalf: the port is taken.
ListenFails == main = "starting" /\ Die("fatal")

\* The goroutine calls Serve.
Serve ==
    /\ main \in Up
    /\ ~serving
    /\ serving' = TRUE
    /\ UNCHANGED <<main, quit, session, signals, calls, count, scrape>>

\* log.Fatalf: accepting a connection fails, or Serve is called when
\* GracefulStop was, and returns ErrServerStopped.
ServeFails ==
    /\ \/ main \in Up /\ serving
       \/ main \in {"draining", "stopped"} /\ ~serving
    /\ Die("fatal")

\* signal.Notify
Notify ==
    /\ main = "listening"
    /\ main' = "notified"
    /\ UNCHANGED <<serving, quit, session, signals, calls, count, scrape>>

\* main comes to <-quit.
Wait ==
    /\ main = "notified"
    /\ main' = "waiting"
    /\ UNCHANGED <<serving, quit, session, signals, calls, count, scrape>>

\* A signal before signal.Notify kills the process.
SignalKills == main \in {"starting", "listening"} /\ Die("killed")

\* Variant of Signal: the channel has no buffer, and a signal that finds
\* nobody waiting is dropped.
SignalUnbuffered ==
    /\ main \in {"notified", "waiting", "draining", "stopped"}
    /\ signals < MaxSignals
    /\ signals' = signals + 1
    /\ quit' = IF main = "waiting" THEN 1 ELSE quit
    /\ UNCHANGED <<main, serving, session, calls, count, scrape>>

\* The channel holds one signal; one that finds it full is dropped.
Signal ==
    /\ main \in {"notified", "waiting", "draining", "stopped"}
    /\ signals < MaxSignals
    /\ signals' = signals + 1
    /\ quit' = 1
    /\ UNCHANGED <<main, serving, session, calls, count, scrape>>

\* Variant of Drain: Stop instead of GracefulStop.
DrainAtOnce ==
    /\ main = "waiting"
    /\ quit > 0
    /\ quit' = quit - 1
    /\ main' = "draining"
    /\ call' = [c \in Call |-> IF call[c] \in Open THEN "cut" ELSE call[c]]
    /\ UNCHANGED <<serving, session, signals, gone, outcome, count, scrape>>

\* Variant of Drain: the session is closed before the server stops.
DrainClosed ==
    /\ main = "waiting"
    /\ quit > 0
    /\ quit' = quit - 1
    /\ main' = "draining"
    /\ session' = "closed"
    /\ UNCHANGED <<serving, signals, calls, count, scrape>>

\* <-quit, GracefulStop: no new calls.
Drain ==
    /\ main = "waiting"
    /\ quit > 0
    /\ quit' = quit - 1
    /\ main' = "draining"
    /\ UNCHANGED <<serving, session, signals, calls, count, scrape>>

\* GracefulStop returns when the open calls are answered.
Stop ==
    /\ main = "draining"
    /\ OpenCalls = {}
    /\ main' = "stopped"
    /\ UNCHANGED <<serving, quit, session, signals, calls, count, scrape>>

\* main returns: the deferred Close, and the end of all other goroutines.
Exit ==
    /\ main = "stopped"
    /\ main' = "exited"
    /\ session' = "closed"
    /\ NoScrape
    /\ UNCHANGED <<serving, quit, signals, calls, count, scrapes>>

\* Nothing is left to do.
Idle ==
    /\ \A c \in Call : call[c] \in {"answered", "refused", "cut"}
    /\ UNCHANGED vars

\* What the server does with a call once its handler has returned.
Report(c) == CountRequest(c) \/ Observe(c) \/ CountError(c) \/ Send(c)

Scrape == BeginScrape \/ EndScrape \/ \E k \in Metric : ReadMetric(k)

Main == Listen \/ ListenFails \/ Notify \/ Wait \/ Drain \/ Stop \/ Exit

Next ==
    \/ \E c \in Call : \/ Accept(c) \/ Refuse(c) \/ CallerLeaves(c)
                       \/ Handle(c) \/ Panic(c) \/ Report(c)
    \/ Main
    \/ Serve
    \/ ServeFails
    \/ Signal
    \/ SignalKills
    \/ Scrape
    \/ Idle

Spec == Init /\ [][Next]_vars

\* main and the interceptor run, and every handler ends that cannot hang.
Fairness ==
    /\ WF_vars(Main)
    /\ \A c \in Call : WF_vars(Report(c))
    /\ \A c \in Call \ MayHang : WF_vars(Handle(c) \/ Panic(c))

FairSpec == Spec /\ Fairness

-----------------------------------------------------------------------------
(* Properties. *)

\* Every variable holds a value of its type.
TypeOK ==
    /\ main \in Up \cup Over \cup {"starting", "draining", "stopped"}
    /\ serving \in BOOLEAN
    /\ quit \in 0 .. 1
    /\ session \in {"open", "closed"}
    /\ signals \in Nat
    /\ call \in [Call -> Open \cup {"sent", "answered", "refused", "cut"}]
    /\ gone \in SUBSET Call
    /\ outcome \in [Call -> Returns \cup {"none"}]
    /\ \A c \in Call :
           call[c] \in (Open \ {"handling"}) \cup {"answered"} => outcome[c] \in Returns
    /\ count \in [Metric -> Nat]
    /\ scraping \in BOOLEAN
    /\ read \in [Metric -> Nat \cup {Unread}]
    /\ busy \in SUBSET Call
    /\ scrapes \in Nat

\* defer Close: no handler runs on a closed session, so a call that is open
\* while the process is asked to stop still has its dependencies.
SessionOutlivesCalls == session = "closed" => OpenCalls = {}

\* GracefulStop: once main was told of a signal, every call the server had
\* accepted is answered before the process ends.  A call is cut off only by a
\* panic over a call without a transaction, by a Serve that failed while it was
\* serving, or by a signal that came before signal.Notify; and when main gets
\* past GracefulStop, or the process is over, no call is left open.
StopAnswersCalls ==
    LET cut == {c \in Call : call[c] = "cut"}
    IN  /\ cut # {} => \/ main = "panicked" /\ cut \cap Malformed # {}
                       \/ main = "fatal" /\ serving
                       \/ main = "killed" /\ serving /\ signals = 0
        /\ main \in Over \cup {"stopped"} => OpenCalls = {}

\* What a scrape shows of a metric, and sums of that.
Shows(k)     == IF k \in Exposed THEN read[k] ELSE 0
FailuresRead == Shows("InvalidArgument") + Shows("Internal")
RequestsRead == Shows("OK") + FailuresRead
ErrorsRead   == Shows("context_canceled") + Shows("fraud_operation")
                    + Shows("limit_overflow") + Shows("other")

\* metricsUnaryInterceptor, promhttp: a scrape that reads the metrics one by
\* one, in any order, while calls are counted, agrees with itself up to the
\* calls that were open while it ran.  It may show more latencies or errors
\* than requests, yet it misses no call that was answered before it began, and
\* counts none twice: each of its sums lies between the calls (the failures)
\* answered before and those with the calls that were open during the scrape.
ScrapesAgree ==
    LET before == {c \in Call : call[c] = "answered"} \ busy
        failed == {c \in before : outcome[c] # "ok"}
        UpToBusy(n) == n .. (n + Cardinality(busy))
    IN  Shown => /\ {RequestsRead, Shows("latency")} \subseteq UpToBusy(Cardinality(before))
                 /\ {FailuresRead, ErrorsRead} \subseteq UpToBusy(Cardinality(failed))

\* GracefulStop, defer: a signal that main is told of ends the process, unless
\* a call hangs that the server waits for.
SignalStops == signals > 0 ~> main \in Over \/ \E c \in MayHang : call[c] = "handling"
=============================================================================
