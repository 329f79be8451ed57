-------------------------------- MODULE Audit --------------------------------
(***************************************************************************)
(* audit/event.go, audit/sink.go and audit/otel/sink.go: events and the    *)
(* sinks they fan out to.  A sink is its name, and what it has recorded is *)
(* a sequence; counters are the counts of what the otel sink recorded.     *)
(***************************************************************************)
EXTENDS Naturals, Sequences

\* The fields of an event that the gate's decisions differ in; "" and <<>> are Go's zero
\* values.  Issuer, Scopes and Time are left out.
Event(Outcome, ReasonCode, Tool, Subject, Email) ==
    [ Action |-> "tool_call", Outcome |-> Outcome, ReasonCode |-> ReasonCode,
      Tool |-> Tool, Subject |-> Subject, Email |-> Email ]

MetricLabels(e) ==
    {<<"action", e.Action>>, <<"outcome", e.Outcome>>}
    \cup {<<"reason_code", r>> : r \in {e.ReasonCode} \ {""}}

TraceAttributes(e) ==
    MetricLabels(e) \cup {<<"tool", t>> : t \in {e.Tool} \ {""}}
                    \cup {<<"subject", s>> : s \in {e.Subject} \ {""}}

\* What one sink keeps of an event: slog the whole of it, otel the labels of a counter and,
\* if the span of the call's context is recording, the attributes of an event on it.
Recorded(sink, e, recording) ==
    IF sink = "otel"
    THEN [labels |-> MetricLabels(e), span |-> IF recording THEN TraceAttributes(e) ELSE {}]
    ELSE e

\* NewMultiSink skips nil elements.
NewMultiSink(sinks) == SelectSeq(sinks, LAMBDA s : s # "nil")

\* Faulty variant: the sinks are called last to first.
RecordBackwards(sinks, logs, e, recording, n) ==
    [i \in 1 .. Len(sinks) |->
        IF i > Len(sinks) - n THEN Append(logs[i], Recorded(sinks[i], e, recording)) ELSE logs[i]]

\* multiSink.Record with sinks that have recorded logs: the sinks are called in order, and
\* if sink n + 1 panics the later ones are not called.  All get the context of the call.
Record(sinks, logs, e, recording, n) ==
    [i \in 1 .. Len(sinks) |->
        IF i <= n THEN Append(logs[i], Recorded(sinks[i], e, recording)) ELSE logs[i]]
=============================================================================
