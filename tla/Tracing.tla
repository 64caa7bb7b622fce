------------------------------ MODULE Tracing -------------------------------
(***************************************************************************)
(* tracing.AskTracer: the spans of one question's trace, which live at the  *)
(* tracing service, and what the tracer holds of them.  Any call to the     *)
(* service may fail; the tracer then logs and gives up the rest of what it  *)
(* was doing, never the answer.                                             *)
(***************************************************************************)
EXTENDS Integers, Sequences

VARIABLES
    trace,      \* "none" yet, "off" when the tracer has no root span, "on", and
                \* once finished "finished", or "failed" when that failed part way
    spans,      \* the service's: the state of each span
    held,       \* the spans below the root that the tracer still means to end
    sent        \* what went to the service: "redacted" text, text the program
                \* "composed" itself, and text as it was "raised"

traceVars == <<trace, spans, held, sent>>

Span == <<"retrieval", "answer", "ask">>    \* in the order `finish` ends them

TraceInit ==
    /\ trace = "none"
    /\ spans = [s \in {"ask", "retrieval", "answer"} |-> "none"]
    /\ held = {}
    /\ sent = {}

\* AskTracer.__init__: no client, or the root span fails; the retriever span
\* fails, and the root is let go of; both are started.
TraceStart ==
    \/ /\ trace' = "off"
       /\ UNCHANGED <<spans, held, sent>>
    \/ /\ trace' = "off"
       /\ spans' = [spans EXCEPT !["ask"] = "open"]
       /\ sent' = {"redacted"}
       /\ UNCHANGED held
    \/ /\ trace' = "on"
       /\ spans' = [spans EXCEPT !["ask"] = "open", !["retrieval"] = "open"]
       /\ held' = {"retrieval"}
       /\ sent' = {"redacted"}

\* Mutant: the retriever span is forgotten before it is ended.
SourcesForgets ==
    \/ /\ trace # "on"
       /\ UNCHANGED traceVars
    \/ /\ trace = "on"
       /\ held' = held \ {"retrieval"}
       /\ UNCHANGED <<trace, spans, sent>>
    \/ /\ trace = "on"
       /\ spans' = [spans EXCEPT !["retrieval"] = "ended", !["answer"] = "open"]
       /\ held' = {"answer"}
       /\ UNCHANGED <<trace, sent>>

\* sources: nothing without a root; the retriever span fails to end; the
\* generation span fails to start; all goes well.
TraceSources ==
    \/ /\ trace # "on"
       /\ UNCHANGED traceVars
    \/ /\ trace = "on"
       /\ UNCHANGED traceVars
    \/ /\ trace = "on"
       /\ spans' = [spans EXCEPT !["retrieval"] = "ended"]
       /\ held' = held \ {"retrieval"}
       /\ UNCHANGED <<trace, sent>>
    \/ /\ trace = "on"
       /\ spans' = [spans EXCEPT !["retrieval"] = "ended", !["answer"] = "open"]
       /\ held' = {"answer"}
       /\ UNCHANGED <<trace, sent>>

\* finish: ends what is held, sends the error as it is or else the redacted
\* answer, and ends the root; or stops before the (n+1)th of the spans.
TraceFinish(error) ==
    \/ /\ trace # "on"
       /\ UNCHANGED traceVars
    \/ /\ trace = "on"
       /\ \E n \in 0..Len(Span) :
            /\ trace' = IF n = Len(Span) THEN "finished" ELSE "failed"
            /\ spans' = [s \in DOMAIN spans |->
                           IF s \in held \cup {"ask"} /\ \E i \in 1..n : Span[i] = s
                           THEN "ended" ELSE spans[s]]
            /\ sent' = sent \cup IF n < 2 THEN {}
                                 ELSE IF error = "none" THEN {"redacted"} ELSE {error}
       /\ UNCHANGED held

-----------------------------------------------------------------------------

\* A trace that was finished leaves no span open at the service, whatever failed
\* on the way: a span that could not be ended earlier is still held.
FinishedTraceIsClosed ==
    trace = "finished" => \A s \in DOMAIN spans : spans[s] # "open"

\* As documented, tracing.py:15, "Everything that leaves for Langfuse is redacted
\* first": the error of a failed answer is sent as it was raised.
EverythingSentIsScrubbed == "raised" \notin sent
=============================================================================
