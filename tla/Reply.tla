------------------------------- MODULE Reply --------------------------------
(***************************************************************************)
(* What becomes of the text: a document is cut into chunks; a question is   *)
(* answered from some of them, defused for the model; the answer's findings *)
(* are what output checks make of it; the trace follows all of it.  What    *)
(* the answer costs, and who may ask, are in Answers and Access.            *)
(***************************************************************************)
EXTENDS Chunking, Prompt, Tracing

CONSTANTS
    Asked,      \* the texts a question is asked about
    K,          \* how many passages a question retrieves
    Cites,      \* the numbers the model cites
    MaxParts    \* bound: the parts of an answer

VARIABLES
    stage,      \* of answer_stream
    contexts,   \* the passages' texts, as they are stored
    answer,     \* what was streamed
    billed,     \* the usage was booked
    warnings,   \* check_answer's findings
    error       \* trace_error: "none", "composed" or "raised"

replyVars == <<stage, contexts, answer, billed, warnings, error>>
vars == <<chunkVars, traceVars, replyVars>>

\* A chunk's positions are those between its first and its last.
Passage(i) == SubSeq(text, Min(chunks[i]), Max(chunks[i]))

Init ==
    /\ ChunkInit /\ TraceInit
    /\ stage = "stored"
    /\ contexts = << >>
    /\ answer = << >>
    /\ billed = FALSE
    /\ warnings = {}
    /\ error = "none"

Store == Chunk /\ UNCHANGED <<traceVars, replyVars>>

Ask ==
    /\ stage = "stored" /\ chunked /\ text \in Asked
    /\ TraceStart
    /\ stage' = "asked"
    /\ UNCHANGED <<chunkVars, contexts, answer, billed, warnings, error>>

\* _limit_block gives a reason.
Block ==
    /\ stage = "asked"
    /\ error' = "composed"
    /\ stage' = "ending"
    /\ UNCHANGED <<chunkVars, traceVars, contexts, answer, billed, warnings>>

\* The nearest chunks the caller may see, in some order, or none: a refusal.
Search ==
    /\ stage = "asked"
    /\ \E n \in 0..K : \E found \in [1..n -> 1..Len(chunks)] :
         /\ IsInjective(found)
         /\ contexts' = [i \in 1..n |-> Passage(found[i])]
         /\ stage' = IF n = 0 THEN "ending" ELSE "found"
    /\ UNCHANGED <<chunkVars, traceVars, answer, billed, warnings, error>>

Sources ==
    /\ stage = "found"
    /\ TraceSources
    /\ stage' = "streaming"
    /\ UNCHANGED <<chunkVars, contexts, answer, billed, warnings, error>>

-----------------------------------------------------------------------------
(* The model.  It quotes what it was shown, letter by letter or in another  *)
(* spelling, or words of its own.                                           *)

Spelling == {"as shown", "capitals", "lookalikes", "wrapped", "joined"}

Spelled(t, how) ==
    CASE how = "as shown" -> t
      [] how = "capitals" -> [i \in 1..Len(t) |-> IF t[i] = "a" THEN "A" ELSE t[i]]
      [] how = "lookalikes" -> [i \in 1..Len(t) |-> IF t[i] = "a" THEN "alpha" ELSE t[i]]
      [] how = "wrapped" -> [i \in 1..Len(t) |-> IF t[i] = " " THEN "newline" ELSE t[i]]
      [] how = "joined" -> [i \in 1..(2 * Len(t)) |-> IF i % 2 = 1 THEN t[(i + 1) \div 2] ELSE "z"]

\* What can be quoted from t: runs of at least two letters between two that are not blank.
Excerpts(t) ==
    {SubSeq(t, r[1], r[2]) : r \in {s \in (1..Len(t)) \X (1..Len(t)) :
        s[1] < s[2] /\ t[s[1]] \notin White /\ t[s[2]] \notin White}}

Quotes ==
    {<<"own">>} \cup UNION {{Spelled(t, how) : t \in Excerpts(Shown(contexts[i])), how \in Spelling} :
                              i \in 1..Len(contexts)}

\* A token event, as far as the checks tell tokens apart.
Write ==
    /\ stage = "streaming"
    /\ Len(answer) < MaxParts
    /\ \E part \in {Cite(n) : n \in Cites} \cup {Quote(q) : q \in Quotes} \cup {Prose, Aside} :
         answer' = Append(answer, part)
    /\ UNCHANGED <<chunkVars, traceVars, stage, contexts, billed, warnings, error>>

\* The usage event: booked, the trace's answer updated, and the checks made.
Usage ==
    /\ stage = "streaming"
    /\ billed' = TRUE
    /\ warnings' = check_answer(answer, contexts)
    /\ sent' = IF trace = "on" /\ "answer" \in held THEN sent \cup {"redacted"} ELSE sent
    /\ stage' = "told"
    /\ UNCHANGED <<chunkVars, trace, spans, held, contexts, answer, error>>

-----------------------------------------------------------------------------

Running == {"asked", "found", "streaming", "told"}

\* Something raises, the provider after its usage event included.
Raise ==
    /\ stage \in Running
    /\ error' = "raised"
    /\ stage' = "ending"
    /\ UNCHANGED <<chunkVars, traceVars, contexts, answer, billed, warnings>>

\* The stream has ended, or the caller walked away.
Leave ==
    /\ stage \in Running
    /\ stage' = "ending"
    /\ UNCHANGED <<chunkVars, traceVars, contexts, answer, billed, warnings, error>>

\* The finally block: an estimate is booked for a stream that broke off, which
\* may fail, and nothing after it is done; the trace is finished.
Conclude ==
    /\ stage = "ending"
    /\ \/ TraceFinish(error)
       \/ /\ ~billed /\ answer # << >>
          /\ UNCHANGED traceVars
    /\ stage' = "over"
    /\ UNCHANGED <<chunkVars, contexts, answer, billed, warnings, error>>

Next ==
    \/ Store \/ Ask \/ Block \/ Search \/ Sources \/ Write \/ Usage
    \/ Raise \/ Leave \/ Conclude

Spec == Init /\ [][Next]_vars

-----------------------------------------------------------------------------

\* providers.py:144, "No replacement marker matches any of the patterns, so this
\* settles in one pass per pattern": what is shown holds nothing of the grammar,
\* whatever the invisible letters and the replacements leave side by side.
DefusedIsClean ==
    stage = "stored" /\ chunked =>
      \A i \in 1..Len(chunks) :
        LET shown == Shown(Passage(i)) IN \A p \in Range(Grammar) : Spans(p, shown) = {}

\* The rewriting keeps every letter outside the matches, in its order, and puts
\* one marker for each match: no replacement shifts the place of another.
RewritesOnlyTheSpans ==
    stage = "stored" /\ chunked =>
      \A i \in 1..Len(chunks) : \A p \in Range(Grammar) :
        LET t == Passage(i)
            cut == Spans(p, t)
            left == InOrder({k \in 1..Len(t) : \A s \in cut : k \notin (s[1] + 1)..s[2]})
        IN  replace_folded(t, cut, Marker(p)) =
              [k \in 1..Len(left) |->
                IF \E s \in cut : left[k] = s[1] THEN Marker(p) ELSE t[left[k]]]

\* The quotes that directly follow a citation of n.
QuotesOf(n) == {answer[i + 1].text : i \in {j \in 1..(Len(answer) - 1) :
                                          answer[j] = Cite(n) /\ answer[j + 1].is = "quote"}}

\* Every citation is directly followed by a quote, as the system prompt asks.
Compliant ==
    \A i \in 1..Len(answer) :
      answer[i].is = "citation" => i < Len(answer) /\ answer[i + 1].is = "quote"

Reproduces(q, t) ==
    \E a, b \in 1..Len(t) : \E how \in Spelling : q = Spelled(SubSeq(t, a, b), how)

IsForeign(q, t) ==
    \E x \in Range(q) : /\ x \notin White /\ ~is_invisible(x)
                        /\ casefold(Plain(x)) \notin {casefold(Plain(y)) : y \in Range(t)}

\* The findings of a compliant answer are right, however its quotes are spelled and
\* in whatever order they come: no finding about a passage that is only reproduced,
\* one about a quote with a word the passage lacks, and one about each number that
\* no passage has.
FindingsAreRight ==
    billed /\ Compliant =>
      \A n \in Cited(answer) :
        /\ n \notin 1..Len(contexts) <=> <<"citation_out_of_range", n>> \in warnings
        /\ n \in 1..Len(contexts) =>
             /\ (\A q \in QuotesOf(n) : Reproduces(q, contexts[n])) =>
                   \A w \in warnings : w[2] # n
             /\ (\E q \in QuotesOf(n) : IsForeign(q, contexts[n])) =>
                   <<"citation_unsupported", n>> \in warnings

\* As documented, outputchecks.py:59, a quote that differs from its source only in
\* how it is wrapped or spelled is the model reproducing the passage correctly: the
\* model is shown the defused passage, and its quotes are looked up in the stored one.
HonestAnswersPass ==
    billed /\ Compliant
      /\ (\A n \in Cited(answer) : /\ n \in 1..Len(contexts)
                                   /\ \A q \in QuotesOf(n) : Reproduces(q, Shown(contexts[n])))
      => warnings = {}

\* As documented, outputchecks.py:129, what is reported as "citation_unquoted" is "a
\* citation carrying no quote": in [1] [2] "..." the quote is taken for that of [1].
UnquotedHasNoQuote ==
    billed => \A n \in Cited(answer) : <<"citation_unquoted", n>> \in warnings => QuotesOf(n) = {}
=============================================================================
