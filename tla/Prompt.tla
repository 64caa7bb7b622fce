------------------------------- MODULE Prompt -------------------------------
(***************************************************************************)
(* The text that goes to the model and the look at what comes back:         *)
(* normalize.py, the defusing of passages in providers.py, outputchecks.py. *)
(*                                                                          *)
(* A text is a sequence of letters, and a letter stands for what the        *)
(* patterns treat alike: "a" and "b" for words, "A" for a capital "a" and   *)
(* "alpha" for its lookalike, "z" for what is invisible, " " and "newline"  *)
(* for what is blank, "[1" and "]" for the halves of a citation label,      *)
(* "path:" for itself, "fence" for what is shaped like a fence marker.      *)
(***************************************************************************)
EXTENDS Integers, Sequences, SequencesExt, FiniteSetsExt, Folds

White == {" ", "newline"}
is_invisible(x) == x = "z"
Plain(x) == IF x = "alpha" THEN "a" ELSE x

-----------------------------------------------------------------------------
(* normalize.py.                                                            *)

\* A set of positions, from left to right.
InOrder(S) == MapThenFoldSet(LAMBDA i, s : Append(s, i), << >>, LAMBDA i : i, Max, S)

\* fold: the origin of each letter that is kept, and the letters.
Origin(t) == InOrder({i \in 1..Len(t) : ~is_invisible(t[i])})
Folded(t) == LET kept == Origin(t) IN [k \in 1..Len(kept) |-> Plain(t[kept[k]])]

\* Mutant: the span of the folded text is cut out of the original.
SpanAsIs(origin, m) == m

\* Spans are pairs of a first and a last position; a pattern finds none that is empty.
original_span(origin, m) == <<origin[m[1]], origin[m[2]]>>

Leftmost(spans) == CHOOSE s \in spans : \A r \in spans : s[1] <= r[1]
Rightmost(spans) == CHOOSE s \in spans : \A r \in spans : r[1] <= s[1]

Cut(t, s, marker) == SubSeq(t, 1, s[1] - 1) \o <<marker>> \o SubSeq(t, s[2] + 1, Len(t))

\* Mutant: replaced from left to right, without `reverse=True`.
ReplaceForwards(t, spans, marker) ==
    MapThenFoldSet(LAMBDA s, u : Cut(u, s, marker), t, LAMBDA s : s, Rightmost, spans)

\* The fold comes to the leftmost span last: from right to left, so that the
\* earlier spans keep their places.
replace_folded(t, spans, marker) ==
    MapThenFoldSet(LAMBDA s, u : Cut(u, s, marker), t, LAMBDA s : s, Leftmost, spans)

-----------------------------------------------------------------------------
(* providers.py.                                                            *)

AreBlank(f, i, j) == \A k \in i..j : f[k] \in White

\* _GRAMMAR: does the pattern match the letters from i to j?
Matches(pattern, f, i, j) ==
    CASE pattern = "fence" -> i = j /\ f[i] = "fence"
      [] pattern = "citation" -> i < j /\ f[i] = "[1" /\ f[j] = "]" /\ AreBlank(f, i + 1, j - 1)
      [] pattern = "path" -> /\ f[j] = "path:" /\ AreBlank(f, i, j - 1)
                             /\ i = 1 \/ f[i - 1] = "newline"

Grammar == <<"fence", "citation", "path">>
Marker(pattern) ==
    CASE pattern = "fence" -> "marker removed"
      [] pattern = "citation" -> "citation removed"
      [] pattern = "path" -> "path line removed"

\* finditer: from the left, and on from where a match ends.
Found(pattern, f) ==
    LET from[i \in 1..(Len(f) + 1)] ==
          LET ends == {j \in i..Len(f) : Matches(pattern, f, i, j)}
          IN  CASE i > Len(f) -> {}
                [] i <= Len(f) /\ ends = {} -> from[i + 1]
                [] OTHER -> {<<i, Max(ends)>>} \cup from[Max(ends) + 1]
    IN  from[1]

Spans(pattern, t) ==
    LET origin == Origin(t) IN {original_span(origin, m) : m \in Found(pattern, Folded(t))}

\* _defuse: one pass for each pattern, over the text that the last one left.
Defuse(t) ==
    FoldLeft(LAMBDA d, p : [text |-> replace_folded(d.text, Spans(p, d.text), Marker(p)),
                            total |-> d.total + Cardinality(Spans(p, d.text))],
             [text |-> t, total |-> 0], Grammar)

\* _neutralize, what _render_context puts between the markers of a passage.
Shown(t) == Defuse(t).text

-----------------------------------------------------------------------------
(* outputchecks.py.  An answer is a sequence of parts: a citation, a quote  *)
(* in double quotes (of no more than 300 letters), a few words of prose, or  *)
(* an aside of more than forty letters.                                     *)

Cite(n) == [is |-> "citation", n |-> n]
Quote(t) == [is |-> "quote", text |-> t]
Prose == [is |-> "prose"]
Aside == [is |-> "aside"]

\* Mutant: the quote is compared letter by letter.
AsWritten(t) == t

casefold(x) == IF x = "A" THEN "a" ELSE x

\* _comparable: folded, without case, and the blanks between words made one.
Comparable(t) ==
    LET f == Folded(t)
        Solid(i) == f[i] \notin White
        kept == InOrder({i \in 1..Len(f) :
                           \/ Solid(i)
                           \/ i > 1 /\ Solid(i - 1) /\ \E j \in i..Len(f) : Solid(j)})
    IN  [k \in 1..Len(kept) |-> IF Solid(kept[k]) THEN casefold(f[kept[k]]) ELSE " "]

\* Python's `in`.
Within(q, p) ==
    \E i \in 1..(Len(p) - Len(q) + 1) : SubSeq(p, i, i + Len(q) - 1) = q

Supports(passage, quote) == Within(Comparable(quote), Comparable(passage))

Cited(answer) == {answer[i].n : i \in {j \in 1..Len(answer) : answer[j].is = "citation"}}

\* _CITED_QUOTE.finditer: a citation and the nearest quote after it, unless more than
\* forty letters stand in between, and on from there.
Pairs(answer) ==
    LET quotes(i) == {j \in i..Len(answer) : /\ answer[j].is = "quote"
                                             /\ \A k \in i..j : answer[k].is # "aside"}
        from[i \in 1..(Len(answer) + 1)] ==
          CASE i > Len(answer) -> {}
            [] i <= Len(answer) /\ (answer[i].is # "citation" \/ quotes(i) = {}) -> from[i + 1]
            [] OTHER -> {<<i, Min(quotes(i))>>} \cup from[Min(quotes(i)) + 1]
    IN  from[1]

\* check_answer: the findings about citations, by their code and number.
check_answer(answer, contexts) ==
    LET allowed == 1..Len(contexts)
        quoted == {answer[p[1]].n : p \in Pairs(answer)}
        wrong == {p \in Pairs(answer) :
                    /\ answer[p[1]].n \in allowed
                    /\ ~Supports(contexts[answer[p[1]].n], answer[p[2]].text)}
    IN  {<<"citation_out_of_range", n>> : n \in Cited(answer) \ allowed}
          \cup {<<"citation_unsupported", answer[p[1]].n>> : p \in wrong}
          \cup {<<"citation_unquoted", n>> : n \in (Cited(answer) \cap allowed) \ quoted}
=============================================================================
