------------------------------ MODULE Chunking ------------------------------
(***************************************************************************)
(* chunking.chunk_text: a window of Size letters that moves by Size-Overlap *)
(* over the text.  A chunk is the set of the text's positions it holds,     *)
(* from its first letter that is not blank to its last.                     *)
(***************************************************************************)
EXTENDS Integers, Sequences

CONSTANTS
    Text,       \* the documents' contents, sequences of letters
    Blank,      \* the letters that strip() takes away
    Size, Overlap

VARIABLES
    text,       \* the stripped text
    start,      \* where the window stands, counted from 0
    chunks,     \* what it has given, in order
    chunked     \* the loop is over

chunkVars == <<text, start, chunks, chunked>>

\* The two ValueErrors; an overlap is not negative in any setting shipped.
ASSUME ChunkAssumption ==
    /\ Size \in Nat \ {0} /\ Overlap \in Nat
    /\ Overlap < Size
    /\ \A t \in Text : t \in Seq({t[i] : i \in DOMAIN t})

\* t[a:b], by positions from 1, is what strip() leaves of t.
Strips(t, a, b) ==
    /\ \A i \in 1..Len(t) : i \notin a..b => t[i] \in Blank
    /\ a <= b => t[a] \notin Blank /\ t[b] \notin Blank

Ink(i) == text[i] \notin Blank

\* text[a:b].strip(), by positions from 1.
Piece(a, b) == {i \in a..b : \E j \in a..i, k \in i..b : Ink(j) /\ Ink(k)}

ChunkInit ==
    /\ \E t \in Text : \E a \in 1..(Len(t) + 1), b \in 0..Len(t) :
         Strips(t, a, b) /\ text = SubSeq(t, a, b)
    /\ start = 0
    /\ chunks = << >>
    /\ chunked = (text = << >>)

\* Mutant: the loop ends when the next window would start within this one's reach.
ChunkEndsEarly ==
    LET end == IF start + Size < Len(text) THEN start + Size ELSE Len(text)
        piece == Piece(start + 1, end)
    IN  /\ ~chunked
        /\ chunks' = IF piece = {} THEN chunks ELSE Append(chunks, piece)
        /\ chunked' = (start + Size + Overlap >= Len(text))
        /\ start' = IF chunked' THEN start ELSE start + (Size - Overlap)
        /\ UNCHANGED text

\* One round of the loop.
Chunk ==
    LET end == IF start + Size < Len(text) THEN start + Size ELSE Len(text)
        piece == Piece(start + 1, end)
    IN  /\ ~chunked
        /\ chunks' = IF piece = {} THEN chunks ELSE Append(chunks, piece)
        /\ chunked' = (start + Size >= Len(text))
        /\ start' = IF chunked' THEN start ELSE start + (Size - Overlap)
        /\ UNCHANGED text

ChunkSpec == ChunkInit /\ [][Chunk]_chunkVars

\* What the overlap is for: a phrase that is at most one letter longer than it is
\* whole in some chunk, wherever the windows fall, so that it can be found, cited
\* and quoted from one passage.
PhrasesAreWhole ==
    chunked =>
      \A a, b \in 1..Len(text) :
        a <= b /\ b <= a + Overlap /\ Ink(a) /\ Ink(b) =>
          \E i \in 1..Len(chunks) : a..b \subseteq chunks[i]
=============================================================================
