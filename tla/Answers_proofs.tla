--------------------------- MODULE Answers_proofs ---------------------------
(***************************************************************************)
(* Proofs about Answers, for any streams, users, orgs and limits.           *)
(***************************************************************************)
EXTENDS Answers, Integers, FiniteSetTheorems, WellFoundedInduction, TLAPS

-----------------------------------------------------------------------------
(* Sums over finite sets.  Induction is by a least counterexample, which    *)
(* well-founded orders have.                                                *)

\* One round of the recursion behind SumFunctionOnSet, and its equation.
Rest(s) == s \ {CHOOSE x \in s : TRUE}
Total(g, f, s) == IF s = {} THEN 0 ELSE f[CHOOSE x \in s : TRUE] + g[Rest(s)]
Adds(g, f, D) == g = [s \in D |-> Total(g, f, s)]

\* Every set of natural numbers that is not empty has a least element.
LEMMA LeastNumber ==
    ASSUME NEW N \in SUBSET Nat, N # {}
    PROVE  \E n \in N : \A m \in N : n <= m
<1> DEFINE R == OpToRel(<, Nat)
<1>1. PICK n \in N : \A m \in N : ~(<<m, n>> \in R)
  <2>1. IsWellFoundedOn(R, Nat)
    BY NatLessThanWellFounded
  <2> HIDE DEF R
  <2> QED
    BY <2>1, WFMin
<1>2. ASSUME NEW m \in N PROVE n <= m
  <2>1. m \in Nat /\ n \in Nat
    OBVIOUS
  <2>2. <<m, n>> \in R <=> m < n
    BY <2>1 DEF OpToRel
  <2>3. ~(m < n)
    BY <1>1, <2>2
  <2> QED
    BY <2>1, <2>3
<1> QED
  BY <1>2

\* Every family of subsets of a finite set that is not empty has a member with
\* no other one inside it.
LEMMA SmallestSubset ==
    ASSUME NEW S, IsFiniteSet(S), NEW F \in SUBSET (SUBSET S), F # {}
    PROVE  \E T \in F : \A U \in F : U \subseteq T => U = T
<1>1. IsWellFoundedOn(StrictSubsetOrdering(S), SUBSET S)
  BY FS_StrictSubsetOrderingWellFounded, FS_FiniteSubsetsOfFinite
<1>2. PICK T \in F : \A U \in F : ~(<<U, T>> \in StrictSubsetOrdering(S))
  BY <1>1, WFMin
<1> QED
  BY <1>2 DEF StrictSubsetOrdering

\* The function that adds up the subsets of a finite set exists.
LEMMA SumExists ==
    ASSUME NEW S, IsFiniteSet(S), NEW f
    PROVE  \E g : Adds(g, f, SUBSET S)
<1> DEFINE Small(n) == {s \in SUBSET S : Cardinality(s) <= n}
           None == {n \in Nat : ~ \E g : Adds(g, f, Small(n))}
<1>1. \A s \in SUBSET S : IsFiniteSet(s) /\ Cardinality(s) \in Nat
  BY FS_Subset, FS_CardinalityType
<1>2. None = {}
  <2> SUFFICES ASSUME None # {} PROVE FALSE
    OBVIOUS
  <2>1. PICK n \in None : \A m \in None : n <= m
    BY LeastNumber
  <2>2. CASE n = 0
    <3> DEFINE g == [s \in Small(0) |-> 0]
    <3>1. \A s \in Small(0) : s = {}
      BY <1>1, FS_EmptySet
    <3>2. Adds(g, f, Small(0))
      BY <3>1 DEF Adds, Total
    <3> QED
      BY <2>1, <2>2, <3>2
  <2>3. CASE n # 0
    <3>1. n - 1 \in Nat /\ n - 1 \notin None
      <4>1. n \in Nat /\ \A m \in None : n <= m
        BY <2>1
      <4> HIDE DEF None
      <4> QED
        BY <2>3, <4>1
    <3>2. PICK g : Adds(g, f, Small(n - 1))
      BY <3>1
    <3> DEFINE h == [s \in Small(n) |-> Total(g, f, s)]
    <3>3. \A s \in Small(n - 1) : s \in Small(n) /\ h[s] = g[s]
      <4>1. \A s \in Small(n - 1) : s \in Small(n)
        BY <1>1, <3>1
      <4>2. \A s \in Small(n - 1) : g[s] = Total(g, f, s)
        BY <3>2 DEF Adds
      <4> HIDE DEF Small
      <4> QED
        BY <4>1, <4>2
    <3>4. \A s \in Small(n) : s # {} => Rest(s) \in Small(n - 1)
      <4> SUFFICES ASSUME NEW s \in Small(n), s # {} PROVE Rest(s) \in Small(n - 1)
        OBVIOUS
      <4>1. (CHOOSE x \in s : TRUE) \in s
        OBVIOUS
      <4>2. Cardinality(Rest(s)) = Cardinality(s) - 1
        BY <1>1, <4>1, FS_RemoveElement DEF Rest
      <4> QED
        BY <1>1, <4>1, <4>2, <3>1 DEF Rest
    <3>5. \A s \in Small(n) : h[s] = Total(h, f, s)
      <4> SUFFICES ASSUME NEW s \in Small(n) PROVE h[s] = Total(h, f, s)
        OBVIOUS
      <4>1. h[s] = Total(g, f, s)
        <5> HIDE DEF Small
        <5> QED
          OBVIOUS
      <4>2. s # {} => h[Rest(s)] = g[Rest(s)]
        BY <3>3, <3>4
      <4> HIDE DEF Small, h
      <4> QED
        BY <4>1, <4>2 DEF Total
    <3>6. Adds(h, f, Small(n))
      <4> HIDE DEF Small
      <4> QED
        BY <3>5 DEF Adds
    <3> QED
      BY <2>1, <3>6
  <2> QED
    BY <2>2, <2>3
<1>3. Cardinality(S) \in Nat /\ \A s \in SUBSET S : Cardinality(s) <= Cardinality(S)
  BY FS_Subset, FS_CardinalityType
<1>4. Small(Cardinality(S)) = SUBSET S
  BY <1>3
<1> QED
  BY <1>2, <1>3, <1>4

\* The recursion behind a sum goes as its definition says.
LEMMA SumAdds ==
    ASSUME NEW S, IsFiniteSet(S), NEW f
    PROVE  \E g : Adds(g, f, SUBSET S) /\ Sum(f, S) = g[S]
<1> DEFINE g == CHOOSE g : g = [s \in SUBSET S |->
                    IF s = {} THEN 0
                    ELSE f[CHOOSE x \in s : TRUE] + g[s \ {CHOOSE x \in s : TRUE}]]
<1>1. Adds(g, f, SUBSET S)
  <2>1. \E h : h = [s \in SUBSET S |->
                      IF s = {} THEN 0
                      ELSE f[CHOOSE x \in s : TRUE] + h[s \ {CHOOSE x \in s : TRUE}]]
    <3>1. PICK h : Adds(h, f, SUBSET S)
      BY SumExists
    <3>2. h = [s \in SUBSET S |->
                 IF s = {} THEN 0
                 ELSE f[CHOOSE x \in s : TRUE] + h[s \ {CHOOSE x \in s : TRUE}]]
      BY <3>1 DEF Adds, Total, Rest
    <3> QED
      BY <3>2, Zenon
  <2>2. g = [s \in SUBSET S |->
                IF s = {} THEN 0
                ELSE f[CHOOSE x \in s : TRUE] + g[s \ {CHOOSE x \in s : TRUE}]]
    BY <2>1, Zenon
  <2> QED
    BY <2>2 DEF Adds, Total, Rest
<1>2. Sum(f, S) = g[S]
  BY DEF Sum, SumFunctionOnSet, FoldFunctionOnSet, MapThenFoldSet
<1> HIDE DEF g
<1> QED
  BY <1>1, <1>2

LEMMA SumIsUnique ==
    ASSUME NEW S, IsFiniteSet(S), NEW T \in SUBSET S, NEW f, NEW g, NEW h,
           Adds(g, f, SUBSET S), Adds(h, f, SUBSET T)
    PROVE  g[T] = h[T]
<1> DEFINE F == {U \in SUBSET T : g[U] # h[U]}
<1>1. F = {}
  <2> SUFFICES ASSUME F # {} PROVE FALSE
    OBVIOUS
  <2>1. PICK U \in F : \A V \in F : V \subseteq U => V = U
    <3>1. F \in SUBSET (SUBSET T) /\ IsFiniteSet(T)
      BY FS_Subset
    <3> HIDE DEF F
    <3> QED
      BY <3>1, SmallestSubset
  <2>2. U \in SUBSET T /\ U \in SUBSET S /\ g[U] = Total(g, f, U) /\ h[U] = Total(h, f, U)
    BY DEF Adds
  <2>3. CASE U = {}
    BY <2>2, <2>3 DEF Total
  <2>4. CASE U # {}
    <3>1. Rest(U) \in SUBSET T /\ Rest(U) # U
      BY <2>2, <2>4 DEF Rest
    <3>2. g[Rest(U)] = h[Rest(U)]
      BY <2>1, <3>1 DEF Rest
    <3> QED
      BY <2>2, <2>4, <3>2 DEF Total
  <2> QED
    BY <2>3, <2>4
<1> QED
  BY <1>1

LEMMA SumOfNone == \A f : Sum(f, {}) = 0
<1> SUFFICES ASSUME NEW f PROVE Sum(f, {}) = 0
  OBVIOUS
<1>1. PICK g : Adds(g, f, SUBSET {}) /\ Sum(f, {}) = g[{}]
  BY SumAdds, FS_EmptySet
<1> QED
  BY <1>1 DEF Adds, Total

LEMMA SumFirst ==
    ASSUME NEW S, IsFiniteSet(S), S # {}, NEW f
    PROVE  Sum(f, S) = f[CHOOSE x \in S : TRUE] + Sum(f, Rest(S))
<1>1. Rest(S) \in SUBSET S /\ IsFiniteSet(Rest(S))
  BY FS_Subset DEF Rest
<1>2. PICK g : Adds(g, f, SUBSET S) /\ Sum(f, S) = g[S]
  BY SumAdds
<1>3. PICK h : Adds(h, f, SUBSET Rest(S)) /\ Sum(f, Rest(S)) = h[Rest(S)]
  BY <1>1, SumAdds
<1>4. g[Rest(S)] = h[Rest(S)]
  BY <1>1, <1>2, <1>3, SumIsUnique
<1>5. g[S] = Total(g, f, S)
  BY <1>2 DEF Adds
<1> QED
  BY <1>2, <1>3, <1>4, <1>5 DEF Total

\* A sum of natural numbers is one.
LEMMA SumType ==
    ASSUME NEW S, IsFiniteSet(S), NEW f, \A x \in S : f[x] \in Nat
    PROVE  Sum(f, S) \in Nat
<1> DEFINE F == {U \in SUBSET S : Sum(f, U) \notin Nat}
<1>1. F = {}
  <2> SUFFICES ASSUME F # {} PROVE FALSE
    OBVIOUS
  <2>1. PICK U \in F : \A V \in F : V \subseteq U => V = U
    <3>1. F \in SUBSET (SUBSET S)
      OBVIOUS
    <3> HIDE DEF F
    <3> QED
      BY <3>1, SmallestSubset
  <2>2. U \in SUBSET S /\ Sum(f, U) \notin Nat /\ IsFiniteSet(U)
    BY FS_Subset
  <2>3. U # {}
    BY <2>2, SumOfNone
  <2>4. Sum(f, U) = f[CHOOSE x \in U : TRUE] + Sum(f, Rest(U))
    BY <2>2, <2>3, SumFirst
  <2>5. Rest(U) \in SUBSET S /\ Rest(U) \subseteq U /\ Rest(U) # U
    BY <2>2, <2>3 DEF Rest
  <2>6. Sum(f, Rest(U)) \in Nat
    BY <2>1, <2>5
  <2>7. f[CHOOSE x \in U : TRUE] \in Nat
    BY <2>2, <2>3
  <2> QED
    BY <2>2, <2>4, <2>6, <2>7
<1> QED
  BY <1>1

\* A sum of nothing but zeros is zero.
LEMMA SumOfZeros ==
    ASSUME NEW S, IsFiniteSet(S), NEW f, \A x \in S : f[x] = 0
    PROVE  Sum(f, S) = 0
<1> DEFINE F == {U \in SUBSET S : Sum(f, U) # 0}
<1>1. F = {}
  <2> SUFFICES ASSUME F # {} PROVE FALSE
    OBVIOUS
  <2>1. PICK U \in F : \A V \in F : V \subseteq U => V = U
    <3>1. F \in SUBSET (SUBSET S)
      OBVIOUS
    <3> HIDE DEF F
    <3> QED
      BY <3>1, SmallestSubset
  <2>2. U \in SUBSET S /\ Sum(f, U) # 0 /\ IsFiniteSet(U) /\ U # {}
    BY FS_Subset, SumOfNone
  <2>3. Sum(f, U) = f[CHOOSE x \in U : TRUE] + Sum(f, Rest(U))
    BY <2>2, SumFirst
  <2>4. Sum(f, Rest(U)) = 0
    BY <2>1, <2>2 DEF Rest
  <2>5. f[CHOOSE x \in U : TRUE] = 0
    BY <2>2
  <2> QED
    BY <2>2, <2>3, <2>4, <2>5
<1> QED
  BY <1>1

\* Any member can be taken out of a sum.
LEMMA SumSplit ==
    ASSUME NEW S, IsFiniteSet(S), NEW f, \A x \in S : f[x] \in Nat, NEW e \in S
    PROVE  Sum(f, S) = f[e] + Sum(f, S \ {e})
<1> DEFINE F == {U \in SUBSET S : \E x \in U : Sum(f, U) # f[x] + Sum(f, U \ {x})}
<1>1. F = {}
  <2> SUFFICES ASSUME F # {} PROVE FALSE
    OBVIOUS
  <2>1. PICK U \in F : \A V \in F : V \subseteq U => V = U
    <3>1. F \in SUBSET (SUBSET S)
      OBVIOUS
    <3> HIDE DEF F
    <3> QED
      BY <3>1, SmallestSubset
  <2>2. PICK x \in U : Sum(f, U) # f[x] + Sum(f, U \ {x})
    BY <2>1
  <2> DEFINE c == CHOOSE y \in U : TRUE
  <2>3. U \in SUBSET S /\ c \in U /\ IsFiniteSet(U) /\ U # {}
    BY <2>2, FS_Subset
  <2> HIDE DEF F
  <2>4. Sum(f, U) = f[c] + Sum(f, U \ {c})
    BY <2>3, SumFirst DEF Rest
  <2>5. x # c
    BY <2>2, <2>4
  <2> DEFINE rest == Sum(f, (U \ {c}) \ {x})
  <2>6. Sum(f, U \ {c}) = f[x] + rest
    <3>1. U \ {c} \notin F
      BY <2>1, <2>3
    <3> QED
      BY <2>3, <2>5, <3>1 DEF F
  <2>7. Sum(f, U \ {x}) = f[c] + rest
    <3>1. U \ {x} \notin F
      BY <2>1, <2>2
    <3>2. Sum(f, U \ {x}) = f[c] + Sum(f, (U \ {x}) \ {c})
      BY <2>3, <2>5, <3>1 DEF F
    <3>3. (U \ {c}) \ {x} = (U \ {x}) \ {c}
      OBVIOUS
    <3> QED
      BY <3>2, <3>3, Zenon
  <2>8. IsFiniteSet((U \ {c}) \ {x}) /\ (U \ {c}) \ {x} \subseteq S
    BY <2>3, FS_Subset
  <2>9. rest \in Nat /\ f[c] \in Nat /\ f[x] \in Nat
    BY <2>3, <2>8, SumType
  <2> HIDE DEF c, rest
  <2>10. f[c] + (f[x] + rest) = f[x] + (f[c] + rest)
    BY <2>9
  <2> QED
    BY <2>2, <2>4, <2>6, <2>7, <2>10, Zenon
<1> QED
  BY <1>1

\* A sum over more, or of what is no less, is no less.
LEMMA SumGrows ==
    ASSUME NEW S, IsFiniteSet(S), NEW T \in SUBSET S, NEW f, NEW g,
           \A x \in S : f[x] \in Nat, \A x \in T : g[x] \in Nat,
           \A x \in T : g[x] <= f[x]
    PROVE  Sum(g, T) <= Sum(f, S)
<1> DEFINE F == {U \in SUBSET S : ~(Sum(g, U \cap T) <= Sum(f, U))}
<1>1. F = {}
  <2> SUFFICES ASSUME F # {} PROVE FALSE
    OBVIOUS
  <2>1. PICK U \in F : \A V \in F : V \subseteq U => V = U
    <3>1. F \in SUBSET (SUBSET S)
      OBVIOUS
    <3> HIDE DEF F
    <3> QED
      BY <3>1, SmallestSubset
  <2>2. U \in SUBSET S /\ ~(Sum(g, U \cap T) <= Sum(f, U)) /\ IsFiniteSet(U)
    BY FS_Subset
  <2>3. U # {}
    BY <2>2, SumOfNone
  <2>4. PICK x \in U : TRUE
    BY <2>3
  <2>5. U \ {x} \notin F
    BY <2>1, <2>4
  <2>6. Sum(g, (U \ {x}) \cap T) <= Sum(f, U \ {x})
    BY <2>2, <2>5
  <2>7. Sum(f, U) = f[x] + Sum(f, U \ {x})
    BY <2>2, <2>4, SumSplit
  <2>8. Sum(f, U \ {x}) \in Nat /\ f[x] \in Nat
    BY <2>2, <2>4, SumType, FS_Subset
  <2>9. IsFiniteSet(U \cap T) /\ IsFiniteSet((U \ {x}) \cap T)
    BY <2>2, FS_Subset
  <2>10. Sum(g, (U \ {x}) \cap T) \in Nat
    BY <2>9, SumType
  <2>11. Sum(g, U \cap T) =
           IF x \in T THEN g[x] + Sum(g, (U \ {x}) \cap T) ELSE Sum(g, (U \ {x}) \cap T)
    <3>1. CASE x \in T
      <4>1. Sum(g, U \cap T) = g[x] + Sum(g, (U \cap T) \ {x})
        BY <2>4, <2>9, <3>1, SumSplit
      <4>2. (U \cap T) \ {x} = (U \ {x}) \cap T
        OBVIOUS
      <4> QED
        BY <3>1, <4>1, <4>2, Zenon
    <3>2. CASE x \notin T
      <4>1. U \cap T = (U \ {x}) \cap T
        BY <3>2
      <4> QED
        BY <3>2, <4>1, Zenon
    <3> QED
      BY <3>1, <3>2
  <2>12. x \in T => g[x] \in Nat /\ g[x] <= f[x]
    OBVIOUS
  <2> DEFINE sg == Sum(g, (U \ {x}) \cap T)
             sf == Sum(f, U \ {x})
  <2> HIDE DEF sg, sf, F
  <2>13. /\ sg \in Nat /\ sf \in Nat /\ f[x] \in Nat /\ sg <= sf
         /\ Sum(f, U) = f[x] + sf
         /\ Sum(g, U \cap T) = IF x \in T THEN g[x] + sg ELSE sg
    BY <2>6, <2>7, <2>8, <2>10, <2>11 DEF sg, sf
  <2>14. Sum(g, U \cap T) <= Sum(f, U)
    BY <2>12, <2>13
  <2> QED
    BY <2>2, <2>14
<1>2. S \cap T = T
  OBVIOUS
<1> QED
  BY <1>1, <1>2

\* Sums of the same are the same.
LEMMA SumSame ==
    ASSUME NEW S, IsFiniteSet(S), NEW f, NEW g,
           \A x \in S : f[x] \in Nat, \A x \in S : g[x] = f[x]
    PROVE  Sum(g, S) = Sum(f, S)
<1>1. Sum(g, S) <= Sum(f, S) /\ Sum(f, S) <= Sum(g, S)
  BY SumGrows
<1>2. Sum(f, S) \in Nat /\ Sum(g, S) \in Nat
  BY SumType
<1> QED
  BY <1>1, <1>2

\* A sum changes as much as its one member that changes.
LEMMA SumAddsOne ==
    ASSUME NEW S, IsFiniteSet(S), NEW f, NEW g, NEW e \in S, NEW c \in Nat,
           \A x \in S : f[x] \in Nat, \A x \in S \ {e} : g[x] = f[x], g[e] = f[e] + c
    PROVE  Sum(g, S) = Sum(f, S) + c
<1>1. IsFiniteSet(S \ {e}) /\ \A x \in S : g[x] \in Nat
  BY FS_Subset
<1>2. Sum(f, S) = f[e] + Sum(f, S \ {e}) /\ Sum(g, S) = g[e] + Sum(g, S \ {e})
  BY <1>1, SumSplit
<1>3. Sum(g, S \ {e}) = Sum(f, S \ {e}) /\ Sum(f, S \ {e}) \in Nat
  BY <1>1, SumSame, SumType
<1> QED
  BY <1>2, <1>3

-----------------------------------------------------------------------------
(* The streams.                                                             *)

\* The frames a stream can have sent, by where it stands.
FramesAt(at) ==
    CASE at \in {"spend", "questions", "platform", "blocking", "marking", "search", "asked"}
                                        -> {"none"}
      [] at \in {"limit", "meta"}       -> {"meta"}
      [] at = "refusing"                -> {"meta", "token"}
      [] at \in {"streaming", "booked"} -> {"sources", "token"}
      [] at = "done"                    -> {"done"}
      [] at = "told"                    -> {"error", "done"}
      [] OTHER                          -> Frame

\* Where a stream can stand that was booked in its usage's name.
AfterUsage == {"booked", "done", "told", "closed"}

\* What a stream has said, sent and booked fits where it stands.
Fits(x) ==
    x.at # "idle" =>
        /\ x.frame \in FramesAt(x.at)
        /\ x.billed => x.at \in AfterUsage
        /\ x.streamed => x.at \in {"streaming"} \cup AfterUsage
        /\ x.bills = IF \/ x.billed
                        \/ x.at = "closed" /\ x.streamed THEN 1 ELSE 0
        /\ x.bills = 0 => x.paid = 0

StreamsFit == \A s \in Stream : Fits(stream[s])

Sound == TypeOK /\ StreamsFit

\* A booking that is its stream's first adds the cost to the row, or, if that is
\* gone, to what is missing.
Pays(s, c) ==
    LET u == stream[s].user
        t == stream[s].created
    IN  /\ cost' = IF u \in present THEN [cost EXCEPT ![u][t] = @ + c] ELSE cost
        /\ erased' = IF u \in present THEN erased ELSE erased + c
        /\ platform' = [platform EXCEPT ![DayOf(now)] = @ + c]

-----------------------------------------------------------------------------
\* A step that gives one stream a well-formed record that fits keeps both.
LEMMA OneStreamMoves ==
    ASSUME Sound, NEW s \in Stream, NEW x \in Asking \cup {Idle}, Fits(x),
           stream' = [stream EXCEPT ![s] = x]
    PROVE  stream' \in [Stream -> Asking \cup {Idle}] /\ StreamsFit'
BY DEF Sound, TypeOK, StreamsFit

LEMMA FirstBooking ==
    ASSUME TypeOK, NEW s \in Stream, stream[s] \in Asking, NEW c \in 0..MaxCost,
           stream[s].paid = 0, FinalizeAnswer(s, c)
    PROVE  Pays(s, c)
<1> DEFINE u == stream[s].user
           t == stream[s].created
<1>1. u \in User /\ t \in Tick /\ c \in Nat
  BY BoundsAssumption DEF Asking
<1>2. cost[u][t] \in Nat /\ erased \in Nat
  BY <1>1 DEF TypeOK
<1>3. cost[u][t] - 0 + c = cost[u][t] + c /\ erased - 0 + c = erased + c
  BY <1>1, <1>2
<1>4. CASE u \in present
  <2>1. cost' = [cost EXCEPT ![u] = [cost[u] EXCEPT ![t] = cost[u][t] - 0 + c]]
    BY <1>4 DEF FinalizeAnswer
  <2>2. cost' = [cost EXCEPT ![u] = [cost[u] EXCEPT ![t] = cost[u][t] + c]]
    BY <1>3, <2>1, Zenon
  <2> QED
    BY <1>4, <2>2 DEF FinalizeAnswer, Pays
<1>5. CASE u \notin present
  BY <1>3, <1>5 DEF FinalizeAnswer, Pays
<1> QED
  BY <1>4, <1>5

\* Booking keeps the ledgers well formed.
LEMMA BookingKeepsLedgers ==
    ASSUME TypeOK, NEW s \in Stream, stream[s] \in Asking, NEW c \in 0..MaxCost,
           stream[s].paid = 0, FinalizeAnswer(s, c)
    PROVE  /\ cost' \in [User -> [Tick -> Nat]] /\ platform' \in [0..DayOf(MaxTick) -> Nat]
           /\ erased' \in Nat
<1>0. Pays(s, c)
  BY FirstBooking
<1> DEFINE u == stream[s].user
           t == stream[s].created
<1>1. u \in User /\ t \in Tick /\ c \in Nat
  BY BoundsAssumption DEF Asking
<1>2. cost[u] \in [Tick -> Nat] /\ cost[u][t] + c \in Nat
  BY <1>1 DEF TypeOK
<1>3. [cost[u] EXCEPT ![t] = @ + c] \in [Tick -> Nat]
  BY <1>1, <1>2
<1>4. [cost EXCEPT ![u][t] = @ + c] \in [User -> [Tick -> Nat]]
  BY <1>1, <1>3 DEF TypeOK
<1>5. cost' \in [User -> [Tick -> Nat]]
  BY <1>0, <1>4 DEF Pays, TypeOK
<1>6. ASSUME NEW D, NEW f \in [D -> Nat], NEW d PROVE [f EXCEPT ![d] = @ + c] \in [D -> Nat]
  <2>1. CASE d \in D
    <3>1. f[d] + c \in Nat
      BY <1>1, <1>6, <2>1
    <3> QED
      BY <1>6, <3>1
  <2>2. CASE d \notin D
    <3>1. [f EXCEPT ![d] = @ + c] = f
      BY <1>6, <2>2
    <3> QED
      BY <1>6, <3>1
  <2> QED
    BY <2>1, <2>2
<1>7. platform' \in [0..DayOf(MaxTick) -> Nat]
  BY <1>0, <1>6 DEF Pays, TypeOK
<1>8. erased' \in Nat
  BY <1>0, <1>1 DEF Pays, TypeOK
<1> QED
  BY <1>5, <1>7, <1>8

\* A stream that moves without touching a ledger: the record it is given.
LEMMA SoundStep == Sound /\ [Next]_vars => Sound'
<1> SUFFICES ASSUME Sound, [Next]_vars PROVE Sound'
  OBVIOUS
<1> DEFINE Streams == [Stream -> Asking \cup {Idle}]
<1>1. TypeOK /\ StreamsFit
  BY DEF Sound
<1>2. ASSUME NEW s \in Stream, stream[s].at # "idle"
      PROVE  stream[s] \in Asking /\ Fits(stream[s])
  BY <1>1, <1>2 DEF TypeOK, StreamsFit, Idle
<1>3. ASSUME NEW s \in Stream, stream[s].at # "idle",
             NEW at \in Running \cup Suspended, NEW frame \in FramesAt(at), frame \in Frame,
             stream[s].billed => at \in AfterUsage,
             stream[s].streamed => at \in {"streaming"} \cup AfterUsage,
             stream[s].at # "closed",
             Goes(s, at, frame)
      PROVE  stream' \in Streams /\ StreamsFit'
  <2> DEFINE x == [stream[s] EXCEPT !.at = at, !.frame = frame]
  <2>1. stream[s] \in Asking /\ Fits(stream[s])
    BY <1>2, <1>3
  <2>2. x \in Asking
    BY <1>3, <2>1 DEF Asking
  <2>3. stream' = [stream EXCEPT ![s] = x]
    BY <1>1, <1>3, <2>1 DEF Goes, TypeOK
  <2>4. /\ x.at = at /\ x.frame = frame /\ x.billed = stream[s].billed
        /\ x.streamed = stream[s].streamed /\ x.bills = stream[s].bills
        /\ x.paid = stream[s].paid
    BY <2>1 DEF Asking
  <2>5. Fits(x)
    BY <1>3, <2>1, <2>4 DEF Fits, Running, Suspended
  <2> QED
    BY <2>2, <2>3, <2>5, OneStreamMoves
<1>4. ASSUME NEW s \in Stream, stream[s].at # "idle", stream[s].at # "closed",
             stream[s].frame = "none", ~stream[s].billed, ~stream[s].streamed,
             NEW at \in {"questions", "platform", "blocking", "search"},
             stream' = [stream EXCEPT ![s].at = at]
      PROVE  stream' \in Streams /\ StreamsFit'
  <2> DEFINE x == [stream[s] EXCEPT !.at = at]
  <2>1. stream[s] \in Asking /\ Fits(stream[s])
    BY <1>2, <1>4
  <2>2. x \in Asking
    BY <1>4, <2>1 DEF Asking, Running
  <2>3. stream' = [stream EXCEPT ![s] = x]
    BY <1>1, <1>4, <2>1 DEF TypeOK
  <2>4. /\ x.at = at /\ x.frame = "none" /\ ~x.billed
        /\ ~x.streamed /\ x.bills = stream[s].bills /\ x.paid = stream[s].paid
    BY <1>4, <2>1 DEF Asking
  <2>5. Fits(x)
    BY <1>4, <2>1, <2>4 DEF Fits, FramesAt
  <2> QED
    BY <2>2, <2>3, <2>5, OneStreamMoves
<1>5. ASSUME NEW s \in Stream,
             stream[s].at \in {"spend", "questions", "platform", "blocking", "marking",
                               "search", "asked"}
      PROVE  /\ stream[s].at # "idle" /\ stream[s].at # "closed"
             /\ stream[s].frame = "none" /\ ~stream[s].billed /\ ~stream[s].streamed
  <2>1. Fits(stream[s])
    BY <1>2, <1>5
  <2> QED
    BY <1>5, <2>1 DEF Fits, FramesAt, AfterUsage
<1>6. ASSUME NEW s \in Stream, NEW u \in User, Arrive(s, u) PROVE Sound'
  <2> DEFINE x == [at |-> "spend", frame |-> "none", user |-> u, created |-> 0,
                   streamed |-> FALSE, billed |-> FALSE, bills |-> 0, paid |-> 0]
  <2>1. x \in Asking
    BY BoundsAssumption DEF Asking, Running, Frame, Tick
  <2>2. Fits(x)
    BY DEF Fits, FramesAt
  <2>3. stream' \in Streams /\ StreamsFit'
    BY <1>6, <2>1, <2>2, OneStreamMoves DEF Arrive
  <2> QED
    BY <1>6, <2>3, <1>1 DEF Arrive, Sound, TypeOK
<1>7. ASSUME NEW s \in Stream, CheckSpend(s) \/ CheckQuestions(s) \/ CheckPlatform(s)
      PROVE  Sound'
  <2>1. /\ UNCHANGED <<now, present, cost, asked, platform, erased>>
        /\ stream[s].at \in {"spend", "questions", "platform"}
        /\ \E at \in {"questions", "platform", "blocking", "search"} :
             stream' = [stream EXCEPT ![s].at = at]
    BY <1>7 DEF CheckSpend, CheckQuestions, CheckPlatform
  <2>2. stream' \in Streams /\ StreamsFit'
    BY <2>1, <1>4, <1>5
  <2> QED
    BY <2>1, <2>2, <1>1 DEF Sound, TypeOK
<1>8. ASSUME NEW s \in Stream, RecordBlocked(s) \/ RecordAsked(s) PROVE Sound'
  <2>1. PICK at \in {"marking", "asked"} :
          stream' = [stream EXCEPT ![s].at = at, ![s].created = now]
    BY <1>8 DEF RecordBlocked, RecordAsked
  <2> DEFINE x == [stream[s] EXCEPT !.at = at, !.created = now]
  <2>2. /\ stream[s].at \in {"blocking", "search"}
        /\ stream[s] \in Asking /\ Fits(stream[s])
    BY <1>2, <1>8 DEF RecordBlocked, RecordAsked
  <2>3. x \in Asking
    BY <1>1, <2>2 DEF Asking, Running, TypeOK
  <2>4. stream' = [stream EXCEPT ![s] = x]
    BY <1>1, <2>1, <2>2 DEF TypeOK
  <2>5. /\ x.at = at /\ x.frame = "none" /\ ~x.billed
        /\ ~x.streamed /\ x.bills = stream[s].bills /\ x.paid = stream[s].paid
    BY <1>5, <2>2 DEF Asking
  <2>6. Fits(x)
    BY <1>5, <2>2, <2>5 DEF Fits, FramesAt
  <2>7. stream' \in Streams /\ StreamsFit'
    BY <2>3, <2>4, <2>6, OneStreamMoves
  <2>8. asked' = [asked EXCEPT ![stream[s].user] = @ + 1]
          /\ UNCHANGED <<now, present, cost, platform, erased>>
    BY <1>8 DEF RecordBlocked, RecordAsked, RecordAnswer
  <2>9. asked' \in [User -> Nat]
    BY <1>1, <2>2, <2>8 DEF TypeOK, Asking
  <2> QED
    BY <1>1, <2>7, <2>8, <2>9 DEF Sound, TypeOK
<1>9. ASSUME NEW s \in Stream,
             MarkBlocked(s) \/ TellLimit(s) \/ SendMeta(s) \/ Refuse(s) \/ SendSources(s)
               \/ SendDone(s) \/ RaiseError(s)
      PROVE  Sound'
  <2>1. /\ UNCHANGED <<now, present, cost, asked, platform, erased>>
        /\ stream[s].at # "idle" /\ stream[s].at # "closed"
    BY <1>9 DEF MarkBlocked, TellLimit, SendMeta, Refuse, SendSources, SendDone, RaiseError,
                Running
  <2>2. Fits(stream[s])
    BY <1>2, <2>1
  <2>3. /\ stream[s].billed => stream[s].at \in AfterUsage
        /\ stream[s].streamed => stream[s].at \in {"streaming"} \cup AfterUsage
    BY <2>1, <2>2 DEF Fits
  <2>4. \E at \in Running \cup Suspended : \E frame \in FramesAt(at) :
          /\ frame \in Frame /\ Goes(s, at, frame)
          /\ at \in AfterUsage \/ stream[s].at \notin {"streaming"} \cup AfterUsage
    <3>1. CASE MarkBlocked(s)
      BY <3>1 DEF MarkBlocked, FramesAt, Frame, Suspended, AfterUsage
    <3>2. CASE TellLimit(s)
      BY <3>2 DEF TellLimit, FramesAt, Frame, Suspended, AfterUsage
    <3>3. CASE SendMeta(s)
      BY <3>3 DEF SendMeta, FramesAt, Frame, Suspended, AfterUsage
    <3>4. CASE Refuse(s)
      BY <3>4 DEF Refuse, FramesAt, Frame, Suspended, AfterUsage
    <3>5. CASE SendSources(s)
      BY <3>5 DEF SendSources, FramesAt, Frame, Suspended, AfterUsage
    <3>6. CASE SendDone(s)
      BY <3>6 DEF SendDone, FramesAt, Frame, Suspended, AfterUsage
    <3>7. CASE RaiseError(s)
      BY <3>7 DEF RaiseError, FramesAt, Frame, Suspended, AfterUsage
    <3> QED
      BY <1>9, <3>1, <3>2, <3>3, <3>4, <3>5, <3>6, <3>7
  <2>5. stream' \in Streams /\ StreamsFit'
    BY <1>3, <2>1, <2>3, <2>4
  <2> QED
    BY <1>1, <2>1, <2>5 DEF Sound, TypeOK
<1>10. ASSUME NEW s \in Stream, SendToken(s) PROVE Sound'
  <2> DEFINE x == [stream[s] EXCEPT !.frame = "token", !.streamed = TRUE]
  <2>1. stream[s].at = "streaming" /\ stream[s] \in Asking /\ Fits(stream[s])
    BY <1>2, <1>10 DEF SendToken
  <2>2. x \in Asking
    BY <2>1 DEF Asking, Frame
  <2>3. stream' = [stream EXCEPT ![s] = x]
    BY <1>1, <1>10, <2>1 DEF SendToken, TypeOK
  <2>4. /\ x.at = "streaming" /\ x.frame = "token" /\ x.billed = stream[s].billed
        /\ x.bills = stream[s].bills /\ x.paid = stream[s].paid
    BY <2>1 DEF Asking
  <2>5. Fits(x)
    BY <2>1, <2>4 DEF Fits, FramesAt, AfterUsage
  <2> QED
    BY <1>1, <1>10, <2>2, <2>3, <2>5, OneStreamMoves DEF SendToken, Sound, TypeOK
<1>11. ASSUME NEW s \in Stream, NEW c \in 0..MaxCost, ReportUsage(s, c) PROVE Sound'
  <2> DEFINE x == [stream[s] EXCEPT !.at = "booked", !.billed = TRUE, !.bills = @ + 1,
                                    !.paid = c]
  <2>1. stream[s].at = "streaming" /\ stream[s] \in Asking /\ Fits(stream[s])
    BY <1>2, <1>11 DEF ReportUsage
  <2>2. /\ ~stream[s].billed /\ stream[s].bills = 0 /\ stream[s].paid = 0
        /\ stream[s].frame \in {"sources", "token"}
    BY <2>1 DEF Fits, FramesAt, AfterUsage
  <2>3. x \in Asking
    <3>1. stream[s].bills + 1 \in Nat /\ c \in Nat
      BY <2>2, BoundsAssumption
    <3> QED
      BY <2>1, <3>1 DEF Asking, Running
  <2>4. stream' = [stream EXCEPT ![s] = x]
    BY <1>1, <1>11, <2>1 DEF ReportUsage, BookAnswer, TypeOK
  <2>5. x.at = "booked" /\ x.frame = stream[s].frame /\ x.billed /\ x.bills = 1
    BY <2>1, <2>2 DEF Asking
  <2>6. Fits(x)
    BY <2>2, <2>5 DEF Fits, FramesAt, AfterUsage
  <2>7. stream' \in Streams /\ StreamsFit'
    BY <2>3, <2>4, <2>6, OneStreamMoves
  <2>8. /\ cost' \in [User -> [Tick -> Nat]] /\ platform' \in [0..DayOf(MaxTick) -> Nat]
        /\ erased' \in Nat
    BY <1>1, <1>11, <2>1, <2>2, BookingKeepsLedgers DEF ReportUsage, BookAnswer
  <2> QED
    BY <1>1, <1>11, <2>7, <2>8 DEF ReportUsage, Sound, TypeOK
<1>12. ASSUME NEW s \in Stream, Close(s) PROVE Sound'
  <2>1. stream[s].at \in Suspended /\ stream[s] \in Asking /\ Fits(stream[s])
    BY <1>2, <1>12 DEF Close, Suspended
  <2>2. stream[s].at # "closed" /\ stream[s].at # "idle"
    BY <2>1 DEF Suspended
  <2>3. CASE stream[s].streamed /\ ~stream[s].billed
    <3>1. PICK c \in 0..MaxCost : BookAnswer(s, c, "closed", stream[s].billed)
      BY <1>12, <2>3 DEF Close
    <3> DEFINE x == [stream[s] EXCEPT !.at = "closed", !.billed = stream[s].billed,
                                      !.bills = @ + 1, !.paid = c]
    <3>2. stream' = [stream EXCEPT ![s] = x]
      BY <1>1, <2>1, <3>1 DEF BookAnswer, TypeOK
    <3>3. x \in Asking
      <4>1. stream[s].bills + 1 \in Nat /\ c \in Nat /\ stream[s].billed \in BOOLEAN
        BY <2>1, <2>2, <2>3, BoundsAssumption DEF Fits, Asking
      <4> QED
        BY <2>1, <4>1 DEF Asking, Over
    <3>4. /\ x.at = "closed" /\ x.frame = stream[s].frame /\ ~x.billed /\ x.streamed
          /\ x.bills = 1
      BY <2>1, <2>2, <2>3 DEF Asking, Fits
    <3>5. Fits(x)
      BY <2>1, <3>4 DEF Fits, FramesAt, AfterUsage, Asking
    <3>6. stream[s].paid = 0
      BY <2>1, <2>2, <2>3 DEF Fits
    <3>7. /\ cost' \in [User -> [Tick -> Nat]] /\ platform' \in [0..DayOf(MaxTick) -> Nat]
          /\ erased' \in Nat
      BY <1>1, <2>1, <3>1, <3>6, BookingKeepsLedgers DEF BookAnswer
    <3> QED
      BY <1>1, <1>12, <3>2, <3>3, <3>5, <3>7, OneStreamMoves DEF Close, Sound, TypeOK
  <2>4. CASE ~(stream[s].streamed /\ ~stream[s].billed)
    <3> DEFINE x == [stream[s] EXCEPT !.at = "closed"]
    <3>1. stream' = [stream EXCEPT ![s] = x] /\ UNCHANGED <<cost, platform, erased>>
      BY <1>1, <1>12, <2>1, <2>4 DEF Close, TypeOK
    <3>2. x \in Asking
      BY <2>1 DEF Asking, Over
    <3>3. /\ x.at = "closed" /\ x.frame = stream[s].frame /\ x.billed = stream[s].billed
          /\ x.streamed = stream[s].streamed /\ x.bills = stream[s].bills
        /\ x.paid = stream[s].paid
      BY <2>1 DEF Asking
    <3>4. Fits(x)
      BY <2>1, <2>2, <2>4, <3>3 DEF Fits, FramesAt, AfterUsage, Asking
    <3> QED
      BY <1>1, <1>12, <3>1, <3>2, <3>4, OneStreamMoves DEF Close, Sound, TypeOK
  <2> QED
    BY <2>3, <2>4
<1>13. ASSUME NEW s \in Stream, Lose(s) \/ Forget(s) PROVE Sound'
  <2>1. Fits(Idle)
    BY DEF Fits, Idle
  <2>2. stream' = [stream EXCEPT ![s] = Idle] /\ UNCHANGED <<now, present, cost, asked, platform, erased>>
    BY <1>13 DEF Lose, Forget
  <2> QED
    BY <1>1, <2>1, <2>2, OneStreamMoves DEF Sound, TypeOK
<1>14. ASSUME NEW u \in User, RemoveUser(u) PROVE Sound'
  <2>1. cost' \in [User -> [Tick -> Nat]] /\ asked' \in [User -> Nat]
    BY <1>1, <1>14 DEF RemoveUser, TypeOK
  <2>2. erased' \in Nat
    <3>1. IsFiniteSet(Tick)
      BY BoundsAssumption, FS_Interval DEF Tick
    <3>2. Sum(cost[u], Tick) \in Nat
      BY <1>1, <3>1, SumType DEF TypeOK
    <3> QED
      BY <1>1, <1>14, <3>2 DEF RemoveUser, TypeOK
  <2> QED
    BY <1>1, <1>14, <2>1, <2>2 DEF RemoveUser, Sound, TypeOK, StreamsFit
<1>15. ASSUME TimePasses PROVE Sound'
  <2>1. now' \in Tick
    BY <1>1, <1>15, BoundsAssumption DEF TimePasses, TypeOK, Tick
  <2> QED
    BY <1>1, <1>15, <2>1 DEF TimePasses, Sound, TypeOK, StreamsFit
<1>16. CASE UNCHANGED vars
  BY <1>1, <1>16 DEF vars, Sound, TypeOK, StreamsFit
<1> QED
  BY <1>6, <1>7, <1>8, <1>9, <1>10, <1>11, <1>12, <1>13, <1>14, <1>15, <1>16
     DEF Next, StreamStep

LEMMA Invariance == Spec => []Sound
<1>1. Init => Sound
  <2> SUFFICES ASSUME Init PROVE Sound
    OBVIOUS
  <2>1. TypeOK
    BY BoundsAssumption DEF Init, TypeOK, Tick
  <2>2. StreamsFit
    BY DEF Init, StreamsFit, Fits, Idle
  <2> QED
    BY <2>1, <2>2 DEF Sound
<1> QED
  BY <1>1, SoundStep, PTL DEF Spec

-----------------------------------------------------------------------------
(* The theorems.                                                            *)

\* The ledgers and the streams stay well formed.
THEOREM TypeCorrect == Spec => []TypeOK
<1>1. Sound => TypeOK
  BY DEF Sound
<1> QED
  BY <1>1, Invariance, PTL

\* An answer is paid for once, or not at all, however its stream ends.
THEOREM AnswersAreBilledOnce == Spec => []BilledOnce
<1>1. Sound => BilledOnce
  BY DEF Sound, StreamsFit, Fits, BilledOnce
<1> QED
  BY <1>1, Invariance, PTL

\* The frames of a stream come in their order, whatever interrupts it.
THEOREM FramesAreOrdered == Spec => FramesInOrder
<1>1. ASSUME Sound, [Next]_vars, NEW q \in Stream PROVE FrameFollows(q)
  <2>1. TypeOK /\ Fits(stream[q])
    BY <1>1 DEF Sound, StreamsFit
  <2>2. stream[q] \in Asking \cup {Idle}
    BY <2>1 DEF TypeOK
  <2>3. ASSUME NEW s \in Stream, NEW x, stream' = [stream EXCEPT ![s] = x],
               s = q => x.frame = stream[q].frame \/ x.at = "idle"
                          \/ x.frame \in Follows(stream[q].frame)
        PROVE  FrameFollows(q)
    BY <2>1, <2>3 DEF TypeOK, FrameFollows
  <2>4. CASE UNCHANGED stream
    BY <2>4 DEF FrameFollows
  <2>5. ASSUME NEW s \in Stream, NEW u \in User, Arrive(s, u) PROVE FrameFollows(q)
    <3>1. stream[s].at = "idle" => stream[s] = Idle
      BY <2>1 DEF TypeOK, Asking, Running, Suspended, Over
    <3> DEFINE x == [at |-> "spend", frame |-> "none", user |-> u, created |-> 0,
                     streamed |-> FALSE, billed |-> FALSE, bills |-> 0, paid |-> 0]
    <3>2. stream' = [stream EXCEPT ![s] = x] /\ stream[s].frame = x.frame
      BY <2>5, <3>1 DEF Arrive, Idle
    <3> HIDE DEF x
    <3> QED
      BY <2>3, <3>2
  <2>6. ASSUME NEW s \in Stream, NEW at, NEW frame, Goes(s, at, frame),
               s = q => frame = stream[q].frame \/ frame \in Follows(stream[q].frame)
        PROVE  FrameFollows(q)
    <3>1. stream'[q].frame = IF s = q THEN frame ELSE stream[q].frame
      BY <2>1, <2>2, <2>6 DEF Goes, TypeOK, Asking, Idle
    <3> QED
      BY <2>6, <3>1 DEF FrameFollows
  <2>7. ASSUME NEW s \in Stream,
               MarkBlocked(s) \/ TellLimit(s) \/ SendMeta(s) \/ Refuse(s) \/ SendSources(s)
                 \/ SendDone(s) \/ RaiseError(s)
        PROVE  FrameFollows(q)
    <3>1. stream[s].at # "idle" /\ Fits(stream[s])
      BY <1>1, <2>7 DEF Sound, StreamsFit, MarkBlocked, TellLimit, SendMeta, Refuse,
                        SendSources, SendDone, RaiseError, Running
    <3>2. stream[s].frame \in FramesAt(stream[s].at)
      BY <3>1 DEF Fits
    <3>3. CASE MarkBlocked(s)
      BY <2>6, <3>2, <3>3 DEF MarkBlocked, FramesAt, Follows
    <3>4. CASE TellLimit(s)
      BY <2>6, <3>2, <3>4 DEF TellLimit, FramesAt, Follows
    <3>5. CASE SendMeta(s)
      BY <2>6, <3>2, <3>5 DEF SendMeta, FramesAt, Follows
    <3>6. CASE Refuse(s)
      BY <2>6, <3>2, <3>6 DEF Refuse, FramesAt, Follows
    <3>7. CASE SendSources(s)
      BY <2>6, <3>2, <3>7 DEF SendSources, FramesAt, Follows
    <3>8. CASE SendDone(s)
      BY <2>6, <3>2, <3>8 DEF SendDone, FramesAt, Follows
    <3>9. CASE RaiseError(s)
      BY <2>6, <3>2, <3>9 DEF RaiseError, FramesAt, Follows, Running
    <3> QED
      BY <2>7, <3>3, <3>4, <3>5, <3>6, <3>7, <3>8, <3>9
  <2>8. ASSUME NEW s \in Stream,
               \/ CheckSpend(s) \/ CheckQuestions(s) \/ CheckPlatform(s)
               \/ RecordBlocked(s) \/ RecordAsked(s)
               \/ (\E c \in 0..MaxCost : ReportUsage(s, c)) \/ Close(s)
        PROVE  stream'[q].frame = stream[q].frame
    <3>1. stream[s] \in Asking \cup {Idle}
      BY <2>1 DEF TypeOK
    <3>2. ASSUME NEW x, x.frame = stream[s].frame, stream' = [stream EXCEPT ![s] = x]
          PROVE  stream'[q].frame = stream[q].frame
      BY <2>1, <3>2 DEF TypeOK
    <3>3. CASE CheckSpend(s) \/ CheckQuestions(s) \/ CheckPlatform(s)
      <4>1. PICK at : stream' = [stream EXCEPT ![s].at = at]
        BY <3>3 DEF CheckSpend, CheckQuestions, CheckPlatform
      <4> DEFINE x == [stream[s] EXCEPT !.at = at]
      <4>2. stream[s].at # "idle"
        BY <3>3 DEF CheckSpend, CheckQuestions, CheckPlatform
      <4>3. x.frame = stream[s].frame
        BY <3>1, <4>2 DEF Asking, Idle
      <4>4. stream' = [stream EXCEPT ![s] = x]
        BY <2>1, <4>1 DEF TypeOK
      <4> QED
        BY <3>2, <4>3, <4>4
    <3>4. CASE RecordBlocked(s) \/ RecordAsked(s)
      <4>1. PICK at : stream' = [stream EXCEPT ![s].at = at, ![s].created = now]
        BY <3>4 DEF RecordBlocked, RecordAsked
      <4> DEFINE x == [stream[s] EXCEPT !.at = at, !.created = now]
      <4>2. stream[s].at # "idle"
        BY <3>4 DEF RecordBlocked, RecordAsked
      <4>3. x.frame = stream[s].frame
        BY <3>1, <4>2 DEF Asking, Idle
      <4>4. stream' = [stream EXCEPT ![s] = x]
        BY <2>1, <4>1 DEF TypeOK
      <4> QED
        BY <3>2, <4>3, <4>4
    <3> DEFINE Booked(at, billed, c) ==
                 [stream[s] EXCEPT !.at = at, !.billed = billed, !.bills = @ + 1, !.paid = c]
    <3>5. CASE \E c \in 0..MaxCost : ReportUsage(s, c)
      <4>1. PICK c \in 0..MaxCost : ReportUsage(s, c)
        BY <3>5
      <4> DEFINE x == Booked("booked", TRUE, c)
      <4>2. x.frame = stream[s].frame
        BY <3>1, <4>1 DEF ReportUsage, Asking, Idle
      <4>3. stream' = [stream EXCEPT ![s] = x]
        BY <2>1, <4>1 DEF ReportUsage, BookAnswer, TypeOK
      <4> QED
        BY <3>2, <4>2, <4>3
    <3>6. CASE Close(s)
      <4> DEFINE x(c) == Booked("closed", stream[s].billed, c)
                 y == [stream[s] EXCEPT !.at = "closed"]
      <4>1. stream[s].at # "idle"
        BY <3>6 DEF Close, Suspended
      <4>2. (\A c : x(c).frame = stream[s].frame) /\ y.frame = stream[s].frame
        BY <3>1, <4>1 DEF Asking, Idle
      <4>3. \/ \E c : stream' = [stream EXCEPT ![s] = x(c)]
            \/ stream' = [stream EXCEPT ![s] = y]
        BY <2>1, <3>6 DEF Close, BookAnswer, TypeOK
      <4> HIDE DEF x, y
      <4> QED
        BY <3>2, <4>2, <4>3
    <3> QED
      BY <2>8, <3>3, <3>4, <3>5, <3>6
  <2>9. ASSUME NEW s \in Stream, SendToken(s) PROVE FrameFollows(q)
    <3>1. Fits(stream[s]) /\ stream[s].at = "streaming"
      BY <1>1, <2>9 DEF Sound, StreamsFit, SendToken
    <3>2. stream[s].frame \in {"sources", "token"}
      BY <3>1 DEF Fits, FramesAt
    <3>3. stream'[q].frame = IF s = q THEN "token" ELSE stream[q].frame
      BY <2>1, <2>2, <2>9 DEF SendToken, TypeOK, Asking, Idle
    <3> QED
      BY <3>2, <3>3 DEF FrameFollows, Follows
  <2>10. ASSUME NEW s \in Stream, Lose(s) \/ Forget(s) PROVE FrameFollows(q)
    BY <2>3, <2>10 DEF Lose, Forget, Idle
  <2> QED
    BY <1>1, <2>4, <2>5, <2>7, <2>8, <2>9, <2>10
       DEF Next, StreamStep, RemoveUser, TimePasses, vars, FrameFollows
<1>2. Sound /\ [Next]_vars => [\A s \in Stream : FrameFollows(s)]_vars
  BY <1>1
<1> QED
  BY <1>2, Invariance, PTL DEF Spec, FramesInOrder

-----------------------------------------------------------------------------
(* What the ledgers add up to.                                              *)

\* A stream that may still book an answer, and one past its check of the org's spend.
MayBook(x) ==
    \/ x.at \in {"search", "asked", "meta", "streaming"}
    \/ x.at \in {"booked", "done", "told"} /\ x.streamed /\ ~x.billed
PastCheck(x) == x.at \in {"questions", "platform"} \/ MayBook(x)

Payers == {s \in Stream : MayBook(stream[s])}
Spenders(o) == {s \in Stream : PastCheck(stream[s]) /\ OrgOf[stream[s].user] = o}

\* A step that books nothing lets a stream past a check only if there is room below
\* the limit, and never changes whose stream it is.
Quiet(s) ==
    /\ UNCHANGED <<cost, platform, erased>>
    /\ MayBook(stream'[s]) =>
         MayBook(stream[s]) \/ PlatformSpendToday < PlatformBudget
    /\ PastCheck(stream'[s]) =>
         /\ stream'[s].user = stream[s].user
         /\ PastCheck(stream[s]) \/ SpendLast24h(OrgOf[stream[s].user]) < OrgBudget

\* A step that books is the last that its stream may.
Books(s) ==
    /\ \E c \in 0..MaxCost : Pays(s, c)
    /\ stream[s] \in Asking
    /\ MayBook(stream[s]) /\ ~PastCheck(stream'[s])

\* Days go up with time.
LEMMA DaysGoUp ==
    ASSUME NEW a \in Nat, NEW b \in Nat, a <= b
    PROVE  DayOf(a) \in Nat /\ DayOf(a) <= DayOf(b)
BY TicksPerDayAssumption DEF DayOf

LEMMA TodayIsADay ==
    ASSUME TypeOK
    PROVE  DayOf(now) \in DOMAIN platform /\ PlatformSpendToday \in Nat
<1>1. now \in Nat /\ MaxTick \in Nat /\ now <= MaxTick
  BY BoundsAssumption DEF TypeOK, Tick
<1>2. DayOf(now) \in 0..DayOf(MaxTick)
  BY <1>1, DaysGoUp
<1> QED
  BY <1>2 DEF TypeOK, PlatformSpendToday

LEMMA SpendType ==
    ASSUME TypeOK
    PROVE  /\ IsFiniteSet(Recent) /\ Recent \subseteq Tick
           /\ \A u \in User : UserSpend(u) \in Nat
           /\ \A p : IsFiniteSet(Users(p)) /\ SpendLast24h(p) \in Nat
<1>1. IsFiniteSet(Recent) /\ Recent \subseteq Tick
  <2>1. IsFiniteSet(Tick)
    BY BoundsAssumption, FS_Interval DEF Tick
  <2>2. Recent \subseteq Tick
    BY DEF Recent
  <2> QED
    BY <2>1, <2>2, FS_Subset
<1>2. ASSUME NEW u \in User PROVE UserSpend(u) \in Nat
  BY <1>1, SumType DEF UserSpend, TypeOK
<1>3. ASSUME NEW o PROVE IsFiniteSet(Users(o)) /\ SpendLast24h(o) \in Nat
  <2>1. Users(o) \in SUBSET User /\ IsFiniteSet(Users(o))
    BY FiniteAssumption, FS_Subset DEF Users, TypeOK
  <2> DEFINE f == [u \in Users(o) |-> UserSpend(u)]
  <2>2. \A u \in Users(o) : f[u] \in Nat
    BY <1>2, <2>1
  <2> HIDE DEF f
  <2>3. Sum(f, Users(o)) \in Nat
    BY <2>1, <2>2, SumType
  <2> QED
    BY <2>1, <2>3 DEF SpendLast24h, f
<1> QED
  BY <1>1, <1>2, <1>3

LEMMA StreamMoves ==
    ASSUME Sound, NEW s \in Stream, StreamStep(s) \/ \E u \in User : Arrive(s, u)
    PROVE  /\ UNCHANGED <<now, present>>
           /\ \A q \in Stream : q # s => stream'[q] = stream[q]
           /\ Quiet(s) \/ Books(s)
           /\ stream'[s].at # "idle" =>
                stream'[s].created \in {0, now} \/ stream'[s].created = stream[s].created
<1>1. stream \in [Stream -> Asking \cup {Idle}] /\ Fits(stream[s])
  BY DEF Sound, TypeOK, StreamsFit
<1>2. ASSUME NEW x, stream' = [stream EXCEPT ![s] = x]
      PROVE  stream'[s] = x /\ \A q \in Stream : q # s => stream'[q] = stream[q]
  BY <1>1, <1>2
<1>3. stream[s].at # "idle" => stream[s] \in Asking
  BY <1>1 DEF Idle
<1>4. ASSUME NEW at, NEW frame, Goes(s, at, frame), stream[s].at # "idle"
      PROVE  /\ stream'[s].at = at /\ stream'[s].user = stream[s].user
             /\ stream'[s].streamed = stream[s].streamed
             /\ stream'[s].billed = stream[s].billed
             /\ stream'[s].created = stream[s].created
             /\ \A q \in Stream : q # s => stream'[q] = stream[q]
  BY <1>1, <1>3, <1>4 DEF Goes, Asking
<1>5. ASSUME NEW at, stream' = [stream EXCEPT ![s].at = at], stream[s].at # "idle"
      PROVE  /\ stream'[s].at = at /\ stream'[s].user = stream[s].user
             /\ stream'[s].streamed = stream[s].streamed
             /\ stream'[s].billed = stream[s].billed
             /\ stream'[s].created = stream[s].created
             /\ \A q \in Stream : q # s => stream'[q] = stream[q]
  BY <1>1, <1>3, <1>5 DEF Asking
<1> USE DEF Quiet
<1>6. ASSUME NEW u \in User, Arrive(s, u)
      PROVE  /\ UNCHANGED <<now, present, cost, platform, erased>>
             /\ \A q \in Stream : q # s => stream'[q] = stream[q]
             /\ ~PastCheck(stream'[s]) /\ stream'[s].created = 0
  BY <1>1, <1>6 DEF Arrive, PastCheck, MayBook
<1>7. CASE CheckSpend(s)
  <2>1. SpendLast24h(OrgOf[stream[s].user]) \in Nat /\ OrgBudget \in Nat
    BY SpendType, LimitsAssumption DEF Sound
  <2> QED
    BY <1>5, <1>7, <2>1 DEF CheckSpend, PastCheck, MayBook
<1>8. CASE CheckQuestions(s)
  BY <1>5, <1>8 DEF CheckQuestions, PastCheck, MayBook
<1>9. CASE CheckPlatform(s)
  <2>1. PlatformSpendToday \in Nat /\ PlatformBudget \in Nat
    BY TodayIsADay, LimitsAssumption DEF Sound
  <2> QED
    BY <1>5, <1>9, <2>1 DEF CheckPlatform, PastCheck, MayBook
<1>10. CASE RecordBlocked(s) \/ RecordAsked(s)
  <2>1. stream[s] \in Asking /\ stream[s].at \in {"blocking", "search"}
    BY <1>3, <1>10 DEF RecordBlocked, RecordAsked
  <2>2. /\ \/ stream[s].at = "blocking" /\ stream'[s].at = "marking"
           \/ stream[s].at = "search" /\ stream'[s].at = "asked"
        /\ stream'[s].user = stream[s].user /\ stream'[s].created = now
        /\ \A q \in Stream : q # s => stream'[q] = stream[q]
    BY <1>1, <1>10, <2>1 DEF RecordBlocked, RecordAsked, Asking
  <2> QED
    BY <1>10, <2>2 DEF RecordBlocked, RecordAsked, PastCheck, MayBook
<1>11. CASE MarkBlocked(s) \/ TellLimit(s)
  <2>1. ~stream[s].streamed /\ stream[s].at # "idle"
    BY <1>1, <1>11 DEF MarkBlocked, TellLimit, Fits, AfterUsage
  <2> QED
    BY <1>4, <1>11, <2>1 DEF MarkBlocked, TellLimit, PastCheck, MayBook
<1>12. CASE SendMeta(s) \/ Refuse(s) \/ SendSources(s) \/ SendDone(s)
  <2>1. CASE SendMeta(s) \/ SendSources(s)
    BY <1>4, <2>1 DEF SendMeta, SendSources, PastCheck, MayBook
  <2>2. CASE Refuse(s)
    <3>1. ~stream[s].streamed /\ stream[s].at # "idle"
      BY <1>1, <2>2 DEF Refuse, Fits, AfterUsage
    <3> QED
      BY <1>4, <2>2, <3>1 DEF Refuse, PastCheck, MayBook
  <2>3. CASE SendDone(s)
    BY <1>4, <2>3 DEF SendDone, PastCheck, MayBook
  <2> QED
    BY <1>12, <2>1, <2>2, <2>3
<1>13. CASE RaiseError(s)
  <2>1. stream[s].at # "idle"
    BY <1>13 DEF RaiseError, Running
  <2>2. stream[s].streamed => stream[s].at \in {"streaming"} \cup AfterUsage
    BY <1>1, <2>1 DEF Fits
  <2>3. stream[s].at # "closed"
    BY <1>13 DEF RaiseError, Running
  <2> QED
    BY <1>4, <1>13, <2>1, <2>2, <2>3 DEF RaiseError, PastCheck, MayBook, AfterUsage
<1>14. CASE SendToken(s)
  <2>1. stream[s] \in Asking /\ stream[s].at = "streaming"
    BY <1>3, <1>14 DEF SendToken
  <2>2. /\ stream'[s].at = "streaming" /\ stream'[s].user = stream[s].user
        /\ stream'[s].created = stream[s].created
        /\ \A q \in Stream : q # s => stream'[q] = stream[q]
    BY <1>1, <1>14, <2>1 DEF SendToken, Asking
  <2> QED
    BY <1>14, <2>1, <2>2 DEF SendToken, PastCheck, MayBook
<1>15. ASSUME NEW c \in 0..MaxCost, ReportUsage(s, c)
       PROVE  /\ UNCHANGED <<now, present>> /\ Books(s)
              /\ \A q \in Stream : q # s => stream'[q] = stream[q]
              /\ stream'[s].created = stream[s].created
  <2>1. stream[s] \in Asking /\ stream[s].at = "streaming"
    BY <1>3, <1>15 DEF ReportUsage
  <2>2. /\ stream'[s].at = "booked" /\ stream'[s].billed
        /\ stream'[s].created = stream[s].created
        /\ \A q \in Stream : q # s => stream'[q] = stream[q]
    BY <1>1, <1>15, <2>1 DEF ReportUsage, BookAnswer, Asking
  <2>3. stream[s].paid = 0
    BY <1>1, <2>1 DEF Fits, AfterUsage
  <2>4. Pays(s, c)
    BY <1>15, <2>1, <2>3, FirstBooking DEF ReportUsage, BookAnswer, Sound
  <2> QED
    BY <1>15, <2>1, <2>2, <2>4 DEF ReportUsage, Books, PastCheck, MayBook
<1>16. CASE Close(s)
  <2>1. stream[s] \in Asking /\ stream[s].at \in Suspended
    BY <1>3, <1>16 DEF Close, Suspended
  <2>2. /\ stream'[s].at = "closed" /\ stream'[s].created = stream[s].created
        /\ \A q \in Stream : q # s => stream'[q] = stream[q]
    BY <1>1, <1>16, <2>1 DEF Close, BookAnswer, Asking
  <2>3. CASE stream[s].streamed /\ ~stream[s].billed
    <3>1. MayBook(stream[s])
      BY <1>1, <2>1, <2>3 DEF Fits, AfterUsage, MayBook, Suspended
    <3>2. stream[s].paid = 0
      BY <1>1, <2>1, <2>3 DEF Fits, Suspended
    <3>3. \E c \in 0..MaxCost : Pays(s, c)
      BY <1>16, <2>1, <2>3, <3>2, FirstBooking DEF Close, BookAnswer, Sound
    <3> QED
      BY <1>16, <2>1, <2>2, <3>1, <3>3 DEF Close, Books, PastCheck, MayBook
  <2>4. CASE ~(stream[s].streamed /\ ~stream[s].billed)
    BY <1>16, <2>2, <2>4 DEF Close, PastCheck, MayBook
  <2> QED
    BY <2>3, <2>4
<1>17. CASE Lose(s) \/ Forget(s)
  BY <1>1, <1>17 DEF Lose, Forget, Idle, PastCheck, MayBook
<1>18. CASE \E u \in User : Arrive(s, u)
  BY <1>6, <1>18 DEF PastCheck
<1> QED
  BY <1>7, <1>8, <1>9, <1>10, <1>11, <1>12, <1>13, <1>14, <1>15, <1>16, <1>17, <1>18
     DEF StreamStep

-----------------------------------------------------------------------------
(* The platform's budget.                                                   *)

\* What a set of streams can cost grows with the set.
LEMMA Room ==
    ASSUME NEW T \in SUBSET Stream, NEW U \in SUBSET T
    PROVE  /\ Cardinality(U) * MaxCost \in Nat /\ Cardinality(T) * MaxCost \in Nat
           /\ Cardinality(U) * MaxCost <= Cardinality(T) * MaxCost
           /\ U # T => Cardinality(U) * MaxCost + MaxCost <= Cardinality(T) * MaxCost
<1> DEFINE u == Cardinality(U)
           t == Cardinality(T)
<1>1. IsFiniteSet(T) /\ IsFiniteSet(U)
  BY FiniteAssumption, FS_Subset
<1>2. u \in Nat /\ t \in Nat /\ MaxCost \in Nat
  BY <1>1, FS_CardinalityType, BoundsAssumption
<1>3. u <= t /\ (U # T => u < t)
  <2>1. u <= t /\ (u = t => U = T)
    BY <1>1, FS_Subset
  <2> HIDE DEF u, t
  <2> QED
    BY <1>2, <2>1
<1> HIDE DEF u, t
<1>4. u * MaxCost \in Nat /\ t * MaxCost \in Nat
  BY <1>2
<1>5. u * MaxCost <= t * MaxCost
  BY <1>2, <1>3
<1>6. U # T => u * MaxCost + MaxCost <= t * MaxCost
  BY <1>2, <1>3
<1> QED
  BY <1>4, <1>5, <1>6 DEF u, t

\* A day's total, and what the streams past their check may add to today's.
PlatformHolds ==
    /\ PlatformSpendIsCapped
    /\ \A d \in DOMAIN platform : d > DayOf(now) => platform[d] = 0
    /\ PlatformSpendToday + Cardinality(Payers) * MaxCost <= Overshoot(PlatformBudget)

\* No set of streams can take a total that is below its limit past the overshoot.
LEMMA WithinOvershoot ==
    ASSUME NEW T \in SUBSET Stream, NEW limit \in Nat, NEW spent \in Nat, spent < limit
    PROVE  spent + Cardinality(T) * MaxCost <= Overshoot(limit)
<1> DEFINE t == Cardinality(T) * MaxCost
           all == Cardinality(Stream) * MaxCost
<1>1. t \in Nat /\ all \in Nat /\ t <= all
  BY Room
<1>2. Overshoot(limit) = limit - 1 + all
  BY DEF Overshoot
<1> HIDE DEF t, all
<1>3. spent + t <= limit - 1 + all
  BY <1>1
<1> QED
  BY <1>2, <1>3 DEF t

LEMMA PlatformHoldsNext ==
    ASSUME Sound, PlatformHolds, Next
    PROVE  PlatformHolds'
<1> DEFINE M == Cardinality(Payers) * MaxCost
           cap == Overshoot(PlatformBudget)
<1>1. /\ platform \in [0..DayOf(MaxTick) -> Nat] /\ MaxCost \in Nat
      /\ Payers \in SUBSET Stream /\ Payers' \in SUBSET Stream
      /\ PlatformBudget \in Nat \ {0} /\ DayOf(now) \in DOMAIN platform
  BY BoundsAssumption, LimitsAssumption, TodayIsADay DEF Sound, TypeOK, Payers
<1>2. M \in Nat /\ cap \in Int
  <2>1. M \in Nat /\ Cardinality(Stream) * MaxCost \in Nat
    BY <1>1, Room
  <2> QED
    BY <1>1, <2>1 DEF Overshoot
<1>3. ASSUME NEW s \in Stream, StreamStep(s) \/ \E u \in User : Arrive(s, u)
      PROVE  PlatformHolds'
  <2>1. /\ now' = now
        /\ Quiet(s) \/ Books(s)
        /\ \A q \in Stream : q # s => stream'[q] = stream[q]
    BY <1>3, StreamMoves
  <2>2. CASE Quiet(s)
    <3>1. platform' = platform
      BY <2>2 DEF Quiet
    <3>2. CASE Payers' \subseteq Payers
      <4>1. Cardinality(Payers') * MaxCost \in Nat /\ Cardinality(Payers') * MaxCost <= M
        BY <1>1, <3>2, Room
      <4>2. PlatformSpendToday + Cardinality(Payers') * MaxCost <= cap
        BY <1>1, <1>2, <4>1 DEF PlatformHolds, PlatformSpendToday
      <4> QED
        BY <2>1, <3>1, <4>2 DEF PlatformHolds, PlatformSpendIsCapped, PlatformSpendToday,
                                Overshoot, DayOf
    <3>3. CASE ~(Payers' \subseteq Payers)
      <4>1. PlatformSpendToday < PlatformBudget
        BY <2>1, <2>2, <3>3 DEF Quiet, Payers
      <4>2. PlatformSpendToday \in Nat
        BY TodayIsADay DEF Sound
      <4>3. PlatformSpendToday + Cardinality(Payers') * MaxCost <= cap
        BY <1>1, <4>1, <4>2, WithinOvershoot
      <4> QED
        BY <2>1, <3>1, <4>3 DEF PlatformHolds, PlatformSpendIsCapped, PlatformSpendToday,
                                Overshoot, DayOf
    <3> QED
      BY <3>2, <3>3
  <2>3. CASE Books(s)
    <3>1. PICK c \in 0..MaxCost : platform' = [platform EXCEPT ![DayOf(now)] = @ + c]
      BY <2>3 DEF Books, Pays
    <3>2. Payers' \subseteq Payers /\ Payers' # Payers
      BY <2>1, <2>3 DEF Books, Payers, PastCheck
    <3>3. /\ Cardinality(Payers') * MaxCost \in Nat
          /\ Cardinality(Payers') * MaxCost + MaxCost <= M
      BY <1>1, <3>2, Room
    <3> DEFINE M2 == Cardinality(Payers') * MaxCost
               old == platform[DayOf(now)]
    <3>4. old \in Nat /\ old + M <= cap
      BY <1>1 DEF PlatformHolds, PlatformSpendToday
    <3>5. DOMAIN platform' = DOMAIN platform
      BY <1>1, <3>1
    <3>6. /\ platform'[DayOf(now)] = old + c
          /\ \A d \in DOMAIN platform : d # DayOf(now) => platform'[d] = platform[d]
      BY <1>1, <3>1
    <3>7. old + c + M2 <= cap
      <4> HIDE DEF M, M2, cap, old
      <4>1. M2 \in Nat /\ M2 + MaxCost <= M
        BY <3>3 DEF M2
      <4>2. c \in Nat /\ c <= MaxCost
        BY <1>1
      <4> QED
        BY <1>1, <1>2, <3>4, <4>1, <4>2
    <3>8. old + c <= cap
      <4> HIDE DEF M, cap, old
      <4>1. M2 \in Nat /\ c \in Nat
        BY <1>1, <3>3
      <4> HIDE DEF M2
      <4> QED
        BY <1>2, <3>4, <3>7, <4>1
    <3>9. \A d \in DOMAIN platform : platform'[d] <= cap
      BY <3>6, <3>8 DEF PlatformHolds, PlatformSpendIsCapped
    <3>10. \A d \in DOMAIN platform : d > DayOf(now) => platform'[d] = 0
      <4>1. DayOf(now) \in Int
        BY <1>1
      <4> QED
        BY <1>1, <3>6, <4>1 DEF PlatformHolds
    <3>11. DayOf(now)' = DayOf(now)
      BY <2>1 DEF DayOf
    <3> QED
      BY <3>5, <3>6, <3>7, <3>9, <3>10, <3>11
         DEF PlatformHolds, PlatformSpendIsCapped, PlatformSpendToday, Overshoot
  <2> QED
    BY <2>1, <2>2, <2>3
<1>4. ASSUME NEW u \in User, RemoveUser(u) PROVE PlatformHolds'
  BY <1>4 DEF RemoveUser, PlatformHolds, PlatformSpendIsCapped, PlatformSpendToday,
              Overshoot, Payers, DayOf
<1>5. CASE TimePasses
  <2>1. UNCHANGED <<platform, stream>> /\ now' = now + 1
    BY <1>5 DEF TimePasses
  <2>2. Payers' = Payers
    BY <2>1 DEF Payers
  <2>3. now \in Nat /\ MaxTick \in Nat /\ now + 1 <= MaxTick
    BY <1>5, BoundsAssumption DEF TimePasses, Sound, TypeOK, Tick
  <2>4. /\ DayOf(now) \in Nat /\ DayOf(now + 1) \in Nat /\ DayOf(MaxTick) \in Nat
        /\ DayOf(now) <= DayOf(now + 1) /\ DayOf(now + 1) <= DayOf(MaxTick)
    BY <2>3, DaysGoUp
  <2>5. DayOf(now)' = DayOf(now + 1)
    BY <2>1 DEF DayOf
  <2>6. platform[DayOf(now + 1)] + M <= cap
    <3>1. CASE DayOf(now + 1) = DayOf(now)
      BY <3>1 DEF PlatformHolds, PlatformSpendToday
    <3>2. CASE DayOf(now + 1) # DayOf(now)
      <4>1. platform[DayOf(now + 1)] = 0
        BY <1>1, <2>4, <3>2 DEF PlatformHolds
      <4>2. 0 + M <= cap
        BY <1>1, WithinOvershoot
      <4> QED
        BY <4>1, <4>2
    <3> QED
      BY <3>1, <3>2
  <2>7. \A d \in DOMAIN platform : d > DayOf(now + 1) => platform[d] = 0
    BY <1>1, <2>4 DEF PlatformHolds
  <2> QED
    BY <2>1, <2>2, <2>5, <2>6, <2>7
       DEF PlatformHolds, PlatformSpendIsCapped, PlatformSpendToday, Overshoot
<1> QED
  BY <1>3, <1>4, <1>5 DEF Next

\* What the whole platform spends in a calendar day exceeds its budget by less than
\* what its concurrent streams can cost.
THEOREM PlatformSpendIsHeld == Spec => []PlatformSpendIsCapped
<1>1. Init => PlatformHolds
  <2> SUFFICES ASSUME Init PROVE PlatformHolds
    OBVIOUS
  <2>1. Payers = {}
    BY DEF Init, Payers, MayBook, Idle
  <2>2. DayOf(0) \in 0..DayOf(MaxTick)
    BY BoundsAssumption, DaysGoUp
  <2>3. \A d \in DOMAIN platform : platform[d] = 0
    BY DEF Init
  <2>4. {} \in SUBSET Stream /\ PlatformBudget \in Nat /\ 0 < PlatformBudget
    BY LimitsAssumption
  <2>5. 0 + Cardinality({}) * MaxCost <= Overshoot(PlatformBudget)
    BY <2>4, WithinOvershoot
  <2>6. 0 <= Overshoot(PlatformBudget)
    BY <2>5, BoundsAssumption, FS_EmptySet, <2>4 DEF Overshoot
  <2> QED
    BY <2>1, <2>2, <2>3, <2>5, <2>6
       DEF Init, PlatformHolds, PlatformSpendIsCapped, PlatformSpendToday
<1>2. PlatformHolds /\ Sound /\ [Next]_vars => PlatformHolds'
  <2>1. PlatformHolds /\ UNCHANGED vars => PlatformHolds'
    BY DEF vars, PlatformHolds, PlatformSpendIsCapped, PlatformSpendToday, Overshoot,
           Payers, DayOf
  <2> QED
    BY <2>1, PlatformHoldsNext
<1>3. PlatformHolds => PlatformSpendIsCapped
  BY DEF PlatformHolds
<1> QED
  BY <1>1, <1>2, <1>3, Invariance, PTL DEF Spec

-----------------------------------------------------------------------------
(* The budget of an org.                                                    *)

\* No row is of a later time, and no org's streams past their check can take what it
\* spent past the overshoot.
OrgHolds ==
    /\ \A s \in Stream : stream[s].at # "idle" => stream[s].created <= now
    /\ \A u \in User : \A t \in Tick : t > now => cost[u][t] = 0
    /\ \A o \in Org :
         SpendLast24h(o) + Cardinality(Spenders(o)) * MaxCost <= Overshoot(OrgBudget)

\* A user's spend goes up by the payment of an answer, if that was asked recently.
LEMMA BookingSpends ==
    ASSUME TypeOK, TypeOK', now' = now, NEW u \in User, NEW t \in Tick, NEW c \in Nat,
           cost' = [cost EXCEPT ![u][t] = @ + c]
    PROVE  /\ UserSpend(u)' = UserSpend(u) + IF t \in Recent THEN c ELSE 0
           /\ \A v \in User : v # u => UserSpend(v)' = UserSpend(v)
<1>1. IsFiniteSet(Recent) /\ Recent \subseteq Tick /\ Recent' = Recent
  BY SpendType DEF Recent
<1>2. /\ cost[u] \in [Tick -> Nat]
      /\ cost'[u] = [cost[u] EXCEPT ![t] = @ + c]
      /\ \A v \in User : v # u => cost'[v] = cost[v]
  BY DEF TypeOK
<1>3. \A x \in Recent : cost[u][x] \in Nat /\ cost'[u][x] \in Nat
  BY <1>1 DEF TypeOK
<1>4. Sum(cost'[u], Recent) = Sum(cost[u], Recent) + IF t \in Recent THEN c ELSE 0
  <2>1. CASE t \in Recent
    <3>1. /\ cost'[u][t] = cost[u][t] + c
          /\ \A x \in Recent \ {t} : cost'[u][x] = cost[u][x]
      BY <1>1, <1>2
    <3>2. Sum(cost'[u], Recent) = Sum(cost[u], Recent) + c
      BY <1>1, <1>3, <2>1, <3>1, SumAddsOne
    <3> QED
      BY <2>1, <3>2
  <2>2. CASE t \notin Recent
    <3>1. \A x \in Recent : cost'[u][x] = cost[u][x]
      BY <1>1, <1>2, <2>2
    <3>2. Sum(cost'[u], Recent) = Sum(cost[u], Recent) /\ Sum(cost[u], Recent) \in Nat
      BY <1>1, <1>3, <3>1, SumSame, SumType
    <3> QED
      BY <2>2, <3>2
  <2> QED
    BY <2>1, <2>2
<1> QED
  BY <1>1, <1>2, <1>4 DEF UserSpend

\* Where no user's spend goes up and nobody joins, an org's does not go up.
LEMMA LessIsSpent ==
    ASSUME TypeOK, TypeOK', present' \subseteq present, NEW o,
           \A u \in Users(o)' : UserSpend(u)' <= UserSpend(u)
    PROVE  SpendLast24h(o)' <= SpendLast24h(o)
<1> DEFINE f == [u \in Users(o) |-> UserSpend(u)]
           g == [u \in Users(o)' |-> UserSpend(u)']
<1>1. /\ IsFiniteSet(Users(o)) /\ Users(o)' \subseteq Users(o)
      /\ Users(o) \subseteq User
  BY SpendType DEF Users, TypeOK
<1>2. /\ \A u \in User : UserSpend(u) \in Nat
      /\ \A u \in User : UserSpend(u)' \in Nat
  <2>1. \A u \in User : UserSpend(u) \in Nat
    BY SpendType
  <2>2. (\A u \in User : UserSpend(u) \in Nat)'
    BY SpendType, PTL
  <2> QED
    BY <2>1, <2>2
<1>3. /\ \A u \in Users(o) : f[u] \in Nat
      /\ \A u \in Users(o)' : g[u] \in Nat /\ g[u] <= f[u]
  BY <1>1, <1>2
<1>4. Sum(g, Users(o)') <= Sum(f, Users(o))
  <2> HIDE DEF f, g
  <2> QED
    BY <1>1, <1>3, SumGrows
<1> QED
  BY <1>4 DEF SpendLast24h

\* An org's spend goes up by no more than the payment, and only the payer's org's does.
LEMMA BookingIsSpent ==
    ASSUME TypeOK, TypeOK', now' = now, present' = present,
           NEW s \in Stream, stream[s] \in Asking, NEW c \in 0..MaxCost,
           Pays(s, c), NEW o
    PROVE  SpendLast24h(o)' <=
             SpendLast24h(o) + IF OrgOf[stream[s].user] = o THEN c ELSE 0
<1>0. (\A p : IsFiniteSet(Users(p)) /\ SpendLast24h(p) \in Nat)'
  BY SpendType, PTL
<1>1. PICK u \in User, t \in Tick : u = stream[s].user /\ t = stream[s].created
  BY DEF Asking
<1> c \in Nat
  BY BoundsAssumption
<1>2. /\ IsFiniteSet(Users(o)) /\ Users(o)' = Users(o) /\ Users(o) \subseteq User
      /\ SpendLast24h(o) \in Nat
      /\ \A v \in User : UserSpend(v) \in Nat
  BY SpendType DEF Users, TypeOK
<1>3. CASE u \in Users(o)
  <2>1. cost' = [cost EXCEPT ![u][t] = @ + c] /\ OrgOf[u] = o
    BY <1>1, <1>3 DEF Pays, Users
  <2> DEFINE d == IF t \in Recent THEN c ELSE 0
             f == [v \in Users(o) |-> UserSpend(v)]
             g == [v \in Users(o) |-> UserSpend(v)']
  <2>2. /\ UserSpend(u)' = UserSpend(u) + d
        /\ \A v \in User : v # u => UserSpend(v)' = UserSpend(v)
    BY <2>1, BookingSpends
  <2>3. /\ \A v \in Users(o) : f[v] \in Nat
        /\ \A v \in Users(o) \ {u} : g[v] = f[v]
        /\ g[u] = f[u] + d
    BY <1>2, <1>3, <2>2
  <2>4. d \in Nat /\ d <= c
    OBVIOUS
  <2>5. Sum(g, Users(o)) = Sum(f, Users(o)) + d
    <3> HIDE DEF f, g, d
    <3> QED
      BY <1>2, <1>3, <2>3, <2>4, SumAddsOne
  <2>6. SpendLast24h(o)' = SpendLast24h(o) + d
    BY <1>2, <2>5 DEF SpendLast24h
  <2> HIDE DEF d
  <2>7. SpendLast24h(o)' <= SpendLast24h(o) + c
    BY <1>2, <2>4, <2>6
  <2> QED
    BY <1>1, <2>1, <2>7
<1>4. CASE u \notin Users(o)
  <2>1. ASSUME NEW v \in Users(o) PROVE UserSpend(v)' = UserSpend(v)
    <3>1. v \in User /\ v # u
      BY <1>2, <1>4
    <3>2. cost'[v] = cost[v]
      BY <1>1, <3>1 DEF Pays, TypeOK
    <3> QED
      BY <3>2 DEF UserSpend, Recent
  <2>2. \A v \in Users(o)' : UserSpend(v)' <= UserSpend(v)
    <3>1. \A v \in Users(o) : UserSpend(v) <= UserSpend(v)
      BY <1>2
    <3> QED
      BY <1>2, <2>1, <3>1
  <2>3. SpendLast24h(o)' <= SpendLast24h(o)
    BY <2>2, LessIsSpent
  <2>4. SpendLast24h(o)' \in Nat
    BY <1>0
  <2> QED
    BY <1>1, <1>2, <2>3, <2>4
<1> QED
  BY <1>3, <1>4

\* Time takes rows out of the last 24 hours, and puts none in.
LEMMA TimeSpendsNothing ==
    ASSUME TypeOK, TypeOK', OrgHolds, TimePasses, NEW o
    PROVE  SpendLast24h(o)' <= SpendLast24h(o)
<1>1. /\ cost' = cost /\ present' = present /\ now' = now + 1
      /\ now \in Nat /\ MaxTick \in Nat /\ now < MaxTick
      /\ TicksPerDay \in Nat
  BY BoundsAssumption, TicksPerDayAssumption DEF TimePasses, TypeOK, Tick
<1>2. /\ IsFiniteSet(Recent) /\ Recent \subseteq Tick
      /\ IsFiniteSet(Recent') /\ Recent' \subseteq Tick
  <2>1. IsFiniteSet(Recent) /\ Recent \subseteq Tick
    BY SpendType
  <2>2. (IsFiniteSet(Recent) /\ Recent \subseteq Tick)'
    BY SpendType, PTL
  <2> QED
    BY <2>1, <2>2
<1>3. Recent' \ {now + 1} \subseteq Recent
  BY <1>1 DEF Recent, Tick
<1>4. ASSUME NEW u \in User PROVE UserSpend(u)' <= UserSpend(u)
  <2>1. \A t \in Tick : cost[u][t] \in Nat
    BY DEF TypeOK
  <2>2. IsFiniteSet(Recent' \ {now + 1})
    BY <1>2, FS_Subset
  <2>3. Sum(cost[u], Recent' \ {now + 1}) <= Sum(cost[u], Recent)
    <3>1. \A t \in Recent' \ {now + 1} : cost[u][t] <= cost[u][t]
      BY <1>2, <2>1
    <3> QED
      BY <1>2, <1>3, <2>1, <3>1, SumGrows
  <2>4. Sum(cost[u], Recent') = Sum(cost[u], Recent' \ {now + 1})
    <3>1. CASE now + 1 \in Recent'
      <4>1. cost[u][now + 1] = 0
        BY <1>1, <1>2, <3>1 DEF OrgHolds
      <4>2. Sum(cost[u], Recent') = cost[u][now + 1] + Sum(cost[u], Recent' \ {now + 1})
        BY <1>2, <2>1, <3>1, SumSplit
      <4>3. Sum(cost[u], Recent' \ {now + 1}) \in Nat
        BY <1>2, <2>1, <2>2, SumType
      <4> QED
        BY <4>1, <4>2, <4>3
    <3>2. CASE now + 1 \notin Recent'
      <4>1. Recent' \ {now + 1} = Recent'
        BY <3>2
      <4> QED
        BY <4>1
    <3> QED
      BY <3>1, <3>2
  <2>5. UserSpend(u)' = Sum(cost[u], Recent') /\ UserSpend(u) = Sum(cost[u], Recent)
    BY <1>1 DEF UserSpend
  <2> QED
    BY <2>3, <2>4, <2>5
<1>5. \A u \in Users(o)' : UserSpend(u)' <= UserSpend(u)
  BY <1>1, <1>4 DEF Users, TypeOK
<1> QED
  BY <1>1, <1>5, LessIsSpent

LEMMA OrgHoldsNext ==
    ASSUME Sound, TypeOK', OrgHolds, Next
    PROVE  OrgHolds'
<1>1. /\ TypeOK /\ now \in Nat /\ MaxCost \in Nat /\ OrgBudget \in Nat \ {0}
      /\ Tick \subseteq Nat /\ stream \in [Stream -> Asking \cup {Idle}]
  BY BoundsAssumption, LimitsAssumption DEF Sound, TypeOK, Tick
<1>2. /\ \A o : Spenders(o) \in SUBSET Stream /\ Spenders(o)' \in SUBSET Stream
      /\ \A p : IsFiniteSet(Users(p)) /\ SpendLast24h(p) \in Nat
      /\ \A p : (IsFiniteSet(Users(p)) /\ SpendLast24h(p) \in Nat)'
  <2>1. \A o : Spenders(o) \in SUBSET Stream /\ Spenders(o)' \in SUBSET Stream
    BY DEF Spenders
  <2>2. \A p : IsFiniteSet(Users(p)) /\ SpendLast24h(p) \in Nat
    BY <1>1, SpendType
  <2>3. (\A p : IsFiniteSet(Users(p)) /\ SpendLast24h(p) \in Nat)'
    BY SpendType, PTL
  <2> QED
    BY <2>1, <2>2, <2>3
\* Where neither the spend nor the spenders grow, what they can add up to does not.
<1>3. ASSUME NEW o \in Org, SpendLast24h(o)' <= SpendLast24h(o),
             Spenders(o)' \subseteq Spenders(o)
      PROVE  SpendLast24h(o)' + Cardinality(Spenders(o)') * MaxCost <= Overshoot(OrgBudget)
  <2> DEFINE a == Cardinality(Spenders(o)) * MaxCost
             b == Cardinality(Spenders(o)') * MaxCost
  <2>1. a \in Nat /\ b \in Nat /\ b <= a
    BY <1>2, <1>3, Room
  <2>2. SpendLast24h(o) + a <= Overshoot(OrgBudget) /\ Overshoot(OrgBudget) \in Int
    <3>1. Cardinality(Stream) * MaxCost \in Nat
      BY Room
    <3> QED
      BY <1>1, <3>1 DEF OrgHolds, Overshoot
  <2> HIDE DEF a, b
  <2>3. SpendLast24h(o)' \in Nat /\ SpendLast24h(o) \in Nat
    BY <1>2
  <2>4. SpendLast24h(o)' + b <= Overshoot(OrgBudget)
    BY <1>3, <2>1, <2>2, <2>3
  <2> QED
    BY <2>4 DEF b
<1>4. ASSUME NEW s \in Stream, StreamStep(s) \/ \E u \in User : Arrive(s, u)
      PROVE  OrgHolds'
  <2>1. /\ now' = now /\ present' = present
        /\ Quiet(s) \/ Books(s)
        /\ \A q \in Stream : q # s => stream'[q] = stream[q]
        /\ stream'[s].at # "idle" =>
             stream'[s].created \in {0, now} \/ stream'[s].created = stream[s].created
    BY <1>4, StreamMoves
  <2>2. ASSUME NEW q \in Stream, stream'[q].at # "idle" PROVE stream'[q].created <= now
    <3>1. CASE q # s
      BY <2>1, <2>2, <3>1 DEF OrgHolds
    <3>2. CASE q = s /\ stream'[s].created \in {0, now}
      BY <1>1, <3>2
    <3>3. CASE q = s /\ stream'[s].created \notin {0, now}
      <4>1. stream'[s].created = stream[s].created /\ stream'[s] \in Asking
        BY <2>1, <2>2, <3>3 DEF TypeOK, Idle
      <4>2. CASE stream[s].at # "idle"
        BY <3>3, <4>1, <4>2 DEF OrgHolds
      <4>3. CASE stream[s].at = "idle"
        \* Only Arrive moves an idle stream, and it starts at 0.
        <5>1. PICK u \in User : Arrive(s, u)
          BY <1>4, <4>3 DEF StreamStep, CheckSpend, CheckQuestions, CheckPlatform,
             RecordBlocked, MarkBlocked, TellLimit, RecordAsked, SendMeta, Refuse,
             SendSources, SendToken, ReportUsage, SendDone, RaiseError, Close, Lose, Forget,
             Running, Suspended, Over
        <5>2. stream'[s].created = 0
          BY <1>1, <5>1 DEF Arrive
        <5> QED
          BY <3>3, <5>2
      <4> QED
        BY <4>2, <4>3
    <3> QED
      BY <3>1, <3>2, <3>3
  <2>3. ASSUME NEW v \in User, NEW t \in Tick, t > now PROVE cost'[v][t] = 0
    <3>1. cost[v][t] = 0
      BY <2>3 DEF OrgHolds
    <3>2. CASE cost' = cost
      BY <3>1, <3>2
    <3>3. CASE Books(s)
      <4>1. stream[s] \in Asking /\ stream[s].created <= now /\ stream[s].created \in Tick
        BY <3>3 DEF Books, OrgHolds, Asking, Running, Suspended, Over
      <4>2. stream[s].created # t
        BY <1>1, <2>3, <4>1
      <4> QED
        BY <1>1, <3>1, <3>3, <4>1, <4>2 DEF Books, Pays, TypeOK
    <3> QED
      BY <2>1, <3>2, <3>3 DEF Quiet
  <2>4. ASSUME NEW o \in Org, Quiet(s)
        PROVE  SpendLast24h(o)' + Cardinality(Spenders(o)') * MaxCost <= Overshoot(OrgBudget)
    <3>1. SpendLast24h(o)' = SpendLast24h(o)
      BY <2>1, <2>4 DEF Quiet, SpendLast24h, Users, UserSpend, Recent
    <3>2. CASE Spenders(o)' \subseteq Spenders(o)
      BY <1>2, <1>3, <3>1, <3>2
    <3>3. CASE ~(Spenders(o)' \subseteq Spenders(o))
      <4>1. s \in Spenders(o)' /\ s \notin Spenders(o)
        BY <2>1, <3>3 DEF Spenders
      <4>2. PastCheck(stream'[s]) /\ OrgOf[stream'[s].user] = o
        BY <4>1 DEF Spenders
      <4>3. stream'[s].user = stream[s].user /\ ~PastCheck(stream[s])
        BY <2>4, <4>1, <4>2 DEF Quiet, Spenders
      <4>4. SpendLast24h(o) < OrgBudget
        BY <2>4, <4>2, <4>3 DEF Quiet
      <4> QED
        BY <1>1, <1>2, <3>1, <4>4, WithinOvershoot
    <3> QED
      BY <3>2, <3>3
  <2>5. ASSUME NEW o \in Org, Books(s)
        PROVE  SpendLast24h(o)' + Cardinality(Spenders(o)') * MaxCost <= Overshoot(OrgBudget)
    <3>1. PICK c \in 0..MaxCost : Pays(s, c)
      BY <2>5 DEF Books
    <3>2. SpendLast24h(o)' <= SpendLast24h(o) + IF OrgOf[stream[s].user] = o THEN c ELSE 0
      BY <1>1, <2>1, <2>5, <3>1, BookingIsSpent DEF Books
    <3>3. Spenders(o)' \subseteq Spenders(o) /\ s \notin Spenders(o)'
      BY <2>1, <2>5 DEF Books, Spenders
    <3>4. CASE OrgOf[stream[s].user] # o
      <4>1. SpendLast24h(o)' <= SpendLast24h(o)
        BY <1>2, <3>2, <3>4
      <4> QED
        BY <1>3, <3>3, <4>1
    <3>5. CASE OrgOf[stream[s].user] = o
      <4>1. s \in Spenders(o)
        BY <2>5, <3>5 DEF Books, Spenders, PastCheck
      <4> DEFINE a == Cardinality(Spenders(o)) * MaxCost
                 b == Cardinality(Spenders(o)') * MaxCost
      <4>2. a \in Nat /\ b \in Nat /\ b + MaxCost <= a
        BY <1>2, <3>3, <4>1, Room
      <4>3. SpendLast24h(o) + a <= Overshoot(OrgBudget) /\ Overshoot(OrgBudget) \in Int
        <5>1. Cardinality(Stream) * MaxCost \in Nat
          BY Room
        <5> QED
          BY <1>1, <5>1 DEF OrgHolds, Overshoot
      <4>4. /\ SpendLast24h(o)' \in Nat /\ SpendLast24h(o) \in Nat
            /\ SpendLast24h(o)' <= SpendLast24h(o) + c /\ c \in Nat /\ c <= MaxCost
        BY <1>1, <1>2, <3>2, <3>5
      <4> HIDE DEF a, b
      <4>5. SpendLast24h(o)' + b <= Overshoot(OrgBudget)
        BY <1>1, <4>2, <4>3, <4>4
      <4> QED
        BY <4>5 DEF b
    <3> QED
      BY <3>4, <3>5
  <2>6. \A o \in Org : SpendLast24h(o)' + Cardinality(Spenders(o)') * MaxCost
                        <= Overshoot(OrgBudget)
    BY <2>1, <2>4, <2>5
  <2> QED
    BY <2>1, <2>2, <2>3, <2>6 DEF OrgHolds, Overshoot
<1>5. ASSUME NEW v \in User, RemoveUser(v) PROVE OrgHolds'
  <2>1. /\ now' = now /\ stream' = stream /\ present' = present \ {v}
        /\ \A u \in User : u # v => cost'[u] = cost[u]
        /\ \A t \in Tick : cost'[v][t] = 0
    BY <1>1, <1>5 DEF RemoveUser, TypeOK
  <2>2. ASSUME NEW o \in Org
        PROVE  SpendLast24h(o)' + Cardinality(Spenders(o)') * MaxCost <= Overshoot(OrgBudget)
    <3>1. ASSUME NEW u \in Users(o)' PROVE UserSpend(u)' <= UserSpend(u)
      <4>1. u \in User /\ u # v
        BY <2>1 DEF Users, TypeOK
      <4>2. UserSpend(u)' = UserSpend(u) /\ UserSpend(u) \in Nat
        BY <1>1, <2>1, <4>1, SpendType DEF UserSpend, Recent
      <4> QED
        BY <4>2
    <3>2. SpendLast24h(o)' <= SpendLast24h(o)
      BY <1>1, <2>1, <3>1, LessIsSpent
    <3>3. Spenders(o)' \subseteq Spenders(o)
      BY <2>1 DEF Spenders
    <3> QED
      BY <1>3, <3>2, <3>3
  <2>3. \A u \in User : \A t \in Tick : t > now => cost'[u][t] = 0
    BY <2>1 DEF OrgHolds
  <2> QED
    BY <2>1, <2>2, <2>3 DEF OrgHolds, Overshoot
<1>6. CASE TimePasses
  <2>1. now' = now + 1 /\ cost' = cost /\ stream' = stream
    BY <1>6 DEF TimePasses
  <2>2. ASSUME NEW o \in Org
        PROVE  SpendLast24h(o)' + Cardinality(Spenders(o)') * MaxCost <= Overshoot(OrgBudget)
    <3>1. SpendLast24h(o)' <= SpendLast24h(o)
      BY <1>1, <1>6, TimeSpendsNothing
    <3>2. Spenders(o)' \subseteq Spenders(o)
      BY <2>1 DEF Spenders
    <3> QED
      BY <1>3, <3>1, <3>2
  <2>3. ASSUME NEW s \in Stream, stream[s].at # "idle" PROVE stream[s].created <= now + 1
    <3>1. stream[s].created \in Nat /\ stream[s].created <= now
      <4>1. stream[s] \in Asking
        BY <1>1, <2>3 DEF Idle
      <4>2. stream[s].created \in Tick
        BY <4>1 DEF Asking
      <4> QED
        BY <1>1, <2>3, <4>2 DEF OrgHolds
    <3> QED
      BY <1>1, <3>1
  <2>4. ASSUME NEW u \in User, NEW t \in Tick, t > now + 1 PROVE cost[u][t] = 0
    <3>1. t > now
      BY <1>1, <2>4
    <3> QED
      BY <3>1 DEF OrgHolds
  <2> QED
    BY <2>1, <2>2, <2>3, <2>4 DEF OrgHolds, Overshoot
<1> QED
  BY <1>4, <1>5, <1>6 DEF Next

\* What an org has spent in 24 hours exceeds its budget by less than what its
\* concurrent streams can cost, for any budgets, costs, users and hours.
THEOREM OrgSpendIsHeld == Spec => []OrgSpendIsCapped
<1>1. ASSUME Init, TypeOK PROVE OrgHolds
  <2>1. \A u \in User : \A t \in Tick : cost[u][t] = 0
    BY <1>1 DEF Init
  <2>2. ASSUME NEW o \in Org
        PROVE  SpendLast24h(o) + Cardinality(Spenders(o)) * MaxCost <= Overshoot(OrgBudget)
    <3>1. /\ IsFiniteSet(Users(o)) /\ Users(o) \subseteq User
          /\ IsFiniteSet(Recent) /\ Recent \subseteq Tick
      BY <1>1, SpendType DEF Users, TypeOK
    <3>2. \A u \in User : UserSpend(u) = 0
      BY <2>1, <3>1, SumOfZeros DEF UserSpend
    <3> DEFINE f == [u \in Users(o) |-> UserSpend(u)]
    <3>3. \A u \in Users(o) : f[u] = 0
      BY <3>1, <3>2
    <3> HIDE DEF f
    <3>4. SpendLast24h(o) = 0
      BY <3>1, <3>3, SumOfZeros DEF SpendLast24h, f
    <3>5. Spenders(o) \in SUBSET Stream
      BY DEF Spenders
    <3>6. OrgBudget \in Nat /\ 0 < OrgBudget
      BY LimitsAssumption
    <3> QED
      BY <3>4, <3>5, <3>6, WithinOvershoot
  <2>3. \A s \in Stream : stream[s].at = "idle"
    BY <1>1 DEF Init, Idle
  <2> QED
    BY <2>1, <2>2, <2>3 DEF OrgHolds
<1>2. ASSUME Sound, Sound', OrgHolds, [Next]_vars PROVE OrgHolds'
  <2>1. CASE Next
    BY <1>2, <2>1, OrgHoldsNext DEF Sound
  <2>2. CASE UNCHANGED vars
    BY <1>2, <2>2 DEF vars, OrgHolds, SpendLast24h, Users, UserSpend, Recent, Spenders,
                      Overshoot
  <2> QED
    BY <1>2, <2>1, <2>2
<1>3. ASSUME Sound, OrgHolds PROVE OrgSpendIsCapped
  <2>1. ASSUME NEW o \in Org PROVE SpendLast24h(o) <= Overshoot(OrgBudget)
    <3> DEFINE a == Cardinality(Spenders(o)) * MaxCost
    <3>1. a \in Nat
      BY Room DEF Spenders
    <3>2. SpendLast24h(o) + a <= Overshoot(OrgBudget)
      BY <1>3 DEF OrgHolds
    <3>3. SpendLast24h(o) \in Nat
      BY <1>3, SpendType DEF Sound
    <3>4. Overshoot(OrgBudget) \in Int
      BY LimitsAssumption, Room DEF Overshoot
    <3> HIDE DEF a
    <3> QED
      BY <3>1, <3>2, <3>3, <3>4
  <2> QED
    BY <2>1 DEF OrgSpendIsCapped
<1>4. Sound => TypeOK
  BY DEF Sound
<1> QED
  BY <1>1, <1>2, <1>3, <1>4, Invariance, PTL DEF Spec

-----------------------------------------------------------------------------
(* The two ledgers.                                                         *)

\* The two totals, one user's and everybody's rows.
UserTotal(u) == Sum(cost[u], Tick)
AnswersTotal == Sum([u \in User |-> UserTotal(u)], User)
PlatformTotal == Sum(platform, DOMAIN platform)
TotalsAreNumbers == \A u \in User : UserTotal(u) \in Nat

LEMMA TotalsType ==
    ASSUME TypeOK
    PROVE  /\ IsFiniteSet(Tick) /\ IsFiniteSet(0..DayOf(MaxTick))
           /\ TotalsAreNumbers
           /\ AnswersTotal \in Nat /\ PlatformTotal \in Nat
<1>1. IsFiniteSet(Tick) /\ IsFiniteSet(0..DayOf(MaxTick))
  <2>1. MaxTick \in Nat /\ MaxTick <= MaxTick
    BY BoundsAssumption
  <2>2. DayOf(MaxTick) \in Nat
    BY <2>1, DaysGoUp
  <2> QED
    BY <2>1, <2>2, FS_Interval DEF Tick
<1>2. ASSUME NEW v \in User PROVE UserTotal(v) \in Nat
  BY <1>1, SumType DEF UserTotal, TypeOK
<1> DEFINE f == [u \in User |-> UserTotal(u)]
<1>3. \A u \in User : f[u] \in Nat
  BY <1>2
<1>4. Sum(f, User) \in Nat
  <2> HIDE DEF f
  <2> QED
    BY <1>3, FiniteAssumption, SumType
<1>5. PlatformTotal \in Nat
  BY <1>1, SumType DEF PlatformTotal, TypeOK
<1> QED
  BY <1>1, <1>2, <1>4, <1>5 DEF AnswersTotal, TotalsAreNumbers

\* When one user's rows change, the total of all changes as theirs does.
LEMMA OneUserMoves ==
    ASSUME TypeOK, TypeOK', NEW u \in User, \A v \in User \ {u} : cost'[v] = cost[v]
    PROVE  AnswersTotal' + UserTotal(u) = AnswersTotal + UserTotal(u)'
<1> DEFINE f == [v \in User |-> UserTotal(v)]
           g == [v \in User |-> UserTotal(v)']
<1>1. /\ \A v \in User : f[v] \in Nat /\ g[v] \in Nat
      /\ \A v \in User \ {u} : g[v] = f[v]
      /\ f[u] = UserTotal(u) /\ g[u] = UserTotal(u)'
  <2>1. TotalsAreNumbers /\ TotalsAreNumbers'
    BY TotalsType, PTL
  <2>2. \A v \in User \ {u} : UserTotal(v)' = UserTotal(v)
    BY DEF UserTotal, Tick
  <2> QED
    BY <2>1, <2>2 DEF TotalsAreNumbers
<1>2. AnswersTotal = Sum(f, User) /\ AnswersTotal' = Sum(g, User)
  BY DEF AnswersTotal
<1> HIDE DEF f, g
<1>3. Sum(f, User) = f[u] + Sum(f, User \ {u}) /\ Sum(g, User) = g[u] + Sum(g, User \ {u})
  BY <1>1, FiniteAssumption, SumSplit
<1>4. Sum(g, User \ {u}) = Sum(f, User \ {u}) /\ Sum(f, User \ {u}) \in Nat
  <2>1. IsFiniteSet(User \ {u})
    BY FiniteAssumption, FS_Subset
  <2> QED
    BY <1>1, <2>1, SumSame, SumType
<1> QED
  BY <1>1, <1>2, <1>3, <1>4

\* A first booking goes into both totals, in the row or among what is missing.
LEMMA BookingKeepsTotals ==
    ASSUME TypeOK, TypeOK', NEW s \in Stream, stream[s] \in Asking,
           NEW c \in 0..MaxCost, Pays(s, c), LedgersAgree
    PROVE  LedgersAgree'
<1>1. PICK u \in User, t \in Tick : u = stream[s].user /\ t = stream[s].created
  BY DEF Asking
<1>2. /\ c \in Nat /\ IsFiniteSet(Tick) /\ IsFiniteSet(0..DayOf(MaxTick)) /\ erased \in Nat
      /\ AnswersTotal \in Nat /\ UserTotal(u) \in Nat /\ PlatformTotal \in Nat
  BY TotalsType, BoundsAssumption DEF TypeOK, TotalsAreNumbers
<1>3. AnswersTotal \in Nat /\ AnswersTotal' \in Nat /\ PlatformTotal' \in Nat
  <2>1. (AnswersTotal \in Nat /\ PlatformTotal \in Nat)'
    BY TotalsType, PTL
  <2> QED
    BY <1>2, <2>1
<1>4. AnswersTotal + erased = PlatformTotal
  BY DEF LedgersAgree, AnswersTotal, UserTotal, PlatformTotal
<1>5. AnswersTotal' + erased' = AnswersTotal + erased + c
  <2>1. CASE u \in present
    <3>1. cost' = [cost EXCEPT ![u][t] = @ + c] /\ erased' = erased
      BY <1>1, <2>1 DEF Pays
    <3>2. /\ cost'[u][t] = cost[u][t] + c
          /\ \A x \in Tick \ {t} : cost'[u][x] = cost[u][x]
          /\ \A v \in User \ {u} : cost'[v] = cost[v]
      BY <3>1 DEF TypeOK
    <3>3. Sum(cost'[u], Tick) = Sum(cost[u], Tick) + c
      <4>1. \A x \in Tick : cost[u][x] \in Nat
        BY DEF TypeOK
      <4> QED
        BY <1>2, <3>2, <4>1, SumAddsOne
    <3>4. UserTotal(u)' = UserTotal(u) + c
      BY <3>3 DEF UserTotal, Tick
    <3>5. AnswersTotal' + UserTotal(u) = AnswersTotal + UserTotal(u)'
      BY <3>2, OneUserMoves
    <3> QED
      BY <1>2, <1>3, <3>1, <3>4, <3>5
  <2>2. CASE u \notin present
    <3>1. cost' = cost /\ erased' = erased + c
      BY <1>1, <2>2 DEF Pays
    <3>2. AnswersTotal' = AnswersTotal
      BY <3>1 DEF AnswersTotal, UserTotal, Tick
    <3> QED
      BY <1>2, <3>1, <3>2
  <2> QED
    BY <2>1, <2>2
<1>6. PlatformTotal' = PlatformTotal + c
  <2> DEFINE days == 0..DayOf(MaxTick)
  <2>1. DayOf(now) \in days /\ platform \in [days -> Nat] /\ platform' \in [days -> Nat]
    BY TodayIsADay DEF TypeOK
  <2>2. /\ \A d \in days : platform[d] \in Nat
        /\ \A d \in days \ {DayOf(now)} : platform'[d] = platform[d]
        /\ platform'[DayOf(now)] = platform[DayOf(now)] + c
    BY <2>1 DEF Pays
  <2>3. IsFiniteSet(days)
    BY <1>2
  <2> HIDE DEF days
  <2>4. Sum(platform', days) = Sum(platform, days) + c
    BY <1>2, <2>1, <2>2, <2>3, SumAddsOne
  <2> QED
    BY <2>1, <2>4 DEF PlatformTotal
<1>7. AnswersTotal' + erased' = PlatformTotal'
  BY <1>2, <1>4, <1>5, <1>6
<1> QED
  BY <1>7 DEF LedgersAgree, AnswersTotal, UserTotal, PlatformTotal

\* A removal moves a member's total from the rows to what is missing.
LEMMA RemovalKeepsTotals ==
    ASSUME TypeOK, TypeOK', NEW u \in User, RemoveUser(u), LedgersAgree
    PROVE  LedgersAgree'
<1>1. /\ cost' = [cost EXCEPT ![u] = [t \in Tick |-> 0]]
      /\ erased' = erased + UserTotal(u) /\ platform' = platform
  BY DEF RemoveUser, UserTotal
<1>2. UserTotal(u)' = 0
  <2>1. \A t \in Tick : cost'[u][t] = 0
    BY <1>1 DEF TypeOK
  <2>2. Sum(cost'[u], Tick) = 0
    BY <2>1, TotalsType, SumOfZeros
  <2> QED
    BY <2>2 DEF UserTotal, Tick
<1>3. AnswersTotal' + UserTotal(u) = AnswersTotal + UserTotal(u)'
  <2>1. \A v \in User \ {u} : cost'[v] = cost[v]
    BY <1>1 DEF TypeOK
  <2> QED
    BY <2>1, OneUserMoves
<1>4. (AnswersTotal \in Nat)'
  BY TotalsType, PTL
<1>5. AnswersTotal \in Nat /\ UserTotal(u) \in Nat /\ erased \in Nat
  BY TotalsType DEF TypeOK, TotalsAreNumbers
<1>6. AnswersTotal + erased = PlatformTotal
  BY DEF LedgersAgree, AnswersTotal, UserTotal, PlatformTotal
<1>7. PlatformTotal' = PlatformTotal
  BY <1>1 DEF PlatformTotal
<1>8. AnswersTotal' + erased' = PlatformTotal'
  BY <1>1, <1>2, <1>3, <1>4, <1>5, <1>6, <1>7
<1> QED
  BY <1>8 DEF LedgersAgree, AnswersTotal, UserTotal, PlatformTotal

\* The org's rows and the platform's days differ by exactly what the answers of
\* removed members cost, since no answer is ever booked a second time.
THEOREM LedgersAgreeAlways == Spec => []LedgersAgree
<1>1. ASSUME Init, TypeOK PROVE LedgersAgree
  <2>1. IsFiniteSet(Tick) /\ IsFiniteSet(0..DayOf(MaxTick))
    BY <1>1, TotalsType
  <2> DEFINE f == [u \in User |-> UserTotal(u)]
  <2>2. \A u \in User : \A t \in Tick : cost[u][t] = 0
    BY <1>1 DEF Init
  <2>3. \A u \in User : f[u] = 0
    BY <2>1, <2>2, SumOfZeros DEF UserTotal
  <2>4. Sum(f, User) = 0
    <3> HIDE DEF f
    <3> QED
      BY <2>3, FiniteAssumption, SumOfZeros
  <2>5. PlatformTotal = 0
    <3>1. DOMAIN platform = 0..DayOf(MaxTick) /\ \A d \in DOMAIN platform : platform[d] = 0
      BY <1>1 DEF Init
    <3> QED
      BY <2>1, <3>1, SumOfZeros DEF PlatformTotal
  <2>6. erased = 0
    BY <1>1 DEF Init
  <2>7. AnswersTotal + erased = PlatformTotal
    BY <2>4, <2>5, <2>6 DEF AnswersTotal
  <2> QED
    BY <2>7 DEF LedgersAgree, AnswersTotal, UserTotal, PlatformTotal
<1>2. ASSUME Sound, Sound', LedgersAgree, [Next]_vars PROVE LedgersAgree'
  <2>0. TypeOK /\ TypeOK'
    BY <1>2 DEF Sound
  <2>1. CASE UNCHANGED <<cost, platform, erased>>
    BY <1>2, <2>1 DEF LedgersAgree, Tick
  <2>2. CASE \E u \in User : RemoveUser(u)
    BY <1>2, <2>0, <2>2, RemovalKeepsTotals
  <2>3. ASSUME NEW s \in Stream, StreamStep(s) \/ \E u \in User : Arrive(s, u)
        PROVE  LedgersAgree'
    <3>1. Quiet(s) \/ Books(s)
      BY <1>2, <2>3, StreamMoves
    <3>2. CASE Quiet(s)
      BY <2>1, <3>2 DEF Quiet
    <3>3. CASE Books(s)
      BY <1>2, <2>0, <3>3, BookingKeepsTotals DEF Books
    <3> QED
      BY <3>1, <3>2, <3>3
  <2> QED
    BY <1>2, <2>1, <2>2, <2>3 DEF Next, TimePasses, vars
<1>3. Sound => TypeOK
  BY DEF Sound
<1> QED
  BY <1>1, <1>2, <1>3, Invariance, PTL DEF Spec
=============================================================================
