--------------------------- MODULE Access_proofs ----------------------------
(***************************************************************************)
(* Proofs about Access, and about Sessions as Access runs it: the types, the*)
(* sessions that outlive a change of the password, the end of the           *)
(* sessions of a removed account, and the justification of every read.      *)
(***************************************************************************)
EXTENDS Access, FiniteSetTheorems, TLAPS

USE DEF Idle, Goes, Answer, documents

\* A change under way has seen the session or is late for it, whichever it is.
AllAreSeenOrLate ==
    \A c \in Call : call[c].at = "revoking" => Sessions \subseteq call[c].seen \cup call[c].late

\* Why a read is justified: whoever reads is acting, an acting request has held all
\* that the account is now, and what it has read of that is among what it has held.
HeldIsKept ==
    \A c \in Call :
      /\ reading[c].at # "nothing" => call[c].at = "acting"
      /\ call[c].at = "acting" => Principals \subseteq held[c]
      /\ reading[c].at = "principals" => reading[c].of \subseteq held[c]

Inv == TypeOK /\ AllAreSeenOrLate /\ OthersAreOut /\ RemovedHasNoSession /\ HeldIsKept

-----------------------------------------------------------------------------
\* A count of documents is a number.
LEMMA CountIsNat ==
    ASSUME NEW S \in SUBSET Doc
    PROVE  Cardinality(S) \in Nat
BY AccessAssumption, FS_Subset, FS_CardinalityType

\* The initial state is well formed and satisfies the invariant.
LEMMA InitInv == Init => Inv
<1> SUFFICES ASSUME Init PROVE Inv
    OBVIOUS
<1> USE DEF Init, SessionsInit
<1>1. SessionsTypeOK
  BY SessionsAssumption DEF SessionsTypeOK, SessionRow, Unborn
<1>2. TypeOK
  BY <1>1 DEF TypeOK, Reading, NotReading
<1>3. AllAreSeenOrLate /\ OthersAreOut /\ RemovedHasNoSession
  BY DEF AllAreSeenOrLate, OthersAreOut, RemovedHasNoSession, Sessions, Unborn
<1>4. HeldIsKept
  BY DEF HeldIsKept, NotReading
<1>5. QED
  BY <1>2, <1>3, <1>4 DEF Inv

-----------------------------------------------------------------------------
(* The steps of Sessions.                                                   *)

\* What Sessions owns is preserved by every step on sessions, whatever Access does
\* in the same step.
SessionsInv == SessionsTypeOK /\ AllAreSeenOrLate /\ OthersAreOut /\ RemovedHasNoSession

\* The states of a request.
CallState ==
    {Idle} \cup [at : {"verified"}, password : 0..MaxChanges]
      \cup [at : {"acting", "changing"}, token : Token]
      \cup [at : {"revoking"}, token : Token, seen : SUBSET Token, late : SUBSET Token]

LEMMA WithoutIsTable ==
    ASSUME SessionsTypeOK, NEW S
    PROVE  /\ Without(S) \in [Token -> SessionRow]
           /\ \A t \in Token : Without(S)[t].is = "live" =>
                t \in Sessions /\ t \notin S /\ Without(S)[t] = session[t]
BY DEF Without, SessionsTypeOK, SessionRow, Sessions, Gone, Unborn

\* A step that leaves the changes and the sessions alone, and puts one request into
\* a state that is well formed: a change that starts has seen all the sessions.
LEMMA CallKeepsSessions ==
    ASSUME SessionsInv, NEW c \in Call, NEW to \in CallState, Goes(c, to),
           UNCHANGED <<changes, session>>, clock' \in 0..MaxClock,
           account' \in {"unborn", "there", "gone"}, account' = account \/ account = "unborn",
           to.at = "revoking" => to.seen = Sessions
    PROVE  SessionsInv'
<1> USE DEF SessionsInv, changes
<1>1. SessionsTypeOK'
  BY DEF SessionsTypeOK, SessionRow, Unborn, Gone, CallState
<1>2. Sessions' = Sessions
  BY DEF Sessions
<1>3. AllAreSeenOrLate'
  <2> SUFFICES ASSUME NEW d \in Call, call'[d].at = "revoking"
               PROVE  Sessions \subseteq call'[d].seen \cup call'[d].late
    BY <1>2 DEF AllAreSeenOrLate
  <2>1. CASE d = c
    BY <2>1 DEF SessionsTypeOK, CallState
  <2>2. CASE d # c
    BY <2>2 DEF SessionsTypeOK, AllAreSeenOrLate
  <2> QED
    BY <2>1, <2>2
<1>4. OthersAreOut' /\ RemovedHasNoSession'
  BY <1>2 DEF OthersAreOut, RemovedHasNoSession
<1>5. QED
  BY <1>1, <1>3, <1>4

LEMMA RequestKeepsSessions ==
    ASSUME SessionsInv, NEW c \in Call,
           \/ Signup(c) \/ Authenticate(c) \/ VerifyCurrent(c) \/ ReplaceAndRevoke(c)
           \/ Finish(c) \/ \E t \in Token : Resolve(c, t)
    PROVE  SessionsInv'
<1> USE DEF SessionsInv, SessionsTypeOK, CallState
<1>1. CASE Signup(c) \/ Authenticate(c)
  <2> DEFINE to == [at |-> "verified", password |-> password]
  <2>1. to \in CallState /\ to.at # "revoking"
    OBVIOUS
  <2>2. /\ Goes(c, to) /\ UNCHANGED <<changes, session>> /\ clock' = clock
        /\ account' \in {"unborn", "there", "gone"}
        /\ account' = account \/ account = "unborn"
        /\ clock' \in 0..MaxClock
    BY <1>1 DEF Signup, Authenticate
  <2> HIDE DEF to, CallState, SessionsInv, SessionsTypeOK
  <2> QED
    BY <2>1, <2>2, CallKeepsSessions
<1>2. CASE VerifyCurrent(c)
  <2> DEFINE to == [at |-> "changing", token |-> call[c].token]
  <2>1. to \in CallState /\ to.at # "revoking"
    BY <1>2 DEF VerifyCurrent
  <2>2. /\ Goes(c, to) /\ UNCHANGED <<account, changes, session>>
        /\ clock' \in 0..MaxClock /\ account' \in {"unborn", "there", "gone"}
    BY <1>2 DEF VerifyCurrent
  <2> HIDE DEF to, CallState, SessionsInv, SessionsTypeOK
  <2> QED
    BY <2>1, <2>2, CallKeepsSessions
<1>3. CASE ReplaceAndRevoke(c)
  <2>1. call[c].token \in Token /\ Sessions \in SUBSET Token
    BY <1>3 DEF ReplaceAndRevoke, Sessions
  <2> DEFINE to == [at |-> "revoking", token |-> call[c].token, seen |-> Sessions,
                    late |-> {}]
  <2>2. to \in CallState /\ to.seen = Sessions
    BY <2>1
  <2>3. Goes(c, to) /\ UNCHANGED <<clock, account, changes, session>>
    BY <1>3 DEF ReplaceAndRevoke
  <2> HIDE DEF to, CallState
  <2> QED
    BY <2>2, <2>3, CallKeepsSessions
<1>4. CASE Finish(c)
  BY <1>4, CallKeepsSessions DEF Finish
<1>5. CASE \E t \in Token : Resolve(c, t)
  BY <1>5, CallKeepsSessions DEF Resolve
<1>6. QED
  BY <1>1, <1>2, <1>3, <1>4, <1>5

\* Sessions that go leave no other session in another state.
LEMMA LossKeepsSessions ==
    ASSUME SessionsInv, NEW S, session' = Without(S), UNCHANGED <<clock, changes, call>>,
           account' = account \/ (account' = "gone" /\ S = Token)
    PROVE  SessionsInv'
<1> USE DEF SessionsInv, changes
<1>1. /\ session' \in [Token -> SessionRow]
      /\ \A t \in Token :
           session'[t].is = "live" => t \in Sessions /\ t \notin S /\ session'[t] = session[t]
  BY WithoutIsTable
<1>2. SessionsTypeOK'
  BY <1>1 DEF SessionsTypeOK, SessionRow
<1>3. Sessions' \subseteq Sessions /\ \A t \in Sessions' : t \notin S /\ session'[t] = session[t]
  BY <1>1 DEF Sessions
<1>4. AllAreSeenOrLate'
  BY <1>3 DEF AllAreSeenOrLate
<1>5. OthersAreOut'
  BY <1>3 DEF OthersAreOut
<1>6. RemovedHasNoSession'
  BY <1>3 DEF RemovedHasNoSession, Sessions
<1>7. QED
  BY <1>2, <1>4, <1>5, <1>6

LEMMA CreateKeepsSessions ==
    ASSUME SessionsInv, NEW c \in Call, NEW t \in Token, CreateSession(c, t)
    PROVE  SessionsInv'
<1> DEFINE new == [is |-> "live", password |-> call[c].password, born |-> password,
                   expires |-> clock + Ttl]
<1> USE DEF SessionsInv, CreateSession, Insert, changes
<1>1. new \in [is : {"live"}, password : 0..MaxChanges, born : 0..MaxChanges,
               expires : 0..(MaxClock + Ttl)]
  BY SessionsAssumption DEF SessionsTypeOK
<1>2. new.is = "live" /\ new.born = password /\ password \in Nat
  BY SessionsAssumption DEF SessionsTypeOK
<1>3. session' = [session EXCEPT ![t] = new] /\ UNCHANGED <<clock, account, changes>>
  OBVIOUS
<1>4. \A d \in Call :
        call'[d] = IF d = c THEN Idle
                   ELSE IF call[d].at = "revoking" THEN [call[d] EXCEPT !.late = @ \cup {t}]
                   ELSE call[d]
  OBVIOUS
<1> HIDE DEF new
<1>5. call' \in [Call -> CallState]
  <2> SUFFICES ASSUME NEW d \in Call PROVE call'[d] \in CallState
    OBVIOUS
  <2>1. call[d] \in CallState
    BY DEF SessionsTypeOK, CallState
  <2>2. CASE d # c /\ call[d].at = "revoking"
    <3>1. call[d] \in [at : {"revoking"}, token : Token, seen : SUBSET Token,
                       late : SUBSET Token]
      BY <2>1, <2>2 DEF CallState
    <3>2. [call[d] EXCEPT !.late = @ \cup {t}]
            \in [at : {"revoking"}, token : Token, seen : SUBSET Token, late : SUBSET Token]
      BY <3>1
    <3> QED
      BY <1>4, <2>2, <3>2 DEF CallState
  <2>3. CASE d = c \/ call[d].at # "revoking"
    BY <1>4, <2>1, <2>3 DEF CallState
  <2> QED
    BY <2>2, <2>3
<1>6. SessionsTypeOK'
  <2>1. session' \in [Token -> SessionRow]
    BY <1>1, <1>3 DEF SessionsTypeOK, SessionRow
  <2>2. SessionRow' = SessionRow
    BY DEF SessionRow, Unborn, Gone
  <2> HIDE DEF SessionRow
  <2> QED
    BY <1>3, <1>5, <2>1, <2>2 DEF SessionsTypeOK, CallState
<1>7. /\ Sessions' = Sessions \cup {t}
      /\ \A u \in Sessions' : u # t => session'[u] = session[u]
      /\ session'[t] = new
  BY <1>2, <1>3 DEF SessionsTypeOK, Sessions
<1>8. AllAreSeenOrLate'
  <2> SUFFICES ASSUME NEW d \in Call, call'[d].at = "revoking"
               PROVE  Sessions' \subseteq call'[d].seen \cup call'[d].late
    BY DEF AllAreSeenOrLate
  <2>1. d # c /\ call[d].at = "revoking"
    BY <1>4 DEF SessionsTypeOK
  <2>2. call'[d].seen = call[d].seen /\ call'[d].late = call[d].late \cup {t}
    BY <1>4, <2>1 DEF SessionsTypeOK
  <2>3. Sessions \subseteq call[d].seen \cup call[d].late
    BY <2>1 DEF AllAreSeenOrLate
  <2> QED
    BY <1>7, <2>2, <2>3
<1>9. OthersAreOut'
  <2>1. ASSUME NEW u \in Sessions', session'[u].born < password PROVE u \in kept \cup late
    <3>1. u # t
      BY <1>2, <1>7, <2>1
    <3> QED
      BY <1>7, <2>1, <3>1 DEF OthersAreOut
  <2> QED
    BY <1>3, <2>1 DEF OthersAreOut
<1>10. RemovedHasNoSession'
  BY DEF RemovedHasNoSession
<1>11. QED
  BY <1>6, <1>8, <1>9, <1>10

\* A change leaves of the sessions it has seen the caller's, and of the others those
\* that are late.
LEMMA CommitKeepsSessions ==
    ASSUME SessionsInv, NEW c \in Call, CommitChange(c)
    PROVE  SessionsInv'
<1> DEFINE S == call[c].seen \ {call[c].token}
<1> USE DEF SessionsInv, CommitChange, NewPassword
<1>1. /\ session' \in [Token -> SessionRow]
      /\ \A t \in Token :
           session'[t].is = "live" => t \in Sessions /\ t \notin S /\ session'[t] = session[t]
  BY WithoutIsTable
<1>2. /\ call[c].token \in Token /\ call[c].late \in SUBSET Token
      /\ Sessions \subseteq call[c].seen \cup call[c].late
  BY DEF SessionsTypeOK, AllAreSeenOrLate
<1>3. SessionsTypeOK'
  <2>1. password' \in 0..MaxChanges
    BY SessionsAssumption DEF SessionsTypeOK
  <2>2. call' \in [Call -> CallState]
    BY DEF SessionsTypeOK, CallState
  <2>3. session' \in [Token -> SessionRow']
    BY <1>1 DEF SessionRow, Unborn, Gone
  <2> QED
    BY <1>2, <2>1, <2>2, <2>3 DEF SessionsTypeOK, CallState
<1>4. Sessions' \subseteq Sessions \ S
  BY <1>1 DEF Sessions
<1>5. AllAreSeenOrLate'
  <2> SUFFICES ASSUME NEW d \in Call, call'[d].at = "revoking"
               PROVE  Sessions' \subseteq call'[d].seen \cup call'[d].late
    BY DEF AllAreSeenOrLate
  <2>1. call[d].at = "revoking" /\ call'[d] = call[d]
    BY DEF SessionsTypeOK
  <2> QED
    BY <1>4, <2>1 DEF AllAreSeenOrLate
<1>6. OthersAreOut'
  BY <1>2, <1>4 DEF OthersAreOut
<1>7. RemovedHasNoSession'
  BY <1>4 DEF RemovedHasNoSession
<1>8. QED
  BY <1>3, <1>5, <1>6, <1>7

\* Every step of the account keeps what Sessions promises.
LEMMA AccountKeepsSessions ==
    ASSUME SessionsInv,
           \/ Session \/ Remove \/ UNCHANGED sessionVars
           \/ \E c \in Call : Leave(c) \/ \E t \in Token : Arrive(c, t)
    PROVE  SessionsInv'
<1>1. CASE Session
  <2>1. ASSUME NEW c \in Call,
               \/ Signup(c) \/ Authenticate(c) \/ VerifyCurrent(c) \/ ReplaceAndRevoke(c)
        PROVE  SessionsInv'
    BY <2>1, RequestKeepsSessions
  <2>2. ASSUME NEW c \in Call, CommitChange(c) PROVE SessionsInv'
    BY <2>2, CommitKeepsSessions
  <2>3. ASSUME NEW c \in Call, NEW t \in Token, CreateSession(c, t) PROVE SessionsInv'
    BY <2>3, CreateKeepsSessions
  <2>4. CASE Purge \/ \E t \in Token : Logout(t)
    BY <2>4, LossKeepsSessions DEF Purge, Logout
  <2>5. CASE TimePasses
    BY <2>5, SessionsAssumption
       DEF TimePasses, SessionsInv, SessionsTypeOK, SessionRow, AllAreSeenOrLate,
           OthersAreOut, RemovedHasNoSession, Sessions, changes
  <2> QED
    BY <1>1, <2>1, <2>2, <2>3, <2>4, <2>5 DEF Session
<1>2. CASE Remove
  BY <1>2, LossKeepsSessions DEF Remove, RemoveAccount
<1>3. CASE UNCHANGED sessionVars
  BY <1>3
     DEF sessionVars, SessionsInv, SessionsTypeOK, AllAreSeenOrLate, OthersAreOut,
         RemovedHasNoSession, Sessions
<1>4. CASE \E c \in Call : Leave(c) \/ \E t \in Token : Arrive(c, t)
  BY <1>4, RequestKeepsSessions DEF Leave, Arrive
<1>5. QED
  BY <1>1, <1>2, <1>3, <1>4

-----------------------------------------------------------------------------
(* The steps of Access.                                                     *)

LEMMA StepTyped == TypeOK /\ SessionsTypeOK' /\ [Next]_vars => TypeOK'
<1> SUFFICES ASSUME TypeOK, SessionsTypeOK', [Next]_vars PROVE TypeOK'
    OBVIOUS
<1> USE DEF TypeOK
<1>0. CASE UNCHANGED vars
  BY <1>0 DEF vars, accessVars
<1>1. CASE Session
  BY <1>1 DEF Session
<1>2. CASE Remove
  BY <1>2 DEF Remove
<1>3. ASSUME NEW c \in Call, NEW t \in Token, Arrive(c, t) PROVE TypeOK'
  BY <1>3 DEF Arrive, Principals, Principal
<1>4. ASSUME NEW c \in Call, ReadPrincipals(c) \/ Leave(c) PROVE TypeOK'
  BY <1>4 DEF ReadPrincipals, Leave, Reads, Reading, NotReading, Principals, Principal
<1>5. ASSUME NEW c \in Call, Search(c) \/ \E d \in Doc : GetDocument(c, d) PROVE TypeOK'
  BY <1>5 DEF Search, GetDocument, Reads, Reading
<1>6. ASSUME NEW c \in Call, CountOrg(c) PROVE TypeOK'
  <2>1. Cardinality({d \in Doc : doc[d] = "ingested"}) \in Nat
    BY CountIsNat
  <2>2. reading[c].of \in SUBSET Principal
    BY <1>6 DEF CountOrg, Reading, NotReading
  <2> QED
    BY <1>6, <2>1, <2>2 DEF CountOrg, Reads, Reading
<1>7. ASSUME NEW c \in Call, CountAllowed(c) PROVE TypeOK'
  BY <1>7 DEF CountAllowed, Reads, Reading
<1>8. ASSUME NEW g \in Group, JoinGroup(g) \/ LeaveGroup(g) PROVE TypeOK'
  BY <1>8 DEF JoinGroup, LeaveGroup, Principal
<1>9. ASSUME NEW d \in Doc,
             \/ \E a \in Acl : Upload(d, a) \/ UpdateAcl(d, a)
             \/ Embed(d) \/ Ingest(d) \/ Delete(d)
      PROVE  TypeOK'
  BY <1>9, AccessAssumption DEF Upload, UpdateAcl, Embed, Ingest, Delete
<1>10. QED
  BY <1>0, <1>1, <1>2, <1>3, <1>4, <1>5, <1>6, <1>7, <1>8, <1>9 DEF Next

LEMMA StepKeepsHeld == TypeOK /\ HeldIsKept /\ [Next]_vars => HeldIsKept'
<1> SUFFICES ASSUME TypeOK, HeldIsKept, [Next]_vars PROVE HeldIsKept'
    OBVIOUS
<1>a. /\ call = [c \in Call |-> call[c]]
      /\ reading = [c \in Call |-> reading[c]]
      /\ held = [c \in Call |-> held[c]]
  BY DEF TypeOK, SessionsTypeOK
<1>b. mine \subseteq Group
  BY DEF TypeOK
<1> USE <1>a, <1>b DEF HeldIsKept
<1>0. CASE UNCHANGED vars
  BY <1>0 DEF vars, accessVars, sessionVars, Principals
<1>1. CASE Session
  <2> DEFINE Steady == \A c \in Call :
               \/ call'[c] = call[c]
               \/ call'[c].at # "acting" /\ reading[c].at = "nothing"
  <2>1. ASSUME NEW d \in Call, Signup(d) \/ Authenticate(d) PROVE Steady
    BY <2>1 DEF Signup, Authenticate
  <2>2. ASSUME NEW d \in Call,
               \/ VerifyCurrent(d) /\ reading[d].at = "nothing"
               \/ ReplaceAndRevoke(d)
        PROVE  Steady
    BY <2>2 DEF VerifyCurrent, ReplaceAndRevoke
  <2>3. ASSUME NEW d \in Call, CommitChange(d) \/ \E t \in Token : CreateSession(d, t)
        PROVE  Steady
    <3>1. CASE CommitChange(d)
      BY <3>1 DEF CommitChange
    <3>2. ASSUME NEW t \in Token, CreateSession(d, t) PROVE Steady
      <4>1. call[d].at = "verified" /\ Insert(d, t)
        BY <3>2 DEF CreateSession
      <4>2. reading[d].at = "nothing"
        BY <4>1
      <4>3. ASSUME NEW c \in Call
            PROVE  \/ call'[c] = call[c]
                   \/ call'[c].at # "acting" /\ reading[c].at = "nothing"
        <5>1. CASE c = d
          BY <4>1, <4>2, <5>1 DEF Insert
        <5>2. CASE c # d /\ call[c].at = "revoking"
          <6>1. call'[c] = [call[c] EXCEPT !.late = @ \cup {t}]
            BY <4>1, <5>2 DEF Insert
          <6>2. call[c] \in [at : {"revoking"}, token : Token, seen : SUBSET Token,
                             late : SUBSET Token]
            BY <5>2 DEF TypeOK, SessionsTypeOK
          <6>3. call'[c].at = "revoking"
            BY <6>1, <6>2
          <6> QED
            BY <5>2, <6>3
        <5>3. CASE c # d /\ call[c].at # "revoking"
          BY <4>1, <5>3 DEF Insert
        <5> QED
          BY <5>1, <5>2, <5>3
      <4> QED
        BY <4>3
    <3> QED
      BY <2>3, <3>1, <3>2
  <2>4. ASSUME Purge \/ TimePasses \/ \E t \in Token : Logout(t) PROVE Steady
    BY <2>4 DEF Purge, TimePasses, Logout
  <2>5. Steady
    BY <1>1, <2>1, <2>2, <2>3, <2>4 DEF Session
  <2>6. /\ held' = [c \in Call |-> IF call'[c].at = "idle" THEN {} ELSE held[c]]
        /\ UNCHANGED <<mine, acl, doc, reading>>
    BY <1>1 DEF Session
  <2> QED
    BY <2>5, <2>6 DEF Principals
<1>2. CASE Remove
  BY <1>2 DEF Remove, RemoveAccount, Principals
<1>3. ASSUME NEW c \in Call, NEW t \in Token, Arrive(c, t) PROVE HeldIsKept'
  BY <1>3 DEF Arrive, Resolve, Principals
<1>4. ASSUME NEW c \in Call, Leave(c) PROVE HeldIsKept'
  BY <1>4 DEF Leave, Finish, Reads, NotReading, Principals
<1>5. ASSUME NEW c \in Call, ReadPrincipals(c) PROVE HeldIsKept'
  BY <1>5 DEF ReadPrincipals, sessionVars, Reads, Principals
<1>6. ASSUME NEW c \in Call,
             \/ Search(c) \/ CountOrg(c) \/ CountAllowed(c)
             \/ \E d \in Doc : GetDocument(c, d)
      PROVE  HeldIsKept'
  BY <1>6
     DEF Search, GetDocument, CountOrg, CountAllowed, sessionVars, Reads, NotReading,
         Principals
<1>7. ASSUME NEW g \in Group, JoinGroup(g) \/ LeaveGroup(g) PROVE HeldIsKept'
  BY <1>7 DEF JoinGroup, LeaveGroup, sessionVars, Principals
<1>8. ASSUME NEW d \in Doc,
             \/ \E a \in Acl : Upload(d, a) \/ UpdateAcl(d, a)
             \/ Embed(d) \/ Ingest(d) \/ Delete(d)
      PROVE  HeldIsKept'
  BY <1>8 DEF Upload, UpdateAcl, Embed, Ingest, Delete, sessionVars, Principals
<1>9. QED
  BY <1>0, <1>1, <1>2, <1>3, <1>4, <1>5, <1>6, <1>7, <1>8 DEF Next

LEMMA StepInv == Inv /\ [Next]_vars => Inv'
<1> SUFFICES ASSUME Inv, [Next]_vars PROVE Inv'
    OBVIOUS
<1>1. SessionsInv'
  <2>1. \/ Session \/ Remove \/ UNCHANGED sessionVars
        \/ \E c \in Call : Leave(c) \/ \E t \in Token : Arrive(c, t)
    BY DEF Next, vars, ReadPrincipals, Search, GetDocument, CountOrg, CountAllowed,
           JoinGroup, LeaveGroup, Upload, Embed, Ingest, UpdateAcl, Delete
  <2> QED
    BY <2>1, AccountKeepsSessions DEF Inv, TypeOK, SessionsInv
<1>2. TypeOK'
  BY <1>1, StepTyped DEF Inv, SessionsInv
<1>3. HeldIsKept'
  BY StepKeepsHeld DEF Inv
<1>4. QED
  BY <1>1, <1>2, <1>3 DEF Inv, SessionsInv

LEMMA Invariance == Spec => []Inv
BY InitInv, StepInv, PTL DEF Spec

-----------------------------------------------------------------------------
(* Theorems.                                                                *)

\* The tables and the requests are well formed, for any calls, tokens and documents.
THEOREM TypeCorrect == Spec => []TypeOK
BY Invariance, PTL DEF Inv

\* change_password: of the sessions inserted under an earlier password only the caller's
\* is live, and those inserted after the last change's delete had looked.
THEOREM RevocationHolds == Spec => []OthersAreOut
BY Invariance, PTL DEF Inv

\* A removed account has no session.
THEOREM RemovalEndsSessions == Spec => []RemovedHasNoSession
BY Invariance, PTL DEF Inv

\* search and get_document: a request shows only what was open to a principal that
\* the account has held while the request was served.
THEOREM ReadsJustified == Spec => ReadsAreJustified
<1> DEFINE Justified == \A c \in Call : reading'[c] # reading[c] /\ reading'[c].at = "read" =>
                 \A d \in reading'[c].docs : doc[d] = "ingested" /\ copy[d] \cap held[c] # {}
<1>1. ASSUME TypeOK, HeldIsKept, [Next]_vars PROVE [Justified]_vars
  <2>a. reading = [c \in Call |-> reading[c]]
    BY <1>1 DEF TypeOK
  <2>1. ASSUME NEW c \in Call, Search(c) \/ \E d \in Doc : GetDocument(c, d) PROVE Justified
    <3>1. \A b \in Call \ {c} : reading'[b] = reading[b]
      BY <2>1, <2>a DEF Search, GetDocument, Reads
    <3>2. \A d \in reading'[c].docs : Allowed(d, reading[c].of)
      BY <2>1, <2>a DEF Search, GetDocument, Reads
    <3>3. reading[c].of \subseteq held[c]
      BY <1>1, <2>1 DEF Search, GetDocument, HeldIsKept
    <3> QED
      BY <3>1, <3>2, <3>3 DEF Allowed
  <2>2. ASSUME NEW c \in Call,
               ReadPrincipals(c) \/ CountOrg(c) \/ CountAllowed(c) \/ Leave(c)
        PROVE  Justified
    <3>1. \A b \in Call : reading'[b] = reading[b] \/ reading'[b].at # "read"
      BY <2>2, <2>a DEF ReadPrincipals, CountOrg, CountAllowed, Leave, Reads, NotReading
    <3> QED
      BY <3>1
  <2>3. CASE UNCHANGED reading
    BY <2>3
  <2>4. QED
    BY <1>1, <2>1, <2>2, <2>3
       DEF Next, Session, Remove, Arrive, JoinGroup, LeaveGroup, Upload, UpdateAcl, Embed,
           Ingest, Delete, vars, accessVars
<1>2. QED
  BY <1>1, Invariance, PTL DEF Inv, Spec, ReadsAreJustified
=============================================================================
