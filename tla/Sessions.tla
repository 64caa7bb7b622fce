------------------------------ MODULE Sessions ------------------------------
(***************************************************************************)
(* One account's password and its sessions: accounts.authenticate,          *)
(* create_session, resolve_session, delete_session, change_password and     *)
(* purge_expired_sessions, with the routes and the dependencies in front.   *)
(*                                                                          *)
(* A login reads the password in one transaction and inserts its session in *)
(* another; change_password is one transaction under READ COMMITTED, whose  *)
(* update holds the user's row and whose delete removes the sessions it sees*)
(* at that moment.  Every password is new, so the number of changes names   *)
(* the current one.  `kept` and `late` are histories, in the variables, in  *)
(* a change under way (`late`) and in a session's row (`password`, `born`). *)
(***************************************************************************)
EXTENDS Naturals

CONSTANTS
    Token,      \* the rows of sessions, by token: secrets never repeats one
    Call,       \* the requests that can be served at the same time
    Ttl,        \* settings.session_ttl_hours
    MaxClock,   \* bound: the clock stops there
    MaxChanges  \* bound: password changes

ASSUME SessionsAssumption ==
    Ttl \in Nat \ {0} /\ MaxClock \in Nat /\ MaxChanges \in Nat

VARIABLES
    clock,      \* the time, in hours
    account,    \* the user's row, with the membership that goes with it
    password,   \* how often it was changed
    kept,       \* the session that asked for the last change, if there was one
    late,       \* the sessions inserted between that change's delete and its commit
    session,    \* the sessions' rows
    call        \* where each request stands

sessionVars == <<clock, account, password, kept, late, session, call>>
changes == <<password, kept, late>>

Unborn == [is |-> "unborn"]
Gone == [is |-> "gone"]
Sessions == {t \in Token : session[t].is = "live"}
Live(t) == t \in Sessions /\ clock < session[t].expires

Idle == [at |-> "idle"]
Goes(c, to) == call' = [call EXCEPT ![c] = to]
Answer(c) == Goes(c, Idle)

\* The session table without the tokens of ts.
Without(ts) == [t \in Token |-> IF t \in ts /\ t \in Sessions THEN Gone ELSE session[t]]

SessionsInit ==
    /\ clock = 0
    /\ account = "unborn"
    /\ password = 0 /\ kept = {} /\ late = {}
    /\ session = [t \in Token |-> Unborn]
    /\ call = [c \in Call |-> Idle]

-----------------------------------------------------------------------------
\* signup: create_org_with_owner, and the session is still to be made.
Signup(c) ==
    /\ call[c].at = "idle"
    /\ account = "unborn"
    /\ account' = "there"
    /\ Goes(c, [at |-> "verified", password |-> password])
    /\ UNCHANGED <<clock, changes, session>>

\* authenticate, with the right password and a membership.
Authenticate(c) ==
    /\ call[c].at = "idle"
    /\ account = "there"
    /\ Goes(c, [at |-> "verified", password |-> password])
    /\ UNCHANGED <<clock, account, changes, session>>

\* A session is inserted: a change that has looked at the table will not see it.
Insert(c, t) ==
    /\ session[t] = Unborn
    /\ session' = [session EXCEPT ![t] =
         [is |-> "live", password |-> call[c].password, born |-> password,
          expires |-> clock + Ttl]]
    /\ call' = [d \in Call |->
         IF d = c THEN Idle
         ELSE IF call[d].at = "revoking" THEN [call[d] EXCEPT !.late = @ \cup {t}]
         ELSE call[d]]

\* Mutant: no foreign key to the user.
CreateSessionAnyway(c, t) ==
    /\ call[c].at = "verified"
    /\ Insert(c, t)
    /\ UNCHANGED <<clock, account, changes>>

\* create_session: the row refers to the user's, and to nothing of the password.
CreateSession(c, t) ==
    /\ call[c].at = "verified"
    /\ account = "there"
    /\ Insert(c, t)
    /\ UNCHANGED <<clock, account, changes>>

\* current_ctx: the request acts for the account from here on.
Resolve(c, t) ==
    /\ call[c].at = "idle"
    /\ Live(t)
    /\ Goes(c, [at |-> "acting", token |-> t])
    /\ UNCHANGED <<clock, account, changes, session>>

\* logout takes any bearer token: delete_session does not resolve it.
Logout(t) ==
    /\ t \in Sessions
    /\ session' = Without({t})
    /\ UNCHANGED <<clock, account, changes, call>>

\* change_password has read the hash, and the current password is right; ...
VerifyCurrent(c) ==
    /\ call[c].at = "acting"
    /\ account = "there"
    /\ Goes(c, [at |-> "changing", token |-> call[c].token])
    /\ UNCHANGED <<clock, account, changes, session>>

\* ... the update waits for the user's row, and the delete looks at the table; ...
ReplaceAndRevoke(c) ==
    /\ call[c].at = "changing"
    /\ account = "there"
    /\ \A d \in Call : call[d].at # "revoking"
    /\ Goes(c, [at |-> "revoking", token |-> call[c].token, seen |-> Sessions,
                late |-> {}])
    /\ UNCHANGED <<clock, account, changes, session>>

NewPassword(c) ==
    /\ password < MaxChanges
    /\ password' = password + 1
    /\ kept' = {call[c].token}
    /\ late' = call[c].late

\* Mutant: the hash is committed on its own, and the revocation is lost.
CommitHashAlone(c) ==
    /\ call[c].at = "revoking"
    /\ NewPassword(c)
    /\ Answer(c)
    /\ UNCHANGED <<clock, account, session>>

\* ... and the commit makes both true at once.
CommitChange(c) ==
    /\ call[c].at = "revoking"
    /\ NewPassword(c)
    /\ session' = Without(call[c].seen \ {call[c].token})
    /\ Answer(c)
    /\ UNCHANGED <<clock, account>>

\* The account is removed from its org: the user's row goes, and its sessions by
\* the foreign key.  A change under way holds the row.
RemoveAccount ==
    /\ account = "there"
    /\ \A c \in Call : call[c].at # "revoking"
    /\ account' = "gone"
    /\ session' = Without(Token)
    /\ UNCHANGED <<clock, changes, call>>

\* purge_expired_sessions.
Purge ==
    /\ \E t \in Sessions : session[t].expires <= clock
    /\ session' = Without({t \in Sessions : session[t].expires <= clock})
    /\ UNCHANGED <<clock, account, changes, call>>

\* The request is answered or refused, or its process dies: what its transaction
\* did is rolled back.
Finish(c) ==
    /\ call[c].at # "idle"
    /\ Answer(c)
    /\ UNCHANGED <<clock, account, changes, session>>

TimePasses ==
    /\ clock < MaxClock
    /\ clock' = clock + 1
    /\ UNCHANGED <<account, changes, session, call>>

SessionsStep ==
    \/ \E c \in Call :
         \/ Signup(c) \/ Authenticate(c)
         \/ VerifyCurrent(c) \/ ReplaceAndRevoke(c) \/ CommitChange(c)
         \/ \E t \in Token : CreateSession(c, t)
    \/ \E t \in Token : Logout(t)
    \/ RemoveAccount \/ Purge \/ TimePasses

-----------------------------------------------------------------------------
(* Properties.                                                              *)

SessionRow ==
    {Unborn, Gone} \cup
    [is : {"live"}, password : 0..MaxChanges, born : 0..MaxChanges,
     expires : 0..(MaxClock + Ttl)]

SessionsTypeOK ==
    /\ clock \in 0..MaxClock
    /\ account \in {"unborn", "there", "gone"}
    /\ password \in 0..MaxChanges
    /\ kept \in SUBSET Token /\ late \in SUBSET Token
    /\ session \in [Token -> SessionRow]
    /\ call \in [Call ->
         {Idle} \cup [at : {"verified"}, password : 0..MaxChanges]
           \cup [at : {"acting", "changing"}, token : Token]
           \cup [at : {"revoking"}, token : Token, seen : SUBSET Token, late : SUBSET Token]]

\* change_password: "Every other session for the user is revoked".  Of the sessions
\* inserted under an earlier password none is live but the one that asked for the
\* last change, and those that a login inserted after that change's delete had looked,
\* whichever changes overlapped, were rolled back or asked for by a session that
\* another change had revoked by then.
OthersAreOut ==
    \A t \in Sessions : session[t].born < password => t \in kept \cup late

\* A removed account has no session, and none is made for it by a login that had
\* already passed.
RemovedHasNoSession == account # "there" => Sessions = {}

-----------------------------------------------------------------------------
(* What the documentation says and the code does not keep.                  *)

\* change_password: "Every other session for the user is revoked, because the usual
\* reason to change a password is that someone else might know it."
OldPasswordIsOut ==
    \A t \in Sessions : session[t].password < password => t \in kept

\* change_password: "The caller's own session survives, so changing it does not log
\* you out of the tab you are in."
CallerStaysIn ==
    [][\A c \in Call :
         call[c].at = "changing" /\ call[c].token \in Sessions /\ password' # password =>
            session'[call[c].token].is = "live"]_sessionVars
=============================================================================
