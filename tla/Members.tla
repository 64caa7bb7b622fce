------------------------------ MODULE Members ------------------------------
(***************************************************************************)
(* The members and the groups of one org, from its signup to its deletion:  *)
(* accounts.create_org_with_owner, add_member, delete_org and               *)
(* purge_stranded_users, and the membership half of tenancy.TenantScope.    *)
(*                                                                          *)
(* A request is authorised by the role its session had when it arrived; what*)
(* it does comes later, statement by statement, under READ COMMITTED.  The  *)
(* API gives each user one membership, so a user is of this org or of none. *)
(***************************************************************************)
EXTENDS Naturals, FiniteSets

CONSTANTS
    User,       \* the rows of users, by id: an id is never used again
    Group,      \* the rows of groups, likewise
    Request,    \* the requests that can be served at the same time
    NoRole      \* no membership

VARIABLES
    org,        \* the org's row
    user,       \* the users' rows
    role,       \* memberships, by user
    group,      \* the groups' rows
    grouped,    \* group_members
    request     \* where each request stands

vars == <<org, user, role, group, grouped, request>>

Row == {"unborn", "there", "gone"}
Role == {"owner", "admin", "member"}

\* auth.role_at_least.
AtLeast(held, minimum) ==
    \/ minimum = "member"
    \/ minimum = "admin" /\ held # "member"
    \/ held = "owner"

ASSUME NoRoleAssumption == NoRole \notin Role

\* The requests that have been authorised and have read what they will change:
\* `by` and `as` are the caller and the caller's role.
Idle == [at |-> "idle"]
Arrived == [at : {"arrived"}, by : User, as : Role]
Changing ==
    [at : {"counting", "writing"}, by : User, as : Role, target : User, to : Role \cup {NoRole}]
Joining == [at : {"joining"}, by : User, as : Role, target : User, group : Group]
Deleting == [at : {"deleting"}, by : User, as : Role, members : SUBSET User]

Members == {u \in User : role[u] # NoRole}
Owners == {u \in User : role[u] = "owner"}

-----------------------------------------------------------------------------
Init ==
    /\ org = "unborn"
    /\ user = [u \in User |-> "unborn"]
    /\ role = [u \in User |-> NoRole]
    /\ group = [g \in Group |-> "unborn"]
    /\ grouped = {}
    /\ request = [r \in Request |-> Idle]

Answer(r) == request' = [request EXCEPT ![r] = Idle]

\* A user and their membership are inserted in one transaction.
Join(u, p) ==
    /\ user[u] = "unborn"
    /\ user' = [user EXCEPT ![u] = "there"]
    /\ role' = [role EXCEPT ![u] = p]

\* create_org_with_owner.
Signup(u) ==
    /\ org = "unborn"
    /\ org' = "there"
    /\ Join(u, "owner")
    /\ UNCHANGED <<group, grouped, request>>

\* resolve_session: a session acts through its user's membership.
Arrive(r, u) ==
    /\ request[r].at = "idle"
    /\ u \in Members
    /\ request' = [request EXCEPT ![r] = [at |-> "arrived", by |-> u, as |-> role[u]]]
    /\ UNCHANGED <<org, user, role, group, grouped>>

\* require_role.
Authorised(r, minimum) == request[r].at = "arrived" /\ AtLeast(request[r].as, minimum)

\* Mutant: the rank of the caller is not compared.
CanGrantAny(r, p) == Authorised(r, "admin")

\* require_can_grant.
CanGrant(r, p) == Authorised(r, "admin") /\ AtLeast(request[r].as, p)

\* accounts.add_member; the foreign key to the org is its only look at it.
AddMember(r, u, p) ==
    /\ CanGrant(r, p)
    /\ org = "there"
    /\ Join(u, p)
    /\ Answer(r)
    /\ UNCHANGED <<org, group, grouped>>

-----------------------------------------------------------------------------
(* set_member_role and remove_member: the target's role is read, the owners  *)
(* are counted if one might go, and the row is written; `to` is NoRole in a  *)
(* removal.                                                                  *)

ReadTarget(r, u, to) ==
    /\ IF to = NoRole THEN Authorised(r, "admin") ELSE CanGrant(r, to)
    /\ u # request[r].by
    /\ u \in Members
    /\ request' = [request EXCEPT ![r] =
         [at |-> IF role[u] = "owner" /\ to # "owner" THEN "counting" ELSE "writing",
          by |-> request[r].by, as |-> request[r].as, target |-> u, to |-> to]]
    /\ UNCHANGED <<org, user, role, group, grouped>>

\* _owner_count; a count of one is refused (Refuse).
CountOwners(r) ==
    /\ request[r].at = "counting"
    /\ Cardinality(Owners) # 1
    /\ request' = [request EXCEPT ![r].at = "writing"]
    /\ UNCHANGED <<org, user, role, group, grouped>>

\* The update finds the membership as it is now, or none.
WriteRole(r) ==
    /\ request[r].at = "writing"
    /\ request[r].to # NoRole
    /\ role' = [role EXCEPT ![request[r].target] = IF @ = NoRole THEN @ ELSE request[r].to]
    /\ Answer(r)
    /\ UNCHANGED <<org, user, group, grouped>>

\* purge_stranded_users, when the memberships of `us` are gone: the rows of those
\* users go, and their group memberships with them.
Purge(us) ==
    /\ user' = [u \in User |-> IF u \in us /\ user[u] = "there" THEN "gone" ELSE user[u]]
    /\ grouped' = {m \in grouped : m[2] \notin us}

\* Mutant: only the membership goes.
WriteRemovalOnly(r) ==
    /\ request[r].at = "writing"
    /\ request[r].to = NoRole
    /\ role' = [role EXCEPT ![request[r].target] = NoRole]
    /\ Answer(r)
    /\ UNCHANGED <<org, user, group, grouped>>

\* The membership goes, and the user with it.
WriteRemoval(r) ==
    /\ request[r].at = "writing"
    /\ request[r].to = NoRole
    /\ role' = [role EXCEPT ![request[r].target] = NoRole]
    /\ Purge({request[r].target})
    /\ Answer(r)
    /\ UNCHANGED <<org, group>>

-----------------------------------------------------------------------------
(* accounts.delete_org reads the members first, ...                          *)
ReadMembers(r) ==
    /\ Authorised(r, "owner")
    /\ request' = [request EXCEPT ![r] =
         [at |-> "deleting", by |-> request[r].by, as |-> request[r].as, members |-> Members]]
    /\ UNCHANGED <<org, user, role, group, grouped>>

\* ... and deletes the org with all that hangs on it, and those members.
DropOrg(r) ==
    /\ request[r].at = "deleting"
    /\ org' = "gone"
    /\ role' = [u \in User |-> NoRole]
    /\ group' = [g \in Group |-> IF group[g] = "there" THEN "gone" ELSE group[g]]
    /\ user' = [u \in User |->
         IF u \in request[r].members /\ user[u] = "there" THEN "gone" ELSE user[u]]
    /\ grouped' = {}
    /\ Answer(r)

-----------------------------------------------------------------------------
(* Groups.                                                                   *)

CreateGroup(r, g) ==
    /\ Authorised(r, "admin")
    /\ org = "there"
    /\ group[g] = "unborn"
    /\ group' = [group EXCEPT ![g] = "there"]
    /\ Answer(r)
    /\ UNCHANGED <<org, user, role, grouped>>

DeleteGroup(r, g) ==
    /\ Authorised(r, "admin")
    /\ group[g] = "there"
    /\ group' = [group EXCEPT ![g] = "gone"]
    /\ grouped' = {m \in grouped : m[1] # g}
    /\ Answer(r)
    /\ UNCHANGED <<org, user, role>>

\* add_group_member_by_email finds the user in the org, then the group, ...
FindMember(r, g, u) ==
    /\ Authorised(r, "admin")
    /\ u \in Members
    /\ group[g] = "there"
    /\ request' = [request EXCEPT ![r] =
         [at |-> "joining", by |-> request[r].by, as |-> request[r].as,
          target |-> u, group |-> g]]
    /\ UNCHANGED <<org, user, role, group, grouped>>

\* Mutant: the ids that were found are inserted.
InsertFound(r) ==
    /\ request[r].at = "joining"
    /\ group[request[r].group] = "there"
    /\ grouped' = grouped \cup {<<request[r].group, request[r].target>>}
    /\ Answer(r)
    /\ UNCHANGED <<org, user, role, group>>

\* ... and inserts if the user is a member still; the two foreign keys stand in
\* for what is gone by then.
InsertGroupMember(r) ==
    /\ request[r].at = "joining"
    /\ request[r].target \in Members
    /\ group[request[r].group] = "there"
    /\ grouped' = grouped \cup {<<request[r].group, request[r].target>>}
    /\ Answer(r)
    /\ UNCHANGED <<org, user, role, group>>

RemoveGroupMember(r, g, u) ==
    /\ Authorised(r, "admin")
    /\ group[g] = "there"
    /\ grouped' = grouped \ {<<g, u>>}
    /\ Answer(r)
    /\ UNCHANGED <<org, user, role, group>>

\* Forbidden, not found, in conflict, a foreign key's or the database's error: the
\* transaction is rolled back.
Refuse(r) ==
    /\ request[r].at # "idle"
    /\ Answer(r)
    /\ UNCHANGED <<org, user, role, group, grouped>>

-----------------------------------------------------------------------------
MembersStep(r) ==
    \/ \E u \in User :
         \/ Arrive(r, u)
         \/ \E p \in Role : AddMember(r, u, p)
         \/ \E to \in Role \cup {NoRole} : ReadTarget(r, u, to)
    \/ CountOwners(r) \/ WriteRole(r) \/ WriteRemoval(r)
    \/ ReadMembers(r) \/ DropOrg(r)

GroupStep(r) ==
    \/ \E g \in Group :
         \/ CreateGroup(r, g) \/ DeleteGroup(r, g)
         \/ \E u \in User : FindMember(r, g, u) \/ RemoveGroupMember(r, g, u)
    \/ InsertGroupMember(r)

Next ==
    \/ \E u \in User : Signup(u)
    \/ \E r \in Request : MembersStep(r) \/ GroupStep(r) \/ Refuse(r)

Spec == Init /\ [][Next]_vars

-----------------------------------------------------------------------------
(* Properties.                                                              *)

\* The tables and the requests are well formed.
TypeOK ==
    /\ org \in Row
    /\ user \in [User -> Row]
    /\ role \in [User -> Role \cup {NoRole}]
    /\ group \in [Group -> Row]
    /\ grouped \subseteq Group \X User
    /\ request \in [Request -> {Idle} \cup Arrived \cup Changing \cup Joining \cup Deleting]

\* add_group_member: "Cannot add a user to a group unless they belong to this org".
\* No foreign key says so of group_members and memberships; it holds in every
\* interleaving because who loses the membership loses the user row.
GroupMembersBelong ==
    \A m \in grouped : group[m[1]] = "there" /\ m[2] \in Members

\* purge_stranded_users: while the org is there, a user has a membership or is
\* erased, so no email stays taken by an account nobody can use.
RemovedIsErased ==
    org = "there" => \A u \in User : user[u] = "there" <=> u \in Members

\* delete_org: nothing of a deleted org is left or comes back, whatever was being
\* written for it at the time.
DeletedOrgIsEmpty ==
    org # "there" =>
        Members = {} /\ grouped = {} /\ \A g \in Group : group[g] # "there"

\* require_can_grant, "never a role above the caller's own rank": who rises was
\* raised by a request whose caller held that rank when it arrived.
RankIsGranted ==
    [][\A u \in User :
         role'[u] # NoRole /\ (role[u] = NoRole \/ ~AtLeast(role[u], role'[u])) =>
            \/ org = "unborn"
            \/ \E r \in Request :
                 request[r] # request'[r] /\ request[r].at # "idle"
                   /\ AtLeast(request[r].as, role'[u])]_vars

-----------------------------------------------------------------------------
(* What the documentation says and the code does not keep.                  *)

\* set_member_role: "the org must always keep at least one owner".
LastOwner == org = "there" => Owners # {}

\* WALKTHROUGH.md: "There is no \"user without an org\" state."
NoStrandedUser ==
    \A u \in User : user[u] = "there" => u \in Members

\* require_can_grant: "admins manage members, owners manage ownership".
OwnersManageOwnership ==
    [][\A u \in Owners :
         role'[u] # "owner" =>
            \E r \in Request : request[r].at \in {"writing", "deleting"}
                                 /\ request[r].as = "owner"]_vars
=============================================================================
