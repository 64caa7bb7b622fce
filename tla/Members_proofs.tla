--------------------------- MODULE Members_proofs ---------------------------
(***************************************************************************)
(* Proofs about Members, for any users, groups and concurrent requests.     *)
(***************************************************************************)
EXTENDS Members, TLAPS

\* What reads, refuses or sends a request on, and writes no table.
Quiet(r) ==
    \/ \E u \in User :
         \/ Arrive(r, u)
         \/ \E to \in Role \cup {NoRole} : ReadTarget(r, u, to)
         \/ \E g \in Group : FindMember(r, g, u)
    \/ CountOwners(r) \/ ReadMembers(r) \/ Refuse(r)

\* Who asks for a change holds the rank that it gives.
ChangesAreGranted ==
    \A r \in Request :
        request[r].at \in {"counting", "writing"} /\ request[r].to # NoRole =>
            AtLeast(request[r].as, request[r].to)

\* Before the signup there is nobody.
UnbornIsEmpty == org = "unborn" => \A u \in User : user[u] = "unborn"

\* The inductive invariant.
Sound ==
    /\ TypeOK
    /\ UnbornIsEmpty
    /\ RemovedIsErased
    /\ DeletedOrgIsEmpty
    /\ GroupMembersBelong
    /\ ChangesAreGranted

-----------------------------------------------------------------------------
LEMMA QuietChangesNoTable ==
    ASSUME NEW r \in Request, Quiet(r)
    PROVE  UNCHANGED <<org, user, role, group, grouped>>
BY DEF Quiet, Arrive, ReadTarget, FindMember, CountOwners, ReadMembers, Refuse

\* The steps of a request, as the proofs go through them.
LEMMA NextSplits ==
    ASSUME Next
    PROVE  \/ \E u \in User : Signup(u)
           \/ \E r \in Request :
                \/ Quiet(r)
                \/ \E u \in User, p \in Role : AddMember(r, u, p)
                \/ WriteRole(r) \/ WriteRemoval(r) \/ DropOrg(r)
                \/ \E g \in Group :
                     \/ CreateGroup(r, g) \/ DeleteGroup(r, g)
                     \/ \E u \in User : RemoveGroupMember(r, g, u)
                \/ InsertGroupMember(r)
BY DEF Next, MembersStep, GroupStep, Quiet

-----------------------------------------------------------------------------
(* Type correctness.                                                        *)

LEMMA QuietKeepsRequests ==
    ASSUME TypeOK, ChangesAreGranted, NEW r \in Request, Quiet(r)
    PROVE  /\ request' \in [Request -> {Idle} \cup Arrived \cup Changing \cup Joining \cup Deleting]
           /\ ChangesAreGranted'
<1> USE DEF TypeOK, Idle, Arrived, Changing, Joining, Deleting
<1> DEFINE Stage == {Idle} \cup Arrived \cup Changing \cup Joining \cup Deleting
<1>1. ASSUME NEW x \in Stage, request' = [request EXCEPT ![r] = x],
             x.at \in {"counting", "writing"} /\ x.to # NoRole => AtLeast(x.as, x.to)
      PROVE  request' \in [Request -> Stage] /\ ChangesAreGranted'
  <2>1. request' \in [Request -> Stage]
    BY <1>1
  <2>2. ASSUME NEW q \in Request,
               request'[q].at \in {"counting", "writing"}, request'[q].to # NoRole
        PROVE  AtLeast(request'[q].as, request'[q].to)
    <3>1. CASE q = r
      BY <1>1, <2>2, <3>1
    <3>2. CASE q # r
      BY <1>1, <2>2, <3>2 DEF ChangesAreGranted
    <3> QED
      BY <3>1, <3>2
  <2> QED
    BY <2>1, <2>2 DEF ChangesAreGranted
<1>2. ASSUME NEW u \in User, Arrive(r, u) PROVE request' \in [Request -> Stage] /\ ChangesAreGranted'
  <2> DEFINE x == [at |-> "arrived", by |-> u, as |-> role[u]]
  <2>1. x \in Stage /\ x.at = "arrived" /\ request' = [request EXCEPT ![r] = x]
    BY <1>2 DEF Arrive, Members
  <2> QED
    BY <2>1, <1>1
<1>3. ASSUME NEW u \in User, NEW to \in Role \cup {NoRole}, ReadTarget(r, u, to)
      PROVE  request' \in [Request -> Stage] /\ ChangesAreGranted'
  <2> DEFINE x == [at |-> IF role[u] = "owner" /\ to # "owner" THEN "counting" ELSE "writing",
                   by |-> request[r].by, as |-> request[r].as, target |-> u, to |-> to]
  <2>1. request[r].at = "arrived"
    BY <1>3 DEF ReadTarget, Authorised, CanGrant
  <2>2. request[r] \in Arrived
    BY <2>1
  <2>3. x \in Changing
    BY <2>2
  <2>4. to # NoRole => AtLeast(request[r].as, to)
    BY <1>3 DEF ReadTarget, CanGrant
  <2>5. request' = [request EXCEPT ![r] = x]
    BY <1>3 DEF ReadTarget
  <2> QED
    BY <2>3, <2>4, <2>5, <1>1
<1>4. ASSUME NEW g \in Group, NEW u \in User, FindMember(r, g, u)
      PROVE  request' \in [Request -> Stage] /\ ChangesAreGranted'
  <2> DEFINE x == [at |-> "joining", by |-> request[r].by, as |-> request[r].as,
                   target |-> u, group |-> g]
  <2>1. request[r] \in Arrived
    BY <1>4 DEF FindMember, Authorised
  <2>2. x \in Joining /\ x.at = "joining" /\ request' = [request EXCEPT ![r] = x]
    BY <1>4, <2>1 DEF FindMember
  <2> QED
    BY <2>2, <1>1
<1>5. ASSUME CountOwners(r) PROVE request' \in [Request -> Stage] /\ ChangesAreGranted'
  <2> DEFINE x == [request[r] EXCEPT !.at = "writing"]
  <2>1. request[r] \in Changing
    BY <1>5 DEF CountOwners
  <2>2. x \in Changing /\ x.to = request[r].to /\ x.as = request[r].as
    BY <2>1
  <2>3. request' = [request EXCEPT ![r] = x]
    BY <1>5 DEF CountOwners
  <2>4. x.to # NoRole => AtLeast(x.as, x.to)
    BY <1>5, <2>2 DEF CountOwners, ChangesAreGranted
  <2> QED
    BY <2>2, <2>3, <2>4, <1>1
<1>6. ASSUME ReadMembers(r) PROVE request' \in [Request -> Stage] /\ ChangesAreGranted'
  <2> DEFINE x == [at |-> "deleting", by |-> request[r].by, as |-> request[r].as,
                   members |-> Members]
  <2>1. request[r] \in Arrived
    BY <1>6 DEF ReadMembers, Authorised
  <2>2. x \in Deleting /\ x.at = "deleting" /\ request' = [request EXCEPT ![r] = x]
    BY <1>6, <2>1 DEF ReadMembers, Members
  <2> QED
    BY <2>2, <1>1
<1>7. ASSUME Refuse(r) PROVE request' \in [Request -> Stage] /\ ChangesAreGranted'
  <2>1. Idle \in Stage /\ Idle.at = "idle" /\ request' = [request EXCEPT ![r] = Idle]
    BY <1>7 DEF Refuse, Answer
  <2> QED
    BY <2>1, <1>1
<1> QED
  BY <1>2, <1>3, <1>4, <1>5, <1>6, <1>7 DEF Quiet

\* A request that is answered is out of everyone's way.
LEMMA AnswerKeepsRequests ==
    ASSUME TypeOK, ChangesAreGranted, NEW r \in Request, Answer(r)
    PROVE  /\ request' \in [Request -> {Idle} \cup Arrived \cup Changing \cup Joining \cup Deleting]
           /\ ChangesAreGranted'
<1>1. request' = [request EXCEPT ![r] = Idle] /\ Idle.at = "idle"
  BY DEF Answer, Idle
<1> QED
  BY <1>1 DEF TypeOK, ChangesAreGranted

LEMMA SoundStep == Sound /\ [Next]_vars => Sound'
<1> SUFFICES ASSUME Sound, [Next]_vars PROVE Sound'
  OBVIOUS
<1>1. TypeOK /\ ChangesAreGranted /\ NoRole \notin Role
  BY NoRoleAssumption DEF Sound
<1>2. ASSUME NEW u \in User, Signup(u) PROVE Sound'
  <2>1. /\ org = "unborn" /\ org' = "there"
        /\ user' = [user EXCEPT ![u] = "there"] /\ role' = [role EXCEPT ![u] = "owner"]
        /\ UNCHANGED <<group, grouped, request>>
    BY <1>2 DEF Signup, Join
  <2>2. \A v \in User : user[v] = "unborn" /\ role[v] = NoRole
    BY <2>1 DEF Sound, UnbornIsEmpty, DeletedOrgIsEmpty, Members
  <2>3. TypeOK'
    BY <1>1, <2>1 DEF TypeOK, Row, Role
  <2>4. RemovedIsErased'
    BY <1>1, <2>1, <2>2 DEF TypeOK, RemovedIsErased, Members, Role
  <2>5. GroupMembersBelong' /\ DeletedOrgIsEmpty' /\ UnbornIsEmpty'
    BY <2>1 DEF Sound, GroupMembersBelong, DeletedOrgIsEmpty, UnbornIsEmpty
  <2>6. ChangesAreGranted'
    BY <1>1, <2>1 DEF ChangesAreGranted
  <2> QED
    BY <2>3, <2>4, <2>5, <2>6 DEF Sound
<1>3. ASSUME NEW r \in Request, Quiet(r) PROVE Sound'
  <2>1. UNCHANGED <<org, user, role, group, grouped>>
    BY <1>3, QuietChangesNoTable
  <2>2. TypeOK' /\ ChangesAreGranted'
    BY <1>1, <1>3, <2>1, QuietKeepsRequests DEF TypeOK
  <2> QED
    BY <2>1, <2>2 DEF Sound, UnbornIsEmpty, RemovedIsErased, DeletedOrgIsEmpty,
                      GroupMembersBelong, Members
<1>4. ASSUME NEW r \in Request, Answer(r),
             org' \in Row, user' \in [User -> Row], role' \in [User -> Role \cup {NoRole}],
             group' \in [Group -> Row], grouped' \subseteq Group \X User
      PROVE  TypeOK' /\ ChangesAreGranted'
  BY <1>1, <1>4, AnswerKeepsRequests DEF TypeOK
<1>5. ASSUME NEW r \in Request, NEW u \in User, NEW p \in Role, AddMember(r, u, p)
      PROVE  Sound'
  <2>1. /\ org = "there" /\ user[u] = "unborn" /\ Answer(r)
        /\ user' = [user EXCEPT ![u] = "there"] /\ role' = [role EXCEPT ![u] = p]
        /\ UNCHANGED <<org, group, grouped>>
    BY <1>5 DEF AddMember, Join
  <2>2. TypeOK' /\ ChangesAreGranted'
    BY <1>1, <1>4, <2>1 DEF TypeOK, Row
  <2>3. UnbornIsEmpty' /\ DeletedOrgIsEmpty'
    BY <2>1 DEF UnbornIsEmpty, DeletedOrgIsEmpty
  <2>4. RemovedIsErased'
    BY <1>1, <2>1 DEF Sound, TypeOK, RemovedIsErased, Members
  <2>5. GroupMembersBelong'
    BY <1>1, <2>1 DEF Sound, TypeOK, GroupMembersBelong, Members
  <2> QED
    BY <2>2, <2>3, <2>4, <2>5 DEF Sound
<1>6. ASSUME NEW r \in Request, WriteRole(r) PROVE Sound'
  <2> DEFINE u == request[r].target
             p == request[r].to
  <2>1. u \in User /\ p \in Role
    BY <1>1, <1>6 DEF WriteRole, TypeOK, Idle, Arrived, Changing, Joining, Deleting
  <2>2. /\ role' = [role EXCEPT ![u] = IF @ = NoRole THEN @ ELSE p]
        /\ Answer(r) /\ UNCHANGED <<org, user, group, grouped>>
    BY <1>6 DEF WriteRole
  <2>3. role' \in [User -> Role \cup {NoRole}]
    BY <1>1, <2>1, <2>2 DEF TypeOK
  <2>4. TypeOK' /\ ChangesAreGranted'
    BY <1>1, <1>4, <2>2, <2>3 DEF TypeOK
  <2>5. Members' = Members
    BY <1>1, <2>1, <2>2 DEF TypeOK, Members
  <2> QED
    BY <2>2, <2>4, <2>5 DEF Sound, UnbornIsEmpty, RemovedIsErased, DeletedOrgIsEmpty,
                            GroupMembersBelong
<1>7. ASSUME NEW r \in Request, WriteRemoval(r) PROVE Sound'
  <2> DEFINE u == request[r].target
  <2>1. u \in User
    BY <1>1, <1>7 DEF WriteRemoval, TypeOK, Idle, Arrived, Changing, Joining, Deleting
  <2>2. /\ role' = [role EXCEPT ![u] = NoRole]
        /\ user' = [v \in User |-> IF v \in {u} /\ user[v] = "there" THEN "gone" ELSE user[v]]
        /\ grouped' = {m \in grouped : m[2] \notin {u}}
        /\ Answer(r) /\ UNCHANGED <<org, group>>
    BY <1>7 DEF WriteRemoval, Purge
  <2>3. TypeOK' /\ ChangesAreGranted'
    BY <1>1, <1>4, <2>2 DEF TypeOK, Row
  <2>4. Members' = Members \ {u}
    BY <1>1, <2>1, <2>2 DEF TypeOK, Members
  <2>5. UnbornIsEmpty' /\ DeletedOrgIsEmpty'
    BY <2>2, <2>4 DEF Sound, UnbornIsEmpty, DeletedOrgIsEmpty
  <2>6. RemovedIsErased'
    BY <2>2, <2>4 DEF Sound, RemovedIsErased
  <2>7. GroupMembersBelong'
    BY <2>2, <2>4 DEF Sound, GroupMembersBelong
  <2> QED
    BY <2>3, <2>5, <2>6, <2>7 DEF Sound
<1>8. ASSUME NEW r \in Request, DropOrg(r) PROVE Sound'
  <2>1. TypeOK' /\ ChangesAreGranted'
    <3>1. Answer(r) /\ org' = "gone" /\ grouped' = {}
      BY <1>8 DEF DropOrg
    <3>2. user' \in [User -> Row] /\ role' \in [User -> Role \cup {NoRole}]
            /\ group' \in [Group -> Row]
      BY <1>1, <1>8 DEF DropOrg, TypeOK, Row
    <3> QED
      BY <1>4, <3>1, <3>2 DEF Row
  <2> QED
    BY <1>8, <2>1 DEF DropOrg, Sound, UnbornIsEmpty, RemovedIsErased, DeletedOrgIsEmpty,
                      GroupMembersBelong, Members
<1>9. ASSUME NEW r \in Request, NEW g \in Group, CreateGroup(r, g) PROVE Sound'
  <2>1. /\ org = "there" /\ group' = [group EXCEPT ![g] = "there"] /\ Answer(r)
        /\ UNCHANGED <<org, user, role, grouped>>
    BY <1>9 DEF CreateGroup
  <2>2. TypeOK' /\ ChangesAreGranted'
    BY <1>1, <1>4, <2>1 DEF TypeOK, Row
  <2> QED
    BY <1>1, <2>1, <2>2 DEF Sound, TypeOK, UnbornIsEmpty, RemovedIsErased, DeletedOrgIsEmpty,
                            GroupMembersBelong, Members
<1>10. ASSUME NEW r \in Request, NEW g \in Group, DeleteGroup(r, g) PROVE Sound'
  <2>1. /\ group' = [group EXCEPT ![g] = "gone"] /\ grouped' = {m \in grouped : m[1] # g}
        /\ Answer(r) /\ UNCHANGED <<org, user, role>>
    BY <1>10 DEF DeleteGroup
  <2>2. TypeOK' /\ ChangesAreGranted'
    BY <1>1, <1>4, <2>1 DEF TypeOK, Row
  <2>3. GroupMembersBelong'
    BY <1>1, <2>1 DEF Sound, TypeOK, GroupMembersBelong, Members
  <2>4. DeletedOrgIsEmpty'
    BY <1>1, <2>1 DEF Sound, TypeOK, DeletedOrgIsEmpty, Members
  <2> QED
    BY <2>1, <2>2, <2>3, <2>4 DEF Sound, UnbornIsEmpty, RemovedIsErased, Members
<1>11. ASSUME NEW r \in Request, InsertGroupMember(r) PROVE Sound'
  <2> DEFINE g == request[r].group
             u == request[r].target
  <2>1. g \in Group /\ u \in User
    BY <1>1, <1>11 DEF InsertGroupMember, TypeOK, Idle, Arrived, Changing, Joining, Deleting
  <2>2. /\ u \in Members /\ group[g] = "there" /\ grouped' = grouped \cup {<<g, u>>}
        /\ Answer(r) /\ UNCHANGED <<org, user, role, group>>
    BY <1>11 DEF InsertGroupMember
  <2>3. TypeOK' /\ ChangesAreGranted'
    BY <1>1, <1>4, <2>1, <2>2 DEF TypeOK
  <2>4. Members' = Members
    BY <2>2 DEF Members
  <2>5. GroupMembersBelong'
    BY <2>2, <2>4 DEF Sound, GroupMembersBelong
  <2>6. org = "there"
    BY <2>2 DEF Sound, DeletedOrgIsEmpty
  <2> QED
    BY <2>2, <2>3, <2>4, <2>5, <2>6 DEF Sound, UnbornIsEmpty, RemovedIsErased, DeletedOrgIsEmpty
<1>12. ASSUME NEW r \in Request, NEW g \in Group, NEW u \in User, RemoveGroupMember(r, g, u)
       PROVE  Sound'
  <2>1. /\ grouped' = grouped \ {<<g, u>>} /\ Answer(r)
        /\ UNCHANGED <<org, user, role, group>>
    BY <1>12 DEF RemoveGroupMember
  <2>2. TypeOK' /\ ChangesAreGranted'
    BY <1>1, <1>4, <2>1 DEF TypeOK
  <2> QED
    BY <2>1, <2>2 DEF Sound, UnbornIsEmpty, RemovedIsErased, DeletedOrgIsEmpty,
                      GroupMembersBelong, Members
<1>13. CASE UNCHANGED vars
  BY <1>13 DEF vars, Sound, TypeOK, UnbornIsEmpty, RemovedIsErased, DeletedOrgIsEmpty,
               GroupMembersBelong, ChangesAreGranted, Members
<1> QED
  BY <1>2, <1>3, <1>5, <1>6, <1>7, <1>8, <1>9, <1>10, <1>11, <1>12, <1>13, NextSplits

LEMMA Invariance == Spec => []Sound
<1>1. Init => Sound
  BY DEF Init, Idle, Sound, TypeOK, Row, UnbornIsEmpty, RemovedIsErased, DeletedOrgIsEmpty,
         GroupMembersBelong, ChangesAreGranted, Members
<1> QED
  BY <1>1, SoundStep, PTL DEF Spec

-----------------------------------------------------------------------------
(* The theorems.                                                            *)

\* The tables and the requests of one org stay well formed.
THEOREM TypeCorrect == Spec => []TypeOK
<1>1. Sound => TypeOK
  BY DEF Sound
<1> QED
  BY <1>1, Invariance, PTL

\* A group only ever has members of its org, though no foreign key says so.
THEOREM GroupsHoldMembers == Spec => []GroupMembersBelong
<1>1. Sound => GroupMembersBelong
  BY DEF Sound
<1> QED
  BY <1>1, Invariance, PTL

\* Who is removed is erased, however requests interleave, until the org itself is
\* deleted.
THEOREM RemovalErases == Spec => []RemovedIsErased
<1>1. Sound => RemovedIsErased
  BY DEF Sound
<1> QED
  BY <1>1, Invariance, PTL

\* Nothing is added to an org that is being, or has been, deleted.
THEOREM DeletionIsComplete == Spec => []DeletedOrgIsEmpty
<1>1. Sound => DeletedOrgIsEmpty
  BY DEF Sound
<1> QED
  BY <1>1, Invariance, PTL

\* Nobody is given a rank but by a request whose caller held it on arrival.
THEOREM RanksAreGranted == Spec => RankIsGranted
<1> DEFINE Rises(u) == role'[u] # NoRole /\ (role[u] = NoRole \/ ~AtLeast(role[u], role'[u]))
           Granted(u) == \/ org = "unborn"
                         \/ \E r \in Request :
                              request[r] # request'[r] /\ request[r].at # "idle"
                                /\ AtLeast(request[r].as, role'[u])
<1>1. ASSUME Sound, [Next]_vars, NEW u \in User, Rises(u) PROVE Granted(u)
  <2>1. TypeOK /\ ChangesAreGranted /\ NoRole \notin Role
    BY <1>1, NoRoleAssumption DEF Sound
  <2>2. role'[u] # role[u]
    BY <1>1, <2>1 DEF TypeOK, AtLeast, Role
  <2>3. CASE \E v \in User : Signup(v)
    BY <2>3 DEF Signup
  <2>4. ASSUME NEW r \in Request, NEW v \in User, NEW p \in Role, AddMember(r, v, p)
        PROVE  Granted(u)
    <3>1. role' = [role EXCEPT ![v] = p] /\ request' = [request EXCEPT ![r] = Idle]
      BY <2>4 DEF AddMember, Join, Answer
    <3>2. request[r].at = "arrived" /\ AtLeast(request[r].as, p)
      BY <2>4 DEF AddMember, CanGrant, Authorised
    <3>3. u = v /\ role'[u] = p
      BY <2>1, <2>2, <3>1 DEF TypeOK
    <3>4. request[r] # request'[r]
      BY <2>1, <3>1, <3>2 DEF TypeOK, Idle
    <3> QED
      BY <3>2, <3>3, <3>4
  <2>5. ASSUME NEW r \in Request, WriteRole(r) PROVE Granted(u)
    <3> DEFINE p == request[r].to
    <3>1. /\ request[r].at = "writing" /\ p # NoRole
          /\ role' = [role EXCEPT ![request[r].target] = IF @ = NoRole THEN @ ELSE p]
          /\ request' = [request EXCEPT ![r] = Idle]
      BY <2>5 DEF WriteRole, Answer
    <3>2. AtLeast(request[r].as, p)
      BY <2>1, <3>1 DEF ChangesAreGranted
    <3>3. role'[u] = p
      BY <2>1, <2>2, <3>1 DEF TypeOK
    <3>4. request[r] # request'[r]
      BY <2>1, <3>1 DEF TypeOK, Idle
    <3> QED
      BY <3>1, <3>2, <3>3, <3>4
  <2>6. ASSUME NEW r \in Request, WriteRemoval(r) PROVE FALSE
    BY <1>1, <2>1, <2>2, <2>6 DEF WriteRemoval, TypeOK
  <2>7. ASSUME NEW r \in Request, DropOrg(r) PROVE FALSE
    BY <1>1, <2>7 DEF DropOrg
  <2>8. CASE UNCHANGED role
    BY <2>2, <2>8
  <2> QED
    BY <1>1, <2>3, <2>4, <2>5, <2>6, <2>7, <2>8, NextSplits, QuietChangesNoTable
       DEF CreateGroup, DeleteGroup, RemoveGroupMember, InsertGroupMember, vars
<1>2. Sound /\ [Next]_vars => [\A u \in User : Rises(u) => Granted(u)]_vars
  BY <1>1
<1> QED
  BY <1>2, Invariance, PTL DEF Spec, RankIsGranted
=============================================================================
