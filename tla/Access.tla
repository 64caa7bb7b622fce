------------------------------- MODULE Access -------------------------------
(***************************************************************************)
(* What a request reads, from the session it came with to the documents it  *)
(* shows: deps.current_scope, TenantScope.principals, search, get_document  *)
(* and retrieval_stats, retrieval.search and their routes, beside the edits *)
(* that decide who may read what.                                           *)
(*                                                                          *)
(* Sessions is one account's; the other members appear as the principal     *)
(* "other" and as whoever edits.  An edit is one transaction (Members takes  *)
(* them apart), an ingestion is two, and a request is three or more: its    *)
(* session, its principals, its documents, with no lock held in between.    *)
(* `held` is a history: what the account has been since the session was     *)
(* resolved.                                                                *)
(***************************************************************************)
EXTENDS Sessions, FiniteSets

CONSTANTS
    Doc,        \* documents
    Group,      \* groups of the org
    Acl,        \* the access lists that are given to documents
    Limit       \* k: how many documents a search shows

VARIABLES
    mine,       \* the groups the account is in
    acl,        \* documents.acl
    copy,       \* its copy in chunks.acl
    doc,        \* the documents' status
    embedding,  \* the acl that the handler at work has read, if one is
    reading,    \* what each request has read
    held        \* which principals the account has held while it was served

documents == <<acl, copy, doc, embedding>>
accessVars == <<mine, documents, reading, held>>
vars == <<sessionVars, accessVars>>

Principal == {"public-to-org", "user", "other"} \cup Group

ASSUME AccessAssumption ==
    /\ Limit \in Nat /\ IsFiniteSet(Doc)
    /\ Acl \subseteq SUBSET Principal
    /\ Group \cap {"public-to-org", "user", "other"} = {}

\* TenantScope.principals.
Principals == {"public-to-org", "user"} \cup mine

\* The predicate `c.acl ?| principals` on the chunks of an ingested document.
Allowed(d, ps) == doc[d] = "ingested" /\ copy[d] \cap ps # {}

NotReading == [at |-> "nothing"]
Reads(c, to) == reading' = [reading EXCEPT ![c] = to]

Init ==
    /\ SessionsInit
    /\ mine = {}
    /\ acl = [d \in Doc |-> {}]
    /\ copy = [d \in Doc |-> {}]
    /\ doc = [d \in Doc |-> "absent"]
    /\ embedding = [d \in Doc |-> {}]
    /\ reading = [c \in Call |-> NotReading]
    /\ held = [c \in Call |-> {}]

-----------------------------------------------------------------------------
(* A request.                                                               *)

\* current_scope.
Arrive(c, t) ==
    /\ Resolve(c, t)
    /\ held' = [held EXCEPT ![c] = Principals]
    /\ UNCHANGED <<mine, documents, reading>>

\* principals is a transaction of its own.
ReadPrincipals(c) ==
    /\ call[c].at = "acting"
    /\ reading[c].at = "nothing"
    /\ Reads(c, [at |-> "principals", of |-> Principals])
    /\ UNCHANGED <<sessionVars, mine, documents, held>>

\* search: the nearest of what may be read.  Which are near is the embedding's.
Search(c) ==
    /\ reading[c].at = "principals"
    /\ \E found \in SUBSET {d \in Doc : Allowed(d, reading[c].of)} :
         /\ Cardinality(found) <= Limit
         /\ \/ Cardinality(found) = Limit
            \/ found = {d \in Doc : Allowed(d, reading[c].of)}
         /\ Reads(c, [at |-> "read", docs |-> found])
    /\ UNCHANGED <<sessionVars, mine, documents, held>>

\* get_document; otherwise NotFound, as for a document that is not there.
GetDocument(c, d) ==
    /\ reading[c].at = "principals"
    /\ Allowed(d, reading[c].of)
    /\ Reads(c, [at |-> "read", docs |-> {d}])
    /\ UNCHANGED <<sessionVars, mine, documents, held>>

\* How many documents are open to these principals.
CountOf(ps) == Cardinality({d \in Doc : Allowed(d, ps)})

\* retrieval_stats counts what the org has, ...
CountOrg(c) ==
    /\ reading[c].at = "principals"
    /\ Reads(c, [at |-> "counted", of |-> reading[c].of,
                 org |-> Cardinality({d \in Doc : doc[d] = "ingested"})])
    /\ UNCHANGED <<sessionVars, mine, documents, held>>

\* ... and then, in a statement that sees the table anew, what the caller may see
\* (CountOf); both go into the trace.
CountAllowed(c) ==
    /\ reading[c].at = "counted"
    /\ Reads(c, NotReading)
    /\ UNCHANGED <<sessionVars, mine, documents, held>>

\* Mutant: the principals that were read stay for the next request.
LeaveCached(c) ==
    /\ Finish(c)
    /\ IF reading[c].at = "principals" THEN UNCHANGED reading ELSE Reads(c, NotReading)
    /\ held' = [held EXCEPT ![c] = {}]
    /\ UNCHANGED <<mine, documents>>

\* The request ends, served or not.
Leave(c) ==
    /\ Finish(c)
    /\ Reads(c, NotReading)
    /\ held' = [held EXCEPT ![c] = {}]
    /\ UNCHANGED <<mine, documents>>

-----------------------------------------------------------------------------
(* The edits, each one transaction of another request or of a handler.      *)

\* add_group_member.
JoinGroup(g) ==
    /\ account = "there"
    /\ mine' = mine \cup {g}
    /\ held' = [c \in Call |-> IF call[c].at = "idle" THEN {} ELSE held[c] \cup {g}]
    /\ UNCHANGED <<sessionVars, documents, reading>>

\* remove_group_member, delete_group.
LeaveGroup(g) ==
    /\ g \in mine
    /\ mine' = mine \ {g}
    /\ UNCHANGED <<sessionVars, documents, reading, held>>

\* remove_member, delete_org: the memberships of the account go by the foreign key.
Remove ==
    /\ RemoveAccount
    /\ mine' = {}
    /\ UNCHANGED <<documents, reading, held>>

\* sync_documents writes the document and its acl, ...
Upload(d, a) ==
    /\ doc' = [doc EXCEPT ![d] = "pending"]
    /\ acl' = [acl EXCEPT ![d] = a]
    /\ UNCHANGED <<sessionVars, mine, copy, embedding, reading, held>>

\* ... the handler reads both (one at a time here: Ingestion has them overlap), ...
Embed(d) ==
    /\ doc[d] = "pending"
    /\ embedding[d] = {}
    /\ embedding' = [embedding EXCEPT ![d] = {acl[d]}]
    /\ UNCHANGED <<sessionVars, mine, acl, copy, doc, reading, held>>

\* ... and writes the chunks with the acl that it has read.
Ingest(d) ==
    /\ doc[d] # "absent"
    /\ \E a \in embedding[d] : copy' = [copy EXCEPT ![d] = a]
    /\ embedding' = [embedding EXCEPT ![d] = {}]
    /\ doc' = [doc EXCEPT ![d] = "ingested"]
    /\ UNCHANGED <<sessionVars, mine, acl, reading, held>>

\* update_document_acl, on the row and on its chunks; without chunks nothing is shown.
UpdateAcl(d, a) ==
    /\ doc[d] # "absent"
    /\ acl' = [acl EXCEPT ![d] = a]
    /\ copy' = [copy EXCEPT ![d] = a]
    /\ UNCHANGED <<sessionVars, mine, doc, embedding, reading, held>>

\* delete_document; the chunks of a handler at work are refused by the foreign key.
Delete(d) ==
    /\ doc[d] # "absent"
    /\ doc' = [doc EXCEPT ![d] = "absent"]
    /\ acl' = [acl EXCEPT ![d] = {}]
    /\ copy' = [copy EXCEPT ![d] = {}]
    /\ embedding' = [embedding EXCEPT ![d] = {}]
    /\ UNCHANGED <<sessionVars, mine, reading, held>>

\* What Sessions does besides resolving, removing and answering.
Session ==
    /\ \/ \E c \in Call :
            \/ Signup(c) \/ Authenticate(c)
            \/ VerifyCurrent(c) /\ reading[c].at = "nothing"
            \/ ReplaceAndRevoke(c) \/ CommitChange(c)
            \/ \E t \in Token : CreateSession(c, t)
       \/ \E t \in Token : Logout(t)
       \/ Purge \/ TimePasses
    /\ held' = [c \in Call |-> IF call'[c].at = "idle" THEN {} ELSE held[c]]
    /\ UNCHANGED <<mine, documents, reading>>

Next ==
    \/ Session \/ Remove
    \/ \E c \in Call :
         \/ \E t \in Token : Arrive(c, t)
         \/ ReadPrincipals(c) \/ Search(c) \/ CountOrg(c) \/ CountAllowed(c) \/ Leave(c)
         \/ \E d \in Doc : GetDocument(c, d)
    \/ \E g \in Group : JoinGroup(g) \/ LeaveGroup(g)
    \/ \E d \in Doc :
         \/ \E a \in Acl : Upload(d, a) \/ UpdateAcl(d, a)
         \/ Embed(d) \/ Ingest(d) \/ Delete(d)

Spec == Init /\ [][Next]_vars

-----------------------------------------------------------------------------
(* Properties.                                                              *)

Reading ==
    {NotReading} \cup [at : {"principals"}, of : SUBSET Principal]
      \cup [at : {"read"}, docs : SUBSET Doc]
      \cup [at : {"counted"}, of : SUBSET Principal, org : Nat]

\* The tables and the requests are well formed; a request holds what it has read,
\* and nobody reads who was not let in.
TypeOK ==
    /\ SessionsTypeOK
    /\ mine \subseteq Group
    /\ acl \in [Doc -> SUBSET Principal]
    /\ copy \in [Doc -> SUBSET Principal]
    /\ embedding \in [Doc -> SUBSET SUBSET Principal]
    /\ doc \in [Doc -> {"absent", "pending", "ingested"}]
    /\ reading \in [Call -> Reading]
    /\ held \in [Call -> SUBSET Principal]

\* search and get_document: what a request shows is ingested, and its chunks are open
\* at that moment to a principal that the account has held since the session was
\* resolved.  Who has left a group or the org, or was logged out, before that reads
\* by it no more.
ReadsAreJustified ==
    [][\A c \in Call : reading'[c] # reading[c] /\ reading'[c].at = "read" =>
         \A d \in reading'[c].docs :
            doc[d] = "ingested" /\ copy[d] \cap held[c] # {}]_vars

-----------------------------------------------------------------------------
(* What the documentation says and the code does not keep.                  *)

\* principals: "a group change takes effect on the next query"; WALKTHROUGH.md: "There
\* is no cache and no staleness window."
NoStaleness ==
    [][\A c \in Call : reading'[c] # reading[c] /\ reading'[c].at = "read" =>
         \A d \in reading'[c].docs : copy[d] \cap Principals # {}]_vars

\* update_document_acl: "an ACL change can never be half applied".
AclIsObeyed ==
    [][\A c \in Call : reading'[c] # reading[c] /\ reading'[c].at = "read" =>
         \A d \in reading'[c].docs : acl[d] \cap held[c] # {}]_vars

\* retrieval_stats: "how many of them this caller is allowed to see".
AllowedAreOfTheOrg ==
    [][\A c \in Call : CountAllowed(c) => CountOf(reading[c].of) <= reading[c].org]_vars
=============================================================================
