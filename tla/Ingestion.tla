------------------------------ MODULE Ingestion -----------------------------
(***************************************************************************)
(* One org's documents from upload to index: OrgContext.sync_source and     *)
(* ingest.sync_documents write the documents table and enqueue jobs, drains *)
(* run ingest.process_ingest_document, admins delete documents and edit     *)
(* ACLs meanwhile.  Composed with the queue of JobQueue.                    *)
(*                                                                          *)
(* Every `with connect(...)` block is one transaction and one action.  What *)
(* lies between two blocks of one function is where the others get in:      *)
(*   - an upload commits its documents, then enqueues its jobs one by one;  *)
(*   - a drain reads the document, embeds it for as long as it takes, then  *)
(*     replaces the chunks;                                                 *)
(*   - run_pending buries a job, then marks its document failed.            *)
(*                                                                          *)
(* A content and its SHA-256 are one value.  A text is one chunk; blank     *)
(* texts, which have none, are not uploaded.                                *)
(***************************************************************************)
EXTENDS Naturals, Sequences, FiniteSets

CONSTANTS
    Source, Path,   \* a document is known by its source and its path
    Text, Acl,      \* what it says, and who may read it
    Nil,            \* no text: the content of a tombstone
    Request,        \* the uploads under way at the same time
    Drain, NoJob, MaxAttempts, AttemptCap, SlowHandlers,    \* as in JobQueue
    DocCap,         \* settings.org_doc_cap
    MaxGeneration,  \* bound: rows ever inserted for one path
    MaxRevision     \* bound: deletions by sync of one row

ASSUME NilAssumption == Nil \notin Text \cup Acl
ASSUME BoundsAssumption == {DocCap, MaxGeneration, MaxRevision} \subseteq Nat
ASSUME FiniteAssumption == IsFiniteSet(Source) /\ IsFiniteSet(Path)

Doc == Source \X Path

\* The idempotency key "ingest:{id}:{hash}:{revision}".  A row's id is its path
\* and how many rows the path has had.
JobKey == [doc  : Doc,
           gen  : 1..MaxGeneration,
           hash : Text,
           rev  : 0..MaxRevision]

ASSUME QueueAssumption ==
    /\ NoJob \notin JobKey
    /\ MaxAttempts \in Nat \ {0}
    /\ AttemptCap \in Nat
    /\ SlowHandlers \in BOOLEAN

VARIABLES
    docs,       \* the documents table
    chunks,     \* the chunks of each document
    uploads,    \* the keys each upload has still to enqueue
    snap,       \* the row each drain read and is embedding
    jobs, order, orgLive, pc, claim, unkicked

VARIABLES           \* kept for the properties
    reused,     \* documents that went back to bytes that had a job before
    crossed     \* documents whose own job has read them, or is over, and that
                \* a drain has since had in hand as they were before

tables == <<docs, chunks>>
queueVars == <<jobs, order, orgLive, pc, claim, unkicked>>
codeVars == <<docs, chunks, uploads, snap, queueVars>>
vars == <<codeVars, reused, crossed>>

Queue == INSTANCE JobQueue WITH Key <- JobKey

Absent == [status |-> "none", gen |-> 0, hash |-> Nil, text |-> Nil,
           acl |-> Nil, rev |-> 0]

DocRow == [status : {"none", "pending", "ingested", "failed", "deleted"},
           gen    : 0..MaxGeneration,
           hash   : Text \cup {Nil},
           text   : Text \cup {Nil},
           acl    : Acl \cup {Nil},
           rev    : 0..MaxRevision]

Exists(p)   == docs[p].status # "none"
Live(p)     == docs[p].status \notin {"none", "deleted"}
\* Mutant: the key before migrations/0014.
KeyWithoutRevision(p, row) == [doc |-> p, gen |-> row.gen, hash |-> row.hash, rev |-> 0]

KeyOf(p, row) == [doc |-> p, gen |-> row.gen, hash |-> row.hash, rev |-> row.rev]
CurrentKey(p) == KeyOf(p, docs[p])

\* The row that a job names, if it is still there.
RowThere(k) == Exists(k.doc) /\ docs[k.doc].gen = k.gen

\* The document's own job, the one its key names, has still to read it.
ToCome(p) ==
    LET k == CurrentKey(p) IN
    \/ jobs[k].status = "none" /\ \E r \in Request : k \in uploads[r]
    \/ jobs[k].status = "queued"
    \/ /\ jobs[k].status = "running"
       /\ ~\E d \in Drain : claim[d] = k /\ (snap[d] # {} \/ pc[d] = "handled")

\* A drain has the document in hand as it was before: it embeds a text or an ACL
\* that is no longer the document's, or is about to tell it that an older job is
\* dead.
HeldStale(p) ==
    \E d \in Drain :
        /\ claim[d] # NoJob /\ claim[d].doc = p /\ RowThere(claim[d])
        /\ \/ \E row \in snap[d] : row # [text |-> docs[p].text, acl |-> docs[p].acl]
           \/ pc[d] = "buried" /\ claim[d] # CurrentKey(p)

-----------------------------------------------------------------------------
Init ==
    /\ docs = [p \in Doc |-> Absent]
    /\ chunks = [p \in Doc |-> {}]
    /\ uploads = [r \in Request |-> {}]
    /\ snap = [d \in Drain |-> {}]
    /\ Queue!Init
    /\ reused = {}
    /\ crossed = {}

(* Uploads.                                                                 *)

\* Mutant: documents that still wait are not counted.
WithinCapOfIngested(items) ==
    Cardinality({p \in Doc : docs[p].status = "ingested"})
      + Cardinality(DOMAIN items) <= DocCap

\* check_caps, under the lock of the org row: every incoming item counts, even
\* one that replaces a document already counted.
WithinCap(items) ==
    Cardinality({p \in Doc : Live(p)}) + Cardinality(DOMAIN items) <= DocCap

\* An item with the same bytes as an ingested document is left alone.
Unchanged(p, items) ==
    /\ docs[p].status = "ingested"
    /\ docs[p].hash = items[p].text

\* The row the upsert leaves.  A new row gets a new id.
Upserted(p, item) ==
    LET row == IF Exists(p) THEN docs[p]
               ELSE [Absent EXCEPT !.gen = docs[p].gen + 1]
    IN  [row EXCEPT !.status = "pending", !.hash = item.text,
                    !.text = item.text, !.acl = item.acl]

\* A path the upload no longer names: a tombstone that keeps the hash.
Tombstone(row) ==
    [row EXCEPT !.status = "deleted", !.text = Nil, !.rev = @ + 1]

\* sync_documents up to its commit.
SyncCommits(r, s, items) ==
    LET changed == {p \in DOMAIN items : ~Unchanged(p, items)}
        gone    == {p \in Doc : p[1] = s /\ Live(p) /\ p \notin DOMAIN items}
    IN
    /\ orgLive
    /\ uploads[r] = {}
    /\ WithinCap(items)
    /\ \A p \in changed : ~Exists(p) => docs[p].gen < MaxGeneration
    /\ \A p \in gone : docs[p].rev < MaxRevision
    /\ docs' = [p \in Doc |-> IF p \in changed THEN Upserted(p, items[p])
                              ELSE IF p \in gone THEN Tombstone(docs[p])
                              ELSE docs[p]]
    /\ chunks' = [p \in Doc |-> IF p \in gone THEN {} ELSE chunks[p]]
    /\ uploads' = [uploads EXCEPT ![r] =
                     {KeyOf(p, Upserted(p, items[p])) : p \in changed}]
    /\ UNCHANGED <<snap, queueVars>>

\* The loop after the commit, one jobs.enqueue per changed document.
SyncEnqueues(r) ==
    /\ \E k \in uploads[r] :
         /\ Queue!Enqueue(k)
         /\ uploads' = [uploads EXCEPT ![r] = @ \ {k}]
    /\ UNCHANGED <<tables, snap>>

\* The upload's process dies after the commit, or its org is gone and the
\* foreign key refuses the job.
UploadDies(r) ==
    /\ uploads[r] # {}
    /\ uploads' = [uploads EXCEPT ![r] = {}]
    /\ UNCHANGED <<tables, snap, queueVars>>

-----------------------------------------------------------------------------
(* Drains.                                                                  *)

\* After every upload, and at every start of the service.
DrainKicked(d) == Queue!Kick(d) /\ UNCHANGED <<tables, uploads, snap>>

DrainStops(d) == Queue!Stop(d) /\ UNCHANGED <<tables, uploads, snap>>

DrainClaims(d) == Queue!Claim(d) /\ UNCHANGED <<tables, uploads, snap>>

\* Mutant: a tombstone is read like any other row.
ReadsTombstone(d) ==
    LET k == claim[d] IN
    /\ pc[d] = "running"
    /\ snap[d] = {}
    /\ IF RowThere(k)
         THEN /\ snap' = [snap EXCEPT ![d] =
                    {[text |-> docs[k.doc].text, acl |-> docs[k.doc].acl]}]
              /\ UNCHANGED queueVars
         ELSE /\ Queue!HandlerReturns(d)
              /\ UNCHANGED snap
    /\ UNCHANGED <<tables, uploads>>

\* process_ingest_document's first block; a document removed before it ran has
\* nothing to do.
HandlerReads(d) ==
    LET k == claim[d] IN
    /\ pc[d] = "running"
    /\ snap[d] = {}
    /\ IF RowThere(k) /\ docs[k.doc].status # "deleted"
         THEN /\ snap' = [snap EXCEPT ![d] =
                    {[text |-> docs[k.doc].text, acl |-> docs[k.doc].acl]}]
              /\ UNCHANGED queueVars
         ELSE /\ Queue!HandlerReturns(d)
              /\ UNCHANGED snap
    /\ UNCHANGED <<tables, uploads>>

\* Mutant: the old chunks are not removed first.
HandlerAddsChunks(d) ==
    LET k == claim[d] IN
    \E row \in snap[d] :
      LET made == IF row.text = Nil THEN {} ELSE {row} IN
      /\ pc[d] = "running"
      /\ IF RowThere(k)
           THEN /\ chunks' = [chunks EXCEPT ![k.doc] = @ \cup made]
                /\ docs' = [docs EXCEPT ![k.doc].status = "ingested"]
                /\ Queue!HandlerReturns(d)
           ELSE /\ IF made = {} THEN Queue!HandlerReturns(d) ELSE Queue!Raise(d)
                /\ UNCHANGED tables
      /\ snap' = [snap EXCEPT ![d] = {}]
      /\ UNCHANGED uploads

\* Mutant: the document is not told that it is ingested.
HandlerWritesQuietly(d) ==
    LET k == claim[d] IN
    \E row \in snap[d] :
      /\ pc[d] = "running"
      /\ chunks' = IF RowThere(k) /\ row.text # Nil
                     THEN [chunks EXCEPT ![k.doc] = {row}] ELSE chunks
      /\ Queue!HandlerReturns(d)
      /\ snap' = [snap EXCEPT ![d] = {}]
      /\ UNCHANGED <<docs, uploads>>

\* Its second block: the chunks of the row as it was read replace whatever is
\* there.  The foreign key of chunks refuses them when the row is gone.
HandlerWrites(d) ==
    LET k == claim[d] IN
    \E row \in snap[d] :
      LET made == IF row.text = Nil THEN {} ELSE {row} IN
      /\ pc[d] = "running"
      /\ IF RowThere(k)
           THEN /\ chunks' = [chunks EXCEPT ![k.doc] = made]
                /\ docs' = [docs EXCEPT ![k.doc].status = "ingested"]
                /\ Queue!HandlerReturns(d)
           ELSE /\ IF made = {} THEN Queue!HandlerReturns(d) ELSE Queue!Raise(d)
                /\ UNCHANGED tables
      /\ snap' = [snap EXCEPT ![d] = {}]
      /\ UNCHANGED uploads

\* Mutant: the first attempt that fails shows.
HandlerFailsDocument(d) ==
    /\ Queue!Raise(d)
    /\ docs' = IF RowThere(claim[d])
                 THEN [docs EXCEPT ![claim[d].doc].status = "failed"]
                 ELSE docs
    /\ snap' = [snap EXCEPT ![d] = {}]
    /\ UNCHANGED <<chunks, uploads>>

\* Chunking, embedding, a short embedding list or a database call raises.
HandlerRaises(d) ==
    /\ Queue!Raise(d)
    /\ snap' = [snap EXCEPT ![d] = {}]
    /\ UNCHANGED <<tables, uploads>>

DrainMarks(d) ==
    /\ \/ Queue!MarkSucceeded(d) \/ Queue!ReadAttempts(d)
       \/ Queue!Requeue(d) \/ Queue!Bury(d)
    /\ UNCHANGED <<tables, uploads, snap>>

\* _mark_document_failed, a transaction after the job is dead.
MarkDocumentFailed(d) ==
    /\ Queue!BuriedAway(d)
    /\ docs' = IF RowThere(claim[d])
                 THEN [docs EXCEPT ![claim[d].doc].status = "failed"]
                 ELSE docs
    /\ UNCHANGED <<chunks, uploads, snap>>

DrainDies(d) ==
    /\ Queue!Crash(d)
    /\ snap' = [snap EXCEPT ![d] = {}]
    /\ UNCHANGED <<tables, uploads>>

TimePasses(k) ==
    /\ Queue!BackoffElapses(k) \/ Queue!GoesStale(k)
    /\ UNCHANGED <<tables, uploads, snap>>

-----------------------------------------------------------------------------
(* Admins.                                                                  *)

\* Mutant: the jobs of the document go with it.
DeleteDocumentAndJobs(p) ==
    LET others(k) == k.doc # p IN
    /\ Exists(p)
    /\ docs' = [docs EXCEPT ![p] = [Absent EXCEPT !.gen = docs[p].gen]]
    /\ chunks' = [chunks EXCEPT ![p] = {}]
    /\ jobs' = [k \in JobKey |-> IF others(k) THEN jobs[k]
                                  ELSE [status |-> "none", attempts |-> 0, due |-> FALSE]]
    /\ order' = SelectSeq(order, others)
    /\ UNCHANGED <<uploads, snap, orgLive, pc, claim, unkicked>>

\* OrgContext.delete_document: the chunks cascade, the jobs stay.
DeleteDocument(p) ==
    /\ Exists(p)
    /\ docs' = [docs EXCEPT ![p] = [Absent EXCEPT !.gen = docs[p].gen]]
    /\ chunks' = [chunks EXCEPT ![p] = {}]
    /\ UNCHANGED <<uploads, snap, queueVars>>

\* OrgContext.update_document_acl: the document and its chunks in one block.
UpdateAcl(p, a) ==
    /\ Exists(p)
    /\ docs' = [docs EXCEPT ![p].acl = a]
    /\ chunks' = [chunks EXCEPT ![p] = {[c EXCEPT !.acl = a] : c \in @}]
    /\ UNCHANGED <<uploads, snap, queueVars>>

\* accounts.delete_org: documents, chunks and jobs cascade.
DeleteOrg ==
    /\ Queue!DeleteOrg
    /\ docs' = [p \in Doc |-> [Absent EXCEPT !.gen = docs[p].gen]]
    /\ chunks' = [p \in Doc |-> {}]
    /\ UNCHANGED <<uploads, snap>>

-----------------------------------------------------------------------------
\* What an upload may name: any documents of its source, each with a text and
\* an ACL.
Items(s) ==
    UNION {[P -> [text : Text, acl : Acl]] : P \in SUBSET ({s} \X Path)}

Sync ==
    \/ \E r \in Request, s \in Source : \E items \in Items(s) : SyncCommits(r, s, items)
    \/ \E r \in Request : SyncEnqueues(r) \/ UploadDies(r)

DrainStep(d) ==
    \/ DrainStops(d) \/ DrainClaims(d) \/ HandlerReads(d) \/ HandlerWrites(d) \/ HandlerRaises(d)
    \/ DrainMarks(d) \/ MarkDocumentFailed(d)

Admin ==
    \/ \E p \in Doc : DeleteDocument(p) \/ \E a \in Acl : UpdateAcl(p, a)
    \/ DeleteOrg

Step ==
    \/ Sync
    \/ \E d \in Drain : DrainKicked(d) \/ DrainStep(d) \/ DrainDies(d)
    \/ \E k \in JobKey : TimePasses(k)
    \/ Admin

\* A document that was there goes back to bytes that had a job before, and waits.
GoesBack(p) ==
    /\ docs'[p].status = "pending"
    /\ IF docs[p].status = "pending" /\ docs'[p].hash = docs[p].hash
         THEN p \in reused
         ELSE Live(p) /\ jobs[KeyOf(p, docs'[p])].status # "none"

History ==
    /\ reused' = {p \in Doc : GoesBack(p)}
    /\ crossed' = {p \in Doc : /\ p \in crossed \/ HeldStale(p) \/ HeldStale(p)'
                             /\ Exists(p)' /\ ~ToCome(p)'}

Next == Step /\ History

\* As in JobQueue: time passes and what is alive goes on, but nobody has to kick.
Fairness ==
    /\ \A r \in Request : WF_codeVars(SyncEnqueues(r))
    /\ \A d \in Drain : WF_codeVars(DrainStep(d)) /\ SF_codeVars(DrainClaims(d))
    /\ \A k \in JobKey : WF_codeVars(TimePasses(k))

Spec == Init /\ [][Next]_vars
FairSpec == Spec /\ Fairness

-----------------------------------------------------------------------------
(* Properties.                                                              *)

\* The tables, the keys in flight and the rows being embedded are well formed;
\* only a drain inside a handler holds a row.
TypeOK ==
    /\ docs \in [Doc -> DocRow]
    /\ \A p \in Doc : Exists(p) => docs[p].gen > 0 /\ docs[p].acl # Nil
    /\ chunks \in [Doc -> SUBSET [text : Text, acl : Acl]]
    /\ uploads \in [Request -> SUBSET JobKey]
    /\ snap \in [Drain -> SUBSET [text : Text \cup {Nil}, acl : Acl]]
    /\ \A d \in Drain : snap[d] # {} => pc[d] = "running"
    /\ Queue!TypeOK

\* Documents and uploads only ever use the queue as jobs.py lets them.
UsesQueue == Queue!Spec

\* migrations/0014: "leaving the document at 'pending' with no chunks,
\* permanently invisible to retrieval" must not happen: while a document waits,
\* the job its key names has not already succeeded, whatever was deleted,
\* uploaded again, retried or lost before.  Not covered, because the code does
\* not see to it: a document that is edited and then edited back (EditBackIsServed).
PendingNotSucceeded ==
    \A p \in Doc \ reused :
        docs[p].status = "pending" => jobs[CurrentKey(p)].status # "succeeded"

\* WALKTHROUGH.md: a job "embeds the chunks, and replaces that document's chunk
\* set", and an ACL edit "can never be half applied" (update_document_acl).
\* Whatever is uploaded, edited, deleted, killed and retried, by any number of
\* drains: once the job of a document's present bytes is done, its chunks are
\* those of its present text under its present ACL.  The one way out is a
\* drain that still has an older state of the document in hand when or after that
\* job reads it; one that is done before leaves no trace.
SettledIndexIsCurrent ==
    ~SlowHandlers =>
        \A p \in Doc \ crossed :
            /\ docs[p].status = "ingested"
            /\ docs[p].text # Nil
            /\ jobs[CurrentKey(p)].status = "succeeded"
            => chunks[p] = {[text |-> docs[p].text, acl |-> docs[p].acl]}

\* Two uploads of different sources never "each see room that only one of them
\* could have" (check_caps): the documents that hold text stay within the cap.
StoredWithinCap == Cardinality({p \in Doc : docs[p].text # Nil}) <= DocCap

\* sync_documents clears "the content, not just the status", and a job of a
\* document "removed before the job ran" has nothing to do: a document that is
\* gone, by sync, by hand or with its org, keeps no text and no chunks and stays
\* gone until an upload brings it back, whatever jobs of it are still queued,
\* retried or reclaimed.  Only a drain that had it in hand when it went can bring
\* the tombstone back (TombstonesStayDead).
GoneHoldsNothing ==
    \A p \in Doc \ crossed :
        /\ ~Live(p) <=> docs[p].text = Nil
        /\ docs[p].text = Nil => chunks[p] = {}

\* _mark_document_failed: a document is shown as failed only if one of the jobs
\* of its row was dead-lettered.
FailedHasDeadJob ==
    \A p \in Doc : docs[p].status = "failed" =>
        \E k \in JobKey : k.doc = p /\ k.gen = docs[p].gen /\ jobs[k].status = "dead"

\* The row that k names as it was uploaded waits.
PendingFor(k) == docs[k.doc].status = "pending" /\ CurrentKey(k.doc) = k

\* An upload committed the row and died before it enqueued the job.
NeverEnqueued(k) == jobs[k].status = "none" /\ \A r \in Request : k \notin uploads[r]

\* "Jobs left queued here wait for the next kick": no drain is there to work, or
\* the one that buried the job died before it told the document.
LeftToAKick(k) == unkicked /\ (jobs[k].status = "dead" \/ \A d \in Drain : pc[d] = "off")

\* A document that waits for a job still to come (enqueued, retried, lost with
\* its drain or about to be enqueued) is ingested, fails or goes, whatever is
\* uploaded, edited or killed meanwhile; what may keep it waiting is a death
\* between an upload's two halves, or of the drain when nobody kicks.
PendingEnds ==
    \A k \in JobKey :
        PendingFor(k) /\ ToCome(k.doc)
            ~> (~PendingFor(k) \/ NeverEnqueued(k) \/ LeftToAKick(k))

-----------------------------------------------------------------------------
(* What the documentation says and the code does not keep.                  *)

\* WALKTHROUGH.md: a path absent from an upload "is marked deleted and its
\* chunks are removed"; only an upload brings it back, with its text.
TombstonesStayDead == \A p \in Doc : Live(p) => docs[p].text # Nil

\* worker.py: "Safe to run alongside another drain".  A handler that embeds an
\* older state may write it after the job of the present one did.
IndexIsCurrent ==
    \A p \in Doc :
        docs[p].status = "ingested" /\ jobs[CurrentKey(p)].status = "succeeded"
          => {c.text : c \in chunks[p]} = {docs[p].text}

\* tenancy.update_document_acl: an edit "can never be half applied".  It is, when
\* a handler that read the row before it writes its chunks afterwards.
AclIsWhole ==
    \A p \in Doc :
        docs[p].status = "ingested" /\ jobs[CurrentKey(p)].status = "succeeded"
          => \A c \in chunks[p] : c.acl = docs[p].acl

\* migrations/0014 names delete and upload again; an edit and its undoing is the
\* same to the key.
EditBackIsServed ==
    \A p \in Doc : docs[p].status = "pending" => jobs[CurrentKey(p)].status # "succeeded"

\* WALKTHROUGH.md, of the caps: "it can refuse slightly early, never slightly
\* late".
LiveWithinCap == Cardinality({p \in Doc : Live(p)}) <= DocCap

\* WALKTHROUGH.md: a document that fails "after three attempts dead-letters to
\* status failed".
DeadLetterShows ==
    \A p \in Doc :
        docs[p].status = "pending" /\ jobs[CurrentKey(p)].status = "dead"
          => \E d \in Drain : pc[d] = "buried" /\ claim[d] = CurrentKey(p)
=============================================================================
