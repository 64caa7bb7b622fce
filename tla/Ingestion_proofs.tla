-------------------------- MODULE Ingestion_proofs --------------------------
(***************************************************************************)
(* Proofs about Ingestion, for any documents, uploads and drains.           *)
(***************************************************************************)
EXTENDS Ingestion, FiniteSetTheorems, TLAPS

\* The theorems of the queue, about the keys of ingestion.
QP == INSTANCE JobQueue_proofs WITH Key <- JobKey

-----------------------------------------------------------------------------
(* Ingestion is a use of the queue.                                         *)

\* The queue that Ingestion is built on and the one QP proves about are one.
LEMMA SameQueue ==
    /\ Queue!Init <=> QP!Init
    /\ Queue!TypeOK <=> QP!TypeOK
    /\ Queue!Next <=> QP!Next
<1>1. Queue!Init <=> QP!Init
  BY DEF Queue!Init, QP!Init, Queue!NoRow, QP!NoRow
<1>2. Queue!TypeOK <=> QP!TypeOK
  BY DEF Queue!TypeOK, QP!TypeOK, Queue!JobRow, QP!JobRow, Queue!Status, QP!Status
<1>3. ASSUME NEW k \in JobKey
      PROVE  /\ Queue!Enqueue(k) <=> QP!Enqueue(k)
             /\ Queue!BackoffElapses(k) <=> QP!BackoffElapses(k)
             /\ Queue!GoesStale(k) <=> QP!GoesStale(k)
  BY DEF Queue!Enqueue, QP!Enqueue, Queue!BackoffElapses, QP!BackoffElapses,
         Queue!GoesStale, QP!GoesStale, Queue!Working, QP!Working
<1>4. ASSUME NEW d \in Drain PROVE Queue!Claim(d) <=> QP!Claim(d)
  BY DEF Queue!Claim, QP!Claim, Queue!Due, QP!Due, Queue!Waiting, QP!Waiting,
         Queue!LockedByOther, QP!LockedByOther
<1>5. ASSUME NEW d \in Drain
      PROVE  /\ Queue!HandlerReturns(d) <=> QP!HandlerReturns(d)
             /\ Queue!Raise(d) <=> QP!Raise(d)
             /\ Queue!MarkSucceeded(d) <=> QP!MarkSucceeded(d)
             /\ Queue!ReadAttempts(d) <=> QP!ReadAttempts(d)
             /\ Queue!Requeue(d) <=> QP!Requeue(d)
             /\ Queue!Bury(d) <=> QP!Bury(d)
             /\ Queue!BuriedAway(d) <=> QP!BuriedAway(d)
             /\ Queue!Crash(d) <=> QP!Crash(d)
             /\ Queue!Kick(d) <=> QP!Kick(d)
             /\ Queue!Stop(d) <=> QP!Stop(d)
  BY DEF Queue!HandlerReturns, QP!HandlerReturns, Queue!Raise, QP!Raise,
         Queue!MarkSucceeded, QP!MarkSucceeded, Queue!ReadAttempts, QP!ReadAttempts,
         Queue!Marked, QP!Marked, Queue!Requeue, QP!Requeue, Queue!Bury, QP!Bury, Queue!BuriedAway, QP!BuriedAway,
         Queue!Crash, QP!Crash, Queue!Die, QP!Die, Queue!Up, QP!Up, Queue!Kick, QP!Kick,
         Queue!Stop, QP!Stop, Queue!NothingWaits, QP!NothingWaits, Queue!Waiting, QP!Waiting,
         Queue!PutDown, QP!PutDown
<1>6. Queue!DeleteOrg <=> QP!DeleteOrg
  BY DEF Queue!DeleteOrg, QP!DeleteOrg, Queue!NoRow, QP!NoRow
<1>7. Queue!Next <=> QP!Next
  BY <1>3, <1>4, <1>5, <1>6 DEF Queue!Next, QP!Next, Queue!DrainStep, QP!DrainStep
<1> QED
  BY <1>1, <1>2, <1>7

\* Every step of an upload, a drain or an admin is a step of the queue, or
\* leaves the queue alone.
LEMMA StepUsesQueue ==
    ASSUME uploads \in [Request -> SUBSET JobKey], [Next]_vars
    PROVE  [Queue!Next]_queueVars
<1> SUFFICES ASSUME Step PROVE Queue!Next \/ UNCHANGED queueVars
  BY DEF Next, vars, codeVars, queueVars
<1> USE DEF Queue!Next, Queue!DrainStep
<1>1. CASE Sync
  <2>1. ASSUME NEW r \in Request, NEW s \in Source, NEW items \in Items(s),
               SyncCommits(r, s, items)
        PROVE  UNCHANGED queueVars
    BY <2>1 DEF SyncCommits
  <2>2. ASSUME NEW r \in Request, SyncEnqueues(r) PROVE Queue!Next
    BY <2>2 DEF SyncEnqueues
  <2>3. ASSUME NEW r \in Request, UploadDies(r) PROVE UNCHANGED queueVars
    BY <2>3 DEF UploadDies
  <2> QED
    BY <1>1, <2>1, <2>2, <2>3 DEF Sync
<1>2. ASSUME NEW d \in Drain, DrainKicked(d) \/ DrainStep(d) \/ DrainDies(d)
      PROVE  Queue!Next \/ UNCHANGED queueVars
  <2>1. CASE HandlerReads(d)
    BY <2>1 DEF HandlerReads
  <2>2. CASE HandlerWrites(d)
    BY <2>2 DEF HandlerWrites
  <2>3. CASE \/ DrainKicked(d) \/ DrainStops(d) \/ DrainClaims(d) \/ HandlerRaises(d)
             \/ DrainMarks(d) \/ MarkDocumentFailed(d) \/ DrainDies(d)
    BY <2>3 DEF DrainKicked, DrainStops, DrainClaims, HandlerRaises, DrainMarks,
                MarkDocumentFailed, DrainDies
  <2> QED
    BY <1>2, <2>1, <2>2, <2>3 DEF DrainStep
<1>3. ASSUME NEW k \in JobKey, TimePasses(k) PROVE Queue!Next
  BY <1>3 DEF TimePasses
<1>4. CASE Admin
  BY <1>4 DEF Admin, DeleteDocument, UpdateAcl, DeleteOrg
<1> QED
  BY <1>1, <1>2, <1>3, <1>4 DEF Step

-----------------------------------------------------------------------------
(* Type correctness.                                                        *)

LEMMA QueueTypeStep ==
    ASSUME TypeOK, [Next]_vars PROVE Queue!TypeOK'
<1>1. QP!TypeOK /\ [QP!Next]_queueVars => QP!TypeOK'
  BY QP!TypeStep, QueueAssumption DEF QP!queueVars, queueVars
<1>2. [QP!Next]_queueVars
  BY StepUsesQueue, SameQueue DEF TypeOK
<1>3. QP!TypeOK
  BY SameQueue DEF TypeOK
<1>4. QP!TypeOK'
  BY <1>1, <1>2, <1>3
<1> QED
  BY <1>4 DEF Queue!TypeOK, QP!TypeOK, Queue!JobRow, QP!JobRow, Queue!Status, QP!Status

\* What an upload may write to a row.
LEMMA UpsertedType ==
    ASSUME TypeOK, NEW p \in Doc, NEW item \in [text : Text, acl : Acl],
           Exists(p) \/ docs[p].gen < MaxGeneration
    PROVE  /\ Upserted(p, item) \in DocRow
           /\ Upserted(p, item).gen > 0
           /\ Upserted(p, item).acl # Nil
           /\ Upserted(p, item).status = "pending"
           /\ Upserted(p, item).text = item.text
           /\ Upserted(p, item).hash = item.text
           /\ Upserted(p, item).gen = IF Exists(p) THEN docs[p].gen ELSE docs[p].gen + 1
           /\ Upserted(p, item).rev = IF Exists(p) THEN docs[p].rev ELSE 0
           /\ KeyOf(p, Upserted(p, item)) \in JobKey
<1> DEFINE row == IF Exists(p) THEN docs[p] ELSE [Absent EXCEPT !.gen = docs[p].gen + 1]
           new == [row EXCEPT !.status = "pending", !.hash = item.text,
                              !.text = item.text, !.acl = item.acl]
<1>1. docs[p] \in DocRow /\ MaxGeneration \in Nat /\ MaxRevision \in Nat
  BY BoundsAssumption DEF TypeOK
<1>2. /\ row \in DocRow /\ row.gen \in 1..MaxGeneration
      /\ row.gen = IF Exists(p) THEN docs[p].gen ELSE docs[p].gen + 1
      /\ row.rev = IF Exists(p) THEN docs[p].rev ELSE 0
  <2>1. CASE Exists(p)
    BY <1>1, <2>1 DEF DocRow, TypeOK
  <2>2. CASE ~Exists(p)
    BY <1>1, <2>2 DEF DocRow, Absent
  <2> QED
    BY <2>1, <2>2
<1>3. Upserted(p, item) = new
  BY DEF Upserted
<1> HIDE DEF row
<1>4. /\ new \in DocRow
      /\ new.status = "pending" /\ new.hash = item.text /\ new.text = item.text
      /\ new.acl = item.acl /\ new.gen = row.gen /\ new.rev = row.rev
  BY <1>2, Zenon DEF DocRow
<1>5. item.text \in Text /\ item.acl \in Acl /\ row.rev \in 0..MaxRevision
  BY <1>2 DEF DocRow
<1>6. KeyOf(p, new) \in JobKey
  BY <1>2, <1>4, <1>5 DEF KeyOf, JobKey
<1> QED
  BY <1>2, <1>3, <1>4, <1>5, <1>6, NilAssumption

LEMMA ItemsType ==
    ASSUME NEW s \in Source, NEW items \in Items(s)
    PROVE  /\ DOMAIN items \subseteq Doc
           /\ \A p \in DOMAIN items : items[p] \in [text : Text, acl : Acl]
  BY DEF Items, Doc

LEMMA SyncTypeStep ==
    ASSUME TypeOK, NEW r \in Request, NEW s \in Source, NEW items \in Items(s),
           SyncCommits(r, s, items), Queue!TypeOK'
    PROVE  TypeOK'
<1> DEFINE changed == {p \in DOMAIN items : ~Unchanged(p, items)}
           gone == {p \in Doc : p[1] = s /\ Live(p) /\ p \notin DOMAIN items}
<1>1. \A p \in changed :
        /\ p \in Doc
        /\ Upserted(p, items[p]) \in DocRow
        /\ Upserted(p, items[p]).gen > 0
        /\ Upserted(p, items[p]).acl # Nil
        /\ KeyOf(p, Upserted(p, items[p])) \in JobKey
  BY ItemsType, UpsertedType DEF SyncCommits
<1>2. \A p \in gone :
        /\ Tombstone(docs[p]) \in DocRow
        /\ Tombstone(docs[p]).gen > 0
        /\ Tombstone(docs[p]).acl # Nil
  <2> SUFFICES ASSUME NEW p \in gone
               PROVE  /\ Tombstone(docs[p]) \in DocRow
                      /\ Tombstone(docs[p]).gen > 0
                      /\ Tombstone(docs[p]).acl # Nil
    OBVIOUS
  <2>1. docs[p] \in DocRow /\ docs[p].gen > 0 /\ docs[p].acl # Nil
    BY DEF TypeOK, Live, Exists
  <2>2. docs[p].rev < MaxRevision /\ MaxRevision \in Nat
    BY BoundsAssumption DEF SyncCommits
  <2>3. docs[p].rev + 1 \in 0..MaxRevision
    BY <2>1, <2>2 DEF DocRow
  <2> QED
    BY <2>1, <2>3, Zenon DEF Tombstone, DocRow
<1>3. docs' = [p \in Doc |-> IF p \in changed THEN Upserted(p, items[p])
                             ELSE IF p \in gone THEN Tombstone(docs[p])
                             ELSE docs[p]]
  BY DEF SyncCommits
<1>4. docs' \in [Doc -> DocRow]
  BY <1>1, <1>2, <1>3 DEF TypeOK
<1>5. \A p \in Doc : Exists(p)' => docs'[p].gen > 0 /\ docs'[p].acl # Nil
  BY <1>1, <1>2, <1>3 DEF TypeOK, Exists
<1>6. chunks' \in [Doc -> SUBSET [text : Text, acl : Acl]]
  BY DEF SyncCommits, TypeOK
<1>7. uploads' \in [Request -> SUBSET JobKey]
  <2>1. uploads' = [uploads EXCEPT ![r] = {KeyOf(p, Upserted(p, items[p])) : p \in changed}]
    BY DEF SyncCommits
  <2>2. {KeyOf(p, Upserted(p, items[p])) : p \in changed} \subseteq JobKey
    BY <1>1
  <2> QED
    BY <2>1, <2>2 DEF TypeOK
<1>8. UNCHANGED <<snap, pc>>
  BY DEF SyncCommits, queueVars
<1> QED
  BY <1>4, <1>5, <1>6, <1>7, <1>8 DEF TypeOK

\* A row whose status alone changes is still a row.
LEMMA StatusType ==
    ASSUME TypeOK, NEW p \in Doc, Exists(p), NEW st \in {"ingested", "failed"},
           docs' = [docs EXCEPT ![p].status = st]
    PROVE  /\ docs' \in [Doc -> DocRow]
           /\ \A q \in Doc : Exists(q)' => docs'[q].gen > 0 /\ docs'[q].acl # Nil
<1>1. [docs[p] EXCEPT !.status = st] \in DocRow
  BY DEF TypeOK, DocRow
<1>2. docs' = [docs EXCEPT ![p] = [docs[p] EXCEPT !.status = st]]
  OBVIOUS
<1>3. \A q \in Doc : q # p => docs'[q] = docs[q]
  BY <1>2 DEF TypeOK
<1>4. docs'[p].gen = docs[p].gen /\ docs'[p].acl = docs[p].acl
  BY <1>2 DEF TypeOK, DocRow
<1> QED
  BY <1>1, <1>2, <1>3, <1>4 DEF TypeOK, Exists

LEMMA DrainTypeStep ==
    ASSUME TypeOK, NEW d \in Drain, DrainKicked(d) \/ DrainStep(d) \/ DrainDies(d),
           Queue!TypeOK'
    PROVE  TypeOK'
<1>1. CASE DrainKicked(d) \/ DrainStops(d) \/ DrainClaims(d)
  BY <1>1 DEF DrainKicked, DrainStops, DrainClaims, tables, Queue!Kick, Queue!Stop, Queue!Up,
              Queue!Claim, Queue!TypeOK, TypeOK, Exists
<1>2. CASE HandlerReads(d)
  <2> DEFINE k == claim[d]
  <2>1. k \in JobKey
    BY <1>2 DEF HandlerReads, TypeOK, Queue!TypeOK
  <2>2. k.doc \in Doc
    BY <2>1 DEF JobKey
  <2>3. CASE RowThere(k) /\ docs[k.doc].status # "deleted"
    <3>1. [text |-> docs[k.doc].text, acl |-> docs[k.doc].acl]
            \in [text : Text \cup {Nil}, acl : Acl]
      BY <2>2, <2>3 DEF RowThere, TypeOK, DocRow
    <3> QED
      BY <1>2, <2>3, <3>1 DEF HandlerReads, tables, queueVars, TypeOK, Exists
  <2>4. CASE ~(RowThere(k) /\ docs[k.doc].status # "deleted")
    BY <1>2, <2>4 DEF HandlerReads, tables, Queue!HandlerReturns, Queue!TypeOK,
                      TypeOK, Exists
  <2> QED
    BY <2>3, <2>4
<1>3. CASE HandlerWrites(d)
  <2> DEFINE k == claim[d]
  <2>1. k \in JobKey /\ k.doc \in Doc
    BY <1>3 DEF HandlerWrites, TypeOK, Queue!TypeOK, JobKey
  <2>2. /\ snap' = [snap EXCEPT ![d] = {}]
        /\ UNCHANGED uploads
        /\ \A e \in Drain \ {d} : pc'[e] = pc[e]
    BY <1>3 DEF HandlerWrites, Queue!HandlerReturns, Queue!Raise, TypeOK, Queue!TypeOK
  <2>3. CASE RowThere(k)
    <3>1. PICK row \in snap[d] :
            /\ chunks' = [chunks EXCEPT ![k.doc] = IF row.text = Nil THEN {} ELSE {row}]
            /\ docs' = [docs EXCEPT ![k.doc].status = "ingested"]
      BY <1>3, <2>3 DEF HandlerWrites
    <3>2. row \in [text : Text \cup {Nil}, acl : Acl]
      BY DEF TypeOK
    <3>3. (IF row.text = Nil THEN {} ELSE {row}) \subseteq [text : Text, acl : Acl]
      BY <3>2
    <3>4. chunks' \in [Doc -> SUBSET [text : Text, acl : Acl]]
      BY <3>1, <3>3 DEF TypeOK
    <3>5. /\ docs' \in [Doc -> DocRow]
          /\ \A q \in Doc : Exists(q)' => docs'[q].gen > 0 /\ docs'[q].acl # Nil
      BY <2>1, <2>3, <3>1, StatusType DEF RowThere
    <3> QED
      BY <2>2, <3>4, <3>5 DEF TypeOK
  <2>4. CASE ~RowThere(k)
    BY <1>3, <2>2, <2>4 DEF HandlerWrites, tables, TypeOK, Exists
  <2> QED
    BY <2>3, <2>4
<1>4. CASE HandlerRaises(d) \/ DrainDies(d)
  BY <1>4 DEF HandlerRaises, DrainDies, tables, Queue!Raise, Queue!Crash,
              Queue!Die, Queue!TypeOK, TypeOK, Exists
<1>5. CASE DrainMarks(d)
  BY <1>5 DEF DrainMarks, tables, Queue!MarkSucceeded, Queue!ReadAttempts, Queue!Requeue, Queue!Bury,
              Queue!PutDown, Queue!TypeOK, TypeOK, Exists
<1>6. CASE MarkDocumentFailed(d)
  <2> DEFINE k == claim[d]
  <2>1. k \in JobKey
    BY <1>6 DEF MarkDocumentFailed, Queue!BuriedAway, TypeOK, Queue!TypeOK
  <2>2. k.doc \in Doc
    BY <2>1 DEF JobKey
  <2>3. /\ docs' \in [Doc -> DocRow]
        /\ \A q \in Doc : Exists(q)' => docs'[q].gen > 0 /\ docs'[q].acl # Nil
    <3>1. CASE RowThere(k)
      BY <1>6, <2>2, <3>1, StatusType DEF MarkDocumentFailed, RowThere
    <3>2. CASE ~RowThere(k)
      BY <1>6, <3>2 DEF MarkDocumentFailed, TypeOK, Exists
    <3> QED
      BY <3>1, <3>2
  <2> QED
    BY <1>6, <2>3 DEF MarkDocumentFailed, Queue!BuriedAway, Queue!PutDown,
                      Queue!TypeOK, TypeOK
<1> QED
  BY <1>1, <1>2, <1>3, <1>4, <1>5, <1>6 DEF DrainStep

LEMMA AdminTypeStep ==
    ASSUME TypeOK, Admin, Queue!TypeOK' PROVE TypeOK'
<1>1. ASSUME NEW p \in Doc, DeleteDocument(p) PROVE TypeOK'
  <2>1. [Absent EXCEPT !.gen = docs[p].gen] \in DocRow
    BY BoundsAssumption DEF TypeOK, DocRow, Absent
  <2>2. docs' \in [Doc -> DocRow]
    BY <1>1, <2>1 DEF DeleteDocument, TypeOK
  <2>3. ~Exists(p)'
    BY <1>1 DEF DeleteDocument, TypeOK, Absent, Exists
  <2>4. \A q \in Doc : q # p => docs'[q] = docs[q]
    BY <1>1 DEF DeleteDocument, TypeOK
  <2>5. \A q \in Doc : Exists(q)' => docs'[q].gen > 0 /\ docs'[q].acl # Nil
    BY <2>3, <2>4 DEF TypeOK, Exists
  <2> QED
    BY <1>1, <2>2, <2>5 DEF DeleteDocument, queueVars, TypeOK
<1>2. ASSUME NEW p \in Doc, NEW a \in Acl, UpdateAcl(p, a) PROVE TypeOK'
  <2>1. [docs[p] EXCEPT !.acl = a] \in DocRow
    BY DEF TypeOK, DocRow
  <2>2. docs' = [docs EXCEPT ![p] = [docs[p] EXCEPT !.acl = a]]
    BY <1>2 DEF UpdateAcl
  <2>3. /\ docs'[p].gen = docs[p].gen /\ docs'[p].acl = a
        /\ \A q \in Doc : q # p => docs'[q] = docs[q]
    BY <2>2 DEF TypeOK, DocRow
  <2>4. \A q \in Doc : Exists(q)' => docs'[q].gen > 0 /\ docs'[q].acl # Nil
    BY <1>2, <2>3, NilAssumption DEF TypeOK, Exists, UpdateAcl
  <2>5. {[c EXCEPT !.acl = a] : c \in chunks[p]} \subseteq [text : Text, acl : Acl]
    BY DEF TypeOK
  <2>6. chunks' \in [Doc -> SUBSET [text : Text, acl : Acl]]
    BY <1>2, <2>5 DEF UpdateAcl, TypeOK
  <2>7. UNCHANGED <<uploads, snap, pc>>
    BY <1>2 DEF UpdateAcl, queueVars
  <2> QED
    BY <2>1, <2>2, <2>4, <2>6, <2>7 DEF TypeOK
<1>3. CASE DeleteOrg
  <2>1. \A p \in Doc : [Absent EXCEPT !.gen = docs[p].gen] \in DocRow
    BY BoundsAssumption DEF TypeOK, DocRow, Absent
  <2>2. docs' \in [Doc -> DocRow]
    BY <1>3, <2>1 DEF DeleteOrg
  <2>3. \A q \in Doc : ~Exists(q)'
    BY <1>3 DEF DeleteOrg, Absent, Exists
  <2> QED
    BY <1>3, <2>2, <2>3 DEF DeleteOrg, Queue!DeleteOrg, TypeOK
<1> QED
  BY <1>1, <1>2, <1>3 DEF Admin

LEMMA TypeStep == TypeOK /\ [Next]_vars => TypeOK'
<1> SUFFICES ASSUME TypeOK, [Next]_vars PROVE TypeOK'
  OBVIOUS
<1>1. Queue!TypeOK'
  BY QueueTypeStep
<1>2. CASE Sync
  <2>1. ASSUME NEW r \in Request, SyncEnqueues(r) PROVE TypeOK'
    <3>1. PICK k \in uploads[r] : /\ Queue!Enqueue(k)
                                  /\ uploads' = [uploads EXCEPT ![r] = @ \ {k}]
      BY <2>1 DEF SyncEnqueues
    <3>2. UNCHANGED <<tables, snap, pc>>
      BY <2>1, <3>1 DEF SyncEnqueues, Queue!Enqueue
    <3> QED
      BY <1>1, <3>1, <3>2 DEF TypeOK, tables, Exists
  <2>2. ASSUME NEW r \in Request, UploadDies(r) PROVE TypeOK'
    BY <1>1, <2>2 DEF UploadDies, tables, queueVars, TypeOK, Exists
  <2> QED
    BY <1>1, <1>2, <2>1, <2>2, SyncTypeStep DEF Sync
<1>3. ASSUME NEW d \in Drain, DrainKicked(d) \/ DrainStep(d) \/ DrainDies(d) PROVE TypeOK'
  BY <1>1, <1>3, DrainTypeStep
<1>4. ASSUME NEW k \in JobKey, TimePasses(k) PROVE TypeOK'
  BY <1>1, <1>4 DEF TimePasses, Queue!BackoffElapses, Queue!GoesStale, tables,
                    TypeOK, Exists
<1>5. CASE Admin
  BY <1>1, <1>5, AdminTypeStep
<1>6. CASE UNCHANGED vars
  BY <1>1, <1>6 DEF vars, codeVars, queueVars, TypeOK, Exists
<1> QED
  BY <1>2, <1>3, <1>4, <1>5, <1>6 DEF Next, Step

LEMMA TypeInit == Init => TypeOK
<1>1. Init => Queue!TypeOK
  <2>1. Init => QP!Init
    BY SameQueue DEF Init
  <2> QED
    BY <2>1, QP!TypeInit, QueueAssumption, SameQueue
<1>2. Absent \in DocRow
  BY BoundsAssumption DEF Absent, DocRow
<1> QED
  BY <1>1, <1>2 DEF Init, TypeOK, Exists, Absent

\* The documents, their chunks, the keys in flight and the rows being embedded
\* are well formed in every reachable state.
THEOREM TypeCorrect == Spec => []TypeOK
  BY TypeInit, TypeStep, PTL DEF Spec

\* Whatever uploads, drains and admins do, the jobs table goes only through the
\* steps of JobQueue.
THEOREM IngestionUsesQueue == Spec => UsesQueue
<1>1. Init => Queue!Init
  BY DEF Init
<1>2. TypeOK /\ [Next]_vars => [Queue!Next]_queueVars
  BY StepUsesQueue DEF TypeOK
<1> QED
  BY <1>1, <1>2, TypeCorrect, PTL DEF Spec, UsesQueue, Queue!Spec, Queue!queueVars, queueVars

-----------------------------------------------------------------------------
(* What the queue's theorems say of ingestion.                              *)

\* No document is embedded by two drains for one job, retries and reclaims
\* included, if handlers end before their claim goes stale.
THEOREM ClaimsAreExclusive == Spec => []Queue!ExclusiveClaim
<1>1. Spec => QP!Spec
  <2>1. Init => QP!Init
    BY SameQueue DEF Init
  <2>2. TypeOK /\ [Next]_vars => [QP!Next]_(QP!queueVars)
    BY StepUsesQueue, SameQueue DEF TypeOK, QP!queueVars, queueVars
  <2> QED
    BY <2>1, <2>2, TypeCorrect, PTL DEF Spec, QP!Spec
<1>2. QP!Spec => []QP!ExclusiveClaim
  BY QP!ClaimsAreExclusive, QueueAssumption
<1>3. QP!ExclusiveClaim => Queue!ExclusiveClaim
  BY DEF QP!ExclusiveClaim, Queue!ExclusiveClaim, QP!Working, Queue!Working
<1> QED
  BY <1>1, <1>2, <1>3, PTL

-----------------------------------------------------------------------------
(* Documents that are gone.                                                 *)

\* Half of GoneHoldsNothing needs no word about who has what in hand: a step
\* that gives a tombstone chunks makes it a live document.
GoneIsEmpty == \A p \in Doc : ~Live(p) => docs[p].text = Nil /\ chunks[p] = {}

\* The rows that the steps of a drain touch are there.
LEMMA EmptyStep ==
    TypeOK /\ GoneIsEmpty /\ [Next]_vars => GoneIsEmpty'
<1> SUFFICES ASSUME TypeOK, GoneIsEmpty, [Next]_vars,
                    NEW x \in Doc, ~Live(x)'
             PROVE  docs'[x].text = Nil /\ chunks'[x] = {}
  BY DEF GoneIsEmpty
<1>0. /\ docs[x] \in DocRow
      /\ ~Live(x) => docs[x].text = Nil /\ chunks[x] = {}
  BY DEF TypeOK, GoneIsEmpty
<1>1. ASSUME NEW r \in Request, NEW s \in Source, NEW items \in Items(s),
             SyncCommits(r, s, items)
      PROVE  docs'[x].text = Nil /\ chunks'[x] = {}
  <2> DEFINE changed == {p \in DOMAIN items : ~Unchanged(p, items)}
             gone == {p \in Doc : p[1] = s /\ Live(p) /\ p \notin DOMAIN items}
  <2>1. docs'[x] = IF x \in changed THEN Upserted(x, items[x])
                   ELSE IF x \in gone THEN Tombstone(docs[x]) ELSE docs[x]
    BY <1>1 DEF SyncCommits
  <2>2. chunks'[x] = IF x \in gone THEN {} ELSE chunks[x]
    BY <1>1 DEF SyncCommits
  <2>3. x \notin changed
    <3> SUFFICES ASSUME x \in changed PROVE FALSE
      OBVIOUS
    <3>1. Upserted(x, items[x]).status = "pending"
      BY <1>1, ItemsType, UpsertedType DEF SyncCommits
    <3> QED
      BY <2>1, <3>1 DEF Live
  <2>4. CASE x \in gone
    <3>1. Tombstone(docs[x]).text = Nil
      BY <1>0, Zenon DEF Tombstone, DocRow
    <3> QED
      BY <2>1, <2>2, <2>3, <2>4, <3>1
  <2>5. CASE x \notin gone
    BY <1>0, <2>1, <2>2, <2>3, <2>5 DEF Live
  <2> QED
    BY <2>4, <2>5
<1>2. ASSUME NEW r \in Request, SyncEnqueues(r) \/ UploadDies(r)
      PROVE  docs'[x].text = Nil /\ chunks'[x] = {}
  BY <1>0, <1>2 DEF SyncEnqueues, UploadDies, tables, Live
<1>3. ASSUME NEW d \in Drain, HandlerWrites(d)
      PROVE  docs'[x].text = Nil /\ chunks'[x] = {}
  <2> DEFINE k == claim[d]
  <2>1. k.doc \in Doc
    BY <1>3 DEF HandlerWrites, TypeOK, Queue!TypeOK, JobKey
  <2>2. CASE RowThere(k)
    <3>1. PICK made \in SUBSET [text : Text \cup {Nil}, acl : Acl] :
            /\ chunks' = [chunks EXCEPT ![k.doc] = made]
            /\ docs' = [docs EXCEPT ![k.doc].status = "ingested"]
      BY <1>3, <2>2 DEF HandlerWrites, TypeOK
    <3>2. docs'[k.doc].status = "ingested"
      BY <2>1, <3>1 DEF TypeOK, DocRow
    <3>3. x # k.doc
      BY <3>2 DEF Live
    <3> QED
      BY <1>0, <3>1, <3>3 DEF TypeOK, Live
  <2>3. CASE ~RowThere(k)
    BY <1>0, <1>3, <2>3 DEF HandlerWrites, tables, Live
  <2> QED
    BY <2>2, <2>3
<1>4. ASSUME NEW d \in Drain, MarkDocumentFailed(d)
      PROVE  docs'[x].text = Nil /\ chunks'[x] = {}
  <2> DEFINE k == claim[d]
  <2>1. k.doc \in Doc
    BY <1>4 DEF MarkDocumentFailed, Queue!BuriedAway, TypeOK, Queue!TypeOK, JobKey
  <2>2. CASE RowThere(k)
    <3>1. docs' = [docs EXCEPT ![k.doc].status = "failed"] /\ chunks' = chunks
      BY <1>4, <2>2 DEF MarkDocumentFailed
    <3>2. docs'[k.doc].status = "failed"
      BY <2>1, <3>1 DEF TypeOK, DocRow
    <3>3. x # k.doc
      BY <3>2 DEF Live
    <3> QED
      BY <1>0, <3>1, <3>3 DEF TypeOK, Live
  <2>3. CASE ~RowThere(k)
    BY <1>0, <1>4, <2>3 DEF MarkDocumentFailed, Live
  <2> QED
    BY <2>2, <2>3
<1>5. ASSUME NEW d \in Drain,
             \/ DrainKicked(d) \/ DrainStops(d) \/ DrainClaims(d) \/ HandlerReads(d)
             \/ HandlerRaises(d) \/ DrainMarks(d) \/ DrainDies(d)
      PROVE  docs'[x].text = Nil /\ chunks'[x] = {}
  BY <1>0, <1>5 DEF DrainKicked, DrainStops, DrainClaims, HandlerReads, HandlerRaises,
                    DrainMarks, DrainDies, tables, Live
<1>6. ASSUME NEW k \in JobKey, TimePasses(k)
      PROVE  docs'[x].text = Nil /\ chunks'[x] = {}
  BY <1>0, <1>6 DEF TimePasses, tables, Live
<1>7. ASSUME NEW p \in Doc, DeleteDocument(p)
      PROVE  docs'[x].text = Nil /\ chunks'[x] = {}
  BY <1>0, <1>7 DEF DeleteDocument, TypeOK, Absent, Live
<1>8. ASSUME NEW p \in Doc, NEW a \in Acl, UpdateAcl(p, a)
      PROVE  docs'[x].text = Nil /\ chunks'[x] = {}
  <2>1. docs'[x].status = docs[x].status /\ docs'[x].text = docs[x].text
    BY <1>0, <1>8 DEF UpdateAcl, TypeOK, DocRow
  <2>2. chunks[x] = {}
    BY <1>0, <2>1 DEF Live
  <2>3. chunks'[x] = {}
    BY <1>8, <2>2 DEF UpdateAcl, TypeOK
  <2> QED
    BY <1>0, <2>1, <2>3 DEF Live
<1>9. CASE DeleteOrg
  BY <1>9 DEF DeleteOrg, Absent
<1>10. CASE UNCHANGED vars
  BY <1>0, <1>10 DEF vars, codeVars, Live
<1> QED
  BY <1>1, <1>2, <1>3, <1>4, <1>5, <1>6, <1>7, <1>8, <1>9, <1>10
     DEF Next, Step, Sync, DrainStep, Admin

LEMMA EmptyWhenGone == Spec => []GoneIsEmpty
<1>1. Init => GoneIsEmpty
  BY DEF Init, GoneIsEmpty, Absent
<1> QED
  BY <1>1, EmptyStep, TypeCorrect, PTL DEF Spec

-----------------------------------------------------------------------------
(* The document cap.                                                        *)

Stored == {p \in Doc : docs[p].text # Nil}

\* Only an upload gives a row a text.
LEMMA StoredOnlyBySync ==
    ASSUME TypeOK, [Next]_vars,
           ~\E r \in Request, s \in Source : \E items \in Items(s) : SyncCommits(r, s, items)
    PROVE  Stored' \subseteq Stored
<1> SUFFICES ASSUME NEW x \in Doc, docs'[x].text # Nil PROVE docs[x].text # Nil
  BY DEF Stored
<1>0. docs[x] \in DocRow
  BY DEF TypeOK
<1>1. ASSUME UNCHANGED docs PROVE docs[x].text # Nil
  BY <1>1
<1>2. ASSUME NEW d \in Drain, HandlerWrites(d) \/ MarkDocumentFailed(d) PROVE docs[x].text # Nil
  <2>1. \/ UNCHANGED docs
        \/ \E p \in Doc, st \in {"ingested", "failed"} : docs' = [docs EXCEPT ![p].status = st]
    <3>1. claim[d].doc \in Doc
      BY <1>2 DEF HandlerWrites, MarkDocumentFailed, Queue!BuriedAway, TypeOK, Queue!TypeOK, JobKey
    <3>2. CASE RowThere(claim[d])
      BY <1>2, <3>1, <3>2 DEF HandlerWrites, MarkDocumentFailed
    <3>3. CASE ~RowThere(claim[d])
      BY <1>2, <3>3 DEF HandlerWrites, MarkDocumentFailed, tables
    <3> QED
      BY <3>2, <3>3
  <2> QED
    BY <1>0, <2>1 DEF TypeOK, DocRow
<1>3. ASSUME NEW d \in Drain,
             \/ DrainKicked(d) \/ DrainStops(d) \/ DrainClaims(d) \/ HandlerReads(d)
             \/ HandlerRaises(d) \/ DrainMarks(d) \/ DrainDies(d)
      PROVE  docs[x].text # Nil
  BY <1>3 DEF DrainKicked, DrainStops, DrainClaims, HandlerReads, HandlerRaises, DrainMarks,
              DrainDies, tables
<1>4. ASSUME NEW p \in Doc, DeleteDocument(p) PROVE docs[x].text # Nil
  BY <1>4 DEF DeleteDocument, TypeOK, Absent
<1>5. ASSUME NEW p \in Doc, NEW a \in Acl, UpdateAcl(p, a) PROVE docs[x].text # Nil
  BY <1>0, <1>5 DEF UpdateAcl, TypeOK, DocRow
<1>6. CASE DeleteOrg
  BY <1>6 DEF DeleteOrg, Absent
<1>7. ASSUME NEW r \in Request, SyncEnqueues(r) \/ UploadDies(r) PROVE docs[x].text # Nil
  BY <1>7 DEF SyncEnqueues, UploadDies, tables
<1>8. ASSUME NEW k \in JobKey, TimePasses(k) PROVE docs[x].text # Nil
  BY <1>8 DEF TimePasses, tables
<1>9. CASE UNCHANGED vars
  BY <1>9 DEF vars, codeVars
<1> QED
  BY <1>2, <1>3, <1>4, <1>5, <1>6, <1>7, <1>8, <1>9 DEF Next, Step, Sync, DrainStep, Admin

LEMMA CapStep ==
    TypeOK /\ GoneIsEmpty /\ StoredWithinCap /\ [Next]_vars => StoredWithinCap'
<1> SUFFICES ASSUME TypeOK, GoneIsEmpty, StoredWithinCap, [Next]_vars
             PROVE  StoredWithinCap'
  OBVIOUS
<1>1. IsFiniteSet(Doc)
  BY FiniteAssumption, FS_Product DEF Doc
<1>2. \A S \in SUBSET Doc : IsFiniteSet(S) /\ Cardinality(S) \in Nat
  BY <1>1, FS_Subset, FS_CardinalityType
<1>3. Cardinality(Stored) <= DocCap /\ DocCap \in Nat
  BY BoundsAssumption DEF StoredWithinCap, Stored
<1>4. CASE Stored' \subseteq Stored
  <2>1. Stored \in SUBSET Doc /\ Stored' \in SUBSET Doc
    BY DEF Stored
  <2>2. Cardinality(Stored') <= Cardinality(Stored)
    BY <1>2, <1>4, <2>1, FS_Subset
  <2>3. Cardinality(Stored') <= DocCap
    BY <1>2, <1>3, <2>1, <2>2
  <2> QED
    BY <2>3 DEF StoredWithinCap, Stored
<1>5. ASSUME NEW r \in Request, NEW s \in Source, NEW items \in Items(s),
             SyncCommits(r, s, items)
      PROVE  StoredWithinCap'
  <2> DEFINE L == {p \in Doc : Live(p)}
             U == L \cup DOMAIN items
  <2>1. Stored' \subseteq U
    <3> SUFFICES ASSUME NEW x \in Doc, x \notin L, x \notin DOMAIN items
                 PROVE  docs'[x].text = Nil
      BY DEF Stored
    <3>1. docs'[x] = docs[x]
      BY <1>5 DEF SyncCommits
    <3> QED
      BY <3>1 DEF GoneIsEmpty
  <2>2. /\ L \in SUBSET Doc /\ DOMAIN items \in SUBSET Doc
        /\ U \in SUBSET Doc /\ Stored' \in SUBSET Doc
    BY ItemsType DEF Stored
  <2>3. Cardinality(Stored') <= Cardinality(U)
    BY <1>2, <2>1, <2>2, FS_Subset
  <2>4. Cardinality(U) <= Cardinality(L) + Cardinality(DOMAIN items)
    <3>1. Cardinality(U) = Cardinality(L) + Cardinality(DOMAIN items)
                             - Cardinality(L \cap DOMAIN items)
      BY <1>2, <2>2, FS_Union
    <3>2. L \cap DOMAIN items \in SUBSET Doc
      BY <2>2
    <3> QED
      BY <1>2, <2>2, <3>1, <3>2
  <2>5. Cardinality(L) + Cardinality(DOMAIN items) <= DocCap
    BY <1>5 DEF SyncCommits, WithinCap
  <2>6. Cardinality(Stored') <= DocCap
    <3> HIDE DEF L, U
    <3> QED
      BY <1>2, <1>3, <2>2, <2>3, <2>4, <2>5
  <2> QED
    BY <2>6 DEF StoredWithinCap, Stored
<1> QED
  BY <1>4, <1>5, StoredOnlyBySync

\* However many uploads run at once, the documents that hold text stay within
\* the cap of their org.
THEOREM CapIsKept == Spec => []StoredWithinCap
<1>1. Init => StoredWithinCap
  <2> SUFFICES ASSUME Init PROVE Cardinality({p \in Doc : docs[p].text # Nil}) <= DocCap
    BY DEF StoredWithinCap
  <2>1. {p \in Doc : docs[p].text # Nil} = {}
    BY DEF Init, Absent
  <2>2. Cardinality({p \in Doc : docs[p].text # Nil}) = 0
    BY <2>1, FS_EmptySet, Zenon
  <2>3. DocCap \in Nat
    BY BoundsAssumption
  <2> QED
    BY <2>2, <2>3
<1> QED
  BY <1>1, CapStep, TypeCorrect, EmptyWhenGone, PTL DEF Spec

-----------------------------------------------------------------------------
(* A waiting document has a job to come.                                    *)

\* A key that some upload made and has enqueued, or is about to.
Used(k) == jobs[k].status # "none" \/ \E r \in Request : k \in uploads[r]

\* Keys are never ahead of the rows they were made for, and a row that was
\* emptied is ahead of all of its keys: that is what the revision is for.
KeysBehind ==
    \A k \in JobKey : Used(k) =>
        /\ k.gen <= docs[k.doc].gen
        /\ Exists(k.doc) /\ k.gen = docs[k.doc].gen =>
             /\ k.rev <= docs[k.doc].rev
             /\ docs[k.doc].text = Nil => k.rev < docs[k.doc].rev

\* A drain's job has its row as long as the org is there.
ClaimsHaveRows ==
    orgLive => \A d \in Drain : claim[d] # NoJob => jobs[claim[d]].status # "none"

\* A document that is there belongs to an org and has the hash its key is made of.
RowsHaveKeys == \A p \in Doc : Exists(p) => orgLive /\ docs[p].hash \in Text

\* A document that waits has a text, and no drain is through with its handler,
\* unless it went back to bytes that had a job.
PendingIsOpen ==
    \A p \in Doc : docs[p].status = "pending" =>
        /\ docs[p].text # Nil
        /\ p \notin reused =>
             \A d \in Drain : claim[d] = CurrentKey(p) => pc[d] # "handled"

Lineage ==
    /\ GoneIsEmpty
    /\ KeysBehind
    /\ ClaimsHaveRows
    /\ RowsHaveKeys
    /\ PendingIsOpen
    /\ PendingNotSucceeded

LEMMA CurrentKeyType ==
    ASSUME TypeOK, RowsHaveKeys, NEW p \in Doc, Exists(p)
    PROVE  /\ CurrentKey(p) \in JobKey
           /\ CurrentKey(p).doc = p
           /\ CurrentKey(p).gen = docs[p].gen /\ CurrentKey(p).rev = docs[p].rev
<1>1. docs[p] \in DocRow /\ docs[p].gen > 0 /\ docs[p].hash \in Text
  BY DEF TypeOK, RowsHaveKeys
<1> QED
  BY <1>1, BoundsAssumption DEF DocRow, CurrentKey, KeyOf, JobKey

\* A document that goes on waiting for the same bytes is marked as before.
LEMMA ReusedKept ==
    ASSUME [Next]_vars, NEW p \in Doc, docs'[p].status = "pending",
           docs[p].status = "pending", docs'[p].hash = docs[p].hash
    PROVE  p \in reused' <=> p \in reused
<1>1. CASE UNCHANGED vars
  BY <1>1 DEF vars
<1>2. CASE History
  BY <1>2 DEF History, GoesBack
<1> QED
  BY <1>1, <1>2 DEF Next

\* A step that makes no key, leaves every row its place and its bytes and lets no
\* document wait that did not wait before keeps the lineage, if a job it ends was
\* handled and a handler it ends was not a waiting document's.
LEMMA LineageKept ==
    ASSUME TypeOK, Lineage, GoneIsEmpty', [Next]_vars,
           \A k \in JobKey : Used(k)' => Used(k),
           \A p \in Doc :
             /\ docs'[p].gen = docs[p].gen
             /\ Exists(p)' => /\ Exists(p)
                              /\ docs'[p].rev = docs[p].rev
                              /\ docs'[p].hash = docs[p].hash
                              /\ docs'[p].text = docs[p].text
             /\ docs'[p].status = "pending" => docs[p].status = "pending",
           orgLive' = orgLive,
           orgLive => \A d \in Drain : claim'[d] # NoJob => jobs'[claim'[d]].status # "none",
           \A p \in Doc, d \in Drain :
             docs'[p].status = "pending" /\ pc'[d] = "handled" /\ claim'[d] = CurrentKey(p)
               => pc[d] = "handled" /\ claim[d] = CurrentKey(p),
           \A k \in JobKey : jobs'[k].status = "succeeded" =>
             jobs[k].status = "succeeded" \/ \E d \in Drain : pc[d] = "handled" /\ claim[d] = k
    PROVE  Lineage'
<1>1. KeysBehind'
  <2> SUFFICES ASSUME NEW k \in JobKey, Used(k)
               PROVE  /\ k.gen <= docs'[k.doc].gen
                      /\ Exists(k.doc)' /\ k.gen = docs'[k.doc].gen =>
                           /\ k.rev <= docs'[k.doc].rev
                           /\ docs'[k.doc].text = Nil => k.rev < docs'[k.doc].rev
    BY DEF KeysBehind
  <2>1. k.doc \in Doc
    BY DEF JobKey
  <2> QED
    BY <2>1 DEF Lineage, KeysBehind
<1>2. ClaimsHaveRows'
  BY DEF ClaimsHaveRows
<1>3. RowsHaveKeys'
  BY DEF Lineage, RowsHaveKeys
<1>4. \A p \in Doc : docs'[p].status = "pending" =>
        /\ docs[p].status = "pending" /\ docs'[p].text = docs[p].text
        /\ p \in reused' <=> p \in reused
        /\ CurrentKey(p)' = CurrentKey(p)
        /\ CurrentKey(p) \in JobKey
  <2> SUFFICES ASSUME NEW p \in Doc, docs'[p].status = "pending"
               PROVE  /\ docs[p].status = "pending" /\ docs'[p].text = docs[p].text
                      /\ p \in reused' <=> p \in reused
                      /\ CurrentKey(p)' = CurrentKey(p)
                      /\ CurrentKey(p) \in JobKey
    OBVIOUS
  <2>1. Exists(p)' /\ Exists(p) /\ docs[p].status = "pending"
    BY DEF Exists
  <2>2. CurrentKey(p)' = CurrentKey(p)
    BY <2>1 DEF CurrentKey, KeyOf
  <2>3. p \in reused' <=> p \in reused
    BY <2>1, ReusedKept
  <2> QED
    BY <2>1, <2>2, <2>3, CurrentKeyType DEF Lineage
<1>5. PendingIsOpen'
  BY <1>4 DEF Lineage, PendingIsOpen
<1>6. PendingNotSucceeded'
  BY <1>4 DEF Lineage, PendingIsOpen, PendingNotSucceeded
<1> QED
  BY <1>1, <1>2, <1>3, <1>5, <1>6 DEF Lineage

\* What the queue does when a drain d moves: no row comes or goes, and only a
\* handled job succeeds.
LEMMA QueueMoves ==
    ASSUME TypeOK, ClaimsHaveRows, NEW d \in Drain,
           \/ Queue!Claim(d) \/ Queue!HandlerReturns(d) \/ Queue!Raise(d)
           \/ Queue!MarkSucceeded(d) \/ Queue!ReadAttempts(d) \/ Queue!Requeue(d)
           \/ Queue!Bury(d) \/ Queue!BuriedAway(d) \/ Queue!Crash(d)
           \/ Queue!Kick(d) \/ Queue!Stop(d)
    PROVE  /\ orgLive' = orgLive
           /\ \A k \in JobKey : jobs'[k].status = "none" <=> jobs[k].status = "none"
           /\ orgLive => \A e \in Drain : claim'[e] # NoJob => jobs'[claim'[e]].status # "none"
           /\ \A k \in JobKey : jobs'[k].status = "succeeded" =>
                jobs[k].status = "succeeded" \/ (pc[d] = "handled" /\ claim[d] = k)
           /\ \A e \in Drain : pc'[e] = "handled" =>
                /\ claim'[e] = claim[e]
                /\ pc[e] = "handled" \/ (e = d /\ Queue!HandlerReturns(d))
<1> USE DEF TypeOK, Queue!TypeOK, Queue!JobRow, Queue!Status
<1>1. CASE Queue!Claim(d)
  <2>1. PICK k \in JobKey :
          /\ jobs[k].status \in {"queued", "running"}
          /\ jobs' = [jobs EXCEPT ![k] = [status   |-> "running",
                                          attempts |-> jobs[k].attempts + 1,
                                          due      |-> FALSE]]
          /\ claim' = [claim EXCEPT ![d] = k]
    <3>1. PICK i \in DOMAIN order :
            /\ Queue!Due(order[i])
            /\ jobs' = [jobs EXCEPT ![order[i]] = [status   |-> "running",
                                                   attempts |-> jobs[order[i]].attempts + 1,
                                                   due      |-> FALSE]]
            /\ claim' = [claim EXCEPT ![d] = order[i]]
      BY <1>1 DEF Queue!Claim
    <3>2. order[i] \in JobKey
      OBVIOUS
    <3> QED
      BY <3>1, <3>2 DEF Queue!Due, Queue!Waiting
  <2>2. /\ jobs'[k].status = "running"
        /\ \A j \in JobKey \ {k} : jobs'[j] = jobs[j]
    BY <2>1
  <2>3. /\ orgLive' = orgLive
        /\ pc'[d] = "running" /\ claim'[d] = k
        /\ \A e \in Drain \ {d} : pc'[e] = pc[e] /\ claim'[e] = claim[e]
    BY <1>1, <2>1 DEF Queue!Claim
  <2>4. ASSUME orgLive, NEW e \in Drain, claim'[e] # NoJob
        PROVE  jobs'[claim'[e]].status # "none"
    <3>1. CASE e = d
      BY <2>2, <2>3, <3>1
    <3>2. CASE e # d
      <4>1. claim'[e] \in JobKey /\ jobs[claim'[e]].status # "none"
        BY <2>3, <2>4, <3>2 DEF ClaimsHaveRows
      <4> QED
        BY <2>2, <4>1
    <3> QED
      BY <3>1, <3>2
  <2> QED
    BY <2>1, <2>2, <2>3, <2>4
<1>2. CASE Queue!MarkSucceeded(d) \/ Queue!Requeue(d) \/ Queue!Bury(d)
  <2>1. claim[d] \in JobKey
    BY <1>2 DEF Queue!MarkSucceeded, Queue!Requeue, Queue!Bury
  <2>2. PICK st \in {"succeeded", "queued", "dead"} :
          /\ jobs' = Queue!Marked(claim[d], st)
          /\ st = "succeeded" => pc[d] = "handled"
    BY <1>2 DEF Queue!MarkSucceeded, Queue!Requeue, Queue!Bury
  <2>3. \A j \in JobKey : /\ j # claim[d] => jobs'[j] = jobs[j]
                          /\ jobs'[j].status = "none" <=> jobs[j].status = "none"
                          /\ jobs'[j].status = "succeeded" =>
                               jobs[j].status = "succeeded" \/ (pc[d] = "handled" /\ claim[d] = j)
    BY <2>1, <2>2 DEF Queue!Marked
  <2>4. /\ orgLive' = orgLive
        /\ pc'[d] # "handled"
        /\ \A e \in Drain : claim'[e] # NoJob => claim'[e] = claim[e]
        /\ \A e \in Drain \ {d} : pc'[e] = pc[e] /\ claim'[e] = claim[e]
    BY <1>2 DEF Queue!MarkSucceeded, Queue!Requeue, Queue!Bury, Queue!PutDown
  <2> QED
    BY <2>3, <2>4 DEF ClaimsHaveRows
<1>3. CASE \/ Queue!HandlerReturns(d) \/ Queue!Raise(d) \/ Queue!ReadAttempts(d)
           \/ Queue!BuriedAway(d) \/ Queue!Crash(d)
           \/ Queue!Kick(d) \/ Queue!Stop(d)
  <2>1. /\ UNCHANGED <<jobs, orgLive>>
        /\ \A e \in Drain : claim'[e] # NoJob => claim'[e] = claim[e]
        /\ \A e \in Drain \ {d} : pc'[e] = pc[e] /\ claim'[e] = claim[e]
        /\ pc'[d] = "handled" =>
             /\ claim'[d] = claim[d]
             /\ pc[d] = "handled" \/ Queue!HandlerReturns(d)
    BY <1>3 DEF Queue!HandlerReturns, Queue!Raise, Queue!ReadAttempts, Queue!BuriedAway,
                Queue!Crash, Queue!PutDown, Queue!Die, Queue!Kick, Queue!Stop, Queue!Up
  <2> QED
    BY <2>1 DEF ClaimsHaveRows
<1> QED
  BY <1>1, <1>2, <1>3

LEMMA DrainLineage ==
    ASSUME TypeOK, Lineage, GoneIsEmpty', [Next]_vars, NEW d \in Drain,
           DrainKicked(d) \/ DrainStep(d) \/ DrainDies(d)
    PROVE  Lineage'
<1>1. \/ Queue!Claim(d) \/ Queue!HandlerReturns(d) \/ Queue!Raise(d)
      \/ Queue!MarkSucceeded(d) \/ Queue!ReadAttempts(d) \/ Queue!Requeue(d)
      \/ Queue!Bury(d) \/ Queue!BuriedAway(d) \/ Queue!Crash(d)
      \/ Queue!Kick(d) \/ Queue!Stop(d)
      \/ UNCHANGED queueVars
  BY DEF DrainKicked, DrainStops, DrainStep, DrainClaims, HandlerReads, HandlerWrites, HandlerRaises,
         DrainMarks, MarkDocumentFailed, DrainDies
<1>2. /\ orgLive' = orgLive
      /\ \A k \in JobKey : jobs'[k].status = "none" <=> jobs[k].status = "none"
      /\ orgLive => \A e \in Drain : claim'[e] # NoJob => jobs'[claim'[e]].status # "none"
      /\ \A k \in JobKey : jobs'[k].status = "succeeded" =>
           jobs[k].status = "succeeded" \/ (pc[d] = "handled" /\ claim[d] = k)
      /\ \A e \in Drain : pc'[e] = "handled" =>
           /\ claim'[e] = claim[e]
           /\ pc[e] = "handled" \/ (e = d /\ Queue!HandlerReturns(d))
  <2>1. CASE UNCHANGED queueVars
    BY <2>1 DEF queueVars, Lineage, ClaimsHaveRows
  <2>2. CASE ~UNCHANGED queueVars
    BY <1>1, <2>2, QueueMoves DEF Lineage
  <2> QED
    BY <2>1, <2>2
<1>3. UNCHANGED uploads
  BY DEF DrainKicked, DrainStops, DrainStep, DrainClaims, HandlerReads, HandlerWrites, HandlerRaises,
         DrainMarks, MarkDocumentFailed, DrainDies
<1>4. \/ UNCHANGED docs
      \/ \E p \in Doc, st \in {"ingested", "failed"} :
           Exists(p) /\ docs' = [docs EXCEPT ![p].status = st]
  <2>1. CASE HandlerWrites(d) \/ MarkDocumentFailed(d)
    <3>1. claim[d].doc \in Doc
      BY <2>1 DEF HandlerWrites, MarkDocumentFailed, Queue!BuriedAway, TypeOK, Queue!TypeOK, JobKey
    <3>2. CASE RowThere(claim[d])
      BY <2>1, <3>1, <3>2 DEF HandlerWrites, MarkDocumentFailed, RowThere
    <3>3. CASE ~RowThere(claim[d])
      BY <2>1, <3>3 DEF HandlerWrites, MarkDocumentFailed, tables
    <3> QED
      BY <3>2, <3>3
  <2>2. CASE \/ DrainKicked(d) \/ DrainStops(d) \/ DrainClaims(d) \/ HandlerReads(d)
             \/ HandlerRaises(d) \/ DrainMarks(d) \/ DrainDies(d)
    BY <2>2 DEF DrainKicked, DrainStops, DrainClaims, HandlerReads, HandlerRaises, DrainMarks,
                DrainDies, tables
  <2> QED
    BY <2>1, <2>2 DEF DrainStep
<1>5. \A p \in Doc :
        /\ docs'[p].gen = docs[p].gen /\ docs'[p].rev = docs[p].rev
        /\ docs'[p].hash = docs[p].hash /\ docs'[p].text = docs[p].text
        /\ \/ docs'[p].status = docs[p].status
           \/ Exists(p) /\ docs'[p].status \in {"ingested", "failed"}
  BY <1>4 DEF TypeOK, DocRow
<1>6. ASSUME NEW p \in Doc, docs'[p].status = "pending", Queue!HandlerReturns(d),
             claim[d] = CurrentKey(p)
      PROVE  FALSE
  <2>1. docs[p].status = "pending"
    BY <1>5, <1>6
  <2>2. RowThere(claim[d]) /\ claim[d].doc = p
    BY <1>6, <2>1 DEF RowThere, CurrentKey, KeyOf, Exists
  <2>3. pc[d] = "running" /\ pc'[d] = "handled"
    BY <1>6 DEF Queue!HandlerReturns, TypeOK, Queue!TypeOK
  <2>4. HandlerReads(d) \/ HandlerWrites(d)
    BY <2>3 DEF DrainKicked, DrainStops, DrainStep, DrainClaims, HandlerRaises, DrainMarks,
                MarkDocumentFailed, DrainDies, Queue!Kick, Queue!Stop, Queue!Die, Queue!Claim, Queue!Raise, Queue!MarkSucceeded, Queue!ReadAttempts, Queue!Requeue,
                Queue!Bury, Queue!BuriedAway, Queue!Crash, Queue!PutDown, TypeOK, Queue!TypeOK
  <2>5. CASE HandlerReads(d)
    BY <2>1, <2>2, <2>3, <2>5 DEF HandlerReads, queueVars
  <2>6. CASE HandlerWrites(d)
    <3>1. docs' = [docs EXCEPT ![p].status = "ingested"]
      BY <2>2, <2>6 DEF HandlerWrites
    <3> QED
      BY <1>6, <3>1 DEF TypeOK, DocRow
  <2> QED
    BY <2>4, <2>5, <2>6
<1>7. \A k \in JobKey : Used(k)' => Used(k)
  BY <1>2, <1>3 DEF Used
<1>8. \A p \in Doc :
        /\ docs'[p].gen = docs[p].gen
        /\ Exists(p)' => /\ Exists(p)
                         /\ docs'[p].rev = docs[p].rev
                         /\ docs'[p].hash = docs[p].hash
                         /\ docs'[p].text = docs[p].text
        /\ docs'[p].status = "pending" => docs[p].status = "pending"
  BY <1>5 DEF Exists
<1>9. \A p \in Doc, e \in Drain :
        docs'[p].status = "pending" /\ pc'[e] = "handled" /\ claim'[e] = CurrentKey(p)
          => pc[e] = "handled" /\ claim[e] = CurrentKey(p)
  BY <1>2, <1>6
<1> QED
  BY <1>2, <1>7, <1>8, <1>9, LineageKept

LEMMA AdminLineage ==
    ASSUME TypeOK, Lineage, GoneIsEmpty', [Next]_vars, Admin PROVE Lineage'
<1>1. ASSUME NEW p \in Doc, DeleteDocument(p) \/ \E a \in Acl : UpdateAcl(p, a) PROVE Lineage'
  <2>1. UNCHANGED <<uploads, queueVars>>
    BY <1>1 DEF DeleteDocument, UpdateAcl
  <2>2. \A q \in Doc :
          /\ docs'[q].gen = docs[q].gen
          /\ \/ docs'[q].status = "none"
             \/ /\ docs'[q].status = docs[q].status
                /\ docs'[q].rev = docs[q].rev /\ docs'[q].hash = docs[q].hash
                /\ docs'[q].text = docs[q].text
    BY <1>1 DEF DeleteDocument, UpdateAcl, Absent, TypeOK, DocRow
  <2>3. \A k \in JobKey : Used(k)' => Used(k)
    BY <2>1 DEF Used, queueVars
  <2>4. \A q \in Doc :
          /\ docs'[q].gen = docs[q].gen
          /\ Exists(q)' => /\ Exists(q)
                           /\ docs'[q].rev = docs[q].rev
                           /\ docs'[q].hash = docs[q].hash
                           /\ docs'[q].text = docs[q].text
          /\ docs'[q].status = "pending" => docs[q].status = "pending"
    BY <2>2 DEF Exists
  <2>5. orgLive => \A e \in Drain : claim'[e] # NoJob => jobs'[claim'[e]].status # "none"
    BY <2>1 DEF queueVars, Lineage, ClaimsHaveRows
  <2> QED
    BY <2>1, <2>3, <2>4, <2>5, LineageKept DEF queueVars
<1>2. CASE DeleteOrg
  <2>1. \A p \in Doc : docs'[p].status = "none" /\ docs'[p].gen = docs[p].gen
    BY <1>2 DEF DeleteOrg, Absent
  <2>2. ~orgLive' /\ UNCHANGED uploads /\ \A k \in JobKey : jobs'[k].status = "none"
    BY <1>2 DEF DeleteOrg, Queue!DeleteOrg, Queue!NoRow
  <2>3. KeysBehind'
    BY <2>1, <2>2 DEF Lineage, KeysBehind, Used, Exists, JobKey
  <2> QED
    BY <2>1, <2>2, <2>3 DEF Lineage, ClaimsHaveRows, RowsHaveKeys, PendingIsOpen,
                            PendingNotSucceeded, Exists
<1> QED
  BY <1>1, <1>2 DEF Admin

\* An upload makes keys at the place of its rows.  Those of documents that were
\* gone are fresh: a row that was emptied has a new revision, and one that was
\* removed comes back as a new row.
LEMMA SyncLineage ==
    ASSUME TypeOK, Lineage, GoneIsEmpty', History,
           NEW r \in Request, NEW s \in Source, NEW items \in Items(s),
           SyncCommits(r, s, items)
    PROVE  Lineage'
<1> DEFINE changed == {p \in DOMAIN items : ~Unchanged(p, items)}
           gone == {p \in Doc : p[1] = s /\ Live(p) /\ p \notin DOMAIN items}
           New(p) == Upserted(p, items[p])
<1>1. /\ docs' = [p \in Doc |-> IF p \in changed THEN New(p)
                               ELSE IF p \in gone THEN Tombstone(docs[p])
                               ELSE docs[p]]
      /\ uploads' = [uploads EXCEPT ![r] = {KeyOf(p, New(p)) : p \in changed}]
      /\ UNCHANGED queueVars
      /\ orgLive
  BY DEF SyncCommits
<1>2. ASSUME NEW p \in changed
      PROVE  /\ p \in Doc
             /\ New(p).status = "pending"
             /\ New(p).hash = items[p].text /\ items[p].text \in Text
             /\ New(p).text # Nil
             /\ New(p).gen = IF Exists(p) THEN docs[p].gen ELSE docs[p].gen + 1
             /\ New(p).rev = IF Exists(p) THEN docs[p].rev ELSE 0
             /\ KeyOf(p, New(p)) \in JobKey
  <2>1. /\ p \in Doc /\ items[p] \in [text : Text, acl : Acl]
        /\ Exists(p) \/ docs[p].gen < MaxGeneration
    BY ItemsType DEF SyncCommits
  <2> QED
    BY <2>1, UpsertedType, NilAssumption
<1>3. ASSUME NEW p \in gone
      PROVE  /\ Tombstone(docs[p]).status = "deleted"
             /\ Tombstone(docs[p]).gen = docs[p].gen
             /\ Tombstone(docs[p]).rev = docs[p].rev + 1
             /\ Tombstone(docs[p]).hash = docs[p].hash
             /\ Exists(p)
  <2>1. docs[p] \in DocRow
    BY DEF TypeOK
  <2> QED
    BY <2>1, Zenon DEF Tombstone, DocRow, Live, Exists
<1>4. \A p \in Doc : docs[p].gen \in Nat /\ docs[p].rev \in Nat
  BY BoundsAssumption DEF TypeOK, DocRow
<1> HIDE DEF New
<1>5. KeysBehind'
  <2> SUFFICES ASSUME NEW k \in JobKey, Used(k)'
               PROVE  /\ k.gen <= docs'[k.doc].gen
                      /\ Exists(k.doc)' /\ k.gen = docs'[k.doc].gen =>
                           /\ k.rev <= docs'[k.doc].rev
                           /\ docs'[k.doc].text = Nil => k.rev < docs'[k.doc].rev
    BY DEF KeysBehind
  <2>1. k.doc \in Doc /\ k.gen \in Nat /\ k.rev \in Nat
    BY BoundsAssumption DEF JobKey
  <2>2. Used(k) \/ \E p \in changed : k = KeyOf(p, New(p))
    <3>1. CASE jobs[k].status # "none"
      BY <3>1 DEF Used
    <3>2. CASE jobs[k].status = "none"
      <4>1. PICK q \in Request : k \in uploads'[q]
        BY <1>1, <3>2 DEF Used, queueVars
      <4> QED
        BY <1>1, <4>1 DEF Used, TypeOK
    <3> QED
      BY <3>1, <3>2
  <2>3. CASE \E p \in changed : k = KeyOf(p, New(p))
    <3>1. PICK p \in changed : k = KeyOf(p, New(p))
      BY <2>3
    <3>2. k.doc = p /\ docs'[p] = New(p) /\ k.gen = New(p).gen /\ k.rev = New(p).rev
      BY <1>1, <1>2, <3>1 DEF KeyOf
    <3> QED
      BY <1>2, <2>1, <3>2
  <2>4. CASE Used(k)
    <3>1. /\ k.gen <= docs[k.doc].gen
          /\ Exists(k.doc) /\ k.gen = docs[k.doc].gen =>
               /\ k.rev <= docs[k.doc].rev
               /\ docs[k.doc].text = Nil => k.rev < docs[k.doc].rev
      BY <2>4 DEF Lineage, KeysBehind
    <3>2. CASE k.doc \in changed
      <4>1. docs'[k.doc] = New(k.doc)
        BY <1>1, <2>1, <3>2
      <4> QED
        BY <1>2, <1>4, <2>1, <3>1, <3>2, <4>1
    <3>3. CASE k.doc \in gone /\ k.doc \notin changed
      <4>1. docs'[k.doc] = Tombstone(docs[k.doc])
        BY <1>1, <2>1, <3>3
      <4>2. Exists(k.doc)
        BY <3>3 DEF Live, Exists
      <4> QED
        BY <1>3, <1>4, <2>1, <3>1, <3>3, <4>1, <4>2
    <3>4. CASE k.doc \notin gone /\ k.doc \notin changed
      <4>1. docs'[k.doc] = docs[k.doc]
        BY <1>1, <2>1, <3>4
      <4> QED
        BY <3>1, <4>1 DEF Exists
    <3> QED
      BY <3>2, <3>3, <3>4
  <2> QED
    BY <2>2, <2>3, <2>4
<1>6. ASSUME NEW p \in changed, p \notin reused'
      PROVE  /\ jobs[KeyOf(p, New(p))].status # "succeeded"
             /\ \A d \in Drain : claim[d] = KeyOf(p, New(p)) => pc[d] # "handled"
  <2> DEFINE k == KeyOf(p, New(p))
  <2>1. /\ k \in JobKey /\ k.doc = p /\ k.gen = New(p).gen /\ k.rev = New(p).rev
        /\ p \in Doc /\ k.hash = New(p).hash
    BY <1>2 DEF KeyOf
  <2>2. docs'[p] = New(p)
    BY <1>1, <2>1
  <2>3. ASSUME jobs[k].status = "none"
        PROVE  \A d \in Drain : claim[d] # k
    BY <1>1, <2>1, <2>3, QueueAssumption DEF Lineage, ClaimsHaveRows
  <2>4. CASE ~Live(p)
    <3>1. Exists(p) => docs[p].text = Nil
      BY <2>1, <2>4 DEF Lineage, GoneIsEmpty
    <3>2. ~Used(k)
      BY <1>2, <1>4, <2>1, <2>4, <3>1 DEF Lineage, KeysBehind, Live, Exists
    <3> QED
      BY <2>3, <3>2 DEF Used
  <2>5. CASE jobs[k].status = "none"
    BY <2>3, <2>5
  <2>6. CASE docs[p].status = "pending" /\ docs[p].hash = New(p).hash
    <3>1. k = CurrentKey(p)
      BY <1>2, <2>1, <2>6 DEF CurrentKey, KeyOf, Exists
    <3>2. p \notin reused
      BY <1>2, <1>6, <2>1, <2>2, <2>6 DEF History, GoesBack
    <3> QED
      BY <2>1, <2>6, <3>1, <3>2 DEF Lineage, PendingIsOpen, PendingNotSucceeded
  <2>7. ASSUME Live(p), ~(docs[p].status = "pending" /\ docs[p].hash = New(p).hash)
        PROVE  jobs[k].status = "none"
    BY <1>2, <1>6, <2>1, <2>2, <2>7 DEF History, GoesBack
  <2> QED
    BY <2>4, <2>5, <2>6, <2>7
<1>7. ASSUME NEW p \in Doc, docs'[p].status = "pending"
      PROVE  /\ docs'[p].text # Nil
             /\ p \notin reused' =>
                  /\ jobs[CurrentKey(p)'].status # "succeeded"
                  /\ \A d \in Drain : claim[d] = CurrentKey(p)' => pc[d] # "handled"
  <2>1. CASE p \in changed
    <3>1. docs'[p] = New(p) /\ CurrentKey(p)' = KeyOf(p, New(p))
      BY <1>1, <2>1 DEF CurrentKey, KeyOf
    <3> QED
      BY <1>2, <1>6, <2>1, <3>1
  <2>2. CASE p \notin changed
    <3>1. docs'[p] = docs[p]
      BY <1>1, <1>3, <1>7, <2>2
    <3>2. CurrentKey(p)' = CurrentKey(p)
      BY <3>1 DEF CurrentKey, KeyOf
    <3>3. p \notin reused' => p \notin reused
      BY <1>7, <3>1 DEF History, GoesBack
    <3> QED
      BY <1>7, <3>1, <3>2, <3>3 DEF Lineage, PendingIsOpen, PendingNotSucceeded
  <2> QED
    BY <2>1, <2>2
<1>8. RowsHaveKeys'
  <2> SUFFICES ASSUME NEW p \in Doc, Exists(p)' PROVE docs'[p].hash \in Text
    BY <1>1 DEF RowsHaveKeys, queueVars
  <2>1. CASE p \in changed
    BY <1>1, <1>2, <2>1
  <2>2. CASE p \notin changed /\ p \in gone
    BY <1>1, <1>3, <2>2 DEF Lineage, RowsHaveKeys
  <2>3. CASE p \notin changed /\ p \notin gone
    <3>1. docs'[p] = docs[p]
      BY <1>1, <2>3
    <3> QED
      BY <3>1 DEF Lineage, RowsHaveKeys, Exists
  <2> QED
    BY <2>1, <2>2, <2>3
<1>9. ClaimsHaveRows' /\ PendingIsOpen' /\ PendingNotSucceeded'
  BY <1>1, <1>7 DEF queueVars, Lineage, ClaimsHaveRows, PendingIsOpen, PendingNotSucceeded
<1> QED
  BY <1>5, <1>8, <1>9 DEF Lineage

LEMMA LineageStep == TypeOK /\ Lineage /\ [Next]_vars => Lineage'
<1> SUFFICES ASSUME TypeOK, Lineage, [Next]_vars PROVE Lineage'
  OBVIOUS
<1>0. GoneIsEmpty'
  BY EmptyStep DEF Lineage
<1>1. ASSUME UNCHANGED <<docs, orgLive, pc, claim>>,
             \A k \in JobKey : Used(k)' => Used(k),
             \A k \in JobKey : /\ jobs[k].status # "none" => jobs'[k].status # "none"
                               /\ jobs'[k].status = "succeeded" => jobs[k].status = "succeeded"
      PROVE  Lineage'
  <2>1. orgLive => \A d \in Drain : claim'[d] # NoJob => jobs'[claim'[d]].status # "none"
    BY <1>1 DEF Lineage, ClaimsHaveRows, TypeOK, Queue!TypeOK
  <2> QED
    BY <1>0, <1>1, <2>1, LineageKept DEF Exists
<1>2. ASSUME NEW r \in Request, SyncEnqueues(r) PROVE Lineage'
  <2>1. PICK k \in uploads[r] : /\ Queue!Enqueue(k)
                                /\ uploads' = [uploads EXCEPT ![r] = @ \ {k}]
    BY <1>2 DEF SyncEnqueues
  <2>2. k \in JobKey
    BY DEF TypeOK
  <2>3. \A j \in JobKey : /\ j # k => jobs'[j] = jobs[j]
                          /\ jobs[j].status # "none" => jobs'[j] = jobs[j]
                          /\ jobs'[j].status = "succeeded" => jobs[j].status = "succeeded"
    BY <2>1, <2>2 DEF Queue!Enqueue, TypeOK, Queue!TypeOK
  <2>4. \A j \in JobKey : Used(j)' => Used(j)
    BY <2>1, <2>3 DEF Used, TypeOK
  <2> QED
    BY <1>1, <1>2, <2>1, <2>3, <2>4 DEF SyncEnqueues, tables, Queue!Enqueue
<1>3. ASSUME NEW r \in Request, UploadDies(r) PROVE Lineage'
  <2>1. \A j \in JobKey : Used(j)' => Used(j)
    BY <1>3 DEF UploadDies, Used, queueVars, TypeOK
  <2> QED
    BY <1>1, <1>3, <2>1 DEF UploadDies, tables, queueVars
<1>4. ASSUME NEW k \in JobKey, TimePasses(k) PROVE Lineage'
  <2>1. \A j \in JobKey : jobs'[j].status = jobs[j].status
    BY <1>4 DEF TimePasses, Queue!BackoffElapses, Queue!GoesStale, TypeOK, Queue!TypeOK,
                Queue!JobRow
  <2>2. UNCHANGED <<docs, uploads, orgLive, pc, claim>>
    BY <1>4 DEF TimePasses, Queue!BackoffElapses, Queue!GoesStale, tables
  <2> QED
    BY <1>1, <2>1, <2>2 DEF Used
<1>5. CASE UNCHANGED vars
  BY <1>1, <1>5 DEF vars, codeVars, queueVars, Used
<1> QED
  BY <1>0, <1>2, <1>3, <1>4, <1>5, SyncLineage, DrainLineage, AdminLineage DEF Next, Step, Sync

LEMMA LineageInit == Init => Lineage
<1> SUFFICES ASSUME Init PROVE Lineage
  OBVIOUS
<1>1. /\ \A d \in Drain : claim[d] = NoJob
      /\ \A p \in Doc : docs[p].status = "none" /\ docs[p].text = Nil /\ chunks[p] = {}
      /\ \A k \in JobKey : ~Used(k)
  BY DEF Init, Absent, Queue!Init, Queue!NoRow, Used
<1> QED
  BY <1>1 DEF Lineage, GoneIsEmpty, KeysBehind, ClaimsHaveRows, RowsHaveKeys, PendingIsOpen,
              PendingNotSucceeded, Exists

\* The job of a document that waits has never succeeded, unless the document was
\* edited back to bytes that had a job: deletions, uploads of what was deleted,
\* retries, crashes and any number of drains included.
THEOREM PendingIsServed == Spec => []PendingNotSucceeded
<1>1. Init => Lineage
  BY LineageInit
<1>2. Lineage => PendingNotSucceeded
  BY DEF Lineage
<1>3. TypeOK /\ Lineage /\ [Next]_vars => Lineage'
  BY LineageStep
<1> QED
  BY <1>1, <1>2, <1>3, TypeCorrect, PTL DEF Spec

-----------------------------------------------------------------------------
(* A document that is shown as failed has a dead job.                       *)

\* Documents go with their org.
DeadOrgHasNoDocs == ~orgLive => \A p \in Doc : ~Exists(p)

\* Between burying its job and telling the document, a drain holds a dead job.
BuriedIsDead ==
    orgLive => \A d \in Drain : pc[d] = "buried" => jobs[claim[d]].status = "dead"

Failures == ClaimsHaveRows /\ DeadOrgHasNoDocs /\ BuriedIsDead /\ FailedHasDeadJob

\* A step of a job or a document that leaves the drains where they are, and makes no
\* document fail.
LEMMA FailuresKept ==
    ASSUME TypeOK, Failures, UNCHANGED <<orgLive, pc, claim>>,
           \A k \in JobKey : jobs[k].status \in {"none", "dead"} \/ jobs'[k].status # "none",
           \A k \in JobKey : jobs[k].status = "dead" /\ orgLive => jobs'[k].status = "dead",
           \A p \in Doc : Exists(p)' => Exists(p) \/ orgLive,
           \A p \in Doc : docs'[p].status = "failed" =>
              docs[p].status = "failed" /\ docs'[p].gen = docs[p].gen
    PROVE  Failures'
<1>1. \A d \in Drain : claim[d] # NoJob => claim[d] \in JobKey
  BY DEF TypeOK, Queue!TypeOK
<1>2. DeadOrgHasNoDocs'
  BY DEF Failures, DeadOrgHasNoDocs
<1>3. ClaimsHaveRows' /\ BuriedIsDead'
  <2> SUFFICES ASSUME orgLive, NEW d \in Drain, claim[d] # NoJob
               PROVE  /\ jobs'[claim[d]].status # "none"
                      /\ pc[d] = "buried" => jobs'[claim[d]].status = "dead"
    BY DEF ClaimsHaveRows, BuriedIsDead, TypeOK, Queue!TypeOK
  <2> QED
    BY <1>1 DEF Failures, ClaimsHaveRows, BuriedIsDead
<1>4. FailedHasDeadJob'
  <2> SUFFICES ASSUME NEW p \in Doc, docs'[p].status = "failed"
               PROVE  \E k \in JobKey : k.doc = p /\ k.gen = docs'[p].gen /\ jobs'[k].status = "dead"
    BY DEF FailedHasDeadJob
  <2>1. PICK k \in JobKey : k.doc = p /\ k.gen = docs[p].gen /\ jobs[k].status = "dead"
    BY DEF Failures, FailedHasDeadJob
  <2>2. orgLive
    BY DEF Failures, DeadOrgHasNoDocs, Exists
  <2> QED
    BY <2>1, <2>2
<1> QED
  BY <1>2, <1>3, <1>4 DEF Failures

LEMMA DrainFailures ==
    ASSUME TypeOK, Failures, NEW d \in Drain, DrainKicked(d) \/ DrainStep(d) \/ DrainDies(d),
           \A k \in JobKey : jobs[k].status = "dead" /\ orgLive' => jobs'[k].status = "dead"
    PROVE  Failures'
<1>1. \/ Queue!Claim(d) \/ Queue!HandlerReturns(d) \/ Queue!Raise(d)
      \/ Queue!MarkSucceeded(d) \/ Queue!ReadAttempts(d) \/ Queue!Requeue(d)
      \/ Queue!Bury(d) \/ Queue!BuriedAway(d) \/ Queue!Crash(d)
      \/ Queue!Kick(d) \/ Queue!Stop(d)
      \/ UNCHANGED queueVars
  BY DEF DrainKicked, DrainStops, DrainStep, DrainClaims, HandlerReads, HandlerWrites, HandlerRaises,
         DrainMarks, MarkDocumentFailed, DrainDies
<1>2. orgLive' = orgLive /\ ClaimsHaveRows'
  <2>1. CASE UNCHANGED queueVars
    BY <2>1 DEF queueVars, Failures, ClaimsHaveRows
  <2> QED
    BY <1>1, <2>1, QueueMoves DEF Failures, ClaimsHaveRows
<1>3. \A e \in Drain : pc[e] \notin {"off", "idle"} => claim[e] \in JobKey
  BY DEF TypeOK, Queue!TypeOK
<1>4. BuriedIsDead'
  <2> SUFFICES ASSUME orgLive, NEW e \in Drain, pc'[e] = "buried"
               PROVE  jobs'[claim'[e]].status = "dead"
    BY <1>2 DEF BuriedIsDead
  <2>1. CASE pc[e] = "buried" /\ claim'[e] = claim[e]
    BY <1>2, <1>3, <2>1 DEF Failures, BuriedIsDead
  <2>2. CASE Queue!Bury(d) /\ e = d
    <3>1. claim[d] \in JobKey /\ jobs[claim[d]].status # "none" /\ claim'[d] = claim[d]
      BY <1>3, <2>2, QueueAssumption DEF Queue!Bury, Failures, ClaimsHaveRows
    <3> QED
      BY <2>2, <3>1 DEF Queue!Bury, Queue!Marked, TypeOK, Queue!TypeOK
  <2>3. CASE Queue!ReadAttempts(d) /\ e = d
    <3>1. jobs[claim[d]].status # "none"
      BY <1>3, <2>3, QueueAssumption DEF Queue!ReadAttempts, Failures, ClaimsHaveRows
    <3> QED
      BY <2>3, <3>1 DEF Queue!ReadAttempts, TypeOK, Queue!TypeOK
  <2>4. CASE UNCHANGED queueVars
    BY <2>1, <2>4 DEF queueVars
  <2>5. CASE Queue!Claim(d)
    BY <2>1, <2>5 DEF Queue!Claim, TypeOK, Queue!TypeOK
  <2>6. CASE Queue!HandlerReturns(d) \/ Queue!Raise(d)
    BY <2>1, <2>6 DEF Queue!HandlerReturns, Queue!Raise, TypeOK, Queue!TypeOK
  <2>7. CASE \/ Queue!MarkSucceeded(d) \/ Queue!Requeue(d)
             \/ Queue!BuriedAway(d) \/ Queue!Crash(d) \/ Queue!Kick(d) \/ Queue!Stop(d)
    <3>1. /\ pc'[d] # "buried" \/ (pc'[d] = pc[d] /\ claim'[d] = claim[d])
          /\ \A c \in Drain \ {d} : pc'[c] = pc[c] /\ claim'[c] = claim[c]
      BY <2>7 DEF Queue!MarkSucceeded, Queue!Requeue, Queue!BuriedAway, Queue!Crash, Queue!PutDown,
                  Queue!Die, Queue!Kick, Queue!Up, Queue!Stop, TypeOK, Queue!TypeOK
    <3> QED
      BY <2>1, <3>1
  <2>8. CASE (Queue!Bury(d) \/ Queue!ReadAttempts(d)) /\ e # d
    <3>1. pc'[e] = pc[e] /\ claim'[e] = claim[e]
      BY <2>8 DEF Queue!Bury, Queue!ReadAttempts, TypeOK, Queue!TypeOK
    <3> QED
      BY <2>1, <3>1
  <2> QED
    BY <1>1, <2>2, <2>3, <2>4, <2>5, <2>6, <2>7, <2>8
<1>5. \/ MarkDocumentFailed(d) /\ RowThere(claim[d]) /\ Exists(claim[d].doc)
           /\ docs' = [docs EXCEPT ![claim[d].doc].status = "failed"]
      \/ RowThere(claim[d]) /\ docs' = [docs EXCEPT ![claim[d].doc].status = "ingested"]
      \/ UNCHANGED docs
  BY DEF DrainKicked, DrainStops, DrainStep, DrainClaims, HandlerReads, HandlerWrites,
         HandlerRaises, DrainMarks, MarkDocumentFailed, DrainDies, tables, RowThere
<1>6. \A p \in Doc : Exists(p)' => Exists(p)
  BY <1>5 DEF RowThere, Exists, TypeOK
<1>7. FailedHasDeadJob'
  <2> SUFFICES ASSUME NEW p \in Doc, docs'[p].status = "failed"
               PROVE  \E k \in JobKey : k.doc = p /\ k.gen = docs'[p].gen /\ jobs'[k].status = "dead"
    BY DEF FailedHasDeadJob
  <2>1. orgLive
    BY <1>6 DEF Failures, DeadOrgHasNoDocs, Exists
  <2>2. docs'[p].gen = docs[p].gen
    BY <1>5 DEF TypeOK, DocRow
  <2>3. CASE docs[p].status = "failed"
    <3>1. PICK k \in JobKey : k.doc = p /\ k.gen = docs[p].gen /\ jobs[k].status = "dead"
      BY <2>3 DEF Failures, FailedHasDeadJob
    <3> QED
      BY <1>2, <2>1, <2>2, <3>1
  <2>4. CASE docs[p].status # "failed"
    <3>1. MarkDocumentFailed(d) /\ RowThere(claim[d]) /\ claim[d].doc = p
      BY <1>5, <2>4 DEF TypeOK, DocRow
    <3>2. pc[d] = "buried"
      BY <3>1 DEF MarkDocumentFailed, Queue!BuriedAway
    <3>3. claim[d] \in JobKey /\ jobs[claim[d]].status = "dead"
      BY <1>3, <2>1, <3>2 DEF Failures, BuriedIsDead
    <3> QED
      BY <1>2, <2>1, <2>2, <3>1, <3>3 DEF RowThere
  <2> QED
    BY <2>3, <2>4
<1> QED
  BY <1>2, <1>4, <1>6, <1>7 DEF Failures, DeadOrgHasNoDocs

LEMMA FailuresStep ==
    ASSUME TypeOK, Failures, [Next]_vars,
           \A k \in JobKey : jobs[k].status = "dead" /\ orgLive' => jobs'[k].status = "dead"
    PROVE  Failures'
<1>1. ASSUME NEW r \in Request, NEW s \in Source, NEW items \in Items(s),
             SyncCommits(r, s, items)
      PROVE  Failures'
  <2>1. UNCHANGED <<jobs, orgLive, pc, claim>> /\ orgLive
    BY <1>1 DEF SyncCommits, queueVars
  <2>2. ASSUME NEW p \in Doc, docs'[p].status = "failed" PROVE docs'[p] = docs[p]
    <3>1. Upserted(p, items[p]).status = "pending"
      BY DEF Upserted, Absent, TypeOK, DocRow
    <3>2. Tombstone(docs[p]).status = "deleted"
      BY DEF Tombstone, TypeOK, DocRow
    <3> QED
      BY <1>1, <2>2, <3>1, <3>2 DEF SyncCommits
  <2> QED
    BY <2>1, <2>2, FailuresKept
<1>2. ASSUME NEW r \in Request, SyncEnqueues(r) PROVE Failures'
  <2>1. PICK k \in JobKey : Queue!Enqueue(k)
    BY <1>2 DEF SyncEnqueues, TypeOK
  <2>2. \A j \in JobKey : jobs'[j].status # "none" \/ jobs[j].status = "none"
    BY <2>1 DEF Queue!Enqueue, TypeOK, Queue!TypeOK
  <2>3. UNCHANGED <<docs, orgLive, pc, claim>>
    BY <1>2 DEF SyncEnqueues, Queue!Enqueue, tables
  <2> QED
    BY <2>2, <2>3, FailuresKept DEF Exists
<1>3. ASSUME NEW r \in Request, UploadDies(r) PROVE Failures'
  BY <1>3, FailuresKept DEF UploadDies, tables, queueVars, Exists
<1>4. ASSUME NEW k \in JobKey, TimePasses(k) PROVE Failures'
  <2>1. jobs' = [jobs EXCEPT ![k].due = TRUE]
    BY <1>4 DEF TimePasses, Queue!BackoffElapses, Queue!GoesStale
  <2>2. \A j \in JobKey : jobs'[j].status = jobs[j].status
    BY <2>1 DEF TypeOK, Queue!TypeOK, Queue!JobRow
  <2>3. UNCHANGED <<docs, orgLive, pc, claim>>
    BY <1>4 DEF TimePasses, Queue!BackoffElapses, Queue!GoesStale, tables
  <2> QED
    BY <2>2, <2>3, FailuresKept DEF Exists
<1>5. ASSUME NEW p \in Doc, DeleteDocument(p) \/ \E a \in Acl : UpdateAcl(p, a)
      PROVE  Failures'
  <2>1. UNCHANGED <<jobs, orgLive, pc, claim>>
    BY <1>5 DEF DeleteDocument, UpdateAcl, queueVars
  <2>2. \A q \in Doc : /\ Exists(q)' => Exists(q)
                       /\ docs'[q].status = "failed" =>
                            docs[q].status = "failed" /\ docs'[q].gen = docs[q].gen
    BY <1>5 DEF DeleteDocument, UpdateAcl, Absent, Exists, TypeOK, DocRow
  <2> QED
    BY <2>1, <2>2, FailuresKept
<1>6. CASE DeleteOrg
  <2>1. ~orgLive' /\ \A p \in Doc : docs'[p].status = "none"
    BY <1>6 DEF DeleteOrg, Queue!DeleteOrg, Absent
  <2> QED
    BY <2>1 DEF Failures, ClaimsHaveRows, DeadOrgHasNoDocs, BuriedIsDead, FailedHasDeadJob, Exists
<1>7. CASE UNCHANGED vars
  BY <1>7, FailuresKept DEF vars, codeVars, queueVars, Exists
<1> QED
  BY <1>1, <1>2, <1>3, <1>4, <1>5, <1>6, <1>7, DrainFailures DEF Next, Step, Sync, Admin

\* If handlers end before their claim goes stale, a document is shown as failed only
\* if a job of its row was dead-lettered, and that job stays so: whatever is uploaded,
\* retried, deleted or superseded, and whoever dies.
THEOREM FailedIsDeadLettered ==
    ASSUME ~SlowHandlers PROVE Spec => []FailedHasDeadJob
<1>1. Spec => QP!Spec
  <2>1. Init => QP!Init
    BY SameQueue DEF Init
  <2>2. TypeOK /\ [Next]_vars => [QP!Next]_(QP!queueVars)
    BY StepUsesQueue, SameQueue DEF TypeOK, QP!queueVars, queueVars
  <2> QED
    BY <2>1, <2>2, TypeCorrect, PTL DEF Spec, QP!Spec
<1>2. QP!Spec => QP!TerminalIsFinal
  BY QP!OverIsOver, QueueAssumption
<1>3. Init => Failures
  <2> SUFFICES ASSUME Init PROVE Failures
    OBVIOUS
  <2>1. /\ orgLive
        /\ \A p \in Doc : docs[p].status = "none"
        /\ \A d \in Drain : pc[d] = "off" /\ claim[d] = NoJob
    BY DEF Init, Absent, Queue!Init
  <2> QED
    BY <2>1 DEF Failures, ClaimsHaveRows, DeadOrgHasNoDocs, BuriedIsDead, FailedHasDeadJob
<1>4. /\ TypeOK /\ Failures /\ [Next]_vars
      /\ [~SlowHandlers => \A k \in JobKey :
             QP!Terminal(k) /\ orgLive' => jobs'[k] = jobs[k]]_(QP!queueVars)
      => Failures'
  <2> SUFFICES ASSUME TypeOK, Failures, [Next]_vars,
                      [~SlowHandlers => \A k \in JobKey :
                         QP!Terminal(k) /\ orgLive' => jobs'[k] = jobs[k]]_(QP!queueVars)
               PROVE  Failures'
    OBVIOUS
  <2>1. \A k \in JobKey : jobs[k].status = "dead" /\ orgLive' => jobs'[k].status = "dead"
    BY DEF QP!Terminal, QP!queueVars
  <2> QED
    BY <2>1, FailuresStep
<1>5. Failures => FailedHasDeadJob
  BY DEF Failures
<1> QED
  BY <1>1, <1>2, <1>3, <1>4, <1>5, TypeCorrect, PTL DEF Spec, QP!TerminalIsFinal

-----------------------------------------------------------------------------
(* What drains have in hand, and what they leave.                           *)
(*                                                                          *)
(* A document is crossed from the moment a drain has it in hand as it was   *)
(* before, when its own job will not read it any more, until it is uploaded *)
(* again or goes.  So who writes to a document that is not crossed after    *)
(* the step has it in hand as it is.  The queue's theorems say the rest: a  *)
(* job in hand is running, so one that was handled, or has succeeded, is    *)
(* not to come.                                                             *)

\* Only its own job's coming, or its going, makes a document uncrossed.
LEMMA CrossedStays ==
    ASSUME [Next]_vars, NEW p \in Doc, Exists(p)', ~ToCome(p)', p \notin crossed'
    PROVE  p \notin crossed /\ (UNCHANGED vars \/ (~HeldStale(p) /\ ~HeldStale(p)'))
<1>1. CASE UNCHANGED vars
  BY <1>1 DEF vars
<1>2. CASE History
  BY <1>2 DEF History
<1> QED
  BY <1>1, <1>2 DEF Next

\* The job in the drain's hand is one of the document's row.
Names(d, p) ==
    claim[d] # NoJob /\ claim[d].doc = p /\ claim[d].gen = docs[p].gen

\* Nobody holds what a tombstone was.
TombstonesRest ==
    \A p \in Doc : p \notin crossed /\ Exists(p) /\ docs[p].text = Nil =>
        /\ docs[p].status = "deleted"
        /\ \A d \in Drain : Names(d, p) => snap[d] = {}

\* The revision of a document without a text has no key yet.
NoJobForEmpty ==
    \A p \in Doc : Exists(p) /\ docs[p].text = Nil =>
        /\ ~ToCome(p)
        /\ \A d \in Drain : claim[d] # CurrentKey(p)

LEMMA EmptyHasNoJob == TypeOK /\ Lineage => NoJobForEmpty
<1> SUFFICES ASSUME TypeOK, Lineage, NEW p \in Doc, Exists(p), docs[p].text = Nil
             PROVE  /\ ~ToCome(p)
                    /\ \A d \in Drain : claim[d] # CurrentKey(p)
  BY DEF NoJobForEmpty
<1> DEFINE key == CurrentKey(p)
<1>1. key \in JobKey /\ key.doc = p /\ key.gen = docs[p].gen /\ key.rev = docs[p].rev
  BY CurrentKeyType DEF Lineage
<1>2. docs[p].rev \in Nat
  BY BoundsAssumption DEF TypeOK, DocRow
<1> HIDE DEF key
<1>3. ~Used(key)
  BY <1>1, <1>2 DEF Lineage, KeysBehind
<1>4. orgLive
  BY DEF Lineage, RowsHaveKeys
<1>5. \A d \in Drain : claim[d] # key
  BY <1>1, <1>3, <1>4, QueueAssumption DEF Used, Lineage, ClaimsHaveRows
<1> QED
  BY <1>3, <1>5 DEF Used, ToCome, key

\* How a drain comes to hold a row: by reading one that is not a tombstone.
LEMMA SnapMoves ==
    ASSUME TypeOK, [Next]_vars, NEW d \in Drain
    PROVE  \/ snap'[d] = {}
           \/ snap'[d] = snap[d] /\ claim'[d] = claim[d]
           \/ /\ RowThere(claim[d]) /\ docs[claim[d].doc].status # "deleted"
              /\ UNCHANGED <<docs, claim>>
<1> DEFINE Goal == \/ snap'[d] = {}
                   \/ snap'[d] = snap[d] /\ claim'[d] = claim[d]
                   \/ /\ RowThere(claim[d]) /\ docs[claim[d].doc].status # "deleted"
                      /\ UNCHANGED <<docs, claim>>
<1>1. CASE UNCHANGED vars
  BY <1>1 DEF vars, codeVars, queueVars
<1>2. CASE Sync \/ Admin \/ \E k \in JobKey : TimePasses(k)
  BY <1>2 DEF Sync, SyncCommits, SyncEnqueues, UploadDies, Admin, DeleteDocument, UpdateAcl,
              DeleteOrg, TimePasses, queueVars, Queue!Enqueue, Queue!DeleteOrg,
              Queue!BackoffElapses, Queue!GoesStale
<1>3. ASSUME NEW e \in Drain, HandlerReads(e) PROVE Goal
  <2>1. CASE RowThere(claim[e]) /\ docs[claim[e].doc].status # "deleted"
    <3>1. UNCHANGED <<docs, claim>> /\ \A c \in Drain \ {e} : snap'[c] = snap[c]
      BY <1>3, <2>1 DEF HandlerReads, tables, queueVars, TypeOK
    <3> QED
      BY <2>1, <3>1
  <2>2. CASE ~(RowThere(claim[e]) /\ docs[claim[e].doc].status # "deleted")
    BY <1>3, <2>2 DEF HandlerReads, Queue!HandlerReturns
  <2> QED
    BY <2>1, <2>2
<1>4. ASSUME NEW e \in Drain, HandlerWrites(e) \/ HandlerRaises(e) \/ DrainDies(e) PROVE Goal
  <2>1. /\ snap' = [snap EXCEPT ![e] = {}]
        /\ \A c \in Drain \ {e} : claim'[c] = claim[c]
    BY <1>4 DEF HandlerWrites, HandlerRaises, DrainDies, Queue!HandlerReturns, Queue!Raise,
                Queue!Crash, Queue!Die, TypeOK, Queue!TypeOK
  <2> QED
    BY <2>1 DEF TypeOK
<1>5. ASSUME NEW e \in Drain,
             DrainKicked(e) \/ DrainStops(e) \/ DrainClaims(e) \/ DrainMarks(e)
               \/ MarkDocumentFailed(e)
      PROVE  Goal
  <2>1. /\ UNCHANGED snap
        /\ claim'[e] = claim[e] \/ pc[e] # "running"
        /\ \A c \in Drain \ {e} : claim'[c] = claim[c]
    BY <1>5 DEF DrainKicked, DrainStops, DrainClaims, DrainMarks, MarkDocumentFailed, Queue!Kick,
                Queue!Stop, Queue!Claim, Queue!MarkSucceeded, Queue!ReadAttempts, Queue!Requeue,
                Queue!Bury, Queue!BuriedAway, Queue!PutDown, TypeOK, Queue!TypeOK
  <2>2. snap[e] # {} => pc[e] = "running"
    BY DEF TypeOK
  <2> QED
    BY <2>1, <2>2
<1> QED
  BY <1>1, <1>2, <1>3, <1>4, <1>5 DEF Next, Step, DrainStep

\* How a row comes to hold no text: it held none, or the upload that emptied it
\* made it a tombstone.
LEMMA EmptyMoves ==
    ASSUME TypeOK, Step, NEW p \in Doc, Exists(p)', docs'[p].text = Nil
    PROVE  /\ Exists(p) /\ docs'[p].gen = docs[p].gen
           /\ \/ docs'[p].status = "deleted" /\ UNCHANGED <<snap, claim>>
              \/ docs[p].text = Nil /\ docs'[p].status = docs[p].status
              \/ /\ docs[p].text = Nil
                 /\ \E d \in Drain :
                      /\ HandlerWrites(d) \/ MarkDocumentFailed(d)
                      /\ RowThere(claim[d]) /\ claim[d].doc = p
<1> DEFINE Goal ==
             /\ Exists(p) /\ docs'[p].gen = docs[p].gen
             /\ \/ docs'[p].status = "deleted" /\ UNCHANGED <<snap, claim>>
                \/ docs[p].text = Nil /\ docs'[p].status = docs[p].status
                \/ /\ docs[p].text = Nil
                   /\ \E d \in Drain :
                        /\ HandlerWrites(d) \/ MarkDocumentFailed(d)
                        /\ RowThere(claim[d]) /\ claim[d].doc = p
<1>0. docs[p] \in DocRow
  BY DEF TypeOK
<1>a. ASSUME docs'[p] = docs[p] PROVE Goal
  BY <1>a DEF Exists
<1>1. ASSUME NEW r \in Request, NEW s \in Source, NEW items \in Items(s),
             SyncCommits(r, s, items)
      PROVE  Goal
  <2> DEFINE changed == {q \in DOMAIN items : ~Unchanged(q, items)}
             gone == {q \in Doc : q[1] = s /\ Live(q) /\ q \notin DOMAIN items}
  <2>1. docs'[p] = IF p \in changed THEN Upserted(p, items[p])
                   ELSE IF p \in gone THEN Tombstone(docs[p]) ELSE docs[p]
    BY <1>1 DEF SyncCommits
  <2>2. p \notin changed
    <3> SUFFICES ASSUME p \in changed PROVE FALSE
      OBVIOUS
    <3>1. Upserted(p, items[p]).text # Nil
      BY <1>1, ItemsType, UpsertedType, NilAssumption DEF SyncCommits
    <3> QED
      BY <2>1, <3>1
  <2>3. CASE p \in gone
    <3>1. Tombstone(docs[p]).status = "deleted" /\ Tombstone(docs[p]).gen = docs[p].gen
      BY <1>0, Zenon DEF Tombstone, DocRow
    <3>2. UNCHANGED <<snap, claim>>
      BY <1>1 DEF SyncCommits, queueVars
    <3> QED
      BY <2>1, <2>2, <2>3, <3>1, <3>2 DEF Live, Exists
  <2> QED
    BY <1>a, <2>1, <2>2, <2>3
<1>2. ASSUME NEW r \in Request, SyncEnqueues(r) \/ UploadDies(r) PROVE Goal
  BY <1>a, <1>2 DEF SyncEnqueues, UploadDies, tables
<1>3. ASSUME NEW d \in Drain, HandlerWrites(d) \/ MarkDocumentFailed(d) PROVE Goal
  <2>1. claim[d].doc \in Doc
    BY <1>3 DEF HandlerWrites, MarkDocumentFailed, Queue!BuriedAway, TypeOK, Queue!TypeOK, JobKey
  <2>2. CASE RowThere(claim[d]) /\ claim[d].doc = p
    <3>1. \E st \in {"ingested", "failed"} : docs' = [docs EXCEPT ![p].status = st]
      BY <1>3, <2>2 DEF HandlerWrites, MarkDocumentFailed
    <3>2. docs'[p].text = docs[p].text /\ docs'[p].gen = docs[p].gen
      BY <1>0, <3>1 DEF TypeOK, DocRow
    <3> QED
      BY <1>3, <2>2, <3>2 DEF RowThere
  <2>3. CASE ~(RowThere(claim[d]) /\ claim[d].doc = p)
    <3>1. docs'[p] = docs[p]
      BY <1>3, <2>1, <2>3 DEF HandlerWrites, MarkDocumentFailed, tables, TypeOK
    <3> QED
      BY <1>a, <3>1
  <2> QED
    BY <2>2, <2>3
<1>4. ASSUME NEW d \in Drain,
             \/ DrainKicked(d) \/ DrainStops(d) \/ DrainClaims(d) \/ HandlerReads(d)
             \/ HandlerRaises(d) \/ DrainMarks(d) \/ DrainDies(d)
      PROVE  Goal
  BY <1>a, <1>4 DEF DrainKicked, DrainStops, DrainClaims, HandlerReads, HandlerRaises, DrainMarks,
                    DrainDies, tables
<1>5. ASSUME NEW k \in JobKey, TimePasses(k) PROVE Goal
  BY <1>a, <1>5 DEF TimePasses, tables
<1>6. ASSUME NEW q \in Doc, DeleteDocument(q) PROVE Goal
  <2>1. q # p
    BY <1>6 DEF DeleteDocument, TypeOK, Absent, Exists
  <2> QED
    BY <1>a, <1>6, <2>1 DEF DeleteDocument, TypeOK
<1>7. ASSUME NEW q \in Doc, NEW a \in Acl, UpdateAcl(q, a) PROVE Goal
  <2>1. /\ docs'[p].status = docs[p].status /\ docs'[p].text = docs[p].text
        /\ docs'[p].gen = docs[p].gen
    BY <1>0, <1>7 DEF UpdateAcl, TypeOK, DocRow
  <2> QED
    BY <2>1 DEF Exists
<1>8. CASE DeleteOrg
  BY <1>8 DEF DeleteOrg, Absent, Exists
<1> QED
  BY <1>1, <1>2, <1>3, <1>4, <1>5, <1>6, <1>7, <1>8 DEF Step, Sync, DrainStep, Admin

LEMMA RestStep ==
    TypeOK /\ Lineage /\ TombstonesRest /\ [Next]_vars /\ TypeOK' /\ Lineage' => TombstonesRest'
<1> SUFFICES ASSUME TypeOK, Lineage, TombstonesRest, [Next]_vars, TypeOK', Lineage',
                    NEW p \in Doc, p \notin crossed', Exists(p)', docs'[p].text = Nil
             PROVE  /\ docs'[p].status = "deleted"
                    /\ \A d \in Drain : Names(d, p)' => snap'[d] = {}
  BY DEF TombstonesRest
<1>0. NoJobForEmpty /\ NoJobForEmpty'
  BY EmptyHasNoJob, PTL
<1>1. ~ToCome(p)'
  BY <1>0 DEF NoJobForEmpty
<1>2. /\ p \notin crossed
      /\ UNCHANGED vars \/ (~HeldStale(p) /\ ~HeldStale(p)')
  BY <1>1, CrossedStays
<1>3. CASE UNCHANGED vars
  BY <1>2, <1>3 DEF TombstonesRest, Names, Exists, vars, codeVars, queueVars
<1>4. CASE Step /\ ~UNCHANGED vars
  <2>1. /\ Exists(p) /\ docs'[p].gen = docs[p].gen
        /\ \/ docs'[p].status = "deleted" /\ UNCHANGED <<snap, claim>>
           \/ docs[p].text = Nil /\ docs'[p].status = docs[p].status
           \/ /\ docs[p].text = Nil
              /\ \E d \in Drain :
                   /\ HandlerWrites(d) \/ MarkDocumentFailed(d)
                   /\ RowThere(claim[d]) /\ claim[d].doc = p
    BY <1>4, EmptyMoves
  <2>2. CASE docs[p].text = Nil
    <3>1. /\ docs[p].status = "deleted"
          /\ \A d \in Drain : Names(d, p) => snap[d] = {}
      BY <1>2, <2>1, <2>2 DEF TombstonesRest
    <3>2. ASSUME NEW d \in Drain, HandlerWrites(d), RowThere(claim[d]), claim[d].doc = p
          PROVE  FALSE
      <4>1. snap[d] # {} /\ claim[d] # NoJob
        BY <3>2 DEF HandlerWrites, TypeOK, Queue!TypeOK
      <4> QED
        BY <3>1, <3>2, <4>1 DEF Names, RowThere
    <3>3. ASSUME NEW d \in Drain, MarkDocumentFailed(d), RowThere(claim[d]), claim[d].doc = p
          PROVE  FALSE
      <4>1. claim[d] # CurrentKey(p)
        BY <1>0, <2>1, <2>2 DEF NoJobForEmpty
      <4>2. pc[d] = "buried" /\ claim[d] # NoJob
        BY <3>3 DEF MarkDocumentFailed, Queue!BuriedAway, TypeOK, Queue!TypeOK
      <4>3. HeldStale(p)
        BY <3>3, <4>1, <4>2 DEF HeldStale
      <4> QED
        BY <1>2, <1>4, <4>3
    <3>4. docs'[p].status = "deleted"
      BY <2>1, <3>1, <3>2, <3>3
    <3>5. ASSUME NEW d \in Drain, Names(d, p)' PROVE snap'[d] = {}
      <4>1. CASE snap'[d] = snap[d] /\ claim'[d] = claim[d]
        BY <2>1, <3>1, <3>5, <4>1 DEF Names
      <4>2. CASE /\ RowThere(claim[d]) /\ docs[claim[d].doc].status # "deleted"
                 /\ UNCHANGED <<docs, claim>>
        BY <3>1, <3>5, <4>2 DEF Names
      <4> QED
        BY <4>1, <4>2, SnapMoves
    <3> QED
      BY <3>4, <3>5
  <2>3. CASE docs[p].text # Nil
    <3>1. docs'[p].status = "deleted" /\ UNCHANGED <<snap, claim>>
      BY <2>1, <2>3
    <3>2. ASSUME NEW d \in Drain, Names(d, p)', NEW row \in snap[d] PROVE FALSE
      <4>1. /\ claim[d] # NoJob /\ claim[d].doc = p
            /\ RowThere(claim[d]) /\ RowThere(claim[d])'
        BY <2>1, <3>1, <3>2 DEF Names, RowThere
      <4>2. row = [text |-> docs[p].text, acl |-> docs[p].acl]
        BY <1>2, <1>4, <3>2, <4>1 DEF HeldStale
      <4>3. row = [text |-> docs'[p].text, acl |-> docs'[p].acl]
        BY <1>2, <1>4, <3>1, <3>2, <4>1 DEF HeldStale
      <4> QED
        BY <2>3, <4>2, <4>3
    <3> QED
      BY <3>1, <3>2
  <2> QED
    BY <2>2, <2>3
<1> QED
  BY <1>3, <1>4 DEF Next

\* A document that is gone, by sync, by hand or with its org, keeps no text and no
\* chunks and stays gone until an upload brings it back, for any number of drains
\* with any jobs of it: unless one of them had it in hand when it went.
THEOREM GoneIsGone == Spec => []GoneHoldsNothing
<1>1. Init => Lineage /\ TombstonesRest
  <2>1. Init => TombstonesRest
    BY DEF Init, TombstonesRest, Exists, Absent
  <2> QED
    BY <2>1, LineageInit
<1>2. TypeOK /\ Lineage /\ [Next]_vars => Lineage'
  BY LineageStep
<1>3. TypeOK /\ Lineage /\ TombstonesRest /\ [Next]_vars /\ TypeOK' /\ Lineage' => TombstonesRest'
  BY RestStep
<1>4. GoneIsEmpty /\ TombstonesRest => GoneHoldsNothing
  BY DEF GoneIsEmpty, TombstonesRest, GoneHoldsNothing, Live, Exists
<1> QED
  BY <1>1, <1>2, <1>3, <1>4, TypeCorrect, EmptyWhenGone, PTL DEF Spec

-----------------------------------------------------------------------------
(* The index of a document whose own job is done.                           *)

\* The job is over, or handled and about to be.
Done(k) ==
    jobs[k].status = "succeeded" \/ \E d \in Drain : claim[d] = k /\ pc[d] = "handled"

IndexFollows ==
    \A p \in Doc :
        p \notin crossed /\ docs[p].status = "ingested" /\ docs[p].text # Nil
        /\ Done(CurrentKey(p))
          => chunks[p] = {[text |-> docs[p].text, acl |-> docs[p].acl]}

\* What the queue guarantees of the jobs in the drains' hands.
LEMMA QueueIsExclusive == Spec => []QP!Exclusion
<1>1. Spec => QP!Spec
  <2>1. Init => QP!Init
    BY SameQueue DEF Init
  <2>2. TypeOK /\ [Next]_vars => [QP!Next]_(QP!queueVars)
    BY StepUsesQueue, SameQueue DEF TypeOK, QP!queueVars, queueVars
  <2> QED
    BY <2>1, <2>2, TypeCorrect, PTL DEF Spec, QP!Spec
<1> QED
  BY <1>1, QP!ExclusionHolds, QueueAssumption, PTL

\* A job that is done is not to come.
DoneIsPast == \A p \in Doc : Exists(p) /\ Done(CurrentKey(p)) => ~ToCome(p)

LEMMA DoneIsNotToCome ==
    ASSUME ~SlowHandlers PROVE TypeOK /\ Lineage /\ QP!Exclusion => DoneIsPast
<1> SUFFICES ASSUME TypeOK, Lineage, QP!Exclusion, NEW p \in Doc, Exists(p), Done(CurrentKey(p))
             PROVE  ~ToCome(p)
  BY DEF DoneIsPast
<1> DEFINE key == CurrentKey(p)
<1>1. orgLive
  BY DEF Lineage, RowsHaveKeys
<1>2. CASE jobs[key].status = "succeeded"
  BY <1>2 DEF ToCome
<1>3. ASSUME NEW d \in Drain, claim[d] = key, pc[d] = "handled"
      PROVE  jobs[key].status = "running" /\ ~ToCome(p)
  <2>1. QP!Working(d)
    BY <1>3 DEF QP!Working
  <2>2. jobs[key].status = "running"
    BY <1>1, <1>3, <2>1 DEF QP!Exclusion, QP!HeldIsRunning
  <2> QED
    BY <1>3, <2>2 DEF ToCome
<1> QED
  BY <1>2, <1>3 DEF Done

\* A job is done when it succeeds, which it does once handled.
LEMMA DoneMoves ==
    ASSUME TypeOK, Lineage, Step, NEW k \in JobKey, Done(k)'
    PROVE  \/ Done(k)
           \/ \E d \in Drain : claim[d] = k /\ (HandlerReads(d) \/ HandlerWrites(d))
                             /\ Queue!HandlerReturns(d)
<1> DEFINE Goal == \/ Done(k)
                   \/ \E d \in Drain : claim[d] = k /\ (HandlerReads(d) \/ HandlerWrites(d))
                                     /\ Queue!HandlerReturns(d)
<1>a. ASSUME UNCHANGED <<pc, claim>>, jobs'[k].status = "succeeded" => jobs[k].status = "succeeded"
      PROVE  Goal
  BY <1>a DEF Done
<1>1. CASE UNCHANGED queueVars
  BY <1>1 DEF queueVars, Done
<1>2. ASSUME NEW r \in Request, SyncEnqueues(r) PROVE Goal
  <2>1. PICK j \in JobKey : Queue!Enqueue(j)
    BY <1>2 DEF SyncEnqueues, TypeOK
  <2>2. jobs'[k].status = "succeeded" => jobs[k].status = "succeeded"
    <3>1. CASE jobs[j].status = "none"
      <4>1. jobs' = [jobs EXCEPT ![j] = [status |-> "queued", attempts |-> 0, due |-> TRUE]]
        BY <2>1, <3>1 DEF Queue!Enqueue
      <4>2. jobs'[k] = IF k = j THEN [status |-> "queued", attempts |-> 0, due |-> TRUE]
                       ELSE jobs[k]
        BY <4>1 DEF TypeOK, Queue!TypeOK
      <4> QED
        BY <4>2
    <3>2. CASE jobs[j].status # "none"
      BY <2>1, <3>2 DEF Queue!Enqueue
    <3> QED
      BY <3>1, <3>2
  <2> QED
    BY <1>a, <2>1, <2>2 DEF Queue!Enqueue
<1>3. ASSUME NEW j \in JobKey, TimePasses(j) PROVE Goal
  <2>1. jobs' = [jobs EXCEPT ![j].due = TRUE] /\ UNCHANGED <<pc, claim>>
    BY <1>3 DEF TimePasses, Queue!BackoffElapses, Queue!GoesStale
  <2>2. jobs'[k].status = jobs[k].status
    BY <2>1 DEF TypeOK, Queue!TypeOK, Queue!JobRow
  <2> QED
    BY <1>a, <2>1, <2>2
<1>4. CASE DeleteOrg
  BY <1>a, <1>4 DEF DeleteOrg, Queue!DeleteOrg, Queue!NoRow
<1>5. ASSUME NEW d \in Drain, DrainKicked(d) \/ DrainStep(d) \/ DrainDies(d), ~UNCHANGED queueVars
      PROVE  Goal
  <2>1. \/ Queue!Claim(d) \/ Queue!HandlerReturns(d) \/ Queue!Raise(d)
        \/ Queue!MarkSucceeded(d) \/ Queue!ReadAttempts(d) \/ Queue!Requeue(d)
        \/ Queue!Bury(d) \/ Queue!BuriedAway(d) \/ Queue!Crash(d)
        \/ Queue!Kick(d) \/ Queue!Stop(d)
    BY <1>5 DEF DrainKicked, DrainStops, DrainStep, DrainClaims, HandlerReads, HandlerWrites,
           HandlerRaises, DrainMarks, MarkDocumentFailed, DrainDies
  <2>2. /\ jobs'[k].status = "succeeded" =>
             jobs[k].status = "succeeded" \/ (pc[d] = "handled" /\ claim[d] = k)
        /\ \A e \in Drain : pc'[e] = "handled" =>
             /\ claim'[e] = claim[e]
             /\ pc[e] = "handled" \/ (e = d /\ Queue!HandlerReturns(d))
    BY <2>1, QueueMoves DEF Lineage
  <2>3. Queue!HandlerReturns(d) => HandlerReads(d) \/ HandlerWrites(d)
    <3>1. Queue!HandlerReturns(d) => pc[d] = "running" /\ pc'[d] = "handled"
      BY DEF Queue!HandlerReturns, TypeOK, Queue!TypeOK
    <3> QED
      BY <1>5, <3>1 DEF DrainKicked, DrainStops, DrainStep, DrainClaims, HandlerRaises, DrainMarks,
                MarkDocumentFailed, DrainDies, Queue!Kick, Queue!Up, Queue!Stop, Queue!Die,
                Queue!Claim, Queue!Raise, Queue!MarkSucceeded, Queue!ReadAttempts, Queue!Requeue,
                Queue!Bury, Queue!BuriedAway, Queue!Crash, Queue!PutDown, TypeOK, Queue!TypeOK
  <2> QED
    BY <2>2, <2>3 DEF Done
<1>6. CASE Sync
  BY <1>1, <1>2, <1>6 DEF Sync, SyncCommits, UploadDies
<1>7. CASE Admin
  BY <1>1, <1>4, <1>7 DEF Admin, DeleteDocument, UpdateAcl
<1> QED
  BY <1>1, <1>3, <1>5, <1>6, <1>7 DEF Step

\* How a row comes to be ingested with a text: it was, perhaps under another ACL,
\* or a handler writes to it.
LEMMA IngestedMoves ==
    ASSUME TypeOK, Step, NEW p \in Doc, docs'[p].status = "ingested", docs'[p].text # Nil
    PROVE  \/ docs'[p] = docs[p] /\ chunks'[p] = chunks[p]
           \/ \E a \in Acl : UpdateAcl(p, a)
           \/ \E d \in Drain : HandlerWrites(d) /\ RowThere(claim[d]) /\ claim[d].doc = p
<1> DEFINE Goal == \/ docs'[p] = docs[p] /\ chunks'[p] = chunks[p]
                   \/ \E a \in Acl : UpdateAcl(p, a)
                   \/ \E d \in Drain : HandlerWrites(d) /\ RowThere(claim[d]) /\ claim[d].doc = p
<1>0. docs[p] \in DocRow
  BY DEF TypeOK
<1>1. ASSUME NEW r \in Request, NEW s \in Source, NEW items \in Items(s),
             SyncCommits(r, s, items)
      PROVE  Goal
  <2> DEFINE changed == {q \in DOMAIN items : ~Unchanged(q, items)}
             gone == {q \in Doc : q[1] = s /\ Live(q) /\ q \notin DOMAIN items}
  <2>1. /\ docs'[p] = IF p \in changed THEN Upserted(p, items[p])
                      ELSE IF p \in gone THEN Tombstone(docs[p]) ELSE docs[p]
        /\ chunks'[p] = IF p \in gone THEN {} ELSE chunks[p]
    BY <1>1 DEF SyncCommits
  <2>2. p \notin changed
    <3> SUFFICES ASSUME p \in changed PROVE FALSE
      OBVIOUS
    <3>1. Upserted(p, items[p]).status = "pending"
      BY <1>1, ItemsType, UpsertedType DEF SyncCommits
    <3> QED
      BY <2>1, <3>1
  <2>3. p \notin gone
    <3> SUFFICES ASSUME p \in gone PROVE FALSE
      OBVIOUS
    <3>1. Tombstone(docs[p]).text = Nil
      BY <1>0, Zenon DEF Tombstone, DocRow
    <3> QED
      BY <2>1, <2>2, <3>1
  <2> QED
    BY <2>1, <2>2, <2>3
<1>2. ASSUME NEW r \in Request, SyncEnqueues(r) \/ UploadDies(r) PROVE Goal
  BY <1>2 DEF SyncEnqueues, UploadDies, tables
<1>3. ASSUME NEW d \in Drain, HandlerWrites(d) PROVE Goal
  <2>1. claim[d].doc \in Doc
    BY <1>3 DEF HandlerWrites, TypeOK, Queue!TypeOK, JobKey
  <2> QED
    BY <1>3, <2>1 DEF HandlerWrites, tables, TypeOK
<1>4. ASSUME NEW d \in Drain, MarkDocumentFailed(d) PROVE Goal
  <2>1. claim[d].doc \in Doc
    BY <1>4 DEF MarkDocumentFailed, Queue!BuriedAway, TypeOK, Queue!TypeOK, JobKey
  <2>2. ~(RowThere(claim[d]) /\ claim[d].doc = p)
    BY <1>0, <1>4 DEF MarkDocumentFailed, TypeOK, DocRow
  <2> QED
    BY <1>4, <2>1, <2>2 DEF MarkDocumentFailed, TypeOK
<1>5. ASSUME NEW d \in Drain,
             \/ DrainKicked(d) \/ DrainStops(d) \/ DrainClaims(d) \/ HandlerReads(d)
             \/ HandlerRaises(d) \/ DrainMarks(d) \/ DrainDies(d)
      PROVE  Goal
  BY <1>5 DEF DrainKicked, DrainStops, DrainClaims, HandlerReads, HandlerRaises, DrainMarks,
              DrainDies, tables
<1>6. ASSUME NEW k \in JobKey, TimePasses(k) PROVE Goal
  BY <1>6 DEF TimePasses, tables
<1>7. ASSUME NEW q \in Doc, DeleteDocument(q) PROVE Goal
  <2>1. q # p
    BY <1>7 DEF DeleteDocument, TypeOK, Absent
  <2> QED
    BY <1>7, <2>1 DEF DeleteDocument, TypeOK
<1>8. ASSUME NEW q \in Doc, NEW a \in Acl, UpdateAcl(q, a) PROVE Goal
  <2>1. CASE q # p
    BY <1>8, <2>1 DEF UpdateAcl, TypeOK
  <2> QED
    BY <1>8, <2>1
<1>9. CASE DeleteOrg
  BY <1>9 DEF DeleteOrg, Absent
<1> QED
  BY <1>1, <1>2, <1>3, <1>4, <1>5, <1>6, <1>7, <1>8, <1>9 DEF Step, Sync, DrainStep, Admin

LEMMA IndexStep ==
    ASSUME ~SlowHandlers
    PROVE  TypeOK /\ Lineage /\ IndexFollows /\ [Next]_vars
             /\ TypeOK' /\ Lineage' /\ QP!Exclusion' => IndexFollows'
<1> SUFFICES ASSUME TypeOK, Lineage, IndexFollows, [Next]_vars, TypeOK', Lineage', QP!Exclusion',
                    NEW p \in Doc, p \notin crossed', docs'[p].status = "ingested",
                    docs'[p].text # Nil, Done(CurrentKey(p))'
             PROVE  chunks'[p] = {[text |-> docs'[p].text, acl |-> docs'[p].acl]}
  BY DEF IndexFollows
<1> DEFINE key == CurrentKey(p)
<1>0. DoneIsPast'
  BY DoneIsNotToCome, PTL
<1>1. ~ToCome(p)' /\ Exists(p)'
  BY <1>0 DEF DoneIsPast, Exists
<1>2. p \notin crossed /\ (UNCHANGED vars \/ (~HeldStale(p) /\ ~HeldStale(p)'))
  BY <1>1, CrossedStays
<1>3. CASE UNCHANGED vars
  BY <1>2, <1>3 DEF IndexFollows, vars, codeVars, queueVars, Done, CurrentKey, KeyOf
<1>4. ASSUME Step, ~HeldStale(p), docs[p].status = "ingested", docs[p].text # Nil,
             CurrentKey(p)' = key,
             ~\E d \in Drain : HandlerWrites(d) /\ RowThere(claim[d]) /\ claim[d].doc = p
      PROVE  chunks[p] = {[text |-> docs[p].text, acl |-> docs[p].acl]}
  <2>1. Exists(p) /\ key \in JobKey /\ key.doc = p /\ key.gen = docs[p].gen
    BY <1>4, CurrentKeyType DEF Lineage, Exists
  <2>2. Done(key)'
    BY <1>4 DEF Done
  <2> HIDE DEF key
  <2>3. ASSUME NEW d \in Drain, claim[d] = key, HandlerReads(d) \/ HandlerWrites(d),
               Queue!HandlerReturns(d)
        PROVE  FALSE
    <3>1. RowThere(claim[d]) /\ claim[d].doc = p
      BY <2>1, <2>3 DEF RowThere
    <3>2. HandlerReads(d)
      BY <1>4, <2>3, <3>1
    <3>3. pc' = pc
      BY <1>4, <3>1, <3>2 DEF HandlerReads, queueVars
    <3> QED
      BY <2>3, <3>3 DEF Queue!HandlerReturns, TypeOK, Queue!TypeOK
  <2>4. Done(key)
    BY <1>4, <2>1, <2>2, <2>3, DoneMoves
  <2> QED
    BY <1>2, <1>4, <2>4 DEF IndexFollows, key
<1>5. CASE Step /\ ~UNCHANGED vars
  <2>1. CASE \E d \in Drain : HandlerWrites(d) /\ RowThere(claim[d]) /\ claim[d].doc = p
    <3>1. PICK d \in Drain : HandlerWrites(d) /\ RowThere(claim[d]) /\ claim[d].doc = p
      BY <2>1
    <3>2. PICK row \in snap[d] :
            /\ chunks' = [chunks EXCEPT ![p] = IF row.text = Nil THEN {} ELSE {row}]
            /\ docs' = [docs EXCEPT ![p].status = "ingested"]
      BY <3>1 DEF HandlerWrites
    <3>3. claim[d] # NoJob
      BY <3>1 DEF HandlerWrites, TypeOK, Queue!TypeOK
    <3>4. row = [text |-> docs[p].text, acl |-> docs[p].acl]
      BY <1>2, <1>5, <3>1, <3>3 DEF HeldStale
    <3>5. docs'[p].text = docs[p].text /\ docs'[p].acl = docs[p].acl
      BY <3>2 DEF TypeOK, DocRow
    <3>6. row.text # Nil
      BY <3>4, <3>5
    <3> QED
      BY <3>2, <3>4, <3>5, <3>6 DEF TypeOK
  <2>2. CASE ~\E d \in Drain : HandlerWrites(d) /\ RowThere(claim[d]) /\ claim[d].doc = p
    <3>1. CASE docs'[p] = docs[p] /\ chunks'[p] = chunks[p]
      BY <1>2, <1>4, <1>5, <2>2, <3>1 DEF CurrentKey, KeyOf
    <3>2. ASSUME NEW a \in Acl, UpdateAcl(p, a)
          PROVE  chunks'[p] = {[text |-> docs'[p].text, acl |-> docs'[p].acl]}
      <4>1. /\ docs'[p].status = docs[p].status /\ docs'[p].text = docs[p].text
            /\ docs'[p].gen = docs[p].gen /\ docs'[p].hash = docs[p].hash
            /\ docs'[p].rev = docs[p].rev /\ docs'[p].acl = a
            /\ chunks'[p] = {[c EXCEPT !.acl = a] : c \in chunks[p]}
        BY <3>2 DEF UpdateAcl, TypeOK, DocRow
      <4>2. chunks[p] = {[text |-> docs[p].text, acl |-> docs[p].acl]}
        BY <1>2, <1>4, <1>5, <2>2, <4>1 DEF CurrentKey, KeyOf
      <4> QED
        BY <4>1, <4>2
    <3> QED
      BY <1>5, <2>2, <3>1, <3>2, IngestedMoves
  <2> QED
    BY <2>1, <2>2
<1> QED
  BY <1>3, <1>5 DEF Next

\* If handlers end before their claim goes stale: once the job of a document's present
\* bytes is done, its chunks are those of its present text under its present ACL,
\* for any number of drains and whatever was uploaded, edited, deleted or killed;
\* unless a drain had an older state of it in hand when or after that job read it.
THEOREM SettledIndexIsHeld == Spec => []SettledIndexIsCurrent
<1>1. CASE SlowHandlers
  <2>1. SettledIndexIsCurrent
    BY <1>1 DEF SettledIndexIsCurrent
  <2> QED
    BY <2>1, PTL
<1>2. CASE ~SlowHandlers
  <2>1. Init => IndexFollows
    BY DEF Init, IndexFollows, Absent
  <2>2. TypeOK /\ Lineage /\ [Next]_vars => Lineage'
    BY LineageStep
  <2>3. TypeOK /\ Lineage /\ IndexFollows /\ [Next]_vars
          /\ TypeOK' /\ Lineage' /\ QP!Exclusion' => IndexFollows'
    BY <1>2, IndexStep
  <2>4. IndexFollows => SettledIndexIsCurrent
    BY DEF IndexFollows, SettledIndexIsCurrent, Done
  <2> QED
    BY <2>1, <2>2, <2>3, <2>4, LineageInit, TypeCorrect, QueueIsExclusive, PTL DEF Spec
<1> QED
  BY <1>1, <1>2
=============================================================================
