------------------------- MODULE Deployment_proofs --------------------------
(***************************************************************************)
(* For any number of processes, files, threads and connections: the files   *)
(* take effect once and in order, only a current database is served, and a  *)
(* statement sees rows of no tenant but its own.                            *)
(*                                                                          *)
(* The migrations' part of the invariant says that whoever applies knew a   *)
(* prefix of the files and has applied the ones that follow it, and that    *)
(* only one process, which knew all that is recorded, has applied any: that *)
(* is what the waiting for another's lock gives.  What one run completed    *)
(* stays so, which is what a container that only serves rests on.  The      *)
(* pool's part says that a connection carries the org of the thread that    *)
(* holds it, or none.                                                       *)
(***************************************************************************)
EXTENDS Deployment, TLAPS

Version == Len(schema)

Applying(b) == boot[b].at = "applying"

Step ==
    [at : {"down", "reading", "serving"}]
      \cup [at : {"looking", "making"}, for : {"role", "table"}]
      \cup [at : {"applying"}, done : SUBSET (1..Files), mine : Seq(1..Files)]

BootOK == boot \in [Boot -> Step]

Whole ==
    /\ schema \in Seq(1..Files)
    /\ Version <= Files
    /\ \A i \in 1..Version : schema[i] = i
    /\ rows = 1..Version

\* A process that applies knew the files up to n and has applied what follows.
Follows(b) ==
    \E n \in 0..Version :
      /\ boot[b].done = 1..n
      /\ n + Len(boot[b].mine) <= Files
      /\ \A i \in 1..Len(boot[b].mine) : boot[b].mine[i] = n + i
      /\ boot[b].mine # << >> => n = Version

EachFollows == \A b \in Boot : Applying(b) => Follows(b)

OneApplies ==
    \A b, o \in Boot :
      Applying(b) /\ Applying(o) /\ boot[b].mine # << >> /\ boot[o].mine # << >> => b = o

\* What a run completed stays complete: its files are all the others can apply.
ReleasedIsMigrated == released => rows = 1..Files

MInv ==
    /\ BootOK
    /\ Whole
    /\ EachFollows
    /\ OneApplies
    /\ ReleasedIsMigrated
    /\ ServesMigrated

-----------------------------------------------------------------------------

\* What is left for a process that applies is what comes after its own files.
LEMMA PendingFollows ==
    ASSUME NEW b \in Boot, BootOK, Applying(b), NEW n \in Nat,
           boot[b].done = 1..n,
           \A i \in 1..Len(boot[b].mine) : boot[b].mine[i] = n + i
    PROVE  /\ boot[b].mine \in Seq(1..Files)
           /\ Range(boot[b].mine) = (n + 1)..(n + Len(boot[b].mine))
           /\ Pending(b) = (n + Len(boot[b].mine) + 1)..Files
  <1> DEFINE m == boot[b].mine
  <1>1. m \in Seq(1..Files)
    BY DEF BootOK, Step, Applying
  <1>2. Len(m) \in Nat /\ DOMAIN m = 1..Len(m)
    BY <1>1
  <1>3. Range(m) = (n + 1)..(n + Len(m))
    <2>1. ASSUME NEW x \in Range(m) PROVE x \in (n + 1)..(n + Len(m))
      BY <2>1, <1>2 DEF Range
    <2>2. ASSUME NEW x \in (n + 1)..(n + Len(m)) PROVE x \in Range(m)
      <3>1. x - n \in 1..Len(m) /\ m[x - n] = n + (x - n)
        BY <1>2
      <3> QED
        BY <3>1, <1>2 DEF Range
    <2> QED
      BY <2>1, <2>2
  <1>4. Pending(b) = (n + Len(m) + 1)..Files
    <2>1. Files \in Nat
      BY MigrationAssumption
    <2>2. \A f \in 1..Files : f \in Pending(b) <=> f \notin 1..n /\ f \notin (n + 1)..(n + Len(m))
      BY <1>3 DEF Pending
    <2> QED
      BY <2>1, <2>2, <1>2 DEF Pending
  <1> QED
    BY <1>1, <1>3, <1>4

LEMMA MStarts == Init => MInv
  <1> SUFFICES ASSUME Init PROVE MInv
    OBVIOUS
  <1>1. PICK n \in 0..Files : schema = [i \in 1..n |-> i] /\ rows = 1..n
    BY DEF Init, MigrationsInit
  <1>2. Files \in Nat
    BY MigrationAssumption
  <1>3. Len(schema) = n /\ schema \in Seq(1..Files)
    BY <1>1, <1>2
  <1>4. \A b \in Boot : boot[b] = Down
    BY DEF Init, MigrationsInit
  <1>5. BootOK
    BY DEF Init, MigrationsInit, BootOK, Step, Down
  <1>6. Whole
    BY <1>1, <1>2, <1>3 DEF Whole, Version
  <1> QED
    <2>1. ReleasedIsMigrated
      <3>1. PICK k \in 0..Files : rows = 1..k /\ released \in {FALSE, k = Files}
        BY DEF Init, MigrationsInit
      <3> QED
        BY <3>1 DEF ReleasedIsMigrated
    <2> QED
      BY <2>1, <1>4, <1>5, <1>6 DEF MInv, EachFollows, OneApplies, ServesMigrated, Applying, Down

\* A process that does not go on to apply, and does not serve an older database.
LEMMA Elsewhere ==
    ASSUME MInv, NEW b \in Boot, NEW to \in Step, Moves(b, to),
           to.at # "applying", to.at = "serving" => rows = 1..Files,
           UNCHANGED <<schema, rows, released>>
    PROVE  MInv'
  <1>1. \A o \in Boot : boot'[o] = IF o = b THEN to ELSE boot[o]
    BY DEF MInv, BootOK, Moves
  <1>2. BootOK'
    BY DEF MInv, BootOK, Moves
  <1>3. Whole'
    BY DEF MInv, Whole, Version
  <1>4. \A o \in Boot : Applying(o)' => o # b /\ Applying(o) /\ boot'[o] = boot[o]
    BY <1>1 DEF Applying
  <1>5. EachFollows'
    <2> SUFFICES ASSUME NEW o \in Boot, Applying(o)' PROVE Follows(o)'
      BY DEF EachFollows
    <2>1. Follows(o) /\ boot'[o] = boot[o]
      BY <1>4 DEF MInv, EachFollows
    <2> QED
      BY <2>1 DEF Follows, Version
  <1>6. OneApplies'
    BY <1>4 DEF MInv, OneApplies
  <1>7. ServesMigrated'
    BY <1>1 DEF MInv, ServesMigrated
  <1>8. ReleasedIsMigrated'
    BY DEF MInv, ReleasedIsMigrated
  <1> QED
    BY <1>2, <1>3, <1>5, <1>6, <1>7, <1>8 DEF MInv

LEMMA StartKeeps == ASSUME MInv, NEW b \in Boot, Start(b) PROVE MInv'
  <1>1. [at |-> "looking", for |-> "role"] \in Step
    BY DEF Step
  <1> QED
    BY <1>1, Elsewhere DEF Start

LEMMA ServeKeeps == ASSUME MInv, NEW b \in Boot, Serve(b) PROVE MInv'
  <1>1. [at |-> "serving"] \in Step
    BY DEF Step
  <1>2. rows = 1..Files
    BY DEF MInv, ReleasedIsMigrated, Serve
  <1> QED
    BY <1>1, <1>2, Elsewhere DEF Serve

LEMMA FailsKeeps == ASSUME MInv, NEW b \in Boot, Fails(b) PROVE MInv'
  <1>1. Down \in Step /\ Down.at = "down"
    BY DEF Step, Down
  <1> QED
    BY <1>1, Elsewhere DEF Fails

LEMMA RefusedKeeps == ASSUME MInv, NEW b \in Boot, Refused(b) PROVE MInv'
  <1>1. Down \in Step /\ Down.at = "down"
    BY DEF Step, Down
  <1> QED
    BY <1>1, Elsewhere DEF Refused

LEMMA ProvidedKeeps ==
    ASSUME MInv, NEW b \in Boot, NEW x, Provided(b, x),
           UNCHANGED <<schema, rows, released>>
    PROVE  MInv'
  <1>1. /\ [at |-> "looking", for |-> "table"] \in Step
        /\ [at |-> "reading"] \in Step
    BY DEF Step
  <1>2. CASE x = "role"
    BY <1>1, <1>2, Elsewhere DEF Provided
  <1>3. CASE x # "role"
    BY <1>1, <1>3, Elsewhere DEF Provided
  <1> QED
    BY <1>2, <1>3

LEMMA LookKeeps == ASSUME MInv, NEW b \in Boot, Look(b) PROVE MInv'
  <1>1. CASE boot[b].for \in made
    BY <1>1, ProvidedKeeps DEF Look
  <1>2. CASE boot[b].for \notin made
    <2>1. boot[b] \in Step /\ boot[b].at = "looking"
      BY DEF MInv, BootOK, Look
    <2>2. boot[b].for \in {"role", "table"}
      BY <2>1 DEF Step
    <2>3. [at |-> "making", for |-> boot[b].for] \in Step
      BY <2>2 DEF Step
    <2> QED
      BY <1>2, <2>3, Elsewhere DEF Look
  <1> QED
    BY <1>1, <1>2

LEMMA MakeKeeps == ASSUME MInv, NEW b \in Boot, Make(b) PROVE MInv'
  BY ProvidedKeeps DEF Make

\* A process that reads what is recorded knows all of it.
LEMMA ReadAppliedKeeps == ASSUME MInv, NEW b \in Boot, ReadApplied(b) PROVE MInv'
  <1> DEFINE to == [at |-> "applying", done |-> rows, mine |-> << >>]
  <1>1. Files \in Nat /\ Version \in 0..Files
    BY MigrationAssumption DEF MInv, Whole, Version
  <1>2. to \in Step
    BY <1>1 DEF MInv, Whole, Step
  <1>3. \A o \in Boot : boot'[o] = IF o = b THEN to ELSE boot[o]
    BY DEF MInv, BootOK, ReadApplied, Moves
  <1>4. BootOK'
    BY <1>2 DEF MInv, BootOK, ReadApplied, Moves
  <1>5. Whole'
    BY DEF MInv, Whole, Version, ReadApplied
  <1>6. EachFollows'
    <2> SUFFICES ASSUME NEW o \in Boot, Applying(o)' PROVE Follows(o)'
      BY DEF EachFollows
    <2>1. CASE o = b
      <3>1. boot'[o].done = 1..Version /\ boot'[o].mine = << >>
        BY <2>1, <1>3 DEF MInv, Whole
      <3>2. Version' = Version
        BY DEF ReadApplied, Version
      <3> QED
        BY <3>1, <3>2, <1>1 DEF Follows
    <2>2. CASE o # b
      <3>1. Applying(o) /\ boot'[o] = boot[o]
        BY <2>2, <1>3 DEF Applying
      <3>2. Follows(o)
        BY <3>1 DEF MInv, EachFollows
      <3> QED
        BY <3>1, <3>2 DEF Follows, Version, ReadApplied
    <2> QED
      BY <2>1, <2>2
  <1>7. OneApplies'
    <2> SUFFICES ASSUME NEW p \in Boot, NEW o \in Boot, Applying(p)', Applying(o)',
                        boot'[p].mine # << >>, boot'[o].mine # << >>
                 PROVE  p = o
      BY DEF OneApplies
    <2>1. p # b /\ o # b
      BY <1>3
    <2> QED
      BY <2>1, <1>3 DEF MInv, OneApplies, Applying
  <1>8. ServesMigrated'
    BY <1>3 DEF MInv, ServesMigrated, ReadApplied
  <1>9. ReleasedIsMigrated'
    BY DEF MInv, ReleasedIsMigrated, ReadApplied
  <1> QED
    BY <1>4, <1>5, <1>6, <1>7, <1>8, <1>9 DEF MInv

\* A file that is applied comes right after what is recorded and what its process has
\* applied, and no other process has applied any.
LEMMA ApplyKeeps == ASSUME MInv, NEW b \in Boot, NEW f \in 1..Files, Apply(b, f) PROVE MInv'
  <1> DEFINE m == boot[b].mine
             to == [boot[b] EXCEPT !.mine = Append(@, f)]
  <1>1. PICK n \in 0..Version :
          /\ boot[b].done = 1..n
          /\ n + Len(m) <= Files
          /\ \A i \in 1..Len(m) : m[i] = n + i
          /\ m # << >> => n = Version
    BY DEF MInv, EachFollows, Follows, Applying, Apply
  <1>2. Files \in Nat /\ Version \in 0..Files /\ n \in Nat
    BY MigrationAssumption DEF MInv, Whole, Version
  <1>3. /\ m \in Seq(1..Files)
        /\ Range(m) = (n + 1)..(n + Len(m))
        /\ Pending(b) = (n + Len(m) + 1)..Files
    BY <1>1, <1>2, PendingFollows DEF MInv, Apply, Applying
  <1>4. Len(m) \in Nat
    BY <1>3
  <1>5. f = n + Len(m) + 1
    <2>1. n + Len(m) + 1 \in Pending(b)
      BY <1>2, <1>3, <1>4 DEF Apply, Turn
    <2> QED
      BY <2>1, <1>2, <1>3, <1>4 DEF Apply, Turn
  <1>6. n = Version
    <2>1. f \notin 1..Version
      BY DEF Apply, MInv, Whole
    <2>2. CASE m = << >>
      BY <2>1, <2>2, <1>2, <1>5
    <2>3. CASE m # << >>
      BY <2>3, <1>1
    <2> QED
      BY <2>2, <2>3
  <1>7. \A o \in Boot \ {b} : Applying(o) => boot[o].mine = << >>
    <2> SUFFICES ASSUME NEW o \in Boot \ {b}, Applying(o), boot[o].mine # << >> PROVE FALSE
      OBVIOUS
    <2>1. m = << >>
      BY DEF MInv, OneApplies, Applying, Apply
    <2>2. f = Version + 1
      BY <2>1, <1>5, <1>6, <1>2
    <2>3. PICK k \in 0..Version :
            /\ boot[o].done = 1..k
            /\ \A i \in 1..Len(boot[o].mine) : boot[o].mine[i] = k + i
            /\ k = Version
      BY DEF MInv, EachFollows, Follows
    <2>4. /\ boot[o].mine \in Seq(1..Files)
          /\ Range(boot[o].mine) = (k + 1)..(k + Len(boot[o].mine))
      <3>1. k \in Nat /\ o \in Boot
        BY <1>2
      <3>2. BootOK
        BY DEF MInv
      <3> QED
        BY <2>3, <3>1, <3>2, PendingFollows
    <2>5. Len(boot[o].mine) \in Nat \ {0}
      BY <2>4
    <2>6. f \in Range(boot[o].mine)
      BY <2>2, <2>3, <2>4, <2>5, <1>2
    <2> QED
      BY <2>6 DEF Contended, Apply, Applying
  <1>8. boot[b] \in [at : {"applying"}, done : SUBSET (1..Files), mine : Seq(1..Files)]
    BY DEF MInv, BootOK, Step, Apply
  <1>9. to \in [at : {"applying"}, done : SUBSET (1..Files), mine : Seq(1..Files)]
    <2>1. Append(m, f) \in Seq(1..Files)
      BY <1>3
    <2> QED
      BY <1>8, <2>1
  <1>10. \A o \in Boot : boot'[o] = IF o = b THEN to ELSE boot[o]
    BY DEF MInv, BootOK, Apply, Moves
  <1>11. BootOK'
    BY <1>9 DEF MInv, BootOK, Step, Apply, Moves
  <1>12. Whole'
    BY DEF MInv, Whole, Version, Apply
  <1>13. EachFollows'
    <2> SUFFICES ASSUME NEW o \in Boot, Applying(o)' PROVE Follows(o)'
      BY DEF EachFollows
    <2>0. Version' = Version
      BY DEF Apply, Version
    <2>1. CASE o = b
      <3>1. boot'[o].done = 1..n /\ boot'[o].mine = Append(m, f)
        BY <2>1, <1>10, <1>8, <1>1
      <3>2. Len(Append(m, f)) = Len(m) + 1
        BY <1>3
      <3>3. \A i \in 1..(Len(m) + 1) : Append(m, f)[i] = n + i
        <4> TAKE i \in 1..(Len(m) + 1)
        <4>1. CASE i <= Len(m)
          <5>1. Append(m, f)[i] = m[i]
            BY <4>1, <1>3, <1>4
          <5> QED
            BY <4>1, <5>1, <1>1, <1>4
        <4>2. CASE i = Len(m) + 1
          <5>1. Append(m, f)[i] = f
            BY <4>2, <1>3
          <5> QED
            BY <4>2, <5>1, <1>5, <1>2, <1>4
        <4> QED
          BY <4>1, <4>2, <1>4
      <3>4. n + (Len(m) + 1) <= Files
        BY <1>5, <1>2, <1>4
      <3>5. n \in 0..Version
        OBVIOUS
      <3> QED
        BY <2>0, <3>1, <3>2, <3>3, <3>4, <3>5, <1>6 DEF Follows
    <2>2. CASE o # b
      <3>1. Applying(o) /\ boot'[o] = boot[o]
        BY <2>2, <1>10 DEF Applying
      <3>2. Follows(o)
        BY <3>1 DEF MInv, EachFollows
      <3> QED
        BY <2>0, <3>1, <3>2 DEF Follows
    <2> QED
      BY <2>1, <2>2
  <1>14. OneApplies'
    <2> SUFFICES ASSUME NEW p \in Boot, NEW o \in Boot, Applying(p)', Applying(o)',
                        boot'[p].mine # << >>, boot'[o].mine # << >>
                 PROVE  p = o
      BY DEF OneApplies
    <2>1. p = b /\ o = b
      BY <1>7, <1>10 DEF Applying
    <2> QED
      BY <2>1
  <1>15. ServesMigrated'
    BY <1>10, <1>8 DEF MInv, ServesMigrated, Apply
  <1>16. ReleasedIsMigrated'
    BY DEF MInv, ReleasedIsMigrated, Apply
  <1> QED
    BY <1>11, <1>12, <1>13, <1>14, <1>15, <1>16 DEF MInv

\* A commit completes the database; what it leaves to others is refused.
LEMMA CommitKeeps == ASSUME MInv, NEW b \in Boot, Commit(b) PROVE MInv'
  <1> DEFINE m == boot[b].mine
  <1>1. PICK n \in 0..Version :
          /\ boot[b].done = 1..n
          /\ n + Len(m) <= Files
          /\ \A i \in 1..Len(m) : m[i] = n + i
          /\ m # << >> => n = Version
    BY DEF MInv, EachFollows, Follows, Applying, Commit
  <1>2. Files \in Nat /\ Version \in 0..Files /\ n \in Nat
    BY MigrationAssumption DEF MInv, Whole, Version
  <1>3. /\ m \in Seq(1..Files)
        /\ Range(m) = (n + 1)..(n + Len(m))
        /\ Pending(b) = (n + Len(m) + 1)..Files
    BY <1>1, <1>2, PendingFollows DEF MInv, Commit, Applying
  <1>4. Len(m) \in Nat
    BY <1>3
  <1>5. n + Len(m) = Files
    <2>1. Pending(b) = {}
      BY DEF Commit
    <2>2. (n + Len(m) + 1)..Files = {} /\ n + Len(m) <= Files
      BY <2>1, <1>1, <1>3
    <2> HIDE DEF m
    <2>3. n + Len(m) + 1 <= Files => n + Len(m) + 1 \in (n + Len(m) + 1)..Files
      BY <1>2, <1>4
    <2> QED
      BY <2>2, <2>3, <1>2, <1>4
  <1>6. Version + Len(m) = Files
    <2>1. CASE m = << >>
      BY <2>1, <1>5, <1>2, <1>4
    <2>2. CASE m # << >>
      BY <2>2, <1>1, <1>5
    <2> QED
      BY <2>1, <2>2
  <1>7. schema \in Seq(1..Files) /\ \A i \in 1..Version : schema[i] = i
    BY DEF MInv, Whole
  <1>8. schema' = schema \o m /\ Version' = Files /\ schema' \in Seq(1..Files)
    BY <1>3, <1>6, <1>7 DEF Commit, Version
  <1>9. \A i \in 1..Files : schema'[i] = i
    <2> TAKE i \in 1..Files
    <2>1. CASE i <= Version
      <3>1. schema'[i] = schema[i]
        BY <2>1, <1>2, <1>3, <1>7, <1>8 DEF Version
      <3> QED
        BY <2>1, <3>1, <1>7, <1>2
    <2>2. CASE i > Version
      <3>1. schema'[i] = m[i - Version]
        BY <2>2, <1>2, <1>3, <1>6, <1>7, <1>8 DEF Version
      <3>2. i - Version \in 1..Len(m)
        BY <2>2, <1>2, <1>6, <1>4
      <3>3. m # << >>
        BY <3>2, <1>4
      <3> QED
        BY <3>1, <3>2, <3>3, <1>1, <1>2
    <2> QED
      BY <2>1, <2>2, <1>2
  <1>10. rows' = 1..Files
    <2>1. rows' = (1..Version) \cup ((n + 1)..(n + Len(m)))
      BY <1>3 DEF Commit, MInv, Whole
    <2>2. n <= Version
      BY <1>2
    <2> QED
      BY <2>1, <2>2, <1>2, <1>4, <1>5
  <1>11. \A o \in Boot : boot'[o] = IF o = b THEN [at |-> "serving"] ELSE boot[o]
    BY DEF MInv, BootOK, Commit, Moves
  <1>12. BootOK'
    <2>1. [at |-> "serving"] \in Step
      BY DEF Step
    <2> QED
      BY <2>1 DEF MInv, BootOK, Commit, Moves
  <1>13. Whole'
    BY <1>2, <1>8, <1>9, <1>10 DEF Whole, Version
  <1>14. \A o \in Boot : Applying(o)' => o # b /\ Applying(o) /\ boot'[o] = boot[o]
    BY <1>11 DEF Applying
  <1>15. EachFollows'
    <2> SUFFICES ASSUME NEW o \in Boot, Applying(o)' PROVE Follows(o)'
      BY DEF EachFollows
    <2>1. o # b /\ Applying(o) /\ boot'[o] = boot[o]
      BY <1>14
    <2>2. PICK k \in 0..Version :
            /\ boot[o].done = 1..k
            /\ k + Len(boot[o].mine) <= Files
            /\ \A i \in 1..Len(boot[o].mine) : boot[o].mine[i] = k + i
            /\ boot[o].mine # << >> => k = Version
      BY <2>1 DEF MInv, EachFollows, Follows
    <2>3. k \in 0..Version'
      BY <1>2, <1>8
    <2>4. boot[o].mine # << >> => k = Version'
      <3> SUFFICES ASSUME boot[o].mine # << >> PROVE k = Version'
        OBVIOUS
      <3>1. m = << >>
        BY <2>1 DEF MInv, OneApplies, Applying, Commit
      <3> QED
        BY <3>1, <2>2, <1>6, <1>8, <1>2
    <2> QED
      BY <2>1, <2>2, <2>3, <2>4 DEF Follows
  <1>16. OneApplies'
    BY <1>14 DEF MInv, OneApplies
  <1>17. ServesMigrated'
    BY <1>10 DEF ServesMigrated
  <1>18. ReleasedIsMigrated'
    BY <1>10 DEF ReleasedIsMigrated
  <1> QED
    BY <1>12, <1>13, <1>15, <1>16, <1>17, <1>18 DEF MInv

LEMMA MSteps == ASSUME MInv, [Next]_vars PROVE MInv'
  <1>1. ASSUME NEW b \in Boot, Starts(b) PROVE MInv'
    BY <1>1, StartKeeps, ServeKeeps DEF Starts
  <1>2. ASSUME NEW b \in Boot, Migrate(b) PROVE MInv'
    BY <1>2, LookKeeps, MakeKeeps, ReadAppliedKeeps, ApplyKeeps, CommitKeeps, RefusedKeeps
       DEF Migrate, Runs
  <1>3. ASSUME NEW b \in Boot, Dies(b) PROVE MInv'
    BY <1>3, FailsKeeps DEF Dies
  <1>4. CASE UNCHANGED migrationVars
    BY <1>4 DEF migrationVars, MInv, BootOK, Whole, EachFollows, Follows, OneApplies,
                ReleasedIsMigrated, ServesMigrated, Applying, Version
  <1> QED
    BY <1>1, <1>2, <1>3, <1>4 DEF Next, Request, Connections, vars

-----------------------------------------------------------------------------
(* The pool.                                                                *)

OpenConn == [pool : Nat \ {0}, guc : Org \cup {NoOrg}, broken : BOOLEAN]

Inside == [at : {"inside"}, org : Org \cup {NoOrg}, with : Conn, saw : SUBSET Org]
Place ==
    [at : {"idle"}]
      \cup [at : {"making", "waiting"}, pool : Nat, org : Org \cup {NoOrg}]
      \cup Inside

PoolOK ==
    /\ pools \in Nat
    /\ conn \in [Conn -> {Closed} \cup OpenConn]
    /\ caller \in [Caller -> Place]

\* Who is inside a connection has it open, set to its org, and to itself.
HoldsOwn ==
    \A c \in Caller : caller[c].at = "inside" =>
      conn[caller[c].with] \in OpenConn /\ conn[caller[c].with].guc = caller[c].org

HoldsAlone ==
    \A c, d \in Caller :
      caller[c].at = "inside" /\ caller[d].at = "inside" /\ caller[c].with = caller[d].with => c = d

\* A connection that is free is set to no org.
FreeIsClear == \A k \in Conn : conn[k] \in OpenConn /\ ~Lent(k) => conn[k].guc = NoOrg

ThreadsServe == \A c \in Caller : caller[c].at # "idle" => Serving

PInv == PoolOK /\ HoldsOwn /\ HoldsAlone /\ FreeIsClear /\ ThreadsServe /\ RowsAreOwn

LEMMA ClosedIsNotOpen == Closed \notin OpenConn
  <1> SUFFICES ASSUME Closed \in OpenConn PROVE FALSE
    OBVIOUS
  <1>1. Closed.pool # 0
    BY DEF OpenConn
  <1> QED
    BY <1>1 DEF Closed

\* What is inside is a record of that kind.
LEMMA InsideIs ==
    ASSUME PoolOK, NEW c \in Caller, caller[c].at = "inside"
    PROVE  caller[c] \in Inside
  <1>1. caller[c] \in Place
    BY DEF PoolOK
  <1> QED
    BY <1>1 DEF Place, Inside

LEMMA PStarts == ASSUME PoolInit PROVE PInv
  <1>1. PoolOK
    BY DEF PoolInit, PoolOK, Place, Idle
  <1> QED
    BY <1>1, ClosedIsNotOpen
       DEF PoolInit, PInv, HoldsOwn, HoldsAlone, FreeIsClear, ThreadsServe, RowsAreOwn, Idle

\* A thread that stays or goes outside, while the connections stay as they are.
LEMMA StaysOutside ==
    ASSUME PInv, NEW c \in Caller, caller[c].at # "inside",
           NEW to \in Place, Stands(c, to), to.at # "inside", to.at # "idle" => Serving,
           pools' \in Nat, UNCHANGED <<conn, boot>>
    PROVE  PInv'
  <1>1. \A d \in Caller : caller'[d] = IF d = c THEN to ELSE caller[d]
    BY DEF PInv, PoolOK, Stands
  <1>2. PoolOK'
    BY DEF PInv, PoolOK, Stands
  <1>3. \A d \in Caller : caller'[d].at = "inside" => caller[d].at = "inside" /\ caller'[d] = caller[d]
    BY <1>1
  <1>4. \A k \in Conn : Lent(k)' <=> Lent(k)
    BY <1>1 DEF Lent
  <1>5. HoldsOwn' /\ HoldsAlone' /\ RowsAreOwn'
    BY <1>3 DEF PInv, HoldsOwn, HoldsAlone, RowsAreOwn
  <1>6. FreeIsClear'
    BY <1>4 DEF PInv, FreeIsClear
  <1>7. ThreadsServe'
    BY <1>1 DEF PInv, ThreadsServe, Serving
  <1> QED
    BY <1>2, <1>5, <1>6, <1>7 DEF PInv

LEMMA EnterKeeps ==
    ASSUME PInv, Serving, UNCHANGED boot, NEW c \in Caller, NEW org \in Org \cup {NoOrg}, Enter(c, org)
    PROVE  PInv'
  <1>1. [at |-> IF pools = 0 THEN "making" ELSE "waiting", pool |-> pools, org |-> org] \in Place
    BY DEF PInv, PoolOK, Place
  <1>2. pools' \in Nat
    BY DEF PInv, PoolOK, Enter
  <1> QED
    BY <1>1, <1>2, StaysOutside DEF Enter

LEMMA MakePoolKeeps ==
    ASSUME PInv, Serving, UNCHANGED boot, NEW c \in Caller, MakePool(c)
    PROVE  PInv'
  <1> DEFINE to == [caller[c] EXCEPT !.at = "waiting", !.pool = pools + 1]
  <1>1. caller[c] \in [at : {"making", "waiting"}, pool : Nat, org : Org \cup {NoOrg}]
    BY DEF PInv, PoolOK, Place, Inside, MakePool
  <1>2. pools' \in Nat /\ pools + 1 \in Nat
    BY DEF PInv, PoolOK, MakePool
  <1>3. to \in [at : {"making", "waiting"}, pool : Nat, org : Org \cup {NoOrg}] /\ to.at = "waiting"
    BY <1>1, <1>2
  <1>4. to \in Place
    BY <1>3 DEF Place
  <1> QED
    BY <1>2, <1>3, <1>4, StaysOutside DEF MakePool

LEMMA TimeOutKeeps ==
    ASSUME PInv, Serving, UNCHANGED boot, NEW c \in Caller, TimeOut(c)
    PROVE  PInv'
  <1>1. Idle \in Place /\ Idle.at = "idle"
    BY DEF Idle, Place
  <1>2. pools' \in Nat
    BY DEF PInv, PoolOK, TimeOut
  <1> QED
    BY <1>1, <1>2, StaysOutside DEF TimeOut

\* A loan: of a connection that is free, and set to no org until then.
LEMMA BorrowKeeps ==
    ASSUME PInv, Serving, UNCHANGED boot, NEW c \in Caller, NEW k \in Conn, Borrow(c, k)
    PROVE  PInv'
  <1> DEFINE to == [at |-> "inside", org |-> caller[c].org, with |-> k, saw |-> {}]
             set == [conn[k] EXCEPT !.guc = IF caller[c].org = NoOrg THEN @ ELSE caller[c].org]
  <1>1. caller[c] \in [at : {"making", "waiting"}, pool : Nat, org : Org \cup {NoOrg}]
    BY DEF PInv, PoolOK, Place, Inside, Borrow
  <1>2. caller[c].org \in Org \cup {NoOrg}
    BY <1>1
  <1>3. to \in Inside
    BY <1>2 DEF Inside
  <1>4. conn[k] \in OpenConn /\ conn[k].guc = NoOrg
    BY DEF PInv, PoolOK, FreeIsClear, Borrow
  <1>5. set \in OpenConn /\ set.guc = caller[c].org
    BY <1>2, <1>4 DEF OpenConn
  <1>6. \A d \in Caller : caller'[d] = IF d = c THEN to ELSE caller[d]
    BY DEF PInv, PoolOK, Borrow, Stands
  <1>7. \A j \in Conn : conn'[j] = IF j = k THEN set ELSE conn[j]
    BY DEF PInv, PoolOK, Borrow
  <1>8. PoolOK'
    BY <1>3, <1>5 DEF PInv, PoolOK, Borrow, Stands, Place
  <1>9. \A d \in Caller : d # c /\ caller'[d].at = "inside" =>
          /\ caller[d].at = "inside" /\ caller'[d] = caller[d]
          /\ caller[d].with # k /\ caller[d].with \in Conn
    <2> SUFFICES ASSUME NEW d \in Caller, d # c, caller'[d].at = "inside"
                 PROVE  /\ caller[d].at = "inside" /\ caller'[d] = caller[d]
                        /\ caller[d].with # k /\ caller[d].with \in Conn
      OBVIOUS
    <2>1. caller[d].at = "inside" /\ caller'[d] = caller[d]
      BY <1>6
    <2>2. caller[d] \in Inside
      BY <2>1, InsideIs DEF PInv
    <2> QED
      BY <2>1, <2>2 DEF Inside, Borrow, Lent
  <1>10. HoldsOwn'
    <2> SUFFICES ASSUME NEW d \in Caller, caller'[d].at = "inside"
                 PROVE  conn'[caller'[d].with] \in OpenConn /\ conn'[caller'[d].with].guc = caller'[d].org
      BY DEF HoldsOwn
    <2>1. CASE d = c
      <3>1. caller'[d] = to /\ to.with = k /\ to.org = caller[c].org
        BY <2>1, <1>6
      <3> QED
        BY <3>1, <1>5, <1>7
    <2>2. CASE d # c
      <3>1. caller[d].at = "inside" /\ caller'[d] = caller[d] /\ conn'[caller[d].with] = conn[caller[d].with]
        BY <2>2, <1>7, <1>9
      <3> QED
        BY <3>1 DEF PInv, HoldsOwn
    <2> QED
      BY <2>1, <2>2
  <1>11. HoldsAlone'
    BY <1>6, <1>9 DEF PInv, HoldsAlone
  <1>12. FreeIsClear'
    <2> SUFFICES ASSUME NEW j \in Conn, conn'[j] \in OpenConn, ~Lent(j)' PROVE conn'[j].guc = NoOrg
      BY DEF FreeIsClear
    <2>1. j # k
      BY <1>6 DEF Lent
    <2>2. ~Lent(j)
      <3> SUFFICES ASSUME NEW d \in Caller, caller[d].at = "inside", caller[d].with = j PROVE FALSE
        BY DEF Lent
      <3>1. d # c
        BY <1>1
      <3> QED
        BY <3>1, <1>6 DEF Lent
    <2> QED
      BY <2>1, <2>2, <1>7 DEF PInv, FreeIsClear
  <1>13. ThreadsServe'
    BY DEF Serving, ThreadsServe
  <1>14. RowsAreOwn'
    BY <1>6 DEF PInv, RowsAreOwn
  <1> QED
    BY <1>8, <1>10, <1>11, <1>12, <1>13, <1>14 DEF PInv

\* A statement sees the rows of the org its connection is set to, which is its own.
LEMMA QueryKeeps ==
    ASSUME PInv, Serving, UNCHANGED boot, NEW c \in Caller, Query(c, TRUE)
    PROVE  PInv'
  <1> DEFINE k == caller[c].with
             to == [caller[c] EXCEPT !.saw = @ \cup ({conn[k].guc} \ {NoOrg})]
  <1>1. caller[c] \in Inside /\ caller[c].at = "inside"
    BY InsideIs DEF Query, PInv
  <1>2. conn[k] \in OpenConn /\ conn[k].guc = caller[c].org
    BY <1>1 DEF PInv, HoldsOwn
  <1>3. caller[c].saw \subseteq {caller[c].org} \ {NoOrg}
    BY <1>1 DEF PInv, RowsAreOwn
  <1>4. /\ to \in Inside
        /\ to.at = "inside" /\ to.with = k /\ to.org = caller[c].org
        /\ to.saw \subseteq {to.org} \ {NoOrg}
    BY <1>1, <1>2, <1>3 DEF Inside
  <1>5. caller' = [caller EXCEPT ![c] = to] /\ UNCHANGED <<pools, conn>>
    BY DEF Query, Stands
  <1>6. \A d \in Caller : caller'[d] = IF d = c THEN to ELSE caller[d]
    BY <1>5 DEF PInv, PoolOK
  <1>7. PoolOK'
    BY <1>4, <1>5 DEF PInv, PoolOK, Place
  <1>8. \A d \in Caller : caller'[d].at = caller[d].at
    BY <1>1, <1>4, <1>6
  <1>9. \A d \in Caller : caller[d].at = "inside" => caller'[d].with = caller[d].with /\ caller'[d].org = caller[d].org
    BY <1>1, <1>4, <1>6
  <1>10. \A j \in Conn : Lent(j)' <=> Lent(j)
    BY <1>8, <1>9 DEF Lent
  <1>11. HoldsOwn' /\ HoldsAlone'
    BY <1>5, <1>8, <1>9 DEF PInv, HoldsOwn, HoldsAlone
  <1>12. FreeIsClear'
    BY <1>5, <1>10 DEF PInv, FreeIsClear
  <1>13. ThreadsServe'
    BY DEF Serving, ThreadsServe
  <1>14. RowsAreOwn'
    BY <1>4, <1>6 DEF PInv, RowsAreOwn
  <1> QED
    BY <1>7, <1>11, <1>12, <1>13, <1>14 DEF PInv

\* The end of a loan, which clears the setting of the one connection it was for.
LEMMA ExitKeeps ==
    ASSUME PInv, Serving, UNCHANGED boot, NEW c \in Caller, Exit(c)
    PROVE  PInv'
  <1> DEFINE k == caller[c].with
             cleared == [conn[k] EXCEPT !.guc = NoOrg]
  <1>1. caller[c] \in Inside /\ caller[c].at = "inside" /\ k \in Conn
    BY InsideIs DEF Exit, PInv, Inside
  <1>2. conn[k] \in OpenConn
    BY <1>1 DEF PInv, HoldsOwn
  <1>3. cleared \in OpenConn /\ cleared.guc = NoOrg
    BY <1>2 DEF OpenConn
  <1>4. \A d \in Caller : caller'[d] = IF d = c THEN Idle ELSE caller[d]
    BY DEF PInv, PoolOK, Exit, Stands
  <1>5. \A j \in Conn : conn'[j] = IF j = k THEN cleared ELSE conn[j]
    BY DEF PInv, PoolOK, Exit
  <1>6. PoolOK'
    BY <1>3 DEF PInv, PoolOK, Exit, Stands, Place, Idle
  <1>7. \A d \in Caller : caller'[d].at = "inside" =>
          /\ d # c /\ caller[d].at = "inside" /\ caller'[d] = caller[d]
          /\ caller[d].with # k /\ caller[d].with \in Conn
    <2> SUFFICES ASSUME NEW d \in Caller, caller'[d].at = "inside"
                 PROVE  /\ d # c /\ caller[d].at = "inside" /\ caller'[d] = caller[d]
                        /\ caller[d].with # k /\ caller[d].with \in Conn
      OBVIOUS
    <2>1. d # c /\ caller[d].at = "inside" /\ caller'[d] = caller[d]
      BY <1>4 DEF Idle
    <2>2. caller[d] \in Inside
      BY <2>1, InsideIs DEF PInv
    <2> QED
      BY <2>1, <2>2, <1>1 DEF Inside, PInv, HoldsAlone
  <1>8. HoldsOwn' /\ HoldsAlone' /\ RowsAreOwn'
    BY <1>5, <1>7 DEF PInv, HoldsOwn, HoldsAlone, RowsAreOwn
  <1>9. FreeIsClear'
    <2> SUFFICES ASSUME NEW j \in Conn, conn'[j] \in OpenConn, ~Lent(j)' PROVE conn'[j].guc = NoOrg
      BY DEF FreeIsClear
    <2>1. CASE j = k
      BY <2>1, <1>3, <1>5
    <2>2. CASE j # k
      <3>1. ~Lent(j)
        BY <2>2, <1>4 DEF Lent
      <3> QED
        BY <2>2, <3>1, <1>5 DEF PInv, FreeIsClear
    <2> QED
      BY <2>1, <2>2
  <1>10. ThreadsServe'
    BY DEF Serving, ThreadsServe
  <1> QED
    BY <1>6, <1>8, <1>9, <1>10 DEF PInv

\* What the pool does by itself leaves the setting of every connection alone.
LEMMA PoolStepKeeps ==
    ASSUME PInv, UNCHANGED boot, PoolStep
    PROVE  PInv'
  <1>1. PICK k \in Conn : Break(k) \/ Discard(k) \/ \E p \in 1..pools : Open(p, k)
    BY DEF PoolStep
  <1>2. PICK to \in {Closed} \cup OpenConn :
          /\ conn' = [conn EXCEPT ![k] = to]
          /\ to \in OpenConn /\ conn[k] \in OpenConn => to.guc = conn[k].guc
          /\ to \in OpenConn /\ conn[k] \notin OpenConn => to.guc = NoOrg
          /\ Lent(k) => to \in OpenConn \/ conn[k] \notin OpenConn
    <2>1. CASE Break(k)
      <3>1. conn[k] \in OpenConn
        BY <2>1 DEF Break, PInv, PoolOK
      <3>2. [conn[k] EXCEPT !.broken = TRUE] \in OpenConn
        BY <3>1 DEF OpenConn
      <3>3. [conn[k] EXCEPT !.broken = TRUE].guc = conn[k].guc
        BY <3>1 DEF OpenConn
      <3> QED
        BY <2>1, <3>1, <3>2, <3>3 DEF Break
    <2>2. CASE Discard(k)
      BY <2>2, ClosedIsNotOpen DEF Discard
    <2>3. ASSUME NEW p \in 1..pools, Open(p, k)
          PROVE  \E to \in {Closed} \cup OpenConn :
                   /\ conn' = [conn EXCEPT ![k] = to]
                   /\ to \in OpenConn /\ conn[k] \in OpenConn => to.guc = conn[k].guc
                   /\ to \in OpenConn /\ conn[k] \notin OpenConn => to.guc = NoOrg
                   /\ Lent(k) => to \in OpenConn \/ conn[k] \notin OpenConn
      <3>1. [pool |-> p, guc |-> NoOrg, broken |-> FALSE] \in OpenConn
        BY <2>3 DEF OpenConn, PInv, PoolOK
      <3>2. conn[k] \notin OpenConn
        BY <2>3, ClosedIsNotOpen DEF Open
      <3> QED
        BY <2>3, <3>1, <3>2 DEF Open
    <2> QED
      BY <1>1, <2>1, <2>2, <2>3
  <1>3. UNCHANGED <<pools, caller>>
    BY <1>1 DEF Break, Discard, Open
  <1>4. \A j \in Conn : conn'[j] = IF j = k THEN to ELSE conn[j]
    BY <1>2 DEF PInv, PoolOK
  <1>5. PoolOK'
    BY <1>2, <1>3 DEF PInv, PoolOK
  <1>6. \A j \in Conn : Lent(j)' <=> Lent(j)
    BY <1>3 DEF Lent
  <1>7. HoldsOwn'
    <2> SUFFICES ASSUME NEW c \in Caller, caller[c].at = "inside"
                 PROVE  conn'[caller[c].with] \in OpenConn /\ conn'[caller[c].with].guc = caller[c].org
      BY <1>3 DEF HoldsOwn
    <2>1. conn[caller[c].with] \in OpenConn /\ conn[caller[c].with].guc = caller[c].org
      BY DEF PInv, HoldsOwn
    <2>2. caller[c].with \in Conn
      BY InsideIs DEF PInv, Inside
    <2>3. CASE caller[c].with = k
      <3>1. Lent(k)
        BY <2>3 DEF Lent
      <3> QED
        BY <2>1, <2>3, <3>1, <1>2, <1>4
    <2>4. CASE caller[c].with # k
      BY <2>1, <2>2, <2>4, <1>4
    <2> QED
      BY <2>3, <2>4
  <1>8. FreeIsClear'
    BY <1>2, <1>4, <1>6 DEF PInv, FreeIsClear
  <1>9. HoldsAlone' /\ RowsAreOwn' /\ ThreadsServe'
    BY <1>3 DEF PInv, HoldsAlone, RowsAreOwn, ThreadsServe, Serving
  <1> QED
    BY <1>5, <1>7, <1>8, <1>9 DEF PInv

-----------------------------------------------------------------------------
(* The deployment.                                                          *)

\* What is served has the policies that separate the tenants.
LEMMA ServedIsEnforced == ASSUME MInv, Serving PROVE Enforced
  <1>1. rows = 1..Files /\ rows = 1..Version /\ Version \in Nat /\ Files \in Nat
    BY MigrationAssumption, DeploymentAssumption DEF MInv, Whole, Version, ServesMigrated, Serving
  <1>2. RlsFile \in 1..Version
    BY <1>1, DeploymentAssumption
  <1>3. schema[RlsFile] = RlsFile /\ RlsFile \in DOMAIN schema
    BY <1>1, <1>2 DEF MInv, Whole, Version
  <1> QED
    BY <1>3 DEF Enforced, Range

\* A step of a process that does not end it lets the server serve on.
LEMMA ServesOn ==
    ASSUME MInv, NEW b \in Boot, Starts(b) \/ Migrate(b), Serving
    PROVE  Serving'
  <1>1. boot[Server].at = "serving" /\ boot \in [Boot -> Step]
    BY DEF Serving, MInv, BootOK
  <1>2. boot[b].at \in {"down", "looking", "making", "reading", "applying"}
    BY DEF Starts, Start, Serve, Migrate, Runs, Look, Make, ReadApplied, Apply, Commit, Refused
  <1>3. b # Server
    BY <1>1, <1>2
  <1>4. PICK to : boot' = [boot EXCEPT ![b] = to]
    BY DEF Starts, Start, Serve, Migrate, Runs, Look, Make, Provided, ReadApplied, Apply, Commit, Refused,
           Moves
  <1> QED
    BY <1>1, <1>3, <1>4, DeploymentAssumption DEF Serving

LEMMA PSteps == ASSUME MInv, PInv, [Next]_vars PROVE PInv'
  <1>1. ASSUME NEW b \in Boot, Starts(b) \/ Migrate(b) PROVE PInv'
    <2>1. UNCHANGED poolVars
      BY <1>1 DEF Starts, Migrate
    <2>2. ThreadsServe'
      BY <1>1, <2>1, ServesOn DEF PInv, ThreadsServe, poolVars
    <2> QED
      BY <2>1, <2>2 DEF poolVars, PInv, PoolOK, HoldsOwn, HoldsAlone, FreeIsClear, Lent, RowsAreOwn
  <1>2. ASSUME NEW b \in Boot, Dies(b) PROVE PInv'
    <2>1. CASE b = Server
      <3>1. PoolInit'
        BY <1>2, <2>1 DEF Dies, PoolInit
      <3>2. PoolOK'
        BY <3>1 DEF PoolInit, PoolOK, Place, Idle
      <3> QED
        BY <3>1, <3>2, ClosedIsNotOpen
           DEF PoolInit, PInv, HoldsOwn, HoldsAlone, FreeIsClear, ThreadsServe, RowsAreOwn, Idle
    <2>2. CASE b # Server
      <3>1. UNCHANGED poolVars
        BY <1>2, <2>2 DEF Dies
      <3>2. Serving' = Serving
        BY <1>2, <2>2, DeploymentAssumption DEF Dies, Fails, Moves, Serving, MInv, BootOK
      <3> QED
        BY <3>1, <3>2
           DEF poolVars, PInv, PoolOK, HoldsOwn, HoldsAlone, FreeIsClear, Lent, ThreadsServe, RowsAreOwn
    <2> QED
      BY <2>1, <2>2
  <1>3. ASSUME NEW c \in Caller, Request(c) PROVE PInv'
    <2>1. Serving /\ UNCHANGED boot
      BY <1>3 DEF Request, migrationVars
    <2>2. Enforced = TRUE
      BY <2>1, ServedIsEnforced DEF Enforced
    <2>3. CASE Query(c, Enforced)
      BY <2>1, <2>2, <2>3, QueryKeeps
    <2>4. CASE CallerStep(c)
      BY <2>1, <2>4, EnterKeeps, MakePoolKeeps, BorrowKeeps, TimeOutKeeps, ExitKeeps DEF CallerStep
    <2> QED
      BY <1>3, <2>3, <2>4 DEF Request
  <1>4. CASE Connections
    BY <1>4, PoolStepKeeps DEF Connections, migrationVars
  <1>5. CASE UNCHANGED vars
    BY <1>5 DEF vars, migrationVars, poolVars, PInv, PoolOK, HoldsOwn, HoldsAlone, FreeIsClear,
                Lent, ThreadsServe, Serving, RowsAreOwn
  <1> QED
    BY <1>1, <1>2, <1>3, <1>4, <1>5 DEF Next

LEMMA Invariant == Spec => [](MInv /\ PInv)
  <1>1. Init => MInv /\ PInv
    BY MStarts, PStarts DEF Init
  <1>2. MInv /\ PInv /\ [Next]_vars => (MInv /\ PInv)'
    BY MSteps, PSteps
  <1> QED
    BY <1>1, <1>2, PTL DEF Spec

\* Whatever dies and however many migrate at once, the files take effect once each and
\* in order, and schema_migrations says which did.
THEOREM FilesTakeEffectInOrder == Spec => []SchemaIsWhole
  <1>1. MInv => SchemaIsWhole
    BY DEF MInv, Whole, Version, SchemaIsWhole
  <1> QED
    BY <1>1, Invariant, PTL

\* The entrypoint's order, or the release command's: whoever serves does so on a
\* database with all its files.
THEOREM OnlyCurrentIsServed == Spec => []ServesMigrated
  <1>1. MInv => ServesMigrated
    BY DEF MInv
  <1> QED
    BY <1>1, Invariant, PTL

\* connect(org) of any thread, over any pool and whoever borrowed the connection
\* before, sees rows of that org only; connect() sees none.
THEOREM TenantsAreSeparate == Spec => []RowsAreOwn
  <1>1. PInv => RowsAreOwn
    BY DEF PInv
  <1> QED
    BY <1>1, Invariant, PTL
=============================================================================
