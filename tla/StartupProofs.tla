----------------------------- MODULE StartupProofs -----------------------------
(***************************************************************************)
(* Proofs about Startup, for any number of starts and writers.             *)
(***************************************************************************)
EXTENDS Startup, TLAPS

(* The script has statements 1..Len(Script), each with an object and,      *)
(* for an index, a table.                                                  *)
LEMMA ScriptFacts ==
    /\ Len(Script) \in Nat \ {0}
    /\ \A i \in 1..Len(Script) : /\ Script[i].object \in Objects
                                 /\ Script[i].table \in Tables \cup {None}
<1>1. Len(Script) = 5
  BY DEF Script
<1>2. \A i \in 1..5 : Script[i].table \in Tables \cup {None}
  BY DEF Script, Creates, Tables
<1>3. \A i \in 1..Len(Script) : Script[i].object \in Objects
  BY DEF Objects
<1> QED
  BY <1>1, <1>2, <1>3

-----------------------------------------------------------------------------
(* What is true of one start, besides the properties.                      *)

(* Only the holder of the advisory lock has written or locked anything,    *)
(* and whoever is in the script is the holder, unless it has given up.     *)
HolderOnly(p) == /\ stage[p] \in Scripting => advisory = p
                 /\ advisory = p => stage[p] \in Scripting \cup {"abort"}
                 /\ advisory # p => created[p] = {} /\ locks[p] = {}

(* Where it is in the script, and that what precedes is there.             *)
Done(p) == {Script[i].object : i \in 1..(next[p] - 1)}

InScript(p) ==
    /\ stage[p] \in {"idle", "locking"} => next[p] = 1
    /\ stage[p] \in {"look", "create"} => next[p] \in 1..Len(Script)
    /\ stage[p] = "commit" => next[p] = Len(Script) + 1
    /\ stage[p] \in Scripting => Done(p) \subseteq schema \cup created[p]

(* What it found missing stays missing, since it holds the lock.           *)
StillMissing(p) == stage[p] = "create" => Script[next[p]].object \notin schema \cup created[p]

Migrated(p) == stage[p] \in {"configure", "serving"} => schema = Objects

StartInv(p) == /\ HolderOnly(p) /\ InScript(p) /\ StillMissing(p) /\ Migrated(p)
               /\ failure[p] # "duplicate"

IInv == TypeOK /\ SchemaIsWhole /\ \A p \in Starts : StartInv(p)

LEMMA InitInv == Init => IInv
<1> USE SessionsAssumption, NoneAssumption, ScriptFacts
<1> SUFFICES ASSUME Init PROVE IInv
  OBVIOUS
<1>1. TypeOK
  BY DEF Init, TypeOK, Sessions, Stages
<1>2. SchemaIsWhole
  BY DEF Init, SchemaIsWhole
<1>3. ASSUME NEW p \in Starts PROVE StartInv(p)
  <2> USE DEF Init, Sessions
  <2>1. stage[p] = "idle" /\ next[p] = 1 /\ created[p] = {} /\ locks[p] = {}
    OBVIOUS
  <2>2. failure[p] # "duplicate"
    BY DEF Failures
  <2>3. HolderOnly(p) /\ InScript(p) /\ StillMissing(p) /\ Migrated(p)
    BY <2>1 DEF HolderOnly, InScript, StillMissing, Migrated, Scripting
  <2> QED
    BY <2>2, <2>3 DEF StartInv
<1> QED
  BY <1>1, <1>2, <1>3 DEF IInv

-----------------------------------------------------------------------------
(* Every step preserves IInv.                                              *)

(* Nothing that StartInv(q) reads has changed.                             *)
SameStart(q) == /\ stage'[q] = stage[q] /\ next'[q] = next[q]
                /\ created'[q] = created[q] /\ locks'[q] = locks[q]
                /\ failure'[q] = failure[q]
                /\ schema' = schema
                /\ (advisory' = q) <=> (advisory = q)

LEMMA SameStartInv ==
    ASSUME NEW q \in Starts, StartInv(q), SameStart(q)
    PROVE  StartInv(q)'
<1>1. Done(q)' = Done(q)
  BY DEF SameStart, Done
<1>2. HolderOnly(q)' /\ StillMissing(q)' /\ Migrated(q)' /\ failure'[q] # "duplicate"
  BY DEF SameStart, StartInv, HolderOnly, StillMissing, Migrated
<1>3. InScript(q)'
  BY <1>1 DEF SameStart, StartInv, InScript
<1> QED
  BY <1>2, <1>3 DEF StartInv

(* A session gives up, for any reason but a name that is taken.            *)
LEMMA BreakInv ==
    ASSUME IInv, NEW s \in Sessions, NEW why \in {"deadlock", "other"}, Break(s, why)
    PROVE  IInv'
<1> USE SessionsAssumption, NoneAssumption DEF Break, Goto, Failures
<1>1. TypeOK'
  BY DEF IInv, TypeOK, Stages
<1>2. SchemaIsWhole'
  BY DEF IInv, SchemaIsWhole
<1>3. ASSUME NEW q \in Starts PROVE StartInv(q)'
  <2>1. StartInv(q) /\ q \in Sessions
    BY DEF IInv, Sessions
  <2>2. CASE q # s
    BY <2>1, <2>2, SameStartInv DEF SameStart, IInv, TypeOK
  <2>3. CASE q = s
    <3>1. stage'[q] = "abort" /\ failure'[q] = why
      BY <2>1, <2>3 DEF IInv, TypeOK
    <3> QED
      BY <2>1, <3>1 DEF StartInv, HolderOnly, InScript, StillMissing, Migrated, Scripting
  <2> QED
    BY <2>2, <2>3
<1> QED
  BY <1>1, <1>2, <1>3 DEF IInv

(* A writer leaves all that StartInv reads alone.                          *)
LEMMA WriterInv ==
    ASSUME IInv, NEW w \in Writers, Request(w) \/ WriterStep(w)
    PROVE  IInv'
<1> USE SessionsAssumption, NoneAssumption DEF Goto, Take, Release
<1>1. TypeOK'
  <2> USE DEF IInv, TypeOK, Sessions, Stages, Open, Scripting, Tables
  <2>1. CASE Request(w)
    BY <2>1 DEF Request
  <2>2. CASE Upsert(w)
    BY <2>2 DEF Upsert
  <2>3. CASE Insert(w)
    BY <2>3 DEF Insert
  <2>4. CASE Mark(w)
    BY <2>4 DEF Mark
  <2>5. CASE Close(w)
    BY <2>5 DEF Close
  <2> QED
    BY <2>1, <2>2, <2>3, <2>4, <2>5 DEF WriterStep
<1>2. schema' = schema /\ next' = next /\ failure' = failure
  BY DEF Request, WriterStep, Upsert, Insert, Mark, Close
<1>3. SchemaIsWhole'
  BY <1>2 DEF IInv, SchemaIsWhole
<1>4. ASSUME NEW q \in Starts PROVE StartInv(q)'
  <2>1. q # w /\ advisory # w
    BY DEF IInv, TypeOK, Sessions
  <2>2. SameStart(q)
    BY <1>2, <2>1 DEF SameStart, IInv, TypeOK, Sessions,
                      Request, WriterStep, Upsert, Insert, Mark, Close
  <2> QED
    BY <2>2, SameStartInv DEF IInv
<1> QED
  BY <1>1, <1>3, <1>4 DEF IInv

(* The transaction of a session is rolled back.                            *)
LEMMA AbortInv ==
    ASSUME IInv, NEW s \in Sessions, Abort(s)
    PROVE  IInv'
<1> USE SessionsAssumption, NoneAssumption DEF Abort, Goto, Release
<1>1. TypeOK'
  BY DEF IInv, TypeOK, Stages
<1>2. SchemaIsWhole'
  BY DEF IInv, SchemaIsWhole
<1>3. ASSUME NEW q \in Starts PROVE StartInv(q)'
  <2>1. StartInv(q) /\ q \in Sessions /\ advisory \in Starts \cup {None}
    BY DEF IInv, Sessions, TypeOK
  <2>2. CASE q # s
    <3>1. (advisory' = q) <=> (advisory = q)
      BY <2>1, <2>2
    <3> QED
      BY <2>1, <2>2, <3>1, SameStartInv DEF SameStart, IInv, TypeOK
  <2>3. CASE q = s
    <3>1. stage'[q] = "gone" /\ created'[q] = {} /\ locks'[q] = {} /\ failure' = failure
      BY <2>1, <2>3 DEF IInv, TypeOK
    <3> QED
      BY <2>1, <3>1 DEF StartInv, HolderOnly, InScript, StillMissing, Migrated, Scripting
  <2> QED
    BY <2>2, <2>3
<1> QED
  BY <1>1, <1>2, <1>3 DEF IInv

(* Stages that no transaction of the migrations is in.                     *)
LEMMA OutsideInv ==
    ASSUME IInv, NEW p \in Starts, Begin(p) \/ Serve(p) \/ Exit(p)
    PROVE  IInv'
<1> USE SessionsAssumption, NoneAssumption DEF Begin, Serve, Exit, Goto
<1>1. TypeOK'
  BY DEF IInv, TypeOK, Stages, Open, Sessions
<1>2. SchemaIsWhole'
  BY DEF IInv, SchemaIsWhole
<1>3. ASSUME NEW q \in Starts PROVE StartInv(q)'
  <2>1. StartInv(q) /\ q \in Sessions
    BY DEF IInv, Sessions
  <2>2. CASE q # p
    BY <2>1, <2>2, SameStartInv DEF SameStart, IInv, TypeOK
  <2>3. CASE q = p
    BY <2>1, <2>3 DEF IInv, TypeOK, StartInv, HolderOnly, InScript, StillMissing, Migrated,
                      Scripting
  <2> QED
    BY <2>2, <2>3
<1> QED
  BY <1>1, <1>2, <1>3 DEF IInv

(* A start that has the advisory lock is the only one whose part of the    *)
(* state is not empty.                                                     *)
LEMMA OnlyHolder ==
    ASSUME IInv, NEW p \in Starts, NEW q \in Starts, advisory = p, q # p
    PROVE  created[q] = {} /\ locks[q] = {} /\ stage[q] \notin Scripting
BY DEF IInv, StartInv, HolderOnly

LEMMA LockInv ==
    ASSUME IInv, NEW p \in Starts, Lock(p)
    PROVE  IInv'
<1> USE SessionsAssumption, NoneAssumption DEF Lock, Goto, AdvisoryFree
<1>1. TypeOK'
  BY DEF IInv, TypeOK, Stages, Open, Scripting, Sessions
<1>2. SchemaIsWhole'
  BY DEF IInv, SchemaIsWhole
<1>3. ASSUME NEW q \in Starts PROVE StartInv(q)'
  <2>1. StartInv(q) /\ q \in Sessions /\ None \notin Starts
    BY DEF IInv, Sessions
  <2>2. CASE q # p
    BY <2>1, <2>2, SameStartInv DEF SameStart, IInv, TypeOK
  <2>3. CASE q = p
    <3>1. stage'[q] = "look" /\ advisory' = q /\ next'[q] = 1 /\ created' = created
          /\ failure' = failure
      BY <2>1, <2>3 DEF IInv, TypeOK, StartInv, InScript
    <3>2. Done(q)' = {}
      BY <3>1 DEF Done
    <3> QED
      BY <2>1, <3>1, <3>2, ScriptFacts
      DEF StartInv, HolderOnly, InScript, StillMissing, Migrated, Scripting
  <2> QED
    BY <2>2, <2>3
<1> QED
  BY <1>1, <1>2, <1>3 DEF IInv

(* What is done after a statement.                                         *)
LEMMA DoneAfter ==
    ASSUME NEW n \in 1..Len(Script)
    PROVE  {Script[i].object : i \in 1..((n + 1) - 1)}
             = {Script[i].object : i \in 1..(n - 1)} \cup {Script[n].object}
<1>1. 1..((n + 1) - 1) = (1..(n - 1)) \cup {n}
  BY ScriptFacts
<1> QED
  BY <1>1

(* The statement of start p is over, with its object there.                *)
LEMMA AdvanceInv ==
    ASSUME IInv, TypeOK', NEW p \in Starts, stage[p] \in {"look", "create"}, Advance(p),
           schema' = schema, advisory' = advisory, failure' = failure,
           created[p] \subseteq created'[p],
           Script[next[p]].object \in schema \cup created'[p]
    PROVE  StartInv(p)'
<1> USE ScriptFacts DEF Advance, Goto
<1>1. p \in Sessions /\ StartInv(p)
  BY DEF IInv, Sessions
<1>2. advisory = p /\ next[p] \in 1..Len(Script) /\ Done(p) \subseteq schema \cup created[p]
  BY <1>1 DEF StartInv, HolderOnly, InScript, Scripting
<1>3. next'[p] = next[p] + 1 /\ stage'[p] = IF next[p] = Len(Script) THEN "commit" ELSE "look"
  BY <1>1 DEF IInv, TypeOK
<1>4. Done(p)' = Done(p) \cup {Script[next[p]].object}
  BY <1>2, <1>3, DoneAfter DEF Done
<1>5. Done(p)' \subseteq schema' \cup created'[p]
  BY <1>2, <1>4
<1>6. InScript(p)'
  BY <1>2, <1>3, <1>5 DEF InScript
<1>7. HolderOnly(p)' /\ StillMissing(p)' /\ Migrated(p)' /\ failure'[p] # "duplicate"
  BY <1>1, <1>2, <1>3 DEF HolderOnly, StillMissing, Migrated, StartInv, Scripting
<1> QED
  BY <1>6, <1>7 DEF StartInv

LEMMA LookInv ==
    ASSUME IInv, NEW p \in Starts, Look(p)
    PROVE  IInv'
<1> DEFINE statement == Script[next[p]]
<1> USE SessionsAssumption, NoneAssumption DEF Goto, Take
<1>1. p \in Sessions /\ StartInv(p) /\ stage[p] = "look" /\ next[p] \in 1..Len(Script)
      /\ advisory = p
  BY DEF IInv, Sessions, Look, StartInv, InScript, HolderOnly, Scripting
<1>2. locks' \in [Sessions -> SUBSET Tables] /\ \A s \in Sessions \ {p} : locks'[s] = locks[s]
  BY <1>1, ScriptFacts DEF IInv, TypeOK, Look
<1>3. stage' \in [Sessions -> Stages] /\ \A s \in Sessions \ {p} : stage'[s] = stage[s]
  BY <1>1 DEF IInv, TypeOK, Look, Advance, Stages, Open, Scripting
<1>4. next' \in [Starts -> 1..(Len(Script) + 1)]
      /\ \A s \in Starts \ {p} : next'[s] = next[s]
  BY <1>1, ScriptFacts DEF IInv, TypeOK, Look, Advance
<1>5. schema' = schema /\ advisory' = advisory /\ created' = created /\ failure' = failure
  BY DEF Look
<1>6. TypeOK'
  BY <1>2, <1>3, <1>4, <1>5 DEF IInv, TypeOK
<1>7. SchemaIsWhole'
  BY <1>5 DEF IInv, SchemaIsWhole
<1>8. ASSUME NEW q \in Starts PROVE StartInv(q)'
  <2>1. CASE q # p
    <3>1. SameStart(q)
      BY <1>2, <1>3, <1>4, <1>5, <2>1 DEF SameStart, Sessions
    <3> QED
      BY <3>1, SameStartInv DEF IInv
  <2>2. CASE q = p /\ statement.object \in schema \cup created[p]
    <3>1. Advance(p)
      BY <2>2 DEF Look
    <3> QED
      BY <1>1, <1>5, <1>6, <2>2, <3>1, AdvanceInv
  <2>3. CASE q = p /\ statement.object \notin schema \cup created[p]
    <3>1. stage'[p] = "create" /\ next' = next
      BY <1>1, <2>3 DEF Look, IInv, TypeOK
    <3>2. Done(p)' = Done(p)
      BY <3>1 DEF Done
    <3> QED
      BY <1>1, <1>5, <2>3, <3>1, <3>2
      DEF StartInv, HolderOnly, InScript, StillMissing, Migrated, Scripting
  <2> QED
    BY <2>1, <2>2, <2>3
<1> QED
  BY <1>6, <1>7, <1>8 DEF IInv

LEMMA CreateInv ==
    ASSUME IInv, NEW p \in Starts, Create(p)
    PROVE  IInv'
<1> DEFINE object == Script[next[p]].object
<1> USE SessionsAssumption, NoneAssumption
<1>1. p \in Sessions /\ StartInv(p) /\ stage[p] = "create" /\ next[p] \in 1..Len(Script)
      /\ advisory = p /\ object \notin schema
  BY DEF IInv, Sessions, Create, StartInv, InScript, HolderOnly, StillMissing, Scripting
<1>2. /\ created' = [created EXCEPT ![p] = @ \cup {object}]
      /\ Advance(p)
      /\ UNCHANGED <<schema, advisory, locks, failure>>
  BY <1>1 DEF Create
<1>3. TypeOK'
  <2>1. object \in Objects
    BY <1>1, ScriptFacts
  <2>2. next' \in [Starts -> 1..(Len(Script) + 1)]
    BY <1>1, <1>2, ScriptFacts DEF IInv, TypeOK, Advance
  <2>3. stage' \in [Sessions -> Stages]
    BY <1>2 DEF IInv, TypeOK, Advance, Goto, Stages, Open, Scripting
  <2> QED
    BY <1>2, <2>1, <2>2, <2>3 DEF IInv, TypeOK
<1>4. SchemaIsWhole'
  BY <1>2 DEF IInv, SchemaIsWhole
<1>5. ASSUME NEW q \in Starts PROVE StartInv(q)'
  <2>1. CASE q # p
    <3>1. SameStart(q)
      BY <1>2, <2>1 DEF SameStart, Sessions, IInv, TypeOK, Advance, Goto
    <3> QED
      BY <3>1, SameStartInv DEF IInv
  <2>2. CASE q = p
    <3>1. created[p] \subseteq created'[p] /\ object \in created'[p]
      BY <1>2 DEF IInv, TypeOK
    <3> QED
      BY <1>1, <1>2, <1>3, <2>2, <3>1, AdvanceInv
  <2> QED
    BY <2>1, <2>2
<1> QED
  BY <1>3, <1>4, <1>5 DEF IInv

(* The commit installs the whole script, whether or not its                *)
(* acknowledgement arrives.                                                *)
LEMMA CommitInv ==
    ASSUME IInv, NEW p \in Starts, Commit(p) \/ CommitUnacknowledged(p)
    PROVE  IInv'
<1> USE SessionsAssumption, NoneAssumption
<1>1. p \in Sessions /\ StartInv(p) /\ stage[p] = "commit" /\ next[p] = Len(Script) + 1
      /\ advisory = p /\ Done(p) \subseteq schema \cup created[p]
  BY DEF IInv, Sessions, Commit, CommitUnacknowledged, StartInv, InScript, HolderOnly, Scripting
<1>2. Done(p) = Objects
  <2>1. 1..(next[p] - 1) = 1..Len(Script)
    BY <1>1, ScriptFacts
  <2> QED
    BY <2>1 DEF Done, Objects
<1>3. /\ schema' = Objects
      /\ advisory' = None
      /\ locks' = [locks EXCEPT ![p] = {}]
      /\ created' = [q \in Starts |-> IF q = p THEN {} ELSE created[q]]
      /\ next' = next
  <2>1. schema \cup created[p] = Objects
    BY <1>1, <1>2 DEF IInv, TypeOK
  <2> QED
    BY <1>1, <2>1 DEF Commit, CommitUnacknowledged, Install, Release
<1>4. /\ stage' \in [Sessions -> Stages]
      /\ stage'[p] \in {"configure", "gone"}
      /\ \A q \in Sessions \ {p} : stage'[q] = stage[q]
  BY <1>1 DEF Commit, CommitUnacknowledged, Goto, IInv, TypeOK, Stages
<1>5. /\ failure' \in [Sessions -> Failures \cup {None}]
      /\ \A q \in Sessions : failure[q] # "duplicate" => failure'[q] # "duplicate"
  BY <1>1 DEF Commit, CommitUnacknowledged, IInv, TypeOK, Failures
<1>6. TypeOK'
  BY <1>3, <1>4, <1>5 DEF IInv, TypeOK
<1>7. SchemaIsWhole'
  BY <1>3 DEF SchemaIsWhole
<1>8. ASSUME NEW q \in Starts PROVE StartInv(q)'
  <2>1. q \in Sessions /\ q # None /\ StartInv(q)
    BY DEF IInv, Sessions
  <2>2. created'[q] = {} /\ locks'[q] = {} /\ stage'[q] \notin Scripting
    BY <1>1, <1>3, <1>4, <2>1, OnlyHolder DEF IInv, TypeOK, Scripting
  <2>3. stage'[q] \in {"idle", "locking"} => next'[q] = 1
    BY <1>3, <1>4, <2>1 DEF StartInv, InScript
  <2> QED
    BY <1>3, <1>5, <2>1, <2>2, <2>3
    DEF StartInv, HolderOnly, InScript, StillMissing, Migrated, Scripting
<1> QED
  BY <1>6, <1>7, <1>8 DEF IInv

LEMMA NextInv == IInv /\ [Next]_vars => IInv'
<1> SUFFICES ASSUME IInv, [Next]_vars PROVE IInv'
  OBVIOUS
<1>1. CASE \E p \in Starts : Begin(p) \/ Serve(p) \/ Exit(p)
  BY <1>1, OutsideInv
<1>2. CASE \E p \in Starts : Lock(p)
  BY <1>2, LockInv
<1>3. CASE \E p \in Starts : Look(p)
  BY <1>3, LookInv
<1>4. CASE \E p \in Starts : Create(p)
  BY <1>4, CreateInv
<1>5. CASE \E p \in Starts : Commit(p) \/ CommitUnacknowledged(p)
  BY <1>5, CommitInv
<1>6. CASE \E w \in Writers : Request(w) \/ WriterStep(w)
  BY <1>6, WriterInv
<1>7. CASE \E s \in Sessions : Fail(s) \/ DeadlockVictim(s)
  BY <1>7, BreakInv DEF Fail, DeadlockVictim
<1>8. CASE \E s \in Sessions : Abort(s)
  BY <1>8, AbortInv
<1>9. CASE UNCHANGED vars
  <2>1. \A q \in Starts : SameStart(q) /\ StartInv(q)
    BY <1>9 DEF vars, SameStart, IInv
  <2>2. \A q \in Starts : StartInv(q)'
    BY <2>1, SameStartInv
  <2> QED
    BY <1>9, <2>2 DEF vars, IInv, TypeOK, SchemaIsWhole
<1> QED
  BY <1>1, <1>2, <1>3, <1>4, <1>5, <1>6, <1>7, <1>8, <1>9 DEF Next, StartStep, Finished

-----------------------------------------------------------------------------
(* The theorems                                                            *)

(* What every start and writer of the hub relies on, in every state of     *)
(* run_migrations and of the writers beside it.                            *)
THEOREM InductiveInvariant == Spec => []IInv
<1> QED
  BY InitInv, NextInv, PTL DEF Spec

(* Every reachable state is well typed.                                    *)
THEOREM TypeCorrect == Spec => []TypeOK
<1>1. IInv => TypeOK
  BY DEF IInv
<1> QED
  BY <1>1, InductiveInvariant, PTL

(* However many processes start, and whichever of them fail, the database  *)
(* has all of the schema or nothing of it.                                 *)
THEOREM SchemaStaysWhole == Spec => []SchemaIsWhole
<1>1. IInv => SchemaIsWhole
  BY DEF IInv
<1> QED
  BY <1>1, InductiveInvariant, PTL

(* A process that answers requests has the schema to answer them from.     *)
THEOREM ServingOnSchema == Spec => []ServingHasSchema
<1>1. IInv => ServingHasSchema
  BY DEF IInv, StartInv, Migrated, ServingHasSchema
<1> QED
  BY <1>1, InductiveInvariant, PTL

(* No start fails for an object that another start has created.            *)
THEOREM NoCollision == Spec => []StartsDoNotCollide
<1>1. IInv => StartsDoNotCollide
  BY DEF IInv, StartInv, StartsDoNotCollide
<1> QED
  BY <1>1, InductiveInvariant, PTL

(* The advisory lock makes the migrations of all starts take turns.        *)
THEOREM MigrationsTakeTurns == Spec => []OneMigration
<1>1. IInv => OneMigration
  BY DEF IInv, StartInv, HolderOnly, OneMigration
<1> QED
  BY <1>1, InductiveInvariant, PTL

-----------------------------------------------------------------------------
(* Who waits for whom.                                                     *)

(* What Postgres keeps a session waiting for: a table lock, the advisory   *)
(* lock, a creator of the same object that has not committed.              *)
KeptBy(s, u) ==
    \/ Waits(s, u)
    \/ s \in Starts /\ stage[s] = "locking" /\ advisory = u
    \/ s \in Starts /\ stage[s] = "create" /\ u \in Starts /\ Script[next[s]].object \in created[u]

(* Sessions that wait for each other and will not be released from outside.*)
Knot(W) == W # {} /\ \A s \in W : \E u \in W : KeptBy(s, u)

KnotsArePairs == \A W \in SUBSET Sessions : Knot(W) => \E s \in W \cap Starts : Deadlocked(s)

(* A start keeps others waiting only as the holder of the advisory lock.   *)
LEMMA StartsKeepAsHolder ==
    ASSUME IInv, NEW s \in Sessions, NEW p \in Starts, KeptBy(s, p)
    PROVE  advisory = p
<1>1. StartInv(p) /\ p \notin Writers
  BY SessionsAssumption DEF IInv
<1>2. locks[p] # {} \/ created[p] # {} \/ advisory = p
  BY DEF KeptBy, Waits
<1> QED
  BY <1>1, <1>2 DEF StartInv, HolderOnly

(* That holder waits for nothing but table locks of writers.               *)
LEMMA HolderWaitsForWriters ==
    ASSUME IInv, NEW p \in Starts, advisory = p, NEW u \in Sessions, KeptBy(p, u)
    PROVE  Waits(p, u) /\ u \in Writers
<1>1. stage[p] # "locking"
  BY DEF IInv, StartInv, HolderOnly, Scripting
<1>2. ASSUME stage[p] = "create", u \in Starts, Script[next[p]].object \in created[u] PROVE FALSE
  <2>1. u = p
    BY <1>2 DEF IInv, StartInv, HolderOnly
  <2> QED
    BY <1>2, <2>1 DEF IInv, StartInv, StillMissing
<1> QED
  BY <1>1, <1>2 DEF KeptBy, Waits, Others

(* Whatever starts and writers wait for each other, one of the starts and  *)
(* one of the writers do so directly: the advisory lock and the unique     *)
(* system catalogs add no longer cycle, so looking for pairs finds every   *)
(* deadlock between run_migrations and the repository.                     *)
THEOREM DeadlocksAreFound == Spec => []KnotsArePairs
<1>1. IInv => KnotsArePairs
  <2> SUFFICES ASSUME IInv, NEW W \in SUBSET Sessions, Knot(W)
               PROVE  \E s \in W \cap Starts : Deadlocked(s)
    BY DEF KnotsArePairs
  <2>1. \A s \in W : s \in Sessions /\ \E u \in W : KeptBy(s, u)
    BY DEF Knot
  <2>2. ASSUME NEW w \in W \cap Writers
        PROVE  \E p \in W \cap Starts : Waits(w, p) /\ advisory = p
    <3>1. PICK u \in W : KeptBy(w, u)
      BY <2>1
    <3>2. Waits(w, u) /\ u \in Starts
      BY <3>1, SessionsAssumption DEF KeptBy, Waits, Others
    <3> QED
      BY <2>1, <3>1, <3>2, StartsKeepAsHolder
  <2>3. \E p \in W \cap Starts : advisory = p
    <3>1. PICK s \in W : TRUE
      BY DEF Knot
    <3>2. PICK u \in W : KeptBy(s, u)
      BY <2>1, <3>1
    <3>3. CASE u \in Starts
      BY <2>1, <3>2, <3>3, StartsKeepAsHolder
    <3>4. CASE u \in Writers
      BY <2>2, <3>4
    <3> QED
      BY <2>1, <3>3, <3>4 DEF Sessions
  <2>4. PICK p \in W \cap Starts : advisory = p
    BY <2>3
  <2>5. PICK u \in W : KeptBy(p, u)
    BY <2>1, <2>4
  <2>6. Waits(p, u) /\ u \in Writers
    BY <2>1, <2>4, <2>5, HolderWaitsForWriters
  <2>7. Waits(u, p)
    BY <2>2, <2>4, <2>6
  <2> QED
    BY <2>1, <2>4, <2>6, <2>7 DEF Deadlocked
<1> QED
  BY <1>1, InductiveInvariant, PTL
===============================================================================
