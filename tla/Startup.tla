-------------------------------- MODULE Startup --------------------------------
(***************************************************************************)
(* The start of hub processes over one Postgres database: main and         *)
(* AppState::from_env of hub-api, run_migrations of hub-index with         *)
(* 0001_init.sql, while processes that already serve publish and yank.     *)
(*                                                                         *)
(* A member of Starts is one start of a process, so a restart is another   *)
(* start.  A member of Writers is one publish, yank or unyank of some      *)
(* serving process, as far as its table locks go; PgRepository has the     *)
(* rest.                                                                   *)
(***************************************************************************)
EXTENDS Naturals, Sequences

CONSTANTS Starts, Writers, None

Sessions == Starts \cup Writers
Failures == {"duplicate", "deadlock", "other"}

ASSUME SessionsAssumption == Starts \cap Writers = {}
ASSUME NoneAssumption == None \notin Sessions \cup Failures

(* CREATE .. IF NOT EXISTS object; an index locks the table it is on in    *)
(* SHARE mode before it looks for itself.                                  *)
Creates(object, table) == [object |-> object, table |-> table]

(* 0001_init.sql.  The statements left out are like those kept: tables     *)
(* and an index that no writer touches, a second index on skill_versions.  *)
Script == <<Creates("vector", None),
            Creates("skills", None),
            Creates("skill_versions", None),
            Creates("idx_skill_versions", "skill_versions"),
            Creates("idx_skills", "skills")>>

Objects == {Script[i].object : i \in 1..Len(Script)}
Tables == {"skills", "skill_versions"}

VARIABLES
    schema,     \* the objects of the database, as committed
    advisory,   \* the session with the advisory lock, or None
    stage,      \* where a session is
    next,       \* of a start: the next statement of the script
    created,    \* of a start: what it has created and not committed
    locks,      \* the tables a session has locked: a start in SHARE mode,
                \* a writer in ROW EXCLUSIVE mode
    failure     \* why a session failed

vars == <<schema, advisory, stage, next, created, locks, failure>>

Scripting == {"look", "create", "commit"}
Open == {"locking", "upsert", "insert", "mark"} \cup Scripting
Stages == {"idle", "configure", "serving", "abort", "gone"} \cup Open

Init == /\ schema = {}
        /\ advisory = None
        /\ stage = [s \in Sessions |-> "idle"]
        /\ next = [p \in Starts |-> 1]
        /\ created = [p \in Starts |-> {}]
        /\ locks = [s \in Sessions |-> {}]
        /\ failure = [s \in Sessions |-> None]

Goto(s, st) == stage' = [stage EXCEPT ![s] = st]

-----------------------------------------------------------------------------
(* The locks of Postgres                                                   *)

(* SHARE conflicts with ROW EXCLUSIVE, neither with itself.                *)
Others(s) == IF s \in Starts THEN Writers ELSE Starts

Grantable(s, table) == \A u \in Others(s) : table \notin locks[u]

Take(s, table) == locks' = [locks EXCEPT ![s] = @ \cup {table}]

(* The table whose lock a session asks for.                                *)
Wanted(s) == CASE stage[s] = "look" -> Script[next[s]].table
               [] stage[s] = "upsert" -> "skills"
               [] stage[s] \in {"insert", "mark"} -> "skill_versions"
               [] OTHER -> None

(* Starts wait for writers only for a table, and writers for starts, so    *)
(* every cycle of waiting sessions contains two that wait for each other.  *)
Waits(s, u) == u \in Others(s) /\ Wanted(s) \in locks[u]

Deadlocked(s) == \E u \in Sessions : Waits(s, u) /\ Waits(u, s)

(* Mutant of Release: the transaction is left open.                        *)
ReleaseForgotten(s) == UNCHANGED <<advisory, locks, created>>

(* A transaction that is over: nothing of it stays.                        *)
Release(s) == /\ advisory' = IF advisory = s THEN None ELSE advisory
              /\ locks' = [locks EXCEPT ![s] = {}]
              /\ created' = [p \in Starts |-> IF p = s THEN {} ELSE created[p]]

-----------------------------------------------------------------------------
(* A start                                                                 *)

(* PgPool::connect, pool.begin                                             *)
Begin(p) == /\ stage[p] = "idle"
            /\ Goto(p, "locking")
            /\ UNCHANGED <<schema, advisory, next, created, locks, failure>>

(* Mutant of AdvisoryFree: the lock is not asked for.                      *)
AdvisoryIgnored(p) == TRUE

AdvisoryFree(p) == advisory = None

(* SELECT pg_advisory_xact_lock                                            *)
Lock(p) == /\ stage[p] = "locking"
           /\ AdvisoryFree(p)
           /\ advisory' = p
           /\ Goto(p, "look")
           /\ UNCHANGED <<schema, next, created, locks, failure>>

(* Mutant of Advance: the script starts over at its end.                   *)
AdvanceAround(p) == /\ next' = [next EXCEPT ![p] = (@ + 1) % (Len(Script) + 1)]
                    /\ Goto(p, IF next[p] = Len(Script) THEN "commit" ELSE "look")

Advance(p) == /\ next' = [next EXCEPT ![p] = @ + 1]
              /\ Goto(p, IF next[p] = Len(Script) THEN "commit" ELSE "look")

(* IF NOT EXISTS: the statement ends here when the object is there.        *)
Look(p) ==
    LET statement == Script[next[p]] IN
    /\ stage[p] = "look"
    /\ \/ statement.table = None /\ UNCHANGED locks
       \/ statement.table # None /\ Grantable(p, statement.table) /\ Take(p, statement.table)
    /\ \/ statement.object \in schema \cup created[p] /\ Advance(p)
       \/ statement.object \notin schema \cup created[p] /\ Goto(p, "create") /\ UNCHANGED next
    /\ UNCHANGED <<schema, advisory, created, failure>>

(* Mutant of Create: every statement is a transaction of its own.          *)
CreateInstalled(p) ==
    /\ stage[p] = "create"
    /\ Script[next[p]].object \notin schema
    /\ schema' = schema \cup {Script[next[p]].object}
    /\ Advance(p)
    /\ UNCHANGED <<advisory, created, locks, failure>>

Break(s, why) == /\ Goto(s, "abort")
                 /\ failure' = [failure EXCEPT ![s] = why]
                 /\ UNCHANGED <<schema, advisory, next, created, locks>>

(* The entries in the system catalogs, whose unique indexes make a second  *)
(* creator wait for the first, and fail when the first commits.            *)
Create(p) ==
    LET object == Script[next[p]].object IN
    /\ stage[p] = "create"
    /\ \A q \in Starts : object \notin created[q]
    /\ IF object \in schema
       THEN Break(p, "duplicate")
       ELSE /\ created' = [created EXCEPT ![p] = @ \cup {object}]
            /\ Advance(p)
            /\ UNCHANGED <<schema, advisory, locks, failure>>

(* Mutant of Install: tx.commit() is forgotten, the drop of tx rolls back. *)
InstallForgotten(p) == Release(p) /\ UNCHANGED schema

Install(p) == /\ schema' = schema \cup created[p]
              /\ Release(p)

Commit(p) == /\ stage[p] = "commit"
             /\ Install(p)
             /\ Goto(p, "configure")
             /\ UNCHANGED <<next, failure>>

CommitUnacknowledged(p) == /\ stage[p] = "commit"
                           /\ Install(p)
                           /\ Goto(p, "gone")
                           /\ failure' = [failure EXCEPT ![p] = "other"]
                           /\ UNCHANGED next

(* RuntimeArtifactStore::from_env, TcpListener::bind, axum::serve          *)
Serve(p) == /\ stage[p] = "configure"
            /\ Goto(p, "serving")
            /\ UNCHANGED <<schema, advisory, next, created, locks, failure>>

(* The process exits with an error or is stopped, outside a transaction.   *)
Exit(p) == /\ stage[p] \in {"idle", "configure", "serving"}
           /\ Goto(p, "gone")
           /\ UNCHANGED <<schema, advisory, next, created, locks, failure>>

-----------------------------------------------------------------------------
(* A writer                                                                *)

Request(w) == /\ stage[w] = "idle"
              /\ \E p \in Starts : stage[p] = "serving"
              /\ \E st \in {"upsert", "mark"} : Goto(w, st)
              /\ UNCHANGED <<schema, advisory, next, created, locks, failure>>

(* INSERT INTO skills .. ON CONFLICT DO UPDATE; when the version exists    *)
(* the transaction is committed, or rolled back, without an INSERT.        *)
Upsert(w) == /\ stage[w] = "upsert"
             /\ Grantable(w, "skills")
             /\ Take(w, "skills")
             /\ \E st \in {"insert", "commit", "abort"} : Goto(w, st)
             /\ UNCHANGED <<schema, advisory, next, created, failure>>

(* INSERT INTO skill_versions; the UPDATE of skills has its lock already.  *)
Insert(w) == /\ stage[w] = "insert"
             /\ Grantable(w, "skill_versions")
             /\ Take(w, "skill_versions")
             /\ Goto(w, "commit")
             /\ UNCHANGED <<schema, advisory, next, created, failure>>

(* UPDATE skill_versions, a transaction of one statement                   *)
Mark(w) == /\ stage[w] = "mark"
           /\ Grantable(w, "skill_versions")
           /\ Goto(w, "gone")
           /\ UNCHANGED <<schema, advisory, next, created, locks, failure>>

Close(w) == /\ stage[w] = "commit"
            /\ Release(w)
            /\ Goto(w, "gone")
            /\ UNCHANGED <<schema, next, failure>>

-----------------------------------------------------------------------------
(* What may happen to every session                                        *)

(* A statement fails, the connection is lost or the process dies.          *)
Fail(s) == stage[s] \in Open /\ Break(s, "other")

(* After deadlock_timeout Postgres aborts one of the sessions.             *)
DeadlockVictim(s) == Deadlocked(s) /\ Break(s, "deadlock")

(* The transaction is rolled back, at once or when Postgres notices that   *)
(* its client is gone.                                                     *)
Abort(s) == /\ stage[s] = "abort"
            /\ Release(s)
            /\ Goto(s, "gone")
            /\ UNCHANGED <<schema, next, failure>>

Finished == /\ \A p \in Starts : stage[p] \in {"serving", "gone"}
            /\ \A w \in Writers : stage[w] \in {"idle", "gone"}
            /\ UNCHANGED vars

StartStep(p) == Lock(p) \/ Look(p) \/ Create(p) \/ Commit(p) \/ Serve(p)
WriterStep(w) == Upsert(w) \/ Insert(w) \/ Mark(w) \/ Close(w)

Next == \/ \E p \in Starts : \/ Begin(p)
                             \/ StartStep(p)
                             \/ CommitUnacknowledged(p)
                             \/ Exit(p)
        \/ \E w \in Writers : \/ Request(w)
                              \/ WriterStep(w)
        \/ \E s \in Sessions : Fail(s) \/ DeadlockVictim(s) \/ Abort(s)
        \/ Finished

Spec == Init /\ [][Next]_vars

(* Postgres runs every statement whose locks are granted, rolls back what  *)
(* was given up, and breaks deadlocks.                                     *)
FairSpec == /\ Spec
            /\ \A p \in Starts : WF_vars(StartStep(p))
            /\ \A w \in Writers : WF_vars(WriterStep(w))
            /\ \A s \in Sessions : WF_vars(Abort(s))
            /\ WF_vars(\E s \in Sessions : DeadlockVictim(s))

-----------------------------------------------------------------------------
(* Properties                                                              *)

TypeOK ==
    /\ schema \in SUBSET Objects
    /\ advisory \in Starts \cup {None}
    /\ stage \in [Sessions -> Stages]
    /\ next \in [Starts -> 1..(Len(Script) + 1)]
    /\ created \in [Starts -> SUBSET Objects]
    /\ locks \in [Sessions -> SUBSET Tables]
    /\ failure \in [Sessions -> Failures \cup {None}]

(* Whatever start fails at whatever statement, the database has the whole  *)
(* schema or nothing of it.                                                *)
SchemaIsWhole == schema \in {{}, Objects}

(* A process that serves finds every table and index, also if another      *)
(* start did the work, or failed doing it.                                 *)
ServingHasSchema == \A p \in Starts : stage[p] = "serving" => schema = Objects

(* However many processes start at once, none fails because another has    *)
(* created an object between its own look and its own CREATE.              *)
StartsDoNotCollide == \A p \in Starts : failure[p] # "duplicate"

(* Two starts are never in the script at once, also while the session of   *)
(* a dead one lingers: all that a start may wait for there are writers.    *)
OneMigration ==
    \A p, q \in Starts :
      (locks[p] \cup created[p] # {} /\ locks[q] \cup created[q] # {}) => p = q

(* Every start that has begun ends, whichever holder of the advisory lock  *)
(* failed or died before it and whatever writers it met.                   *)
EveryStartEnds == \A p \in Starts : stage[p] = "locking" ~> stage[p] \in {"serving", "gone"}

(* Every publish, yank and unyank ends although processes start meanwhile. *)
EveryWriteEnds == \A w \in Writers : stage[w] \in {"upsert", "mark"} ~> stage[w] = "gone"

(* What run_migrations(..).await.unwrap() expects of a database in use,    *)
(* and the tests of concurrent publishers of theirs: neither is aborted    *)
(* for the other.                                                          *)
NoDeadlock == \A s \in Sessions : failure[s] # "deadlock"
===============================================================================
