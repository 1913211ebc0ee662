----------------------------- MODULE PgRepository -----------------------------
(***************************************************************************)
(* PgHubRepository (crates/hub-index/src/postgres.rs): insert_version as   *)
(* the transaction it is, statement by statement, and the two single       *)
(* UPDATE statements yank_version and unyank_version, over a connection    *)
(* pool and READ COMMITTED tables.                                         *)
(*                                                                         *)
(* A task is one call of the repository.  Its uncommitted writes are in    *)
(* tx[t]; Commit installs them.  The upsert of the skill row takes that    *)
(* row's lock (or waits on the unique index entry of an uncommitted row)   *)
(* until the transaction ends.  An error return or a dropped future only   *)
(* QUEUES the ROLLBACK: the answer is out while the lock and the pooled    *)
(* connection are still held.  And a statement that was sent is not called *)
(* back when its caller leaves, its connection breaks or its process dies: *)
(* Postgres still runs it, a COMMIT or UPDATE with effect, or never does.  *)
(***************************************************************************)
EXTENDS Naturals, FiniteSets

CONSTANTS
    Tasks,           \* the calls made on the repository, one each
    Skills, Versions, Digests, Payloads, Subjects, Visibilities, Reasons,
    Calls,           \* the arguments callers may pass
    MaxConnections,  \* size of the PgPool
    None             \* SQL NULL, the absence of a row, a lock without holder

VARIABLES
    skills,    \* committed rows of table skills
    versions,  \* committed rows of table skill_versions
    lock,      \* the task whose transaction has the skill row locked
    stage,     \* the statement a task has sent, or is about to send
    pool,      \* the tasks that hold a connection of the pool
    call,      \* its arguments
    tx,        \* its uncommitted writes and the record it will return
    result     \* what its caller was told

vars == <<skills, versions, lock, stage, pool, call, tx, result>>

Keys == Skills \X Versions

SkillRow == [visibility : Visibilities, latest : Versions]

(* A version row's id is a uuid drawn by the call that inserts the row, so *)
(* the call stands for it.  yank is (yanked_at, yank_reason).              *)
VersionRow == [id : Tasks, digest : Digests, payload : Payloads,
               publisher : Subjects, yank : Reasons \cup {None}]

InsertCall == [op : {"insert"}, skill : Skills, version : Versions,
               visibility : Visibilities, publisher : Subjects,
               digest : Digests, payload : Payloads]
MarkCall == [op : {"mark"}, skill : Skills, version : Versions,
             mark : Reasons \cup {None}]

Transaction == [skill   : SkillRow \cup {None},
                version : VersionRow \cup {None},
                record  : VersionRow \cup {None}]
NoTx == [skill |-> None, version |-> None, record |-> None]

InTransaction == {"select", "insert", "latest", "commit", "rollback"}
Stages == {"idle", "acquire", "upsert", "execute", "done"} \cup InTransaction
Failures == {"database", "abandoned"}
Statuses == {"pending", "ok", "conflict", "notfound"} \cup Failures

ASSUME CallsAssumption == Calls \subseteq InsertCall \cup MarkCall
ASSUME NoneAssumption ==
    None \notin Tasks \cup Calls \cup SkillRow \cup VersionRow \cup Reasons
ASSUME PoolAssumption == MaxConnections \in Nat \ {0}

Key(t) == <<call[t].skill, call[t].version>>

(* Somebody waits for the answer of t.                                     *)
Awaited(t) == stage[t] # "idle" /\ result[t].status = "pending"

(* The statements that wait for locks or change tables in Postgres, with   *)
(* or without a caller.  What others do is undone by the ROLLBACK.         *)
Sendable == {"upsert", "execute", "commit"}

-----------------------------------------------------------------------------
(* Steps of one task                                                       *)

Goto(t, s) == stage' = [stage EXCEPT ![t] = s]

Answer(t, status, record) ==
    result' = [result EXCEPT ![t] = [status |-> status, record |-> record]]

(* What a statement returns is the answer, if somebody still waits for it. *)
Return(t, status, record) == IF Awaited(t) THEN Answer(t, status, record)
                                           ELSE UNCHANGED result

(* Mutant of NewSkill: latest_version not bound in the upsert.             *)
NewSkillNoLatest(c) == [visibility |-> c.visibility, latest |-> None]

NewSkill(c) == [visibility |-> c.visibility, latest |-> c.version]

NewVersion(t) == [id |-> t, digest |-> call[t].digest, payload |-> call[t].payload,
                  publisher |-> call[t].publisher, yank |-> None]

Init == /\ skills = [k \in Skills |-> None]
        /\ versions = [key \in Keys |-> None]
        /\ lock = [k \in Skills |-> None]
        /\ stage = [t \in Tasks |-> "idle"]
        /\ pool = {}
        /\ call = [t \in Tasks |-> None]
        /\ tx = [t \in Tasks |-> NoTx]
        /\ result = [t \in Tasks |-> [status |-> "pending", record |-> None]]

Call(t, c) == /\ stage[t] = "idle"
              /\ call' = [call EXCEPT ![t] = c]
              /\ Goto(t, "acquire")
              /\ UNCHANGED <<skills, versions, lock, pool, tx, result>>

Acquire(t) == /\ stage[t] = "acquire"
              /\ Cardinality(pool) < MaxConnections
              /\ pool' = pool \cup {t}
              /\ Goto(t, IF call[t].op = "insert" THEN "upsert" ELSE "execute")
              /\ UNCHANGED <<skills, versions, lock, call, tx, result>>

(* Mutant of LockFree: ON CONFLICT DO NOTHING, which locks nothing.        *)
LockFreeAlways(k) == TRUE

LockFree(k) == lock[k] = None

(* INSERT INTO skills .. ON CONFLICT DO UPDATE SET updated_at = updated_at *)
(* A session whose caller has left gets the lock too before its ROLLBACK.  *)
UpsertSkill(t) ==
    LET k == call[t].skill IN
    /\ stage[t] = "upsert"
    /\ LockFree(k)
    /\ lock' = [lock EXCEPT ![k] = t]
    /\ tx' = [tx EXCEPT ![t].skill = IF skills[k] = None THEN NewSkill(call[t])
                                                         ELSE skills[k]]
    /\ Goto(t, IF Awaited(t) THEN "select" ELSE "rollback")
    /\ UNCHANGED <<skills, versions, pool, call, result>>

(* Mutants of Settle: any digest is taken for the same, every existing row *)
(* is a conflict, and the row is overwritten (ON CONFLICT DO UPDATE).      *)
SettleAnyDigest(t, row) ==
    /\ Goto(t, "commit")
    /\ tx' = [tx EXCEPT ![t].record = row]
    /\ UNCHANGED result
SettleRefusing(t, row) ==
    /\ Goto(t, "rollback")
    /\ Answer(t, "conflict", None)
    /\ UNCHANGED tx
SettleOverwriting(t, row) ==
    /\ Goto(t, "commit")
    /\ tx' = [tx EXCEPT ![t].version = [row EXCEPT !.digest = call[t].digest],
                        ![t].record = [row EXCEPT !.digest = call[t].digest]]
    /\ UNCHANGED result

(* A row is already there: another digest is refused and the transaction   *)
(* dropped, the same digest returns the stored row.                        *)
Settle(t, row) ==
    \/ /\ row.digest # call[t].digest
       /\ Goto(t, "rollback")
       /\ Answer(t, "conflict", None)
       /\ UNCHANGED tx
    \/ /\ row.digest = call[t].digest
       /\ Goto(t, "commit")
       /\ tx' = [tx EXCEPT ![t].record = row]
       /\ UNCHANGED result

SelectVersion(t) ==
    /\ stage[t] = "select"
    /\ IF versions[Key(t)] # None
       THEN Settle(t, versions[Key(t)])
       ELSE Goto(t, "insert") /\ UNCHANGED <<tx, result>>
    /\ UNCHANGED <<skills, versions, lock, pool, call>>

(* The unique index on (skill_id, version) makes an INSERT wait for the    *)
(* transaction that has an uncommitted row under the same key.             *)
IndexEntryFree(t) ==
    \A u \in Tasks \ {t} : tx[u].version # None => Key(u) # Key(t)

(* INSERT .. ON CONFLICT DO NOTHING; no row inserted: read it again.       *)
InsertVersion(t) ==
    /\ stage[t] = "insert"
    /\ IndexEntryFree(t)
    /\ IF versions[Key(t)] # None
       THEN Settle(t, versions[Key(t)])
       ELSE /\ tx' = [tx EXCEPT ![t].version = NewVersion(t),
                                ![t].record = NewVersion(t)]
            /\ Goto(t, "latest")
            /\ UNCHANGED result
    /\ UNCHANGED <<skills, versions, lock, pool, call>>

UpdateLatest(t) ==
    /\ stage[t] = "latest"
    /\ tx' = [tx EXCEPT ![t].skill.latest = call[t].version]
    /\ Goto(t, "commit")
    /\ UNCHANGED <<skills, versions, lock, pool, call, result>>

(* Mutant of Release: the lock outlives the transaction.                   *)
ReleaseLeaking(t) == /\ UNCHANGED lock
                     /\ tx' = [tx EXCEPT ![t] = NoTx]
                     /\ pool' = pool \ {t}
                     /\ Goto(t, "done")

(* The end of a transaction on the server: its locks go with it, and its   *)
(* connection is free again.                                               *)
Release(t) == /\ lock' = [k \in Skills |-> IF lock[k] = t THEN None ELSE lock[k]]
              /\ tx' = [tx EXCEPT ![t] = NoTx]
              /\ pool' = pool \ {t}
              /\ Goto(t, "done")

Install(t) ==
    /\ skills' = [skills EXCEPT ![call[t].skill] = tx[t].skill]
    /\ versions' = IF tx[t].version = None THEN versions
                   ELSE [versions EXCEPT ![Key(t)] = tx[t].version]
    /\ Release(t)

Commit(t) == /\ stage[t] = "commit"
             /\ Install(t)
             /\ Return(t, "ok", tx[t].record)
             /\ UNCHANGED call

(* COMMIT has taken effect, but its acknowledgement is lost.               *)
CommitUnacknowledged(t, failure) ==
    /\ stage[t] = "commit" /\ Awaited(t)
    /\ Install(t)
    /\ Answer(t, failure, None)
    /\ UNCHANGED call

(* Mutant of Rollback: the upsert ran on the pool, outside the transaction *)
(* (&self.pool for &mut *tx), and is not undone.                           *)
RollbackKeepingSkill(t) ==
    /\ stage[t] = "rollback"
    /\ skills' = IF tx[t].skill = None THEN skills
                 ELSE [skills EXCEPT ![call[t].skill] = tx[t].skill]
    /\ Release(t)
    /\ UNCHANGED <<versions, call, result>>

Rollback(t) == /\ stage[t] = "rollback"
               /\ Release(t)
               /\ UNCHANGED <<skills, versions, call, result>>

(* Mutant of Update: the first mark is kept, COALESCE(yank_reason, ..).    *)
UpdateOnce(t) ==
    /\ versions' = [versions EXCEPT ![Key(t)].yank = IF @ = None THEN call[t].mark ELSE @]
    /\ UNCHANGED skills

(* UPDATE skill_versions .. FROM skills, with its own implicit transaction *)
Update(t) ==
    /\ versions' = [versions EXCEPT ![Key(t)].yank = call[t].mark]
    /\ UNCHANGED skills

Execute(t) ==
    /\ stage[t] = "execute"
    /\ IF versions[Key(t)] = None
       THEN Return(t, "notfound", None) /\ UNCHANGED <<skills, versions>>
       ELSE Return(t, "ok", None) /\ Update(t)
    /\ pool' = pool \ {t}
    /\ Goto(t, "done")
    /\ UNCHANGED <<lock, call, tx>>

ExecuteUnacknowledged(t, failure) ==
    /\ stage[t] = "execute" /\ Awaited(t)
    /\ versions[Key(t)] # None
    /\ Update(t)
    /\ Answer(t, failure, None)
    /\ pool' = pool \ {t}
    /\ Goto(t, "done")
    /\ UNCHANGED <<lock, call, tx>>

(* The statement at hand comes to nothing, and so does its transaction.    *)
Close(t) == Goto(t, IF stage[t] \in {"acquire", "execute"} THEN "done" ELSE "rollback")

(* Whoever is done, or has lost its connection, is not in the pool.        *)
Leave(t, lost) == pool' = IF lost \/ stage'[t] = "done" THEN pool \ {t} ELSE pool

(* A statement or the acquisition of a connection fails, the connection    *)
(* breaks ("database"), or the caller drops the future ("abandoned").  The *)
(* transaction is dropped, which queues its ROLLBACK; but a statement that *)
(* is on its way stays so.                                                 *)
Fail(t, failure) ==
    /\ Awaited(t)
    /\ Answer(t, failure, None)
    /\ \/ Close(t)
       \/ stage[t] \in Sendable /\ UNCHANGED stage
    /\ \E lost \in {FALSE, failure = "database"} : Leave(t, lost)
    /\ UNCHANGED <<skills, versions, lock, call, tx>>

(* A statement nobody waits for has not reached Postgres, or fails there.  *)
Vanish(t) == /\ stage[t] \in Sendable /\ ~Awaited(t)
             /\ Close(t)
             /\ Leave(t, FALSE)
             /\ UNCHANGED <<skills, versions, lock, call, tx, result>>

Busy == pool # {} \/ \E t \in Tasks : Awaited(t)

(* The hub process dies: every unanswered call is gone.  The server aborts *)
(* the sessions it still has when it notices, after what they were sent.   *)
Crash ==
    /\ Busy
    /\ stage' = [t \in Tasks |->
                   CASE stage[t] = "acquire" -> "done"
                     [] stage[t] \in {"select", "insert", "latest"} -> "rollback"
                     [] OTHER -> stage[t]]
    /\ result' = [t \in Tasks |->
                    IF Awaited(t) THEN [status |-> "abandoned", record |-> None]
                                  ELSE result[t]]
    /\ pool' = {}
    /\ UNCHANGED <<skills, versions, lock, call, tx>>

Finished == /\ \A t \in Tasks : stage[t] = "done"
            /\ UNCHANGED vars

-----------------------------------------------------------------------------

Progress(t) == \/ Acquire(t)
               \/ UpsertSkill(t)
               \/ SelectVersion(t)
               \/ InsertVersion(t)
               \/ UpdateLatest(t)
               \/ Commit(t)
               \/ Rollback(t)
               \/ Execute(t)

Trouble(t, failure) == \/ CommitUnacknowledged(t, failure)
                       \/ ExecuteUnacknowledged(t, failure)
                       \/ Fail(t, failure)

Step(t) == \/ Progress(t)
           \/ Vanish(t)
           \/ \E failure \in Failures : Trouble(t, failure)

Next == \/ \E t \in Tasks : Step(t) \/ \E c \in Calls : Call(t, c)
        \/ Crash
        \/ Finished

Spec == Init /\ [][Next]_vars

(* The async runtime polls every ready future, and Postgres runs what it   *)
(* was sent and ends the sessions of those who are gone; nothing is        *)
(* promised about failures.                                                *)
FairSpec == Spec /\ \A t \in Tasks : WF_vars(Progress(t))

-----------------------------------------------------------------------------
(* Properties                                                              *)

TypeOK ==
    /\ skills \in [Skills -> SkillRow \cup {None}]
    /\ versions \in [Keys -> VersionRow \cup {None}]
    /\ lock \in [Skills -> Tasks \cup {None}]
    /\ stage \in [Tasks -> Stages]
    /\ pool \in SUBSET Tasks
    /\ call \in [Tasks -> Calls \cup {None}]
    /\ tx \in [Tasks -> Transaction]
    /\ result \in [Tasks -> [status : Statuses, record : VersionRow \cup {None}]]

(* insert_version's SELECT-then-INSERT is safe only because the upsert     *)
(* serialises the writers of a skill: between a SELECT that found nothing  *)
(* and the commit of the INSERT no row can appear under the key, so the    *)
(* rows_affected() == 0 branch is never taken.                             *)
NoRowAppears ==
    \A t \in Tasks :
      (stage[t] = "insert" \/ tx[t].version # None) => versions[Key(t)] = None

(* Of the writers of one skill, at most one has uncommitted writes, and    *)
(* whoever waits for the row waits for a transaction that can move: its    *)
(* holder runs, or is being rolled back, and waits for nobody itself.      *)
OneWriterPerSkill ==
    \A t \in Tasks :
      /\ tx[t] # NoTx => lock[call[t].skill] = t
      /\ \A k \in Skills : lock[k] = t => stage[t] \in InTransaction /\ call[t].skill = k

(* Every publisher of a version that was told ok was told the id, digest   *)
(* and payload of the one row that is stored, and published that digest,   *)
(* whichever of several concurrent publishers wrote it.                    *)
SameExceptYank(a, b) == [a EXCEPT !.yank = None] = [b EXCEPT !.yank = None]

OkMeansStored ==
    \A t \in Tasks :
      result[t].status = "ok" =>
        /\ versions[Key(t)] # None
        /\ call[t].op = "insert" =>
             /\ result[t].record.digest = call[t].digest
             /\ SameExceptYank(result[t].record, versions[Key(t)])

(* "already exists with another digest" is only said when a COMMITTED row  *)
(* has another digest, and it stays so: no conflict with a transaction     *)
(* that is later rolled back.                                              *)
ConflictIsReal ==
    \A t \in Tasks :
      result[t].status = "conflict" =>
        versions[Key(t)] # None /\ versions[Key(t)].digest # call[t].digest

(* A row comes from the call that drew its id and carries what that call   *)
(* passed; a call that was told conflict left nothing behind, and one that *)
(* is still running nothing committed.                                     *)
RowFrom(t, key) ==
    /\ Key(t) = key /\ call[t].op = "insert"
    /\ SameExceptYank(versions[key], NewVersion(t))
    /\ stage[t] = "done"
    /\ result[t].status \in {"ok"} \cup Failures

RowsHaveOneSource ==
    \A key \in Keys, t \in Tasks :
      (versions[key] # None /\ versions[key].id = t) => RowFrom(t, key)

(* The tables agree after every commit: no skill row without a version,    *)
(* and latest_version names a committed version.                           *)
Abstract == INSTANCE Registry WITH Ids <- Tasks
TablesAgree == Abstract!TablesAgree

(* The transactions implement the one-step operations of Registry.         *)
ImplementsRegistry == Abstract!Spec

(* Every call that is answered with more than a failure is answered with   *)
(* what one moment between the call and the answer found, and takes effect *)
(* at that moment.  A failure says nothing: such a call has taken effect,  *)
(* or does so at one later moment, or never; but never twice, never in     *)
(* part.  The record of a version that exists is read before COMMIT.       *)
Reading(t) == stage[t] = "commit" /\ tx[t].version = None

Met == [t \in Tasks |-> IF Reading(t) /\ Awaited(t)
                        THEN [status |-> "ok", record |-> tx[t].record]
                        ELSE [status |-> "pending", record |-> None]]
Due == {t \in Tasks : stage[t] \notin {"idle", "rollback", "done"} /\ ~Reading(t)}

Atomic == INSTANCE AtomicCalls WITH outcome <- Met, due <- Due
CallsAreAtomic == Atomic!Spec

(* A published version is final, under every interleaving of publishers,   *)
(* yanks, failures and crashes.                                            *)
PublicationsAreFinal == [][Abstract!Final]_vars

(* Every call ends, with its transaction closed: no lock or connection is  *)
(* kept, even when the pool is full of tasks that wait for one row, some   *)
(* of them for callers that have left.                                     *)
EveryCallEnds == \A t \in Tasks : stage[t] # "idle" ~> stage[t] = "done"
=============================================================================
