-------------------------- MODULE PgRepositoryProofs --------------------------
(***************************************************************************)
(* Theorems about PgRepository, for every number of tasks, skills,         *)
(* versions and connections: its safety invariants, and that its           *)
(* transactions implement Registry.                                        *)
(***************************************************************************)
EXTENDS PgRepository, TLAPS

(* The arguments of a task fit the stage it is in.                         *)
CallFits(t) ==
    /\ IF stage[t] = "idle" THEN call[t] = None ELSE call[t] \in Calls
    /\ stage[t] \in {"upsert"} \cup InTransaction => call[t].op = "insert"
    /\ stage[t] = "execute" => call[t].op = "mark"

Writing == {"select", "insert", "latest", "commit"}

(* Who has read or written under the lock still holds it, and nobody else. *)
LockHeld(t) ==
    /\ stage[t] \in Writing => lock[call[t].skill] = t
    /\ tx[t] # NoTx => stage[t] \in InTransaction /\ lock[call[t].skill] = t
    /\ \A k \in Skills : lock[k] = t => stage[t] \in InTransaction /\ call[t].skill = k

(* The skill row the upsert wrote or locked.                               *)
Upserted(t) == IF skills[call[t].skill] = None THEN NewSkill(call[t])
                                               ELSE skills[call[t].skill]

(* The uncommitted writes of a task, and the committed rows they rely on.  *)
TxFits(t) ==
    /\ stage[t] \in {"select", "insert"} => tx[t].version = None
    /\ stage[t] \in {"insert", "latest"} => versions[Key(t)] = None
    /\ stage[t] \in {"select", "insert", "latest"} => tx[t].skill = Upserted(t)
    /\ stage[t] = "latest" =>
         tx[t].version = NewVersion(t) /\ tx[t].record = NewVersion(t)
    /\ stage[t] = "commit" =>
         \/ /\ tx[t].version = NewVersion(t)
            /\ tx[t].record = NewVersion(t)
            /\ tx[t].skill = Abstract!SkillAfter(skills[call[t].skill],
                                                 call[t].visibility, call[t].version)
         \/ /\ tx[t].version = None
            /\ tx[t].skill = skills[call[t].skill]
            /\ versions[Key(t)] # None
            /\ tx[t].record.digest = call[t].digest
            /\ SameExceptYank(tx[t].record, versions[Key(t)])
    /\ tx[t].version # None => versions[Key(t)] = None

(* When a task has an answer: at the end, or after a failure that left a   *)
(* statement behind.                                                       *)
Answered(t) ==
    /\ stage[t] \in {"rollback", "done"} => result[t].status # "pending"
    /\ result[t].status # "pending" =>
         \/ stage[t] \in {"rollback", "done"}
         \/ stage[t] \in Sendable /\ result[t].status \in Failures
    /\ result[t].status = "ok" => stage[t] = "done"

TaskInv(t) == CallFits(t) /\ LockHeld(t) /\ TxFits(t) /\ Answered(t)

IInv == /\ TypeOK
        /\ \A t \in Tasks : TaskInv(t)
        /\ RowsHaveOneSource
        /\ TablesAgree
        /\ OkMeansStored
        /\ ConflictIsReal

-----------------------------------------------------------------------------
(* Lemmas about calls and rows                                             *)

LEMMA CallTypes ==
    ASSUME TypeOK, NEW t \in Tasks, call[t] \in Calls
    PROVE  /\ call[t].skill \in Skills
           /\ call[t].version \in Versions
           /\ Key(t) \in Keys
           /\ call[t].op = "insert" => /\ call[t] \in InsertCall
                                       /\ NewSkill(call[t]) \in SkillRow
                                       /\ NewVersion(t) \in VersionRow
           /\ call[t].op = "mark" => call[t].mark \in Reasons \cup {None}
<1>1. call[t] \in InsertCall \/ call[t] \in MarkCall
  BY CallsAssumption
<1>2. CASE call[t] \in InsertCall
  BY <1>2 DEF InsertCall, Key, Keys, NewSkill, SkillRow, NewVersion, VersionRow
<1>3. CASE call[t] \in MarkCall
  BY <1>3 DEF MarkCall, Key, Keys
<1> QED BY <1>1, <1>2, <1>3

LEMMA NoneIsNoRow == None \notin SkillRow /\ None \notin VersionRow /\ None \notin Tasks
                     /\ None \notin Calls
BY NoneAssumption

LEMMA NoTxType == NoTx \in Transaction
BY DEF NoTx, Transaction

LEMMA TxType ==
    ASSUME TypeOK, NEW t \in Tasks
    PROVE  /\ tx[t].skill \in SkillRow \cup {None}
           /\ tx[t].version \in VersionRow \cup {None}
           /\ tx[t].record \in VersionRow \cup {None}
BY DEF TypeOK, Transaction

-----------------------------------------------------------------------------
(* Frames: what a step of one task leaves alone of the others              *)

(* A task whose own state, locks and rows a step leaves alone keeps its    *)
(* invariant; a yank mark set on a committed row does not disturb it.      *)
LEMMA Undisturbed ==
    ASSUME TypeOK, NEW u \in Tasks, TaskInv(u),
           stage'[u] = stage[u], call'[u] = call[u], tx'[u] = tx[u], result'[u] = result[u],
           \A k \in Skills : lock'[k] = u <=> lock[k] = u,
           stage[u] \in Writing \/ tx[u].version # None =>
             /\ skills'[call[u].skill] = skills[call[u].skill]
             /\ versions'[Key(u)] = None <=> versions[Key(u)] = None
             /\ versions[Key(u)] # None => SameExceptYank(versions[Key(u)], versions'[Key(u)])
    PROVE  TaskInv(u)'
<1>1. CallFits(u)'
  BY DEF TaskInv, CallFits
<1>2. LockHeld(u)'
  <2>1. tx[u] # NoTx \/ stage[u] \in Writing => call[u].skill \in Skills
    BY CallTypes DEF TaskInv, CallFits, LockHeld, Writing, InTransaction
  <2> QED BY <2>1 DEF TaskInv, LockHeld
<1>3. Key(u)' = Key(u) /\ NewVersion(u)' = NewVersion(u)
  BY DEF Key, NewVersion
<1>4. TxFits(u)'
  <2>1. stage[u] \in {"select", "insert"} => tx[u].version = None
    BY DEF TaskInv, TxFits
  <2>2. stage[u] \in {"insert", "latest"} => versions'[Key(u)] = None
    BY DEF TaskInv, TxFits, Writing
  <2>3. stage[u] \in {"select", "insert", "latest"} => tx[u].skill = Upserted(u)'
    BY DEF TaskInv, TxFits, Writing, Upserted
  <2>4. stage[u] = "latest" => tx[u].version = NewVersion(u) /\ tx[u].record = NewVersion(u)
    BY DEF TaskInv, TxFits
  <2>5. tx[u].version # None => versions'[Key(u)] = None
    BY DEF TaskInv, TxFits
  <2>6. ASSUME stage[u] = "commit"
        PROVE  \/ /\ tx[u].version = NewVersion(u)
                  /\ tx[u].record = NewVersion(u)
                  /\ tx[u].skill = Abstract!SkillAfter(skills'[call[u].skill],
                                                       call[u].visibility, call[u].version)
               \/ /\ tx[u].version = None
                  /\ tx[u].skill = skills'[call[u].skill]
                  /\ versions'[Key(u)] # None
                  /\ tx[u].record.digest = call[u].digest
                  /\ SameExceptYank(tx[u].record, versions'[Key(u)])
    BY <2>6 DEF TaskInv, TxFits, Writing, SameExceptYank
  <2> QED BY <1>3, <2>1, <2>2, <2>3, <2>4, <2>5, <2>6 DEF TxFits
<1>5. Answered(u)'
  BY DEF TaskInv, Answered
<1> QED BY <1>1, <1>2, <1>4, <1>5 DEF TaskInv

(* A step of t that commits nothing: what is left to show is t's own part. *)
LEMMA QuietStep ==
    ASSUME IInv, TypeOK', NEW t \in Tasks,
           skills' = skills, versions' = versions,
           \A u \in Tasks \ {t} :
             /\ stage'[u] = stage[u] /\ call'[u] = call[u]
             /\ tx'[u] = tx[u] /\ result'[u] = result[u]
             /\ \A k \in Skills : lock'[k] = u <=> lock[k] = u,
           stage[t] # "done",
           TaskInv(t)',
           result'[t].status # "ok",
           result'[t].status = "conflict" =>
             versions[Key(t)'] # None /\ versions[Key(t)'].digest # call'[t].digest
    PROVE  IInv'
<1>1. \A u \in Tasks : TaskInv(u)'
  <2>1. ASSUME NEW u \in Tasks \ {t} PROVE TaskInv(u)'
    BY Undisturbed DEF IInv, SameExceptYank
  <2> QED BY <2>1
<1>2. \A u \in Tasks \ {t} : Key(u)' = Key(u) /\ NewVersion(u)' = NewVersion(u)
  BY DEF Key, NewVersion
<1>3. RowsHaveOneSource'
  <2> SUFFICES ASSUME NEW key \in Keys, NEW u \in Tasks,
                      versions[key] # None, versions[key].id = u
               PROVE  RowFrom(u, key)'
    BY DEF RowsHaveOneSource
  <2>1. RowFrom(u, key) /\ u # t
    BY DEF IInv, RowsHaveOneSource, RowFrom
  <2> QED BY <2>1, <1>2 DEF RowFrom
<1>4. TablesAgree'
  BY DEF IInv, TablesAgree, Abstract!TablesAgree
<1>5. OkMeansStored'
  BY <1>2 DEF IInv, OkMeansStored
<1>6. ConflictIsReal'
  BY <1>2 DEF IInv, ConflictIsReal
<1> QED BY <1>1, <1>3, <1>4, <1>5, <1>6 DEF IInv

-----------------------------------------------------------------------------
(* One lemma per action: the invariant is inductive                        *)

LEMMA CallStep ==
    ASSUME IInv, NEW t \in Tasks, NEW c \in Calls, Call(t, c) PROVE IInv'
<1>1. /\ stage[t] = "idle" /\ stage' = [stage EXCEPT ![t] = "acquire"]
      /\ call' = [call EXCEPT ![t] = c]
      /\ UNCHANGED <<skills, versions, lock, pool, tx, result>>
  BY DEF Call, Goto
<1>2. TypeOK'
  BY <1>1 DEF IInv, TypeOK, Stages
<1>3. /\ stage'[t] = "acquire" /\ call'[t] = c /\ tx[t] = NoTx
      /\ result[t].status = "pending" /\ \A k \in Skills : lock[k] # t
  BY <1>1 DEF IInv, TypeOK, TaskInv, LockHeld, Answered, InTransaction, Sendable
<1>4. TaskInv(t)'
  BY <1>1, <1>3 DEF TaskInv, CallFits, LockHeld, TxFits, Answered, InTransaction, Writing, NoTx
<1> QED BY <1>1, <1>2, <1>3, <1>4, QuietStep DEF IInv, TypeOK

LEMMA AcquireStep ==
    ASSUME IInv, NEW t \in Tasks, Acquire(t) PROVE IInv'
<1>1. /\ stage[t] = "acquire"
      /\ stage' = [stage EXCEPT ![t] = IF call[t].op = "insert" THEN "upsert" ELSE "execute"]
      /\ pool' \in SUBSET Tasks
      /\ UNCHANGED <<skills, versions, lock, call, tx, result>>
  BY DEF Acquire, Goto, IInv, TypeOK
<1>2. TypeOK'
  BY <1>1 DEF IInv, TypeOK, Stages
<1>3. /\ call[t] \in Calls /\ tx[t] = NoTx /\ result[t].status = "pending"
      /\ \A k \in Skills : lock[k] # t
  BY <1>1 DEF IInv, TypeOK, TaskInv, CallFits, LockHeld, Answered, InTransaction, Sendable
<1>4. call[t].op \in {"insert", "mark"}
  BY <1>3, CallsAssumption DEF InsertCall, MarkCall
<1>5. \/ stage'[t] = "upsert" /\ call[t].op = "insert"
      \/ stage'[t] = "execute" /\ call[t].op = "mark"
  BY <1>1, <1>4 DEF IInv, TypeOK
<1>6. TaskInv(t)'
  BY <1>1, <1>3, <1>5
     DEF TaskInv, CallFits, LockHeld, TxFits, Answered, InTransaction, Writing, NoTx
<1> QED BY <1>1, <1>2, <1>3, <1>6, QuietStep DEF IInv, TypeOK

LEMMA UpsertSkillStep ==
    ASSUME IInv, NEW t \in Tasks, UpsertSkill(t) PROVE IInv'
<1> DEFINE k == call[t].skill
<1>1. /\ stage[t] = "upsert" /\ lock[k] = None
      /\ lock' = [lock EXCEPT ![k] = t]
      /\ tx' = [tx EXCEPT ![t].skill = Upserted(t)]
      /\ stage' = [stage EXCEPT ![t] = IF Awaited(t) THEN "select" ELSE "rollback"]
      /\ UNCHANGED <<skills, versions, pool, call, result>>
  BY DEF UpsertSkill, Goto, LockFree, Upserted
<1>2. /\ call[t] \in Calls /\ call[t].op = "insert"
      /\ tx[t] = NoTx /\ result[t].status \in {"pending"} \cup Failures
      /\ \A j \in Skills : lock[j] # t
  BY <1>1 DEF IInv, TypeOK, TaskInv, CallFits, LockHeld, Answered, InTransaction
<1>3. k \in Skills /\ Upserted(t) \in SkillRow
  BY <1>2, CallTypes DEF IInv, TypeOK, Upserted
<1>4. /\ \/ stage'[t] = "select" /\ result[t].status = "pending"
         \/ stage'[t] = "rollback" /\ result[t].status \in Failures
      /\ tx'[t].skill = Upserted(t) /\ tx'[t].version = None
      /\ \A j \in Skills : lock'[j] = t <=> j = k
  BY <1>1, <1>2, <1>3 DEF IInv, TypeOK, NoTx, Awaited
<1>5. TypeOK'
  <2>1. [tx[t] EXCEPT !.skill = Upserted(t)] \in Transaction
    BY <1>3 DEF IInv, TypeOK, Transaction
  <2> QED BY <1>1, <1>3, <2>1 DEF IInv, TypeOK, Stages, InTransaction
<1>6. TaskInv(t)'
  <2>1. Upserted(t)' = Upserted(t)
    BY <1>1 DEF Upserted
  <2> QED BY <1>1, <1>2, <1>3, <1>4, <2>1
          DEF TaskInv, CallFits, LockHeld, TxFits, Answered, InTransaction, Writing, Failures
<1>7. \A u \in Tasks \ {t}, j \in Skills : lock'[j] = u <=> lock[j] = u
  BY <1>1, NoneIsNoRow DEF IInv, TypeOK
<1>8. result'[t].status \notin {"ok", "conflict"}
  BY <1>1, <1>2 DEF Failures
<1> QED BY <1>1, <1>2, <1>5, <1>6, <1>7, <1>8, QuietStep DEF IInv, TypeOK

(* The two outcomes of Settle and the INSERT itself, from a stage that     *)
(* holds the lock.                                                         *)
LEMMA SettleStep ==
    ASSUME IInv, NEW t \in Tasks, stage[t] \in {"select", "insert"},
           versions[Key(t)] # None, Settle(t, versions[Key(t)]),
           UNCHANGED <<skills, versions, lock, pool, call>>
    PROVE  IInv'
<1> DEFINE row == versions[Key(t)]
<1>1. /\ call[t] \in Calls /\ call[t].op = "insert"
      /\ lock[call[t].skill] = t
      /\ \A j \in Skills : lock[j] = t => call[t].skill = j
      /\ tx[t].version = None /\ tx[t].skill = Upserted(t)
      /\ result[t].status = "pending"
  BY DEF IInv, TypeOK, TaskInv, CallFits, LockHeld, TxFits, Answered, InTransaction, Writing,
         Sendable
<1>2. call[t].skill \in Skills /\ call[t].version \in Versions /\ Key(t) \in Keys
      /\ row \in VersionRow
  BY <1>1, CallTypes DEF IInv, TypeOK
<1>3. Key(t)' = Key(t)
  BY DEF Key
<1>4. CASE /\ row.digest # call[t].digest
           /\ Goto(t, "rollback") /\ Answer(t, "conflict", None) /\ UNCHANGED tx
  <2>1. /\ stage' = [stage EXCEPT ![t] = "rollback"]
        /\ result' = [result EXCEPT ![t] = [status |-> "conflict", record |-> None]]
        /\ stage'[t] = "rollback" /\ result'[t].status = "conflict"
    BY <1>4 DEF Goto, Answer, IInv, TypeOK
  <2>2. TypeOK'
    BY <1>4, <2>1 DEF IInv, TypeOK, Stages, InTransaction, Statuses
  <2>3. TaskInv(t)'
    BY <1>1, <1>2, <1>3, <1>4, <2>1
       DEF TaskInv, CallFits, LockHeld, TxFits, Answered, InTransaction, Writing
  <2> QED BY <1>3, <1>4, <2>1, <2>2, <2>3, QuietStep DEF IInv, TypeOK
<1>5. CASE /\ row.digest = call[t].digest
           /\ Goto(t, "commit") /\ tx' = [tx EXCEPT ![t].record = row] /\ UNCHANGED result
  <2>1. /\ stage' = [stage EXCEPT ![t] = "commit"] /\ stage'[t] = "commit"
        /\ tx'[t].version = None /\ tx'[t].skill = Upserted(t) /\ tx'[t].record = row
        /\ \A u \in Tasks \ {t} : tx'[u] = tx[u]
    BY <1>1, <1>5 DEF Goto, IInv, TypeOK, Transaction
  <2>2. TypeOK'
    <3>1. [tx[t] EXCEPT !.record = row] \in Transaction
      BY <1>2 DEF IInv, TypeOK, Transaction
    <3> QED BY <1>5, <2>1, <3>1 DEF IInv, TypeOK, Stages, InTransaction
  <2>3. Upserted(t) = skills[call[t].skill]
    <3>1. versions[<<call[t].skill, call[t].version>>] # None
      BY DEF Key
    <3> QED BY <1>2, <3>1 DEF IInv, TablesAgree, Abstract!TablesAgree, Upserted
  <2>4. TaskInv(t)'
    <3>1. CallFits(t)' /\ LockHeld(t)' /\ Answered(t)'
      BY <1>1, <1>2, <1>5, <2>1 DEF CallFits, LockHeld, Answered, InTransaction, Writing
    <3>2. TxFits(t)'
      BY <1>3, <1>5, <2>1, <2>3 DEF TxFits, SameExceptYank
    <3> QED BY <3>1, <3>2 DEF TaskInv
  <2> QED BY <1>1, <1>5, <2>1, <2>2, <2>4, QuietStep DEF IInv, TypeOK
<1> QED BY <1>4, <1>5 DEF Settle

LEMMA SelectVersionStep ==
    ASSUME IInv, NEW t \in Tasks, SelectVersion(t) PROVE IInv'
<1>1. CASE versions[Key(t)] # None
  BY <1>1, SettleStep DEF SelectVersion
<1>2. CASE versions[Key(t)] = None
  <2>1. /\ stage[t] = "select" /\ stage' = [stage EXCEPT ![t] = "insert"]
        /\ stage'[t] = "insert"
        /\ UNCHANGED <<skills, versions, lock, pool, call, tx, result>>
    BY <1>2 DEF SelectVersion, Goto, IInv, TypeOK
  <2>2. TypeOK'
    BY <2>1 DEF IInv, TypeOK, Stages, InTransaction
  <2>3. Key(t)' = Key(t) /\ Upserted(t)' = Upserted(t)
    BY <2>1 DEF Key, Upserted
  <2>4. TaskInv(t)'
    BY <1>2, <2>1, <2>3
       DEF IInv, TaskInv, CallFits, LockHeld, TxFits, Answered, InTransaction, Writing, Sendable
  <2>5. result[t].status = "pending"
    BY <2>1 DEF IInv, TypeOK, TaskInv, Answered, Sendable
  <2> QED BY <2>1, <2>2, <2>4, <2>5, QuietStep DEF IInv, TypeOK
<1> QED BY <1>1, <1>2

LEMMA InsertVersionStep ==
    ASSUME IInv, NEW t \in Tasks, InsertVersion(t) PROVE IInv'
<1>1. CASE versions[Key(t)] # None
  BY <1>1, SettleStep DEF InsertVersion
<1>2. CASE versions[Key(t)] = None
  <2>1. /\ stage[t] = "insert" /\ stage' = [stage EXCEPT ![t] = "latest"]
        /\ stage'[t] = "latest"
        /\ tx' = [tx EXCEPT ![t].version = NewVersion(t), ![t].record = NewVersion(t)]
        /\ UNCHANGED <<skills, versions, lock, pool, call, result>>
    BY <1>2 DEF InsertVersion, Goto, IInv, TypeOK
  <2>2. /\ call[t] \in Calls /\ call[t].op = "insert" /\ lock[call[t].skill] = t
        /\ tx[t].skill = Upserted(t) /\ result[t].status = "pending"
    BY <2>1 DEF IInv, TypeOK, TaskInv, CallFits, LockHeld, TxFits, Answered, InTransaction,
                Writing, Sendable
  <2>3. NewVersion(t) \in VersionRow
    BY <2>2, CallTypes DEF IInv
  <2>4. tx'[t] \in Transaction /\ tx'[t].version = NewVersion(t)
        /\ tx'[t].record = NewVersion(t) /\ tx'[t].skill = tx[t].skill
    BY <2>1, <2>3 DEF IInv, TypeOK, Transaction
  <2>5. TypeOK'
    BY <2>1, <2>4 DEF IInv, TypeOK, Stages, InTransaction
  <2>6. Key(t)' = Key(t) /\ Upserted(t)' = Upserted(t) /\ NewVersion(t)' = NewVersion(t)
    BY <2>1 DEF Key, Upserted, NewVersion
  <2>7. TaskInv(t)'
    BY <1>2, <2>1, <2>2, <2>4, <2>6
       DEF IInv, TaskInv, CallFits, LockHeld, TxFits, Answered, InTransaction, Writing
  <2> QED BY <2>1, <2>2, <2>5, <2>7, QuietStep DEF IInv, TypeOK
<1> QED BY <1>1, <1>2

LEMMA UpdateLatestStep ==
    ASSUME IInv, NEW t \in Tasks, UpdateLatest(t) PROVE IInv'
<1>1. /\ stage[t] = "latest" /\ stage' = [stage EXCEPT ![t] = "commit"]
      /\ stage'[t] = "commit"
      /\ tx' = [tx EXCEPT ![t].skill.latest = call[t].version]
      /\ UNCHANGED <<skills, versions, lock, pool, call, result>>
  BY DEF UpdateLatest, Goto, IInv, TypeOK
<1>2. /\ call[t] \in Calls /\ call[t].op = "insert" /\ lock[call[t].skill] = t
      /\ tx[t].skill = Upserted(t) /\ result[t].status = "pending"
      /\ tx[t].version = NewVersion(t) /\ tx[t].record = NewVersion(t)
      /\ versions[Key(t)] = None
  BY <1>1 DEF IInv, TypeOK, TaskInv, CallFits, LockHeld, TxFits, Answered, InTransaction, Writing,
              Sendable
<1>3. /\ call[t].skill \in Skills /\ call[t].version \in Versions
      /\ Upserted(t) \in SkillRow
  BY <1>2, CallTypes DEF IInv, TypeOK, Upserted
<1>4. [Upserted(t) EXCEPT !.latest = call[t].version]
        = Abstract!SkillAfter(skills[call[t].skill], call[t].visibility, call[t].version)
  BY DEF Upserted, NewSkill, Abstract!SkillAfter
<1>5. /\ tx'[t].skill = [Upserted(t) EXCEPT !.latest = call[t].version]
      /\ tx'[t].version = NewVersion(t) /\ tx'[t].record = NewVersion(t)
      /\ tx'[t] \in Transaction
  <2>1. [Upserted(t) EXCEPT !.latest = call[t].version] \in SkillRow
    BY <1>3 DEF SkillRow
  <2>2. tx'[t] = [tx[t] EXCEPT !.skill = [Upserted(t) EXCEPT !.latest = call[t].version]]
    BY <1>1, <1>2 DEF IInv, TypeOK
  <2> QED BY <1>2, <2>1, <2>2 DEF IInv, TypeOK, Transaction
<1>6. TypeOK'
  BY <1>1, <1>5 DEF IInv, TypeOK, Stages, InTransaction
<1>7. Key(t)' = Key(t) /\ NewVersion(t)' = NewVersion(t)
  BY <1>1 DEF Key, NewVersion
<1>8. TaskInv(t)'
  <2>1. CallFits(t)' /\ LockHeld(t)' /\ Answered(t)'
    BY <1>1, <1>2 DEF IInv, TaskInv, CallFits, LockHeld, Answered, InTransaction, Writing
  <2>2. TxFits(t)'
    BY <1>1, <1>2, <1>4, <1>5, <1>7 DEF TxFits
  <2> QED BY <2>1, <2>2 DEF TaskInv
<1> QED BY <1>1, <1>2, <1>6, <1>8, QuietStep DEF IInv, TypeOK

LEMMA CloseStage ==
    ASSUME IInv, NEW t \in Tasks, Close(t), stage[t] \notin {"idle", "rollback", "done"}
    PROVE  /\ stage' \in [Tasks -> Stages]
           /\ \A u \in Tasks \ {t} : stage'[u] = stage[u]
           /\ \/ stage[t] \in {"acquire", "execute"} /\ stage'[t] = "done"
              \/ stage[t] \in {"upsert", "select", "insert", "latest", "commit"}
                 /\ stage'[t] = "rollback"
BY DEF Close, Goto, IInv, TypeOK, Stages, InTransaction

LEMMA FailStep ==
    ASSUME IInv, NEW t \in Tasks, NEW failure \in Failures, Fail(t, failure) PROVE IInv'
<1>1. /\ stage[t] \notin {"idle", "rollback", "done"} /\ stage[t] \in Stages
      /\ result' = [result EXCEPT ![t] = [status |-> failure, record |-> None]]
      /\ UNCHANGED <<skills, versions, lock, call, tx>>
  BY DEF Fail, Awaited, Answer, IInv, TypeOK, TaskInv, Answered
<1>2. /\ stage' \in [Tasks -> Stages]
      /\ \A u \in Tasks \ {t} : stage'[u] = stage[u]
      /\ \/ stage[t] \in {"acquire", "execute"} /\ stage'[t] = "done"
         \/ stage[t] \in {"upsert", "select", "insert", "latest", "commit"}
            /\ stage'[t] = "rollback"
         \/ stage[t] \in Sendable /\ stage'[t] = stage[t]
  <2>1. CASE Close(t)
    BY <1>1, <2>1, CloseStage
  <2>2. CASE stage[t] \in Sendable /\ UNCHANGED stage
    BY <2>2 DEF IInv, TypeOK
  <2> QED BY <2>1, <2>2 DEF Fail
<1>3. TypeOK'
  BY <1>1, <1>2 DEF IInv, TypeOK, Statuses, Fail, Leave
<1>4. /\ result'[t].status = failure /\ failure \notin {"pending", "ok", "conflict"}
      /\ \A u \in Tasks \ {t} : result'[u] = result[u]
  BY <1>1 DEF IInv, TypeOK, Failures
<1>5. Key(t)' = Key(t) /\ Upserted(t)' = Upserted(t) /\ NewVersion(t)' = NewVersion(t)
  BY <1>1 DEF Key, Upserted, NewVersion
<1>6. TaskInv(t)'
  <2>1. CASE stage'[t] = stage[t] /\ stage[t] \in Sendable
    BY <1>1, <1>4, <1>5, <2>1 DEF IInv, TaskInv, CallFits, LockHeld, TxFits, Answered, Sendable
  <2>2. CASE stage'[t] # stage[t]
    BY <1>1, <1>2, <1>4, <1>5, <2>2
       DEF IInv, TaskInv, CallFits, LockHeld, TxFits, Answered, InTransaction, Writing
  <2> QED BY <1>2, <2>1, <2>2
<1> QED BY <1>1, <1>2, <1>3, <1>4, <1>6, QuietStep DEF IInv, TypeOK

(* Whatever is left of a call nobody waits for has a failure for answer.   *)
LEMMA Unawaited ==
    ASSUME IInv, NEW t \in Tasks, stage[t] \in Sendable, ~Awaited(t)
    PROVE  /\ result[t].status \in Failures /\ result[t].status \notin {"pending", "ok", "conflict"}
           /\ result[t].record \in VersionRow \cup {None}
           /\ UNCHANGED result => Answer(t, result[t].status, result[t].record)
<1>1. result[t].status # "pending"
  BY DEF Awaited, Sendable
<1>2. result[t].status \in Failures
  BY <1>1 DEF IInv, TaskInv, Answered, Sendable
<1> QED BY <1>2 DEF Answer, IInv, TypeOK, Failures

LEMMA VanishStep ==
    ASSUME IInv, NEW t \in Tasks, Vanish(t) PROVE IInv'
<1>1. /\ stage[t] \in Sendable /\ ~Awaited(t) /\ stage[t] \notin {"idle", "rollback", "done"}
      /\ UNCHANGED <<skills, versions, lock, call, tx, result>>
  BY DEF Vanish, Sendable
<1>2. /\ stage' \in [Tasks -> Stages]
      /\ \A u \in Tasks \ {t} : stage'[u] = stage[u]
      /\ \/ stage[t] \in {"acquire", "execute"} /\ stage'[t] = "done"
         \/ stage[t] \in {"upsert", "select", "insert", "latest", "commit"}
            /\ stage'[t] = "rollback"
  BY <1>1, CloseStage DEF Vanish
<1>3. TypeOK'
  BY <1>1, <1>2 DEF IInv, TypeOK, Vanish, Leave
<1>4. result'[t].status \notin {"pending", "ok", "conflict"}
  BY <1>1, Unawaited
<1>5. Key(t)' = Key(t)
  BY <1>1 DEF Key
<1>6. TaskInv(t)'
  BY <1>1, <1>2, <1>4, <1>5
     DEF IInv, TaskInv, CallFits, LockHeld, TxFits, Answered, InTransaction, Writing
<1> QED BY <1>1, <1>2, <1>3, <1>4, <1>6, QuietStep DEF IInv, TypeOK

LEMMA RollbackStep ==
    ASSUME IInv, NEW t \in Tasks, Rollback(t) PROVE IInv'
<1>1. /\ stage[t] = "rollback"
      /\ stage' = [stage EXCEPT ![t] = "done"]
      /\ lock' = [k \in Skills |-> IF lock[k] = t THEN None ELSE lock[k]]
      /\ tx' = [tx EXCEPT ![t] = NoTx]
      /\ pool' = pool \ {t}
      /\ UNCHANGED <<skills, versions, call, result>>
  BY DEF Rollback, Release, Goto
<1>2. TypeOK'
  BY <1>1, NoTxType DEF IInv, TypeOK, Stages
<1>3. /\ stage'[t] = "done" /\ tx'[t] = NoTx /\ call[t] \in Calls
      /\ \A k \in Skills : lock'[k] # t
      /\ \A u \in Tasks \ {t}, k \in Skills : lock'[k] = u <=> lock[k] = u
  BY <1>1, NoneIsNoRow DEF IInv, TypeOK, TaskInv, CallFits
<1>4. result[t].status \notin {"pending", "ok"}
  BY <1>1 DEF IInv, TaskInv, Answered
<1>5. TaskInv(t)'
  BY <1>1, <1>3, <1>4
     DEF TaskInv, CallFits, LockHeld, TxFits, Answered, InTransaction, Writing, NoTx
<1>6. Key(t)' = Key(t)
  BY <1>1 DEF Key
<1>7. result'[t].status = "conflict" =>
        versions[Key(t)'] # None /\ versions[Key(t)'].digest # call'[t].digest
  BY <1>1, <1>6 DEF IInv, ConflictIsReal
<1> QED BY <1>1, <1>2, <1>3, <1>4, <1>5, <1>7, QuietStep DEF IInv, TypeOK

(* What a commit does to the tables: nothing when the version was already  *)
(* there, and otherwise exactly Registry's Publish.                        *)
LEMMA InstallCases ==
    ASSUME IInv, NEW t \in Tasks, stage[t] = "commit", Install(t)
    PROVE  /\ call[t] \in Calls /\ call[t].op = "insert"
           /\ \/ /\ versions[Key(t)] = None
                 /\ versions' = [versions EXCEPT ![Key(t)] = NewVersion(t)]
                 /\ skills' = [skills EXCEPT ![call[t].skill] =
                                 Abstract!SkillAfter(@, call[t].visibility, call[t].version)]
                 /\ tx[t].version # None /\ tx[t].record = NewVersion(t)
              \/ /\ skills' = skills /\ versions' = versions
                 /\ tx[t].version = None /\ versions[Key(t)] # None
                 /\ tx[t].record.digest = call[t].digest
                 /\ SameExceptYank(tx[t].record, versions[Key(t)])
<1>1. call[t] \in Calls /\ call[t].op = "insert"
  BY DEF IInv, TaskInv, CallFits, InTransaction
<1>2. NewVersion(t) # None
  BY <1>1, CallTypes, NoneIsNoRow DEF IInv
<1>3. /\ skills' = [skills EXCEPT ![call[t].skill] = tx[t].skill]
      /\ versions' = IF tx[t].version = None THEN versions
                     ELSE [versions EXCEPT ![Key(t)] = tx[t].version]
  BY DEF Install
<1>4. CASE /\ tx[t].version = NewVersion(t)
           /\ tx[t].record = NewVersion(t)
           /\ tx[t].skill = Abstract!SkillAfter(skills[call[t].skill],
                                                call[t].visibility, call[t].version)
  <2>1. versions[Key(t)] = None
    BY <1>2, <1>4 DEF IInv, TaskInv, TxFits
  <2>2. skills' = [skills EXCEPT ![call[t].skill] =
                     Abstract!SkillAfter(skills[call[t].skill],
                                         call[t].visibility, call[t].version)]
    BY <1>3, <1>4
  <2> QED BY <1>1, <1>2, <1>3, <1>4, <2>1, <2>2
<1>5. CASE /\ tx[t].version = None
           /\ tx[t].skill = skills[call[t].skill]
           /\ versions[Key(t)] # None
           /\ tx[t].record.digest = call[t].digest
           /\ SameExceptYank(tx[t].record, versions[Key(t)])
  <2>1. skills' = skills
    BY <1>3, <1>5 DEF IInv, TypeOK
  <2> QED BY <1>1, <1>3, <1>5, <2>1
<1> QED BY <1>4, <1>5 DEF IInv, TaskInv, TxFits

LEMMA InstallStep ==
    ASSUME IInv, NEW t \in Tasks, stage[t] = "commit", Install(t), UNCHANGED call,
           NEW status \in {"ok"} \cup Failures, NEW record \in VersionRow \cup {None},
           Answer(t, status, record), status = "ok" => record = tx[t].record
    PROVE  IInv'
<1> DEFINE k == call[t].skill
           v == call[t].version
<1>1. /\ stage' = [stage EXCEPT ![t] = "done"]
      /\ lock' = [j \in Skills |-> IF lock[j] = t THEN None ELSE lock[j]]
      /\ tx' = [tx EXCEPT ![t] = NoTx]
      /\ result' = [result EXCEPT ![t] = [status |-> status, record |-> record]]
      /\ pool' = pool \ {t} /\ call' = call
  BY DEF Install, Release, Goto, Answer
<1>2. /\ call[t] \in Calls /\ call[t].op = "insert" /\ lock[k] = t
      /\ k \in Skills /\ v \in Versions /\ Key(t) \in Keys /\ Key(t) = <<k, v>>
      /\ NewVersion(t) \in VersionRow /\ NewSkill(call[t]) \in SkillRow
  BY InstallCases, CallTypes DEF IInv, TaskInv, LockHeld, Writing, Key
<1>3. /\ stage'[t] = "done" /\ tx'[t] = NoTx
      /\ result'[t].status = status /\ result'[t].record = record
      /\ \A j \in Skills : lock'[j] # t
      /\ \A u \in Tasks \ {t}, j \in Skills : lock'[j] = u <=> lock[j] = u
      /\ \A u \in Tasks \ {t} : stage'[u] = stage[u] /\ tx'[u] = tx[u] /\ result'[u] = result[u]
  BY <1>1, NoneIsNoRow DEF IInv, TypeOK
<1>4. status # "pending" /\ status # "conflict" /\ status \in Statuses
  BY DEF Failures, Statuses
<1>5. \A u \in Tasks : Key(u)' = Key(u) /\ NewVersion(u)' = NewVersion(u)
  BY <1>1 DEF Key, NewVersion
<1>6. TypeOK'
  <2>1. skills' \in [Skills -> SkillRow \cup {None}]
    <3>1. Abstract!SkillAfter(skills[k], call[t].visibility, v) \in SkillRow
      BY <1>2 DEF IInv, TypeOK, SkillRow, NewSkill, Abstract!SkillAfter
    <3> QED BY <3>1, InstallCases DEF IInv, TypeOK
  <2>2. versions' \in [Keys -> VersionRow \cup {None}]
    BY <1>2, InstallCases DEF IInv, TypeOK
  <2> QED BY <1>1, <1>4, <2>1, <2>2, NoTxType DEF IInv, TypeOK, Stages
<1>7. TaskInv(t)'
  BY <1>1, <1>2, <1>3, <1>4
     DEF TaskInv, CallFits, LockHeld, TxFits, Answered, InTransaction, Writing, NoTx
<1>8. ASSUME NEW u \in Tasks \ {t} PROVE TaskInv(u)'
  <2>1. stage[u] \in Writing \/ tx[u].version # None => lock[call[u].skill] = u
    BY DEF IInv, TaskInv, LockHeld, NoTx
  <2>2. stage[u] \in Writing \/ tx[u].version # None =>
           call[u].skill # k /\ Key(u) # Key(t)
    BY <2>1, <1>2 DEF Key
  <2>3. ASSUME stage[u] \in Writing \/ tx[u].version # None
        PROVE  skills'[call[u].skill] = skills[call[u].skill] /\ versions'[Key(u)] = versions[Key(u)]
    <3>1. call[u] \in Calls
      BY <2>3 DEF IInv, TaskInv, CallFits, LockHeld, Writing, InTransaction, NoTx
    <3>2. call[u].skill \in Skills /\ Key(u) \in Keys
      BY <3>1, CallTypes DEF IInv
    <3> QED BY <2>2, <2>3, <3>2, InstallCases DEF IInv, TypeOK
  <2> QED BY <2>3, <1>1, <1>3, Undisturbed DEF IInv, SameExceptYank
<1>9. \A key \in Keys : versions[key] # None =>
         versions'[key] = versions[key] /\ versions[key].id \in Tasks \ {t}
  <2>1. \A key \in Keys : versions[key] # None => versions[key].id # t
    BY DEF IInv, RowsHaveOneSource, RowFrom
  <2> QED BY <2>1, InstallCases DEF IInv, TypeOK, VersionRow
<1>10. \A key \in Keys : versions[key] = None /\ versions'[key] # None =>
         key = Key(t) /\ versions'[key] = NewVersion(t)
  BY <1>2, InstallCases DEF IInv, TypeOK
<1>11. RowsHaveOneSource'
  <2> SUFFICES ASSUME NEW key \in Keys, NEW u \in Tasks,
                      versions'[key] # None, versions'[key].id = u
               PROVE  RowFrom(u, key)'
    BY DEF RowsHaveOneSource
  <2>1. CASE versions[key] # None
    <3>1. versions'[key] = versions[key] /\ u # t /\ RowFrom(u, key)
      BY <2>1, <1>9 DEF IInv, RowsHaveOneSource
    <3> QED BY <3>1, <1>1, <1>3, <1>5 DEF RowFrom
  <2>2. CASE versions[key] = None
    <3>1. key = Key(t) /\ versions'[key] = NewVersion(t) /\ u = t
      BY <2>2, <1>10 DEF NewVersion
    <3> QED BY <3>1, <1>1, <1>2, <1>3, <1>5 DEF RowFrom, SameExceptYank
  <2> QED BY <2>1, <2>2
<1>12. TablesAgree'
  <2>1. CASE skills' = skills /\ versions' = versions
    BY <2>1 DEF IInv, TablesAgree, Abstract!TablesAgree
  <2>2. CASE /\ versions' = [versions EXCEPT ![Key(t)] = NewVersion(t)]
             /\ skills' = [skills EXCEPT ![k] =
                             Abstract!SkillAfter(@, call[t].visibility, v)]
    <3>1. \A j \in Skills, w \in Versions : <<j, w>> \in Keys
      BY DEF Keys
    <3>2. versions'[<<k, v>>] # None
      BY <2>2, <1>2, NoneIsNoRow DEF IInv, TypeOK
    <3>3. skills'[k] # None /\ skills'[k].latest = v
      BY <2>2, <1>2, NoneIsNoRow
         DEF IInv, TypeOK, SkillRow, NewSkill, Abstract!SkillAfter
    <3>4. ASSUME NEW j \in Skills \ {k}
          PROVE  /\ skills'[j] = None <=> \A w \in Versions : versions'[<<j, w>>] = None
                 /\ skills'[j] # None => versions'[<<j, skills'[j].latest>>] # None
      <4>1. skills'[j] = skills[j]
        BY <2>2 DEF IInv, TypeOK
      <4>2. \A w \in Versions : versions'[<<j, w>>] = versions[<<j, w>>]
        BY <2>2, <1>2, <3>1 DEF IInv, TypeOK
      <4>3. skills[j] # None => skills[j].latest \in Versions
        BY DEF IInv, TypeOK, SkillRow
      <4> QED BY <4>1, <4>2, <4>3 DEF IInv, TablesAgree, Abstract!TablesAgree
    <3> QED BY <1>2, <3>2, <3>3, <3>4 DEF TablesAgree, Abstract!TablesAgree
  <2> QED BY <2>1, <2>2, InstallCases
<1>13. OkMeansStored'
  <2> SUFFICES ASSUME NEW u \in Tasks, result'[u].status = "ok"
               PROVE  /\ versions'[Key(u)] # None
                      /\ call'[u].op = "insert" =>
                           /\ result'[u].record.digest = call'[u].digest
                           /\ SameExceptYank(result'[u].record, versions'[Key(u)])
    BY <1>5 DEF OkMeansStored
  <2>1. CASE u = t
    <3>1. CASE /\ versions' = [versions EXCEPT ![Key(t)] = NewVersion(t)]
               /\ tx[t].record = NewVersion(t)
      <4>1. versions'[Key(t)] = NewVersion(t) /\ NewVersion(t).digest = call[t].digest
        BY <3>1, <1>2 DEF IInv, TypeOK, NewVersion
      <4> QED BY <2>1, <3>1, <4>1, <1>1, <1>2, <1>3, NoneIsNoRow DEF SameExceptYank
    <3>2. CASE /\ versions' = versions
               /\ versions[Key(t)] # None
               /\ tx[t].record.digest = call[t].digest
               /\ SameExceptYank(tx[t].record, versions[Key(t)])
      BY <2>1, <3>2, <1>1, <1>3
    <3> QED BY <3>1, <3>2, InstallCases
  <2>2. CASE u # t
    <3>1. /\ result[u].status = "ok" /\ stage[u] = "done" /\ call[u] \in Calls
      BY <2>2, <1>3 DEF IInv, TaskInv, Answered, CallFits
    <3>2. Key(u) \in Keys /\ versions[Key(u)] # None
      BY <3>1, CallTypes DEF IInv, OkMeansStored
    <3> QED BY <2>2, <3>1, <3>2, <1>1, <1>3, <1>9 DEF IInv, OkMeansStored
  <2> QED BY <2>1, <2>2
<1>14. ConflictIsReal'
  <2> SUFFICES ASSUME NEW u \in Tasks, result'[u].status = "conflict"
               PROVE  versions'[Key(u)] # None /\ versions'[Key(u)].digest # call'[u].digest
    BY <1>5 DEF ConflictIsReal
  <2>1. u # t /\ result[u].status = "conflict"
    BY <1>3, <1>4
  <2>2. stage[u] # "idle" /\ call[u] \in Calls
    BY <2>1 DEF IInv, TypeOK, TaskInv, Answered, CallFits, Sendable
  <2>3. Key(u) \in Keys /\ versions[Key(u)] # None
    BY <2>1, <2>2, CallTypes DEF IInv, ConflictIsReal
  <2> QED BY <2>1, <2>3, <1>1, <1>9 DEF IInv, ConflictIsReal
<1> QED BY <1>6, <1>7, <1>8, <1>11, <1>12, <1>13, <1>14 DEF IInv

LEMMA CommitStep ==
    ASSUME IInv, NEW t \in Tasks, Commit(t) PROVE IInv'
<1>1. stage[t] = "commit" /\ Install(t) /\ UNCHANGED call /\ Return(t, "ok", tx[t].record)
  BY DEF Commit
<1>2. CASE Awaited(t)
  BY <1>1, <1>2, TxType, InstallStep DEF IInv, Return
<1>3. CASE ~Awaited(t)
  <2>1. /\ result[t].status \in Failures /\ result[t].status # "ok"
        /\ result[t].record \in VersionRow \cup {None}
        /\ Answer(t, result[t].status, result[t].record)
    BY <1>1, <1>3, Unawaited DEF Return, Sendable
  <2> QED BY <1>1, <2>1, InstallStep
<1> QED BY <1>2, <1>3

LEMMA CommitUnacknowledgedStep ==
    ASSUME IInv, NEW t \in Tasks, NEW failure \in Failures, CommitUnacknowledged(t, failure)
    PROVE  IInv'
<1>1. stage[t] = "commit" /\ Install(t) /\ UNCHANGED call /\ Answer(t, failure, None)
  BY DEF CommitUnacknowledged
<1>2. failure # "ok"
  BY DEF Failures
<1> QED BY <1>1, <1>2, InstallStep

(* A yank or unyank changes nothing but the mark of a committed row, on    *)
(* which no other task relies.                                             *)
LEMMA MarkStep ==
    ASSUME IInv, NEW t \in Tasks, stage[t] = "execute", versions[Key(t)] # None, Update(t),
           NEW status \in {"ok"} \cup Failures, NEW record \in VersionRow \cup {None},
           Answer(t, status, record), Goto(t, "done"), pool' \in SUBSET Tasks,
           UNCHANGED <<lock, call, tx>>
    PROVE  IInv'
<1>1. /\ stage' = [stage EXCEPT ![t] = "done"]
      /\ result' = [result EXCEPT ![t] = [status |-> status, record |-> record]]
      /\ versions' = [versions EXCEPT ![Key(t)].yank = call[t].mark]
      /\ UNCHANGED <<skills, lock, call, tx>>
  BY DEF Goto, Answer, Update
<1>2. /\ call[t] \in Calls /\ call[t].op = "mark" /\ tx[t] = NoTx
      /\ \A k \in Skills : lock[k] # t
  BY DEF IInv, TypeOK, TaskInv, CallFits, LockHeld, InTransaction
<1>3. Key(t) \in Keys /\ call[t].mark \in Reasons \cup {None}
  BY <1>2, CallTypes DEF IInv
<1>4. /\ stage'[t] = "done"
      /\ result'[t].status = status /\ status \in Statuses \ {"pending", "conflict"}
      /\ \A u \in Tasks \ {t} : stage'[u] = stage[u] /\ result'[u] = result[u]
  BY <1>1 DEF IInv, TypeOK, Statuses, Failures
<1>5. \A u \in Tasks : Key(u)' = Key(u) /\ NewVersion(u)' = NewVersion(u)
  BY <1>1 DEF Key, NewVersion
<1>6. ASSUME NEW key \in Keys
      PROVE  /\ versions'[key] \in VersionRow \cup {None}
             /\ versions'[key] = None <=> versions[key] = None
             /\ versions[key] # None => /\ SameExceptYank(versions[key], versions'[key])
                                        /\ versions'[key].id = versions[key].id
                                        /\ versions'[key].digest = versions[key].digest
  <2>1. versions[Key(t)] \in VersionRow
    BY <1>3 DEF IInv, TypeOK
  <2>2. [versions[Key(t)] EXCEPT !.yank = call[t].mark] \in VersionRow
    BY <1>3, <2>1 DEF VersionRow
  <2>3. CASE key = Key(t)
    <3>1. versions'[key] = [versions[Key(t)] EXCEPT !.yank = call[t].mark]
      BY <1>1, <2>3 DEF IInv, TypeOK
    <3> QED BY <2>1, <2>2, <2>3, <3>1, NoneIsNoRow DEF VersionRow, SameExceptYank
  <2>4. CASE key # Key(t)
    BY <1>1, <2>4 DEF IInv, TypeOK, SameExceptYank
  <2> QED BY <2>3, <2>4
<1>7. TypeOK'
  <2>1. versions' \in [Keys -> VersionRow \cup {None}]
    BY <1>1, <1>6 DEF IInv, TypeOK
  <2> QED BY <1>1, <1>4, <2>1 DEF IInv, TypeOK, Stages
<1>8. TaskInv(t)'
  BY <1>1, <1>2, <1>4
     DEF TaskInv, CallFits, LockHeld, TxFits, Answered, InTransaction, Writing, NoTx
<1>9. ASSUME NEW u \in Tasks \ {t} PROVE TaskInv(u)'
  <2>1. stage[u] \in Writing \/ tx[u].version # None => Key(u) \in Keys
    BY CallTypes DEF IInv, TaskInv, CallFits, LockHeld, Writing, InTransaction, NoTx
  <2> QED BY <2>1, <1>1, <1>4, <1>6, Undisturbed DEF IInv
<1>10. RowsHaveOneSource'
  <2> SUFFICES ASSUME NEW key \in Keys, NEW u \in Tasks,
                      versions'[key] # None, versions'[key].id = u
               PROVE  RowFrom(u, key)'
    BY DEF RowsHaveOneSource
  <2>1. RowFrom(u, key) /\ u # t /\ SameExceptYank(versions[key], versions'[key])
    BY <1>2, <1>6 DEF IInv, RowsHaveOneSource, RowFrom
  <2>2. call'[u] = call[u] /\ stage'[u] = stage[u] /\ result'[u] = result[u]
    BY <2>1, <1>1, <1>4
  <2>3. SameExceptYank(versions'[key], NewVersion(u)')
    BY <2>1, <1>5 DEF RowFrom, SameExceptYank
  <2> QED BY <2>1, <2>2, <2>3, <1>5 DEF RowFrom
<1>11. TablesAgree'
  <2>1. \A k \in Skills, v \in Versions : <<k, v>> \in Keys
    BY DEF Keys
  <2>2. \A k \in Skills : skills[k] # None => skills[k].latest \in Versions
    BY DEF IInv, TypeOK, SkillRow
  <2> QED BY <1>1, <1>6, <2>1, <2>2 DEF IInv, TablesAgree, Abstract!TablesAgree
<1>12. \A u \in Tasks : stage[u] # "idle" => Key(u) \in Keys
  BY CallTypes DEF IInv, TaskInv, CallFits
<1>13. OkMeansStored'
  <2> SUFFICES ASSUME NEW u \in Tasks, result'[u].status = "ok"
               PROVE  /\ versions'[Key(u)] # None
                      /\ call'[u].op = "insert" =>
                           /\ result'[u].record.digest = call'[u].digest
                           /\ SameExceptYank(result'[u].record, versions'[Key(u)])
    BY <1>5 DEF OkMeansStored
  <2>1. CASE u = t
    BY <2>1, <1>1, <1>2, <1>3, <1>6
  <2>2. CASE u # t
    <3>1. result[u].status = "ok" /\ Key(u) \in Keys
      BY <2>2, <1>4, <1>12 DEF IInv, TaskInv, Answered
    <3> QED BY <2>2, <3>1, <1>1, <1>4, <1>6 DEF IInv, OkMeansStored, SameExceptYank
  <2> QED BY <2>1, <2>2
<1>14. ConflictIsReal'
  <2> SUFFICES ASSUME NEW u \in Tasks, result'[u].status = "conflict"
               PROVE  versions'[Key(u)] # None /\ versions'[Key(u)].digest # call'[u].digest
    BY <1>5 DEF ConflictIsReal
  <2>1. u # t /\ result[u].status = "conflict" /\ Key(u) \in Keys
    BY <1>4, <1>12 DEF IInv, TaskInv, Answered, Sendable
  <2> QED BY <2>1, <1>1, <1>6 DEF IInv, ConflictIsReal
<1> QED BY <1>7, <1>8, <1>9, <1>10, <1>11, <1>13, <1>14 DEF IInv

LEMMA ExecuteStep ==
    ASSUME IInv, NEW t \in Tasks, Execute(t) PROVE IInv'
<1>1. /\ stage[t] = "execute" /\ stage' = [stage EXCEPT ![t] = "done"]
      /\ pool' \in SUBSET Tasks /\ UNCHANGED <<lock, call, tx>>
  BY DEF Execute, Goto, IInv, TypeOK
<1>2. CASE versions[Key(t)] # None
  <2>1. Return(t, "ok", None) /\ Update(t) /\ Goto(t, "done")
    BY <1>2 DEF Execute
  <2>2. CASE Awaited(t)
    BY <1>1, <1>2, <2>1, <2>2, MarkStep DEF Return
  <2>3. CASE ~Awaited(t)
    <3>1. /\ result[t].status \in Failures
          /\ result[t].record \in VersionRow \cup {None}
          /\ Answer(t, result[t].status, result[t].record)
      BY <1>1, <2>1, <2>3, Unawaited DEF Return, Sendable
    <3> QED BY <1>1, <1>2, <2>1, <3>1, MarkStep
  <2> QED BY <2>2, <2>3
<1>3. CASE versions[Key(t)] = None
  <2>1. Return(t, "notfound", None) /\ UNCHANGED <<skills, versions>>
    BY <1>3 DEF Execute
  <2>2. /\ call[t] \in Calls /\ tx[t] = NoTx
        /\ \A k \in Skills : lock[k] # t
    BY <1>1 DEF IInv, TypeOK, TaskInv, CallFits, LockHeld, InTransaction
  <2>3. /\ result' \in [Tasks -> [status : Statuses, record : VersionRow \cup {None}]]
        /\ \A u \in Tasks \ {t} : result'[u] = result[u]
        /\ result'[t].status \notin {"pending", "ok", "conflict"}
    <3>1. CASE Awaited(t)
      BY <2>1, <3>1 DEF Return, Answer, IInv, TypeOK, Statuses
    <3>2. CASE ~Awaited(t)
      BY <1>1, <2>1, <3>2, Unawaited DEF Return, IInv, TypeOK, Sendable
    <3> QED BY <3>1, <3>2
  <2>4. stage'[t] = "done" /\ \A u \in Tasks \ {t} : stage'[u] = stage[u]
    BY <1>1 DEF IInv, TypeOK
  <2>5. TypeOK'
    BY <1>1, <2>1, <2>3 DEF IInv, TypeOK, Stages
  <2>6. TaskInv(t)'
    BY <1>1, <2>1, <2>2, <2>3, <2>4
       DEF TaskInv, CallFits, LockHeld, TxFits, Answered, InTransaction, Writing, NoTx
  <2> QED BY <1>1, <2>1, <2>3, <2>4, <2>5, <2>6, QuietStep DEF IInv, TypeOK
<1> QED BY <1>2, <1>3

LEMMA ExecuteUnacknowledgedStep ==
    ASSUME IInv, NEW t \in Tasks, NEW failure \in Failures, ExecuteUnacknowledged(t, failure)
    PROVE  IInv'
<1>1. pool' \in SUBSET Tasks
  BY DEF ExecuteUnacknowledged, IInv, TypeOK
<1> QED BY <1>1, MarkStep DEF ExecuteUnacknowledged

LEMMA CrashStep == ASSUME IInv, Crash PROVE IInv'
<1>1. UNCHANGED <<skills, versions, lock, call, tx>> /\ pool' = {}
  BY DEF Crash
<1>2. ASSUME NEW u \in Tasks
      PROVE  /\ stage[u] = "acquire" => stage'[u] = "done"
             /\ stage[u] \in {"select", "insert", "latest"} => stage'[u] = "rollback"
             /\ stage[u] \notin {"acquire", "select", "insert", "latest"} => stage'[u] = stage[u]
             /\ Awaited(u) => result'[u] = [status |-> "abandoned", record |-> None]
             /\ ~Awaited(u) => result'[u] = result[u]
  BY DEF Crash
<1>3. \A u \in Tasks : /\ Key(u)' = Key(u) /\ NewVersion(u)' = NewVersion(u)
                       /\ Upserted(u)' = Upserted(u)
  BY <1>1 DEF Key, NewVersion, Upserted
<1>4. TypeOK'
  <2>1. stage' \in [Tasks -> Stages]
    BY <1>2 DEF Crash, IInv, TypeOK, Stages, InTransaction
  <2>2. result' \in [Tasks -> [status : Statuses, record : VersionRow \cup {None}]]
    BY <1>2 DEF Crash, IInv, TypeOK, Statuses, Failures
  <2> QED BY <1>1, <2>1, <2>2 DEF IInv, TypeOK
<1>5. ASSUME NEW u \in Tasks PROVE TaskInv(u)'
  <2>1. stage[u] \in Stages /\ TaskInv(u)
    BY DEF IInv, TypeOK
  <2>2. CASE stage[u] \in {"idle", "rollback", "done"}
    <3>1. stage'[u] = stage[u] /\ result'[u] = result[u]
      BY <1>2, <2>1, <2>2 DEF TaskInv, Answered, Awaited
    <3> QED BY <1>1, <1>3, <2>1, <2>2, <3>1
            DEF TaskInv, CallFits, LockHeld, TxFits, Answered
  <2>3. CASE stage[u] = "acquire"
    <3>1. stage'[u] = "done" /\ result'[u].status = "abandoned"
      BY <1>2, <2>1, <2>3 DEF TaskInv, Answered, Awaited, Sendable
    <3> QED BY <1>1, <1>3, <2>1, <2>3, <3>1
            DEF TaskInv, CallFits, LockHeld, TxFits, Answered, InTransaction, Writing
  <2>4. CASE stage[u] \in {"select", "insert", "latest"}
    <3>1. stage'[u] = "rollback" /\ result'[u].status = "abandoned"
      BY <1>2, <2>1, <2>4 DEF TaskInv, Answered, Awaited, Sendable
    <3> QED BY <1>1, <1>3, <2>1, <2>4, <3>1
            DEF TaskInv, CallFits, LockHeld, TxFits, Answered, InTransaction, Writing
  <2>5. CASE stage[u] \in Sendable
    <3>1. stage'[u] = stage[u] /\ result'[u].status \in Failures
      BY <1>2, <2>1, <2>5, Unawaited DEF Sendable, Failures
    <3> QED BY <1>1, <1>3, <2>1, <2>5, <3>1
            DEF TaskInv, CallFits, LockHeld, TxFits, Answered, Sendable, Failures
  <2> QED BY <2>1, <2>2, <2>3, <2>4, <2>5 DEF Stages, InTransaction, Sendable
<1>6. RowsHaveOneSource'
  <2> SUFFICES ASSUME NEW key \in Keys, NEW u \in Tasks,
                      versions[key] # None, versions[key].id = u
               PROVE  RowFrom(u, key)'
    BY <1>1 DEF RowsHaveOneSource
  <2>1. RowFrom(u, key) /\ stage'[u] = "done" /\ result'[u] = result[u]
    BY <1>2 DEF IInv, RowsHaveOneSource, RowFrom, TaskInv, Answered, Awaited
  <2> QED BY <2>1, <1>1, <1>3 DEF RowFrom
<1>7. TablesAgree'
  BY <1>1 DEF IInv, TablesAgree, Abstract!TablesAgree
<1>8. \A u \in Tasks : result'[u].status \in {"ok", "conflict"} => result'[u] = result[u]
  BY <1>2
<1>9. OkMeansStored' /\ ConflictIsReal'
  BY <1>1, <1>3, <1>8 DEF IInv, OkMeansStored, ConflictIsReal
<1> QED BY <1>4, <1>5, <1>6, <1>7, <1>9 DEF IInv

LEMMA Initially == Init => IInv
<1> SUFFICES ASSUME Init PROVE IInv
  OBVIOUS
<1>1. TypeOK
  BY NoTxType DEF Init, TypeOK, Stages, Statuses
<1>2. \A t \in Tasks : TaskInv(t)
  BY NoneIsNoRow
     DEF Init, TaskInv, CallFits, LockHeld, TxFits, Answered, InTransaction, Writing, NoTx
<1>3. RowsHaveOneSource /\ OkMeansStored /\ ConflictIsReal
  BY DEF Init, RowsHaveOneSource, OkMeansStored, ConflictIsReal
<1>4. TablesAgree
  BY DEF Init, TablesAgree, Abstract!TablesAgree, Keys
<1> QED BY <1>1, <1>2, <1>3, <1>4 DEF IInv

LEMMA StutterStep == ASSUME IInv, UNCHANGED vars PROVE IInv'
<1>1. UNCHANGED <<skills, versions, lock, stage, pool, call, tx, result>>
  BY DEF vars
<1>2. TypeOK' /\ TablesAgree'
  BY <1>1 DEF IInv, TypeOK, TablesAgree, Abstract!TablesAgree
<1>3. \A t \in Tasks : TaskInv(t)'
  <2>1. ASSUME NEW t \in Tasks PROVE TaskInv(t)'
    BY <1>1, Undisturbed DEF IInv, SameExceptYank
  <2> QED BY <2>1
<1>4. \A t \in Tasks : Key(t)' = Key(t) /\ NewVersion(t)' = NewVersion(t)
  BY <1>1 DEF Key, NewVersion
<1>5. RowsHaveOneSource' /\ OkMeansStored' /\ ConflictIsReal'
  BY <1>1, <1>4 DEF IInv, RowsHaveOneSource, RowFrom, OkMeansStored, ConflictIsReal
<1> QED BY <1>2, <1>3, <1>5 DEF IInv

LEMMA Inductive == IInv /\ [Next]_vars => IInv'
<1> SUFFICES ASSUME IInv, [Next]_vars PROVE IInv'
  OBVIOUS
<1>1. ASSUME NEW t \in Tasks, NEW c \in Calls, Call(t, c) PROVE IInv'
  BY <1>1, CallStep
<1>2. ASSUME NEW t \in Tasks, Progress(t) PROVE IInv'
  BY <1>2, AcquireStep, UpsertSkillStep, SelectVersionStep, InsertVersionStep,
     UpdateLatestStep, CommitStep, RollbackStep, ExecuteStep DEF Progress
<1>3. ASSUME NEW t \in Tasks, NEW failure \in Failures, Trouble(t, failure) PROVE IInv'
  BY <1>3, CommitUnacknowledgedStep, ExecuteUnacknowledgedStep, FailStep DEF Trouble
<1>4. CASE Crash
  BY <1>4, CrashStep
<1>5. CASE Finished \/ UNCHANGED vars
  BY <1>5, StutterStep DEF Finished
<1>6. ASSUME NEW t \in Tasks, Vanish(t) PROVE IInv'
  BY <1>6, VanishStep
<1> QED BY <1>1, <1>2, <1>3, <1>4, <1>5, <1>6 DEF Next, Step

-----------------------------------------------------------------------------
(* Theorems                                                                *)

(* Every reachable state satisfies the inductive invariant: type           *)
(* correctness, the lock discipline, what the uncommitted writes rely on,  *)
(* and the properties below.                                               *)
THEOREM Invariance == Spec => []IInv
BY Initially, Inductive, PTL DEF Spec

(* Type correctness.                                                       *)
THEOREM TypeCorrect == Spec => []TypeOK
<1>1. IInv => TypeOK
  BY DEF IInv
<1> QED BY <1>1, Invariance, PTL

(* Writers of one skill are serialised by the lock its upsert takes, and   *)
(* its holder waits for nobody.                                            *)
THEOREM Serialised == Spec => []OneWriterPerSkill
<1>1. IInv => OneWriterPerSkill
  BY DEF IInv, OneWriterPerSkill, TaskInv, LockHeld
<1> QED BY <1>1, Invariance, PTL

(* No row can appear between the SELECT that found none and the commit of  *)
(* the INSERT: the rows_affected() == 0 branch of insert_version is dead.  *)
THEOREM NoPhantom == Spec => []NoRowAppears
<1>1. IInv => NoRowAppears
  BY DEF IInv, NoRowAppears, TaskInv, TxFits
<1> QED BY <1>1, Invariance, PTL

(* An ok answer of insert_version describes the stored row, for the writer *)
(* of the row and for everybody who published the same digest again.       *)
THEOREM Durable == Spec => []OkMeansStored
<1>1. IInv => OkMeansStored
  BY DEF IInv
<1> QED BY <1>1, Invariance, PTL

(* A conflict is only reported against a committed row.                    *)
THEOREM Justified == Spec => []ConflictIsReal
<1>1. IInv => ConflictIsReal
  BY DEF IInv
<1> QED BY <1>1, Invariance, PTL

(* Every committed row carries what the call that drew its id passed, and  *)
(* that call was not refused.                                              *)
THEOREM Provenance == Spec => []RowsHaveOneSource
<1>1. IInv => RowsHaveOneSource
  BY DEF IInv
<1> QED BY <1>1, Invariance, PTL

(* The two tables agree in every committed state.                          *)
THEOREM Agreement == Spec => []TablesAgree
<1>1. IInv => TablesAgree
  BY DEF IInv
<1> QED BY <1>1, Invariance, PTL

(* Commits and updates are Registry's operations, and no other step        *)
(* touches the tables.                                                     *)
LEMMA InstallPublishes ==
    ASSUME IInv, NEW t \in Tasks, stage[t] = "commit", Install(t)
    PROVE  [Abstract!Next]_(Abstract!vars)
<1>1. CASE skills' = skills /\ versions' = versions
  BY <1>1 DEF Abstract!vars
<1>2. CASE /\ versions[Key(t)] = None
           /\ versions' = [versions EXCEPT ![Key(t)] = NewVersion(t)]
           /\ skills' = [skills EXCEPT ![call[t].skill] =
                           Abstract!SkillAfter(@, call[t].visibility, call[t].version)]
  <2>1. /\ call[t].skill \in Skills /\ call[t].version \in Versions
        /\ call[t] \in InsertCall /\ NewVersion(t) \in VersionRow
    BY InstallCases, CallTypes DEF IInv
  <2>2. call[t].visibility \in Visibilities /\ NewVersion(t) \in Abstract!NewRow
    BY <2>1 DEF InsertCall, NewVersion, Abstract!NewRow
  <2>3. Abstract!Fresh(NewVersion(t).id)
    <3>1. ASSUME NEW key \in Abstract!Keys, versions[key] # None, versions[key].id = t
          PROVE  FALSE
      <4>1. key \in Keys
        BY DEF Abstract!Keys, Keys
      <4>2. RowFrom(t, key)
        BY <3>1, <4>1 DEF IInv, RowsHaveOneSource
      <4> QED BY <4>2 DEF RowFrom
    <3> QED BY <3>1 DEF Abstract!Fresh, NewVersion
  <2>4. Abstract!Publish(call[t].skill, call[t].version, call[t].visibility, NewVersion(t))
    BY <1>2, <2>3 DEF Abstract!Publish, Key
  <2> QED BY <2>1, <2>2, <2>4 DEF Abstract!Next
<1> QED BY <1>1, <1>2, InstallCases

LEMMA UpdateMarks ==
    ASSUME IInv, NEW t \in Tasks, stage[t] = "execute", versions[Key(t)] # None, Update(t)
    PROVE  Abstract!Next
<1>1. /\ call[t].skill \in Skills /\ call[t].version \in Versions
      /\ call[t].mark \in Reasons \cup {None}
  BY CallTypes DEF IInv, TaskInv, CallFits
<1>2. Abstract!Mark(call[t].skill, call[t].version, call[t].mark)
  BY DEF Update, Key, Abstract!Mark
<1> QED BY <1>1, <1>2 DEF Abstract!Next

LEMMA StepRefines == IInv /\ [Next]_vars => [Abstract!Next]_(Abstract!vars)
<1> SUFFICES ASSUME IInv, [Next]_vars PROVE [Abstract!Next]_(Abstract!vars)
  OBVIOUS
<1>1. ASSUME NEW t \in Tasks, NEW c \in Calls, Call(t, c)
      PROVE  UNCHANGED <<skills, versions>>
  BY <1>1 DEF Call
<1>2. ASSUME NEW t \in Tasks, Progress(t) PROVE [Abstract!Next]_(Abstract!vars)
  <2>1. CASE Acquire(t) \/ UpsertSkill(t) \/ SelectVersion(t) \/ InsertVersion(t)
             \/ UpdateLatest(t) \/ Rollback(t)
    BY <2>1 DEF Acquire, UpsertSkill, SelectVersion, InsertVersion, UpdateLatest, Rollback,
                Abstract!vars
  <2>2. CASE Commit(t)
    BY <2>2, InstallPublishes DEF Commit
  <2>3. CASE Execute(t)
    <3>1. \/ UNCHANGED <<skills, versions>>
          \/ stage[t] = "execute" /\ versions[Key(t)] # None /\ Update(t)
      BY <2>3 DEF Execute
    <3> QED BY <3>1, UpdateMarks DEF Abstract!vars
  <2> QED BY <1>2, <2>1, <2>2, <2>3 DEF Progress
<1>3. ASSUME NEW t \in Tasks, NEW failure \in Failures, Trouble(t, failure)
      PROVE  [Abstract!Next]_(Abstract!vars)
  <2>1. CASE CommitUnacknowledged(t, failure)
    BY <2>1, InstallPublishes DEF CommitUnacknowledged
  <2>2. CASE ExecuteUnacknowledged(t, failure)
    BY <2>2, UpdateMarks DEF ExecuteUnacknowledged
  <2>3. CASE Fail(t, failure)
    BY <2>3 DEF Fail, Abstract!vars
  <2> QED BY <1>3, <2>1, <2>2, <2>3 DEF Trouble
<1>4. CASE Crash \/ Finished \/ UNCHANGED vars
  BY <1>4 DEF Crash, Finished, vars, Abstract!vars
<1>5. ASSUME NEW t \in Tasks, Vanish(t) PROVE UNCHANGED <<skills, versions>>
  BY <1>5 DEF Vanish
<1> QED BY <1>1, <1>2, <1>3, <1>4, <1>5 DEF Next, Step, Abstract!vars

(* The transactions, under every interleaving, failure and crash,          *)
(* implement the one-step operations of Registry.                          *)
THEOREM Refinement == Spec => ImplementsRegistry
<1>1. Init => Abstract!Init
  BY DEF Init, Abstract!Init, Keys, Abstract!Keys
<1> QED BY <1>1, StepRefines, Invariance, PTL DEF Spec, ImplementsRegistry, Abstract!Spec

(* A published version is final, and a skill keeps its first visibility.   *)
THEOREM Finality == Spec => PublicationsAreFinal
<1>1. IInv /\ [Next]_vars => [Abstract!Final]_vars
  <2> SUFFICES ASSUME IInv, [Next]_vars PROVE [Abstract!Final]_vars
    OBVIOUS
  <2>1. Abstract!Keys = Keys
    BY DEF Abstract!Keys, Keys
  <2>2. CASE UNCHANGED <<skills, versions>>
    BY <2>2 DEF Abstract!Final
  <2>3. CASE Abstract!Next
    <3>1. ASSUME NEW k \in Skills, NEW v \in Versions, NEW visibility \in Visibilities,
                 NEW row \in Abstract!NewRow, Abstract!Publish(k, v, visibility, row)
          PROVE  Abstract!Final
      <4>1. skills[k] # None =>
               /\ Abstract!SkillAfter(skills[k], visibility, v) # None
               /\ Abstract!SkillAfter(skills[k], visibility, v).visibility
                    = skills[k].visibility
        BY NoneIsNoRow DEF IInv, TypeOK, SkillRow, Abstract!SkillAfter
      <4> QED BY <2>1, <3>1, <4>1 DEF IInv, TypeOK, Keys, Abstract!Publish, Abstract!Final
    <3>2. ASSUME NEW k \in Skills, NEW v \in Versions, NEW mark \in Reasons \cup {None},
                 Abstract!Mark(k, v, mark)
          PROVE  Abstract!Final
      <4>1. /\ [versions[<<k, v>>] EXCEPT !.yank = mark] # None
            /\ [[versions[<<k, v>>] EXCEPT !.yank = mark] EXCEPT !.yank = None]
                 = [versions[<<k, v>>] EXCEPT !.yank = None]
        BY <3>2, NoneIsNoRow DEF IInv, TypeOK, Keys, VersionRow, Abstract!Mark
      <4> QED BY <2>1, <3>2, <4>1 DEF IInv, TypeOK, Keys, Abstract!Mark, Abstract!Final
    <3> QED BY <2>3, <3>1, <3>2 DEF Abstract!Next
  <2> QED BY <2>2, <2>3, StepRefines DEF Abstract!vars
<1> QED BY <1>1, Invariance, PTL DEF Spec, PublicationsAreFinal

-----------------------------------------------------------------------------
(* Each call takes effect at one moment.                                   *)

(* What a transaction has found and will return, once it has.              *)
MetBy(t) == IF Reading(t) /\ Awaited(t) THEN [status |-> "ok", record |-> tx[t].record]
                                        ELSE Atomic!Unknown
DueBy(t) == stage[t] \notin {"idle", "rollback", "done"} /\ ~Reading(t)

(* A step of one task leaves the others what they had.                     *)
Alone(t) == \A u \in Tasks \ {t} :
              stage'[u] = stage[u] /\ tx'[u] = tx[u] /\ result'[u] = result[u]

(* What a step of one task does to Met and Due.                            *)
LEMMA MetOfOne ==
    ASSUME NEW t \in Tasks, Alone(t)
    PROVE  /\ Met' = [Met EXCEPT ![t] = MetBy(t)'] /\ Met[t] = MetBy(t)
           /\ MetBy(t)' = MetBy(t) => Met' = Met
           /\ t \in Due <=> DueBy(t)
           /\ DueBy(t)' /\ DueBy(t) => Due' = Due
           /\ ~DueBy(t)' /\ ~DueBy(t) => Due' = Due
           /\ ~DueBy(t)' => Due' = Due \ {t}
           /\ DueBy(t)' => Due' = Due \cup {t}
<1>1. \A u \in Tasks \ {t} : /\ (Reading(u) /\ Awaited(u))' <=> Reading(u) /\ Awaited(u)
                             /\ DueBy(u)' <=> DueBy(u)
  BY DEF Alone, Reading, Awaited, DueBy
<1>2. Met = [u \in Tasks |-> MetBy(u)] /\ Met' = [u \in Tasks |-> MetBy(u)']
  BY DEF Met, MetBy, Atomic!Unknown
<1>3. \A u \in Tasks \ {t} : MetBy(u)' = MetBy(u)
  BY <1>1 DEF Alone, MetBy, Atomic!Unknown
<1>4. Met' = [Met EXCEPT ![t] = MetBy(t)'] /\ Met[t] = MetBy(t)
  BY <1>2, <1>3
<1>5. MetBy(t)' = MetBy(t) => Met' = Met
  BY <1>2, <1>3
<1>6. Due = {u \in Tasks : DueBy(u)} /\ Due' = {u \in Tasks : DueBy(u)'}
  BY DEF Due, DueBy
<1> HIDE DEF MetBy, DueBy, Met, Due
<1> QED BY <1>1, <1>4, <1>5, <1>6

(* A call that is on its way; it is open as long as somebody waits for it. *)
LEMMA OpenCall ==
    ASSUME IInv, NEW t \in Tasks, stage[t] \notin {"idle", "rollback", "done"}
    PROVE  /\ call[t] \in Calls
           /\ Atomic!Open(t) <=> Awaited(t)
           /\ ~Reading(t) => t \in Due /\ Met[t] = Atomic!Unknown
           /\ ~Reading(t) => (Atomic!Asking(t) <=> Awaited(t))
<1>1. call[t] \in Calls
  BY DEF IInv, TaskInv, CallFits
<1>2. Atomic!Open(t) <=> Awaited(t)
  BY <1>1, NoneIsNoRow DEF Atomic!Open, Awaited
<1>3. ~Reading(t) => t \in Due /\ Met[t] = Atomic!Unknown
  BY DEF Due, Met, Atomic!Unknown
<1> QED BY <1>1, <1>2, <1>3 DEF Atomic!Asking

(* A statement whose outcome the caller cannot see yet.                    *)
LEMMA Unseen ==
    ASSUME NEW t \in Tasks, UNCHANGED <<skills, versions, call, result>>, Alone(t),
           MetBy(t)' = MetBy(t), DueBy(t)' <=> DueBy(t)
    PROVE  UNCHANGED Atomic!vars
BY MetOfOne DEF Atomic!vars

(* An answer is the last a caller sees of its call.                        *)
LEMMA Answering ==
    ASSUME NEW t \in Tasks, NEW status, NEW record, Answer(t, status, record),
           Alone(t), MetBy(t)' = Atomic!Unknown
    PROVE  Atomic!Say(t, status, record)
BY MetOfOne DEF Atomic!Say, Answer

(* A statement that ends a call answers it, or finds nobody waiting.       *)
LEMMA Returning ==
    ASSUME IInv, NEW t \in Tasks, NEW status, NEW record, Return(t, status, record),
           stage[t] \notin {"idle", "rollback", "done"}, ~Reading(t),
           Alone(t), MetBy(t)' = Atomic!Unknown
    PROVE  Atomic!Find(t, status, record)
<1>1. Atomic!Asking(t) <=> Awaited(t)
  BY OpenCall
<1>2. CASE Awaited(t)
  BY <1>1, <1>2, Answering DEF Return, Atomic!Find
<1>3. CASE ~Awaited(t)
  <2>1. MetBy(t) = Atomic!Unknown
    BY <1>3 DEF MetBy
  <2>2. Met' = Met
    BY <2>1, MetOfOne
  <2> QED BY <1>1, <1>3, <2>2 DEF Return, Atomic!Find
<1> QED BY <1>2, <1>3

LEMMA CallIsAtomic ==
    ASSUME IInv, NEW t \in Tasks, NEW c \in Calls, Call(t, c)
    PROVE  Atomic!Invoke(t, c)
<1>1. /\ stage[t] = "idle" /\ stage'[t] = "acquire" /\ call[t] = None /\ Alone(t)
  BY DEF Call, Goto, IInv, TypeOK, TaskInv, CallFits, Alone
<1>2. Met' = Met /\ Due' = Due \cup {t}
  BY <1>1, MetOfOne DEF MetBy, DueBy, Reading
<1> QED BY <1>1, <1>2 DEF Atomic!Invoke, Call

(* The stored record is met by the SELECT, or by the read after the INSERT *)
(* that inserted nothing.                                                  *)
LEMMA SettleIsAtomic ==
    ASSUME IInv, NEW t \in Tasks, stage[t] \in {"select", "insert"},
           versions[Key(t)] # None, Settle(t, versions[Key(t)]),
           UNCHANGED <<skills, versions, call>>
    PROVE  Atomic!Act(t)
<1>1. ~Reading(t) /\ Awaited(t)
  BY DEF Reading, Awaited, IInv, TaskInv, Answered, Sendable
<1>2. /\ t \in Due /\ Atomic!Asking(t) /\ Met[t] = Atomic!Unknown /\ Atomic!Key(t) = Key(t)
  BY <1>1, OpenCall DEF Atomic!Key, Key
<1>3. /\ stage \in [Tasks -> Stages] /\ tx \in [Tasks -> Transaction]
      /\ call[t].op = "insert" /\ tx[t].version = None
  BY DEF IInv, TypeOK, TaskInv, CallFits, TxFits, InTransaction
<1>4. CASE /\ versions[Key(t)].digest # call[t].digest
           /\ Goto(t, "rollback") /\ Answer(t, "conflict", None) /\ UNCHANGED tx
  <2>1. Alone(t) /\ stage'[t] = "rollback"
    BY <1>3, <1>4 DEF Goto, Answer, Alone
  <2>2. Atomic!Find(t, "conflict", None)
    BY <1>2, <1>4, <2>1, Answering DEF MetBy, Reading, Atomic!Find
  <2>3. Due' = Due \ {t}
    BY <2>1, MetOfOne DEF DueBy
  <2>4. Atomic!Refuse(t)
    BY <1>2, <1>3, <1>4, <2>2, <2>3 DEF Atomic!Refuse, Atomic!Moment
  <2> QED BY <2>4 DEF Atomic!Act
<1>5. CASE /\ versions[Key(t)].digest = call[t].digest
           /\ Goto(t, "commit") /\ tx' = [tx EXCEPT ![t].record = versions[Key(t)]]
           /\ UNCHANGED result
  <2>1. /\ stage'[t] = "commit" /\ tx'[t].version = None /\ tx'[t].record = versions[Key(t)]
        /\ Alone(t)
    BY <1>3, <1>5 DEF Goto, Transaction, Alone
  <2>2. Reading(t)' /\ Awaited(t)'
    BY <1>1, <1>5, <2>1 DEF Reading, Awaited
  <2>3. Met' = [Met EXCEPT ![t] = [status |-> "ok", record |-> versions[Key(t)]]]
    BY <2>1, <2>2, MetOfOne DEF MetBy
  <2>4. Due' = Due \ {t}
    BY <2>1, <2>2, MetOfOne DEF DueBy
  <2>5. Atomic!Find(t, "ok", versions[Key(t)])
    BY <1>2, <1>5, <2>3 DEF Atomic!Find, Atomic!Say
  <2>6. Atomic!Meet(t)
    BY <1>2, <1>3, <1>5, <2>4, <2>5 DEF Atomic!Meet, Atomic!Moment
  <2> QED BY <2>6 DEF Atomic!Act
<1> QED BY <1>4, <1>5 DEF Settle

LEMMA SelectVersionIsAtomic ==
    ASSUME IInv, NEW t \in Tasks, SelectVersion(t)
    PROVE  Atomic!Act(t) \/ UNCHANGED Atomic!vars
<1>1. CASE versions[Key(t)] # None
  BY <1>1, SettleIsAtomic DEF SelectVersion
<1>2. CASE versions[Key(t)] = None
  <2>1. Alone(t) /\ stage[t] = "select" /\ stage'[t] = "insert"
    BY <1>2 DEF SelectVersion, Goto, Alone, IInv, TypeOK
  <2> QED BY <1>2, <2>1, Unseen DEF SelectVersion, MetBy, DueBy, Reading
<1> QED BY <1>1, <1>2

LEMMA InsertVersionIsAtomic ==
    ASSUME IInv, NEW t \in Tasks, InsertVersion(t)
    PROVE  Atomic!Act(t) \/ UNCHANGED Atomic!vars
<1>1. CASE versions[Key(t)] # None
  BY <1>1, SettleIsAtomic DEF InsertVersion
<1>2. CASE versions[Key(t)] = None
  <2>1. Alone(t) /\ stage[t] = "insert" /\ stage'[t] = "latest"
    BY <1>2 DEF InsertVersion, Goto, Alone, IInv, TypeOK
  <2> QED BY <1>2, <2>1, Unseen DEF InsertVersion, MetBy, DueBy, Reading
<1> QED BY <1>1, <1>2

(* The moment of a call that inserts is its COMMIT, early or late; one     *)
(* that met a stored record only returns it there.                         *)
LEMMA CommitIsAtomic ==
    ASSUME IInv, NEW t \in Tasks, stage[t] = "commit", Install(t), UNCHANGED call,
           \/ Return(t, "ok", tx[t].record)
           \/ Awaited(t) /\ \E failure \in Failures : Answer(t, failure, None)
    PROVE  Atomic!Act(t) \/ UNCHANGED Atomic!vars
<1>1. (Atomic!Open(t) <=> Awaited(t)) /\ call[t] \in Calls
  BY OpenCall
<1>2. Alone(t) /\ stage'[t] = "done"
  BY DEF IInv, TypeOK, Install, Release, Goto, Return, Answer, Alone
<1>3. /\ MetBy(t)' = Atomic!Unknown /\ ~DueBy(t)' /\ Due' = Due \ {t} /\ Met[t] = MetBy(t)
  BY <1>2, MetOfOne DEF MetBy, DueBy, Reading
<1>4. CASE /\ versions[Key(t)] = None
           /\ versions' = [versions EXCEPT ![Key(t)] = NewVersion(t)]
           /\ skills' = [skills EXCEPT ![call[t].skill] =
                           Abstract!SkillAfter(@, call[t].visibility, call[t].version)]
           /\ tx[t].version # None /\ tx[t].record = NewVersion(t)
  <2>1. ~Reading(t) /\ t \in Due /\ call[t].op = "insert"
    BY <1>4, OpenCall, InstallCases DEF Reading
  <2>2. \A key \in Keys : versions[key] # None => versions[key].id # t
    BY DEF IInv, RowsHaveOneSource, RowFrom
  <2>3. Atomic!RowOf(t) = NewVersion(t) /\ NewVersion(t).id = t
    BY DEF Atomic!RowOf, NewVersion
  <2>4. Atomic!Tables!Publish(call[t].skill, call[t].version, call[t].visibility, NewVersion(t))
    BY <1>4, <2>2, <2>3
       DEF Atomic!Tables!Publish, Atomic!Tables!Fresh, Atomic!Tables!SkillAfter,
           Atomic!Tables!Keys, Keys, Key, Abstract!SkillAfter
  <2>5. Atomic!Acknowledge(t, NewVersion(t))
    <3>1. CASE Return(t, "ok", tx[t].record)
      BY <1>2, <1>3, <1>4, <2>1, <3>1, Returning DEF Atomic!Acknowledge
    <3>2. ASSUME NEW failure \in Failures, Awaited(t), Answer(t, failure, None)
          PROVE  Atomic!Find(t, failure, None)
      BY <1>2, <1>3, <2>1, <3>2, OpenCall, Answering DEF Atomic!Find
    <3> QED BY <3>1, <3>2 DEF Atomic!Acknowledge, Failures
  <2>6. Atomic!Moment(t, "insert")
    BY <1>3, <2>1 DEF Atomic!Moment
  <2>7. Atomic!Insert(t)
    BY <2>3, <2>4, <2>5, <2>6 DEF Atomic!Insert
  <2> QED BY <2>7 DEF Atomic!Act
<1>5. CASE /\ skills' = skills /\ versions' = versions /\ tx[t].version = None
  <2>1. Reading(t) /\ Due' = Due
    BY <1>2, <1>3, <1>5, MetOfOne DEF Reading, DueBy
  <2>2. CASE Awaited(t) /\ Return(t, "ok", tx[t].record)
    <3>1. Met[t] = [status |-> "ok", record |-> tx[t].record]
      BY <1>3, <2>1, <2>2 DEF MetBy
    <3>2. Atomic!Say(t, "ok", tx[t].record)
      BY <1>2, <1>3, <2>2, Answering DEF Return
    <3>3. Atomic!Return(t)
      BY <1>1, <1>5, <2>1, <2>2, <3>1, <3>2 DEF Atomic!Return, Atomic!Unknown
    <3> QED BY <3>3 DEF Atomic!Act
  <2>3. CASE ~Awaited(t) /\ Return(t, "ok", tx[t].record)
    <3>1. MetBy(t)' = MetBy(t) /\ result' = result
      BY <1>3, <2>3 DEF MetBy, Return
    <3>2. Met' = Met
      BY <1>2, <3>1, MetOfOne
    <3> QED BY <1>5, <2>1, <3>1, <3>2 DEF Atomic!vars
  <2>4. ASSUME NEW failure \in Failures, Awaited(t), Answer(t, failure, None)
        PROVE  Atomic!Act(t)
    <3>1. Atomic!Say(t, failure, None)
      BY <1>2, <1>3, <2>4, Answering
    <3> QED BY <1>1, <1>5, <2>1, <2>4, <3>1 DEF Atomic!Act, Atomic!Spoil
  <2> QED BY <2>2, <2>3, <2>4
<1> QED BY <1>4, <1>5, InstallCases

(* A yank or unyank takes effect when its UPDATE commits, early or late.   *)
LEMMA ExecuteIsAtomic ==
    ASSUME IInv, NEW t \in Tasks, stage[t] = "execute", Goto(t, "done"), UNCHANGED <<call, tx>>,
           \/ /\ versions[Key(t)] = None /\ Return(t, "notfound", None)
              /\ UNCHANGED <<skills, versions>>
           \/ /\ versions[Key(t)] # None /\ Update(t)
              /\ \/ Return(t, "ok", None)
                 \/ Awaited(t) /\ \E failure \in Failures : Answer(t, failure, None)
    PROVE  Atomic!Act(t)
<1>1. ~Reading(t) /\ Atomic!Key(t) = Key(t)
  BY DEF Reading, Atomic!Key, Key
<1>2. Alone(t) /\ stage'[t] = "done"
  BY DEF Goto, IInv, TypeOK, Return, Answer, Alone
<1>3. MetBy(t)' = Atomic!Unknown
  BY <1>2 DEF MetBy, Reading
<1>4. Atomic!Moment(t, "mark")
  <2>1. call[t].op = "mark"
    BY DEF IInv, TaskInv, CallFits
  <2>2. t \in Due /\ Due' = Due \ {t}
    BY <1>1, <1>2, OpenCall, MetOfOne DEF DueBy
  <2> QED BY <2>1, <2>2 DEF Atomic!Moment
<1>5. CASE /\ versions[Key(t)] = None /\ Return(t, "notfound", None)
           /\ UNCHANGED <<skills, versions>>
  <2>1. Atomic!Find(t, "notfound", None)
    BY <1>1, <1>2, <1>3, <1>5, Returning
  <2>2. Atomic!Miss(t)
    BY <1>1, <1>4, <1>5, <2>1 DEF Atomic!Miss
  <2> QED BY <2>2 DEF Atomic!Act
<1>6. CASE /\ versions[Key(t)] # None /\ Update(t)
           /\ \/ Return(t, "ok", None)
              \/ Awaited(t) /\ \E failure \in Failures : Answer(t, failure, None)
  <2>1. Atomic!Tables!Mark(call[t].skill, call[t].version, call[t].mark)
    BY <1>6 DEF Atomic!Tables!Mark, Update, Key
  <2>2. Atomic!Acknowledge(t, None)
    <3>1. CASE Return(t, "ok", None)
      BY <1>1, <1>2, <1>3, <3>1, Returning DEF Atomic!Acknowledge
    <3>2. ASSUME NEW failure \in Failures, Awaited(t), Answer(t, failure, None)
          PROVE  Atomic!Find(t, failure, None)
      BY <1>1, <1>2, <1>3, <3>2, OpenCall, Answering DEF Atomic!Find
    <3> QED BY <1>6, <3>1, <3>2 DEF Atomic!Acknowledge, Failures
  <2>3. Atomic!Mark(t)
    BY <1>4, <2>1, <2>2 DEF Atomic!Mark
  <2> QED BY <2>3 DEF Atomic!Act
<1> QED BY <1>5, <1>6

(* The caller has its failure, and a statement may still be on its way.    *)
LEMMA FailIsAtomic ==
    ASSUME IInv, NEW t \in Tasks, NEW failure \in Failures, Fail(t, failure)
    PROVE  Atomic!Spoil(t)
<1>1. /\ stage[t] \notin {"idle", "rollback", "done"} /\ Awaited(t)
      /\ Answer(t, failure, None) /\ UNCHANGED <<skills, versions, call, tx>>
  BY DEF Fail, Awaited, IInv, TaskInv, Answered
<1>2. /\ Alone(t) /\ result'[t].status # "pending"
      /\ stage'[t] \in {"done", "rollback"} \/ stage'[t] = stage[t]
  <2>1. /\ \A u \in Tasks \ {t} : stage'[u] = stage[u]
        /\ stage'[t] \in {"done", "rollback"} \/ stage'[t] = stage[t]
    BY <1>1, CloseStage DEF Fail
  <2> QED BY <1>1, <2>1 DEF Answer, Alone, Failures, IInv, TypeOK
<1>3. Atomic!Say(t, failure, None)
  BY <1>1, <1>2, Answering DEF MetBy, Awaited
<1>4. Due' \in {Due, Due \ {t}}
  <2>1. CASE stage'[t] = stage[t]
    <3>1. DueBy(t)' <=> DueBy(t)
      BY <1>1, <2>1 DEF DueBy, Reading
    <3> QED BY <1>2, <3>1, MetOfOne
  <2>2. CASE stage'[t] \in {"done", "rollback"}
    BY <1>2, <2>2, MetOfOne DEF DueBy
  <2> QED BY <1>2, <2>1, <2>2
<1>5. Atomic!Open(t)
  BY <1>1, OpenCall
<1> QED BY <1>1, <1>3, <1>4, <1>5 DEF Atomic!Spoil

(* A statement nobody waits for comes to nothing.                          *)
LEMMA GivingUp ==
    ASSUME IInv, NEW t \in Tasks, stage[t] \in Sendable, ~Awaited(t),
           UNCHANGED <<skills, versions, call, result>>, Alone(t),
           stage'[t] \in {"rollback", "done"}
    PROVE  Atomic!Act(t) \/ UNCHANGED Atomic!vars
<1>1. MetBy(t)' = Atomic!Unknown /\ MetBy(t) = Atomic!Unknown /\ ~DueBy(t)'
  BY DEF MetBy, DueBy, Reading
<1>2. Met' = Met /\ Due' = Due \ {t}
  BY <1>1, MetOfOne
<1>3. CASE Reading(t)
  BY <1>1, <1>3, Unseen DEF DueBy
<1>4. CASE ~Reading(t)
  <2>1. t \in Due /\ ~Atomic!Asking(t)
    BY <1>4, OpenCall DEF Sendable
  <2> QED BY <1>2, <2>1 DEF Atomic!Act, Atomic!GiveUp
<1> QED BY <1>3, <1>4

LEMMA VanishIsAtomic ==
    ASSUME IInv, NEW t \in Tasks, Vanish(t)
    PROVE  Atomic!Act(t) \/ UNCHANGED Atomic!vars
<1>1. /\ stage[t] \in Sendable /\ ~Awaited(t) /\ stage[t] \notin {"idle", "rollback", "done"}
      /\ UNCHANGED <<skills, versions, call, tx, result>>
  BY DEF Vanish, Sendable
<1>2. Alone(t) /\ stage'[t] \in {"rollback", "done"}
  BY <1>1, CloseStage DEF Vanish, Alone
<1> QED BY <1>1, <1>2, GivingUp

(* The upsert is undone with the transaction nobody waits for.             *)
LEMMA UpsertSkillIsAtomic ==
    ASSUME IInv, NEW t \in Tasks, UpsertSkill(t)
    PROVE  Atomic!Act(t) \/ UNCHANGED Atomic!vars
<1>1. /\ stage[t] = "upsert" /\ stage'[t] = IF Awaited(t) THEN "select" ELSE "rollback"
      /\ Alone(t) /\ UNCHANGED <<skills, versions, call, result>>
  BY DEF UpsertSkill, Goto, Alone, IInv, TypeOK
<1>2. CASE Awaited(t)
  BY <1>1, <1>2, Unseen DEF MetBy, DueBy, Reading
<1>3. CASE ~Awaited(t)
  BY <1>1, <1>3, GivingUp DEF Sendable
<1> QED BY <1>2, <1>3

LEMMA QuietIsAtomic ==
    ASSUME IInv, NEW t \in Tasks, Acquire(t) \/ UpdateLatest(t) \/ Rollback(t)
    PROVE  UNCHANGED Atomic!vars
<1>1. UNCHANGED <<skills, versions, call, result>>
  BY DEF Acquire, UpdateLatest, Rollback
<1>2. Alone(t)
  BY DEF Acquire, UpdateLatest, Rollback, Release, Goto, Alone, IInv, TypeOK
<1>3. ~Reading(t) /\ ~Reading(t)' /\ (DueBy(t)' <=> DueBy(t))
  <2>1. CASE Acquire(t)
    BY <2>1 DEF Reading, DueBy, Acquire, Goto, IInv, TypeOK
  <2>2. CASE Rollback(t)
    BY <2>2 DEF Reading, DueBy, Rollback, Release, Goto, IInv, TypeOK
  <2>3. CASE UpdateLatest(t)
    <3>1. stage[t] = "latest" /\ tx[t].version = NewVersion(t)
      BY <2>3 DEF UpdateLatest, IInv, TaskInv, TxFits
    <3>2. NewVersion(t) # None
      BY <3>1, CallTypes, NoneIsNoRow DEF IInv, TaskInv, CallFits, InTransaction
    <3>3. stage'[t] = "commit" /\ tx'[t].version = tx[t].version
      BY <2>3 DEF UpdateLatest, Goto, IInv, TypeOK, Transaction
    <3> QED BY <3>1, <3>2, <3>3 DEF Reading, DueBy
  <2> QED BY <2>1, <2>2, <2>3
<1>4. MetBy(t)' = MetBy(t)
  BY <1>3 DEF MetBy, Atomic!Unknown
<1> QED BY <1>1, <1>2, <1>3, <1>4, Unseen

LEMMA TaskIsAtomic ==
    ASSUME IInv, NEW t \in Tasks, Step(t)
    PROVE  Atomic!Act(t) \/ UNCHANGED Atomic!vars
<1>1. CASE Progress(t)
  <2>1. CASE Commit(t)
    BY <2>1, CommitIsAtomic DEF Commit
  <2>2. CASE Execute(t)
    BY <2>2, ExecuteIsAtomic DEF Execute
  <2> QED BY <1>1, <2>1, <2>2, QuietIsAtomic, UpsertSkillIsAtomic, SelectVersionIsAtomic,
             InsertVersionIsAtomic DEF Progress
<1>2. ASSUME NEW failure \in Failures, Trouble(t, failure)
      PROVE  Atomic!Act(t) \/ UNCHANGED Atomic!vars
  BY <1>2, CommitIsAtomic, ExecuteIsAtomic, FailIsAtomic
     DEF Trouble, CommitUnacknowledged, ExecuteUnacknowledged, Atomic!Act
<1> QED BY <1>1, <1>2, VanishIsAtomic DEF Step

(* A crash drops every call that waits for an answer.                      *)
LEMMA CrashIsAtomic ==
    ASSUME IInv, Crash PROVE Atomic!Die("abandoned")
<1>1. \A t \in Tasks : Atomic!Open(t) <=> Awaited(t)
  BY NoneIsNoRow DEF IInv, TaskInv, CallFits, Atomic!Open, Awaited
<1>2. result' = [t \in Tasks |-> IF Atomic!Open(t) THEN [status |-> "abandoned", record |-> None]
                                                   ELSE result[t]]
  BY <1>1 DEF Crash
<1>3. ASSUME NEW t \in Tasks PROVE ~(Reading(t) /\ Awaited(t))'
  <2>1. stage'[t] = "commit" => stage[t] = "commit"
    BY DEF Crash, IInv, TypeOK
  <2>2. stage[t] = "commit" => result'[t].status # "pending"
    BY <1>1, <1>2 DEF Awaited
  <2> QED BY <2>1, <2>2 DEF Reading, Awaited
<1>4. Met' = [t \in Tasks |-> Atomic!Unknown]
  BY <1>3 DEF Met, Atomic!Unknown
<1>5. Due' \in SUBSET Due
  <2>1. ASSUME NEW t \in Tasks, DueBy(t)' PROVE DueBy(t)
    <3>1. stage'[t] \in {"done", "rollback"} \/ stage'[t] = stage[t]
      BY DEF Crash
    <3> QED BY <2>1, <3>1 DEF DueBy, Reading, Crash
  <2> QED BY <2>1 DEF Due, DueBy
<1> QED BY <1>2, <1>4, <1>5 DEF Atomic!Die, Crash

(* Every call of the repository is atomic towards its caller: what         *)
(* insert_version, yank_version and unyank_version answer is what one      *)
(* moment between the call and the answer found in the tables; and a call  *)
(* that failed has taken effect as a whole, or does so once after its      *)
(* failure, at one moment, when Postgres runs the COMMIT or UPDATE that    *)
(* was on its way, or never does.                                          *)
THEOREM AtomicRefinement == Spec => CallsAreAtomic
<1>1. Init => Atomic!Init
  BY DEF Init, Atomic!Init, Atomic!Unknown, Atomic!Tables!Init, Atomic!Tables!Keys, Keys, Met,
         Due, Reading
<1>2. IInv /\ [Next]_vars => [Atomic!Next]_(Atomic!vars)
  <2>1. UNCHANGED vars => UNCHANGED Atomic!vars
    BY DEF vars, Atomic!vars, Met, Due, Reading, Awaited
  <2> QED BY <2>1, CallIsAtomic, TaskIsAtomic, CrashIsAtomic
          DEF Next, Finished, Atomic!Next, Failures
<1>3. Spec => []IInv
  BY Invariance
<1> QED BY <1>1, <1>2, <1>3, PTL DEF Spec, CallsAreAtomic, Atomic!Spec

-----------------------------------------------------------------------------
(* What its callers have from that.                                        *)

AP == INSTANCE AtomicCallsProofs WITH outcome <- Met, due <- Due

LEMMA CallConstants == AP!Constants
  BY CallsAssumption, NoneAssumption
     DEF AP!Constants, AP!InsertCall, AP!MarkCall, AP!Findings, AP!RP!SkillRow, AP!RP!VersionRow,
         InsertCall, MarkCall, SkillRow, VersionRow, Failures

(* PgRepository and AtomicCallsProofs each instantiate AtomicCalls.        *)
LEMMA SameCalls == Atomic!Spec => AP!Spec
<1>1. Atomic!Init => AP!Init
  BY DEF Atomic!Init, AP!Init, Atomic!Unknown, AP!Unknown, Atomic!Tables!Init, AP!Tables!Init,
         Atomic!Tables!Keys, AP!Tables!Keys
<1>2. UNCHANGED Atomic!vars => UNCHANGED AP!vars
  BY DEF Atomic!vars, AP!vars
<1>3. Atomic!Next => AP!Next
  <2>0. ASSUME NEW t \in Tasks, NEW status, NEW record
        PROVE  /\ Atomic!Say(t, status, record) <=> AP!Say(t, status, record)
               /\ Atomic!Find(t, status, record) <=> AP!Find(t, status, record)
               /\ Atomic!Open(t) <=> AP!Open(t)
               /\ Atomic!Asking(t) <=> AP!Asking(t)
               /\ Atomic!Key(t) = AP!Key(t) /\ Atomic!RowOf(t) = AP!RowOf(t)
               /\ Atomic!Unknown = AP!Unknown
    BY DEF Atomic!Unknown, AP!Unknown, Atomic!Say, AP!Say, Atomic!Find, AP!Find, Atomic!Key, AP!Key,
           Atomic!RowOf, AP!RowOf, Atomic!Open, AP!Open, Atomic!Asking, AP!Asking
  <2> USE DEF Atomic!Moment, AP!Moment
  <2>1. ASSUME NEW t \in Tasks, Atomic!Insert(t) PROVE AP!Insert(t)
    BY <2>0, <2>1 DEF Atomic!Insert, AP!Insert, Atomic!Acknowledge, AP!Acknowledge,
                Atomic!Tables!Publish, AP!Tables!Publish, Atomic!Tables!Fresh, AP!Tables!Fresh,
                Atomic!Tables!Keys, AP!Tables!Keys,
                Atomic!Tables!SkillAfter, AP!Tables!SkillAfter
  <2>2. ASSUME NEW t \in Tasks, Atomic!Mark(t) PROVE AP!Mark(t)
    BY <2>0, <2>2 DEF Atomic!Mark, AP!Mark, Atomic!Acknowledge, AP!Acknowledge,
                Atomic!Tables!Mark, AP!Tables!Mark
  <2>3. ASSUME NEW t \in Tasks, Atomic!Act(t) PROVE AP!Act(t)
    <3>1. CASE Atomic!Insert(t) \/ Atomic!Mark(t)
      BY <2>1, <2>2, <3>1 DEF AP!Act
    <3>2. CASE Atomic!Meet(t) \/ Atomic!Refuse(t) \/ Atomic!Miss(t)
      BY <2>0, <3>2 DEF AP!Act, Atomic!Meet, AP!Meet, Atomic!Refuse, AP!Refuse,
                        Atomic!Miss, AP!Miss
    <3>3. CASE Atomic!Spoil(t) \/ Atomic!Return(t) \/ Atomic!GiveUp(t)
      BY <2>0, <3>3 DEF AP!Act, Atomic!Spoil, AP!Spoil, Atomic!Return, AP!Return,
                        Atomic!GiveUp, AP!GiveUp
    <3> QED BY <2>3, <3>1, <3>2, <3>3 DEF Atomic!Act
  <2>4. ASSUME NEW t \in Tasks, NEW c \in Calls, Atomic!Invoke(t, c) PROVE AP!Invoke(t, c)
    BY <2>4 DEF Atomic!Invoke, AP!Invoke
  <2>5. ASSUME NEW failure \in Failures, Atomic!Die(failure) PROVE AP!Die(failure)
    BY <2>5 DEF Atomic!Die, AP!Die, Atomic!Unknown, AP!Unknown, Atomic!Open, AP!Open
  <2> QED BY <2>3, <2>4, <2>5 DEF Atomic!Next, AP!Next
<1>4. [Atomic!Next]_(Atomic!vars) => [AP!Next]_(AP!vars)
  BY <1>2, <1>3
<1> QED BY <1>1, <1>4, PTL DEF Atomic!Spec, AP!Spec

(* No call of insert_version, yank_version or unyank_version takes effect  *)
(* twice, whatever happens to its acknowledgement or its process; and once *)
(* a statement of it has run or has vanished, it takes effect no more.     *)
THEOREM CallsTakeEffectOnce == Spec => AP!EffectsOnce
<1>1. AP!Spec => AP!EffectsOnce
  BY CallConstants, AP!EffectsComeOnce
<1> QED BY <1>1, SameCalls, AtomicRefinement, PTL DEF CallsAreAtomic
=============================================================================
