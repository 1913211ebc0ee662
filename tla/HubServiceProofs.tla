--------------------------- MODULE HubServiceProofs ---------------------------
(***************************************************************************)
(* Theorems about HubService, for any number of requests of any kind.      *)
(* The part of the invariant that is about the tables is PgRepository's.   *)
(***************************************************************************)
EXTENDS HubService, FiniteSetTheorems, TLAPS

RP == INSTANCE PgRepositoryProofs WITH Calls <- RepoCalls

-----------------------------------------------------------------------------
(* The repository under the service.                                       *)

(* What the handlers pass on are calls the repository expects.             *)
LEMMA AdmittedCalls ==
  ASSUME NEW r \in Requests, Refusal(r) = 0
  PROVE  /\ CallOf(r) \in RepoCalls
         /\ CallOf(r) \in Repo!InsertCall \cup Repo!MarkCall
         /\ r.op \in {"publish", "yank", "unyank"}
         /\ CallOf(r).op = "insert" <=> r.op = "publish"
         /\ Authorised(r)
         /\ r.op = "publish" => /\ Valid(r)
                                /\ AllowUnsigned \/ HasSignature(r.payload)
                                /\ r.payload.manifest.name = r.name
                                /\ r.headers.subject \in Subjects
<1>1. r \in PublishRequests \/ r \in YankRequests \/ r \in UnyankRequests
  BY RequestsAssumption
<1>2. CallOf(r) \in RepoCalls
  BY DEF RepoCalls
<1>3. CASE r \in PublishRequests
  <2>1. r.op = "publish"
    BY <1>3 DEF PublishRequests
  <2>2. /\ r.payload.manifest.name = r.name /\ Authorised(r) /\ Valid(r)
        /\ AllowUnsigned \/ HasSignature(r.payload)
    BY <2>1 DEF Refusal
  <2>3. r.headers.subject \in Subjects
    <3>1. ~HeadersRejected(r.headers)
      BY <2>1 DEF Refusal
    <3> QED BY <1>3, <2>1, <2>2, <3>1
            DEF Authorised, CanPublish, HasScope, AuthFromHeaders, Anonymous,
                HeadersRejected, PublishRequests, Headers
  <2>4. r.digest \in Digests
    BY <2>1, <2>2 DEF Valid
  <2>5. /\ r.namespace \in Namespaces /\ r.payload \in Payloads
        /\ r.payload.manifest.name \in Names /\ r.payload.manifest.version \in Versions
    BY <1>3 DEF PublishRequests, Payloads, Manifests
  <2>6. Default(r.visibility, "public") \in Visibilities
    BY <1>3, DefaultsAssumption DEF PublishRequests, Default
  <2>7. CallOf(r) = [op |-> "insert", skill |-> <<r.namespace, r.payload.manifest.name>>,
                     version |-> r.payload.manifest.version,
                     visibility |-> Default(r.visibility, "public"),
                     publisher |-> r.headers.subject, digest |-> r.digest,
                     payload |-> r.payload]
    BY <2>1 DEF CallOf
  <2>8. CallOf(r) \in Repo!InsertCall
    BY <2>3, <2>4, <2>5, <2>6, <2>7 DEF Repo!InsertCall, Skills
  <2> QED BY <1>2, <2>1, <2>2, <2>3, <2>7, <2>8
<1>4. CASE r \in YankRequests
  <2>1. r.op = "yank"
    BY <1>4 DEF YankRequests
  <2>2. Authorised(r)
    BY <2>1 DEF Refusal
  <2>3. CallOf(r) = [op |-> "mark", skill |-> <<r.namespace, r.name>>,
                     version |-> r.version, mark |-> Default(r.reason, DefaultReason)]
    BY <2>1 DEF CallOf
  <2>4. CallOf(r) \in Repo!MarkCall
    BY <1>4, <2>3, DefaultsAssumption DEF Repo!MarkCall, YankRequests, Skills, Default
  <2> QED BY <1>2, <2>1, <2>2, <2>3, <2>4
<1>5. CASE r \in UnyankRequests
  <2>1. r.op = "unyank"
    BY <1>5 DEF UnyankRequests
  <2>2. Authorised(r)
    BY <2>1 DEF Refusal
  <2>3. CallOf(r) = [op |-> "mark", skill |-> <<r.namespace, r.name>>,
                     version |-> r.version, mark |-> None]
    BY <2>1 DEF CallOf
  <2>4. CallOf(r) \in Repo!MarkCall
    BY <1>5, <2>3 DEF Repo!MarkCall, UnyankRequests, Skills
  <2> QED BY <1>2, <2>1, <2>2, <2>3, <2>4
<1> QED BY <1>1, <1>3, <1>4, <1>5

(* PgRepository's assumptions about its constants hold.                    *)
LEMMA RepoAssumptions ==
    /\ RepoCalls \subseteq RP!InsertCall \cup RP!MarkCall
    /\ None \notin Tasks \cup RepoCalls \cup RP!SkillRow \cup RP!VersionRow \cup Reasons
    /\ MaxConnections \in Nat \ {0}
<1>1. RepoCalls \subseteq Repo!InsertCall \cup Repo!MarkCall
  BY AdmittedCalls DEF RepoCalls
<1> QED BY <1>1, RepoAssumption, DefaultsAssumption
        DEF Repo!InsertCall, Repo!MarkCall, Repo!SkillRow, Repo!VersionRow,
            RP!InsertCall, RP!MarkCall, RP!SkillRow, RP!VersionRow

LEMMA RepoStarts == Repo!Init => RP!IInv
  BY RP!Initially, RepoAssumptions
     DEF Repo!Init, RP!Init, Repo!Keys, RP!Keys, Repo!NoTx, RP!NoTx

(* HubService and PgRepositoryProofs each instantiate PgRepository: these  *)
(* are the same actions.                                                   *)
LEMMA SameSteps ==
  /\ Repo!vars = RP!vars
  /\ \A t \in Tasks : /\ Repo!Progress(t) => RP!Progress(t)
                      /\ Repo!Vanish(t) => RP!Vanish(t)
                      /\ \A failure \in Repo!Failures : Repo!Trouble(t, failure) =>
                            failure \in RP!Failures /\ RP!Trouble(t, failure)
                      /\ \A c : Repo!Call(t, c) => RP!Call(t, c)
  /\ Repo!Crash => RP!Crash
<1> USE DEF Repo!Goto, RP!Goto, Repo!Answer, RP!Answer, Repo!Key, RP!Key,
            Repo!InTransaction, RP!InTransaction, Repo!Failures, RP!Failures,
            Repo!NoTx, RP!NoTx, Repo!NewVersion, RP!NewVersion,
            Repo!Settle, RP!Settle, Repo!Install, RP!Install, Repo!Release, RP!Release,
            Repo!Update, RP!Update, Repo!Awaited, RP!Awaited, Repo!Return, RP!Return,
            Repo!Sendable, RP!Sendable, Repo!Close, RP!Close, Repo!Leave, RP!Leave
<1>1. Repo!vars = RP!vars
  BY DEF Repo!vars, RP!vars
<1>2. Repo!Crash => RP!Crash
  BY DEF Repo!Crash, RP!Crash, Repo!Busy, RP!Busy
<1>3. ASSUME NEW t \in Tasks, NEW c, Repo!Call(t, c) PROVE RP!Call(t, c)
  BY <1>3 DEF Repo!Call, RP!Call
<1>4. ASSUME NEW t \in Tasks, Repo!Acquire(t) PROVE RP!Acquire(t)
  <2>1. RP!Cardinality(pool) = Repo!Cardinality(pool)
    BY DEF RP!Cardinality, Repo!Cardinality, RP!IsFiniteSet, Repo!IsFiniteSet
  <2> QED BY <1>4, <2>1 DEF Repo!Acquire, RP!Acquire
<1>5. ASSUME NEW t \in Tasks, Repo!UpsertSkill(t) PROVE RP!UpsertSkill(t)
  BY <1>5 DEF Repo!UpsertSkill, RP!UpsertSkill, Repo!LockFree, RP!LockFree,
              Repo!NewSkill, RP!NewSkill
<1>6. ASSUME NEW t \in Tasks, Repo!SelectVersion(t) PROVE RP!SelectVersion(t)
  BY <1>6 DEF Repo!SelectVersion, RP!SelectVersion
<1>7. ASSUME NEW t \in Tasks, Repo!InsertVersion(t) PROVE RP!InsertVersion(t)
  BY <1>7 DEF Repo!InsertVersion, RP!InsertVersion,
              Repo!IndexEntryFree, RP!IndexEntryFree
<1>8. ASSUME NEW t \in Tasks, Repo!UpdateLatest(t) PROVE RP!UpdateLatest(t)
  BY <1>8 DEF Repo!UpdateLatest, RP!UpdateLatest
<1>9. ASSUME NEW t \in Tasks, Repo!Commit(t) PROVE RP!Commit(t)
  BY <1>9 DEF Repo!Commit, RP!Commit
<1>10. ASSUME NEW t \in Tasks, Repo!Rollback(t) PROVE RP!Rollback(t)
  BY <1>10 DEF Repo!Rollback, RP!Rollback
<1>11. ASSUME NEW t \in Tasks, Repo!Execute(t) PROVE RP!Execute(t)
  BY <1>11 DEF Repo!Execute, RP!Execute
<1>12. ASSUME NEW t \in Tasks, NEW failure \in Repo!Failures, Repo!Trouble(t, failure)
       PROVE  failure \in RP!Failures /\ RP!Trouble(t, failure)
  BY <1>12 DEF Repo!Trouble, RP!Trouble, Repo!CommitUnacknowledged,
               RP!CommitUnacknowledged, Repo!ExecuteUnacknowledged,
               RP!ExecuteUnacknowledged, Repo!Fail, RP!Fail
<1>13. ASSUME NEW t \in Tasks, Repo!Progress(t) PROVE RP!Progress(t)
  BY <1>13, <1>4, <1>5, <1>6, <1>7, <1>8, <1>9, <1>10, <1>11
     DEF Repo!Progress, RP!Progress
<1>14. ASSUME NEW t \in Tasks, Repo!Vanish(t) PROVE RP!Vanish(t)
  BY <1>14 DEF Repo!Vanish, RP!Vanish
<1> QED BY <1>1, <1>2, <1>3, <1>12, <1>13, <1>14

(* So its inductive invariant holds under the service.                     *)
LEMMA RepoKeeps ==
  ASSUME RP!IInv,
         \/ \E t \in Tasks : \/ Repo!Progress(t) \/ Repo!Vanish(t)
                             \/ \E failure \in Repo!Failures : Repo!Trouble(t, failure)
                             \/ \E c \in RepoCalls : Repo!Call(t, c)
         \/ Repo!Crash
         \/ UNCHANGED repoVars
  PROVE  RP!IInv'
<1>1. [RP!Next]_(RP!vars)
  BY SameSteps DEF RP!Next, RP!Step, RP!vars, repoVars
<1> QED BY <1>1, RP!Inductive, RepoAssumptions

(* What a step of the repository on behalf of t leaves alone: the other    *)
(* calls, an answer that was given, and every row but the one t is about.  *)
(* After an answer, it can only come to its end.                           *)
Frame(t) ==
    /\ call' = call
    /\ stage[t] # "idle" /\ stage'[t] # "idle"
    /\ \A u \in Tasks \ {t} : stage'[u] = stage[u] /\ result'[u] = result[u]
    /\ result[t].status # "pending" =>
          result'[t] = result[t] /\ stage'[t] \in {"rollback", "done"}
    /\ \A key \in RP!Keys : versions'[key] # versions[key] =>
          /\ key = <<call[t].skill, call[t].version>>
          /\ stage[t] \in {"commit", "execute"}

LEMMA RepoFrame ==
  ASSUME RP!IInv, NEW t \in Tasks,
         \/ Repo!Progress(t) \/ Repo!Vanish(t)
         \/ \E failure \in Repo!Failures : Repo!Trouble(t, failure)
  PROVE  Frame(t)
<1> USE DEF Repo!Goto, Repo!Answer, Repo!Key, Repo!Settle, Repo!Install, Repo!Release,
            Repo!Update, Repo!Awaited, Repo!Return, Repo!Sendable, Repo!Close, Frame
<1>1. /\ stage \in [Tasks -> RP!Stages]
      /\ result \in [Tasks -> [status : RP!Statuses, record : RP!VersionRow \cup {None}]]
      /\ versions \in [RP!Keys -> RP!VersionRow \cup {None}]
      /\ stage[t] \in {"rollback", "done"} => result[t].status # "pending"
      /\ result[t].status # "pending" =>
           stage[t] \in {"rollback", "done", "upsert", "execute", "commit"}
  BY DEF RP!IInv, RP!TypeOK, RP!TaskInv, RP!Answered, RP!Sendable
<1>2. CASE Repo!Acquire(t)
  BY <1>1, <1>2 DEF Repo!Acquire
<1>3. CASE Repo!UpsertSkill(t)
  BY <1>1, <1>3 DEF Repo!UpsertSkill
<1>4. CASE Repo!SelectVersion(t)
  BY <1>1, <1>4 DEF Repo!SelectVersion
<1>5. CASE Repo!InsertVersion(t)
  BY <1>1, <1>5 DEF Repo!InsertVersion
<1>6. CASE Repo!UpdateLatest(t)
  BY <1>1, <1>6 DEF Repo!UpdateLatest
<1>7. CASE Repo!Commit(t)
  BY <1>1, <1>7 DEF Repo!Commit
<1>8. CASE Repo!Rollback(t)
  BY <1>1, <1>8 DEF Repo!Rollback
<1>9. CASE Repo!Execute(t)
  BY <1>1, <1>9 DEF Repo!Execute
<1>10. ASSUME NEW failure \in Repo!Failures, Repo!CommitUnacknowledged(t, failure)
       PROVE  Frame(t)
  BY <1>1, <1>10 DEF Repo!CommitUnacknowledged
<1>11. ASSUME NEW failure \in Repo!Failures, Repo!ExecuteUnacknowledged(t, failure)
       PROVE  Frame(t)
  BY <1>1, <1>11 DEF Repo!ExecuteUnacknowledged
<1>12. ASSUME NEW failure \in Repo!Failures, Repo!Fail(t, failure)
       PROVE  Frame(t)
  BY <1>1, <1>12 DEF Repo!Fail
<1>13. CASE Repo!Vanish(t)
  BY <1>1, <1>13 DEF Repo!Vanish
<1> QED BY <1>2, <1>3, <1>4, <1>5, <1>6, <1>7, <1>8, <1>9, <1>10, <1>11, <1>12, <1>13
        DEF Repo!Progress, Repo!Trouble

-----------------------------------------------------------------------------
(* The inductive invariant.                                                *)

(* What TypeOK says besides Repo!TypeOK.                                   *)
Events == {EventOf(r) : r \in {q \in Requests : Announced(q)}}

ServiceTypeOK ==
    /\ store \in [Places -> Contents \cup {None}]
    /\ request \in [Tasks -> Requests \cup {None}]
    /\ phase \in [Tasks -> Phases]
    /\ reply \in [Tasks -> [status : {0, 201, 204, 400, 403, 404, 409, 500},
                            record : RP!VersionRow \cup {None}]]
    /\ events \in Seq(Events)
    /\ seen \in SUBSET Tasks

(* A request that has reached the repository was admitted, is the one the  *)
(* repository works for and, if it publishes, was verified.                *)
Admitted(t) == request[t] \in Requests /\ Refusal(request[t]) = 0

Passed(t) ==
    stage[t] # "idle" =>
      /\ Admitted(t)
      /\ call[t] = CallOf(request[t])
      /\ request[t].op = "publish" => Trusted(request[t])
      /\ phase[t] \notin {"idle", "verifying"}

(* Before that, it is waiting for the artifact store.                      *)
Waiting(t) ==
    /\ phase[t] = "verifying" => Admitted(t) /\ request[t].op = "publish"
    /\ phase[t] = "storing" => stage[t] # "idle"

(* Whoever waits for an answer of the repository is being served.          *)
Live(t) == stage[t] # "idle" /\ result[t].status = "pending"
NoneForgotten(t) == Live(t) => phase[t] = "storing"

(* A reply says what the repository answered, or refuses.                  *)
Unreplied(t) == reply[t].status = 0 /\ reply[t].record = None
Replied(t) ==
    IF stage[t] = "idle"
    THEN reply[t].status \in {400, 403} /\ reply[t].record = None
    ELSE /\ result[t].status \notin {"pending", "abandoned"}
         /\ reply[t] = [status |-> StatusOf(request[t], result[t].status),
                        record |-> result[t].record]

ReplyFits(t) ==
    /\ phase[t] \in {"replied", "archived"} => Replied(t) \/ Unreplied(t)
    /\ phase[t] = "replied" => Replied(t)
    /\ phase[t] \notin {"replied", "archived"} => Unreplied(t)

RequestInv(t) == Passed(t) /\ Waiting(t) /\ NoneForgotten(t) /\ ReplyFits(t)

(* The tasks whose event is in the queue.                                  *)
Succeeded(t) == /\ phase[t] = "replied" /\ reply[t].status \in {201, 204}
                /\ Announced(request[t])
Announcers(event) == {t \in Tasks : Succeeded(t) /\ EventOf(request[t]) = event}

QueueInv ==
    \A event \in Events :
      /\ IsFiniteSet(Announcers(event))
      /\ Occurrences(event) = Cardinality(Announcers(event))

IInv == RP!IInv /\ ServiceTypeOK /\ (\A t \in Tasks : RequestInv(t)) /\ QueueInv

-----------------------------------------------------------------------------
(* The queue.                                                              *)

(* A step that makes or unmakes no success and leaves the queue alone.     *)
LEMMA QueueKept ==
  ASSUME QueueInv, events' = events,
         \A t \in Tasks : /\ Succeeded(t)' <=> Succeeded(t)
                          /\ Succeeded(t) => request'[t] = request[t]
  PROVE  QueueInv'
<1>1. ASSUME NEW event \in Events PROVE Announcers(event)' = Announcers(event)
  BY DEF Announcers
<1>2. ASSUME NEW event \in Events PROVE Occurrences(event)' = Occurrences(event)
  BY DEF Occurrences
<1>3. Events' = Events
  BY DEF Events
<1> QED BY <1>1, <1>2, <1>3 DEF QueueInv

(* The success of one more request and its event.                          *)
LEMMA QueueGrows ==
  ASSUME QueueInv, events \in Seq(Events), NEW t \in Tasks,
         ~Succeeded(t), Succeeded(t)', EventOf(request[t]) \in Events,
         request' = request,
         \A u \in Tasks \ {t} : Succeeded(u)' <=> Succeeded(u),
         events' = Append(events, EventOf(request[t]))
  PROVE  QueueInv'
<1> SUFFICES ASSUME NEW event \in Events
             PROVE  /\ IsFiniteSet(Announcers(event)')
                    /\ Occurrences(event)' = Cardinality(Announcers(event)')
  BY DEF QueueInv, Events
<1> DEFINE at == {i \in DOMAIN events : events[i] = event}
<1>1. IsFiniteSet(at) /\ Cardinality(at) = Cardinality(Announcers(event))
      /\ IsFiniteSet(Announcers(event))
  <2>1. DOMAIN events = 1..Len(events) /\ Len(events) \in Nat
    OBVIOUS
  <2>2. IsFiniteSet(1..Len(events))
    BY <2>1, FS_Interval
  <2>3. IsFiniteSet(at)
    BY <2>1, <2>2, FS_Subset
  <2> QED BY <2>3 DEF QueueInv, Occurrences
<1>2. CASE EventOf(request[t]) = event
  <2>1. Announcers(event)' = Announcers(event) \cup {t} /\ t \notin Announcers(event)
    BY <1>2 DEF Announcers
  <2>2. {i \in DOMAIN events' : events'[i] = event} = at \cup {Len(events) + 1}
        /\ Len(events) + 1 \notin at
    BY <1>2
  <2>3. Cardinality(at \cup {Len(events) + 1}) = Cardinality(at) + 1
    BY <1>1, <2>2, FS_AddElement
  <2>4. IsFiniteSet(Announcers(event) \cup {t})
        /\ Cardinality(Announcers(event) \cup {t}) = Cardinality(Announcers(event)) + 1
    BY <1>1, <2>1, FS_AddElement
  <2> QED BY <1>1, <2>1, <2>2, <2>3, <2>4 DEF Occurrences
<1>3. CASE EventOf(request[t]) # event
  <2>1. Announcers(event)' = Announcers(event)
    BY <1>3 DEF Announcers
  <2>2. {i \in DOMAIN events' : events'[i] = event} = at
    BY <1>3
  <2> QED BY <1>1, <2>1, <2>2 DEF Occurrences
<1> QED BY <1>2, <1>3

-----------------------------------------------------------------------------
(* Every step preserves the invariant.                                     *)

(* A request that nobody touches.                                          *)
LEMMA RequestKept ==
  ASSUME NEW u \in Tasks, RequestInv(u),
         stage'[u] = stage[u], call'[u] = call[u], result'[u] = result[u],
         phase'[u] = phase[u], request'[u] = request[u], reply'[u] = reply[u]
  PROVE  RequestInv(u)'
  BY DEF RequestInv, Passed, Waiting, NoneForgotten, Live, ReplyFits, Replied, Unreplied, Admitted

LEMMA Initially == Init => IInv
<1> SUFFICES ASSUME Init PROVE IInv
  OBVIOUS
<1>1. RP!IInv
  BY RepoStarts DEF Init
<1>2. ServiceTypeOK
  BY DEF Init, ServiceTypeOK, Phases
<1>3. ASSUME NEW t \in Tasks PROVE RequestInv(t)
  <2>1. /\ stage[t] = "idle" /\ phase[t] = "idle"
        /\ reply[t].status = 0 /\ reply[t].record = None
    BY DEF Init, Repo!Init
  <2> QED BY <2>1 DEF RequestInv, Passed, Waiting, NoneForgotten, Live, ReplyFits, Replied,
     Unreplied
<1>4. QueueInv
  <2> SUFFICES ASSUME NEW event \in Events
               PROVE  /\ IsFiniteSet(Announcers(event))
                      /\ Occurrences(event) = Cardinality(Announcers(event))
    BY DEF QueueInv
  <2>1. Announcers(event) = {}
    BY DEF Announcers, Succeeded, Init
  <2>2. {i \in DOMAIN events : events[i] = event} = {}
    BY DEF Init
  <2> QED BY <2>1, <2>2, FS_EmptySet DEF Occurrences
<1> QED BY <1>1, <1>2, <1>3, <1>4 DEF IInv

(* A step of a task that answers nobody with success.                      *)
LEMMA QuietTask ==
  ASSUME IInv, RP!IInv', ServiceTypeOK', NEW t \in Tasks,
         \A u \in Tasks \ {t} :
            /\ stage'[u] = stage[u] /\ call'[u] = call[u] /\ result'[u] = result[u]
            /\ phase'[u] = phase[u] /\ request'[u] = request[u] /\ reply'[u] = reply[u],
         RequestInv(t)',
         ~Succeeded(t), ~Succeeded(t)', events' = events
  PROVE  IInv'
<1>1. \A u \in Tasks : RequestInv(u)'
  BY RequestKept DEF IInv
<1>2. QueueInv'
  BY QueueKept DEF IInv, Succeeded
<1> QED BY <1>1, <1>2 DEF IInv

LEMMA ReceiveKeeps ==
  ASSUME IInv, NEW t \in Tasks, NEW r \in Requests, Receive(t, r)
  PROVE  IInv'
<1>1. /\ phase[t] = "idle" /\ stage[t] = "idle"
      /\ request' = [request EXCEPT ![t] = r]
      /\ UNCHANGED <<store, events>>
      /\ RequestInv(t)
  BY DEF IInv, Receive, RequestInv, Passed
<1>2. CASE /\ Refusal(r) # 0
           /\ Respond(t, Refusal(r), None)
           /\ UNCHANGED <<repoVars, seen>>
  <2>1. Refusal(r) \in {400, 403}
    BY <1>2 DEF Refusal
  <2>2. RP!IInv'
    BY <1>2, RepoKeeps DEF IInv
  <2>3. ServiceTypeOK'
    BY <1>1, <1>2, <2>1 DEF IInv, ServiceTypeOK, Respond, Goto, Phases, RP!VersionRow,
       Events, Payloads, Digests
  <2>4. /\ phase'[t] = "replied" /\ stage'[t] = "idle"
        /\ reply'[t].status = Refusal(r) /\ reply'[t].record = None
    BY <1>1, <1>2 DEF IInv, ServiceTypeOK, Respond, Goto, repoVars
  <2>5. RequestInv(t)'
    BY <2>1, <2>4 DEF RequestInv, Passed, Waiting, NoneForgotten, Live, ReplyFits, Replied,
       Unreplied
  <2>6. ~Succeeded(t) /\ ~Succeeded(t)'
    BY <1>1, <2>1, <2>4 DEF Succeeded
  <2>7. \A u \in Tasks \ {t} :
           /\ stage'[u] = stage[u] /\ call'[u] = call[u] /\ result'[u] = result[u]
           /\ phase'[u] = phase[u] /\ request'[u] = request[u] /\ reply'[u] = reply[u]
    BY <1>1, <1>2 DEF IInv, ServiceTypeOK, Respond, Goto, repoVars
  <2> QED BY <1>1, <2>2, <2>3, <2>5, <2>6, <2>7, QuietTask
<1>3. CASE /\ Refusal(r) = 0 /\ r.op = "publish"
           /\ Goto(t, "verifying")
           /\ seen' \in SUBSET Tasks
           /\ UNCHANGED <<repoVars, reply>>
  <2>1. RP!IInv'
    BY <1>3, RepoKeeps DEF IInv
  <2>2. ServiceTypeOK'
    BY <1>1, <1>3 DEF IInv, ServiceTypeOK, Goto, Phases, InFlight, RP!VersionRow, Events,
       Payloads, Digests
  <2>3. /\ phase'[t] = "verifying" /\ request'[t] = r /\ stage'[t] = "idle"
        /\ reply'[t].status = 0 /\ reply'[t].record = None
    BY <1>1, <1>3 DEF IInv, ServiceTypeOK, Goto, repoVars, RequestInv, ReplyFits, Replied,
       Unreplied
  <2>4. RequestInv(t)'
    BY <1>3, <2>3 DEF RequestInv, Passed, Waiting, NoneForgotten, Live, ReplyFits, Replied,
       Unreplied, Admitted
  <2>5. ~Succeeded(t) /\ ~Succeeded(t)'
    BY <1>1, <2>3 DEF Succeeded
  <2>6. \A u \in Tasks \ {t} :
           /\ stage'[u] = stage[u] /\ call'[u] = call[u] /\ result'[u] = result[u]
           /\ phase'[u] = phase[u] /\ request'[u] = request[u] /\ reply'[u] = reply[u]
    BY <1>1, <1>3 DEF IInv, ServiceTypeOK, Goto, repoVars
  <2> QED BY <1>1, <2>1, <2>2, <2>4, <2>5, <2>6, QuietTask
<1>4. CASE /\ Refusal(r) = 0 /\ r.op # "publish"
           /\ Repo!Call(t, CallOf(r))
           /\ Goto(t, "storing")
           /\ UNCHANGED <<reply, seen>>
  <2>1. RP!IInv'
    BY <1>4, AdmittedCalls, RepoKeeps DEF IInv
  <2>2. ServiceTypeOK'
    BY <1>1, <1>4 DEF IInv, ServiceTypeOK, Goto, Phases, InFlight, RP!VersionRow, Events,
       Payloads, Digests
  <2>3. /\ phase'[t] = "storing" /\ request'[t] = r
        /\ reply'[t].status = 0 /\ reply'[t].record = None
        /\ stage'[t] = "acquire" /\ call'[t] = CallOf(r)
        /\ \A u \in Tasks \ {t} :
           /\ stage'[u] = stage[u] /\ call'[u] = call[u] /\ result'[u] = result[u]
           /\ phase'[u] = phase[u] /\ request'[u] = request[u] /\ reply'[u] = reply[u]
    BY <1>1, <1>4 DEF IInv, ServiceTypeOK, Goto, Repo!Call, Repo!Goto, RequestInv, ReplyFits,
       Replied, Unreplied,
       RP!IInv, RP!TypeOK
  <2>4. RequestInv(t)'
    BY <1>4, <2>3 DEF RequestInv, Passed, Waiting, NoneForgotten, ReplyFits, Replied, Unreplied,
       Admitted
  <2>5. ~Succeeded(t) /\ ~Succeeded(t)'
    BY <1>1, <2>3 DEF Succeeded
  <2> QED BY <1>1, <2>1, <2>2, <2>3, <2>4, <2>5, QuietTask
<1>5. seen' = (IF Holds(store, r) THEN seen \cup {t} ELSE seen) => seen' \in SUBSET Tasks
  BY DEF IInv, ServiceTypeOK
<1> QED BY <1>2, <1>3, <1>4, <1>5 DEF Receive

(* A publication that is refused once the artifact store has answered, or  *)
(* cannot be asked.                                                        *)
LEMMA RefusedKeeps ==
  ASSUME IInv, NEW t \in Tasks, phase[t] = "verifying", Respond(t, 400, None),
         seen' = seen \ {t}, UNCHANGED <<repoVars, store, request, events>>
  PROVE  IInv'
<1>1. RequestInv(t) /\ stage[t] = "idle"
  BY DEF IInv, RequestInv, Passed
<1>2. RP!IInv'
  BY RepoKeeps DEF IInv
<1>3. ServiceTypeOK'
  BY DEF IInv, ServiceTypeOK, Respond, Goto, Phases
<1>4. /\ phase'[t] = "replied" /\ stage'[t] = "idle"
      /\ reply'[t].status = 400 /\ reply'[t].record = None
      /\ \A u \in Tasks \ {t} :
         /\ stage'[u] = stage[u] /\ call'[u] = call[u] /\ result'[u] = result[u]
         /\ phase'[u] = phase[u] /\ request'[u] = request[u] /\ reply'[u] = reply[u]
  BY <1>1 DEF IInv, ServiceTypeOK, Respond, Goto, repoVars
<1>5. RequestInv(t)'
  BY <1>4 DEF RequestInv, Passed, Waiting, NoneForgotten, Live, ReplyFits, Replied, Unreplied
<1>6. ~Succeeded(t) /\ ~Succeeded(t)'
  BY <1>4 DEF Succeeded
<1> QED BY <1>2, <1>3, <1>4, <1>5, <1>6, QuietTask

LEMMA VerifyKeeps ==
  ASSUME IInv, NEW t \in Tasks, Verify(t)
  PROVE  IInv'
<1>1. phase[t] = "verifying" /\ RequestInv(t) /\ stage[t] = "idle"
  BY DEF IInv, Verify, RequestInv, Passed
<1>2. CASE /\ Respond(t, 400, None) /\ seen' = seen \ {t}
           /\ UNCHANGED <<repoVars, store, request, events>>
  BY <1>1, <1>2, RefusedKeeps
<1>3. CASE /\ Trusted(request[t])
           /\ Repo!Call(t, CallOf(request[t]))
           /\ Goto(t, "storing")
           /\ UNCHANGED <<reply, seen, store, request, events>>
  <2>1. Admitted(t) /\ request[t].op = "publish"
    BY <1>1 DEF RequestInv, Waiting
  <2>2. RP!IInv'
    BY <1>3, <2>1, AdmittedCalls, RepoKeeps DEF IInv, Admitted
  <2>3. ServiceTypeOK'
    BY <1>3 DEF IInv, ServiceTypeOK, Goto, Phases, InFlight
  <2>4. /\ phase'[t] = "storing" /\ request'[t] = request[t]
        /\ reply'[t].status = 0 /\ reply'[t].record = None
        /\ stage'[t] = "acquire" /\ call'[t] = CallOf(request[t])
        /\ \A u \in Tasks \ {t} :
           /\ stage'[u] = stage[u] /\ call'[u] = call[u] /\ result'[u] = result[u]
           /\ phase'[u] = phase[u] /\ request'[u] = request[u] /\ reply'[u] = reply[u]
    BY <1>1, <1>3 DEF IInv, ServiceTypeOK, Goto, Repo!Call, Repo!Goto, RequestInv, ReplyFits,
       Replied, Unreplied,
       RP!IInv, RP!TypeOK
  <2>5. RequestInv(t)'
    BY <1>3, <2>1, <2>4 DEF RequestInv, Passed, Waiting, NoneForgotten, ReplyFits, Replied,
       Unreplied, Admitted,
       Trusted
  <2>6. ~Succeeded(t) /\ ~Succeeded(t)'
    BY <1>1, <2>4 DEF Succeeded
  <2> QED BY <1>3, <2>2, <2>3, <2>4, <2>5, <2>6, QuietTask
<1> QED BY <1>2, <1>3 DEF Verify

(* A step of the repository, for a task that is being served, or for one   *)
(* whose statement or ROLLBACK is still on its way.                        *)
LEMMA RepoStepKeeps ==
  ASSUME IInv, NEW t \in Tasks, RepoStep(t)
  PROVE  IInv'
<1>1. /\ \/ Repo!Progress(t) \/ Repo!Vanish(t)
         \/ \E failure \in Repo!Failures : Repo!Trouble(t, failure)
      /\ UNCHANGED serviceVars
  BY DEF RepoStep, Repo!Failures
<1>2. Frame(t) /\ RP!IInv'
  BY <1>1, RepoFrame, RepoKeeps DEF IInv
<1>3. ServiceTypeOK'
  BY <1>1 DEF IInv, ServiceTypeOK, serviceVars
<1>4. RequestInv(t)'
  <2>1. CASE result[t].status # "pending"
    BY <1>1, <1>2, <2>1 DEF Frame, serviceVars, IInv, RequestInv, Passed, Waiting,
       NoneForgotten, Live, ReplyFits, Replied, Unreplied, Admitted
  <2>2. CASE result[t].status = "pending"
    <3>1. phase[t] = "storing"
      BY <1>2, <2>2 DEF Frame, IInv, RequestInv, NoneForgotten, Live
    <3> QED BY <1>1, <1>2, <3>1 DEF Frame, serviceVars, IInv, RequestInv, Passed, Waiting,
       NoneForgotten, Live, ReplyFits, Replied, Unreplied, Admitted
  <2> QED BY <2>1, <2>2
<1>5. \A u \in Tasks : RequestInv(u)'
  BY <1>1, <1>2, <1>4, RequestKept DEF IInv, Frame, serviceVars
<1>6. QueueInv'
  BY <1>1, QueueKept DEF IInv, serviceVars, Succeeded
<1> QED BY <1>2, <1>3, <1>5, <1>6 DEF IInv

LEMMA FinishKeeps ==
  ASSUME IInv, NEW t \in Tasks, Finish(t)
  PROVE  IInv'
<1> DEFINE outcome == result[t].status
<1>1. /\ phase[t] = "storing" /\ outcome \notin {"pending", "abandoned"}
      /\ RequestInv(t) /\ Admitted(t) /\ stage[t] # "idle"
      /\ UNCHANGED <<repoVars, store, request, seen>>
  BY DEF IInv, Finish, RequestInv, Waiting, Passed
<1>2. outcome \in {"ok", "conflict", "notfound", "database"}
  BY <1>1 DEF IInv, RP!IInv, RP!TypeOK, RP!Statuses, RP!Failures
<1>3. /\ StatusOf(request[t], outcome) \in {201, 204, 404, 409, 500}
      /\ StatusOf(request[t], outcome) \in {201, 204} <=> outcome = "ok"
  BY <1>2 DEF StatusOf
<1>4. RP!IInv'
  BY <1>1, RepoKeeps DEF IInv
<1>5. Announced(request[t]) => EventOf(request[t]) \in Events
  BY <1>1 DEF Events, Admitted
<1>6. events' \in Seq(Events)
  BY <1>5 DEF IInv, ServiceTypeOK, Finish, EventsAfter
<1>7. ServiceTypeOK'
  BY <1>1, <1>3, <1>6 DEF IInv, ServiceTypeOK, Finish, Respond, Goto, Phases, RP!IInv,
     RP!TypeOK
<1>8. /\ phase'[t] = "replied"
      /\ reply'[t] = [status |-> StatusOf(request[t], outcome), record |-> result[t].record]
      /\ \A u \in Tasks \ {t} :
         /\ stage'[u] = stage[u] /\ call'[u] = call[u] /\ result'[u] = result[u]
         /\ phase'[u] = phase[u] /\ request'[u] = request[u] /\ reply'[u] = reply[u]
      /\ stage'[t] = stage[t] /\ call'[t] = call[t] /\ result'[t] = result[t]
      /\ request'[t] = request[t]
  BY <1>1 DEF IInv, ServiceTypeOK, Finish, Respond, Goto, repoVars
<1>9. RequestInv(t)'
  BY <1>1, <1>8 DEF RequestInv, Passed, Waiting, NoneForgotten, Live, ReplyFits, Replied,
     Unreplied, Admitted
<1>10. \A u \in Tasks : RequestInv(u)'
  BY <1>8, <1>9, RequestKept DEF IInv
<1>11. ~Succeeded(t) /\ \A u \in Tasks \ {t} : Succeeded(u)' <=> Succeeded(u)
  BY <1>1, <1>8 DEF Succeeded
<1>12. CASE outcome = "ok" /\ Announced(request[t])
  <2>1. Succeeded(t)'
    BY <1>3, <1>8, <1>12 DEF Succeeded
  <2>2. events' = Append(events, EventOf(request[t]))
    BY <1>12 DEF Finish, EventsAfter
  <2>3. QueueInv'
    BY <1>1, <1>5, <1>11, <1>12, <2>1, <2>2, QueueGrows DEF IInv, ServiceTypeOK
  <2> QED BY <1>4, <1>7, <1>10, <2>3 DEF IInv
<1>13. CASE ~(outcome = "ok" /\ Announced(request[t]))
  <2>1. ~Succeeded(t)'
    BY <1>3, <1>8, <1>13 DEF Succeeded
  <2>2. events' = events
    BY <1>13 DEF Finish, EventsAfter
  <2>3. QueueInv'
    BY <1>1, <1>11, <2>1, <2>2, QueueKept DEF IInv
  <2> QED BY <1>4, <1>7, <1>10, <2>3 DEF IInv
<1> QED BY <1>12, <1>13

LEMMA CancelKeeps ==
  ASSUME IInv, NEW t \in Tasks, Cancel(t)
  PROVE  IInv'
<1>1. /\ phase[t] \in {"verifying", "storing"} /\ RequestInv(t)
      /\ phase' = [phase EXCEPT ![t] = "gone"] /\ seen' \subseteq seen
      /\ UNCHANGED <<store, request, reply, events>>
  BY DEF IInv, Cancel, InFlight, Goto
<1>2. ServiceTypeOK'
  BY <1>1 DEF IInv, ServiceTypeOK, Phases
<1>3. /\ ~Succeeded(t) /\ ~Succeeded(t)' /\ phase'[t] = "gone"
      /\ reply'[t].status = 0 /\ reply'[t].record = None
      /\ \A u \in Tasks \ {t} : phase'[u] = phase[u]
  BY <1>1 DEF IInv, ServiceTypeOK, Succeeded, RequestInv, ReplyFits, Replied, Unreplied
<1>4. CASE phase[t] = "storing" /\ result[t].status = "pending" /\ Repo!Fail(t, "abandoned")
  <2>1. Repo!Trouble(t, "abandoned") /\ "abandoned" \in Repo!Failures
    BY <1>4 DEF Repo!Failures, Repo!Trouble
  <2>2. Frame(t) /\ RP!IInv'
    BY <2>1, RepoFrame, RepoKeeps DEF IInv
  <2>3. result'[t].status = "abandoned"
    BY <1>4 DEF Repo!Fail, Repo!Answer, IInv, RP!IInv, RP!TypeOK
  <2>4. RequestInv(t)'
    BY <1>1, <1>3, <1>4, <2>2, <2>3 DEF Frame, RequestInv, Passed, Waiting, NoneForgotten, Live,
       ReplyFits, Replied, Unreplied, Admitted
  <2> QED BY <1>1, <1>2, <1>3, <2>2, <2>4, QuietTask DEF Frame
<1>5. CASE ~(phase[t] = "storing" /\ result[t].status = "pending") /\ UNCHANGED repoVars
  <2>1. RP!IInv'
    BY <1>5, RepoKeeps DEF IInv
  <2>2. ~Live(t)
    BY <1>1, <1>5 DEF RequestInv, NoneForgotten, Live
  <2>3. RequestInv(t)'
    BY <1>1, <1>3, <1>5, <2>2 DEF repoVars, RequestInv, Passed, Waiting, NoneForgotten, Live,
       ReplyFits, Replied, Unreplied, Admitted
  <2> QED BY <1>1, <1>2, <1>3, <1>5, <2>1, <2>3, QuietTask DEF repoVars
<1> QED BY <1>4, <1>5 DEF Cancel

(* A restart leaves no caller behind: if there was one, the repository was *)
(* busy and lost it.                                                       *)
LEMMA RestartKeeps ==
  ASSUME IInv, Restart
  PROVE  IInv'
<1>1. /\ events' = <<>> /\ seen' \subseteq seen
      /\ UNCHANGED <<store, request, reply>>
      /\ Repo!Crash \/ (~Repo!Busy /\ UNCHANGED repoVars)
      /\ phase' = [t \in Tasks |-> IF phase[t] = "idle" THEN "idle" ELSE "archived"]
  BY DEF Restart
<1>2. \A t \in Tasks : phase'[t] = IF phase[t] = "idle" THEN "idle" ELSE "archived"
  BY <1>1
<1>3. RP!IInv'
  BY <1>1, RepoKeeps DEF IInv
<1>4. ServiceTypeOK'
  BY <1>1 DEF IInv, ServiceTypeOK, Phases
<1>5. ASSUME NEW t \in Tasks
      PROVE  /\ call'[t] = call[t] /\ (stage'[t] = "idle" <=> stage[t] = "idle")
             /\ ~Live(t)'
             /\ stage[t] # "idle" /\ result[t].status # "pending" => result'[t] = result[t]
  <2>1. CASE Repo!Crash
    BY <2>1 DEF Repo!Crash, Repo!Awaited, Live
  <2>2. CASE ~Repo!Busy /\ UNCHANGED repoVars
    BY <2>2 DEF Repo!Busy, Repo!Awaited, repoVars, Live
  <2> QED BY <1>1, <2>1, <2>2
<1>6. ASSUME NEW t \in Tasks PROVE RequestInv(t)'
  <2>1. RequestInv(t) /\ phase'[t] \in {"idle", "archived"}
    BY <1>2 DEF IInv
  <2>2. Passed(t)' /\ Waiting(t)' /\ NoneForgotten(t)'
    BY <1>1, <1>2, <1>5, <2>1 DEF RequestInv, Passed, Waiting, NoneForgotten, Admitted, Trusted
  <2>3. ReplyFits(t)'
    BY <1>1, <1>2, <1>5, <2>1 DEF RequestInv, ReplyFits, Replied, Unreplied
  <2> QED BY <2>2, <2>3 DEF RequestInv
<1>7. QueueInv'
  <2> SUFFICES ASSUME NEW event \in Events
               PROVE  /\ IsFiniteSet(Announcers(event)')
                      /\ Occurrences(event)' = Cardinality(Announcers(event)')
    BY DEF QueueInv, Events
  <2>1. Announcers(event)' = {}
    <3>1. \A t \in Tasks : phase'[t] # "replied"
      BY <1>2
    <3> QED BY <3>1 DEF Announcers, Succeeded
  <2>2. {i \in DOMAIN events' : events'[i] = event} = {}
    BY <1>1
  <2> QED BY <2>1, <2>2, FS_EmptySet DEF Occurrences
<1> QED BY <1>3, <1>4, <1>6, <1>7 DEF IInv

LEMMA Inductive == IInv /\ [Next]_vars => IInv'
<1> SUFFICES ASSUME IInv, [Next]_vars PROVE IInv'
  OBVIOUS
<1>1. ASSUME NEW t \in Tasks, Unreachable(t) PROVE IInv'
  BY <1>1, RefusedKeeps DEF Unreachable
<1>2. CASE /\ UNCHANGED <<repoVars, request, phase, reply, events>>
           /\ store' \in [Places -> Contents \cup {None}]
           /\ seen' \in SUBSET Tasks
  <2>1. RP!IInv'
    BY <1>2, RepoKeeps DEF IInv
  <2>2. ServiceTypeOK'
    BY <1>2 DEF IInv, ServiceTypeOK
  <2>3. \A u \in Tasks : RequestInv(u)'
    BY <1>2, RequestKept DEF IInv, repoVars
  <2>4. QueueInv'
    BY <1>2, QueueKept DEF IInv, Succeeded
  <2> QED BY <2>1, <2>2, <2>3, <2>4 DEF IInv
<1>3. CASE ChangeStore
  BY <1>2, <1>3 DEF ChangeStore, IInv, ServiceTypeOK
<1>4. CASE UNCHANGED vars
  BY <1>2, <1>4 DEF vars, serviceVars, IInv, ServiceTypeOK
<1> QED BY <1>1, <1>3, <1>4, ReceiveKeeps, VerifyKeeps, RepoStepKeeps, FinishKeeps, CancelKeeps,
       RestartKeeps DEF Next, Finished

(* A publication that has come to the repository has had its artifact, and *)
(* one that waits for the check has had it if the artifact is there now.   *)
Provided(t) ==
    /\ stage[t] # "idle" /\ request[t].op = "publish" => t \in seen
    /\ phase[t] = "verifying" /\ Holds(store, request[t]) => t \in seen

ArtifactInv == \A t \in Tasks : Provided(t)

(* What the check of the artifact finds to be of the digest is what the    *)
(* digest was made of.                                                     *)
LEMMA VerifiedHolds ==
  ASSUME NEW r \in Requests, r.op = "publish", Refusal(r) = 0, ArtifactVerified(r)
  PROVE  Holds(store, r)
<1>1. r.digest \in Digests
  BY AdmittedCalls DEF Valid
<1>2. Sha256(store[r.payload.url]).of = Normalize(r.digest).of /\ store[r.payload.url] # None
  BY DEF ArtifactVerified, DigestVerified
<1>3. Normalize(r.digest).of = r.digest.of
  BY <1>1 DEF Digests, Normalize
<1> QED BY <1>2, <1>3 DEF Holds, Sha256

LEMMA ArtifactsKept == IInv /\ ArtifactInv /\ [Next]_vars => ArtifactInv'
<1> SUFFICES ASSUME IInv, ArtifactInv, [Next]_vars, NEW u \in Tasks PROVE Provided(u)'
  BY DEF ArtifactInv
<1>1. Provided(u) /\ RequestInv(u)
  BY DEF ArtifactInv, IInv
<1>2. ASSUME stage'[u] = stage[u], request'[u] = request[u], store' = store,
             u \in seen => u \in seen', phase'[u] = "verifying" => phase[u] = "verifying"
      PROVE  Provided(u)'
  BY <1>1, <1>2 DEF Provided, Holds
<1>3. ASSUME stage'[u] = "idle", phase'[u] # "verifying" PROVE Provided(u)'
  BY <1>3 DEF Provided
<1>4. ASSUME NEW t \in Tasks, NEW r \in Requests, Receive(t, r) PROVE Provided(u)'
  <2>1. CASE u # t
    BY <1>2, <1>4, <2>1 DEF Receive, Respond, Goto, Repo!Call, Repo!Goto, repoVars, IInv,
       ServiceTypeOK, RP!IInv, RP!TypeOK
  <2>2. CASE u = t
    <3>1. stage[t] = "idle" /\ request'[t] = r /\ store' = store
      BY <1>1, <1>4, <2>2 DEF Receive, RequestInv, Passed, IInv, ServiceTypeOK
    <3>2. CASE Respond(t, Refusal(r), None) /\ UNCHANGED repoVars
      BY <1>3, <2>2, <3>1, <3>2 DEF Respond, Goto, repoVars, IInv, ServiceTypeOK
    <3>3. CASE seen' = (IF Holds(store, r) THEN seen \cup {t} ELSE seen) /\ UNCHANGED repoVars
      BY <2>2, <3>1, <3>3 DEF Provided, repoVars
    <3>4. CASE r.op # "publish" /\ Goto(t, "storing")
      BY <2>2, <3>1, <3>4 DEF Provided, Goto, IInv, ServiceTypeOK
    <3> QED BY <1>4, <3>2, <3>3, <3>4 DEF Receive
  <2> QED BY <2>1, <2>2
<1>5. ASSUME NEW t \in Tasks, Verify(t) \/ Unreachable(t) PROVE Provided(u)'
  <2>1. CASE u # t
    BY <1>2, <1>5, <2>1 DEF Verify, Unreachable, Respond, Goto, Repo!Call, Repo!Goto, repoVars,
       IInv, ServiceTypeOK, RP!IInv, RP!TypeOK
  <2>2. CASE u = t
    <3>1. /\ phase[t] = "verifying" /\ stage[t] = "idle"
          /\ Admitted(t) /\ request[t].op = "publish"
      BY <1>1, <1>5, <2>2 DEF Verify, Unreachable, RequestInv, Passed, Waiting
    <3>2. CASE Respond(t, 400, None) /\ UNCHANGED repoVars
      BY <1>3, <2>2, <3>1, <3>2 DEF Respond, Goto, repoVars, IInv, ServiceTypeOK
    <3>3. CASE /\ ArtifactVerified(request[t]) /\ Goto(t, "storing")
               /\ UNCHANGED <<seen, request, store>>
      <4>1. t \in seen
        BY <1>1, <2>2, <3>1, <3>3, VerifiedHolds DEF Admitted, Provided
      <4> QED BY <2>2, <3>3, <4>1 DEF Provided
    <3> QED BY <1>5, <3>2, <3>3 DEF Verify, Unreachable
  <2> QED BY <2>1, <2>2
<1>6. ASSUME NEW t \in Tasks, RepoStep(t) PROVE Provided(u)'
  <2>1. Frame(t) /\ UNCHANGED serviceVars
    BY <1>6, RepoFrame DEF IInv, RepoStep, Repo!Failures
  <2>2. UNCHANGED <<store, request, seen, phase>> /\ (stage'[u] = "idle" <=> stage[u] = "idle")
    BY <2>1 DEF Frame, serviceVars
  <2> QED BY <1>1, <2>2 DEF Provided
<1>7. ASSUME NEW t \in Tasks, Finish(t) PROVE Provided(u)'
  BY <1>2, <1>7 DEF Finish, Respond, Goto, repoVars, IInv, ServiceTypeOK
<1>8. ASSUME NEW t \in Tasks, Cancel(t) PROVE Provided(u)'
  <2>1. UNCHANGED <<store, request>> /\ (stage'[u] = "idle" <=> stage[u] = "idle")
    <3>1. CASE Repo!Fail(t, "abandoned")
      <4>1. Frame(t)
        BY <3>1, RepoFrame DEF IInv, Repo!Trouble, Repo!Failures
      <4> QED BY <1>8, <4>1 DEF Frame, Cancel
    <3> QED BY <1>8, <3>1 DEF Cancel, repoVars
  <2>2. phase'[u] = IF u = t THEN "gone" ELSE phase[u]
    BY <1>8 DEF Cancel, Goto, IInv, ServiceTypeOK
  <2>3. CASE u = t /\ phase[t] = "verifying"
    BY <1>1, <1>3, <2>1, <2>2, <2>3 DEF RequestInv, Passed
  <2>4. CASE u # t \/ phase[t] # "verifying"
    <3>1. u \in seen => u \in seen'
      BY <1>8, <2>4 DEF Cancel
    <3> QED BY <1>1, <2>1, <2>2, <3>1 DEF Provided
  <2> QED BY <2>3, <2>4
<1>9. CASE Restart
  <2>1. UNCHANGED <<store, request>> /\ (stage'[u] = "idle" <=> stage[u] = "idle")
    BY <1>9 DEF Restart, Repo!Crash, repoVars
  <2>2. phase'[u] # "verifying" /\ (phase[u] # "verifying" /\ u \in seen => u \in seen')
    BY <1>9 DEF Restart
  <2>3. phase[u] = "verifying" => stage[u] = "idle"
    BY <1>1 DEF RequestInv, Passed
  <2> QED BY <1>1, <2>1, <2>2, <2>3 DEF Provided
<1>10. CASE ChangeStore
  BY <1>1, <1>10 DEF ChangeStore, Provided, repoVars
<1>11. CASE UNCHANGED vars
  BY <1>2, <1>11 DEF vars, repoVars, serviceVars
<1> QED BY <1>4, <1>5, <1>6, <1>7, <1>8, <1>9, <1>10, <1>11 DEF Next, Finished

-----------------------------------------------------------------------------
(* Paths: what validate_skill_path accepts never leaves the skill.         *)

(* A reader who follows an accepted path, component by component, is never *)
(* above the root of the skill and does not end at it.                     *)
LEMMA AcceptedStaysInside ==
  ASSUME NEW path \in Seq(STRING) \ {<<>>}, PathAccepted(path)
  PROVE  StaysInside(path)
<1>1. DOMAIN path = 1..Len(path) /\ Len(path) \in Nat
  OBVIOUS
<1>2. ASSUME NEW n \in 1..Len(path)
      PROVE  /\ Ups(path, n) = 0
             /\ Downs(path, n) \in Nat
             /\ Downs(path, n) = 0 => \A i \in 1..n : ~Named(path[i])
  <2>1. IsFiniteSet(1..n)
    BY <1>1, FS_Interval
  <2>2. {i \in 1..n : path[i] = ".."} = {}
    <3>1. \A i \in 1..n : i \in DOMAIN path
      BY <1>1
    <3>2. \A i \in DOMAIN path : path[i] # ".."
      BY DEF PathAccepted
    <3> QED BY <3>1, <3>2
  <2>3. IsFiniteSet({i \in 1..n : Named(path[i])})
    BY <2>1, FS_Subset
  <2>4. /\ Cardinality({i \in 1..n : Named(path[i])}) \in Nat
        /\ Cardinality({i \in 1..n : Named(path[i])}) = 0 =>
             {i \in 1..n : Named(path[i])} = {}
    BY <2>3, FS_CardinalityType, FS_EmptySet
  <2>5. Ups(path, n) = 0
    BY <2>2, FS_EmptySet DEF Ups
  <2> QED BY <2>4, <2>5 DEF Downs
<1>3. PICK i \in DOMAIN path : Named(path[i])
  BY DEF PathAccepted
<1>4. Len(path) \in 1..Len(path)
  BY <1>1, <1>3
<1>5. Ups(path, Len(path)) = 0 /\ Downs(path, Len(path)) > 0
  BY <1>1, <1>2, <1>3, <1>4
<1>6. \A n \in 1..Len(path) : Ups(path, n) <= Downs(path, n)
  BY <1>2
<1>7. Ups(path, Len(path)) < Downs(path, Len(path))
  BY <1>5
<1>8. ~Absolute(path)
  BY DEF PathAccepted
<1> QED BY <1>6, <1>7, <1>8 DEF StaysInside

-----------------------------------------------------------------------------
(* Theorems                                                                *)

(* Handlers, repository and queue together, whatever fails or dies.        *)
THEOREM Invariance == Spec => []IInv
  BY Initially, Inductive, PTL DEF Spec

(* Type correctness of the service and of the tables under it.             *)
THEOREM TypeCorrect == Spec => []TypeOK
<1>1. RP!TypeOK => Repo!TypeOK
  BY DEF RP!TypeOK, Repo!TypeOK, RP!SkillRow, Repo!SkillRow, RP!VersionRow, Repo!VersionRow,
     RP!Keys, Repo!Keys, RP!Stages, Repo!Stages, RP!InTransaction, Repo!InTransaction,
     RP!Transaction, Repo!Transaction, RP!Statuses, Repo!Statuses, RP!Failures, Repo!Failures
<1>2. RP!VersionRow = Repo!VersionRow
  BY DEF RP!VersionRow, Repo!VersionRow
<1>3. IInv => TypeOK
  BY <1>1, <1>2 DEF IInv, RP!IInv, ServiceTypeOK, Events, TypeOK
<1> QED BY <1>3, Invariance, PTL

(* Every row of skill_versions comes from a request that publish admitted  *)
(* and verified, and that was not refused afterwards; its paths stay       *)
(* inside the skill.  A row with a signature has one of its own manifest   *)
(* and digest, by its own key; one without has at most the shape of a      *)
(* sigstore bundle to vouch for it.                                        *)
THEOREM OnlyPublishable == Spec => []RowsArePublishable
<1>1. IInv => RowsArePublishable
  <2> SUFFICES ASSUME IInv, NEW key \in Repo!Keys, versions[key] # None,
                      NEW t, t = versions[key].id
               PROVE  /\ request[t].op = "publish"
                      /\ Authorised(request[t]) /\ Valid(request[t])
                      /\ \A path \in request[t].payload.manifest.paths : StaysInside(path)
                      /\ key = <<<<request[t].namespace, request[t].name>>,
                                request[t].payload.manifest.version>>
                      /\ versions[key].digest = request[t].digest
                      /\ versions[key].publisher = request[t].headers.subject
                      /\ versions[key].payload = request[t].payload
                      /\ VouchedFor(versions[key])
                      /\ reply[t].status \in {0, 201, 500}
    BY DEF RowsArePublishable
  <2> DEFINE row == versions[key]
             r == request[t]
  <2>1. key \in RP!Keys /\ row \in RP!VersionRow /\ t \in Tasks
    BY DEF IInv, RP!IInv, RP!TypeOK, Repo!Keys, RP!Keys, RP!VersionRow
  <2>2. RP!RowFrom(t, key)
    BY <2>1 DEF IInv, RP!IInv, RP!RowsHaveOneSource
  <2>3. /\ Admitted(t) /\ call[t] = CallOf(r)
        /\ r.op = "publish" => Trusted(r)
        /\ call[t].op = "insert"
        /\ key = <<call[t].skill, call[t].version>>
    BY <2>1, <2>2 DEF RP!RowFrom, RP!Key, IInv, RequestInv, Passed
  <2>4. /\ r.op = "publish" /\ Authorised(r) /\ Valid(r) /\ Trusted(r)
        /\ AllowUnsigned \/ HasSignature(r.payload)
        /\ r.payload.manifest.name = r.name
    BY <2>3, AdmittedCalls DEF Admitted
  <2>5. CallOf(r) = [op |-> "insert", skill |-> <<r.namespace, r.payload.manifest.name>>,
                     version |-> r.payload.manifest.version,
                     visibility |-> Default(r.visibility, "public"),
                     publisher |-> r.headers.subject, digest |-> r.digest,
                     payload |-> r.payload]
    BY <2>4 DEF CallOf
  <2>6. /\ row.digest = r.digest /\ row.publisher = r.headers.subject
        /\ row.payload = r.payload
    <3>1. [row EXCEPT !.yank = None] = [RP!NewVersion(t) EXCEPT !.yank = None]
      BY <2>2 DEF RP!RowFrom, RP!SameExceptYank
    <3>2. /\ [row EXCEPT !.yank = None].digest = row.digest
          /\ [row EXCEPT !.yank = None].publisher = row.publisher
          /\ [row EXCEPT !.yank = None].payload = row.payload
      BY <2>1 DEF RP!VersionRow
    <3>3. /\ [RP!NewVersion(t) EXCEPT !.yank = None].digest = call[t].digest
          /\ [RP!NewVersion(t) EXCEPT !.yank = None].publisher = call[t].publisher
          /\ [RP!NewVersion(t) EXCEPT !.yank = None].payload = call[t].payload
      BY DEF RP!NewVersion
    <3>4. /\ CallOf(r).digest = r.digest /\ CallOf(r).publisher = r.headers.subject
          /\ CallOf(r).payload = r.payload
      BY <2>5
    <3> HIDE DEF row, r
    <3> QED BY <3>1, <3>2, <3>3, <3>4, <2>3
  <2>7. \A path \in r.payload.manifest.paths : StaysInside(path)
    <3>1. r.payload.manifest.paths \subseteq Paths
      BY <2>3, <2>4, RequestsAssumption DEF Admitted, PublishRequests, YankRequests,
         UnyankRequests, Payloads, Manifests
    <3> QED BY <2>4, <3>1, PathsAssumption, AcceptedStaysInside DEF Valid
  <2>8. reply[t].status \in {0, 201, 500}
    <3>1. stage[t] = "done" /\ result[t].status \in {"ok", "database", "abandoned"}
      BY <2>2 DEF RP!RowFrom, RP!Failures
    <3>2. StatusOf(r, "ok") = 201 /\ StatusOf(r, "database") = 500
      BY <2>4 DEF StatusOf
    <3>3. result[t].status # "abandoned" => StatusOf(r, result[t].status) \in {201, 500}
      BY <3>1, <3>2
    <3>4. \/ reply[t].status = 0
          \/ /\ result[t].status # "abandoned"
             /\ reply[t].status = StatusOf(r, result[t].status)
      <4>1. Replied(t) \/ Unreplied(t)
        BY <2>1 DEF IInv, RequestInv, ReplyFits
      <4> HIDE DEF r
      <4> QED BY <3>1, <4>1 DEF Replied, Unreplied, r
    <3> QED BY <3>3, <3>4
  <2>9. key = <<<<r.namespace, r.name>>, r.payload.manifest.version>>
    <3>1. /\ CallOf(r).skill = <<r.namespace, r.name>>
          /\ CallOf(r).version = r.payload.manifest.version
      BY <2>4, <2>5
    <3> QED BY <2>3, <3>1
  <2>10. VouchedFor(row)
    <3>1. CASE r.payload.signature # None
      BY <2>4, <2>6, <3>1 DEF VouchedFor, Trusted
    <3>2. CASE r.payload.signature = None
      <4>1. r.payload.key = None /\ r.payload.bundle # "malformed"
        BY <2>4, <3>2 DEF Trusted
      <4>2. r.payload.bundle \in Bundles
        BY <2>3, <2>4, RequestsAssumption DEF Admitted, PublishRequests, YankRequests,
           UnyankRequests, Payloads
      <4>3. r.payload.bundle = "wellformed" \/ AllowUnsigned
        BY <2>4, <3>2, <4>1, <4>2 DEF HasSignature, Bundles
      <4> QED BY <2>6, <3>2, <4>1, <4>3 DEF VouchedFor
    <3> QED BY <3>1, <3>2
  <2> QED BY <2>4, <2>6, <2>7, <2>8, <2>9, <2>10
<1> QED BY <1>1, Invariance, PTL

(* Every row had its artifact: its url held contents of the digest of the  *)
(* row at some moment after the request came and before the row, whatever  *)
(* the owner of the artifact store does.                                   *)
THEOREM OnlyWithArtifact == Spec => []ArtifactsWereThere
<1>1. Init => ArtifactInv
  BY DEF Init, Repo!Init, ArtifactInv, Provided
<1>2. IInv /\ ArtifactInv => ArtifactsWereThere
  <2> SUFFICES ASSUME IInv, ArtifactInv, NEW key \in Repo!Keys, versions[key] # None
               PROVE  versions[key].id \in seen
    BY DEF ArtifactsWereThere
  <2> DEFINE t == versions[key].id
  <2>1. key \in RP!Keys /\ t \in Tasks
    BY DEF IInv, RP!IInv, RP!TypeOK, Repo!Keys, RP!Keys, RP!VersionRow
  <2>2. call[t].op = "insert" /\ stage[t] = "done"
    BY <2>1 DEF IInv, RP!IInv, RP!RowsHaveOneSource, RP!RowFrom
  <2>3. request[t].op = "publish"
    BY <2>1, <2>2, AdmittedCalls DEF IInv, RequestInv, Passed, Admitted
  <2> QED BY <2>1, <2>2, <2>3 DEF ArtifactInv, Provided
<1> QED BY <1>1, <1>2, ArtifactsKept, Invariance, PTL DEF Spec

(* A publisher that got 201 finds its version stored, with the digest and  *)
(* the record of the response, at any later moment and after restarts.     *)
THEOREM AcksLast == Spec => []AckIsDurable
<1>1. IInv => AckIsDurable
  <2> SUFFICES ASSUME IInv, NEW t \in Tasks, reply[t].status = 201
               PROVE  LET row == versions[<<CallOf(request[t]).skill,
                                            CallOf(request[t]).version>>]
                      IN /\ row # None
                         /\ row.digest = request[t].digest
                         /\ Repo!SameExceptYank(row, reply[t].record)
    BY DEF AckIsDurable
  <2> DEFINE row == versions[<<CallOf(request[t]).skill, CallOf(request[t]).version>>]
  <2>1. RequestInv(t) /\ stage[t] # "idle" /\ phase[t] \in {"replied", "archived"}
    BY DEF IInv, RequestInv, ReplyFits, Replied, Unreplied
  <2>2. /\ result[t].status \notin {"pending", "abandoned"}
        /\ reply[t] = [status |-> StatusOf(request[t], result[t].status),
                       record |-> result[t].record]
        /\ Admitted(t) /\ call[t] = CallOf(request[t])
    BY <2>1 DEF RequestInv, ReplyFits, Replied, Unreplied, Passed
  <2>3. result[t].status \in {"ok", "conflict", "notfound", "database"}
    BY <2>2 DEF IInv, RP!IInv, RP!TypeOK, RP!Statuses, RP!Failures
  <2>4. StatusOf(request[t], result[t].status) = 201
    BY <2>2
  <2>5. result[t].status = "ok" /\ request[t].op = "publish"
    BY <2>3, <2>4 DEF StatusOf
  <2>6. /\ row # None /\ call[t].op = "insert"
        /\ result[t].record.digest = call[t].digest
        /\ RP!SameExceptYank(result[t].record, row)
    BY <2>2, <2>5, AdmittedCalls DEF IInv, RP!IInv, RP!OkMeansStored, RP!Key, Admitted
  <2>7. call[t].digest = request[t].digest
    BY <2>2, <2>5 DEF CallOf
  <2>8. row.digest = request[t].digest
    <3>1. <<CallOf(request[t]).skill, CallOf(request[t]).version>> \in RP!Keys
      BY <2>2, AdmittedCalls DEF Admitted, RP!Keys, Repo!InsertCall, Repo!MarkCall
    <3>2. row \in RP!VersionRow /\ result[t].record \in RP!VersionRow \cup {None}
      BY <2>6, <3>1 DEF IInv, RP!IInv, RP!TypeOK
    <3>3. [row EXCEPT !.yank = None].digest = row.digest
      BY <3>2 DEF RP!VersionRow
    <3>4. [result[t].record EXCEPT !.yank = None].digest = result[t].record.digest
      OBVIOUS
    <3> HIDE DEF row
    <3> QED BY <2>6, <2>7, <3>3, <3>4 DEF RP!SameExceptYank
  <2>9. Repo!SameExceptYank(row, reply[t].record)
    BY <2>2, <2>6 DEF RP!SameExceptYank, Repo!SameExceptYank
  <2> QED BY <2>6, <2>8, <2>9
<1> QED BY <1>1, Invariance, PTL

(* RuntimeWebhookQueue holds one event for each publish and yank that this *)
(* process answered with success, and no other.                            *)
THEOREM QueueIsRight == Spec => []QueueMatchesReplies
<1>1. IInv => QueueMatchesReplies
  BY DEF IInv, QueueInv, QueueMatchesReplies, Events, Announcers, Succeeded, Successes
<1> QED BY <1>1, Invariance, PTL

(* No event in the queue stands before the row it is about: it has been    *)
(* announced by a request that was answered with success, and that found   *)
(* the version or stored it.                                               *)
THEOREM EventsComeAfter == Spec => []EventsFollowRows
<1>1. IInv => EventsFollowRows
  <2> SUFFICES ASSUME IInv, NEW i \in DOMAIN events
               PROVE  versions[<<events[i].skill, events[i].version>>] # None
    BY DEF EventsFollowRows
  <2> DEFINE event == events[i]
             at == {j \in DOMAIN events : events[j] = event}
  <2>1. event \in Events /\ DOMAIN events = 1..Len(events) /\ Len(events) \in Nat
    BY DEF IInv, ServiceTypeOK
  <2>2. Cardinality(at) # 0
    <3>1. IsFiniteSet(at)
      <4>1. IsFiniteSet(1..Len(events))
        BY <2>1, FS_Interval
      <4> QED BY <2>1, <4>1, FS_Subset
    <3>2. i \in at
      OBVIOUS
    <3> QED BY <3>1, <3>2, FS_EmptySet
  <2>3. Announcers(event) # {}
    <3>1. Cardinality(Announcers(event)) = Cardinality(at)
      BY <2>1 DEF IInv, QueueInv, Occurrences
    <3> QED BY <2>2, <3>1, FS_EmptySet
  <2>4. PICK t \in Tasks : Succeeded(t) /\ EventOf(request[t]) = event
    BY <2>3 DEF Announcers
  <2>5. RequestInv(t) /\ stage[t] # "idle"
    BY <2>4 DEF IInv, RequestInv, ReplyFits, Replied, Unreplied, Succeeded
  <2>6. /\ result[t].status \notin {"pending", "abandoned"}
        /\ StatusOf(request[t], result[t].status) \in {201, 204}
        /\ call[t] = CallOf(request[t])
    BY <2>4, <2>5 DEF RequestInv, ReplyFits, Replied, Unreplied, Passed, Succeeded
  <2>7. result[t].status \in {"ok", "conflict", "notfound", "database"}
    BY <2>6 DEF IInv, RP!IInv, RP!TypeOK, RP!Statuses, RP!Failures
  <2>8. result[t].status = "ok"
    BY <2>6, <2>7 DEF StatusOf
  <2>9. versions[<<call[t].skill, call[t].version>>] # None
    BY <2>8 DEF IInv, RP!IInv, RP!OkMeansStored, RP!Key
  <2> QED BY <2>4, <2>6, <2>9 DEF EventOf
<1> QED BY <1>1, Invariance, PTL

(* A version changes only for a call that was made with the right to, and  *)
(* that has been answered by nothing but a 500; and for a request that is  *)
(* not served any more, no statement is begun.                             *)
THEOREM NoStrayChange == Spec => OnlyOwedChanges
<1> DEFINE Owed == /\ \A key \in Repo!Keys : versions'[key] # versions[key] =>
                        \E t \in Tasks : OwedTo(t, key)
                   /\ \A t \in Tasks : stage'[t] # stage[t] =>
                        phase'[t] = "storing" \/ stage'[t] \in {"rollback", "done"}
<1>1. IInv /\ [Next]_vars => [Owed]_vars
  <2> SUFFICES ASSUME IInv, Next PROVE Owed
    OBVIOUS
  <2>1. ASSUME NEW t \in Tasks, Frame(t), phase'[t] = phase[t] \/ Repo!Fail(t, "abandoned")
        PROVE  Owed
    <3>1. /\ stage[t] # "idle" /\ RequestInv(t)
          /\ \A key \in Repo!Keys : versions'[key] # versions[key] =>
               key = <<call[t].skill, call[t].version>> /\ stage[t] \in {"commit", "execute"}
      BY <2>1 DEF Frame, IInv, Repo!Keys, RP!Keys
    <3>2. /\ call[t] = CallOf(request[t]) /\ call[t] # None /\ Authorised(request[t])
      BY <3>1, AdmittedCalls, RepoAssumption DEF RequestInv, Passed, Admitted
    <3>3. stage[t] \in {"commit", "execute"} => reply[t].status \in {0, 500}
      <4>1. stage[t] \in {"commit", "execute"} =>
              result[t].status \in {"pending", "database", "abandoned"}
        BY DEF IInv, RP!IInv, RP!TaskInv, RP!Answered, RP!Failures
      <4>2. StatusOf(request[t], "database") = 500
        BY DEF StatusOf
      <4> QED BY <3>1, <4>1, <4>2 DEF RequestInv, ReplyFits, Replied, Unreplied
    <3>4. stage'[t] # stage[t] => phase'[t] = "storing" \/ stage'[t] \in {"rollback", "done"}
      <4>1. CASE result[t].status # "pending"
        BY <2>1, <4>1 DEF Frame
      <4>2. CASE result[t].status = "pending" /\ phase'[t] = phase[t]
        BY <3>1, <4>2 DEF RequestInv, NoneForgotten, Live
      <4>3. CASE Repo!Fail(t, "abandoned")
        BY <4>3 DEF Repo!Fail, Repo!Close, Repo!Goto, IInv, RP!IInv, RP!TypeOK
      <4> QED BY <2>1, <4>1, <4>2, <4>3
    <3> QED BY <2>1, <3>1, <3>2, <3>3, <3>4 DEF Frame, OwedTo
  <2>2. CASE versions' = versions /\ stage' = stage
    BY <2>2
  <2>3. ASSUME NEW t \in Tasks, RepoStep(t)
        PROVE  Owed
    <3>1. Frame(t) /\ phase' = phase
      BY <2>3, RepoFrame DEF RepoStep, Repo!Failures, serviceVars, IInv
    <3> QED BY <2>1, <3>1
  <2>4. ASSUME NEW t \in Tasks, Cancel(t)
        PROVE  Owed
    <3>1. CASE Repo!Fail(t, "abandoned")
      <4>1. Frame(t)
        BY <3>1, RepoFrame DEF IInv, Repo!Trouble, Repo!Failures
      <4> QED BY <2>1, <3>1, <4>1
    <3> QED BY <2>2, <2>4, <3>1 DEF Cancel, repoVars
  <2>5. ASSUME NEW t \in Tasks,
               \/ \E r \in Requests : Receive(t, r)
               \/ Verify(t) \/ Unreachable(t) \/ Finish(t)
        PROVE  Owed
    <3>1. ASSUME NEW c, Repo!Call(t, c), Goto(t, "storing") PROVE Owed
      BY <3>1 DEF Repo!Call, Repo!Goto, Goto, IInv, ServiceTypeOK, RP!IInv, RP!TypeOK
    <3>2. CASE UNCHANGED repoVars
      BY <2>2, <3>2 DEF repoVars
    <3> QED BY <2>5, <3>1, <3>2 DEF Receive, Verify, Unreachable, Finish
  <2>6. CASE Restart
    BY <2>6 DEF Restart, Repo!Crash, repoVars
  <2>7. CASE ChangeStore \/ Finished
    BY <2>2, <2>7 DEF ChangeStore, Finished, vars, repoVars
  <2> QED BY <2>3, <2>4, <2>5, <2>6, <2>7 DEF Next
<1> QED BY <1>1, Invariance, PTL DEF Spec, OnlyOwedChanges

(* A step of the service is a step of the repository, or leaves it alone.  *)
LEMMA StepOfCaller ==
  ASSUME IInv, [Next]_vars
  PROVE  [Repo!Next]_(Repo!vars) /\ [RP!Next]_(RP!vars)
<1>1. [Repo!Next]_(Repo!vars)
  <2> SUFFICES ASSUME ~UNCHANGED repoVars PROVE Repo!Next
    BY DEF repoVars, Repo!vars
  <2>1. ASSUME NEW t \in Tasks, NEW r \in Requests, Receive(t, r) PROVE Repo!Next
    BY <2>1, AdmittedCalls DEF Receive, Repo!Next
  <2>2. ASSUME NEW t \in Tasks, Verify(t) PROVE Repo!Next
    <3>1. Admitted(t)
      BY <2>2 DEF Verify, IInv, RequestInv, Waiting
    <3> QED BY <2>2, <3>1, AdmittedCalls DEF Verify, Admitted, Repo!Next
  <2>3. ASSUME NEW t \in Tasks, RepoStep(t) \/ Cancel(t) PROVE Repo!Next
    BY <2>3 DEF RepoStep, Cancel, Repo!Next, Repo!Step, Repo!Failures, Repo!Trouble
  <2>4. ASSUME NEW t \in Tasks, Unreachable(t) \/ Finish(t) PROVE FALSE
    BY <2>4 DEF Unreachable, Finish
  <2>5. CASE Restart \/ ChangeStore \/ Finished \/ UNCHANGED vars
    BY <2>5 DEF Restart, ChangeStore, Finished, vars, Repo!Next
  <2> QED BY <2>1, <2>2, <2>3, <2>4, <2>5 DEF Next
<1>2. CASE \E t \in Tasks : Repo!Step(t) \/ \E c \in RepoCalls : Repo!Call(t, c)
  <2>1. RP!Next
    BY <1>2, SameSteps DEF Repo!Step, RP!Step, RP!Next
  <2> QED BY <1>1, <2>1
<1>3. CASE Repo!Crash
  BY <1>1, <1>3, SameSteps DEF RP!Next
<1>4. CASE UNCHANGED Repo!vars
  BY <1>1, <1>4 DEF Repo!vars, RP!vars
<1> QED BY <1>1, <1>2, <1>3, <1>4 DEF Repo!Next, Repo!Finished

(* The service implements a caller of PgRepository: it calls insert and    *)
(* mark with admitted arguments, drops calls and dies, and touches the     *)
(* tables in no other way.                                                 *)
THEOREM ServiceIsCaller == Spec => UsesRepository
<1>1. Init => Repo!Init
  BY DEF Init
<1> QED BY <1>1, StepOfCaller, Invariance, PTL DEF Spec, UsesRepository, Repo!Spec

(* So the tables of a hub that serves requests, loses clients and restarts *)
(* change as Registry says, one whole operation at a time.                 *)
THEOREM ServiceIsRegistry == Spec => RP!ImplementsRegistry
<1>1. RP!IInv /\ [RP!Next]_(RP!vars) => [RP!Abstract!Next]_(RP!Abstract!vars)
  BY RP!StepRefines, RepoAssumptions
<1>2. IInv /\ [Next]_vars => [RP!Next]_(RP!vars)
  BY StepOfCaller
<1>3. Init => RP!Abstract!Init
  BY DEF Init, Repo!Init, RP!Abstract!Init, RP!Abstract!Keys, Repo!Keys
<1>4. IInv => RP!IInv
  BY DEF IInv
<1> QED BY <1>1, <1>2, <1>3, <1>4, Invariance, PTL
        DEF Spec, RP!ImplementsRegistry, RP!Abstract!Spec

-----------------------------------------------------------------------------
(* Each request takes effect at one moment.                                *)

(* A task has called the repository once it has left "idle" there.         *)
LEMMA CalledSince ==
  ASSUME IInv, NEW t \in Tasks
  PROVE  /\ call[t] = None <=> stage[t] = "idle"
         /\ phase[t] = "storing" => call[t] # None
         /\ phase[t] \in {"idle", "verifying"} => call[t] = None
<1>1. RequestInv(t) /\ RP!CallFits(t)
  BY DEF IInv, RP!IInv, RP!TaskInv
<1>2. call[t] = None <=> stage[t] = "idle"
  BY <1>1, RepoAssumptions DEF RP!CallFits
<1> QED BY <1>1, <1>2 DEF RequestInv, Passed, Waiting

(* The repository as HubService and as PgRepositoryProofs see it.          *)
LEMMA SameSight == /\ Repo!Met = RP!Met /\ Repo!Due = RP!Due
                   /\ Repo!Met' = RP!Met' /\ Repo!Due' = RP!Due'
  BY DEF Repo!Met, RP!Met, Repo!Due, RP!Due, Repo!Reading, RP!Reading, Repo!Awaited, RP!Awaited

(* To its client a request is open as long as it is served; what it may    *)
(* still be told is what its call of the repository may still find.        *)
LEMMA OpenIsServed ==
  ASSUME IInv, NEW t \in Tasks
  PROVE  /\ AtomicRequests!Open(t) <=> phase[t] = "storing"
         /\ RP!Atomic!Open(t) <=> phase[t] = "storing" /\ result[t].status = "pending"
         /\ RP!Atomic!Open(t) => Known[t] = RP!Met[t]
         /\ AtomicRequests!Asking(t) <=> RP!Atomic!Asking(t)
<1>1. RequestInv(t)
  BY DEF IInv
<1>2. AtomicRequests!Open(t) <=> phase[t] = "storing"
  <2>1. Told[t].status = "pending" <=> call[t] = None \/ phase[t] = "storing"
    BY DEF Told, ToldStatus, Meaning
  <2> QED BY <2>1, CalledSince DEF AtomicRequests!Open
<1>3. RP!Atomic!Open(t) <=> phase[t] = "storing" /\ result[t].status = "pending"
  BY <1>1, CalledSince DEF RP!Atomic!Open, RequestInv, NoneForgotten, Live
<1>4. RP!Atomic!Open(t) => Known[t] = RP!Met[t]
  BY <1>3, SameSight DEF Known, KnownOf
<1>5. phase[t] = "storing" /\ result[t].status # "pending" =>
        Known[t] # AtomicRequests!Unknown
  BY DEF Known, KnownOf, AtomicRequests!Unknown
<1>6. AtomicRequests!Unknown = RP!Atomic!Unknown
  BY DEF AtomicRequests!Unknown, RP!Atomic!Unknown
<1> QED BY <1>2, <1>3, <1>4, <1>5, <1>6 DEF AtomicRequests!Asking, RP!Atomic!Asking

(* A step the clients do not see.                                          *)
LEMMA ToldNothing ==
  ASSUME UNCHANGED <<call, result, phase, request, reply>>, RP!Met' = RP!Met
  PROVE  UNCHANGED <<Known, Told>>
<1>1. \A u \in Tasks : KnownOf(u)' = KnownOf(u) /\ ToldStatus(u)' = ToldStatus(u)
  BY SameSight DEF KnownOf, ToldStatus
<1> QED BY <1>1 DEF Known, Told

(* What the repository finds while the handler awaits it is not told yet.  *)
LEMMA SayLifts ==
  ASSUME IInv, NEW t \in Tasks, RP!Atomic!Open(t), UNCHANGED <<call, request, phase, reply>>,
         NEW status, NEW record, status # "pending", RP!Atomic!Say(t, status, record)
  PROVE  AtomicRequests!Say(t, status, record)
<1> DEFINE answer == [status |-> status, record |-> record]
<1>1. phase[t] = "storing" /\ result[t].status = "pending"
  BY OpenIsServed
<1>2. Told' = Told
  BY DEF Told, ToldStatus
<1>3. result \in [Tasks -> [status : RP!Statuses, record : RP!VersionRow \cup {None}]]
  BY DEF IInv, RP!IInv, RP!TypeOK
<1>4. ASSUME NEW u \in Tasks \ {t} PROVE KnownOf(u)' = KnownOf(u)
  <2>1. result'[u] = result[u] /\ RP!Met'[u] = RP!Met[u]
    BY <1>3 DEF RP!Atomic!Say, RP!Met
  <2> QED BY <2>1, SameSight DEF KnownOf
<1>5. KnownOf(t)' = answer
  <2>1. CASE RP!Met' = [RP!Met EXCEPT ![t] = answer] /\ result' = result
    <3>1. RP!Met'[t] = answer
      BY <2>1 DEF RP!Met
    <3> QED BY <1>1, <2>1, <3>1, SameSight DEF KnownOf
  <2>2. CASE result' = [result EXCEPT ![t] = answer]
    BY <1>1, <1>3, <2>2 DEF KnownOf
  <2> QED BY <2>1, <2>2 DEF RP!Atomic!Say
<1>6. Known' = [Known EXCEPT ![t] = answer]
  BY <1>4, <1>5 DEF Known
<1> QED BY <1>2, <1>6 DEF AtomicRequests!Say

LEMMA FindLifts ==
  ASSUME IInv, NEW t \in Tasks, UNCHANGED <<call, request, phase, reply>>,
         NEW status, NEW record, status # "pending", RP!Atomic!Find(t, status, record)
  PROVE  AtomicRequests!Find(t, status, record)
<1>1. CASE RP!Atomic!Asking(t)
  BY <1>1, SayLifts, OpenIsServed DEF RP!Atomic!Find, RP!Atomic!Asking, AtomicRequests!Find
<1>2. CASE ~RP!Atomic!Asking(t)
  BY <1>2, ToldNothing, OpenIsServed DEF RP!Atomic!Find, AtomicRequests!Find
<1> QED BY <1>1, <1>2

(* The two instances of AtomicCalls speak of one table.                    *)
LEMMA SamePublish ==
  ASSUME NEW k, NEW v, NEW visibility, NEW row,
         RP!Atomic!Tables!Publish(k, v, visibility, row)
  PROVE  AtomicRequests!Tables!Publish(k, v, visibility, row)
BY DEF RP!Atomic!Tables!Publish, AtomicRequests!Tables!Publish,
       RP!Atomic!Tables!Fresh, AtomicRequests!Tables!Fresh,
       RP!Atomic!Tables!Keys, AtomicRequests!Tables!Keys,
       RP!Atomic!Tables!SkillAfter, AtomicRequests!Tables!SkillAfter

LEMMA ActLifts ==
  ASSUME IInv, NEW t \in Tasks, UNCHANGED serviceVars, RP!Atomic!Act(t)
  PROVE  AtomicRequests!Act(t)
<1>1. UNCHANGED <<call, request, phase, reply>>
  BY DEF RP!Atomic!Act, RP!Atomic!Insert, RP!Atomic!Meet, RP!Atomic!Refuse, RP!Atomic!Mark,
         RP!Atomic!Miss, RP!Atomic!Spoil, RP!Atomic!Return, RP!Atomic!GiveUp, RP!Atomic!Moment,
         serviceVars
<1>2. /\ AtomicRequests!Key(t) = RP!Atomic!Key(t)
      /\ AtomicRequests!RowOf(t) = RP!Atomic!RowOf(t)
      /\ AtomicRequests!Unknown = RP!Atomic!Unknown
      /\ \A op : RP!Atomic!Moment(t, op) => AtomicRequests!Moment(t, op)
  BY SameSight DEF AtomicRequests!Key, RP!Atomic!Key, AtomicRequests!RowOf, RP!Atomic!RowOf,
     AtomicRequests!Unknown, RP!Atomic!Unknown, AtomicRequests!Moment, RP!Atomic!Moment
<1>3. \A status, record : status # "pending" /\ RP!Atomic!Find(t, status, record)
                             => AtomicRequests!Find(t, status, record)
  BY <1>1, FindLifts
<1>4. \A status, record : status # "pending" /\ RP!Atomic!Open(t)
                          /\ RP!Atomic!Say(t, status, record)
                             => AtomicRequests!Say(t, status, record)
  BY <1>1, SayLifts
<1>5. RP!Failures = {"database", "abandoned"}
  BY DEF RP!Failures
<1>6. \A record : RP!Atomic!Acknowledge(t, record) => AtomicRequests!Acknowledge(t, record)
  BY <1>3, <1>5 DEF RP!Atomic!Acknowledge, AtomicRequests!Acknowledge
<1>7. CASE RP!Atomic!Insert(t)
  <2>1. AtomicRequests!Tables!Publish(call[t].skill, call[t].version, call[t].visibility,
                                      RP!Atomic!RowOf(t))
    BY <1>7, SamePublish DEF RP!Atomic!Insert
  <2>2. AtomicRequests!Insert(t)
    BY <1>2, <1>6, <1>7, <2>1 DEF RP!Atomic!Insert, AtomicRequests!Insert
  <2> QED BY <2>2 DEF AtomicRequests!Act
<1>8. CASE RP!Atomic!Meet(t)
  <2>1. AtomicRequests!Meet(t)
    BY <1>2, <1>3, <1>8 DEF RP!Atomic!Meet, AtomicRequests!Meet
  <2> QED BY <2>1 DEF AtomicRequests!Act
<1>9. CASE RP!Atomic!Refuse(t)
  <2>1. AtomicRequests!Refuse(t)
    BY <1>2, <1>3, <1>9 DEF RP!Atomic!Refuse, AtomicRequests!Refuse
  <2> QED BY <2>1 DEF AtomicRequests!Act
<1>10. CASE RP!Atomic!Mark(t)
  <2>1. AtomicRequests!Tables!Mark(call[t].skill, call[t].version, call[t].mark)
    BY <1>10 DEF RP!Atomic!Mark, RP!Atomic!Tables!Mark, AtomicRequests!Tables!Mark
  <2>2. AtomicRequests!Mark(t)
    BY <1>2, <1>6, <1>10, <2>1 DEF RP!Atomic!Mark, AtomicRequests!Mark
  <2> QED BY <2>2 DEF AtomicRequests!Act
<1>11. CASE RP!Atomic!Miss(t)
  <2>1. AtomicRequests!Miss(t)
    BY <1>2, <1>3, <1>11 DEF RP!Atomic!Miss, AtomicRequests!Miss
  <2> QED BY <2>1 DEF AtomicRequests!Act
<1>12. CASE RP!Atomic!Spoil(t)
  <2>1. AtomicRequests!Open(t) /\ Repo!Due' \in {Repo!Due, Repo!Due \ {t}}
    BY <1>12, OpenIsServed, SameSight DEF RP!Atomic!Spoil
  <2>2. AtomicRequests!Spoil(t)
    BY <1>4, <1>5, <1>12, <2>1 DEF RP!Atomic!Spoil, AtomicRequests!Spoil
  <2> QED BY <2>2 DEF AtomicRequests!Act
<1>13. CASE RP!Atomic!Return(t)
  <2>1. RP!Met[t].status = "ok"
    BY <1>13 DEF RP!Atomic!Return, RP!Met, RP!Atomic!Unknown
  <2>2. AtomicRequests!Open(t) /\ Known[t] = RP!Met[t]
    BY <1>13, OpenIsServed DEF RP!Atomic!Return
  <2>3. AtomicRequests!Return(t)
    BY <1>2, <1>4, <1>13, <2>1, <2>2, SameSight DEF RP!Atomic!Return, AtomicRequests!Return
  <2> QED BY <2>3 DEF AtomicRequests!Act
<1>14. CASE RP!Atomic!GiveUp(t)
  <2>1. UNCHANGED <<Known, Told>>
    BY <1>1, <1>14, ToldNothing DEF RP!Atomic!GiveUp
  <2>2. AtomicRequests!GiveUp(t)
    BY <1>14, <2>1, OpenIsServed, SameSight DEF RP!Atomic!GiveUp, AtomicRequests!GiveUp
  <2> QED BY <2>2 DEF AtomicRequests!Act
<1> QED BY <1>7, <1>8, <1>9, <1>10, <1>11, <1>12, <1>13, <1>14 DEF RP!Atomic!Act

LEMMA RepoStepIsAtomic ==
  ASSUME IInv, NEW t \in Tasks, RepoStep(t)
  PROVE  AtomicRequests!Act(t) \/ UNCHANGED AtomicRequests!vars
<1>1. RP!Atomic!Act(t) \/ UNCHANGED RP!Atomic!vars
  <2>1. RP!Step(t) /\ RP!IInv
    BY SameSteps DEF RepoStep, RP!Step, Repo!Failures, IInv
  <2> QED BY <2>1, RP!TaskIsAtomic, RepoAssumptions
<1>2. UNCHANGED serviceVars
  BY DEF RepoStep
<1>3. CASE UNCHANGED RP!Atomic!vars
  <2>1. UNCHANGED <<call, result, phase, request, reply>> /\ RP!Met' = RP!Met
    BY <1>2, <1>3 DEF RP!Atomic!vars, serviceVars
  <2> QED BY <1>3, <2>1, ToldNothing, SameSight DEF RP!Atomic!vars, AtomicRequests!vars
<1> QED BY <1>1, <1>2, <1>3, ActLifts

(* The answer a client never gets, because it has left.                    *)
LEMMA GoneIsLost ==
  ASSUME IInv, NEW t \in Tasks, phase[t] = "storing", Goto(t, "gone"),
         UNCHANGED <<request, reply, call>>, \A u \in Tasks \ {t} : KnownOf(u)' = KnownOf(u)
  PROVE  AtomicRequests!Open(t) /\ AtomicRequests!Say(t, "abandoned", None)
<1>1. AtomicRequests!Open(t) /\ call[t] # None /\ reply[t].status = 0 /\ reply[t].record = None
  BY OpenIsServed, CalledSince DEF IInv, RequestInv, ReplyFits, Unreplied
<1>2. phase'[t] = "gone" /\ \A u \in Tasks \ {t} : phase'[u] = phase[u]
  BY DEF Goto, IInv, ServiceTypeOK
<1>3. Known' = [Known EXCEPT ![t] = AtomicRequests!Unknown]
  <2>1. KnownOf(t)' = AtomicRequests!Unknown
    BY <1>2 DEF KnownOf, AtomicRequests!Unknown
  <2> QED BY <2>1 DEF Known
<1>4. Told' = [Told EXCEPT ![t] = [status |-> "abandoned", record |-> None]]
  <2>1. ToldStatus(t)' = "abandoned"
    BY <1>1, <1>2 DEF ToldStatus
  <2>2. ASSUME NEW u \in Tasks \ {t} PROVE ToldStatus(u)' = ToldStatus(u)
    BY <1>2 DEF ToldStatus
  <2> QED BY <1>1, <2>1, <2>2 DEF Told
<1> QED BY <1>1, <1>3, <1>4 DEF AtomicRequests!Say

(* A client that leaves drops the call: a statement of it that is on its   *)
(* way may still have its moment.                                          *)
LEMMA CancelIsAtomic ==
  ASSUME IInv, NEW t \in Tasks, Cancel(t)
  PROVE  AtomicRequests!Act(t) \/ UNCHANGED AtomicRequests!vars
<1>1. /\ Goto(t, "gone") /\ phase'[t] = "gone"
      /\ \A u \in Tasks \ {t} : phase'[u] = phase[u]
      /\ UNCHANGED <<request, reply>>
  BY DEF Cancel, Goto, IInv, ServiceTypeOK
<1>2. CASE phase[t] = "storing" /\ result[t].status = "pending"
  <2>1. RP!Fail(t, "abandoned") /\ "abandoned" \in RP!Failures /\ RP!IInv
    BY <1>2 DEF Cancel, Repo!Fail, RP!Fail, Repo!Awaited, RP!Awaited, Repo!Answer, RP!Answer,
       Repo!Close, RP!Close, Repo!Goto, RP!Goto, Repo!Leave, RP!Leave, Repo!Sendable,
       RP!Sendable, RP!Failures, IInv
  <2>2. RP!Atomic!Spoil(t)
    BY <2>1, RP!FailIsAtomic, RepoAssumptions
  <2>3. \A u \in Tasks \ {t} : KnownOf(u)' = KnownOf(u)
    <3>1. result \in [Tasks -> [status : RP!Statuses, record : RP!VersionRow \cup {None}]]
      BY DEF IInv, RP!IInv, RP!TypeOK
    <3>2. \A u \in Tasks \ {t} : RP!Met'[u] = RP!Met[u] /\ result'[u] = result[u]
      BY <2>2, <3>1 DEF RP!Atomic!Spoil, RP!Atomic!Say, RP!Met
    <3> QED BY <1>1, <3>2, SameSight DEF KnownOf
  <2>4. AtomicRequests!Open(t) /\ AtomicRequests!Say(t, "abandoned", None)
    BY <1>1, <1>2, <2>2, <2>3, GoneIsLost DEF RP!Atomic!Spoil
  <2>5. AtomicRequests!Spoil(t)
    BY <2>2, <2>4, SameSight DEF RP!Atomic!Spoil, AtomicRequests!Spoil
  <2> QED BY <2>5 DEF AtomicRequests!Act
<1>3. CASE ~(phase[t] = "storing" /\ result[t].status = "pending")
  <2>1. /\ UNCHANGED <<skills, versions, call, result>> /\ UNCHANGED <<Repo!Met, Repo!Due>>
        /\ phase[t] \in {"verifying", "storing"}
    BY <1>3 DEF Cancel, repoVars, Repo!Met, Repo!Due, Repo!Reading, Repo!Awaited, InFlight
  <2>2. \A u \in Tasks \ {t} : KnownOf(u)' = KnownOf(u) /\ ToldStatus(u)' = ToldStatus(u)
    BY <1>1, <2>1 DEF KnownOf, ToldStatus
  <2>3. CASE phase[t] = "storing"
    <3>1. AtomicRequests!Open(t) /\ AtomicRequests!Say(t, "abandoned", None)
      BY <1>1, <2>1, <2>2, <2>3, GoneIsLost
    <3> QED BY <2>1, <3>1 DEF AtomicRequests!Act, AtomicRequests!Spoil
  <2>4. CASE phase[t] = "verifying"
    <3>1. KnownOf(t)' = KnownOf(t) /\ ToldStatus(t)' = ToldStatus(t)
      BY <1>1, <2>1, <2>4, CalledSince DEF KnownOf, ToldStatus
    <3> QED BY <1>1, <2>1, <2>2, <3>1 DEF AtomicRequests!vars, Known, Told
  <2> QED BY <2>1, <2>3, <2>4
<1> QED BY <1>2, <1>3

(* The handler tells what the repository found.                            *)
LEMMA FinishIsAtomic ==
  ASSUME IInv, NEW t \in Tasks, Finish(t)
  PROVE  AtomicRequests!Act(t)
<1>1. /\ phase[t] = "storing" /\ result[t].status \notin {"pending", "abandoned"}
      /\ UNCHANGED <<repoVars, request>>
      /\ Respond(t, StatusOf(request[t], result[t].status), result[t].record)
  BY DEF Finish
<1>2. /\ result[t] = [status |-> result[t].status, record |-> result[t].record]
      /\ result[t].status \in {"ok", "conflict", "notfound", "database"}
  BY <1>1 DEF IInv, RP!IInv, RP!TypeOK, RP!Statuses, RP!Failures
<1>3. /\ phase'[t] = "replied"
      /\ reply'[t] = [status |-> StatusOf(request[t], result[t].status),
                      record |-> result[t].record]
      /\ \A u \in Tasks \ {t} : phase'[u] = phase[u] /\ reply'[u] = reply[u]
  BY <1>1 DEF Respond, Goto, IInv, ServiceTypeOK
<1>4. UNCHANGED <<skills, versions, call, result>> /\ UNCHANGED <<Repo!Met, Repo!Due>>
      /\ call[t] # None /\ AtomicRequests!Open(t)
  BY <1>1, OpenIsServed, CalledSince
     DEF repoVars, Repo!Met, Repo!Due, Repo!Reading, Repo!Awaited
<1>5. Known[t] = result[t] /\ Known[t] # AtomicRequests!Unknown
  BY <1>1, <1>2 DEF Known, KnownOf, AtomicRequests!Unknown
<1>6. Known' = [Known EXCEPT ![t] = AtomicRequests!Unknown]
  <2>1. KnownOf(t)' = AtomicRequests!Unknown
    BY <1>3 DEF KnownOf, AtomicRequests!Unknown
  <2>2. \A u \in Tasks \ {t} : KnownOf(u)' = KnownOf(u)
    BY <1>3, <1>4 DEF KnownOf
  <2> QED BY <2>1, <2>2 DEF Known
<1>7. Told' = [Told EXCEPT ![t] = [status |-> result[t].status, record |-> result[t].record]]
  <2>1. /\ Meaning(StatusOf(request[t], result[t].status)) = result[t].status
        /\ StatusOf(request[t], result[t].status) # 0
    BY <1>2 DEF Meaning, StatusOf
  <2>2. ToldStatus(t)' = result[t].status
    BY <1>3, <1>4, <2>1 DEF ToldStatus
  <2>3. \A u \in Tasks \ {t} : ToldStatus(u)' = ToldStatus(u)
    BY <1>3, <1>4 DEF ToldStatus
  <2>4. reply'[t].record = result[t].record /\ \A u \in Tasks \ {t} : reply'[u] = reply[u]
    BY <1>3
  <2> QED BY <2>2, <2>3, <2>4 DEF Told
<1>8. AtomicRequests!Return(t)
  BY <1>4, <1>5, <1>6, <1>7 DEF AtomicRequests!Return, AtomicRequests!Say
<1> QED BY <1>8 DEF AtomicRequests!Act

(* What a request that gets to the repository asks for.                    *)
LEMMA AskIsAtomic ==
  ASSUME IInv, NEW t \in Tasks, phase[t] \in {"idle", "verifying"},
         request'[t] \in Requests, Refusal(request'[t]) = 0,
         Repo!Call(t, CallOf(request'[t])), Goto(t, "storing"), reply' = reply,
         \A u \in Tasks \ {t} : request'[u] = request[u]
  PROVE  AtomicRequests!Invoke(t, CallOf(request'[t])) /\ CallOf(request'[t]) \in RepoCalls
<1> DEFINE c == CallOf(request'[t])
<1>1. c \in RepoCalls /\ c # None
  BY AdmittedCalls, RepoAssumption
<1>2. RP!Atomic!Invoke(t, c)
  BY <1>1, SameSteps, RP!CallIsAtomic, RepoAssumptions DEF IInv
<1>3. /\ call[t] = None /\ call'[t] = c
      /\ \A u \in Tasks \ {t} : call'[u] = call[u]
      /\ UNCHANGED result
  BY CalledSince DEF Repo!Call, IInv, RP!IInv, RP!TypeOK
<1>4. /\ phase'[t] = "storing" /\ \A u \in Tasks \ {t} : phase'[u] = phase[u]
  BY DEF Goto, IInv, ServiceTypeOK
<1>5. Known' = Known
  <2>1. KnownOf(t)' = KnownOf(t)
    <3>1. stage[t] = "idle" /\ RP!Met' = RP!Met
      BY <1>2, <1>3, CalledSince DEF RP!Atomic!Invoke
    <3>2. result[t].status = "pending"
      BY <3>1 DEF IInv, RP!IInv, RP!TaskInv, RP!Answered, RP!Sendable
    <3>3. RP!Met[t] = [status |-> "pending", record |-> None]
      BY <3>1 DEF RP!Met, RP!Reading
    <3> QED BY <1>3, <1>4, <3>1, <3>2, <3>3, SameSight DEF KnownOf
  <2>2. ASSUME NEW u \in Tasks \ {t} PROVE KnownOf(u)' = KnownOf(u)
    BY <1>2, <1>3, <1>4, SameSight DEF KnownOf, RP!Atomic!Invoke
  <2> QED BY <2>1, <2>2 DEF Known
<1>6. Told' = Told
  <2>1. \A u \in Tasks : ToldStatus(u)' = ToldStatus(u)
    BY <1>3, <1>4 DEF ToldStatus
  <2> QED BY <2>1 DEF Told
<1> QED BY <1>1, <1>2, <1>5, <1>6, SameSight DEF RP!Atomic!Invoke, AtomicRequests!Invoke

(* Nobody was asked anything: a refusal, or a wait for the artifact store. *)
LEMMA NotAskedIsSilent ==
  ASSUME IInv, NEW t \in Tasks, call[t] = None, phase[t] # "storing",
         NEW p \in {"replied", "verifying"}, Goto(t, p), UNCHANGED repoVars,
         \A u \in Tasks \ {t} : request'[u] = request[u],
         \/ reply' = reply
         \/ \E status : reply' = [reply EXCEPT ![t] = [status |-> status, record |-> None]]
  PROVE  UNCHANGED AtomicRequests!vars
<1>1. /\ UNCHANGED <<skills, versions, call, result>> /\ UNCHANGED <<Repo!Met, Repo!Due>>
      /\ phase'[t] = p /\ \A u \in Tasks \ {t} : phase'[u] = phase[u]
  BY DEF repoVars, Repo!Met, Repo!Due, Repo!Reading, Repo!Awaited, Goto, IInv, ServiceTypeOK
<1>2. /\ \A u \in Tasks : reply'[u].record = reply[u].record
      /\ \A u \in Tasks \ {t} : reply'[u] = reply[u]
  <2>1. reply[t].record = None
    <3>1. stage[t] = "idle"
      BY CalledSince
    <3> QED BY <3>1 DEF IInv, RequestInv, ReplyFits, Replied, Unreplied
  <2> QED BY <2>1 DEF IInv, ServiceTypeOK
<1>3. ASSUME NEW u \in Tasks
      PROVE  KnownOf(u)' = KnownOf(u) /\ ToldStatus(u)' = ToldStatus(u)
  BY <1>1, <1>2 DEF KnownOf, ToldStatus
<1>4. Known' = Known /\ Told' = Told
  BY <1>2, <1>3 DEF Known, Told
<1> QED BY <1>1, <1>4 DEF AtomicRequests!vars

LEMMA ReceiveIsAtomic ==
  ASSUME IInv, NEW t \in Tasks, NEW r \in Requests, Receive(t, r)
  PROVE  [AtomicRequests!Next]_(AtomicRequests!vars)
<1>1. /\ phase[t] = "idle" /\ call[t] = None /\ request'[t] = r
      /\ \A u \in Tasks \ {t} : request'[u] = request[u]
  BY CalledSince DEF Receive, IInv, ServiceTypeOK
<1>2. CASE Refusal(r) = 0 /\ Repo!Call(t, CallOf(r)) /\ Goto(t, "storing") /\ UNCHANGED reply
  BY <1>1, <1>2, AskIsAtomic DEF AtomicRequests!Next
<1>3. CASE \/ Respond(t, Refusal(r), None) /\ UNCHANGED repoVars
           \/ Goto(t, "verifying") /\ UNCHANGED <<repoVars, reply>>
  BY <1>1, <1>3, NotAskedIsSilent DEF Respond
<1> QED BY <1>2, <1>3 DEF Receive

LEMMA VerifyIsAtomic ==
  ASSUME IInv, NEW t \in Tasks, Verify(t) \/ Unreachable(t)
  PROVE  [AtomicRequests!Next]_(AtomicRequests!vars)
<1>1. phase[t] = "verifying" /\ call[t] = None /\ Admitted(t) /\ UNCHANGED request
  BY CalledSince DEF Verify, Unreachable, IInv, RequestInv, Waiting
<1>2. CASE /\ Repo!Call(t, CallOf(request[t])) /\ Goto(t, "storing") /\ UNCHANGED reply
  BY <1>1, <1>2, AskIsAtomic DEF Admitted, AtomicRequests!Next
<1>3. CASE Respond(t, 400, None) /\ UNCHANGED repoVars
  BY <1>1, <1>3, NotAskedIsSilent DEF Respond
<1> QED BY <1>2, <1>3 DEF Verify, Unreachable

(* A restart loses every request that waits for the repository.            *)
LEMMA RestartIsAtomic ==
  ASSUME IInv, Restart
  PROVE  AtomicRequests!Die("abandoned")
<1>1. /\ UNCHANGED <<skills, versions, call, request, reply>>
      /\ \A t \in Tasks : phase'[t] # "storing"
  BY DEF Restart, Repo!Crash, repoVars
<1>2. Repo!Due' \in SUBSET Repo!Due
  <2>1. CASE Repo!Crash
    <3>1. RP!Atomic!Die("abandoned")
      BY <2>1, SameSteps, RP!CrashIsAtomic, RepoAssumptions DEF IInv
    <3> QED BY <3>1, SameSight DEF RP!Atomic!Die
  <2>2. CASE UNCHANGED repoVars
    BY <2>2 DEF repoVars, Repo!Due, Repo!Reading, Repo!Awaited
  <2> QED BY <2>1, <2>2 DEF Restart
<1>3. Known' = [t \in Tasks |-> AtomicRequests!Unknown]
  <2>1. \A t \in Tasks : KnownOf(t)' = AtomicRequests!Unknown
    BY <1>1 DEF KnownOf, AtomicRequests!Unknown
  <2> QED BY <2>1 DEF Known
<1>4. Told' = [t \in Tasks |-> IF AtomicRequests!Open(t)
                               THEN [status |-> "abandoned", record |-> None] ELSE Told[t]]
  <2>1. ASSUME NEW t \in Tasks, AtomicRequests!Open(t)
        PROVE  ToldStatus(t)' = "abandoned" /\ reply[t].record = None
    <3>1. phase[t] = "storing" /\ call[t] # None
      BY <2>1, OpenIsServed, CalledSince
    <3>2. reply[t].status = 0 /\ reply[t].record = None
      BY <3>1 DEF IInv, RequestInv, ReplyFits, Unreplied
    <3> QED BY <1>1, <3>1, <3>2 DEF ToldStatus
  <2>2. ASSUME NEW t \in Tasks, ~AtomicRequests!Open(t)
        PROVE  ToldStatus(t)' = ToldStatus(t)
    <3>1. phase[t] # "storing"
      BY <2>2, OpenIsServed
    <3> QED BY <1>1, <3>1 DEF ToldStatus
  <2> QED BY <1>1, <2>1, <2>2 DEF Told
<1> QED BY <1>1, <1>2, <1>3, <1>4 DEF AtomicRequests!Die

(* To its client, a request that is carried out is atomic: 201 and 204 say *)
(* that it took effect, 404 and 409 what it found, at one moment between   *)
(* request and response, and then it has no further effect.  A 500 or no   *)
(* answer says nothing: the effect is there, or never comes, or comes      *)
(* later, once and as a whole, when Postgres runs the COMMIT or UPDATE     *)
(* that was on its way.  After 400 and 403 there is none.                  *)
THEOREM ServiceIsAtomic == Spec => RequestsAreAtomic
<1>1. Init => AtomicRequests!Init
  <2> SUFFICES ASSUME Init PROVE AtomicRequests!Init
    OBVIOUS
  <2>1. \A t \in Tasks : /\ KnownOf(t) = AtomicRequests!Unknown
                         /\ ToldStatus(t) = "pending" /\ reply[t].record = None
    BY DEF Init, Repo!Init, KnownOf, ToldStatus, AtomicRequests!Unknown
  <2>2. /\ Known = [t \in Tasks |-> AtomicRequests!Unknown]
        /\ Told = [t \in Tasks |-> AtomicRequests!Unknown]
    BY <2>1 DEF Known, Told, AtomicRequests!Unknown
  <2>3. Repo!Due = {}
    BY DEF Init, Repo!Init, Repo!Due
  <2> QED BY <2>2, <2>3
          DEF Init, Repo!Init, Repo!Keys, AtomicRequests!Init, AtomicRequests!Tables!Init,
              AtomicRequests!Tables!Keys
<1>2. IInv /\ [Next]_vars => [AtomicRequests!Next]_(AtomicRequests!vars)
  <2> SUFFICES ASSUME IInv, [Next]_vars PROVE [AtomicRequests!Next]_(AtomicRequests!vars)
    OBVIOUS
  <2>1. ASSUME NEW t \in Tasks, RepoStep(t) \/ Finish(t) \/ Cancel(t)
        PROVE  [AtomicRequests!Next]_(AtomicRequests!vars)
    BY <2>1, RepoStepIsAtomic, FinishIsAtomic, CancelIsAtomic DEF AtomicRequests!Next
  <2>2. CASE UNCHANGED <<repoVars, request, phase, reply>>
    <3>1. UNCHANGED <<Repo!Met, Repo!Due>>
      BY <2>2 DEF repoVars, Repo!Met, Repo!Due, Repo!Reading, Repo!Awaited
    <3>2. \A t \in Tasks : KnownOf(t)' = KnownOf(t) /\ ToldStatus(t)' = ToldStatus(t)
      BY <2>2, <3>1 DEF repoVars, KnownOf, ToldStatus
    <3> QED BY <2>2, <3>1, <3>2 DEF repoVars, AtomicRequests!vars, Known, Told
  <2>3. CASE ChangeStore \/ Finished \/ UNCHANGED vars
    BY <2>2, <2>3 DEF ChangeStore, Finished, vars, serviceVars
  <2>4. CASE Restart
    BY <2>4, RestartIsAtomic DEF AtomicRequests!Next
  <2> QED BY <2>1, <2>3, <2>4, ReceiveIsAtomic, VerifyIsAtomic DEF Next
<1> QED BY <1>1, <1>2, Invariance, PTL DEF Spec, RequestsAreAtomic, AtomicRequests!Spec

-----------------------------------------------------------------------------
(* What its clients have from that.                                        *)

CP == INSTANCE AtomicCallsProofs
        WITH Calls <- RepoCalls, Failures <- {"database", "abandoned"},
             due <- Repo!Due, outcome <- Known, result <- Told

LEMMA RequestConstants == CP!Constants
  BY RepoAssumptions
     DEF CP!Constants, CP!InsertCall, CP!MarkCall, CP!Findings, CP!RP!SkillRow, CP!RP!VersionRow,
         RP!InsertCall, RP!MarkCall, RP!SkillRow, RP!VersionRow

(* HubService and AtomicCallsProofs each instantiate AtomicCalls.          *)
LEMMA SameRequests == AtomicRequests!Spec => CP!Spec
<1>1. AtomicRequests!Init => CP!Init
  BY DEF AtomicRequests!Init, CP!Init, AtomicRequests!Unknown, CP!Unknown,
         AtomicRequests!Tables!Init, CP!Tables!Init, AtomicRequests!Tables!Keys, CP!Tables!Keys
<1>2. UNCHANGED AtomicRequests!vars => UNCHANGED CP!vars
  BY DEF AtomicRequests!vars, CP!vars
<1>3. AtomicRequests!Next => CP!Next
  <2>0. ASSUME NEW t \in Tasks, NEW status, NEW record
        PROVE  /\ AtomicRequests!Say(t, status, record) <=> CP!Say(t, status, record)
               /\ AtomicRequests!Find(t, status, record) <=> CP!Find(t, status, record)
               /\ AtomicRequests!Open(t) <=> CP!Open(t)
               /\ AtomicRequests!Asking(t) <=> CP!Asking(t)
               /\ AtomicRequests!Key(t) = CP!Key(t) /\ AtomicRequests!RowOf(t) = CP!RowOf(t)
               /\ AtomicRequests!Unknown = CP!Unknown
    BY DEF AtomicRequests!Unknown, CP!Unknown, AtomicRequests!Say, CP!Say, AtomicRequests!Find,
           CP!Find, AtomicRequests!Key, CP!Key, AtomicRequests!RowOf, CP!RowOf,
           AtomicRequests!Open, CP!Open, AtomicRequests!Asking, CP!Asking
  <2> USE DEF AtomicRequests!Moment, CP!Moment
  <2>1. ASSUME NEW t \in Tasks, AtomicRequests!Insert(t) PROVE CP!Insert(t)
    BY <2>0, <2>1
       DEF AtomicRequests!Insert, CP!Insert, AtomicRequests!Acknowledge, CP!Acknowledge,
           AtomicRequests!Tables!Publish, CP!Tables!Publish,
           AtomicRequests!Tables!Fresh, CP!Tables!Fresh,
           AtomicRequests!Tables!Keys, CP!Tables!Keys,
           AtomicRequests!Tables!SkillAfter, CP!Tables!SkillAfter
  <2>2. ASSUME NEW t \in Tasks, AtomicRequests!Mark(t) PROVE CP!Mark(t)
    BY <2>0, <2>2 DEF AtomicRequests!Mark, CP!Mark, AtomicRequests!Acknowledge, CP!Acknowledge,
                AtomicRequests!Tables!Mark, CP!Tables!Mark
  <2>3. ASSUME NEW t \in Tasks, AtomicRequests!Act(t) PROVE CP!Act(t)
    <3>1. CASE AtomicRequests!Insert(t) \/ AtomicRequests!Mark(t)
      BY <2>1, <2>2, <3>1 DEF CP!Act
    <3>2. CASE AtomicRequests!Meet(t) \/ AtomicRequests!Refuse(t) \/ AtomicRequests!Miss(t)
      BY <2>0, <3>2 DEF CP!Act, AtomicRequests!Meet, CP!Meet, AtomicRequests!Refuse, CP!Refuse,
                        AtomicRequests!Miss, CP!Miss
    <3>3. CASE AtomicRequests!Spoil(t) \/ AtomicRequests!Return(t) \/ AtomicRequests!GiveUp(t)
      BY <2>0, <3>3 DEF CP!Act, AtomicRequests!Spoil, CP!Spoil, AtomicRequests!Return,
                        CP!Return, AtomicRequests!GiveUp, CP!GiveUp
    <3> QED BY <2>3, <3>1, <3>2, <3>3 DEF AtomicRequests!Act
  <2>4. ASSUME NEW t \in Tasks, NEW c \in RepoCalls, AtomicRequests!Invoke(t, c)
        PROVE  CP!Invoke(t, c)
    BY <2>4 DEF AtomicRequests!Invoke, CP!Invoke
  <2>5. ASSUME NEW failure \in {"database", "abandoned"}, AtomicRequests!Die(failure)
        PROVE  CP!Die(failure)
    BY <2>5 DEF AtomicRequests!Die, CP!Die, AtomicRequests!Unknown, CP!Unknown,
                AtomicRequests!Open, CP!Open
  <2> QED BY <2>3, <2>4, <2>5 DEF AtomicRequests!Next, CP!Next
<1>4. [AtomicRequests!Next]_(AtomicRequests!vars) => [CP!Next]_(CP!vars)
  BY <1>2, <1>3
<1> QED BY <1>1, <1>4, PTL DEF AtomicRequests!Spec, CP!Spec

(* No publish, yank or unyank takes effect twice, or on another version    *)
(* than its own, however its client was lost and whenever Postgres runs    *)
(* what it was sent.                                                       *)
THEOREM RequestsTakeEffectOnce == Spec => CP!EffectsOnce
<1>1. CP!Spec => CP!EffectsOnce
  BY RequestConstants, CP!EffectsComeOnce
<1> QED BY <1>1, SameRequests, ServiceIsAtomic, PTL DEF RequestsAreAtomic

(* A client that got 201 or 204 finds its version, one that got 409 finds  *)
(* another digest under it, from the answer of the repository on and for   *)
(* good; and its request has nothing left to do.                           *)
THEOREM ClientsCanRely == Spec => []CP!AnswersHold
<1>1. CP!Spec => []CP!AnswersHold
  BY RequestConstants, CP!AnswersAreTrue
<1> QED BY <1>1, SameRequests, ServiceIsAtomic, PTL DEF RequestsAreAtomic
================================================================================
