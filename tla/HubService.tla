------------------------------ MODULE HubService ------------------------------
(***************************************************************************)
(* The write path of the hub: the publish, yank and unyank handlers of     *)
(* hub-api, HubService::publish and HubService::yank of hub-core, the      *)
(* runtime trust verifier and the in-memory webhook queue, over            *)
(* PgRepository and a store of artifacts that others may change.           *)
(*                                                                         *)
(* A task is one HTTP request.  A handler runs without interruption        *)
(* between two awaits; at an await other handlers run, the client may      *)
(* disconnect (axum drops the future) and the process may die.             *)
(***************************************************************************)
EXTENDS Naturals, Sequences, FiniteSets

CONSTANTS
    Tasks, Namespaces, Names, Versions, Paths, Contents, Urls, KeyPairs,
    Subjects, Visibilities, Reasons, Scopes, Roles,
    Requests,        \* what clients may send
    WellFormed,      \* the strings that pass hub-core's validate_* functions
    Drive, Backslashed,
    DefaultReason,   \* "yanked by API"
    AllowUnsigned,   \* HUB_ALLOW_UNSIGNED
    MaxConnections,
    None, Garbled

INSTANCE Auth

Skills == Namespaces \X Names

INSTANCE Digest
INSTANCE Validation

(* What a client may send for a digest.                                    *)
Malformed == [of |-> None, hex |-> "malformed"]
DigestStrings == Digests \cup {Malformed}

(* paths: the entry and the files.                                         *)
Manifests == [name : Names, version : Versions, paths : SUBSET Paths]

(* What a key pair signed: serde_json(manifest) | digest.  Of a sigstore   *)
(* bundle the code looks at the shape only.                                *)
Signatures == [by : KeyPairs, manifest : Manifests, digest : DigestStrings]
Bundles == {"none", "wellformed", "malformed"}

Payloads == [manifest : Manifests, url : Urls, signature : Signatures \cup {None},
             key : KeyPairs \cup {None}, bundle : Bundles]

Headers == [subject : Subjects \cup {None, Garbled}, scopes : SUBSET (Scopes \cup {Garbled}),
            roles : SUBSET ((Namespaces \X Roles) \cup {Garbled})]

PublishRequests == [op : {"publish"}, headers : Headers, namespace : Namespaces,
                    name : Names, visibility : Visibilities \cup {None},
                    digest : DigestStrings, payload : Payloads]
YankRequests == [op : {"yank"}, headers : Headers, namespace : Namespaces, name : Names,
                 version : Versions, reason : Reasons \cup {None}]
UnyankRequests == [op : {"unyank"}, headers : Headers, namespace : Namespaces,
                   name : Names, version : Versions]

ASSUME RequestsAssumption ==
    Requests \subseteq PublishRequests \cup YankRequests \cup UnyankRequests
ASSUME DefaultsAssumption ==
    /\ DefaultReason \in Reasons /\ "public" \in Visibilities
    /\ None \notin Subjects \cup Reasons \cup Visibilities
ASSUME PathsAssumption == Paths \subseteq Seq(STRING) \ {<<>>}

(* Mutant of Default: unwrap_or is forgotten.                              *)
DefaultForgotten(value, default) == value

Default(value, default) == IF value = None THEN default ELSE value

(* Where an artifact may be: a url that is not well formed names no place. *)
Places == Urls \cap WellFormed

(* The repository call a request leads to.                                 *)
CallOf(r) ==
    CASE r.op = "publish" ->
           [op |-> "insert", skill |-> <<r.namespace, r.payload.manifest.name>>,
            version |-> r.payload.manifest.version,
            visibility |-> Default(r.visibility, "public"),
            publisher |-> r.headers.subject, digest |-> r.digest, payload |-> r.payload]
      [] r.op = "yank" ->
           [op |-> "mark", skill |-> <<r.namespace, r.name>>, version |-> r.version,
            mark |-> Default(r.reason, DefaultReason)]
      [] r.op = "unyank" ->
           [op |-> "mark", skill |-> <<r.namespace, r.name>>, version |-> r.version,
            mark |-> None]

-----------------------------------------------------------------------------
(* Admission: what a handler does before its first await                   *)

(* validate_publish_request, and the checks of HubService::yank            *)
Valid(r) ==
    IF r.op = "publish"
    THEN /\ {r.namespace, r.payload.manifest.name, r.payload.manifest.version,
             r.payload.url} \subseteq WellFormed
         /\ r.digest \in Digests
         /\ \A path \in r.payload.manifest.paths : PathAccepted(path)
    ELSE {r.namespace, r.name, r.version} \subseteq WellFormed

HasSignature(p) == (p.signature # None /\ p.key # None) \/ p.bundle # "none"

Authorised(r) ==
    LET auth == AuthFromHeaders(r.headers) IN
    IF r.op = "publish" THEN CanPublish(auth, r.namespace)
                        ELSE CanYank(auth, r.namespace)

(* Mutant of Refusal: the unsigned gate is dropped.                        *)
RefusalUngated(r) ==
    CASE r.op = "publish" /\ r.payload.manifest.name # r.name -> 400
      [] HeadersRejected(r.headers) -> 400
      [] ~Authorised(r) -> 403
      [] r.op # "unyank" /\ ~Valid(r) -> 400
      [] OTHER -> 0

(* The response of a refusal, or 0 when the request is admitted, in the    *)
(* order the code checks: unyank goes to the repository unvalidated.       *)
Refusal(r) ==
    CASE r.op = "publish" /\ r.payload.manifest.name # r.name -> 400
      [] HeadersRejected(r.headers) -> 400
      [] ~Authorised(r) -> 403
      [] r.op # "unyank" /\ ~Valid(r) -> 400
      [] r.op = "publish" /\ ~AllowUnsigned /\ ~HasSignature(r.payload) -> 400
      [] OTHER -> 0

(* What may reach the repository.                                          *)
RepoCalls == {CallOf(r) : r \in {q \in Requests : Refusal(q) = 0}}

VARIABLES
    skills, versions, lock, stage, pool, call, tx, result,   \* PgRepository
    store,     \* place of an artifact -> its present contents, None when missing
    request,   \* the request a task serves
    phase,     \* where its handler is
    reply,     \* the HTTP response
    events,    \* RuntimeWebhookQueue
    seen       \* history: the publishes, not turned away, whose url has held the
               \* contents of their digest since they came, until they were verified

Repo == INSTANCE PgRepository WITH Calls <- RepoCalls

ASSUME RepoAssumption ==
    /\ None \notin Tasks \cup RepoCalls \cup Repo!SkillRow \cup Repo!VersionRow
    /\ MaxConnections \in Nat \ {0}

repoVars == <<skills, versions, lock, stage, pool, call, tx, result>>
serviceVars == <<store, request, phase, reply, events, seen>>
vars == <<repoVars, serviceVars>>

InFlight == {"verifying", "storing"}
Phases == {"idle", "replied", "gone", "archived"} \cup InFlight

-----------------------------------------------------------------------------
(* After the first await                                                   *)

(* RuntimeTrustVerifier::verify_trust                                      *)
Trusted(r) ==
    LET p == r.payload IN
    /\ (p.signature = None) = (p.key = None)
    /\ p.signature # None =>
         p.signature = [by |-> p.key, manifest |-> p.manifest, digest |-> r.digest]
    /\ p.bundle # "malformed"

(* Mutant of ArtifactVerified: what is missing is not compared.            *)
ArtifactVerifiedLax(r) ==
    store[r.payload.url] = None \/ DigestVerified(store[r.payload.url], r.digest)

(* RuntimeArtifactStore::verify_artifact: what the url holds now hashes to *)
(* the digest, compared in lower case.                                     *)
ArtifactVerified(r) == DigestVerified(store[r.payload.url], r.digest)

-----------------------------------------------------------------------------

Init == /\ Repo!Init
        /\ store \in [Places -> Contents \cup {None}]
        /\ request = [t \in Tasks |-> None]
        /\ phase = [t \in Tasks |-> "idle"]
        /\ reply = [t \in Tasks |-> [status |-> 0, record |-> None]]
        /\ events = <<>>
        /\ seen = {}

(* Independent of the check: r's url holds what r's digest was made of.    *)
Holds(contents, r) == contents[r.payload.url] # None /\ contents[r.payload.url] = r.digest.of

Goto(t, p) == phase' = [phase EXCEPT ![t] = p]

Respond(t, status, record) ==
    /\ Goto(t, "replied")
    /\ reply' = [reply EXCEPT ![t] = [status |-> status, record |-> record]]

Receive(t, r) ==
    /\ phase[t] = "idle"
    /\ request' = [request EXCEPT ![t] = r]
    /\ \/ /\ Refusal(r) # 0
          /\ Respond(t, Refusal(r), None)
          /\ UNCHANGED <<repoVars, seen>>
       \/ /\ Refusal(r) = 0 /\ r.op = "publish"
          /\ Goto(t, "verifying")
          /\ seen' = IF Holds(store, r) THEN seen \cup {t} ELSE seen
          /\ UNCHANGED <<repoVars, reply>>
       \/ /\ Refusal(r) = 0 /\ r.op # "publish"
          /\ Repo!Call(t, CallOf(r))
          /\ Goto(t, "storing")
          /\ UNCHANGED <<reply, seen>>
    /\ UNCHANGED <<store, events>>

(* verify_artifact, verify_trust, then on to insert_version.               *)
Verify(t) ==
    /\ phase[t] = "verifying"
    /\ \/ /\ ArtifactVerified(request[t]) /\ Trusted(request[t])
          /\ Repo!Call(t, CallOf(request[t]))
          /\ Goto(t, "storing")
          /\ UNCHANGED <<reply, seen>>
       \/ /\ ~(ArtifactVerified(request[t]) /\ Trusted(request[t]))
          /\ Respond(t, 400, None)
          /\ seen' = seen \ {t}
          /\ UNCHANGED repoVars
    /\ UNCHANGED <<store, request, events>>

(* The artifact store cannot be reached, or fails.                         *)
Unreachable(t) == /\ phase[t] = "verifying"
                  /\ Respond(t, 400, None)
                  /\ seen' = seen \ {t}
                  /\ UNCHANGED <<repoVars, store, request, events>>

(* Also for a request that is not served any more: Postgres goes on with   *)
(* what it was sent.                                                       *)
RepoStep(t) == /\ \/ Repo!Progress(t)
                  \/ Repo!Vanish(t)
                  \/ phase[t] = "storing" /\ Repo!Trouble(t, "database")
               /\ UNCHANGED serviceVars

EventOf(r) == [type |-> IF r.op = "publish" THEN "skill.published" ELSE "skill.yanked",
               skill |-> CallOf(r).skill, version |-> CallOf(r).version,
               subject |-> r.headers.subject]

Announced(r) == r.op \in {"publish", "yank"}

(* Mutant of StatusOf: a lost COMMIT acknowledgement counts as success.    *)
StatusOfHopeful(r, outcome) ==
    CASE outcome \in {"ok", "database"} -> IF r.op = "publish" THEN 201 ELSE 204
      [] outcome = "conflict" -> 409
      [] outcome = "notfound" -> 404

(* Mutant of StatusOf: a mark that found no row counts as done.            *)
StatusOfForgiving(r, outcome) ==
    CASE outcome = "ok" -> IF r.op = "publish" THEN 201 ELSE 204
      [] outcome = "conflict" -> 409
      [] outcome = "notfound" -> 204
      [] outcome = "database" -> 500

StatusOf(r, outcome) ==
    CASE outcome = "ok" -> IF r.op = "publish" THEN 201 ELSE 204
      [] outcome = "conflict" -> 409
      [] outcome = "notfound" -> 404
      [] outcome = "database" -> 500

(* Mutant of EventsAfter: enqueued before the answer is looked at.         *)
EventsAfterAnyAnswer(t) ==
    IF Announced(request[t]) THEN Append(events, EventOf(request[t])) ELSE events

(* enqueue fails if its lock is poisoned, which takes a panic in the one   *)
(* push that is done under it: it is taken to succeed.                     *)
EventsAfter(t) ==
    IF result[t].status = "ok" /\ Announced(request[t])
    THEN Append(events, EventOf(request[t])) ELSE events

(* The repository has answered.  Nothing is awaited between the answer,    *)
(* the enqueue and the response.                                           *)
Finish(t) ==
    /\ phase[t] = "storing"
    /\ result[t].status \notin {"pending", "abandoned"}
    /\ events' = EventsAfter(t)
    /\ Respond(t, StatusOf(request[t], result[t].status), result[t].record)
    /\ UNCHANGED <<repoVars, store, request, seen>>

(* Mutants of Cancel: the repository call was spawned and goes on; the     *)
(* transaction is forgotten instead of dropped, and keeps its lock.        *)
CancelDetached(t) ==
    /\ phase[t] \in InFlight
    /\ Goto(t, "gone")
    /\ UNCHANGED <<repoVars, store, request, reply, events, seen>>
CancelForgetting(t) ==
    /\ phase[t] \in InFlight
    /\ Goto(t, "gone")
    /\ IF phase[t] = "storing" /\ result[t].status = "pending"
       THEN /\ stage' = [stage EXCEPT ![t] = "done"]
            /\ UNCHANGED <<skills, versions, lock, pool, call, tx, result>>
       ELSE UNCHANGED repoVars
    /\ UNCHANGED <<store, request, reply, events, seen>>

(* The client disconnects: the handler's future is dropped at its await.   *)
(* A statement that has been sent to Postgres stays sent.                  *)
Cancel(t) ==
    /\ phase[t] \in InFlight
    /\ Goto(t, "gone")
    /\ IF phase[t] = "storing" /\ result[t].status = "pending"
       THEN Repo!Fail(t, "abandoned")
       ELSE UNCHANGED repoVars
    /\ seen' = {u \in seen : u # t \/ phase[t] # "verifying"}
    /\ UNCHANGED <<store, request, reply, events>>

(* The process dies and starts again with an empty queue.  Whoever it      *)
(* served, or had answered, belongs to the past.                           *)
Restart ==
    /\ \E t \in Tasks : phase[t] \in InFlight \cup {"replied", "gone"}
    /\ phase' = [t \in Tasks |-> IF phase[t] = "idle" THEN "idle" ELSE "archived"]
    /\ events' = <<>>
    /\ seen' = {t \in seen : phase[t] # "verifying"}
    /\ IF Repo!Busy THEN Repo!Crash ELSE UNCHANGED repoVars
    /\ UNCHANGED <<store, request, reply>>

(* Whoever owns the artifact store replaces or removes an artifact.        *)
ChangeStore ==
    /\ \E url \in Places, content \in Contents \cup {None} :
          store' = [store EXCEPT ![url] = content]
    /\ seen' = seen \cup {t \in Tasks : phase[t] = "verifying" /\ Holds(store', request[t])}
    /\ UNCHANGED <<repoVars, request, phase, reply, events>>

Finished == /\ \A t \in Tasks : phase[t] \notin {"idle"} \cup InFlight /\ stage[t] \in {"idle", "done"}
            /\ UNCHANGED vars

Next == \/ \E t \in Tasks : \/ \E r \in Requests : Receive(t, r)
                            \/ Verify(t)
                            \/ Unreachable(t)
                            \/ RepoStep(t)
                            \/ Finish(t)
                            \/ Cancel(t)
        \/ Restart
        \/ ChangeStore
        \/ Finished

Spec == Init /\ [][Next]_vars

(* The runtime polls every handler that can go on, and the repository is   *)
(* fair as PgRepository says.  Nothing makes an artifact store answer: the *)
(* HTTP clients of hub-storage have no timeout.                            *)
Progress(t) == Repo!Progress(t) /\ UNCHANGED serviceVars

FairSpec == /\ Spec
            /\ \A t \in Tasks : WF_vars(Progress(t)) /\ WF_vars(Finish(t))

-----------------------------------------------------------------------------
(* Properties                                                              *)

TypeOK ==
    /\ Repo!TypeOK
    /\ store \in [Places -> Contents \cup {None}]
    /\ request \in [Tasks -> Requests \cup {None}]
    /\ phase \in [Tasks -> Phases]
    /\ reply \in [Tasks -> [status : {0, 201, 204, 400, 403, 404, 409, 500},
                            record : Repo!VersionRow \cup {None}]]
    /\ events \in Seq({EventOf(r) : r \in {q \in Requests : Announced(q)}})
    /\ seen \in SUBSET Tasks

(* Whatever fails or dies on the way, a row in the tables comes from one   *)
(* request that had the right to publish in that namespace, was valid,     *)
(* names only paths inside the skill, and was not answered with a refusal. *)
(* The row stores what the request said, and what vouches for it: a        *)
(* signature of this very manifest and digest by the key beside it.  Only  *)
(* a row without any signature has nothing more than a well-formed bundle, *)
(* or, where unsigned skills are allowed, nothing.                         *)
VouchedFor(row) ==
    LET p == row.payload IN
    \/ p.signature = [by |-> p.key, manifest |-> p.manifest, digest |-> row.digest]
    \/ p.signature = None /\ p.key = None /\ (p.bundle = "wellformed" \/ AllowUnsigned)

RowsArePublishable ==
    \A key \in Repo!Keys : versions[key] # None =>
      LET row == versions[key]
          r == request[row.id]
      IN /\ r.op = "publish" /\ Authorised(r) /\ Valid(r)
         /\ \A path \in r.payload.manifest.paths : StaysInside(path)
         /\ key = <<<<r.namespace, r.name>>, r.payload.manifest.version>>
         /\ row.digest = r.digest /\ row.publisher = r.headers.subject
         /\ row.payload = r.payload /\ VouchedFor(row)
         /\ reply[row.id].status \in {0, 201, 500}

(* The artifact of a row was in the store: at some moment after the        *)
(* request came and before its row its url held contents of the digest the *)
(* row has, however the owner of the store changes them meanwhile.         *)
ArtifactsWereThere ==
    \A key \in Repo!Keys : versions[key] # None => versions[key].id \in seen

(* A publisher who got 201 finds the version stored under the digest it    *)
(* asked for, with what the response said except the yank mark, also after *)
(* the process was restarted.                                              *)
AckIsDurable ==
    \A t \in Tasks : reply[t].status = 201 =>
      LET row == versions[<<CallOf(request[t]).skill, CallOf(request[t]).version>>] IN
      /\ row # None
      /\ row.digest = request[t].digest
      /\ Repo!SameExceptYank(row, reply[t].record)

(* The queue holds exactly one event per publish and yank that this        *)
(* process answered with success: none for a failed, refused or cancelled  *)
(* request, none for an unyank, none twice.                                *)
Occurrences(event) == Cardinality({i \in DOMAIN events : events[i] = event})
Successes(event) ==
    Cardinality({t \in Tasks : /\ phase[t] = "replied" /\ reply[t].status \in {201, 204}
                               /\ Announced(request[t]) /\ EventOf(request[t]) = event})

QueueMatchesReplies ==
    \A r \in {q \in Requests : Announced(q)} :
       Occurrences(EventOf(r)) = Successes(EventOf(r))

(* An event is about a version that is stored: however handlers, failures  *)
(* and restarts interleave, none stands in the queue before its row.       *)
EventsFollowRows ==
    \A i \in DOMAIN events : versions[<<events[i].skill, events[i].version>>] # None

(* A version changes only by a call that somebody with the right to made,  *)
(* and that has been answered by nothing but a 500: a client that has left *)
(* or got a 500 may see its change come later, nobody else.  And that is   *)
(* by a statement that was sent before: for a request that is not served   *)
(* any more nothing new is begun.                                          *)
OwedTo(t, key) == /\ call[t] # None /\ Authorised(request[t])
                  /\ reply[t].status \in {0, 500}
                  /\ key = <<CallOf(request[t]).skill, CallOf(request[t]).version>>

OnlyOwedChanges ==
    [][/\ \A key \in Repo!Keys : versions'[key] # versions[key] => \E t \in Tasks : OwedTo(t, key)
       /\ \A t \in Tasks : stage'[t] # stage[t] =>
            phase'[t] = "storing" \/ stage'[t] \in {"rollback", "done"}]_vars

(* To the repository, the service is one of the callers its specification  *)
(* allows: what PgRepository promises holds under the service.             *)
UsesRepository == Repo!Spec

(* To its client, a request that passes is atomic: a success, a 409 or a   *)
(* 404 says what one moment between request and response found, at which   *)
(* it took effect, as a whole.  A 500, a disconnection or a restart leaves *)
(* open whether it has, will, or never does; a 400 or 403 means that no    *)
(* call was made.                                                          *)
KnownOf(t) ==
    CASE phase[t] = "storing" /\ result[t].status = "pending" -> Repo!Met[t]
      [] phase[t] = "storing" /\ result[t].status # "pending" -> result[t]
      [] phase[t] # "storing" -> [status |-> "pending", record |-> None]
Known == [t \in Tasks |-> KnownOf(t)]

Meaning(status) == CASE status \in {201, 204} -> "ok"
                     [] status = 409 -> "conflict"
                     [] status = 404 -> "notfound"
                     [] status = 500 -> "database"
                     [] OTHER -> "refused"

ToldStatus(t) == CASE call[t] = None \/ phase[t] = "storing" -> "pending"
                   [] call[t] # None /\ phase[t] # "storing" /\ reply[t].status = 0 -> "abandoned"
                   [] OTHER -> Meaning(reply[t].status)
Told == [t \in Tasks |-> [status |-> ToldStatus(t), record |-> reply[t].record]]

AtomicRequests == INSTANCE AtomicCalls
                    WITH Calls <- RepoCalls, Failures <- {"database", "abandoned"},
                         due <- Repo!Due, outcome <- Known, result <- Told
RequestsAreAtomic == AtomicRequests!Spec

(* Every request is answered, or its client or process is gone, and then   *)
(* also its transaction is closed, however long the artifact store lets    *)
(* other requests wait.  Only one that waits for the store itself may do   *)
(* so for ever, and it has no transaction and no connection by which it    *)
(* could hold up others.                                                   *)
Ended(t) == phase[t] \in {"replied", "gone", "archived"} /\ stage[t] \in {"idle", "done"}
HeldUp(t) == phase[t] = "verifying" /\ stage[t] = "idle" /\ t \notin pool

EveryRequestEnds ==
    \A t \in Tasks : (phase[t] # "idle" /\ ~HeldUp(t)) ~> Ended(t)

(* What the test publish_validates_artifact_and_trust_inserts_version_and_ *)
(* enqueues_webhook says of publish: a version that was inserted has its   *)
(* event in the queue once publish is over, in the same process.           *)
InsertedIsAnnounced ==
    \A key \in Repo!Keys :
      (versions[key] # None /\ phase[versions[key].id] \in {"replied", "gone"}) =>
        \E i \in DOMAIN events :
           /\ events[i].type = "skill.published"
           /\ <<events[i].skill, events[i].version>> = key

(* What the error says: a publish that is answered with 409 met a version  *)
(* with another digest, i.e. with other contents.                          *)
ConflictMeansOtherDigest ==
    \A t \in Tasks : reply[t].status = 409 =>
      Normalize(versions[<<CallOf(request[t]).skill, CallOf(request[t]).version>>].digest)
        # Normalize(request[t].digest)
===============================================================================
