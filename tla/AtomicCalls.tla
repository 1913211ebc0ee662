------------------------------ MODULE AtomicCalls ------------------------------
(***************************************************************************)
(* What one call promises to its caller: between the call and its answer   *)
(* there is one moment at which it takes effect on the tables of Registry, *)
(* as a whole, and what it is told is what that moment found.  An answer   *)
(* that is a failure says nothing: the moment has been, or is still to     *)
(* come, once, after the answer, or never comes.                           *)
(*                                                                         *)
(* A call is a call of the repository (PgRepository), or a request to the  *)
(* service that leads to one (HubService): both implement this module.     *)
(***************************************************************************)
CONSTANTS
    Tasks, Skills, Versions, Digests, Payloads, Subjects, Visibilities, Reasons,
    Calls,      \* the arguments callers may pass
    Failures,   \* answers that say nothing about the tables
    None

VARIABLES
    skills, versions,   \* the tables of Registry
    call,               \* what a task has called, or None
    due,                \* the calls whose moment may still come
    outcome,            \* what its moment found, when it is not answered yet
    result              \* its answer

vars == <<skills, versions, call, due, outcome, result>>

Tables == INSTANCE Registry WITH Ids <- Tasks

Key(t) == <<call[t].skill, call[t].version>>

RowOf(t) == [id |-> t, digest |-> call[t].digest, payload |-> call[t].payload,
             publisher |-> call[t].publisher, yank |-> None]

(* Not found yet, or not answered.                                         *)
Unknown == [status |-> "pending", record |-> None]

Open(t) == call[t] # None /\ result[t].status = "pending"
Asking(t) == Open(t) /\ outcome[t] = Unknown

(* An answer, given at once or later.                                      *)
Say(t, status, record) ==
    LET answer == [status |-> status, record |-> record] IN
    \/ /\ outcome' = [outcome EXCEPT ![t] = answer]
       /\ UNCHANGED result
    \/ /\ outcome' = [outcome EXCEPT ![t] = Unknown]
       /\ result' = [result EXCEPT ![t] = answer]

(* The one moment of a call.                                               *)
Moment(t, op) == /\ t \in due /\ call[t].op = op
                 /\ due' = due \ {t}
                 /\ UNCHANGED call

(* What is found is said if the caller does not have a failure already.    *)
Find(t, status, record) == IF Asking(t) THEN Say(t, status, record)
                                        ELSE UNCHANGED <<outcome, result>>

(* The effect is there; its acknowledgement may be lost.                   *)
Acknowledge(t, record) == \/ Find(t, "ok", record)
                          \/ \E failure \in Failures : Find(t, failure, None)

Init == /\ Tables!Init
        /\ call = [t \in Tasks |-> None]
        /\ due = {}
        /\ outcome = [t \in Tasks |-> Unknown]
        /\ result = [t \in Tasks |-> Unknown]

Invoke(t, c) == /\ call[t] = None
                /\ call' = [call EXCEPT ![t] = c]
                /\ due' = due \cup {t}
                /\ UNCHANGED <<skills, versions, outcome, result>>

Insert(t) == /\ Moment(t, "insert")
             /\ Tables!Publish(call[t].skill, call[t].version, call[t].visibility, RowOf(t))
             /\ Acknowledge(t, RowOf(t))

(* The version is there, with the same digest or with another.             *)
Meet(t) == /\ Moment(t, "insert")
           /\ versions[Key(t)] # None /\ versions[Key(t)].digest = call[t].digest
           /\ Find(t, "ok", versions[Key(t)])
           /\ UNCHANGED <<skills, versions>>

Refuse(t) == /\ Moment(t, "insert")
             /\ versions[Key(t)] # None /\ versions[Key(t)].digest # call[t].digest
             /\ Find(t, "conflict", None)
             /\ UNCHANGED <<skills, versions>>

Mark(t) == /\ Moment(t, "mark")
           /\ Tables!Mark(call[t].skill, call[t].version, call[t].mark)
           /\ Acknowledge(t, None)

Miss(t) == /\ Moment(t, "mark")
           /\ versions[Key(t)] = None
           /\ Find(t, "notfound", None)
           /\ UNCHANGED <<skills, versions>>

(* A failure: the moment has been, or is given up, or is still to come.    *)
Spoil(t) == /\ Open(t)
            /\ \E failure \in Failures : Say(t, failure, None)
            /\ due' \in {due, due \ {t}}
            /\ UNCHANGED <<skills, versions, call>>

Return(t) == /\ Open(t) /\ outcome[t] # Unknown
             /\ Say(t, outcome[t].status, outcome[t].record)
             /\ UNCHANGED <<skills, versions, call, due>>

(* What came after a failure comes to nothing.                             *)
GiveUp(t) == /\ t \in due /\ ~Asking(t)
             /\ due' = due \ {t}
             /\ UNCHANGED <<skills, versions, call, outcome, result>>

(* The process that serves the calls dies, and every open call with it.    *)
Die(failure) ==
    /\ result' = [t \in Tasks |-> IF Open(t) THEN [status |-> failure, record |-> None]
                                             ELSE result[t]]
    /\ outcome' = [t \in Tasks |-> Unknown]
    /\ due' \in SUBSET due
    /\ UNCHANGED <<skills, versions, call>>

Act(t) == \/ Insert(t) \/ Meet(t) \/ Refuse(t)
          \/ Mark(t) \/ Miss(t)
          \/ Spoil(t) \/ Return(t) \/ GiveUp(t)

Next == \/ \E t \in Tasks : Act(t) \/ \E c \in Calls : Invoke(t, c)
        \/ \E failure \in Failures : Die(failure)

Spec == Init /\ [][Next]_vars

-----------------------------------------------------------------------------
(* What follows for the callers                                            *)

Answer(t) == IF outcome[t] # Unknown THEN outcome[t] ELSE result[t]

(* Whoever was told ok finds the version; a publisher finds the row it was *)
(* told of, with the digest it published.  Whoever was told conflict finds *)
(* another digest.  Both stay true under everything others do later, and   *)
(* the call itself does nothing any more once it is answered: only a       *)
(* failure leaves that open.                                               *)
AnswersHold ==
    \A t \in Tasks :
      LET row == versions[Key(t)] IN
      /\ Answer(t).status = "ok" =>
           /\ row # None
           /\ call[t].op = "insert" =>
                /\ row.digest = call[t].digest
                /\ [Answer(t).record EXCEPT !.yank = None] = [row EXCEPT !.yank = None]
      /\ Answer(t).status = "conflict" => row # None /\ row.digest # call[t].digest
      /\ Answer(t).status \notin {"pending"} \cup Failures => t \notin due

(* A call has had its moment, or has been given up.                        *)
Spent(t) == call[t] # None /\ t \notin due

(* A call changes no version but its own, and that once: with the change   *)
(* it is spent, whatever its caller is told or was told, and it stays so.  *)
EffectsOnce ==
    [][/\ \A t \in Tasks : Spent(t) => Spent(t)' /\ call'[t] = call[t]
       /\ <<skills, versions>>' # <<skills, versions>> =>
            \E t \in Tasks : /\ call[t] # None /\ ~Spent(t) /\ Spent(t)'
                             /\ \A key \in Tables!Keys \ {Key(t)} :
                                  versions'[key] = versions[key]]_vars
================================================================================
