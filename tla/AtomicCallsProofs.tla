--------------------------- MODULE AtomicCallsProofs ---------------------------
(***************************************************************************)
(* What AtomicCalls promises implies Registry for the tables and the truth *)
(* of the answers for the callers, so it is no weaker than what            *)
(* PgRepository and HubService are for.                                    *)
(***************************************************************************)
EXTENDS AtomicCalls, TLAPS

RP == INSTANCE RegistryProofs WITH Ids <- Tasks

-----------------------------------------------------------------------------
(* The constants, as PgRepository and HubService give them.                *)

InsertCall == [op : {"insert"}, skill : Skills, version : Versions,
               visibility : Visibilities, publisher : Subjects,
               digest : Digests, payload : Payloads]
MarkCall == [op : {"mark"}, skill : Skills, version : Versions,
             mark : Reasons \cup {None}]

Findings == {"ok", "conflict", "notfound"}

Constants ==
    /\ Calls \subseteq InsertCall \cup MarkCall
    /\ None \notin Calls \cup RP!SkillRow \cup RP!VersionRow \cup Reasons
    /\ Failures \cap (Findings \cup {"pending"}) = {}

-----------------------------------------------------------------------------
(* The inductive invariant.                                                *)

Answers == [status : {"pending"} \cup Findings \cup Failures, record : RP!VersionRow \cup {None}]

TypeOK == /\ RP!TypeOK
          /\ call \in [Tasks -> Calls \cup {None}]
          /\ due \in SUBSET Tasks
          /\ outcome \in [Tasks -> Answers]
          /\ result \in [Tasks -> Answers]

(* A task that has called nothing knows and owes nothing, one that has its *)
(* answer knows no more than that, and nothing is found halfway.           *)
Fits(t) == /\ call[t] = None => outcome[t] = Unknown /\ result[t] = Unknown /\ t \notin due
           /\ outcome[t] = Unknown \/ outcome[t].status # "pending"
           /\ outcome[t] = Unknown \/ result[t].status = "pending"

(* AnswersHold, for one task.                                              *)
Truth(t) ==
    LET row == versions[Key(t)] IN
    /\ Answer(t).status = "ok" =>
         /\ row # None
         /\ call[t].op = "insert" =>
              /\ row.digest = call[t].digest
              /\ [Answer(t).record EXCEPT !.yank = None] = [row EXCEPT !.yank = None]
    /\ Answer(t).status = "conflict" => row # None /\ row.digest # call[t].digest
    /\ Answer(t).status \notin {"pending"} \cup Failures => t \notin due

IInv == TypeOK /\ \A t \in Tasks : Fits(t) /\ Truth(t)

-----------------------------------------------------------------------------
(* The tables.                                                             *)

LEMMA CallShape ==
  ASSUME Constants, TypeOK, NEW t \in Tasks, call[t] # None
  PROVE  /\ call[t] \in InsertCall \cup MarkCall
         /\ Key(t) \in RP!Keys
         /\ call[t].op = "insert" => call[t] \in InsertCall /\ RowOf(t) \in RP!NewRow
         /\ call[t].op = "mark" => call[t] \in MarkCall
<1>1. call[t] \in InsertCall \cup MarkCall
  BY DEF Constants, TypeOK
<1>2. Key(t) \in RP!Keys
  BY <1>1 DEF Key, RP!Keys, InsertCall, MarkCall
<1>3. call[t].op = "insert" => call[t] \in InsertCall
  BY <1>1 DEF InsertCall, MarkCall
<1>4. call[t].op = "insert" => RowOf(t) \in RP!NewRow
  BY <1>3 DEF InsertCall, RowOf, RP!NewRow
<1>5. call[t].op = "mark" => call[t] \in MarkCall
  BY <1>1 DEF InsertCall, MarkCall
<1> QED BY <1>1, <1>2, <1>3, <1>4, <1>5

(* Whoever acts has called, and whoever has its moment was due.            *)
LEMMA Acting ==
  ASSUME IInv, NEW t \in Tasks, Act(t)
  PROVE  /\ TypeOK /\ call[t] # None /\ call' = call
         /\ due' \in SUBSET due /\ \A u \in Tasks \ {t} : u \in due' <=> u \in due
         /\ Insert(t) \/ Meet(t) \/ Refuse(t) \/ Mark(t) \/ Miss(t) =>
              t \in due /\ due' = due \ {t}
<1>1. CASE Insert(t) \/ Meet(t) \/ Refuse(t) \/ Mark(t) \/ Miss(t)
  <2>1. t \in due /\ due' = due \ {t} /\ call' = call
    BY <1>1 DEF Insert, Meet, Refuse, Mark, Miss, Moment
  <2> QED BY <2>1 DEF IInv, Fits
<1>2. CASE Spoil(t) \/ Return(t)
  <2>1. call[t] # None /\ call' = call /\ due' \in {due, due \ {t}}
    BY <1>2 DEF Spoil, Return, Open
  <2>2. Insert(t) \/ Meet(t) \/ Refuse(t) \/ Mark(t) \/ Miss(t) =>
          t \in due /\ due' = due \ {t}
    BY DEF Insert, Meet, Refuse, Mark, Miss, Moment
  <2> QED BY <2>1, <2>2 DEF IInv
<1>3. CASE GiveUp(t)
  <2>1. t \in due /\ call' = call /\ due' = due \ {t}
    BY <1>3 DEF GiveUp
  <2> QED BY <2>1 DEF IInv, Fits
<1> QED BY <1>1, <1>2, <1>3 DEF Act

(* A call changes the tables in no other way than Registry says.           *)
LEMMA ActOnTables ==
  ASSUME Constants, IInv, NEW t \in Tasks, Act(t)
  PROVE  [RP!Next]_(RP!vars)
<1>0. TypeOK /\ call[t] # None
  BY Acting
<1>1. CASE Insert(t)
  <2>1. RP!Publish(call[t].skill, call[t].version, call[t].visibility, RowOf(t))
    BY <1>1 DEF Insert, Tables!Publish, RP!Publish, Tables!Fresh, RP!Fresh, Tables!Keys, RP!Keys,
                Tables!SkillAfter, RP!SkillAfter
  <2>2. call[t] \in InsertCall /\ RowOf(t) \in RP!NewRow
    BY <1>0, <1>1, CallShape DEF Insert, Moment
  <2> QED BY <2>1, <2>2 DEF RP!Next, InsertCall
<1>2. CASE Mark(t)
  <2>1. RP!Mark(call[t].skill, call[t].version, call[t].mark)
    BY <1>2 DEF Mark, Tables!Mark, RP!Mark
  <2>2. call[t] \in MarkCall
    BY <1>0, <1>2, CallShape DEF Mark, Moment
  <2> QED BY <2>1, <2>2 DEF RP!Next, MarkCall
<1>3. CASE Meet(t) \/ Refuse(t) \/ Miss(t) \/ Spoil(t) \/ Return(t) \/ GiveUp(t)
  BY <1>3 DEF Meet, Refuse, Miss, Spoil, Return, GiveUp, RP!vars
<1> QED BY <1>1, <1>2, <1>3 DEF Act

LEMMA StepOnTables ==
  ASSUME Constants, IInv, [Next]_vars
  PROVE  [RP!Next]_(RP!vars)
<1>1. CASE UNCHANGED vars
  BY <1>1 DEF vars, RP!vars
<1>2. ASSUME NEW t \in Tasks, NEW c \in Calls, Invoke(t, c) PROVE UNCHANGED RP!vars
  BY <1>2 DEF Invoke, RP!vars
<1>3. ASSUME NEW failure \in Failures, Die(failure) PROVE UNCHANGED RP!vars
  BY <1>3 DEF Die, RP!vars
<1> QED BY <1>1, <1>2, <1>3, ActOnTables DEF Next

-----------------------------------------------------------------------------
(* The answers.                                                            *)

(* Rows stay what they are but for the mark, so what was true of one when  *)
(* a caller was told stays true.                                           *)
LEMMA TruthStays ==
  ASSUME Constants, TypeOK, RP!Final, NEW t \in Tasks, call[t] # None, Truth(t),
         call'[t] = call[t], Answer(t)' = Answer(t), t \in due' => t \in due, TypeOK'
  PROVE  Truth(t)'
<1> DEFINE row == versions[Key(t)]
<1>1. Key(t)' = Key(t) /\ Key(t) \in RP!Keys
  BY CallShape DEF Key
<1>2. row # None => /\ versions'[Key(t)] # None
                    /\ [versions'[Key(t)] EXCEPT !.yank = None] = [row EXCEPT !.yank = None]
  BY <1>1 DEF RP!Final
<1>3. row # None => versions'[Key(t)].digest = row.digest
  <2> SUFFICES ASSUME row # None PROVE versions'[Key(t)].digest = row.digest
    OBVIOUS
  <2>1. row \in RP!VersionRow /\ versions'[Key(t)] \in RP!VersionRow
    BY <1>1, <1>2 DEF TypeOK, RP!TypeOK
  <2>2. /\ [row EXCEPT !.yank = None].digest = row.digest
        /\ [versions'[Key(t)] EXCEPT !.yank = None].digest = versions'[Key(t)].digest
    BY <2>1 DEF RP!VersionRow
  <2> HIDE DEF row
  <2> QED BY <1>2, <2>2
<1> QED BY <1>1, <1>2, <1>3 DEF Truth

(* What a task is told, and nobody else's answer changes.                  *)
LEMMA Said ==
  ASSUME TypeOK, NEW t \in Tasks, NEW status, NEW record, status # "pending",
         result[t].status = "pending", Say(t, status, record)
  PROVE  /\ Answer(t)' = [status |-> status, record |-> record]
         /\ \A u \in Tasks \ {t} : /\ Answer(u)' = Answer(u)
                                   /\ outcome'[u] = outcome[u] /\ result'[u] = result[u]
         /\ outcome'[t] = Unknown \/ outcome'[t].status # "pending"
         /\ outcome'[t] = Unknown \/ result'[t].status = "pending"
<1> DEFINE answer == [status |-> status, record |-> record]
<1>1. answer # Unknown
  BY DEF Unknown
<1>2. CASE outcome' = [outcome EXCEPT ![t] = answer] /\ UNCHANGED result
  BY <1>1, <1>2 DEF Answer, TypeOK
<1>3. CASE outcome' = [outcome EXCEPT ![t] = Unknown] /\ result' = [result EXCEPT ![t] = answer]
  BY <1>1, <1>3 DEF Answer, TypeOK
<1> QED BY <1>2, <1>3 DEF Say

(* What an answer means when it is found.                                  *)
Means(t, status, record, row) ==
    /\ status = "ok" =>
         /\ row # None
         /\ call[t].op = "insert" =>
              /\ row.digest = call[t].digest
              /\ [record EXCEPT !.yank = None] = [row EXCEPT !.yank = None]
    /\ status = "conflict" => row # None /\ row.digest # call[t].digest

(* A call says something true, and is spent unless that is a failure ...   *)
Tells(t) ==
    \E status, record :
      /\ [status |-> status, record |-> record] \in Answers
      /\ status # "pending"
      /\ Open(t) /\ Say(t, status, record)
      /\ Means(t, status, record, versions'[Key(t)])
      /\ status \notin Failures => t \notin due'

(* ... or it is answered already, and says nothing.                        *)
Hushed(t) == UNCHANGED <<outcome, result>>

(* What is found at the moment of a call is said or comes too late.        *)
LEMMA Finding ==
  ASSUME NEW t \in Tasks, NEW status, NEW record, Find(t, status, record),
         [status |-> status, record |-> record] \in Answers, status # "pending",
         Means(t, status, record, versions'[Key(t)]), t \notin due'
  PROVE  Tells(t) \/ Hushed(t)
BY DEF Find, Tells, Hushed, Asking

LEMMA ActTells ==
  ASSUME Constants, IInv, NEW t \in Tasks, Act(t)
  PROVE  Tells(t) \/ Hushed(t)
<1>1. call[t] # None /\ Key(t) \in RP!Keys /\ Fits(t) /\ Truth(t) /\ TypeOK
  BY Acting, CallShape DEF IInv
<1>2. /\ \A failure \in Failures : failure \notin {"pending", "ok", "conflict", "notfound"}
      /\ None \notin RP!VersionRow
  BY DEF Constants, Findings
<1>3. ASSUME NEW failure \in Failures
      PROVE  /\ [status |-> failure, record |-> None] \in Answers
             /\ failure # "pending" /\ Means(t, failure, None, versions'[Key(t)])
  BY <1>2 DEF Means, Answers
<1>4. CASE Insert(t)
  <2>0. t \notin due'
    BY <1>4, Acting
  <2>1. RowOf(t) \in RP!NewRow
    BY <1>1, <1>4, CallShape DEF Insert, Moment
  <2>2. RowOf(t) \in RP!VersionRow
    BY <2>1 DEF RP!NewRow, RP!VersionRow
  <2>3. versions'[Key(t)] = RowOf(t)
    BY <1>1, <1>4 DEF Insert, Tables!Publish, Key, TypeOK, RP!TypeOK
  <2>4. Means(t, "ok", RowOf(t), versions'[Key(t)])
    BY <1>2, <2>2, <2>3 DEF Means, RowOf
  <2>5. [status |-> "ok", record |-> RowOf(t)] \in Answers
    BY <2>2 DEF Answers, Findings
  <2>6. CASE Find(t, "ok", RowOf(t))
    BY <2>0, <2>4, <2>5, <2>6, Finding
  <2>7. ASSUME NEW failure \in Failures, Find(t, failure, None) PROVE Tells(t) \/ Hushed(t)
    BY <1>3, <2>0, <2>7, Finding
  <2> QED BY <1>4, <2>6, <2>7 DEF Insert, Acknowledge
<1>5. CASE Meet(t)
  <2>1. versions[Key(t)] \in RP!VersionRow /\ versions' = versions
    BY <1>1, <1>5 DEF Meet, TypeOK, RP!TypeOK
  <2>2. Means(t, "ok", versions[Key(t)], versions'[Key(t)])
    BY <1>5, <2>1 DEF Means, Meet
  <2>3. [status |-> "ok", record |-> versions[Key(t)]] \in Answers
    BY <2>1 DEF Answers, Findings
  <2>4. Find(t, "ok", versions[Key(t)]) /\ t \notin due'
    BY <1>5, Acting DEF Meet
  <2> QED BY <2>2, <2>3, <2>4, Finding
<1>6. CASE Refuse(t)
  <2>1. Means(t, "conflict", None, versions'[Key(t)])
    BY <1>6 DEF Means, Refuse
  <2>2. [status |-> "conflict", record |-> None] \in Answers
    BY DEF Answers, Findings
  <2>3. Find(t, "conflict", None) /\ t \notin due'
    BY <1>6, Acting DEF Refuse
  <2> QED BY <2>1, <2>2, <2>3, Finding
<1>7. CASE Mark(t)
  <2>0. t \notin due'
    BY <1>7, Acting
  <2>1. call[t] \in MarkCall /\ call[t].op = "mark"
    BY <1>1, <1>7, CallShape DEF Mark, Moment
  <2>2. /\ versions[Key(t)] \in RP!VersionRow
        /\ versions'[Key(t)] = [versions[Key(t)] EXCEPT !.yank = call[t].mark]
    BY <1>1, <1>7 DEF Mark, Tables!Mark, Key, TypeOK, RP!TypeOK
  <2>3. versions'[Key(t)] \in RP!VersionRow
    BY <2>1, <2>2 DEF RP!VersionRow, MarkCall
  <2>4. Means(t, "ok", None, versions'[Key(t)])
    BY <1>2, <2>1, <2>3 DEF Means
  <2>5. [status |-> "ok", record |-> None] \in Answers
    BY DEF Answers, Findings
  <2>6. CASE Find(t, "ok", None)
    BY <2>0, <2>4, <2>5, <2>6, Finding
  <2>7. ASSUME NEW failure \in Failures, Find(t, failure, None) PROVE Tells(t) \/ Hushed(t)
    BY <1>3, <2>0, <2>7, Finding
  <2> QED BY <1>7, <2>6, <2>7 DEF Mark, Acknowledge
<1>8. CASE Miss(t)
  <2>1. Means(t, "notfound", None, versions'[Key(t)])
    BY DEF Means
  <2>2. [status |-> "notfound", record |-> None] \in Answers
    BY DEF Answers, Findings
  <2>3. Find(t, "notfound", None) /\ t \notin due'
    BY <1>8, Acting DEF Miss
  <2> QED BY <2>1, <2>2, <2>3, Finding
<1>9. CASE Spoil(t)
  BY <1>3, <1>9 DEF Spoil, Tells
<1>10. CASE Return(t)
  <2>1. /\ outcome[t] # Unknown /\ outcome[t].status # "pending"
        /\ outcome[t] \in Answers /\ versions' = versions /\ due' = due
    BY <1>1, <1>10 DEF Return, Fits, TypeOK
  <2>2. [status |-> outcome[t].status, record |-> outcome[t].record] = outcome[t]
    BY <2>1 DEF Answers
  <2>3. Means(t, outcome[t].status, outcome[t].record, versions'[Key(t)])
    BY <1>1, <2>1 DEF Means, Truth, Answer
  <2>4. outcome[t].status \notin Failures => t \notin due'
    BY <1>1, <2>1 DEF Truth, Answer
  <2> QED BY <1>10, <2>1, <2>2, <2>3, <2>4 DEF Return, Tells
<1>11. CASE GiveUp(t)
  BY <1>11 DEF GiveUp, Hushed
<1> QED BY <1>4, <1>5, <1>6, <1>7, <1>8, <1>9, <1>10, <1>11 DEF Act

LEMMA ActKeeps ==
  ASSUME Constants, IInv, NEW t \in Tasks, Act(t), RP!Final, RP!TypeOK'
  PROVE  IInv'
<1>1. /\ TypeOK /\ call[t] # None /\ call' = call
      /\ due' \in SUBSET due /\ \A u \in Tasks \ {t} : u \in due' <=> u \in due
  BY Acting
<1>2. CASE Hushed(t)
  <2>1. UNCHANGED <<outcome, result, call>>
    BY <1>1, <1>2 DEF Hushed
  <2>2. TypeOK'
    BY <1>1, <2>1 DEF TypeOK
  <2>3. ASSUME NEW u \in Tasks PROVE Fits(u)' /\ Truth(u)'
    <3>1. Fits(u)' /\ Answer(u)' = Answer(u)
      BY <1>1, <2>1 DEF IInv, Fits, Answer, Unknown
    <3>2. CASE call[u] # None
      BY <1>1, <2>1, <2>2, <3>1, <3>2, TruthStays DEF IInv
    <3>3. CASE call[u] = None
      <4>1. Answer(u)' = Unknown
        BY <2>1, <3>3 DEF IInv, Fits, Answer, Unknown
      <4> QED BY <3>1, <4>1 DEF Truth, Unknown
    <3> QED BY <3>1, <3>2, <3>3
  <2> QED BY <2>2, <2>3 DEF IInv
<1>3. CASE Tells(t)
  <2>1. PICK status, record :
          /\ [status |-> status, record |-> record] \in Answers
          /\ status # "pending"
          /\ Open(t) /\ Say(t, status, record)
          /\ Means(t, status, record, versions'[Key(t)])
          /\ status \notin Failures => t \notin due'
    BY <1>3 DEF Tells
  <2>2. result[t].status = "pending"
    BY <2>1 DEF Open
  <2>3. TypeOK'
    <3>1. Unknown \in Answers
      BY DEF Unknown, Answers
    <3> QED BY <1>1, <2>1, <3>1 DEF TypeOK, Say
  <2>4. /\ Answer(t)' = [status |-> status, record |-> record]
        /\ \A u \in Tasks \ {t} : /\ Answer(u)' = Answer(u)
                                  /\ outcome'[u] = outcome[u] /\ result'[u] = result[u]
        /\ outcome'[t] = Unknown \/ outcome'[t].status # "pending"
        /\ outcome'[t] = Unknown \/ result'[t].status = "pending"
    BY <1>1, <2>1, <2>2, Said
  <2>5. ASSUME NEW u \in Tasks PROVE Fits(u)' /\ Truth(u)'
    <3>1. CASE u = t
      <4>1. Truth(u)'
        BY <1>1, <2>1, <2>4, <3>1 DEF Truth, Means, Key
      <4> QED BY <1>1, <2>4, <3>1, <4>1 DEF Fits, Unknown
    <3>2. CASE u # t
      <4>1. Fits(u)'
        BY <1>1, <2>4, <3>2 DEF IInv, Fits, Unknown
      <4>2. CASE call[u] # None
        BY <1>1, <2>3, <2>4, <3>2, <4>1, <4>2, TruthStays DEF IInv
      <4>3. CASE call[u] = None
        <5>1. Answer(u)' = Unknown
          BY <2>4, <3>2, <4>3 DEF IInv, Fits, Answer
        <5> QED BY <4>1, <5>1 DEF Truth, Unknown
      <4> QED BY <4>1, <4>2, <4>3
    <3> QED BY <3>1, <3>2
  <2> QED BY <2>3, <2>5 DEF IInv
<1> QED BY <1>2, <1>3, ActTells

LEMMA InvokeKeeps ==
  ASSUME Constants, IInv, NEW t \in Tasks, NEW c \in Calls, Invoke(t, c)
  PROVE  IInv'
<1>1. /\ call[t] = None /\ UNCHANGED <<skills, versions, outcome, result>>
      /\ call' = [call EXCEPT ![t] = c] /\ due' = due \cup {t}
  BY DEF Invoke
<1>2. TypeOK'
  BY <1>1 DEF IInv, TypeOK, RP!TypeOK
<1>3. ASSUME NEW u \in Tasks PROVE Fits(u)' /\ Truth(u)'
  <2>1. CASE u = t
    <3>1. outcome'[t] = Unknown /\ result'[t] = Unknown
      BY <1>1 DEF IInv, Fits
    <3>2. Answer(t)' = Unknown
      BY <3>1 DEF Answer, Unknown
    <3>3. call'[t] # None
      BY <1>1 DEF IInv, TypeOK, Constants
    <3> QED BY <2>1, <3>1, <3>2, <3>3 DEF Fits, Truth, Unknown
  <2>2. CASE u # t
    <3>1. /\ call'[u] = call[u] /\ outcome'[u] = outcome[u] /\ result'[u] = result[u]
          /\ u \in due' <=> u \in due
      BY <1>1, <2>2 DEF IInv, TypeOK
    <3>2. Key(u)' = Key(u) /\ Answer(u)' = Answer(u)
      BY <3>1 DEF Key, Answer, Unknown
    <3>3. Fits(u)'
      BY <3>1 DEF IInv, Fits, Unknown
    <3>4. Truth(u)'
      BY <1>1, <3>1, <3>2 DEF IInv, Truth
    <3> QED BY <3>3, <3>4
  <2> QED BY <2>1, <2>2
<1> QED BY <1>2, <1>3 DEF IInv

LEMMA DieKeeps ==
  ASSUME Constants, IInv, NEW failure \in Failures, Die(failure)
  PROVE  IInv'
<1> DEFINE lost == {t \in Tasks : Open(t)}
           answer == [status |-> failure, record |-> None]
<1>1. /\ result' = [t \in Tasks |-> IF t \in lost THEN answer ELSE result[t]]
      /\ outcome' = [t \in Tasks |-> Unknown]
      /\ UNCHANGED <<skills, versions, call>> /\ due' \in SUBSET due
  BY DEF Die
<1>2. failure \notin {"pending", "ok", "conflict", "notfound"}
  BY DEF Constants, Findings
<1>3. TypeOK'
  <2>1. Unknown \in Answers /\ answer \in Answers
    BY DEF Unknown, Answers
  <2> HIDE DEF answer, lost
  <2> QED BY <1>1, <2>1 DEF IInv, TypeOK, RP!TypeOK
<1>4. ASSUME NEW u \in Tasks PROVE Fits(u)' /\ Truth(u)'
  <2>1. outcome'[u] = Unknown /\ Answer(u)' = result'[u]
    BY <1>1 DEF Answer, Unknown
  <2>2. CASE u \in lost
    <3>1. call[u] # None /\ result'[u] = answer
      BY <1>1, <2>2 DEF Open
    <3>2. result'[u].status = failure /\ failure \in Failures
      BY <3>1
    <3> QED BY <1>1, <1>2, <2>1, <3>1, <3>2 DEF Fits, Truth, Unknown
  <2>3. CASE u \notin lost
    <3>1. result'[u] = result[u]
      BY <1>1, <2>3
    <3>2. Fits(u)'
      BY <1>1, <2>1, <3>1 DEF IInv, Fits, Unknown
    <3>3. CASE result[u].status = "pending"
      BY <2>1, <3>1, <3>2, <3>3 DEF Truth
    <3>4. CASE result[u].status # "pending"
      <4>1. Answer(u)' = Answer(u)
        BY <2>1, <3>1, <3>4 DEF IInv, Fits, Answer
      <4> QED BY <1>1, <3>2, <4>1 DEF IInv, Truth, Key
    <3> QED BY <3>2, <3>3, <3>4
  <2> QED BY <2>2, <2>3
<1> QED BY <1>3, <1>4 DEF IInv

LEMMA Initially == Constants /\ Init => IInv
<1> SUFFICES ASSUME Constants, Init PROVE IInv
  OBVIOUS
<1>1. Unknown \in Answers
  BY DEF Unknown, Answers
<1>2. TypeOK
  BY <1>1 DEF Init, TypeOK, Tables!Init, Tables!Keys, RP!TypeOK, RP!Keys
<1>3. \A t \in Tasks : Fits(t) /\ Truth(t)
  BY DEF Init, Fits, Truth, Answer, Unknown
<1> QED BY <1>2, <1>3 DEF IInv

LEMMA Inductive == Constants /\ IInv /\ [Next]_vars => IInv'
<1> SUFFICES ASSUME Constants, IInv, [Next]_vars PROVE IInv'
  OBVIOUS
<1>1. TypeOK /\ RP!TypeOK
  BY DEF IInv, TypeOK
<1>2. CASE UNCHANGED vars
  BY <1>2 DEF vars, IInv, TypeOK, RP!TypeOK, Fits, Truth, Answer, Key, Unknown
<1>3. CASE \E t \in Tasks : Act(t)
  <2>1. [RP!Next]_(RP!vars)
    BY <1>3, ActOnTables
  <2>2. RP!TypeOK'
    BY <1>1, <2>1, RP!TypeStep DEF Constants
  <2>3. RP!Final
    <3>1. RP!Final \/ UNCHANGED RP!vars
      BY <1>1, <2>1, RP!FinalStep DEF Constants
    <3>2. UNCHANGED RP!vars => RP!Final
      BY DEF RP!vars, RP!Final
    <3> QED BY <3>1, <3>2
  <2> QED BY <1>3, <2>2, <2>3, ActKeeps
<1>4. CASE \E t \in Tasks, c \in Calls : Invoke(t, c)
  BY <1>4, InvokeKeeps
<1>5. CASE \E failure \in Failures : Die(failure)
  BY <1>5, DieKeeps
<1> QED BY <1>2, <1>3, <1>4, <1>5 DEF Next

-----------------------------------------------------------------------------
(* Theorems                                                                *)

LEMMA Invariance == ASSUME Constants PROVE Spec => []IInv
<1>1. Init => IInv
  BY Initially
<1>2. IInv /\ [Next]_vars => IInv'
  BY Inductive
<1> QED BY <1>1, <1>2, PTL DEF Spec

(* Calls that are atomic leave tables that behave as Registry says.        *)
THEOREM CallsKeepTables == ASSUME Constants PROVE Spec => RP!Spec
<1>1. Init => RP!Init
  BY DEF Init, Tables!Init, RP!Init, Tables!Keys, RP!Keys
<1>2. IInv /\ [Next]_vars => [RP!Next]_(RP!vars)
  BY StepOnTables
<1> QED BY <1>1, <1>2, Invariance, PTL DEF Spec, RP!Spec

(* Whoever is told ok or conflict can rely on it for good.                 *)
THEOREM AnswersAreTrue == ASSUME Constants PROVE Spec => []AnswersHold
<1>1. IInv => AnswersHold
  BY DEF IInv, Truth, AnswersHold
<1> QED BY <1>1, Invariance, PTL

(* A call has one effect at most, on its own version, be it before its     *)
(* answer or after a failure: a lost acknowledgement, a dropped future or  *)
(* a death of the process never leads to a second one.                     *)
THEOREM EffectsComeOnce == ASSUME Constants PROVE Spec => EffectsOnce
<1> DEFINE Kept == \A t \in Tasks : Spent(t) => Spent(t)' /\ call'[t] = call[t]
           Changed == <<skills, versions>>' # <<skills, versions>>
           Once(t) == /\ call[t] # None /\ ~Spent(t) /\ Spent(t)'
                      /\ \A key \in Tables!Keys \ {Key(t)} : versions'[key] = versions[key]
<1>1. ASSUME IInv, NEW t \in Tasks, Act(t)
      PROVE  Kept /\ (Changed => \E u \in Tasks : Once(u))
  <2>1. TypeOK /\ call[t] # None /\ call' = call /\ due' \in SUBSET due
    BY <1>1, Acting
  <2>2. Kept
    BY <2>1 DEF Spent
  <2>3. CASE Insert(t) \/ Mark(t)
    <3>1. ~Spent(t) /\ Spent(t)'
      BY <1>1, <2>1, <2>3, Acting DEF Spent
    <3>2. \A key \in Tables!Keys \ {Key(t)} : versions'[key] = versions[key]
      BY <2>1, <2>3 DEF Insert, Mark, Tables!Publish, Tables!Mark, Tables!Keys, RP!Keys, Key,
                        TypeOK, RP!TypeOK
    <3> QED BY <2>1, <2>2, <3>1, <3>2
  <2>4. CASE Meet(t) \/ Refuse(t) \/ Miss(t) \/ Spoil(t) \/ Return(t) \/ GiveUp(t)
    BY <2>2, <2>4 DEF Meet, Refuse, Miss, Spoil, Return, GiveUp
  <2> QED BY <1>1, <2>3, <2>4 DEF Act
<1>2. ASSUME IInv, NEW t \in Tasks, NEW c \in Calls, Invoke(t, c) PROVE Kept /\ ~Changed
  BY <1>2 DEF Invoke, Spent, IInv, TypeOK
<1>3. ASSUME IInv, NEW failure \in Failures, Die(failure) PROVE Kept /\ ~Changed
  BY <1>3 DEF Die, Spent
<1>4. IInv /\ [Next]_vars => [Kept /\ (Changed => \E t \in Tasks : Once(t))]_vars
  BY <1>1, <1>2, <1>3 DEF Next
<1> QED BY <1>4, Invariance, PTL DEF Spec, EffectsOnce
===============================================================================
