------------------------------- MODULE Registry -------------------------------
(***************************************************************************)
(* What the hub's Postgres registry promises to its callers: two tables    *)
(* that change in one step per operation.  A version row is written once   *)
(* under its (skill, version) key and from then on only its yank mark      *)
(* changes; a skill row exists exactly for the skills that have a version. *)
(*                                                                         *)
(* The tables are those of migrations/0001_init.sql; PgRepository models   *)
(* the SQL transactions that implement this specification.                 *)
(***************************************************************************)
CONSTANTS
    Skills,        \* (namespace, name) pairs, the unique key of table skills
    Versions,      \* version strings
    Digests,       \* artifact digests
    Payloads,      \* the rest of a publication: manifest, url, signatures
    Subjects,      \* values of published_by
    Visibilities,  \* public, private, unlisted
    Reasons,       \* yank reasons
    Ids,           \* version row ids, fresh uuids
    None           \* SQL NULL, and the absence of a row

VARIABLES
    skills,        \* table skills, by its key
    versions       \* table skill_versions, by its key

vars == <<skills, versions>>

Keys == Skills \X Versions

SkillRow == [visibility : Visibilities, latest : Versions]

VersionRow == [id : Ids, digest : Digests, payload : Payloads,
               publisher : Subjects, yank : Reasons \cup {None}]

(* A row as it is inserted.                                                *)
NewRow == [id : Ids, digest : Digests, payload : Payloads,
           publisher : Subjects, yank : {None}]

ASSUME NoneIsNoRow == None \notin SkillRow \cup VersionRow \cup Reasons

(* The primary key of skill_versions.                                      *)
Fresh(id) == \A key \in Keys : versions[key] # None => versions[key].id # id

(* Mutants of SkillAfter: latest_version left NULL, skill row not written, *)
(* ON CONFLICT DO UPDATE SET visibility = EXCLUDED.visibility.             *)
SkillAfterNoLatest(old, visibility, v) == [visibility |-> visibility, latest |-> None]
SkillAfterUnwritten(old, visibility, v) == old
SkillAfterRevisited(old, visibility, v) == [visibility |-> visibility, latest |-> v]

(* The skill row once version v of a skill is published: the first         *)
(* publication fixes the visibility, every publication moves latest.       *)
SkillAfter(old, visibility, v) ==
    IF old = None THEN [visibility |-> visibility, latest |-> v]
                  ELSE [old EXCEPT !.latest = v]

-----------------------------------------------------------------------------

Init == /\ skills = [k \in Skills |-> None]
        /\ versions = [key \in Keys |-> None]

Publish(k, v, visibility, row) ==
    /\ versions[<<k, v>>] = None
    /\ Fresh(row.id)
    /\ versions' = [versions EXCEPT ![<<k, v>>] = row]
    /\ skills' = [skills EXCEPT ![k] = SkillAfter(@, visibility, v)]

(* Yank with a reason, unyank with None.                                   *)
Mark(k, v, mark) ==
    /\ versions[<<k, v>>] # None
    /\ versions' = [versions EXCEPT ![<<k, v>>].yank = mark]
    /\ UNCHANGED skills

Next == \E k \in Skills, v \in Versions :
          \/ \E visibility \in Visibilities, row \in NewRow :
                Publish(k, v, visibility, row)
          \/ \E mark \in Reasons \cup {None} : Mark(k, v, mark)

Spec == Init /\ [][Next]_vars

-----------------------------------------------------------------------------

TypeOK == /\ skills \in [Skills -> SkillRow \cup {None}]
          /\ versions \in [Keys -> VersionRow \cup {None}]

(* The two tables agree: a skill row exists exactly when the skill has a   *)
(* version, and latest_version names a version that exists.                *)
TablesAgree ==
    \A k \in Skills :
      /\ skills[k] = None <=> \A v \in Versions : versions[<<k, v>>] = None
      /\ skills[k] # None => versions[<<k, skills[k].latest>>] # None

(* A published version is final: no later step removes its row or alters   *)
(* anything but the yank mark, and a skill keeps its first visibility.     *)
Final ==
    /\ \A key \in Keys : versions[key] # None =>
          /\ versions'[key] # None
          /\ [versions'[key] EXCEPT !.yank = None] = [versions[key] EXCEPT !.yank = None]
    /\ \A k \in Skills : skills[k] # None =>
          /\ skills'[k] # None
          /\ skills'[k].visibility = skills[k].visibility

PublicationsAreFinal == [][Final]_vars
=============================================================================
