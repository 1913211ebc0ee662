--------------------------------- MODULE Listing ---------------------------------
(***************************************************************************)
(* The queries of PgHubRepository and PgVectorSearch over the tables       *)
(* skills and skill_versions, as Registry has them.                        *)
(*                                                                         *)
(* payload.shown of a row is what index entries show of it besides name,   *)
(* version and digest.                                                     *)
(***************************************************************************)
EXTENDS Naturals

CONSTANTS
    Namespaces,   \* numbers, in the order of ORDER BY namespace
    Skills,       \* pairs of a namespace and a name
    Versions,
    None

VARIABLES skills, versions

(* Mutant of Listed: the visibility condition is dropped.                  *)
ListedAnyVisibility(k, v) == versions[<<k, v>>] # None /\ versions[<<k, v>>].yank = None

(* WHERE visibility = 'public' AND yanked_at IS NULL                       *)
Listed(k, v) == /\ skills[k] # None /\ skills[k].visibility = "public"
                /\ versions[<<k, v>>] # None /\ versions[<<k, v>>].yank = None

(* The skill versions of an index, of the hub or of one namespace.         *)
ListedKeys(namespaces) ==
    {key \in Skills \X Versions : key[1][1] \in namespaces /\ Listed(key[1], key[2])}

(* An entry of compatibility_index does not say which namespace it is      *)
(* from: registry is the hub's own name.                                   *)
HitOf(k, v) == [name |-> k[2], version |-> v, digest |-> versions[<<k, v>>].digest,
                shown |-> versions[<<k, v>>].payload.shown]

Index(namespaces) == {HitOf(key[1], key[2]) : key \in ListedKeys(namespaces)}

(* PgVectorSearch: yanked_at IS NULL is its only condition, and the hits   *)
(* of similar_search come without digest and signature.                    *)
SimilarHits ==
    {[name |-> key[1][2], version |-> key[2], digest |-> None, shown |-> None] :
       key \in {x \in Skills \X Versions : versions[x] # None /\ versions[x].yank = None}}

Candidates(name, v) == {ns \in Namespaces : <<ns, name>> \in Skills /\ Listed(<<ns, name>>, v)}

(* public_version_by_name: ORDER BY namespace LIMIT 1                      *)
FirstNamespace(name, v) ==
    CHOOSE ns \in Candidates(name, v) : \A other \in Candidates(name, v) : ns <= other
===============================================================================
