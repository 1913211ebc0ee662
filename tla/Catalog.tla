-------------------------------- MODULE Catalog --------------------------------
(***************************************************************************)
(* The read path of the hub in front of its database: a client takes an    *)
(* entry of an index or of the similar search and asks for its artifact,   *)
(* which is looked up by NAME and only then fetched and verified, and for  *)
(* its signature, which is looked up again, while publishers, yanks and    *)
(* the owner of the artifact store go on.                                  *)
(*                                                                         *)
(* The tables change as Registry says, which PgRepository implements.      *)
(***************************************************************************)
EXTENDS Naturals

CONSTANTS
    Clients,
    Namespaces,   \* numbers, in the order of ORDER BY namespace
    Names, Versions, Contents, Urls, KeyPairs, Subjects, Visibilities, Reasons, Ids,
    None

Skills == Namespaces \X Names

INSTANCE Digest

ASSUME NamespacesAssumption == Namespaces \subseteq Nat
ASSUME NoneAssumption == None \notin Contents

(* What a row has besides its digest: shown is the key pair that signed    *)
(* it, None when it was published unsigned.                                *)
Payloads == [url : Urls, shown : KeyPairs \cup {None}]

VARIABLES
    skills, versions,   \* the committed tables
    store,              \* artifact url -> its present contents, None when missing
    at,                 \* where a client's download is
    wanted,             \* the index entry the client chose
    found,              \* the record the lookup returned
    bytes,              \* what the client received for {version}.tar.zst
    signature           \* and for {version}.tar.zst.sig

tables == <<skills, versions>>
client == <<at, wanted, found, bytes, signature>>
vars == <<tables, store, client>>

Tables == INSTANCE Registry

ASSUME TablesAssumption == None \notin Tables!SkillRow \cup Tables!VersionRow \cup Reasons

INSTANCE Listing

Hits == [name : Names, version : Versions, digest : Digests \cup {None},
         shown : KeyPairs \cup {None}]

(* trust_message: HubService has admitted only signatures of the row's own *)
(* manifest and digest (RowsArePublishable).                               *)
Signatures == [by : KeyPairs, digest : Digests]
SignatureOf(row) == IF row.payload.shown = None THEN None
                    ELSE [by |-> row.payload.shown, digest |-> row.digest]

(* The row public_version_by_name returns.                                 *)
FirstRow(name, v) == versions[<<<<FirstNamespace(name, v), name>>, v>>]

-----------------------------------------------------------------------------

Init == /\ Tables!Init
        /\ store \in [Urls -> Contents \cup {None}]
        /\ at = [c \in Clients |-> "idle"]
        /\ wanted = [c \in Clients |-> None]
        /\ found = [c \in Clients |-> None]
        /\ bytes = [c \in Clients |-> None]
        /\ signature = [c \in Clients |-> None]

Goto(c, s) == at' = [at EXCEPT ![c] = s]

(* index_json, list_skills, get_skill, list_versions, get_version, search, *)
(* similar_search: the client takes one entry.  (Those of one namespace    *)
(* are among those of the hub.)                                            *)
Choose(c) ==
    /\ at[c] = "idle"
    /\ \E hit \in Index(Namespaces) \cup SimilarHits :
          wanted' = [wanted EXCEPT ![c] = hit]
    /\ Goto(c, "chosen")
    /\ UNCHANGED <<tables, store, found, bytes, signature>>

(* db_artifact_response up to its second await                             *)
Lookup(c) ==
    LET name == wanted[c].name
        v == wanted[c].version
    IN /\ at[c] = "chosen"
       /\ \/ /\ Candidates(name, v) # {}
             /\ found' = [found EXCEPT ![c] = FirstRow(name, v)]
             /\ Goto(c, "fetching")
          \/ /\ Candidates(name, v) = {}
             /\ Goto(c, "notfound")
             /\ UNCHANGED found
       /\ UNCHANGED <<tables, store, wanted, bytes, signature>>

(* fetch_verified, and the response                                        *)
Fetch(c) ==
    LET content == store[found[c].payload.url] IN
    /\ at[c] = "fetching"
    /\ \/ /\ DigestVerified(content, found[c].digest)
          /\ bytes' = [bytes EXCEPT ![c] = content]
          /\ Goto(c, "served")
       \/ /\ ~DigestVerified(content, found[c].digest)
          /\ Goto(c, "failed")
          /\ UNCHANGED bytes
    /\ UNCHANGED <<tables, store, wanted, found, signature>>

(* db_artifact_response for the signature, before or after the artifact.   *)
(* A 404 leaves the client as it was.                                      *)
LookupSignature(c) ==
    LET name == wanted[c].name
        v == wanted[c].version
    IN /\ at[c] \in {"chosen", "served"} /\ signature[c] = None
       /\ Candidates(name, v) # {}
       /\ signature' = [signature EXCEPT ![c] = SignatureOf(FirstRow(name, v))]
       /\ UNCHANGED <<tables, store, at, wanted, found, bytes>>

(* The database or the artifact store fails.                               *)
Unavailable(c) == /\ at[c] \in {"chosen", "fetching"}
                  /\ Goto(c, "failed")
                  /\ UNCHANGED <<tables, store, wanted, found, bytes, signature>>

Publishers == /\ Tables!Next
              /\ UNCHANGED <<store, client>>

ChangeStore == /\ \E url \in Urls, content \in Contents \cup {None} :
                     store' = [store EXCEPT ![url] = content]
               /\ UNCHANGED <<tables, client>>

Next == \/ \E c \in Clients : \/ Choose(c)
                              \/ Lookup(c)
                              \/ Fetch(c)
                              \/ LookupSignature(c)
                              \/ Unavailable(c)
        \/ Publishers
        \/ ChangeStore

Spec == Init /\ [][Next]_vars

-----------------------------------------------------------------------------
(* Properties                                                              *)

TypeOK ==
    /\ Tables!TypeOK
    /\ store \in [Urls -> Contents \cup {None}]
    /\ at \in [Clients -> {"idle", "chosen", "fetching", "served", "failed", "notfound"}]
    /\ wanted \in [Clients -> Hits \cup {None}]
    /\ found \in [Clients -> Tables!VersionRow \cup {None}]
    /\ bytes \in [Clients -> Contents \cup {None}]
    /\ signature \in [Clients -> Signatures \cup {None}]

(* Whatever the store and the publishers do between the lookup and the     *)
(* fetch, the bytes a client receives are those some stored version of the *)
(* name and version it asked for was published with, in a public skill.    *)
ServedBytesWerePublished ==
    \A c \in Clients : at[c] = "served" =>
      \E ns \in Namespaces :
        LET k == <<ns, wanted[c].name>>
            row == versions[<<k, wanted[c].version>>]
        IN /\ row # None
           /\ Normalize(row.digest) = Sha256(bytes[c])
           /\ skills[k].visibility = "public"

(* An index entry of the past still describes a stored public version,     *)
(* whether it has been yanked since or not; a hit of the similar search    *)
(* names a stored version.                                                 *)
EntriesStayTrue ==
    \A c \in Clients : wanted[c] # None =>
      \E ns \in Namespaces :
        LET k == <<ns, wanted[c].name>> IN
        /\ skills[k] # None
        /\ versions[<<k, wanted[c].version>>] # None
        /\ wanted[c].digest # None => /\ skills[k].visibility = "public"
                                      /\ HitOf(k, wanted[c].version) = wanted[c]

(* Where a name and version belong to one namespace, artifact, signature   *)
(* and index entry, got by three queries at three times, fit together: the *)
(* bytes have the digest of the entry, and the signature signs them and is *)
(* by the key the entry shows.  (Rows do not vanish, so one that is alone  *)
(* now was alone at every earlier step.)                                   *)
Alone(name, v) ==
    \E ns \in Namespaces : \A other \in Namespaces \ {ns} :
       versions[<<<<other, name>>, v>>] = None

UnambiguousEntryIsServed ==
    \A c \in Clients :
      (wanted[c] # None /\ Alone(wanted[c].name, wanted[c].version)) =>
        /\ (bytes[c] # None /\ wanted[c].digest # None) =>
              Sha256(bytes[c]) = Normalize(wanted[c].digest)
        /\ (bytes[c] # None /\ signature[c] # None) =>
              Sha256(bytes[c]) = Normalize(signature[c].digest)
        /\ (signature[c] # None /\ wanted[c].digest # None) =>
              signature[c] = [by |-> wanted[c].shown, digest |-> wanted[c].digest]

(* A client that takes an entry of the index and downloads it gets bytes   *)
(* with the digest of that entry, or no bytes.                             *)
ListedDigestIsServed ==
    \A c \in Clients : (at[c] = "served" /\ wanted[c].digest # None) =>
      Sha256(bytes[c]) = Normalize(wanted[c].digest)
===============================================================================
