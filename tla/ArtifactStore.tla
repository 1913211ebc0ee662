----------------------------- MODULE ArtifactStore -----------------------------
(***************************************************************************)
(* RuntimeArtifactStore::fetch_verified and the three stores it dispatches *)
(* to (hub-api's state.rs, hub-storage): a file is read, an S3 object is   *)
(* requested, an OCI artifact takes two requests, the manifest of a tag    *)
(* and then the layer it lists.  Files, objects, tags and blobs belong to  *)
(* others and change at any moment, during a fetch too.                    *)
(*                                                                         *)
(* HubService and Catalog take a fetch for one read of one place; the      *)
(* properties say in which sense it is one.                                *)
(***************************************************************************)
EXTENDS Naturals, FiniteSets

CONSTANTS
    Fetches,        \* calls of fetch_verified, one each
    Pointers,       \* artifact urls, parsed: [scheme, user, query, host, path]
    Contents,
    Manifests,      \* OCI manifests, each the set of its layers' digests
    S3Configured,   \* HUB_STORAGE_S3_ENDPOINT is set
    RegistryHost,   \* HUB_STORAGE_OCI_REGISTRY_HOST, or None
    Torn,           \* what is read of a file while it is overwritten
    None

INSTANCE Digest

(* user and query: has user info, has a query or fragment.  path is None   *)
(* when it is empty or, for an OCI artifact, not of the form repo:tag.     *)
PointerFields == {"scheme", "user", "query", "host", "path"}

ASSUME PointersAssumption ==
    \A p \in Pointers : DOMAIN p = PointerFields /\ {p.user, p.query} \subseteq BOOLEAN
ASSUME ManifestsAssumption == Manifests \subseteq SUBSET Digests
ASSUME TornAssumption == None \notin Contents /\ Torn \notin Contents \cup {None}

VARIABLES
    objects,   \* what a file or S3 pointer leads to
    tags,      \* the layer digests in the manifest an OCI pointer leads to
    blobs,     \* the registry's blobs, by digest as it is written
    stage, pointer, digest,   \* of a fetch: where it is, its arguments
    seen,      \* what its place has held since it asked for it
    answer     \* its result

store == <<objects, tags, blobs>>
vars == <<store, stage, pointer, digest, seen, answer>>

(* parse_artifact_pointer, the dispatch, and the checks of each store      *)
Refused(p) ==
    \/ p.user
    \/ p.scheme \notin {"file", "s3", "oci"}
    \/ p.scheme = "file" /\ p.host # None
    \/ /\ p.scheme = "s3"
       /\ ~S3Configured \/ p.query \/ p.host = None \/ p.path = None
    \/ /\ p.scheme = "oci"
       /\ RegistryHost = None \/ p.query \/ p.host # RegistryHost \/ p.path = None

Served == {p \in Pointers : ~Refused(p)}
Objects == {p \in Served : p.scheme # "oci"}
Images == {p \in Served : p.scheme = "oci"}

Layers == UNION Manifests

Reading == {"object", "layer"}

(* What the place a fetch reads from holds now.                            *)
Present(f) == IF stage[f] = "layer" THEN blobs[digest[f]] ELSE objects[pointer[f]]

-----------------------------------------------------------------------------

Init == /\ objects = [p \in Objects |-> None]
        /\ tags = [p \in Images |-> None]
        /\ blobs = [d \in Layers |-> None]
        /\ stage = [f \in Fetches |-> "idle"]
        /\ pointer = [f \in Fetches |-> None]
        /\ digest = [f \in Fetches |-> None]
        /\ seen = [f \in Fetches |-> {}]
        /\ answer = [f \in Fetches |-> [status |-> "pending", bytes |-> None]]

Goto(f, s) == stage' = [stage EXCEPT ![f] = s]

Answer(f, status, bytes) ==
    /\ Goto(f, "done")
    /\ answer' = [answer EXCEPT ![f] = [status |-> status, bytes |-> bytes]]

(* Callers pass digests that validate_digest has accepted.                 *)
Start(f, p, d) ==
    /\ stage[f] = "idle"
    /\ pointer' = [pointer EXCEPT ![f] = p]
    /\ digest' = [digest EXCEPT ![f] = d]
    /\ \/ /\ Refused(p)
          /\ Answer(f, "refused", None)
          /\ UNCHANGED seen
       \/ /\ p \in Images
          /\ Goto(f, "manifest")
          /\ UNCHANGED <<answer, seen>>
       \/ /\ p \in Objects
          /\ Goto(f, "object")
          /\ seen' = [seen EXCEPT ![f] = {objects[p]}]
          /\ UNCHANGED answer
    /\ UNCHANGED store

(* The manifest arrives.  first_layer_digest looks for the digest as it is *)
(* written, and the layer is requested.                                    *)
ReadManifest(f) ==
    /\ stage[f] = "manifest"
    /\ tags[pointer[f]] # None
    /\ \/ /\ digest[f] \in tags[pointer[f]]
          /\ Goto(f, "layer")
          /\ seen' = [seen EXCEPT ![f] = {blobs[digest[f]]}]
          /\ UNCHANGED answer
       \/ /\ digest[f] \notin tags[pointer[f]]
          /\ Answer(f, "refused", None)
          /\ UNCHANGED seen
    /\ UNCHANGED <<store, pointer, digest>>

(* What can be read of a place: something it held meanwhile, or, of a file *)
(* that was overwritten, a mixture.                                        *)
Readable(f) ==
    (seen[f] \ {None}) \cup
    (IF pointer[f].scheme = "file" /\ Cardinality(seen[f]) > 1 THEN {Torn} ELSE {})

(* The bytes are complete and verified.                                    *)
ReadBytes(f) ==
    /\ stage[f] \in Reading
    /\ \E content \in Readable(f) :
          \/ DigestVerified(content, digest[f]) /\ Answer(f, "ok", content)
          \/ ~DigestVerified(content, digest[f]) /\ Answer(f, "mismatch", None)
    /\ UNCHANGED <<store, pointer, digest, seen>>

(* Nothing is there, or it cannot be read, or the server fails.            *)
Unavailable(f) ==
    /\ stage[f] \in Reading \cup {"manifest"}
    /\ Answer(f, "unavailable", None)
    /\ UNCHANGED <<store, pointer, digest, seen>>

(* The owner of the store changes it; the fetches that are reading may see *)
(* the change.                                                             *)
Witnessed ==
    seen' = [f \in Fetches |->
               IF stage[f] \in Reading THEN seen[f] \cup {Present(f)'} ELSE seen[f]]

ChangeStore ==
    /\ \/ /\ \E p \in Objects, content \in Contents \cup {None} :
                objects' = [objects EXCEPT ![p] = content]
          /\ UNCHANGED <<tags, blobs>>
       \/ /\ \E p \in Images, layers \in Manifests \cup {None} :
                tags' = [tags EXCEPT ![p] = layers]
          /\ UNCHANGED <<objects, blobs>>
       \/ /\ \E d \in Layers, content \in Contents \cup {None} :
                blobs' = [blobs EXCEPT ![d] = content]
          /\ UNCHANGED <<objects, tags>>
    /\ UNCHANGED <<stage, pointer, digest, answer>>
    /\ Witnessed

Next == \/ \E f \in Fetches : \/ \E p \in Pointers, d \in Digests : Start(f, p, d)
                              \/ ReadManifest(f)
                              \/ ReadBytes(f)
                              \/ Unavailable(f)
        \/ ChangeStore

Spec == Init /\ [][Next]_vars

-----------------------------------------------------------------------------
(* Properties                                                              *)

TypeOK ==
    /\ objects \in [Objects -> Contents \cup {None}]
    /\ tags \in [Images -> Manifests \cup {None}]
    /\ blobs \in [Layers -> Contents \cup {None}]
    /\ stage \in [Fetches -> {"idle", "manifest", "done"} \cup Reading]
    /\ pointer \in [Fetches -> Pointers \cup {None}]
    /\ digest \in [Fetches -> Digests \cup {None}]
    /\ seen \in [Fetches -> SUBSET (Contents \cup {None})]
    /\ answer \in [Fetches -> [status : {"pending", "ok", "refused", "unavailable", "mismatch"},
                               bytes : Contents \cup {None}]]

(* Whatever is moved or overwritten between the requests of a fetch, the   *)
(* bytes it returns have the digest it was asked for and were at their     *)
(* place at one moment of the fetch: a fetch is one read.                  *)
VerifiedWasThere ==
    \A f \in Fetches : answer[f].status = "ok" =>
      /\ answer[f].bytes \in seen[f]
      /\ Sha256(answer[f].bytes) = Normalize(digest[f])

(* A digest mismatch is only reported when the place held something else   *)
(* at one moment of the fetch, not for the way the digest was written.     *)
MismatchIsReal ==
    \A f \in Fetches : answer[f].status = "mismatch" =>
      \E content \in seen[f] :
         content = None \/ Sha256(content) # Normalize(digest[f])
===============================================================================
