-------------------------- MODULE ArtifactStoreProofs --------------------------
(***************************************************************************)
(* Theorems about ArtifactStore, for every value of its constants: any     *)
(* number of fetches, pointers, contents and manifests.                    *)
(***************************************************************************)
EXTENDS ArtifactStore, FiniteSetTheorems, TLAPS

-----------------------------------------------------------------------------
(* What the checks of a digest conclude.                                   *)

(* Two contents have two digests.                                          *)
LEMMA NoCollision == \A a, b : Sha256(a) = Sha256(b) => a = b
  BY DEF Sha256

(* A digest identifies a content: what has it is one of Contents, so a     *)
(* torn read never passes.                                                 *)
LEMMA VerifiedIsContent ==
  ASSUME NEW content, NEW d \in Digests, DigestVerified(content, d)
  PROVE  content \in Contents /\ Sha256(content) = Normalize(d)
<1>1. Normalize(d) \in Digests
  BY DEF Normalize, Digests
<1>2. Sha256(content) = Normalize(d)
  BY DEF DigestVerified
<1> QED BY <1>1, <1>2 DEF Digests, Sha256

(* A place that has held more than one thing has held two.                 *)
LEMMA TwoWereThere ==
  ASSUME NEW S, IsFiniteSet(S), Cardinality(S) > 1
  PROVE  \E a, b \in S : a # b
<1>1. CASE S = {}
  BY <1>1, FS_EmptySet
<1>2. ASSUME NEW a \in S PROVE \E b \in S : a # b
  <2>1. IsFiniteSet({a}) /\ Cardinality({a}) = 1
    BY FS_Singleton
  <2>2. S # {a}
    BY <2>1
  <2> QED BY <2>2
<1> QED BY <1>1, <1>2

-----------------------------------------------------------------------------
(* The inductive invariant.                                                *)

(* What a fetch that is under way has been given and what it reads from.   *)
InPlace ==
    \A f \in Fetches :
      /\ stage[f] # "idle" => digest[f] \in Digests
      /\ stage[f] = "object" => pointer[f] \in Objects
      /\ stage[f] \in {"manifest", "layer"} => pointer[f] \in Images
      /\ stage[f] = "layer" => digest[f] \in Layers

SeenIsFinite == \A f \in Fetches : IsFiniteSet(seen[f])

AnsweredWhenDone == \A f \in Fetches : stage[f] # "done" => answer[f].status = "pending"

IInv == /\ TypeOK
        /\ InPlace
        /\ SeenIsFinite
        /\ AnsweredWhenDone
        /\ VerifiedWasThere
        /\ MismatchIsReal

LEMMA Initially == Init => IInv
<1>1. \A f \in Fetches : IsFiniteSet({})
  BY FS_EmptySet
<1> QED BY <1>1 DEF Init, IInv, TypeOK, InPlace, SeenIsFinite, AnsweredWhenDone,
                    VerifiedWasThere, MismatchIsReal

(* A fetch that ends with a status that says nothing about bytes.          *)
LEMMA NoBytes ==
  ASSUME IInv, NEW f \in Fetches, NEW status \in {"refused", "unavailable"},
         stage[f] # "done", Answer(f, status, None), seen' = seen,
         digest'[f] \in Digests, \A g \in Fetches \ {f} : digest'[g] = digest[g],
         digest' \in [Fetches -> Digests \cup {None}],
         pointer' \in [Fetches -> Pointers \cup {None}],
         \A g \in Fetches \ {f} : pointer'[g] = pointer[g],
         UNCHANGED store
  PROVE  IInv'
<1>1. /\ \A g \in Fetches \ {f} : stage'[g] = stage[g] /\ answer'[g] = answer[g]
      /\ stage'[f] = "done" /\ answer'[f] = [status |-> status, bytes |-> None]
  BY DEF IInv, TypeOK, Answer, Goto
<1>2. TypeOK'
  BY DEF IInv, TypeOK, Answer, Goto, store
<1>3. InPlace'
  BY <1>1 DEF IInv, InPlace
<1>4. SeenIsFinite' /\ AnsweredWhenDone'
  BY <1>1 DEF IInv, SeenIsFinite, AnsweredWhenDone
<1>5. VerifiedWasThere' /\ MismatchIsReal'
  <2> SUFFICES ASSUME NEW g \in Fetches
               PROVE  /\ answer'[g].status = "ok" =>
                           /\ answer'[g].bytes \in seen'[g]
                           /\ Sha256(answer'[g].bytes) = Normalize(digest'[g])
                      /\ answer'[g].status = "mismatch" =>
                           \E content \in seen'[g] :
                              content = None \/ Sha256(content) # Normalize(digest'[g])
    BY DEF VerifiedWasThere, MismatchIsReal
  <2>1. CASE g = f
    BY <2>1, <1>1
  <2>2. CASE g # f
    BY <2>2, <1>1 DEF IInv, VerifiedWasThere, MismatchIsReal
  <2> QED BY <2>1, <2>2
<1> QED BY <1>2, <1>3, <1>4, <1>5 DEF IInv

(* A fetch that goes on from one request to the next.                      *)
LEMMA Onward ==
  ASSUME IInv, NEW f \in Fetches, NEW s \in {"object", "manifest", "layer"},
         stage[f] # "done", Goto(f, s),
         seen' \in [Fetches -> SUBSET (Contents \cup {None})],
         IsFiniteSet(seen'[f]), \A g \in Fetches \ {f} : seen'[g] = seen[g],
         digest'[f] \in Digests, \A g \in Fetches \ {f} : digest'[g] = digest[g],
         digest' \in [Fetches -> Digests \cup {None}],
         pointer' \in [Fetches -> Pointers \cup {None}],
         \A g \in Fetches \ {f} : pointer'[g] = pointer[g],
         s = "object" => pointer'[f] \in Objects,
         s \in {"manifest", "layer"} => pointer'[f] \in Images,
         s = "layer" => digest'[f] \in Layers,
         UNCHANGED <<store, answer>>
  PROVE  IInv'
<1>1. /\ \A g \in Fetches \ {f} : stage'[g] = stage[g]
      /\ stage'[f] = s
      /\ answer[f].status = "pending"
  BY DEF IInv, TypeOK, Goto, AnsweredWhenDone
<1>2. TypeOK'
  BY DEF IInv, TypeOK, Goto, store, Reading
<1>3. InPlace'
  BY <1>1 DEF IInv, InPlace
<1>4. SeenIsFinite' /\ AnsweredWhenDone'
  BY <1>1 DEF IInv, SeenIsFinite, AnsweredWhenDone
<1>5. VerifiedWasThere' /\ MismatchIsReal'
  BY <1>1 DEF IInv, VerifiedWasThere, MismatchIsReal
<1> QED BY <1>2, <1>3, <1>4, <1>5 DEF IInv

LEMMA StartKeeps ==
  ASSUME IInv, NEW f \in Fetches, NEW p \in Pointers, NEW d \in Digests, Start(f, p, d)
  PROVE  IInv'
<1>1. /\ digest'[f] = d /\ \A g \in Fetches \ {f} : digest'[g] = digest[g]
      /\ pointer'[f] = p /\ \A g \in Fetches \ {f} : pointer'[g] = pointer[g]
      /\ digest' \in [Fetches -> Digests \cup {None}]
      /\ pointer' \in [Fetches -> Pointers \cup {None}]
      /\ stage[f] = "idle"
      /\ UNCHANGED store
  BY DEF IInv, TypeOK, Start
<1>2. CASE Answer(f, "refused", None) /\ seen' = seen
  BY <1>1, <1>2, NoBytes
<1>3. CASE p \in Images /\ Goto(f, "manifest") /\ UNCHANGED <<answer, seen>>
  <2>1. seen' \in [Fetches -> SUBSET (Contents \cup {None})] /\ IsFiniteSet(seen'[f])
    BY <1>3 DEF IInv, TypeOK, SeenIsFinite
  <2> QED BY <1>1, <1>3, <2>1, Onward
<1>4. CASE /\ p \in Objects /\ Goto(f, "object")
           /\ seen' = [seen EXCEPT ![f] = {objects[p]}]
           /\ UNCHANGED answer
  <2>1. /\ seen' \in [Fetches -> SUBSET (Contents \cup {None})]
        /\ seen'[f] = {objects[p]} /\ \A g \in Fetches \ {f} : seen'[g] = seen[g]
    BY <1>4 DEF IInv, TypeOK
  <2>2. IsFiniteSet(seen'[f])
    BY <2>1, FS_Singleton
  <2> QED BY <1>1, <1>4, <2>1, <2>2, Onward
<1> QED BY <1>2, <1>3, <1>4 DEF Start

LEMMA ReadManifestKeeps ==
  ASSUME IInv, NEW f \in Fetches, ReadManifest(f)
  PROVE  IInv'
<1>1. /\ stage[f] = "manifest" /\ digest[f] \in Digests /\ pointer[f] \in Images
      /\ digest \in [Fetches -> Digests \cup {None}]
      /\ pointer \in [Fetches -> Pointers \cup {None}]
      /\ UNCHANGED <<store, pointer, digest>>
  BY DEF IInv, TypeOK, InPlace, ReadManifest
<1>2. CASE Answer(f, "refused", None) /\ seen' = seen
  BY <1>1, <1>2, NoBytes
<1>3. CASE /\ digest[f] \in tags[pointer[f]] /\ Goto(f, "layer")
           /\ seen' = [seen EXCEPT ![f] = {blobs[digest[f]]}]
           /\ UNCHANGED answer
  <2>1. tags[pointer[f]] \in Manifests
    BY <1>1 DEF IInv, TypeOK, ReadManifest
  <2>2. digest[f] \in Layers
    BY <2>1, <1>3 DEF Layers
  <2>3. /\ seen' \in [Fetches -> SUBSET (Contents \cup {None})]
        /\ seen'[f] = {blobs[digest[f]]} /\ \A g \in Fetches \ {f} : seen'[g] = seen[g]
    BY <1>3, <2>2 DEF IInv, TypeOK
  <2>4. IsFiniteSet(seen'[f])
    BY <2>3, FS_Singleton
  <2> QED BY <1>1, <1>3, <2>2, <2>3, <2>4, Onward
<1> QED BY <1>2, <1>3 DEF ReadManifest

(* The heart of it: bytes that are verified were there, and bytes that do  *)
(* not fit show that something else was there, even if they are torn.      *)
LEMMA ReadBytesKeeps ==
  ASSUME IInv, NEW f \in Fetches, ReadBytes(f)
  PROVE  IInv'
<1>1. /\ digest[f] \in Digests /\ stage[f] # "done"
      /\ UNCHANGED <<store, pointer, digest, seen>>
  BY DEF IInv, InPlace, ReadBytes, Reading
<1>2. PICK content \in Readable(f) :
        \/ DigestVerified(content, digest[f]) /\ Answer(f, "ok", content)
        \/ ~DigestVerified(content, digest[f]) /\ Answer(f, "mismatch", None)
  BY DEF ReadBytes
<1>3. \/ content \in seen[f] \ {None}
      \/ content = Torn /\ Cardinality(seen[f]) > 1
  BY DEF Readable
<1>4. CASE DigestVerified(content, digest[f]) /\ Answer(f, "ok", content)
  <2>1. content \in Contents /\ Sha256(content) = Normalize(digest[f])
    BY <1>1, <1>4, VerifiedIsContent
  <2>2. content \in seen[f]
    BY <1>3, <2>1, TornAssumption
  <2>3. /\ \A g \in Fetches \ {f} : stage'[g] = stage[g] /\ answer'[g] = answer[g]
        /\ stage'[f] = "done" /\ answer'[f] = [status |-> "ok", bytes |-> content]
    BY <1>4 DEF IInv, TypeOK, Answer, Goto
  <2>4. TypeOK'
    BY <1>1, <1>4, <2>1 DEF IInv, TypeOK, Answer, Goto, store
  <2>5. InPlace' /\ SeenIsFinite' /\ AnsweredWhenDone'
    BY <1>1, <2>3 DEF IInv, InPlace, SeenIsFinite, AnsweredWhenDone
  <2>6. VerifiedWasThere' /\ MismatchIsReal'
    BY <1>1, <2>1, <2>2, <2>3 DEF IInv, VerifiedWasThere, MismatchIsReal
  <2> QED BY <2>4, <2>5, <2>6 DEF IInv
<1>5. CASE ~DigestVerified(content, digest[f]) /\ Answer(f, "mismatch", None)
  <2>1. \E other \in seen[f] : other = None \/ Sha256(other) # Normalize(digest[f])
    <3>1. CASE content \in seen[f] \ {None}
      BY <1>5, <3>1 DEF DigestVerified
    <3>2. CASE Cardinality(seen[f]) > 1
      <4>1. PICK a, b \in seen[f] : a # b
        BY <3>2, TwoWereThere DEF IInv, SeenIsFinite
      <4> QED BY <4>1, NoCollision
    <3> QED BY <1>3, <3>1, <3>2
  <2>2. /\ \A g \in Fetches \ {f} : stage'[g] = stage[g] /\ answer'[g] = answer[g]
        /\ stage'[f] = "done" /\ answer'[f] = [status |-> "mismatch", bytes |-> None]
    BY <1>5 DEF IInv, TypeOK, Answer, Goto
  <2>3. TypeOK'
    BY <1>1, <1>5 DEF IInv, TypeOK, Answer, Goto, store
  <2>4. InPlace' /\ SeenIsFinite' /\ AnsweredWhenDone'
    BY <1>1, <2>2 DEF IInv, InPlace, SeenIsFinite, AnsweredWhenDone
  <2>5. VerifiedWasThere' /\ MismatchIsReal'
    BY <1>1, <2>1, <2>2 DEF IInv, VerifiedWasThere, MismatchIsReal
  <2> QED BY <2>3, <2>4, <2>5 DEF IInv
<1> QED BY <1>2, <1>4, <1>5

LEMMA UnavailableKeeps ==
  ASSUME IInv, NEW f \in Fetches, Unavailable(f)
  PROVE  IInv'
<1>1. /\ stage[f] # "done" /\ digest[f] \in Digests
      /\ digest \in [Fetches -> Digests \cup {None}]
      /\ pointer \in [Fetches -> Pointers \cup {None}]
      /\ Answer(f, "unavailable", None)
      /\ UNCHANGED <<store, pointer, digest, seen>>
  BY DEF IInv, TypeOK, InPlace, Unavailable, Reading
<1> QED BY <1>1, NoBytes

(* The owner of the store only adds to what a fetch has seen.              *)
LEMMA ChangeStoreKeeps ==
  ASSUME IInv, ChangeStore
  PROVE  IInv'
<1>1. UNCHANGED <<stage, pointer, digest, answer>>
  BY DEF ChangeStore
<1>2. /\ objects' \in [Objects -> Contents \cup {None}]
      /\ tags' \in [Images -> Manifests \cup {None}]
      /\ blobs' \in [Layers -> Contents \cup {None}]
  BY DEF IInv, TypeOK, ChangeStore
<1>3. ASSUME NEW f \in Fetches, stage[f] \in Reading
      PROVE  Present(f)' \in Contents \cup {None}
  BY <1>1, <1>2, <1>3 DEF IInv, InPlace, Present, Reading
<1>4. seen' \in [Fetches -> SUBSET (Contents \cup {None})]
  BY <1>3 DEF IInv, TypeOK, ChangeStore, Witnessed
<1>5. ASSUME NEW f \in Fetches
      PROVE  seen[f] \subseteq seen'[f] /\ IsFiniteSet(seen'[f])
  <2>1. IsFiniteSet(seen[f])
    BY DEF IInv, SeenIsFinite
  <2>2. seen'[f] = seen[f] \/ seen'[f] = seen[f] \cup {Present(f)'}
    BY DEF ChangeStore, Witnessed
  <2>3. IsFiniteSet(seen[f] \cup {Present(f)'})
    BY <2>1, FS_AddElement
  <2> QED BY <2>1, <2>2, <2>3
<1>6. TypeOK'
  BY <1>1, <1>2, <1>4 DEF IInv, TypeOK
<1>7. InPlace' /\ SeenIsFinite' /\ AnsweredWhenDone'
  BY <1>1, <1>5 DEF IInv, InPlace, SeenIsFinite, AnsweredWhenDone
<1>8. VerifiedWasThere' /\ MismatchIsReal'
  BY <1>1, <1>5 DEF IInv, VerifiedWasThere, MismatchIsReal
<1> QED BY <1>6, <1>7, <1>8 DEF IInv

LEMMA Inductive == IInv /\ [Next]_vars => IInv'
<1> SUFFICES ASSUME IInv, [Next]_vars PROVE IInv'
  OBVIOUS
<1>1. CASE UNCHANGED vars
  BY <1>1 DEF vars, store, IInv, TypeOK, InPlace, SeenIsFinite, AnsweredWhenDone,
              VerifiedWasThere, MismatchIsReal
<1>2. CASE Next
  BY <1>2, StartKeeps, ReadManifestKeeps, ReadBytesKeeps, UnavailableKeeps,
     ChangeStoreKeeps DEF Next
<1> QED BY <1>1, <1>2

-----------------------------------------------------------------------------
(* Theorems                                                                *)

(* The inductive invariant of fetch_verified and the owner of the store.   *)
THEOREM Invariance == Spec => []IInv
  BY Initially, Inductive, PTL DEF Spec

(* Type correctness of the stores and of the fetches.                      *)
THEOREM TypeCorrect == Spec => []TypeOK
<1>1. IInv => TypeOK
  BY DEF IInv
<1> QED BY <1>1, Invariance, PTL

(* The bytes fetch_verified returns were at their place at one moment of   *)
(* the fetch and have the digest that was asked for, however objects, tags *)
(* and blobs change between and during its requests.                       *)
THEOREM FetchIsOneRead == Spec => []VerifiedWasThere
<1>1. IInv => VerifiedWasThere
  BY DEF IInv
<1> QED BY <1>1, Invariance, PTL

(* The digest mismatch of verify_sha256_digest is never reported for       *)
(* contents that had the digest throughout, torn file reads included.      *)
THEOREM MismatchHasACause == Spec => []MismatchIsReal
<1>1. IInv => MismatchIsReal
  BY DEF IInv
<1> QED BY <1>1, Invariance, PTL
================================================================================
