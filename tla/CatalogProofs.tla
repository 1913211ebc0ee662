----------------------------- MODULE CatalogProofs -----------------------------
(***************************************************************************)
(* Theorems about Catalog, for any number of clients, namespaces, skills   *)
(* and contents.  What the clients hold is compared with the tables of     *)
(* now, so everything rests on what a step of the registry leaves alone.   *)
(***************************************************************************)
EXTENDS Catalog, WellFoundedInduction, TLAPS

RP == INSTANCE RegistryProofs

-----------------------------------------------------------------------------
(* The registry's part: what a step of any of its callers preserves.       *)

LEMMA TablesStep ==
  ASSUME Tables!TypeOK, Tables!TablesAgree, Tables!Next
  PROVE  /\ Tables!TypeOK' /\ Tables!TablesAgree'
         /\ Tables!Final \/ UNCHANGED tables
<1> USE TablesAssumption
    DEF RP!TypeOK, RP!Next, RP!vars, RP!Publish, RP!Mark, RP!Fresh, RP!SkillAfter,
        RP!Keys, RP!SkillRow, RP!VersionRow, RP!NewRow,
        Tables!TypeOK, Tables!Next, Tables!vars, Tables!Publish, Tables!Mark,
        Tables!Fresh, Tables!SkillAfter, Tables!Keys, Tables!SkillRow,
        Tables!VersionRow, Tables!NewRow
<1>1. Tables!TypeOK'
  BY RP!TypeStep
<1>2. Tables!TablesAgree'
  BY <1>1, RP!AgreementStep DEF RP!TablesAgree, Tables!TablesAgree
<1>3. Tables!Final \/ UNCHANGED tables
  BY RP!FinalStep DEF RP!Final, Tables!Final, tables
<1> QED BY <1>1, <1>2, <1>3

(* Rows stay, with their digest and what is shown of them, and so does the *)
(* visibility of a skill.                                                  *)
RowsStay ==
    /\ \A k \in Skills : skills[k] # None =>
          skills'[k] # None /\ skills'[k].visibility = skills[k].visibility
    /\ \A k \in Skills, v \in Versions : versions[<<k, v>>] # None =>
          /\ versions'[<<k, v>>] # None
          /\ versions'[<<k, v>>].digest = versions[<<k, v>>].digest
          /\ versions'[<<k, v>>].payload = versions[<<k, v>>].payload

LEMMA FinalRowsStay ==
  ASSUME Tables!TypeOK, Tables!TypeOK', Tables!Final \/ UNCHANGED tables
  PROVE  RowsStay
<1>1. CASE UNCHANGED tables
  BY <1>1 DEF tables, RowsStay
<1>2. CASE Tables!Final
  <2>1. ASSUME NEW k \in Skills, NEW v \in Versions, versions[<<k, v>>] # None
        PROVE  /\ versions'[<<k, v>>] # None
               /\ versions'[<<k, v>>].digest = versions[<<k, v>>].digest
               /\ versions'[<<k, v>>].payload = versions[<<k, v>>].payload
    <3> DEFINE old == versions[<<k, v>>]
               new == versions'[<<k, v>>]
    <3>1. <<k, v>> \in Tables!Keys
      BY DEF Tables!Keys
    <3>2. new # None /\ [new EXCEPT !.yank = None] = [old EXCEPT !.yank = None]
      BY <1>2, <2>1, <3>1 DEF Tables!Final
    <3>3. old \in Tables!VersionRow /\ new \in Tables!VersionRow
      BY <2>1, <3>1, <3>2 DEF Tables!TypeOK
    <3>4. new.digest = old.digest /\ new.payload = old.payload
      <4>1. /\ [new EXCEPT !.yank = None].digest = new.digest
            /\ [old EXCEPT !.yank = None].digest = old.digest
            /\ [new EXCEPT !.yank = None].payload = new.payload
            /\ [old EXCEPT !.yank = None].payload = old.payload
        BY <3>3 DEF Tables!VersionRow
      <4> HIDE DEF old, new
      <4> QED BY <3>2, <4>1
    <3> QED BY <3>2, <3>4
  <2>2. \A k \in Skills : skills[k] # None =>
           skills'[k] # None /\ skills'[k].visibility = skills[k].visibility
    BY <1>2 DEF Tables!Final
  <2> QED BY <2>1, <2>2 DEF RowsStay
<1> QED BY <1>1, <1>2

-----------------------------------------------------------------------------
(* What the queries return.                                                *)

Less == {pair \in Nat \X Nat : pair[1] < pair[2]}

(* A set of naturals has a least element.                                  *)
LEMMA Least ==
  ASSUME NEW C, C \subseteq Nat, C # {}
  PROVE  \E n \in C : \A other \in C : n <= other
<1>1. IsWellFoundedOn(Less, Nat)
  BY NatLessThanWellFounded DEF OpToRel, Less
<1>2. PICK n \in C : \A other \in C : <<other, n>> \notin Less
  BY <1>1, WFMin
<1>3. ASSUME NEW other \in C PROVE n <= other
  <2>1. <<other, n>> \in Nat \X Nat /\ other \in Nat /\ n \in Nat
    OBVIOUS
  <2>2. <<other, n>> \notin Less
    BY <1>2
  <2> QED BY <2>1, <2>2 DEF Less
<1> QED BY <1>3

(* ORDER BY namespace LIMIT 1 returns a row when there is one.             *)
LEMMA FirstIsCandidate ==
  ASSUME NEW name, NEW v, Candidates(name, v) # {}
  PROVE  FirstNamespace(name, v) \in Candidates(name, v)
<1>1. Candidates(name, v) \subseteq Nat
  BY NamespacesAssumption DEF Candidates
<1> QED BY <1>1, Least DEF FirstNamespace

(* A version of a public skill that index and lookup list.                 *)
LEMMA ListedIsThere ==
  ASSUME NEW k, NEW v, Listed(k, v)
  PROVE  /\ skills[k] # None /\ skills[k].visibility = "public"
         /\ versions[<<k, v>>] # None
  BY DEF Listed

-----------------------------------------------------------------------------
(* The inductive invariant.                                                *)

Chosen(c) == IF at[c] = "idle" THEN wanted[c] = None ELSE wanted[c] \in Hits

(* EntriesStayTrue, of one client that has chosen.                         *)
EntryTrue(c) ==
    at[c] # "idle" =>
      \E ns \in Namespaces :
        LET k == <<ns, wanted[c].name>> IN
        /\ skills[k] # None
        /\ versions[<<k, wanted[c].version>>] # None
        /\ wanted[c].digest # None => /\ skills[k].visibility = "public"
                                      /\ HitOf(k, wanted[c].version) = wanted[c]

(* The record the lookup returned is still in the tables, and public.      *)
FoundTrue(c) ==
    at[c] \in {"fetching", "served"} =>
      /\ found[c] \in Tables!VersionRow
      /\ \E ns \in Namespaces :
           LET k == <<ns, wanted[c].name>>
               row == versions[<<k, wanted[c].version>>]
           IN /\ row # None
              /\ row.digest = found[c].digest
              /\ skills[k].visibility = "public" /\ skills[k] # None

(* What was served had its digest.                                         *)
BytesTrue(c) ==
    /\ bytes[c] # None => at[c] = "served"
    /\ at[c] = "served" => Sha256(bytes[c]) = Normalize(found[c].digest)

(* The signature is that of a row of the tables.                           *)
SignatureTrue(c) ==
    signature[c] # None =>
      /\ at[c] # "idle"
      /\ \E ns \in Namespaces :
           LET row == versions[<<<<ns, wanted[c].name>>, wanted[c].version>>] IN
           row # None /\ signature[c] = SignatureOf(row)

ClientInv(c) == Chosen(c) /\ EntryTrue(c) /\ FoundTrue(c) /\ BytesTrue(c) /\ SignatureTrue(c)

IInv == TypeOK /\ Tables!TablesAgree /\ \A c \in Clients : ClientInv(c)

LEMMA Initially == Init => IInv
<1> SUFFICES ASSUME Init PROVE IInv
  OBVIOUS
<1>1. Tables!TypeOK /\ Tables!TablesAgree
  BY DEF Init, Tables!Init, Tables!TypeOK, Tables!TablesAgree, Tables!Keys
<1>2. TypeOK
  BY <1>1 DEF Init, TypeOK
<1>3. ASSUME NEW c \in Clients PROVE ClientInv(c)
  BY DEF Init, ClientInv, Chosen, EntryTrue, FoundTrue, BytesTrue, SignatureTrue
<1> QED BY <1>1, <1>2, <1>3 DEF IInv

-----------------------------------------------------------------------------
(* A client that does not move stays as it is, whoever else does.          *)

SameClient(c) == /\ at'[c] = at[c] /\ wanted'[c] = wanted[c] /\ found'[c] = found[c]
                 /\ bytes'[c] = bytes[c] /\ signature'[c] = signature[c]

LEMMA HitParts ==
  ASSUME NEW hit \in Hits
  PROVE  hit.name \in Names /\ hit.version \in Versions
  BY DEF Hits

LEMMA SameClientInv ==
  ASSUME NEW c \in Clients, ClientInv(c), SameClient(c), RowsStay
  PROVE  ClientInv(c)'
<1> DEFINE name == wanted[c].name
           v == wanted[c].version
<1>1. Chosen(c)'
  BY DEF ClientInv, Chosen, SameClient, Hits, Digests
<1>2. ASSUME at[c] # "idle", NEW ns \in Namespaces
      PROVE  <<ns, name>> \in Skills /\ v \in Versions
  BY <1>2, HitParts DEF ClientInv, Chosen, Skills
<1>3. EntryTrue(c)'
  <2> SUFFICES ASSUME at[c] # "idle" PROVE EntryTrue(c)'
    BY DEF EntryTrue, SameClient
  <2>1. PICK ns \in Namespaces :
          /\ skills[<<ns, name>>] # None
          /\ versions[<<<<ns, name>>, v>>] # None
          /\ wanted[c].digest # None => /\ skills[<<ns, name>>].visibility = "public"
                                        /\ HitOf(<<ns, name>>, v) = wanted[c]
    BY DEF ClientInv, EntryTrue
  <2>2. /\ skills'[<<ns, name>>] # None
        /\ skills'[<<ns, name>>].visibility = skills[<<ns, name>>].visibility
        /\ versions'[<<<<ns, name>>, v>>] # None
        /\ HitOf(<<ns, name>>, v)' = HitOf(<<ns, name>>, v)
    BY <1>2, <2>1 DEF RowsStay, HitOf, SameClient
  <2> QED BY <2>1, <2>2 DEF EntryTrue, SameClient
<1>4. FoundTrue(c)'
  <2> SUFFICES ASSUME at[c] \in {"fetching", "served"} PROVE FoundTrue(c)'
    BY DEF FoundTrue, SameClient
  <2>1. PICK ns \in Namespaces :
          /\ versions[<<<<ns, name>>, v>>] # None
          /\ versions[<<<<ns, name>>, v>>].digest = found[c].digest
          /\ skills[<<ns, name>>].visibility = "public" /\ skills[<<ns, name>>] # None
    BY DEF ClientInv, FoundTrue
  <2>2. found'[c] \in Tables!VersionRow'
    BY DEF ClientInv, FoundTrue, SameClient, Tables!VersionRow, Payloads, Digests
  <2> QED BY <1>2, <2>1, <2>2 DEF RowsStay, FoundTrue, SameClient
<1>5. BytesTrue(c)'
  BY DEF ClientInv, BytesTrue, SameClient
<1>6. SignatureTrue(c)'
  <2> SUFFICES ASSUME signature[c] # None PROVE SignatureTrue(c)'
    BY DEF SignatureTrue, SameClient
  <2>1. PICK ns \in Namespaces :
          /\ versions[<<<<ns, name>>, v>>] # None
          /\ signature[c] = SignatureOf(versions[<<<<ns, name>>, v>>])
    BY DEF ClientInv, SignatureTrue
  <2>2. at[c] # "idle"
    BY DEF ClientInv, SignatureTrue
  <2>3. /\ versions'[<<<<ns, name>>, v>>] # None
        /\ SignatureOf(versions'[<<<<ns, name>>, v>>])
             = SignatureOf(versions[<<<<ns, name>>, v>>])
    BY <1>2, <2>1, <2>2 DEF RowsStay, SignatureOf
  <2> QED BY <2>1, <2>2, <2>3 DEF SignatureTrue, SameClient
<1> QED BY <1>1, <1>3, <1>4, <1>5, <1>6 DEF ClientInv

-----------------------------------------------------------------------------
(* The steps of a client.                                                  *)

(* Only client c moves.                                                    *)
OnlyMoves(c) == UNCHANGED tables /\ \A other \in Clients \ {c} : SameClient(other)

(* What the client takes from an index or from the similar search.         *)
LEMMA HitsAreTrue ==
  ASSUME TypeOK, Tables!TablesAgree,
         NEW hit \in Index(Namespaces) \cup SimilarHits
  PROVE  /\ hit \in Hits
         /\ \E ns \in Namespaces :
              LET k == <<ns, hit.name>> IN
              /\ skills[k] # None
              /\ versions[<<k, hit.version>>] # None
              /\ hit.digest # None => /\ skills[k].visibility = "public"
                                      /\ HitOf(k, hit.version) = hit
<1>1. ASSUME NEW k \in Skills, NEW v \in Versions, versions[<<k, v>>] # None
      PROVE  /\ versions[<<k, v>>] \in Tables!VersionRow
             /\ skills[k] # None
             /\ k = <<k[1], k[2]>> /\ k[1] \in Namespaces /\ k[2] \in Names
  <2>1. <<k, v>> \in Tables!Keys
    BY DEF Tables!Keys
  <2>2. versions[<<k, v>>] \in Tables!VersionRow
    BY <1>1, <2>1 DEF TypeOK, Tables!TypeOK
  <2>3. skills[k] # None
    BY <1>1 DEF Tables!TablesAgree
  <2> QED BY <2>2, <2>3 DEF Skills
<1>2. CASE \E key \in Skills \X Versions : Listed(key[1], key[2]) /\ hit = HitOf(key[1], key[2])
  <2>1. PICK k \in Skills, v \in Versions : Listed(k, v) /\ hit = HitOf(k, v)
    BY <1>2
  <2>2. /\ versions[<<k, v>>] # None
        /\ skills[k] # None /\ skills[k].visibility = "public"
    BY <2>1, ListedIsThere
  <2>3. hit.name = k[2] /\ hit.version = v
    BY <2>1 DEF HitOf
  <2>4. hit \in Hits
    BY <1>1, <2>1, <2>2 DEF HitOf, Hits, Tables!VersionRow, Payloads
  <2> QED BY <1>1, <2>1, <2>2, <2>3, <2>4
<1>3. CASE hit \in SimilarHits
  <2>1. PICK k \in Skills, v \in Versions :
          /\ versions[<<k, v>>] # None
          /\ hit = [name |-> k[2], version |-> v, digest |-> None, shown |-> None]
    BY <1>3 DEF SimilarHits
  <2> QED BY <1>1, <2>1 DEF Hits
<1>4. hit \in SimilarHits \/ \E key \in Skills \X Versions :
                                Listed(key[1], key[2]) /\ hit = HitOf(key[1], key[2])
  BY DEF Index, ListedKeys
<1> QED BY <1>2, <1>3, <1>4

(* What the lookup by name finds is a public version of that name.         *)
LEMMA LookupFinds ==
  ASSUME TypeOK, NEW name \in Names, NEW v \in Versions, Candidates(name, v) # {}
  PROVE  \E ns \in Namespaces :
           LET k == <<ns, name>> IN
           /\ FirstRow(name, v) = versions[<<k, v>>]
           /\ versions[<<k, v>>] \in Tables!VersionRow
           /\ versions[<<k, v>>] # None
           /\ skills[k] # None /\ skills[k].visibility = "public"
<1> DEFINE ns == FirstNamespace(name, v)
<1>1. ns \in Candidates(name, v)
  BY FirstIsCandidate
<1>2. ns \in Namespaces /\ <<ns, name>> \in Skills /\ Listed(<<ns, name>>, v)
  BY <1>1 DEF Candidates
<1>3. versions[<<<<ns, name>>, v>>] \in Tables!VersionRow
  BY <1>2, ListedIsThere DEF TypeOK, Tables!TypeOK, Tables!Keys
<1> QED BY <1>2, <1>3, ListedIsThere DEF FirstRow

LEMMA ChooseKeeps ==
  ASSUME IInv, NEW c \in Clients, Choose(c)
  PROVE  TypeOK' /\ ClientInv(c)' /\ OnlyMoves(c)
<1>1. PICK hit \in Index(Namespaces) \cup SimilarHits :
        wanted' = [wanted EXCEPT ![c] = hit]
  BY DEF Choose
<1>2. /\ hit \in Hits
      /\ \E ns \in Namespaces :
           LET k == <<ns, hit.name>> IN
           /\ skills[k] # None
           /\ versions[<<k, hit.version>>] # None
           /\ hit.digest # None => /\ skills[k].visibility = "public"
                                   /\ HitOf(k, hit.version) = hit
  BY HitsAreTrue DEF IInv
<1>3. /\ at[c] = "idle" /\ at' = [at EXCEPT ![c] = "chosen"]
      /\ UNCHANGED <<tables, store, found, bytes, signature>>
  BY DEF Choose, Goto
<1>4. TypeOK'
  BY <1>1, <1>2, <1>3 DEF IInv, TypeOK, tables, Tables!TypeOK
<1>5. at'[c] = "chosen" /\ wanted'[c] = hit /\ bytes'[c] = None /\ signature'[c] = None
  BY <1>1, <1>3 DEF IInv, TypeOK, ClientInv, BytesTrue, SignatureTrue
<1>6. Chosen(c)'
  BY <1>2, <1>5 DEF Chosen, Hits, Digests
<1>7. EntryTrue(c)'
  BY <1>2, <1>3, <1>5 DEF EntryTrue, HitOf, tables
<1>8. FoundTrue(c)' /\ BytesTrue(c)' /\ SignatureTrue(c)'
  BY <1>5 DEF FoundTrue, BytesTrue, SignatureTrue
<1>9. OnlyMoves(c)
  BY <1>1, <1>3 DEF OnlyMoves, SameClient, IInv, TypeOK
<1> QED BY <1>4, <1>6, <1>7, <1>8, <1>9 DEF ClientInv

(* A client whose entry and signature stay keeps what is true of them.     *)
LEMMA EntryKept ==
  ASSUME NEW c \in Clients, ClientInv(c), at[c] # "idle", at'[c] # "idle",
         wanted'[c] = wanted[c], UNCHANGED tables
  PROVE  /\ Chosen(c)' /\ EntryTrue(c)'
         /\ signature'[c] = signature[c] => SignatureTrue(c)'
<1>1. Chosen(c)'
  BY DEF ClientInv, Chosen, Hits, Digests
<1>2. EntryTrue(c)'
  BY DEF ClientInv, EntryTrue, HitOf, tables
<1>3. signature'[c] = signature[c] => SignatureTrue(c)'
  BY DEF ClientInv, SignatureTrue, SignatureOf, tables
<1> QED BY <1>1, <1>2, <1>3

LEMMA LookupKeeps ==
  ASSUME IInv, NEW c \in Clients, Lookup(c)
  PROVE  TypeOK' /\ ClientInv(c)' /\ OnlyMoves(c)
<1> DEFINE name == wanted[c].name
           v == wanted[c].version
<1>1. /\ at[c] = "chosen" /\ ClientInv(c) /\ bytes[c] = None
      /\ UNCHANGED <<tables, store, wanted, bytes, signature>>
      /\ name \in Names /\ v \in Versions
  BY HitParts DEF Lookup, IInv, ClientInv, BytesTrue, Chosen
<1>2. CASE /\ Candidates(name, v) # {}
           /\ found' = [found EXCEPT ![c] = FirstRow(name, v)]
           /\ at' = [at EXCEPT ![c] = "fetching"]
  <2>1. PICK ns \in Namespaces :
          /\ FirstRow(name, v) = versions[<<<<ns, name>>, v>>]
          /\ versions[<<<<ns, name>>, v>>] \in Tables!VersionRow
          /\ versions[<<<<ns, name>>, v>>] # None
          /\ skills[<<ns, name>>] # None /\ skills[<<ns, name>>].visibility = "public"
    BY <1>1, <1>2, LookupFinds DEF IInv
  <2>2. TypeOK'
    BY <1>1, <1>2, <2>1 DEF IInv, TypeOK, tables, Tables!TypeOK
  <2>3. /\ at'[c] = "fetching" /\ found'[c] = versions[<<<<ns, name>>, v>>]
        /\ wanted'[c] = wanted[c] /\ bytes'[c] = None /\ signature'[c] = signature[c]
    BY <1>1, <1>2, <2>1 DEF IInv, TypeOK
  <2>4. Chosen(c)' /\ EntryTrue(c)' /\ SignatureTrue(c)'
    BY <1>1, <2>3, EntryKept
  <2>5. FoundTrue(c)'
    BY <1>1, <2>1, <2>3 DEF FoundTrue, tables
  <2>6. BytesTrue(c)'
    BY <2>3 DEF BytesTrue
  <2>7. OnlyMoves(c)
    BY <1>1, <1>2 DEF OnlyMoves, SameClient, IInv, TypeOK
  <2> QED BY <2>2, <2>4, <2>5, <2>6, <2>7 DEF ClientInv
<1>3. CASE found' = found /\ at' = [at EXCEPT ![c] = "notfound"]
  <2>1. TypeOK'
    BY <1>1, <1>3 DEF IInv, TypeOK, tables, Tables!TypeOK
  <2>2. /\ at'[c] = "notfound"
        /\ wanted'[c] = wanted[c] /\ bytes'[c] = None /\ signature'[c] = signature[c]
    BY <1>1, <1>3 DEF IInv, TypeOK
  <2>3. Chosen(c)' /\ EntryTrue(c)' /\ SignatureTrue(c)'
    BY <1>1, <2>2, EntryKept
  <2>4. FoundTrue(c)' /\ BytesTrue(c)'
    BY <2>2 DEF FoundTrue, BytesTrue
  <2>5. OnlyMoves(c)
    BY <1>1, <1>3 DEF OnlyMoves, SameClient, IInv, TypeOK
  <2> QED BY <2>1, <2>3, <2>4, <2>5 DEF ClientInv
<1> QED BY <1>2, <1>3 DEF Lookup, Goto

(* Fetch, LookupSignature and Unavailable leave found alone.               *)
LEMMA FoundKept ==
  ASSUME NEW c \in Clients, ClientInv(c), at[c] \in {"fetching", "served"},
         wanted'[c] = wanted[c], found'[c] = found[c], UNCHANGED tables
  PROVE  FoundTrue(c)'
  BY DEF ClientInv, FoundTrue, tables, Tables!VersionRow, Payloads, Digests

LEMMA FetchKeeps ==
  ASSUME IInv, NEW c \in Clients, Fetch(c)
  PROVE  TypeOK' /\ ClientInv(c)' /\ OnlyMoves(c)
<1> DEFINE content == store[found[c].payload.url]
<1>1. /\ at[c] = "fetching" /\ ClientInv(c) /\ bytes[c] = None
      /\ UNCHANGED <<tables, store, wanted, found, signature>>
  BY DEF Fetch, IInv, ClientInv, BytesTrue
<1>2. content \in Contents \cup {None}
  BY <1>1 DEF IInv, TypeOK, ClientInv, FoundTrue, Tables!VersionRow, Payloads
<1>3. CASE /\ DigestVerified(content, found[c].digest)
           /\ bytes' = [bytes EXCEPT ![c] = content]
           /\ at' = [at EXCEPT ![c] = "served"]
  <2> HIDE DEF content
  <2>1. TypeOK'
    BY <1>1, <1>2, <1>3 DEF IInv, TypeOK, tables, Tables!TypeOK
  <2>2. /\ at'[c] = "served" /\ bytes'[c] = content /\ found'[c] = found[c]
        /\ wanted'[c] = wanted[c] /\ signature'[c] = signature[c]
    BY <1>1, <1>2, <1>3 DEF IInv, TypeOK
  <2>3. Chosen(c)' /\ EntryTrue(c)' /\ SignatureTrue(c)'
    BY <1>1, <2>2, EntryKept
  <2>4. FoundTrue(c)'
    BY <1>1, <2>2, FoundKept
  <2>5. Sha256(content) = Normalize(found[c].digest)
    BY <1>3 DEF DigestVerified
  <2>6. BytesTrue(c)'
    BY <2>2, <2>5 DEF BytesTrue, Sha256, Normalize
  <2>7. OnlyMoves(c)
    BY <1>1, <1>3 DEF OnlyMoves, SameClient, IInv, TypeOK
  <2> QED BY <2>1, <2>3, <2>4, <2>6, <2>7 DEF ClientInv
<1>4. CASE bytes' = bytes /\ at' = [at EXCEPT ![c] = "failed"]
  <2>1. TypeOK'
    BY <1>1, <1>4 DEF IInv, TypeOK, tables, Tables!TypeOK
  <2>2. /\ at'[c] = "failed" /\ bytes'[c] = None
        /\ wanted'[c] = wanted[c] /\ signature'[c] = signature[c]
    BY <1>1, <1>4 DEF IInv, TypeOK
  <2>3. Chosen(c)' /\ EntryTrue(c)' /\ SignatureTrue(c)'
    BY <1>1, <2>2, EntryKept
  <2>4. FoundTrue(c)' /\ BytesTrue(c)'
    BY <2>2 DEF FoundTrue, BytesTrue
  <2>5. OnlyMoves(c)
    BY <1>1, <1>4 DEF OnlyMoves, SameClient, IInv, TypeOK
  <2> QED BY <2>1, <2>3, <2>4, <2>5 DEF ClientInv
<1> QED BY <1>3, <1>4 DEF Fetch, Goto

LEMMA LookupSignatureKeeps ==
  ASSUME IInv, NEW c \in Clients, LookupSignature(c)
  PROVE  TypeOK' /\ ClientInv(c)' /\ OnlyMoves(c)
<1> DEFINE name == wanted[c].name
           v == wanted[c].version
<1>1. /\ at[c] \in {"chosen", "served"} /\ ClientInv(c) /\ signature[c] = None
      /\ Candidates(name, v) # {}
      /\ signature' = [signature EXCEPT ![c] = SignatureOf(FirstRow(name, v))]
      /\ UNCHANGED <<tables, store, at, wanted, found, bytes>>
      /\ name \in Names /\ v \in Versions
  BY HitParts DEF LookupSignature, IInv, ClientInv, Chosen
<1>2. PICK ns \in Namespaces :
        /\ FirstRow(name, v) = versions[<<<<ns, name>>, v>>]
        /\ versions[<<<<ns, name>>, v>>] \in Tables!VersionRow
        /\ versions[<<<<ns, name>>, v>>] # None
  BY <1>1, LookupFinds DEF IInv
<1>3. SignatureOf(FirstRow(name, v)) \in Signatures \cup {None}
  BY <1>2 DEF SignatureOf, Signatures, Tables!VersionRow, Payloads
<1>4. TypeOK'
  BY <1>1, <1>3 DEF IInv, TypeOK, tables, Tables!TypeOK
<1>5. /\ at'[c] = at[c] /\ bytes'[c] = bytes[c] /\ found'[c] = found[c]
      /\ wanted'[c] = wanted[c]
      /\ signature'[c] = SignatureOf(versions[<<<<ns, name>>, v>>])
  BY <1>1, <1>2 DEF IInv, TypeOK
<1>6. Chosen(c)' /\ EntryTrue(c)'
  BY <1>1, <1>5, EntryKept
<1>7. FoundTrue(c)'
  BY <1>1, <1>5, FoundKept DEF FoundTrue
<1>8. BytesTrue(c)'
  BY <1>1, <1>5 DEF ClientInv, BytesTrue
<1>9. SignatureTrue(c)'
  BY <1>1, <1>2, <1>5 DEF SignatureTrue, SignatureOf, tables
<1>10. OnlyMoves(c)
  BY <1>1 DEF OnlyMoves, SameClient, IInv, TypeOK
<1> QED BY <1>4, <1>6, <1>7, <1>8, <1>9, <1>10 DEF ClientInv

LEMMA UnavailableKeeps ==
  ASSUME IInv, NEW c \in Clients, Unavailable(c)
  PROVE  TypeOK' /\ ClientInv(c)' /\ OnlyMoves(c)
<1>1. /\ at[c] \in {"chosen", "fetching"} /\ ClientInv(c) /\ bytes[c] = None
      /\ at' = [at EXCEPT ![c] = "failed"]
      /\ UNCHANGED <<tables, store, wanted, found, bytes, signature>>
  BY DEF Unavailable, Goto, IInv, ClientInv, BytesTrue
<1>2. TypeOK'
  BY <1>1 DEF IInv, TypeOK, tables, Tables!TypeOK
<1>3. /\ at'[c] = "failed" /\ bytes'[c] = None
      /\ wanted'[c] = wanted[c] /\ signature'[c] = signature[c]
  BY <1>1 DEF IInv, TypeOK
<1>4. Chosen(c)' /\ EntryTrue(c)' /\ SignatureTrue(c)'
  BY <1>1, <1>3, EntryKept
<1>5. FoundTrue(c)' /\ BytesTrue(c)'
  BY <1>3 DEF FoundTrue, BytesTrue
<1>6. OnlyMoves(c)
  BY <1>1 DEF OnlyMoves, SameClient, IInv, TypeOK
<1> QED BY <1>2, <1>4, <1>5, <1>6 DEF ClientInv

-----------------------------------------------------------------------------

(* A step of one client preserves the invariant: the others hold what they *)
(* held.                                                                   *)
LEMMA ClientStepKeeps ==
  ASSUME IInv, NEW c \in Clients, TypeOK', ClientInv(c)', OnlyMoves(c)
  PROVE  IInv'
<1>1. RowsStay
  BY DEF OnlyMoves, tables, RowsStay
<1>2. ASSUME NEW other \in Clients PROVE ClientInv(other)'
  BY <1>1, SameClientInv DEF IInv, OnlyMoves
<1>3. Tables!TablesAgree'
  BY DEF IInv, OnlyMoves, tables, Tables!TablesAgree
<1> QED BY <1>2, <1>3 DEF IInv

LEMMA Inductive == IInv /\ [Next]_vars => IInv'
<1> SUFFICES ASSUME IInv, [Next]_vars PROVE IInv'
  OBVIOUS
<1>1. ASSUME NEW c \in Clients,
             Choose(c) \/ Lookup(c) \/ Fetch(c) \/ LookupSignature(c) \/ Unavailable(c)
      PROVE  IInv'
  <2>1. TypeOK' /\ ClientInv(c)' /\ OnlyMoves(c)
    BY <1>1, ChooseKeeps, LookupKeeps, FetchKeeps, LookupSignatureKeeps, UnavailableKeeps
  <2> QED BY <2>1, ClientStepKeeps
<1>2. CASE Publishers
  <2>1. /\ Tables!TypeOK' /\ Tables!TablesAgree'
        /\ Tables!Final \/ UNCHANGED tables
        /\ UNCHANGED <<store, client>>
    BY <1>2, TablesStep DEF Publishers, IInv, TypeOK
  <2>2. RowsStay
    BY <2>1, FinalRowsStay DEF IInv, TypeOK
  <2>3. TypeOK'
    BY <2>1 DEF IInv, TypeOK, client, Tables!VersionRow
  <2>4. ASSUME NEW c \in Clients PROVE ClientInv(c)'
    BY <2>1, <2>2, SameClientInv DEF IInv, SameClient, client
  <2> QED BY <2>1, <2>3, <2>4 DEF IInv
<1>3. CASE UNCHANGED <<tables, client>> /\ store' \in [Urls -> Contents \cup {None}]
  <2>1. TypeOK' /\ Tables!TablesAgree'
    BY <1>3 DEF IInv, TypeOK, tables, client, Tables!TypeOK, Tables!TablesAgree
  <2>2. RowsStay
    BY <1>3 DEF tables, RowsStay
  <2>3. ASSUME NEW c \in Clients PROVE ClientInv(c)'
    BY <1>3, <2>2, SameClientInv DEF IInv, SameClient, client
  <2> QED BY <2>1, <2>3 DEF IInv
<1>4. CASE ChangeStore
  BY <1>3, <1>4 DEF ChangeStore, IInv, TypeOK
<1>5. CASE UNCHANGED vars
  BY <1>3, <1>5 DEF vars, IInv, TypeOK
<1> QED BY <1>1, <1>2, <1>4, <1>5 DEF Next

-----------------------------------------------------------------------------
(* Theorems                                                                *)

(* What clients hold and what the tables say go together at every step.    *)
THEOREM Invariance == Spec => []IInv
  BY Initially, Inductive, PTL DEF Spec

(* Type correctness of the tables, the artifact store and the clients.     *)
THEOREM TypeCorrect == Spec => []TypeOK
<1>1. IInv => TypeOK
  BY DEF IInv
<1> QED BY <1>1, Invariance, PTL

(* The bytes db_artifact_response serves are those of a stored version of  *)
(* the name and version asked for, in a public skill, whatever happened to *)
(* tables and artifact store since the lookup.                             *)
THEOREM ServedIsPublished == Spec => []ServedBytesWerePublished
<1>1. IInv => ServedBytesWerePublished
  <2> SUFFICES ASSUME IInv, NEW c \in Clients, at[c] = "served"
               PROVE  \E ns \in Namespaces :
                        LET k == <<ns, wanted[c].name>>
                            row == versions[<<k, wanted[c].version>>]
                        IN /\ row # None
                           /\ Normalize(row.digest) = Sha256(bytes[c])
                           /\ skills[k].visibility = "public"
    BY DEF ServedBytesWerePublished
  <2>1. FoundTrue(c) /\ BytesTrue(c)
    BY DEF IInv, ClientInv
  <2> QED BY <2>1 DEF FoundTrue, BytesTrue
<1> QED BY <1>1, Invariance, PTL

(* What index and search said of a version once stays true of it: rows     *)
(* neither vanish nor change what an entry shows.                          *)
THEOREM EntriesLast == Spec => []EntriesStayTrue
<1>1. IInv => EntriesStayTrue
  BY DEF IInv, ClientInv, Chosen, EntryTrue, EntriesStayTrue
<1> QED BY <1>1, Invariance, PTL

(* Artifact, signature and index entry, got by three queries at three      *)
(* times, belong together where the name and version are one namespace's:  *)
(* all three come from its one row, and that row does not change.          *)
THEOREM EntryIsServed == Spec => []UnambiguousEntryIsServed
<1>1. IInv => UnambiguousEntryIsServed
  <2> SUFFICES ASSUME IInv, NEW c \in Clients, wanted[c] # None,
                      Alone(wanted[c].name, wanted[c].version)
               PROVE  /\ (bytes[c] # None /\ wanted[c].digest # None) =>
                            Sha256(bytes[c]) = Normalize(wanted[c].digest)
                      /\ (bytes[c] # None /\ signature[c] # None) =>
                            Sha256(bytes[c]) = Normalize(signature[c].digest)
                      /\ (signature[c] # None /\ wanted[c].digest # None) =>
                            signature[c] = [by |-> wanted[c].shown,
                                            digest |-> wanted[c].digest]
    BY DEF UnambiguousEntryIsServed
  <2> DEFINE row(ns) == versions[<<<<ns, wanted[c].name>>, wanted[c].version>>]
  <2>1. PICK ns \in Namespaces : \A other \in Namespaces \ {ns} : row(other) = None
    BY DEF Alone
  <2>2. wanted[c].digest # None =>
          wanted[c].digest = row(ns).digest /\ wanted[c].shown = row(ns).payload.shown
    <3> SUFFICES ASSUME wanted[c].digest # None
                 PROVE  /\ wanted[c].digest = row(ns).digest
                        /\ wanted[c].shown = row(ns).payload.shown
      OBVIOUS
    <3>1. at[c] # "idle"
      BY DEF IInv, ClientInv, Chosen
    <3>2. PICK other \in Namespaces :
            /\ row(other) # None
            /\ HitOf(<<other, wanted[c].name>>, wanted[c].version) = wanted[c]
      BY <3>1 DEF IInv, ClientInv, EntryTrue
    <3>3. HitOf(<<ns, wanted[c].name>>, wanted[c].version) = wanted[c]
      BY <2>1, <3>2
    <3>4. /\ HitOf(<<ns, wanted[c].name>>, wanted[c].version).digest = row(ns).digest
          /\ HitOf(<<ns, wanted[c].name>>, wanted[c].version).shown = row(ns).payload.shown
      BY DEF HitOf
    <3> QED BY <3>3, <3>4
  <2>3. bytes[c] # None => Sha256(bytes[c]) = Normalize(row(ns).digest)
    BY <2>1 DEF IInv, ClientInv, FoundTrue, BytesTrue
  <2>4. signature[c] # None => signature[c] = SignatureOf(row(ns))
    BY <2>1 DEF IInv, ClientInv, SignatureTrue
  <2>5. signature[c] # None =>
          signature[c] = [by |-> row(ns).payload.shown, digest |-> row(ns).digest]
    BY <2>4 DEF SignatureOf
  <2> HIDE DEF row
  <2> QED BY <2>2, <2>3, <2>5
<1> QED BY <1>1, Invariance, PTL
================================================================================
