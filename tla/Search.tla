--------------------------------- MODULE Search ---------------------------------
(***************************************************************************)
(* Lists and search: the order of an index, lexical_rank of hub-search and *)
(* filtered_search_index of hub-api, over the tables of Registry.          *)
(*                                                                         *)
(* A text is a sequence of integers: a letter is a positive number, its    *)
(* upper-case form the negative one, a blank is 0.  Names are texts in     *)
(* lower case, versions are <<major, minor, patch>> below 100, and what a  *)
(* row shows is its description, a text or None.                           *)
(***************************************************************************)
EXTENDS Registry, Integers, SequencesExt

CONSTANTS
    Namespaces,
    Queries,   \* texts to search for; None is a request without any
    Limits     \* values of limit; None is no limit

INSTANCE Listing

ASSUME SkillsAssumption ==
    Namespaces \subseteq Nat /\ Skills \subseteq Namespaces \X Seq(Nat \ {0})
ASSUME VersionsAssumption == Versions \subseteq (0..99) \X (0..99) \X (0..99)
ASSUME PayloadsAssumption == \A payload \in Payloads : payload.shown \in Seq(Int) \cup {None}
ASSUME RequestsAssumption ==
    Queries \subseteq Seq(Int) \cup {None} /\ Limits \subseteq Nat \cup {None}

-----------------------------------------------------------------------------
(* Texts and their order                                                   *)

Lower(text) == [i \in DOMAIN text |-> IF text[i] < 0 THEN -text[i] ELSE text[i]]

Trim(text) == LET solid == {i \in DOMAIN text : text[i] # 0} IN
              IF solid = {} THEN <<>> ELSE SubSeq(text, Min(solid), Max(solid))

Within(word, text) ==
    \E i \in 0..(Len(text) - Len(word)) : SubSeq(text, i + 1, i + Len(word)) = word

(* Lexicographic order.                                                    *)
Before(a, b) ==
    \E i \in DOMAIN b : /\ i <= Len(a) + 1
                        /\ SubSeq(a, 1, i - 1) = SubSeq(b, 1, i - 1)
                        /\ i <= Len(a) => a[i] < b[i]

(* A version as it is written, digit by digit; a dot sorts before digits.  *)
Digits(n) == IF n < 10 THEN <<n>> ELSE <<n \div 10, n % 10>>
Written(v) == Digits(v[1]) \o <<-1>> \o Digits(v[2]) \o <<-1>> \o Digits(v[3])

-----------------------------------------------------------------------------
(* The index                                                               *)

(* left.name.cmp(&right.name), then compare_versions                       *)
Earlier(a, b) == \/ Before(a[1][2], b[1][2])
                 \/ a[1][2] = b[1][2] /\ Before(a[2], b[2])

(* What compatibility_index may return: Postgres and the stable sort leave *)
(* the order of entries with the same name and version open.               *)
Indexes(namespaces) ==
    LET Ordered(keys) == \A i, j \in DOMAIN keys : i < j => ~Earlier(keys[j], keys[i]) IN
    {[i \in DOMAIN keys |-> HitOf(keys[i][1], keys[i][2])] :
       keys \in {s \in SetToSeqs(ListedKeys(namespaces)) : Ordered(s)}}

Truncate(hits, limit) ==
    IF limit = None \/ limit >= Len(hits) THEN hits ELSE SubSeq(hits, 1, limit)

-----------------------------------------------------------------------------
(* lexical_rank                                                            *)

Described(query, hit) == hit.shown # None /\ Within(query, Lower(hit.shown))

(* Mutant of Score: contains is asked before starts_with.                  *)
ScoreShadowed(query, hit) ==
    IF Lower(hit.name) = query THEN 4
    ELSE IF Within(query, Lower(hit.name)) THEN 2
    ELSE IF IsPrefix(query, Lower(hit.name)) THEN 3
    ELSE IF Described(query, hit) THEN 1 ELSE 0

Score(query, hit) ==
    IF Lower(hit.name) = query THEN 4
    ELSE IF IsPrefix(query, Lower(hit.name)) THEN 3
    ELSE IF Within(query, Lower(hit.name)) THEN 2
    ELSE IF Described(query, hit) THEN 1 ELSE 0

(* Among equals: by name, then by the version as it is written (all        *)
(* documents of an index have the same registry).                          *)
Alphabetical(a, b) == \/ Before(a.name, b.name)
                      \/ a.name = b.name /\ Before(Written(a.version), Written(b.version))

(* Mutant of Outranks: left and right are swapped.                         *)
OutranksSwapped(query, a, b) ==
    \/ Score(query, a) < Score(query, b)
    \/ Score(query, a) = Score(query, b) /\ Alphabetical(a, b)

Outranks(query, a, b) ==
    \/ Score(query, a) > Score(query, b)
    \/ Score(query, a) = Score(query, b) /\ Alphabetical(a, b)

(* sort_by is stable.                                                      *)
Precedes(query, hits, i, j) ==
    \/ Outranks(query, hits[i], hits[j])
    \/ ~Outranks(query, hits[j], hits[i]) /\ i < j

(* A result has the place that the number of those before it gives it.     *)
LexicalRank(terms, hits) ==
    LET query == Lower(Trim(terms))
        ranked == IF query = <<>> THEN {} ELSE {i \in DOMAIN hits : Score(query, hits[i]) > 0}
        Place(i) == 1 + Cardinality({j \in ranked : Precedes(query, hits, j, i)})
    IN [n \in 1..Cardinality(ranked) |-> hits[CHOOSE i \in ranked : Place(i) = n]]

SameVersion(a, b) == a.name = b.name /\ a.version = b.version

(* Every result is looked up in the index again.                           *)
Found(ranked, index) ==
    [n \in DOMAIN ranked |->
       index[Min({i \in DOMAIN index : SameVersion(index[i], ranked[n])})]]

(* filtered_search_index                                                   *)
Answer(terms, limit, index) ==
    Truncate(IF terms = None THEN index ELSE Found(LexicalRank(terms, index), index), limit)

-----------------------------------------------------------------------------
(* Properties                                                              *)

(* A search of one namespace, or of all of them, in any order their tables *)
(* are read.                                                               *)
Scopes == {{ns} : ns \in Namespaces} \cup {Namespaces}

Unambiguous(index) ==
    \A i, j \in DOMAIN index : SameVersion(index[i], index[j]) => i = j

(* What a search is for, without scores.                                   *)
Matches(terms, hit) ==
    \/ terms = None
    \/ LET query == Lower(Trim(terms)) IN
       query # <<>> /\ (Within(query, Lower(hit.name)) \/ Described(query, hit))

(* The very name asked for, one that begins with it, one that has it       *)
(* within: whatever of this the other name is, this name is too.           *)
AsGood(terms, name, other) ==
    LET query == Lower(Trim(terms)) IN
    /\ other = query => name = query
    /\ IsPrefix(query, other) => IsPrefix(query, name)
    /\ Within(query, other) => Within(query, name)

(* Every place of an answer is due to a match of its own, as many as there *)
(* are or the limit admits, and each is as good as those that come after   *)
(* it or are left out.  Where two namespaces share a name and version, one *)
(* entry may be shown in place of the other, but no other entry; where     *)
(* they do not, what is shown is the match itself.                         *)
SearchFindsTheBest ==
    \A scope \in Scopes, terms \in Queries, limit \in Limits :
      \A index \in Indexes(scope) :
        LET matching == {i \in DOMAIN index : Matches(terms, index[i])}
            answer == Answer(terms, limit, index)
        IN /\ Len(answer) = IF limit = None THEN Cardinality(matching)
                            ELSE Min({limit, Cardinality(matching)})
           /\ \E match \in Injection(DOMAIN answer, matching) :
                 /\ \A n \in DOMAIN answer :
                       /\ SameVersion(answer[n], index[match[n]])
                       /\ Unambiguous(index) => answer[n] = index[match[n]]
                 /\ terms # None =>
                      \A n \in DOMAIN answer : \A i \in matching \ {match[m] : m \in 1..n} :
                         AsGood(terms, answer[n].name, index[i].name)

(* What the test lexical_search_prefers_exact_and_prefix_matches asks for, *)
(* in whatever namespaces: the skill that has the very name stands before  *)
(* all others, whether or not the name is typed in upper case.             *)
ExactNameFirst ==
    \A scope \in Scopes, terms \in Queries \ {None} :
      \A index \in Indexes(scope) :
        LET answer == Answer(terms, None, index)
            Exact(i) == answer[i].name = Lower(Trim(terms))
        IN \A i, j \in DOMAIN answer : i < j /\ Exact(j) => Exact(i)
===============================================================================
