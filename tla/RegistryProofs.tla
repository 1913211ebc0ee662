---------------------------- MODULE RegistryProofs ----------------------------
(* Theorems about Registry, for every value of its constants.              *)
EXTENDS Registry, TLAPS

(* What a single step preserves.                                           *)
LEMMA TypeStep == TypeOK /\ [Next]_vars => TypeOK'
<1> SUFFICES ASSUME TypeOK, [Next]_vars PROVE TypeOK'
  OBVIOUS
<1>1. ASSUME NEW k \in Skills, NEW v \in Versions, NEW visibility \in Visibilities,
             NEW row \in NewRow, Publish(k, v, visibility, row)
      PROVE  TypeOK'
  <2>1. row \in VersionRow
    BY DEF NewRow, VersionRow
  <2>2. SkillAfter(skills[k], visibility, v) \in SkillRow
    BY DEF TypeOK, SkillAfter, SkillRow
  <2> QED BY <1>1, <2>1, <2>2 DEF TypeOK, Publish, Keys
<1>2. ASSUME NEW k \in Skills, NEW v \in Versions, NEW mark \in Reasons \cup {None},
             Mark(k, v, mark)
      PROVE  TypeOK'
  <2>1. [versions[<<k, v>>] EXCEPT !.yank = mark] \in VersionRow
    BY <1>2 DEF TypeOK, Mark, Keys, VersionRow
  <2> QED BY <1>2, <2>1 DEF TypeOK, Mark, Keys
<1>3. CASE UNCHANGED vars
  BY <1>3 DEF TypeOK, vars
<1> QED BY <1>1, <1>2, <1>3 DEF Next

LEMMA FinalStep == TypeOK /\ [Next]_vars => [Final]_vars
<1> SUFFICES ASSUME TypeOK, Next PROVE Final
  OBVIOUS
<1>1. ASSUME NEW k \in Skills, NEW v \in Versions, NEW visibility \in Visibilities,
             NEW row \in NewRow, Publish(k, v, visibility, row)
      PROVE  Final
  <2>1. skills[k] # None => SkillAfter(skills[k], visibility, v) # None
                            /\ SkillAfter(skills[k], visibility, v).visibility
                                 = skills[k].visibility
    BY NoneIsNoRow DEF TypeOK, SkillAfter, SkillRow
  <2> QED BY <1>1, <2>1 DEF TypeOK, Publish, Final, Keys
<1>2. ASSUME NEW k \in Skills, NEW v \in Versions, NEW mark \in Reasons \cup {None},
             Mark(k, v, mark)
      PROVE  Final
  <2>1. /\ [versions[<<k, v>>] EXCEPT !.yank = mark] # None
        /\ [[versions[<<k, v>>] EXCEPT !.yank = mark] EXCEPT !.yank = None]
             = [versions[<<k, v>>] EXCEPT !.yank = None]
    BY <1>2, NoneIsNoRow DEF TypeOK, Mark, Keys, VersionRow
  <2> QED BY <1>2, <2>1 DEF TypeOK, Mark, Final, Keys
<1> QED BY <1>1, <1>2 DEF Next

LEMMA AgreementStep == TypeOK /\ TypeOK' /\ TablesAgree /\ [Next]_vars => TablesAgree'
<1> SUFFICES ASSUME TypeOK, TypeOK', TablesAgree, [Next]_vars PROVE TablesAgree'
  OBVIOUS
<1>1. ASSUME NEW k \in Skills, NEW v \in Versions, NEW visibility \in Visibilities,
             NEW row \in NewRow, Publish(k, v, visibility, row)
      PROVE  TablesAgree'
  <2>1. row # None /\ versions'[<<k, v>>] = row
    BY <1>1, NoneIsNoRow DEF NewRow, VersionRow, Publish, TypeOK, Keys
  <2>2. skills'[k] # None /\ skills'[k].latest = v
    BY <1>1, NoneIsNoRow DEF Publish, SkillAfter, SkillRow, TypeOK
  <2>3. \A j \in Skills \ {k} : skills'[j] = skills[j]
    BY <1>1 DEF Publish, TypeOK
  <2>4. \A key \in Keys \ {<<k, v>>} : versions'[key] = versions[key]
    BY <1>1 DEF Publish, TypeOK
  <2>5. \A j \in Skills, u \in Versions : <<j, u>> \in Keys
    BY DEF Keys
  <2>6. \A j \in Skills : skills[j] # None => skills[j].latest \in Versions
    BY DEF TypeOK, SkillRow
  <2>7. \A j \in Skills \ {k}, u \in Versions : versions'[<<j, u>>] = versions[<<j, u>>]
    BY <2>4, <2>5
  <2>8. ASSUME NEW j \in Skills \ {k}
        PROVE  /\ skills'[j] = None <=> \A u \in Versions : versions'[<<j, u>>] = None
               /\ skills'[j] # None => versions'[<<j, skills'[j].latest>>] # None
    BY <2>3, <2>6, <2>7 DEF TablesAgree
  <2>9. /\ skills'[k] = None <=> \A u \in Versions : versions'[<<k, u>>] = None
        /\ skills'[k] # None => versions'[<<k, skills'[k].latest>>] # None
    BY <2>1, <2>2
  <2> QED BY <2>8, <2>9 DEF TablesAgree
<1>2. ASSUME NEW k \in Skills, NEW v \in Versions, NEW mark \in Reasons \cup {None},
             Mark(k, v, mark)
      PROVE  TablesAgree'
  <2>1. \A key \in Keys : versions'[key] = None <=> versions[key] = None
    BY <1>2, NoneIsNoRow DEF Mark, TypeOK, Keys, VersionRow
  <2>2. skills' = skills
    BY <1>2 DEF Mark
  <2>3. \A j \in Skills, u \in Versions : <<j, u>> \in Keys
    BY DEF Keys
  <2>4. \A j \in Skills : skills[j] # None => skills[j].latest \in Versions
    BY DEF TypeOK, SkillRow
  <2> QED BY <2>1, <2>2, <2>3, <2>4 DEF TablesAgree
<1>3. CASE UNCHANGED vars
  BY <1>3 DEF TablesAgree, vars
<1> QED BY <1>1, <1>2, <1>3 DEF Next

(* Type correctness of the two tables.                                     *)
THEOREM TypeCorrect == Spec => []TypeOK
<1>1. Init => TypeOK
  BY DEF Init, TypeOK
<1> QED BY <1>1, TypeStep, PTL DEF Spec

(* No step removes a published row, changes anything of it but the yank    *)
(* mark, or changes the visibility of a skill.                             *)
THEOREM Finality == Spec => PublicationsAreFinal
  BY FinalStep, TypeCorrect, PTL DEF Spec, PublicationsAreFinal

(* A skill row exists exactly when the skill has a version, and latest     *)
(* names one of its versions.                                              *)
THEOREM Agreement == Spec => []TablesAgree
<1>1. Init => TablesAgree
  BY DEF Init, TablesAgree, Keys
<1> QED BY <1>1, AgreementStep, TypeCorrect, PTL DEF Spec
===============================================================================
