---------------------------- MODULE MCPgRepository ----------------------------
(* Instances of PgRepository for TLC.                                      *)
EXTENDS PgRepository, TLC

CONSTANTS s1, s2, v1, v2, d1, d2, ann, bob, reason

PublishOf(k, v, d, who, visibility) ==
    [op |-> "insert", skill |-> k, version |-> v, visibility |-> visibility,
     publisher |-> who, digest |-> d, payload |-> who]
YankOf(k, v)   == [op |-> "mark", skill |-> k, version |-> v, mark |-> reason]
UnyankOf(k, v) == [op |-> "mark", skill |-> k, version |-> v, mark |-> None]

OneSkill == {s1}
TwoSkills == {s1, s2}
MCVersions == {v1, v2}
MCDigests == {d1, d2}
MCSubjects == {ann, bob}

(* Two publishers of one version with the same and with another digest, a  *)
(* publisher of the next version, one of another skill, and the two marks. *)
MCCalls == {PublishOf(s1, v1, d1, ann, "public"),
            PublishOf(s1, v1, d1, bob, "private"),
            PublishOf(s1, v1, d2, bob, "public"),
            PublishOf(s1, v2, d1, ann, "private"),
            PublishOf(s2, v1, d1, bob, "public"),
            YankOf(s1, v1), UnyankOf(s1, v1)}

(* The calls of one contended version.                                     *)
OneVersionCalls == {PublishOf(s1, v1, d1, ann, "public"),
                    PublishOf(s1, v1, d2, bob, "private"),
                    YankOf(s1, v1)}
OneVersion == {v1}

TaskSymmetry == Permutations(Tasks)
===============================================================================
