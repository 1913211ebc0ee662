------------------------------ MODULE MCRegistry ------------------------------
(* An instance of Registry and Search for TLC: the same name in two        *)
(* namespaces and a longer name that has it within and comes before it in  *)
(* the alphabet, two versions whose numbers and digits are ordered         *)
(* differently, and no more ids than for three versions at a time.         *)
EXTENDS Search

Lint == <<2, 3>>
Eslint == <<1, 2, 3>>

MCNamespaces == {1, 2}
MCSkills == {<<1, Lint>>, <<2, Lint>>, <<2, Eslint>>}
MCVersions == {<<1, 9, 0>>, <<1, 10, 0>>}

(* Descriptions: none, and one that has the longer name in it.             *)
MCPayloads == {[shown |-> None], [shown |-> <<-4, 0, 1, -2, 3>>]}

(* A name, the longer one in upper case, the beginning of the short one    *)
(* between blanks, a word of the description, blanks, nothing.             *)
MCQueries == {<<2, 3>>, <<-1, 2, 3>>, <<0, 2, 0>>, <<4>>, <<0>>, None}
MCLimits == {None, 0, 1, 2}

Symmetry == Permutations(Ids)
===============================================================================
