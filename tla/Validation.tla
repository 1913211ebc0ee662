------------------------------- MODULE Validation -------------------------------
(***************************************************************************)
(* hub-core's validation.rs: the paths of a manifest.  A path is what is   *)
(* between its slashes, so "" is <<"">>, "/a" is <<"", "a">> and "a//b"    *)
(* is <<"a", "", "b">>.                                                    *)
(***************************************************************************)
EXTENDS Naturals, Sequences, FiniteSets

CONSTANTS Drive,       \* a segment that starts with a letter and a colon
          Backslashed  \* a segment with a backslash in it

(* Path::components skips the segments "" and ".", except that a path that *)
(* starts with a slash has a RootDir.                                      *)
Named(segment) == segment \notin {"", ".", ".."}
Absolute(path) == Len(path) > 1 /\ path[1] = ""

(* Mutant of PathAccepted: ParentDir is skipped like CurDir.               *)
PathAcceptedUp(path) ==
    /\ path # <<"">> /\ path[1] # Drive /\ ~Absolute(path)
    /\ \A i \in DOMAIN path : path[i] # Backslashed
    /\ \E i \in DOMAIN path : Named(path[i])

(* validate_skill_path                                                     *)
PathAccepted(path) ==
    /\ path # <<"">> /\ path[1] # Drive /\ ~Absolute(path)
    /\ \A i \in DOMAIN path : path[i] \notin {Backslashed, ".."}
    /\ \E i \in DOMAIN path : Named(path[i])

-----------------------------------------------------------------------------
(* What accepting a path is for: whoever walks along it from the root of a *)
(* skill never leaves the root, and does not end there.                    *)
Downs(path, n) == Cardinality({i \in 1..n : Named(path[i])})
Ups(path, n) == Cardinality({i \in 1..n : path[i] = ".."})

StaysInside(path) ==
    /\ ~Absolute(path)
    /\ \A n \in 1..Len(path) : Ups(path, n) <= Downs(path, n)
    /\ Ups(path, Len(path)) < Downs(path, Len(path))
===============================================================================
