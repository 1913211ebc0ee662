--------------------------------- MODULE Auth ---------------------------------
(***************************************************************************)
(* Who may do what: AuthContext and the can_* checks of hub-core's auth.rs *)
(* and the way hub-api's handlers.rs builds an AuthContext from request    *)
(* headers.  Headers are a record [subject, scopes, roles]: a subject or   *)
(* None, the set of scopes listed, and the set of role entries listed,     *)
(* <<namespace, role>> pairs.  Garbled stands for a header that is not     *)
(* text, and for a role entry that does not parse.                         *)
(***************************************************************************)
CONSTANTS None, Garbled

Writers == {"publisher", "admin"}

Anonymous == [subject |-> None, scopes |-> {}, roles |-> {}]

(* Scopes and roles are only looked at when there is a subject.            *)
HeadersRejected(headers) ==
    \/ headers.subject = Garbled
    \/ headers.subject # None /\ Garbled \in headers.scopes \cup headers.roles

AuthFromHeaders(headers) == IF headers.subject = None THEN Anonymous ELSE headers

HasScope(auth, scope) == scope \in auth.scopes

HasRole(auth, namespace, accepted) ==
    \E role \in accepted : <<namespace, role>> \in auth.roles

CanPublish(auth, namespace) ==
    HasScope(auth, "skills:publish") /\ HasRole(auth, namespace, Writers)

CanYank(auth, namespace) ==
    HasScope(auth, "skills:yank") /\ HasRole(auth, namespace, Writers)
===============================================================================
