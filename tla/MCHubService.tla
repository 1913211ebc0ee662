----------------------------- MODULE MCHubService -----------------------------
(* Instances of HubService for TLC.                                        *)
EXTENDS HubService, TLC

Plain == <<"SKILL.md">>
Dotted == <<".", "docs", "", "a.md">>
Upward == <<"docs", "..", "..", "SKILL.md">>
Rooted == <<"", "SKILL.md">>
Doubled == <<".", ".">>
OnDrive == <<"C:", "SKILL.md">>
WithBackslash == <<"docs", "with-backslash">>

(* IllFormed stands for a namespace, a name, a version and a url that the  *)
(* validate_* functions refuse.                                            *)
IllFormed == "ill formed"

MCNamespaces == {"acme", "beta", IllFormed}
MCNames == {"lint", "other", IllFormed}
MCVersions == {"1.0.0", IllFormed}
MCUrls == {"file:///a", IllFormed}
MCPaths == {Plain, Dotted, Upward, Rooted, Doubled, OnDrive, WithBackslash}
MCWellFormed == {"acme", "beta", "lint", "other", "1.0.0", "file:///a"}
MCScopes == {"skills:publish", "skills:yank"}
MCRoles == {"reader", "publisher", "admin"}

HeadersOf(who, scopes, roles) == [subject |-> who, scopes |-> scopes, roles |-> roles]
Ann == HeadersOf("ann", MCScopes, {<<"acme", "publisher">>})
Bob == HeadersOf("bob", MCScopes, {<<"acme", "admin">>})
Eve == HeadersOf("eve", MCScopes, {<<"acme", "reader">>, <<"beta", "admin">>})

Manifest(paths) == [name |-> "lint", version |-> "1.0.0", paths |-> paths]

PayloadOf(manifest, signature, key, bundle) ==
    [manifest |-> manifest, url |-> "file:///a", signature |-> signature,
     key |-> key, bundle |-> bundle]

SignatureOf(manifest, digest) == [by |-> "k1", manifest |-> manifest, digest |-> digest]

SignedAs(manifest, digest) ==
    PayloadOf(manifest, SignatureOf(manifest, digest), "k1", "none")
Signed(paths, digest) == SignedAs(Manifest(paths), digest)
Bundled(bundle) == PayloadOf(Manifest({Plain}), None, None, bundle)

Publish(headers, namespace, digest, payload) ==
    [op |-> "publish", headers |-> headers, namespace |-> namespace,
     name |-> payload.manifest.name, visibility |-> None, digest |-> digest,
     payload |-> payload]
Yank(headers, namespace) ==
    [op |-> "yank", headers |-> headers, namespace |-> namespace, name |-> "lint",
     version |-> "1.0.0", reason |-> None]
Unyank(headers, namespace) ==
    [op |-> "unyank", headers |-> headers, namespace |-> namespace, name |-> "lint",
     version |-> "1.0.0"]

Lower(c) == [of |-> c, hex |-> "lower"]
Upper(c) == [of |-> c, hex |-> "upper"]

AnnPublishes == Publish(Ann, "acme", Lower("c1"), Signed({Plain}, Lower("c1")))

(* Requests that are admitted, for one version: a publisher who shows      *)
(* nothing but a bundle, one of the same contents who signs and writes the *)
(* digest in upper case, a yank, an unyank.  Several tasks may send the    *)
(* same one.                                                               *)
Admitted == {Publish(Ann, "acme", Lower("c1"), Bundled("wellformed")),
             Publish(Bob, "acme", Upper("c1"), Signed({Plain, Dotted}, Upper("c1"))),
             Yank(Bob, "acme"), Unyank(Ann, "acme")}

(* A request for every way to be refused by its headers: no subject, text  *)
(* that is none, roles that do not parse, a scope missing, reader only,    *)
(* another namespace's publisher.                                          *)
Unauthorised ==
    {[AnnPublishes EXCEPT !.headers = headers] :
        headers \in {HeadersOf(None, {}, {}),
                     HeadersOf(Garbled, MCScopes, Ann.roles),
                     HeadersOf("ann", MCScopes \cup {Garbled}, Ann.roles),
                     HeadersOf("ann", MCScopes, Ann.roles \cup {Garbled}),
                     HeadersOf("ann", {"skills:yank"}, Ann.roles),
                     Eve}}
      \cup {Publish(Ann, "beta", Lower("c1"), Signed({Plain}, Lower("c1"))),
            Yank(HeadersOf("bob", {"skills:publish"}, Bob.roles), "acme"),
            Yank(Eve, "acme"), Unyank(Eve, "acme")}

(* By validation: a name other than the path's; namespace, name, version,  *)
(* url, digest; every kind of unsafe path.                                 *)
Invalid ==
    {Publish(Ann, "acme", Lower("c1"), Signed({Plain, path}, Lower("c1"))) :
        path \in {Upward, Rooted, Doubled, OnDrive, WithBackslash}}
      \cup {[AnnPublishes EXCEPT !.name = "other"],
            Publish(HeadersOf("ann", MCScopes, {<<IllFormed, "publisher">>}), IllFormed,
                    Lower("c1"), Signed({Plain}, Lower("c1"))),
            Publish(Ann, "acme", Lower("c1"),
                    SignedAs([Manifest({Plain}) EXCEPT !.name = IllFormed], Lower("c1"))),
            Publish(Ann, "acme", Lower("c1"),
                    SignedAs([Manifest({Plain}) EXCEPT !.version = IllFormed], Lower("c1"))),
            [AnnPublishes EXCEPT !.payload.url = IllFormed],
            Publish(Ann, "acme", Malformed, Signed({Plain}, Malformed)),
            [Yank(Ann, "acme") EXCEPT !.version = IllFormed]}

(* By its signature or bundle: none, half of one, one of another digest,   *)
(* one of another manifest, a malformed bundle, alone or beside it.        *)
Untrusted ==
    {[AnnPublishes EXCEPT !.payload = payload] :
        payload \in {Bundled("none"), Bundled("malformed"),
                     PayloadOf(Manifest({Plain}), None, "k1", "none"),
                     PayloadOf(Manifest({Plain}), None, "k1", "wellformed"),
                     PayloadOf(Manifest({Plain}), SignatureOf(Manifest({Plain}), Lower("c2")),
                               "k1", "none"),
                     PayloadOf(Manifest({Plain}), SignatureOf(Manifest({Dotted}), Lower("c1")),
                               "k1", "none"),
                     PayloadOf(Manifest({Plain}), SignatureOf(Manifest({Plain}), Lower("c1")),
                               "k1", "malformed")}}

AllRequests == Admitted \cup Unauthorised \cup Invalid \cup Untrusted

(* Publishers of other contents, and who marks the version.                *)
Contended == {AnnPublishes,
              Publish(Bob, "acme", Lower("c2"), Signed({Plain}, Lower("c2"))),
              Yank(Bob, "acme"), Unyank(Ann, "acme")}

Symmetry == Permutations(Tasks)
===============================================================================
