--------------------------- MODULE MCArtifactStore ---------------------------
(* An instance of ArtifactStore for TLC.                                   *)
EXTENDS ArtifactStore, TLC

PointerOf(scheme, user, query, host, path) ==
    [scheme |-> scheme, user |-> user, query |-> query, host |-> host, path |-> path]

(* A pointer to a file, an S3 object and an OCI image, and one to a        *)
(* registry that is not configured.                                        *)
MCPointers == {PointerOf("file", FALSE, FALSE, None, "a"),
               PointerOf("s3", FALSE, FALSE, "bucket", "a"),
               PointerOf("oci", FALSE, FALSE, "registry", "a"),
               PointerOf("oci", FALSE, FALSE, "elsewhere", "a")}

(* A manifest of two layers, and one whose digest is in upper case.        *)
MCManifests == {{Sha256("a"), Sha256("b")}, {[of |-> "a", hex |-> "upper"]}}
===============================================================================
