-------------------------------- MODULE Digest --------------------------------
(***************************************************************************)
(* Artifact digests.  The code passes a digest around as the string it was *)
(* sent as, which names some contents in lower- or upper-case hexadecimal; *)
(* only the check of an artifact normalises it.                            *)
(***************************************************************************)
CONSTANTS Contents,   \* what an artifact can hold
          None        \* no artifact

Digests == [of : Contents, hex : {"lower", "upper"}]

Sha256(content) == [of |-> content, hex |-> "lower"]

Normalize(digest) == [digest EXCEPT !.hex = "lower"]

(* Mutants of DigestVerified: the bytes are passed on unverified, and the  *)
(* digest is compared as it is written.                                    *)
DigestUnverified(content, digest) == content # None
DigestAsWritten(content, digest) == content # None /\ Sha256(content) = digest

(* verify_sha256_digest, of an artifact that could be read                 *)
DigestVerified(content, digest) == content # None /\ Sha256(content) = Normalize(digest)
===============================================================================
