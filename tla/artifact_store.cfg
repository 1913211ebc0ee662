SPECIFICATION Spec
CONSTANTS
    Fetches = {f1}
    Pointers <- MCPointers
    Contents = {"a", "b"}
    Manifests <- MCManifests
    S3Configured = TRUE
    RegistryHost = "registry"
    Torn = Torn
    None = None
INVARIANTS TypeOK VerifiedWasThere MismatchIsReal
