\* cmd/catalog-publisher/README.md: is any immutable deletion rejected?
SPECIFICATION Spec
CONSTANTS
    s1 = s1
    s2 = s2
    k1 = k1
    k2 = k2
    k3 = k3
    k4 = k4
    a = a
    b = b
    c = c
    d = d
    o1 = o1
    o2 = o2
    rv = rv
    junk = junk
    tool = tool
    stray = stray
    p1 = p1
    p2 = p2
    Source <- MCSource
    KeyId <- MCKeyId
    Material <- MCMaterial
    Object <- MCObject
    RevocationId <- MCRevocationId
    RevocationTarget <- MCRevocationTarget
    SignedManifest <- OneManifest
    SignedRoot <- OneRoot
    OtherBytes = {junk}
    UnsafeFile = UnsafeFile
    NoFile = NoFile
    OtherPath = {stray}
    PrefixEntry = {stray}
    Pull = {p1}
    MaxCommits = 1
    MaxEdits = 1
INVARIANT ImmutableDeletionRejected
CHECK_DEADLOCK FALSE
