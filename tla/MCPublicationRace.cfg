\* Two pull requests that each carry one materialized release, over five
\* manifests and three roots of one source and a release of a second one.
SPECIFICATION Spec
CONSTANTS
    s1 = s1
    s2 = s2
    k1 = k1
    k2 = k2
    k3 = k3
    k4 = k4
    a = a
    b = b
    c = c
    d = d
    o1 = o1
    o2 = o2
    rv = rv
    junk = junk
    tool = tool
    stray = stray
    p1 = p1
    p2 = p2
    Source <- BothSources
    KeyId <- MCKeyId
    Material <- MCMaterial
    Object <- MCObject
    RevocationId <- MCRevocationId
    RevocationTarget <- MCRevocationTarget
    SignedManifest <- RaceManifests
    SignedRoot <- MCSignedRoot
    OtherBytes = {junk}
    UnsafeFile = UnsafeFile
    NoFile = NoFile
    OtherPath = {}
    PrefixEntry = {}
    Pull = {p1, p2}
    MaxCommits = 1
    MaxEdits = 0
SYMMETRY PullSymmetry
INVARIANTS
    RevocationsCumulative
    ChainArchived
    StaleCheckStillHolds
PROPERTY PublicationLog
CHECK_DEADLOCK FALSE
