\* A pull request at a time by anybody, while custodians confirm and sign; a
\* root that is replaced, and one that nobody entitled has signed.
SPECIFICATION ProvenanceSpec
CONSTANTS
    s1 = s1
    s2 = s2
    k1 = k1
    k2 = k2
    k3 = k3
    k4 = k4
    a = a
    b = b
    c = c
    d = d
    o1 = o1
    o2 = o2
    rv = rv
    junk = junk
    h1 = h1
    h2 = h2
    h4 = h4
    k5 = k5
    e = e
    f = f
    p1 = p1
    p2 = p2
    Source <- MCSource
    KeyId <- ProvenanceKeyId
    Material <- ProvenanceMaterial
    Object <- MCObject
    RevocationId <- MCRevocationId
    RevocationTarget <- MCRevocationTarget
    SignedManifest <- ProvenanceManifests
    SignedRoot <- ProvenanceRoots
    OtherBytes = {junk}
    UnsafeFile = UnsafeFile
    NoFile = NoFile
    OtherPath = {}
    PrefixEntry = {}
    Pull = {p1, p2}
    MaxCommits = 1
    MaxEdits = 0
    Custodian <- Custodians
    KeyOf <- CustodianKey
SYMMETRY PullSymmetry
INVARIANTS
    CeremonyTypeOK
    LiveWasReviewed
CHECK_DEADLOCK FALSE
