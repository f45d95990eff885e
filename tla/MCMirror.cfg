\* Replications of a checkout that moves, with failing calls and a death.
SPECIFICATION Spec
CONSTANTS
    s1 = s1
    s2 = s2
    k1 = k1
    k2 = k2
    k3 = k3
    k4 = k4
    a = a
    b = b
    c = c
    d = d
    o1 = o1
    o2 = o2
    rv = rv
    junk = junk
    Source <- MCSource
    KeyId <- MCKeyId
    Material <- MCMaterial
    Object <- MCObject
    RevocationId <- MCRevocationId
    RevocationTarget <- MCRevocationTarget
    OtherBytes = {junk}
    UnsafeFile = UnsafeFile
    NoFile = NoFile
    SignedManifest <- PlainManifests
    SignedRoot <- OneRoot
    Revision <- MCRevision
    MaxUpdates = 2
    MaxRuns = 3
    MaxErrors = 2
    MaxCrashes = 1
INVARIANTS
    TypeOK
    OutcomeIsTrue
    NeverWithdrawn
    ServedOnDisk
CHECK_DEADLOCK FALSE
