\* Two materializers in one worktree over the five manifests and three roots:
\* two failing calls and one death in three runs, which may overlap.
SPECIFICATION Spec
CONSTANTS
    s1 = s1
    s2 = s2
    k1 = k1
    k2 = k2
    k3 = k3
    k4 = k4
    a = a
    b = b
    c = c
    d = d
    o1 = o1
    o2 = o2
    rv = rv
    junk = junk
    p1 = p1
    p2 = p2
    Source <- MCSource
    KeyId <- MCKeyId
    Material <- MCMaterial
    Object <- MCObject
    RevocationId <- MCRevocationId
    RevocationTarget <- MCRevocationTarget
    OtherBytes = {junk}
    UnsafeFile = UnsafeFile
    NoFile = NoFile
    Id = s1
    SignedManifest <- MCSignedManifest
    SignedRoot <- MCSignedRoot
    Process = {p1, p2}
    MaxRuns = 3
    MaxErrors = 2
    MaxCrashes = 1
SYMMETRY ProcessSymmetry
INVARIANTS
    TypeOK
    SourceNeverPartial
    HistoryOnDisk
    SurvivesOneFailure
PROPERTY
    InstallsInOneStep
CHECK_DEADLOCK FALSE
