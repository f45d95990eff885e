\* Four custodians, two of them of one root only, and roots of which one is not
\* bridged, at a time when the window is open and one when it is not.
SPECIFICATION Spec
CONSTANTS
    s1 = s1
    s2 = s2
    k1 = k1
    k2 = k2
    k3 = k3
    k4 = k4
    a = a
    b = b
    c = c
    d = d
    o1 = o1
    o2 = o2
    rv = rv
    junk = junk
    h1 = h1
    h2 = h2
    h3 = h3
    h4 = h4
    op = op
    x64 = x64
    arm = arm
    out = out
    Source <- MCSource
    KeyId <- MCKeyId
    Material <- MCMaterial
    Object <- MCObject
    RevocationId <- MCRevocationId
    RevocationTarget <- MCRevocationTarget
    SignedManifest <- Successors
    SignedRoot <- MCSignedRoot
    OtherBytes = {junk}
    UnsafeFile = UnsafeFile
    NoFile = NoFile
    Id = s1
    Holder <- AllCustodians
    HolderKey <- AllCustodianKeys
    Operator = {op}
    Cohort = {x64}
    FragmentPath = {1, 2}
    OutputDir = {out}
    Now = {0, 1}
    Window = 1
    MaxChanges = 0
INVARIANTS
    AssembledForward
    AssembledLoads
