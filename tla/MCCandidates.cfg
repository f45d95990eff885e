\* Two builders of one output, over any of some 500 definition trees,
\* with one change of the tree and a failing call or a death.
SPECIFICATION Spec
CONSTANTS
    data = data
    exec = exec
    other = other
    o1 = o1
    o2 = o2
    none = none
    b1 = b1
    b2 = b2
    DataSourceID = data
    ExecSourceID = exec
    NoArtifact = none
    Directory = {data, exec, other}
    Object = {o1, o2}
    Document <- MCDocument
    Text <- MCText
    Malformed = Malformed
    NoDocument = NoDocument
    Definitions <- MCDefinitions
    Contents <- MCContents
    Builder = {b1, b2}
    Epoch <- MCEpoch
    NoCandidate = NoCandidate
    NoOutput = NoOutput
    MaxChanges = 1
    MaxFaults = 1
INVARIANTS
    TypeOK
    OutputWhole
    OutputResolves
    OutcomeIsTrue
    RaceHasWinner
CHECK_DEADLOCK FALSE
