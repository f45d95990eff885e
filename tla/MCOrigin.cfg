\* Three commits; caches forget after two ticks, retries end after four, the
\* job after six.
SPECIFICATION Spec
CONSTANTS
    readme = readme
    manifest = manifest
    object1 = object1
    object2 = object2
    b0 = b0
    b1 = b1
    b2 = b2
    NoFile = NoFile
    SourceFiles <- MCSourceFiles
    Readme = readme
    File = {readme, manifest, object1, object2}
    Bytes = {b0, b1, b2}
    Published <- MCPublished
    CacheAge = 2
    RetryLimit = 4
    Pause = 1
    RequestTimeout = 1
    JobTimeout = 6
    MaxDispatches = 1
INVARIANTS
    TypeOK
    GreenIsComplete
    RedNeedsFaults
PROPERTY LastPushJudged
CHECK_DEADLOCK FALSE
