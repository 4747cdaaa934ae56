\* Three verdicts in one chain, one in another.
SPECIFICATION Spec
CONSTANTS
    Names <- MCNames
    Buckets <- MCBuckets
    Bucket <- MCBucket
    Cells = {c1, c2, c3}
    Ttl = 3
    NULL = NULL
INVARIANTS
    ChainsSound
    NoTroubleBeforeTtl
PROPERTIES
    ImplementsVerdictMap
    LoopsEnd
CHECK_DEADLOCK FALSE
