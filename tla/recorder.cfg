SPECIFICATION FairSpec
CONSTANTS
    Cameras = {k1, k2}
    Alerts = {a1, a2, a3}
    Streams = {s1, s2, s3}
    MinRunTime = 1
    None = None
INVARIANTS TypeOK ListIsSound OneRecorderPerCamera NoUseAfterFree
PROPERTIES AlertsServed RecordingsEnd
