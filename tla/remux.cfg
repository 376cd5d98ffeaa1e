SPECIFICATION Spec
CONSTANTS
    MaxStreams = 3
    FrameLimits = {0, 1, 2, 3}
    MaxReads = 4
INVARIANTS TypeOK NothingLeaks LoopIsEquipped FirstVideoCopied ContainerComplete
