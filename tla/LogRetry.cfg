SPECIFICATION Spec
CONSTANTS
    i1 = i1
    i2 = i2
    i3 = i3
    i4 = i4
    Inode <- Inodes
    NoFile = NoFile
    nil = nil
    CheckInterval = 2
    Slow = 1
PROPERTIES
    NextWriteRetries
