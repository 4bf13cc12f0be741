CONSTANTS
    Byte <- MCByte
    NewLine = "n"
    Zero = "0"
    InitialSize = 2
    Prepend = 1
    ExtraBuf = 1
    MaxContents = 4
    MaxWrite = 3
SPECIFICATION Spec
INVARIANTS
    OffsetsInOrder
    MemoryBounded
PROPERTY ImplementsByteQueue
