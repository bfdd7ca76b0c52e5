\* Images of two directories with up to two entries, cycles included; tables of
\* up to three partitions; a partition longer than i64::MAX (of four-bit
\* offsets) at the end of the image; artifacts of up to three buffers; lines
\* between the points of an 8 by 8 grid; every brightness, every size of a text.
\* An algorithm that has returned does nothing more.
CONSTANTS
    Dirs = {d0, d1}
    Root = d0
    MaxEntries = 2
    MaxDepth = 3
    MaxPartitions = 3
    CopiesFail = TRUE
    IMax = 7
    Start = 5
    Length = 10
    Bufs = {0, 1, 3}
    Buffer = 3
    MaxSize = 9
    Limits = {0, 2, 3, 4, 6, 9}
    Unbounded = Unbounded
    Width = 7
    Height = 6
    Extent = 7
    USize = 65536
    Brightnesses <- AllBrightnesses
    TextWidths <- AllWidths
    TextHeights <- AllHeights
SPECIFICATION Spec
CHECK_DEADLOCK FALSE
INVARIANTS WalkIsFirst OneSystem InsidePartition CapIsExact LineIsExact DisplayArithmetic
PROPERTIES SeekIsExact Returns
