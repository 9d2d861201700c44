SPECIFICATION FairSpec
CONSTANTS
    HeadBytes = 3
    SniffWindow = 2
    MaxBytes = 4
    Names = {".md", ".html", ""}
    MinItems = 3
    MaxGap = 1
    PageLists <- TocPageLists
    MaxItems = 5
    ModelMax = 9
    Reserve = 1
    SpecialTokens = 1
    Overlap = 2
    MaxGrowth = 1
    MaxBody = 10
    MaxPrefix = 7
    LastChunk = 2
INVARIANTS NamesOnlyNameText ChunksDoNotMatter TocsArePruned NoGap TailIsShort PiecesFitModel
PROPERTY ChunkingEnds
CHECK_DEADLOCK FALSE
