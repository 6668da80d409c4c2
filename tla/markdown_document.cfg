SPECIFICATION DocumentLiveSpec
CONSTANTS
    Documents <- MCDocuments
INVARIANTS
    KeptInOrder
    BlankSeparatedKept
    ParagraphsAsWritten
    NestedTags
    UnmatchDefined
    MarkersConserved
    RestoredOnce
PROPERTIES
    SpansEnd
CHECK_DEADLOCK FALSE
