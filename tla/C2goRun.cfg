SPECIFICATION MCSpec
CONSTANTS
    Files <- AllFiles
    Names <- AllNames
    Numbers <- AllNumbers
INVARIANTS
    SameMeaning
    ReadsC
    ReadsBack
    WellTyped
PROPERTIES
    FilesEnd
CHECK_DEADLOCK FALSE
