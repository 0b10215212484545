SPECIFICATION StorageSpec
CONSTANTS
    Keys <- MCKeys
    Names <- MCNames
    Texts <- MCLines
    Empty = ""
    Stub = "~"
    Glued = "r=x"
    BeforeEquals <- MCBefore
    HeadLine <- MCLinesHead
    TailEntry <- MCLinesTail
INVARIANTS CleanMeansDurable
