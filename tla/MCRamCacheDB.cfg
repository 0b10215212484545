SPECIFICATION StorageFairSpec
CONSTANTS
    Keys <- MCKeys
    Names <- MCNames
    Texts <- MCPlain
    Empty = ""
    Stub = "~"
    Glued = "r=x"
    BeforeEquals <- MCBefore
    HeadLine <- MCPlainHead
    TailEntry <- MCPlainTail
INVARIANTS StorageTypeOK CleanMeansDurable
PROPERTIES EventuallyDurable ImplementsDurableStore
