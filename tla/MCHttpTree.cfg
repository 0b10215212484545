SPECIFICATION HttpSpec
CONSTANTS
    Readers = {r}
    Writers = {w}
    MaxPosts = 1
    Names <- MCNames
    Refused <- MCRefused
    Starred <- MCStarred
    Queries <- MCQueries
    Bodies <- MCBodies
    Texts <- MCTexts
    TooLong = {"long"}
    Empty = ""
    Null = "null"
    Json <- MCJson
    InferType <- MCInferType
    Truths = {"true"}
    Number <- MCNumber
    Quoted <- MCQuoted
    JsonFalse = "false"
    Broken = "not JSON"
    Index <- MCIndex
    Own = "_value"
INVARIANTS AnswerIsFaithful NoScalarInTheWay
CHECK_DEADLOCK FALSE
