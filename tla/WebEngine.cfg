SPECIFICATION Spec
CONSTANTS
    root = root
    demo = demo
    any = any
    json = json
    other = other
    digits = digits
    null = null
    nothing = nothing
    Handler <- MCHandler
    NullHandler = null
    Handle <- MCHandle
    Regex = {any, digits}
    Accepts <- MCAccepts
    Parents <- MCParents
    File <- MCFile
    Parts <- MCParts
    Nothing = nothing
    Requests <- MCRequests
    Serves <- MCServes
    Authorize <- MCAuthorize
    Throwing = {json}
INVARIANTS
    TypeOK
    TreeFollowsDeclarations
    AnswersAsDocumented
    ReplyFindsItsWay
    CrashesAreKnown
CHECK_DEADLOCK FALSE
