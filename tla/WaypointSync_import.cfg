SPECIFICATION FairSpec
CONSTANTS
    a = a
    b = b
    Ids = {a, b}
    Files <- MCFiles
    Keywords <- MCKeywords
    NoRow = NoRow
    OtherRow = OtherRow
    NotJson = NotJson
    NotAnObject = NotAnObject
    Faults = {"noConnection", "sqlError"}
INVARIANTS TypeOK ImportedPrefix ImportComplete SearchReadsBack
PROPERTIES ImportEnds
