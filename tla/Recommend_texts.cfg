SPECIFICATION Spec
CONSTANTS
    s1 = s1
    s2 = s2
    s3 = s3
    SharedIds = {s1, s2, s3}
    PostsOf <- MCPostsOf
    NoRow = NoRow
    OtherRow = OtherRow
    RecommendLimit = 0
    Faults = {"noConnection", "sqlError"}
INVARIANTS TypeOK RecommendsUpTo SharedReadsBack
PROPERTIES OrdinaryTextsConvert
