SPECIFICATION FairSpec
CONSTANTS
    main = main
    w1 = w1
    w2 = w2
    Main = main
    Workers = {w1, w2}
    Calls = {"c1", "c2"}
    Places <- MCPlaces
    Contents <- MCContents
    Empty <- MCEmpty
    NoFile <- MCNoFile
    Left <- MCLeft
    Programs <- MCPrograms
    Garbage <- MCGarbage
    MaxFaults = 1
    MaxCrashes = 1
    MaxNumber = 70
    PerOne = 2
    NaN = NaN
    PosInf = PosInf
    NegInf = NegInf
    Word = 64
    WordSize = 64
INVARIANTS
    TypeOK
    GettersAnswer
    ReadsAreWhole
    BuiltFromArguments
    ExportReadsBack
    RowsAccounted
PROPERTIES
    AsyncAnswered
CHECK_DEADLOCK FALSE
