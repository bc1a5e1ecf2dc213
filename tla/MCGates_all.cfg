SPECIFICATION Spec
CONSTANTS
    BranchSets = {{main, side}, {main, side, top}}
    Stack <- Stacked
    main = main
    side = side
    top = top
    Main = main
    Schemas <- Versioned
    shapeA = shapeA
    shapeB = shapeB
    Absent = Absent
    MaxCommits = 3
    PrivateBranches = {side}
    Files = {fileF, fileG}
    fileF = fileF
    fileG = fileG
    Artifacts = {"picture"}
    Scanned = {fileF, fileG}
    Ruled = {fileF}
    Bound = {fileF, fileG}
    Commands = 1
    MaxReads = 9
    Configs <- Setups
    MaxWrites = 3
INVARIANTS VersionsNameShapes CleanIsClean StackIsLinear OneTree PassIsComplete VisualIsFresh
