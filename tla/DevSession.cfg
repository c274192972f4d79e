CONSTANTS
    watch = watch
    h1 = h1
    main = main
    a = a
    b = b
    Rest = Rest
    Missing = Missing
    Partial = Partial
    Watcher = watch
    Callers = {watch, h1, main}
    Main = main
    Paths = {a, b}
    MaxSubmits = 3
SPECIFICATION SessionFairSpec
INVARIANTS UpToDateOrAlerted DirectoriesSafe
PROPERTIES KeepsPromise EditsAnswered SessionEnds
CHECK_DEADLOCK FALSE
