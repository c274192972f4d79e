CONSTANTS
    a = a
    b = b
    Watched = {a, b}
    MaxEvents = 4
SPECIFICATION FairWatcherSpec
PROPERTIES NoCallbackAfterReturn DeliveredOnce ReportedSomeTime
CHECK_DEADLOCK FALSE
