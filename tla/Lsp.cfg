\* Two documents, one of them .irisx; two texts, a request, a request of clangd's own, and a crash.
SPECIFICATION FairSpec
CONSTANTS
    button = button
    script = script
    Doc = {button, script}
    IrisxDoc = {script}
    MaxAsked = 1
    MaxEdits = 2
    MaxQueries = 1
INVARIANTS OneReply PositionsMatchText NumbersRise
PROPERTIES EveryMessageHandled CleanSettles
\* The server really stops, at "exit" or by a signal.
CHECK_DEADLOCK FALSE
