\* A text arrives while the reader thread holds the diagnostics of the one before.
SPECIFICATION Spec
CONSTANTS
    button = button
    script = script
    Doc = {button}
    IrisxDoc = {}
    MaxAsked = 0
    MaxEdits = 2
    MaxQueries = 0
INVARIANT OwnDiagnosticsShown
\* The server really stops, at "exit" or by a signal.
CHECK_DEADLOCK FALSE
