CONSTANTS
    run = run
    sock = sock
    Bad = Bad
    Replacement = Replacement
    Up = Up
    Unset = Unset
    ArgumentLists <- MCArgumentLists
    Operands <- MCOperands
    Pretty = "--pretty"
    DatomNamed = {"notes.datom"}
    Parts <- MCParts
    Paths <- MCPaths
SPECIFICATION StartupSpec
CHECK_DEADLOCK FALSE
INVARIANT SelectionSound
