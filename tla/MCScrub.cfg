CONSTANTS
    Dumps <- MCDumps
    Cuts = {0, 1, 8, 34}
SPECIFICATION Spec
INVARIANTS TypeOK ReservoirsErased OnlyBasenames StackwalkerKeeps
CHECK_DEADLOCK FALSE
