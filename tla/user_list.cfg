\* Two operators, two users, two changes of the database, three commands.
SPECIFICATION Spec
CONSTANTS
    Users = {1, 2}
    Operators = {a, b}
    None = None
    MaxEdits = 2
    MaxCommands = 3
SYMMETRY Interchangeable
INVARIANTS
    TypeOK
    EveryLineWasTrue
    ListAddsUp
CHECK_DEADLOCK FALSE
