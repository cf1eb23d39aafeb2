\* One operator, two users that nobody changes: create the list, delete both.
SPECIFICATION Spec
CONSTANTS
    Users = {1, 2}
    Operators = {a}
    None = None
    MaxEdits = 0
    MaxCommands = 2
INVARIANT
    DeletesAllThatWereNamed
CHECK_DEADLOCK FALSE
