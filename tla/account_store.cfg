CONSTANTS
    Keys = {1, 2, 3}
    DefaultKey = 2
    Users = {1, 2}
    Policies = {0, 1}
SPECIFICATION Spec
CHECK_DEADLOCK FALSE
PROPERTIES TokensKept RenameAtomic DefaultStable
