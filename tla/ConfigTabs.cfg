SPECIFICATION ClientSpec
CONSTANTS
    Tab = {t1, t2}
    ann = ann
    nobody = nobody
    User = {ann, nobody}
    NoUser = nobody
    Group <- Each
    LastVersion = 3
    Unpublished = {2}
    MaxFaults = 1
    MaxSwitches = 1
    Nothing = Nothing
SYMMETRY Symm
INVARIANT AnswersAreTheUsers
PROPERTY StableReads
CHECK_DEADLOCK FALSE
