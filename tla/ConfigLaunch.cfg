SPECIFICATION ClientSpec
CONSTANTS
    Tab = {t1}
    ann = ann
    nobody = nobody
    User = {ann, nobody}
    NoUser = nobody
    Group <- Each
    LastVersion = 3
    Unpublished = {2}
    MaxFaults = 2
    MaxSwitches = 1
    Nothing = Nothing
INVARIANT LiveIsTheUsers
CHECK_DEADLOCK FALSE
