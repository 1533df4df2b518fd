\* Two servers, one of them without a backup file, and a team of two.
CONSTANTS
    Servers = {s1, s2}
    First = s1
    WithBackup = {s1}
    Names = {a, b}
    UserCodes = {mine, theirs}
    Taken = {theirs}
    NoCode = NoCode
    NoRun = NoRun
    MaxSaves = 2
    MaxTrouble = 2
SPECIFICATION Spec
INVARIANTS AtMostOnce CodeWorks TeamTogether
PROPERTY SavesKept
CHECK_DEADLOCK FALSE
SYMMETRY Symmetry
