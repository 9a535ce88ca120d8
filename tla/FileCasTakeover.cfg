\* A call leaves its lock behind, and two writers take it over at the same time.
SPECIFICATION Spec
CONSTANTS
    Writers = {2, 3}
    Values = {v1, v2}
    Absent = Absent
    Process <- MCProcess
    MaxTries = 2
    MaxFailures = 1
PROPERTIES
    Atomic
