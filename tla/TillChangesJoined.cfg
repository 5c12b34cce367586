SPECIFICATION Spec
CONSTANTS
    Fields = {name}
    Vals = {red, green, blue}
    Slots = {s1}
    Absent = Absent
    Servers = {TRUE}
    Rulings = {"ok"}
    Faults = {"giveup"}
    MaxEdits = 2
    MaxWeb = 0
    MaxFaults = 0
INVARIANT EditSurvives
CHECK_DEADLOCK FALSE
