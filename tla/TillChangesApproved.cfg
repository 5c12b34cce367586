SPECIFICATION Spec
CONSTANTS
    Fields = {name}
    Vals = {red, green, blue}
    Slots = {s1}
    Absent = Absent
    Servers = {FALSE}
    Rulings = {"ok"}
    Faults = {"giveup"}
    MaxEdits = 1
    MaxWeb = 1
    MaxFaults = 1
INVARIANT ApprovedIsNotRefused
CHECK_DEADLOCK FALSE
