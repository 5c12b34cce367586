SPECIFICATION Spec
CONSTANTS
    Fields = {name}
    Vals = {red, green}
    Slots = {s1}
    Absent = Absent
    Servers = {FALSE}
    Rulings = {"ok"}
    Faults = {"giveup"}
    MaxEdits = 2
    MaxWeb = 0
    MaxFaults = 0
INVARIANT WithdrawnIsNowhere
CHECK_DEADLOCK FALSE
