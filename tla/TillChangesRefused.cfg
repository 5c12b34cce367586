SPECIFICATION Spec
CONSTANTS
    Fields = {name}
    Vals = {red, green}
    Slots = {s1}
    Absent = Absent
    Servers = {FALSE}
    Rulings = {"ok", "refused"}
    Faults = {"giveup"}
    MaxEdits = 1
    MaxWeb = 1
    MaxFaults = 0
INVARIANT RefusedIsGone
CHECK_DEADLOCK FALSE
