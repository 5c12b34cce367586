SPECIFICATION Spec
CONSTANTS
    Fields = {name}
    Vals = {red, green}
    Slots = {s1}
    Absent = Absent
    Servers = {FALSE}
    Rulings = {"ok"}
    Faults = {"giveup"}
    MaxEdits = 1
    MaxWeb = 1
    MaxFaults = 0
PROPERTY DeletesNothingUnseen
CHECK_DEADLOCK FALSE
