SPECIFICATION Spec
CONSTANTS
    Fields = {name}
    Vals = {red, green}
    Slots = {s1}
    Absent = Absent
    Servers = {TRUE}
    Rulings = {"ok", "held"}
    Faults = {"giveup"}
    MaxEdits = 2
    MaxWeb = 0
    MaxFaults = 1
PROPERTY ComesToRest
CHECK_DEADLOCK FALSE
