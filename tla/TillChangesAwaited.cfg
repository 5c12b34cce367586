SPECIFICATION Spec
CONSTANTS
    Fields = {name}
    Vals = {red, green, blue}
    Slots = {s1, s2}
    Absent = Absent
    Servers = {TRUE}
    Rulings = {"ok"}
    Faults = {"giveup"}
    MaxEdits = 2
    MaxWeb = 1
    MaxFaults = 0
INVARIANT AwaitedIsWithTheOwner
CHECK_DEADLOCK FALSE
