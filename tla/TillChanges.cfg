SPECIFICATION Spec
CONSTANTS
    Fields = {name}
    Vals = {red, green, blue}
    Slots = {s1, s2}
    Absent = Absent
    Servers = {TRUE, FALSE}
    Rulings = {"ok", "held", "refused"}
    Faults = {"giveup", "die", "later", "halfway", "unrecorded"}
    MaxEdits = 2
    MaxWeb = 1
    MaxFaults = 1
SYMMETRY Symmetry
CONSTRAINT Bounded
INVARIANTS OwnChangeStays EveryEditIsJudged NoFalseAlarm
PROPERTY NothingUnseenIsOverwritten
CHECK_DEADLOCK FALSE
