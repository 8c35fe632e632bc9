SPECIFICATION FairSpec
CONSTANTS
    t1 = t1
    t2 = t2
    car = car
    house = house
    red = red
    blue = blue
    Tx = {t1, t2}
    Resource = {car, house}
    Value = {red}
    Absent = Absent
    Nobody = Nobody
    MaxWrites = 2
    MaxClients = 2
PROPERTIES
    Answered
    SerialAtomic
INVARIANTS
    HistorianComplete
    EventsRecorded
    ThrowLeavesNothing
CHECK_DEADLOCK FALSE
