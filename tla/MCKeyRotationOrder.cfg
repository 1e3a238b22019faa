\* The owner rotates on a phone and then on a tablet; nothing overlaps, nothing fails.
SPECIFICATION Spec
CONSTANTS
    phone = phone
    guest = tablet
    t1 = t1
    t2 = t2
    NoDevice = NoDevice
    Devices <- MCDevices2
    OwnerDevices <- MCDevices2
    FirstMembers <- MCDevices2
    Tasks = {t1}
    MaxKeys = 3
    MaxJoins = 0
    MaxFaults = 0
INVARIANT CatchesUpInOrder
CHECK_DEADLOCK FALSE
