\* The owner on one device, a member who comes and goes, any call may fail.
SPECIFICATION Spec
CONSTANTS
    phone = phone
    guest = guest
    t1 = t1
    t2 = t2
    NoDevice = NoDevice
    Devices <- MCDevices2
    OwnerDevices <- MCOwner1
    FirstMembers <- MCDevices2
    Tasks <- MCTasks
    MaxKeys = 3
    MaxJoins = 1
    MaxFaults = 1
SYMMETRY MCSymmetry
CONSTRAINT MCOneUpset
INVARIANTS
    NewKeyStaysInside
    NoKeyLost
CHECK_DEADLOCK FALSE
