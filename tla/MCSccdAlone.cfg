SPECIFICATION Spec
CONSTANTS
    Client = {c1}
    Direct = {}
    packet <- MCPacket
    Zero = Zero
    Junk <- MCJunk
    MaxFaults = 0
    MaxStarts = 1
CHECK_DEADLOCK FALSE
INVARIANT ClientsAlone
