SPECIFICATION FairSpec
CONSTANTS
    Client = {c1, c2}
    Direct = {c2}
    packet <- MCPacket
    Zero = Zero
    Junk <- MCJunk
    MaxFaults = 1
    MaxStarts = 2
CHECK_DEADLOCK FALSE
INVARIANTS Obeyed HaltSoon
PROPERTIES SwitchHalts Shown
