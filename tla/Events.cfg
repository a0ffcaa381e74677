\* Two goroutines record while two clients come, go and stall; the buffer wraps.
SPECIFICATION LogSpec
CONSTANTS
    Capacity = 3
    Zero = 0
    Values = {1, 2, 3, 4, 5}
    MaxEvents = 5
    Recorders = {r1, r2}
    Clients = {c1, c2}
    ChanSize = 1
INVARIANTS LimitedIsSuffix NoGap StreamedIsLogged
PROPERTY KeepsHistory
