\* Two devices; one registration, with room for two repeaters, so the
\* repeater file gets a blank entry that a restart reads back; a week of
\* two hours (ages 0, 1, 2 and 3 are the four cases the code tells apart);
\* two ring slots and three events in one process lifetime, so the third
\* event reuses the slot of the first; one restart.  The
\* router keeps running: states where nothing is left to do are bound
\* exhaustion, not deadlock.
CONSTANTS
    m1 = m1
    m2 = m2
    g1 = g1
    g2 = g2
    NoMac = NoMac
    Blank = Blank
    Macs <- MCMacs
    Registrars <- MCRegistrars1
    MaxRepeaters = 2
    Week = 1
    MaxRegs = 1
    MaxRestarts = 0
    MaxPauses = 1
    N = 2
    MaxEvents = 3
SPECIFICATION Spec
INVARIANT TypeOK
INVARIANT TelDeliveredOldestFirst
PROPERTY TelNoUnreadOverwritten
SYMMETRY Sym
CHECK_DEADLOCK FALSE
