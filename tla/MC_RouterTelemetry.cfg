\* Two devices; one registration, with room for two repeaters, so the
\* repeater file gets a blank entry that a restart reads back; a week of
\* one hour (ages 0, 1 and 2 fall below, at and past the week, the three
\* cases the code tells apart); two calls of the write-locked handlers and
\* one pauseAll, so a read-locked loop can interleave with a handler;
\* two ring slots and three events in one process lifetime, so the third
\* event reuses the slot of the first; one restart.  The
\* router keeps running: states where nothing is left to do are bound
\* exhaustion, not deadlock.
CONSTANTS
    m1 = m1
    m2 = m2
    g1 = g1
    g2 = g2
    NoMac = NoMac
    Blank = Blank
    Macs <- MCMacs
    Registrars <- MCRegistrars1
    MaxRepeaters = 2
    Week = 1
    MaxRegs = 1
    MaxRestarts = 1
    MaxPauses = 1
    MaxCalls = 2
    N = 2
    MaxEvents = 3
SPECIFICATION Spec
INVARIANT TypeOK
INVARIANT TelDeliveredOldestFirst
PROPERTY TelNoUnreadOverwritten
SYMMETRY Sym
CHECK_DEADLOCK FALSE
