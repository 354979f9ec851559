\* Two devices, no repeater registration and no pauseAll (whose race with
\* the dump breaks the property by another path), a week of two hours.
CONSTANTS
    m1 = m1
    m2 = m2
    g1 = g1
    g2 = g2
    NoMac = NoMac
    Blank = Blank
    Macs <- MCMacs
    Registrars <- MCRegistrars1
    MaxRepeaters = 1
    Week = 2
    MaxRegs = 0
    MaxRestarts = 1
    MaxPauses = 0
    MaxCalls = 3
    N = 2
    MaxEvents = 2
SPECIFICATION Spec
INVARIANT ClientSettingsDurable
SYMMETRY Sym
CHECK_DEADLOCK FALSE
