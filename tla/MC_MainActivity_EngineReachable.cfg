\* The desktop build, two calls of nebula.Main and two commands: enough
\* to onboard and connect, or to press the button once while the first
\* engine has no tunnel.
CONSTANTS
    gui = gui
    r1 = r1
    r2 = r2
    Build = "desktop"
    Callers <- MCDesktopCallers
    MaxMains = 2
    MaxCmds = 2
SPECIFICATION Spec
INVARIANT EngineReachable
CHECK_DEADLOCK FALSE
