\* The router build with two /signcert handlers, two calls of nebula.Main
\* and two requests: both may be inside OnboardClient at once.
CONSTANTS
    gui = gui
    r1 = r1
    r2 = r2
    Build = "router"
    Callers <- MCRouterCallers
    MaxMains = 2
    MaxCmds = 2
SPECIFICATION Spec
INVARIANT ProcessAlive
CHECK_DEADLOCK FALSE
