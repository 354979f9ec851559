--------------------------- MODULE MC_MainActivity ---------------------------
(***************************************************************************)
(* The desktop build, where the GUI's event loop is the one caller of      *)
(* processCommands, and the router build, where two /signcert requests    *)
(* are served at once.  The device may or may not be onboarded at start.  *)
(***************************************************************************)
EXTENDS MainActivity

CONSTANTS gui, r1, r2

MCDesktopCallers == {gui}
MCRouterCallers == {r1, r2}
=============================================================================
