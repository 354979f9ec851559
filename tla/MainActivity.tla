----------------------------- MODULE MainActivity -----------------------------
(***************************************************************************)
(* The client's MainActivity (cmd/nebula/main_activity.go): callers of    *)
(* processCommands, and the Run goroutine, which starts and stops the     *)
(* tunnel engine (nebula.Main, Control.Start, Control.Stop).  They share   *)
(* m.ctrl, the Control of the engine the activity runs, m.onboarded, and  *)
(* the unbuffered channel m.trigger.                                       *)
(*                                                                         *)
(* Two builds call processCommands differently.  On the desktop the Fyne  *)
(* GUI's event loop is the only caller: the onboarding form before the    *)
(* device is onboarded, the home screen's Connect/Disconnect button after.*)
(* On a router (screen/routerscreen.go) each POST to /signcert runs in an *)
(* HTTP handler goroutine of its own, and there is no button.             *)
(*                                                                         *)
(* An engine is an id; nebula.Main either builds a new engine, which Start *)
(* runs, or fails and returns nil.  An engine's host map is abstracted to *)
(* whether it holds an established tunnel; peers bring tunnels up and     *)
(* down at any time.  The channel m.trigger is the set of callers blocked *)
(* in a send on it: Run's receive completes one of them.                  *)
(***************************************************************************)
EXTENDS Naturals

CONSTANTS
    Build,      \* "desktop" or "router": the build tag the binary has
    Callers,    \* goroutines that call processCommands
    MaxMains,   \* bound: calls of nebula.Main
    MaxCmds     \* bound: commands the callers submit

ASSUME Build \in {"desktop", "router"}

Engines == 1 .. MaxMains
Nil == 0

VARIABLES
    ctrl,       \* m.ctrl: an engine or Nil
    eng,        \* each engine: "none" (not built), "running" or "stopped"
    up,         \* engines whose main host map holds a tunnel
    shown,      \* m.Status, the link status the home screen shows
    pc,         \* each caller: where it is in processCommands
    run,        \* the Run goroutine: "boot", "loop" or "main" (after <-trigger)
    onboarded,  \* m.onboarded
    mwOnb,      \* MainWindow.onboarded: the screen or handler on offer
    served,     \* RouterServer handlers registered on http.DefaultServeMux
    crashed,    \* a goroutine panicked and the process died
    mains, cmds

engVars == <<ctrl, eng, up, served, crashed, mains>>
uiVars == <<shown, pc, onboarded, mwOnb, cmds>>
vars == <<engVars, uiVars, run>>

Status == {"not_started", "disconnected", "in_progress", "connected"}

\* A caller idle, inside the onboarding steps, or blocked sending on
\* m.trigger ("onb_send" from OnboardClient, "send_true"/"send_false"
\* from Connect/Disconnect), or past OnboardClient's send ("onb_post").
Sends == {"onb_send", "send_true", "send_false"}
Pcs == {"idle", "sign", "onb_post"} \cup Sends

TypeOK ==
    /\ ctrl \in Engines \cup {Nil}
    /\ eng \in [Engines -> {"none", "running", "stopped"}]
    /\ up \subseteq Engines
    /\ shown \in Status
    /\ pc \in [Callers -> Pcs]
    /\ run \in {"boot", "loop", "main"}
    /\ onboarded \in BOOLEAN /\ mwOnb \in BOOLEAN
    /\ served \in BOOLEAN /\ crashed \in BOOLEAN
    /\ mains \in 0 .. MaxMains /\ cmds \in 0 .. MaxCmds

\* main() finds the configuration file or not; MainWindow and activity
\* start with the same onboarded flag.
Init ==
    /\ ctrl = Nil
    /\ eng = [e \in Engines |-> "none"]
    /\ up = {}
    /\ shown = "not_started"
    /\ pc = [c \in Callers |-> "idle"]
    /\ run = "boot"
    /\ onboarded \in BOOLEAN
    /\ mwOnb = onboarded
    /\ served = FALSE /\ crashed = FALSE
    /\ mains = 0 /\ cmds = 0

-----------------------------------------------------------------------------
(* The engine: nebula.Main and the Control. *)

\* listHostMap: a slice made with make, one entry per host of the main
\* map; never nil, so only its length tells.
Hosts(e) == IF e \in up THEN 1 ELSE 0

\* getLinkStatus: no Control is "not started"; otherwise the main and the
\* pending host maps are listed.  The "connection in progress" branch
\* (hosts == nil) is never taken: an engine without a tunnel is
\* "disconnected".
LinkStatus ==
    IF ctrl = Nil THEN "not_started"
    ELSE IF Hosts(ctrl) > 0 THEN "connected"
    ELSE "disconnected"

\* The router build's StartRouterServer, started by every nebula.Main:
\* http.HandleFunc panics when a pattern is registered twice, so a second
\* one kills the process.  The norouter build's does nothing.
StartRouterServer ==
    IF Build = "router" THEN served' = TRUE /\ crashed' = served
                        ELSE UNCHANGED <<served, crashed>>

\* nebula.Main: the engine built from the configuration, or nil when one
\* of its checks fails.
NebulaMain == {mains + 1, Nil}

\* Control.Start: the interface is activated and reads packets.
ControlStart(e) == eng' = [eng EXCEPT ![e] = "running"]

\* CloseAllTunnels: every ready tunnel of the main map is closed.
CloseAllTunnels(e) == up' = up \ {e}

\* Control.Stop: CloseAllTunnels(true), CloseAllTunnels(false), the
\* interface closed and the context cancelled.
ControlStop(e) ==
    /\ CloseAllTunnels(e)
    /\ eng' = [eng EXCEPT ![e] = "stopped"]

\* m.Main, and Run's Start of a non-nil result: nebula.Main creates the
\* RouterServer first, then m.ctrl takes its result whatever it was before.
DoMain ==
    /\ mains < MaxMains
    /\ mains' = mains + 1
    /\ StartRouterServer
    /\ \E e \in NebulaMain :
          /\ ctrl' = e
          /\ IF e # Nil THEN ControlStart(e) ELSE UNCHANGED eng

\* m.stop: the Control in m.ctrl is stopped, and m.ctrl keeps it.
StopCtrl ==
    IF ctrl = Nil THEN UNCHANGED <<eng, up>> ELSE ControlStop(ctrl)

-----------------------------------------------------------------------------
(* The Run goroutine. *)

\* Run, before its loop: an onboarded client whose configuration loaded
\* without error (status_err empty) connects.
Boot ==
    /\ run = "boot"
    /\ run' = "loop"
    /\ \/ onboarded /\ DoMain
       \/ UNCHANGED <<ctrl, eng, served, crashed, mains>>
    /\ UNCHANGED <<up, uiVars>>

\* case triggered := <-m.trigger: one blocked sender completes; a false
\* stops the engine at once, a true goes on to reload the configuration
\* and call Main.
RecvTrigger(c) ==
    /\ run = "loop"
    /\ pc[c] \in Sends
    /\ pc' = [pc EXCEPT ![c] = IF @ = "onb_send" THEN "onb_post" ELSE "idle"]
    /\ IF pc[c] = "send_false"
         THEN StopCtrl /\ UNCHANGED run
         ELSE run' = "main" /\ UNCHANGED <<eng, up>>
    /\ UNCHANGED <<ctrl, served, crashed, mains, shown, onboarded, mwOnb, cmds>>

RunMain ==
    /\ run = "main"
    /\ run' = "loop"
    /\ DoMain
    /\ UNCHANGED <<up, uiVars>>

\* case <-clockSource.C (5 s): m.Status is refreshed only while m.ctrl is
\* set; setStatus hands it to the home screen.
Tick ==
    /\ run = "loop"
    /\ shown' = IF ctrl # Nil THEN LinkStatus ELSE shown
    /\ UNCHANGED <<engVars, pc, onboarded, mwOnb, cmds, run>>

-----------------------------------------------------------------------------
(* The callers of processCommands. *)

\* HomeScreen.connect: the button asks to disconnect when the shown status
\* is connected and to connect otherwise.
ButtonCmd == IF shown = "connected" THEN "false" ELSE "true"

\* HomeScreen.Show, rebuilt from m.Status on every 5 s tick, hides the
\* connect button unless that status is connected or disconnected.
ButtonShown == shown \in {"connected", "disconnected"}

\* The desktop's home screen, shown once onboarded, with the connect button
\* only when the status it shows is connected or disconnected (Show hides
\* it otherwise): processCommands checks the live status, drops a
\* disconnect unless connected and a connect when connected, and blocks
\* sending the command on m.trigger.
Confirm(c) ==
    LET cmd == ButtonCmd
        status == LinkStatus
        refused == \/ cmd = "false" /\ status \in {"not_started", "disconnected", "in_progress"}
                   \/ cmd = "true" /\ status = "connected"
    IN
    /\ Build = "desktop"
    /\ mwOnb
    /\ ButtonShown
    /\ pc[c] = "idle"
    /\ cmds < MaxCmds
    /\ cmds' = cmds + 1
    /\ IF refused THEN UNCHANGED pc
                  ELSE pc' = [pc EXCEPT ![c] = IF cmd = "true" THEN "send_true"
                                                               ELSE "send_false"]
    /\ UNCHANGED <<engVars, shown, onboarded, mwOnb, run>>

\* signcert (router) or OnboardSubmit (desktop): refused once the window
\* is onboarded, otherwise processCommands(OnboardClient).
Signcert(c) ==
    /\ ~mwOnb
    /\ pc[c] = "idle"
    /\ cmds < MaxCmds
    /\ cmds' = cmds + 1
    /\ pc' = [pc EXCEPT ![c] = "sign"]
    /\ UNCHANGED <<engVars, shown, onboarded, mwOnb, run>>

\* Sign_nh_client_certs: the signing server's reply, a certificate or an
\* error (HTTP failure, unparsable or error reply).
SignClientCerts == BOOLEAN

\* generate_config: the rendered configuration written to its file, or a
\* directory or write error.
GenerateConfig == BOOLEAN

\* OnboardClient up to its send: a failure of either step returns the
\* error; otherwise status_err is cleared and true is sent on m.trigger.
Onboard(c) ==
    /\ pc[c] = "sign"
    /\ \E signed \in SignClientCerts, written \in GenerateConfig :
          pc' = [pc EXCEPT ![c] = IF signed /\ written THEN "onb_send" ELSE "idle"]
    /\ UNCHANGED <<engVars, shown, onboarded, mwOnb, cmds, run>>

\* After the send: m.onboarded = true and m.mw.Onboarded, which sets the
\* window's flag.
OnboardDone(c) ==
    /\ pc[c] = "onb_post"
    /\ pc' = [pc EXCEPT ![c] = "idle"]
    /\ onboarded' = TRUE
    /\ mwOnb' = TRUE
    /\ UNCHANGED <<engVars, shown, cmds, run>>

-----------------------------------------------------------------------------
(* The peers: a handshake completes or a tunnel is closed or times out. *)

TunnelUp(e) ==
    /\ eng[e] = "running" /\ e \notin up
    /\ up' = up \cup {e}
    /\ UNCHANGED <<ctrl, eng, served, crashed, mains, uiVars, run>>

TunnelDown(e) ==
    /\ e \in up
    /\ up' = up \ {e}
    /\ UNCHANGED <<ctrl, eng, served, crashed, mains, uiVars, run>>

-----------------------------------------------------------------------------

\* Nothing runs once the process has died.
Next ==
    /\ ~crashed
    /\ \/ Boot \/ RunMain \/ Tick
       \/ \E c \in Callers : \/ RecvTrigger(c) \/ Confirm(c)
                             \/ Signcert(c) \/ Onboard(c) \/ OnboardDone(c)
       \/ \E e \in Engines : TunnelUp(e) \/ TunnelDown(e)

Spec == Init /\ [][Next]_vars

-----------------------------------------------------------------------------
(* Properties. *)

\* Every running engine is the one m.ctrl holds, so a disconnect, a
\* stop or the window's close (ma.stop) reaches it.  Main overwrites
\* m.ctrl without stopping the engine there, and the GUI lets the user
\* connect whenever the engine has no tunnel yet.
EngineReachable ==
    ~crashed => \A e \in Engines : eng[e] = "running" => ctrl = e

\* The process stays up: no goroutine of it panics.  On a router,
\* signcert checks the window's onboarded flag, and OnboardClient sets it
\* only after a round trip to the signing server and Run's receive on
\* m.trigger; a second /signcert in between onboards again, Run calls
\* nebula.Main a second time, and its RouterServer registers the same
\* HTTP patterns on the default mux again.
ProcessAlive == ~crashed
=============================================================================
