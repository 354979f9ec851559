--------------------------- MODULE RouterTelemetry ---------------------------
(***************************************************************************)
(* The router's client registry (router/router_telemetry.go), as the       *)
(* HTTP handlers of router/router_server.go drive it.                      *)
(*                                                                         *)
(* Telemetry.RouterClients maps a MAC address to a *RouterClient; a        *)
(* repeater's second MAC is an alias key for the same object.  Every      *)
(* client is saved as a file of its own (dumpClientStats), and the        *)
(* repeaters as one file of MAX_NUM_OF_REPEATERS entries.  A restart      *)
(* (NewTelemetry) rebuilds the maps from those files.  The handlers that  *)
(* hold the write lock (tel.Lock) throughout are one step each.            *)
(* dumpRouterClients and pauseAll hold only the read lock: they exclude   *)
(* the writers but run alongside each other, so their loops are split     *)
(* into per-client steps.  registerRepeater takes no lock and is split    *)
(* into its steps.                                                        *)
(*                                                                         *)
(* The code compares the age of a client, now - Lastseen, with a week    *)
(* only (<, >= and >), so a client and its file keep that age in hours,   *)
(* capped at Old, one more than a Week; a Lastseen of 0 (a client that    *)
(* createClient made and nobody has seen) is Old.  Name and Type are left *)
(* out: paused stands for what the user sets and dumpClientStats saves.   *)
(***************************************************************************)
EXTENDS Naturals, FiniteSets, Functions, SequencesExt, TLC

CONSTANTS
    Macs,          \* MAC addresses of LAN devices
    NoMac,         \* the empty MMac of a repeater message
    Blank,         \* the Mac "" of an unused entry of the repeater file
    Registrars,    \* registerRepeater handlers that may run at once
    MaxRepeaters,  \* MAX_NUM_OF_REPEATERS
    Week,          \* 24 * 7 * 3600 s, in hours
    MaxRegs,       \* bound: registerRepeater calls
    MaxRestarts,   \* bound: restarts of the process
    MaxPauses,     \* bound: pauseAll calls
    MaxCalls,      \* bound: calls of the locked handlers from router agents
    N, MaxEvents   \* the event ring: MAX_NUMBER_OF_EVENTS, events per run

ASSUME Week \in Nat \ {0}

VARIABLES
    rc,        \* RouterClients: MAC -> MACAddress of the client object
    cl,        \* the client objects, by MACAddress
    files,     \* DB_CLIENTS_LOCATION: MAC -> saved client
    reps,      \* the keys of Telemetry.Repeaters
    repFile,   \* the keys read back from DB_REPEATERS_FILE; {} if none
    due,       \* an hour has passed since clientsdumped
    reg,       \* the registerRepeater handlers
    regs, restarts,
    dmp,       \* dumpRouterClients loops in progress, by caller
    pa,        \* the pauseAll loop in progress
    pauses,    \* pauseAll calls so far (bounded by MaxPauses)
    calls,     \* locked handler calls so far (bounded by MaxCalls)
    slot, head, active, nextId, rd, delivered   \* Telemetry.EventRing

ringVars == <<slot, head, active, nextId, rd, delivered>>
telVars == <<rc, cl, files, reps, repFile, due, reg, regs, restarts>>
lockVars == <<dmp, pa>>
budgetVars == <<pauses, calls>>
vars == <<telVars, ringVars, lockVars, budgetVars>>

Ring == INSTANCE EventRing WITH Variant <- "telemetry"

Put(m, k, x) == (k :> x) @@ m
Del(m, k) == Restrict(m, DOMAIN m \ {k})

Old == Week + 1
Ages == 0 .. Old
Client == [paused : BOOLEAN, dirty : BOOLEAN, age : Ages]
Saved == [paused : BOOLEAN, age : Ages]
RegPcs == {"idle", "write", "save", "client", "dump", "dumping"}
\* A handler that is not running keeps nothing of its request.
Idle == [pc |-> "idle", mac |-> NoMac, mmac |-> NoMac]
RegSet(g, pc) == reg' = [reg EXCEPT ![g].pc = pc]
RegDone(g) == reg' = [reg EXCEPT ![g] = Idle]

\* Callers of dumpRouterClients: Telemetry.Run and each registerRepeater.
Dumpers == {"run"} \cup Registrars
NoSnap == [paused |-> FALSE, age |-> 0]
DumpIdle == [pc |-> "idle", todo |-> {}, c |-> NoMac, snap |-> NoSnap]
PauseIdle == [pc |-> "idle", todo |-> {}, p |-> FALSE]

\* sync.RWMutex: a tel.Lock holder waits for every read-lock holder.
Unlocked == (\A w \in Dumpers : dmp[w].pc = "idle") /\ pa.pc = "idle"

IsMap(m, K, V) == DOMAIN m \subseteq K /\ \A k \in DOMAIN m : m[k] \in V

TypeOK ==
    /\ IsMap(rc, Macs, Macs) /\ IsMap(cl, Macs, Client)
    /\ IsMap(files, Macs, Saved)
    /\ reps \subseteq Macs \cup {Blank} /\ repFile \subseteq Macs \cup {Blank}
    /\ due \in BOOLEAN
    /\ reg \in [Registrars -> [pc : RegPcs, mac : Macs \cup {NoMac},
                                  mmac : Macs \cup {NoMac}]]
    /\ dmp \in [Dumpers -> [pc : {"idle", "next", "write"}, todo : SUBSET Macs,
                             c : Macs \cup {NoMac}, snap : Saved]]
    /\ pa \in [pc : {"idle", "loop"}, todo : SUBSET Macs, p : BOOLEAN]
    /\ pauses \in 0 .. MaxPauses
    /\ Ring!TypeOK

Init ==
    /\ rc = << >> /\ cl = << >> /\ files = << >>
    /\ reps = {} /\ repFile = {}
    /\ due = TRUE
    /\ reg = [g \in Registrars |-> Idle]
    /\ regs = 0 /\ restarts = 0
    /\ dmp = [w \in Dumpers |-> DumpIdle]
    /\ pa = PauseIdle
    /\ pauses = 0 /\ calls = 0
    /\ Ring!Init

-----------------------------------------------------------------------------
(* Saving clients. *)

\* What json.Marshal(*client) keeps that the model tells apart.
StatsOf(r) == [paused |-> r.paused, age |-> r.age]

\* dumpClientStats: write the file of a client seen within the week,
\* remove it otherwise.
SaveStats(f, c, r) ==
    IF r.age < Week THEN Put(f, c, StatsOf(r)) ELSE Del(f, c)

\* ... which fails when the file to remove is not there.
StatsFail(f, c, r) == r.age >= Week /\ c \notin DOMAIN f

(* dumpRouterClients for caller w, under the read lock: the range over  *)
(* RouterClients visits the keys in any order; a client under its own MAC *)
(* that is dirty or unseen for more than a week is marshalled, its file   *)
(* written or removed, and Dirty cleared whatever the error.              *)
DumpStart(w) == dmp' = [dmp EXCEPT ![w] = [DumpIdle EXCEPT !.pc = "next",
                                                           !.todo = DOMAIN rc]]

DumpMarshal(w) ==
    /\ dmp[w].pc = "next"
    /\ \E k \in dmp[w].todo :
          dmp' = [dmp EXCEPT ![w] =
                    IF rc[k] = k /\ (cl[k].dirty \/ cl[k].age > Week)
                      THEN [pc |-> "write", todo |-> @.todo \ {k}, c |-> k,
                            snap |-> StatsOf(cl[k])]
                      ELSE [@ EXCEPT !.todo = @ \ {k}]]
    /\ UNCHANGED <<rc, cl, files, reps, repFile, due, reg, regs, restarts, pa, pauses, calls>>
    /\ UNCHANGED ringVars

\* The bytes marshalled before are written; an alias registered meanwhile
\* may have dropped the object from the map, which the write outlives.
DumpWrite(w) ==
    LET c == dmp[w].c IN
    /\ dmp[w].pc = "write"
    /\ files' = SaveStats(files, c, dmp[w].snap)
    /\ cl' = IF c \in DOMAIN cl THEN [cl EXCEPT ![c].dirty = FALSE] ELSE cl
    /\ dmp' = [dmp EXCEPT ![w] = [DumpIdle EXCEPT !.pc = "next",
                                                   !.todo = dmp[w].todo]]
    /\ UNCHANGED <<rc, reps, repFile, due, reg, regs, restarts, pa, pauses, calls>>
    /\ UNCHANGED ringVars

NewClient == [paused |-> FALSE, dirty |-> TRUE, age |-> Old]

-----------------------------------------------------------------------------
(* Telemetry.Run: the 30 s ticker dumps the clients once an hour has     *)
(* passed since clientsdumped; Tick is the hour passing, which the model  *)
(* lets happen only after that dump: the ticker is 30 s, not an hour.     *)
(* Hours pass between handler runs: dumpRouterClients judges every client *)
(* by the curtime it read at its start, and a pauseAll loop or a           *)
(* registration finishes within the hour it started in.                   *)

Older(r) == [r EXCEPT !.age = IF @ = Old THEN Old ELSE @ + 1]

Tick ==
    /\ ~due
    /\ Unlocked /\ \A g \in Registrars : reg[g].pc = "idle"
    /\ cl' = [c \in DOMAIN cl |-> Older(cl[c])]
    /\ files' = [c \in DOMAIN files |-> Older(files[c])]
    /\ due' = TRUE
    /\ UNCHANGED <<rc, reps, repFile, reg, regs, restarts>>
    /\ UNCHANGED <<ringVars, lockVars, budgetVars>>

\* The ticker finds an hour passed and calls dumpRouterClients.
RunDump ==
    /\ due
    /\ dmp["run"].pc = "idle"
    /\ DumpStart("run")
    /\ UNCHANGED <<rc, cl, files, reps, repFile, due, reg, regs, restarts, pa, pauses, calls>>
    /\ UNCHANGED ringVars

\* dumpRouterClients returns to Run, which sets clientsdumped; or to
\* registerRepeater, which returns.
DumpEnd(w) ==
    /\ dmp[w].pc = "next"
    /\ dmp[w].todo = {}
    /\ dmp' = [dmp EXCEPT ![w] = DumpIdle]
    /\ IF w = "run" THEN due' = FALSE /\ UNCHANGED reg
                     ELSE RegDone(w) /\ UNCHANGED due
    /\ UNCHANGED <<rc, cl, files, reps, repFile, regs, restarts, pa, pauses, calls>>
    /\ UNCHANGED ringVars

-----------------------------------------------------------------------------
(* Handlers that hold the Telemetry lock. *)

\* processTelemetry for one device: a BLOCKEDIPEVENT for a known client
\* that talked to a blocklisted IP; createClient, which rejects a
\* multicast MAC or an invalid IP and otherwise adds the client with a
\* NEWCLIENTEVENT; then Lastseen of a known client is refreshed.
ProcessTelemetry(d, valid, blocked) ==
    LET known == d \in DOMAIN rc
        create == ~known /\ valid
        cl1 == IF create THEN Put(cl, d, NewClient) ELSE cl
    IN
    /\ Unlocked
    /\ calls < MaxCalls /\ calls' = calls + 1
    /\ IF (blocked /\ known) \/ create THEN Ring!NewEventTel
                                         ELSE UNCHANGED ringVars
    /\ rc' = IF create THEN Put(rc, d, d) ELSE rc
    /\ cl' = IF known \/ create THEN [cl1 EXCEPT ![rc'[d]].age = 0] ELSE cl
    /\ UNCHANGED <<files, reps, repFile, due, reg, regs, restarts, lockVars, pauses>>

\* processWirelessTelemetry -> updateWireless for one station.
UpdateWireless(d) ==
    /\ Unlocked
    /\ calls < MaxCalls /\ calls' = calls + 1
    /\ d \in DOMAIN rc
    /\ cl' = [cl EXCEPT ![rc[d]].dirty = TRUE, ![rc[d]].age = 0]
    /\ UNCHANGED <<rc, files, reps, repFile, due, reg, regs, restarts>>
    /\ UNCHANGED <<ringVars, lockVars, pauses>>

\* pauseClient and setClientDetails: change the client, then save it; an
\* error of dumpClientStats ends the handler before the platform call.
ChangeClient(d, r) ==
    /\ Unlocked
    /\ calls < MaxCalls /\ calls' = calls + 1
    /\ d \in DOMAIN rc
    /\ cl' = [cl EXCEPT ![rc[d]] = r]
    /\ files' = SaveStats(files, rc[d], r)
    /\ UNCHANGED <<rc, reps, repFile, due, reg, regs, restarts>>
    /\ UNCHANGED <<ringVars, lockVars, pauses>>
PauseClient(d, p) == ChangeClient(d, [cl[rc[d]] EXCEPT !.paused = p])
SetClientDetails(d) == ChangeClient(d, cl[rc[d]])

(* pauseAll, under the read lock: every key of RouterClients in any     *)
(* order (an alias visits its client again) sets Paused and saves the    *)
(* client; the first error returns before the platform pauseAll.         *)
PauseStart(p) ==
    /\ pa.pc = "idle"
    /\ pauses < MaxPauses
    /\ pauses' = pauses + 1
    /\ pa' = [pc |-> "loop", todo |-> DOMAIN rc, p |-> p]
    /\ UNCHANGED <<telVars, ringVars, dmp, calls>>

PauseStep ==
    /\ pa.pc = "loop"
    /\ \E k \in pa.todo :
          LET c == rc[k]
              r == [cl[c] EXCEPT !.paused = pa.p]
          IN /\ cl' = [cl EXCEPT ![c] = r]
             /\ IF StatsFail(files, c, r)
                  THEN pa' = PauseIdle /\ UNCHANGED files
                  ELSE /\ files' = SaveStats(files, c, r)
                       /\ pa' = [pa EXCEPT !.todo = @ \ {k}]
    /\ UNCHANGED <<rc, reps, repFile, due, reg, regs, restarts, dmp, pauses, calls>>
    /\ UNCHANGED ringVars

PauseEnd ==
    /\ pa.pc = "loop"
    /\ pa.todo = {}
    /\ pa' = PauseIdle
    /\ UNCHANGED <<telVars, ringVars, dmp, pauses, calls>>

-----------------------------------------------------------------------------
(* registerRepeater, without the lock: the capacity check, the insert,    *)
(* RepeatersJson and the file, createClient, dumpRouterClients.           *)

\* The JSON is decoded and len(tel.Repeaters) checked against the maximum.
RegCheck(g) ==
    /\ reg[g].pc = "idle"
    /\ regs < MaxRegs
    /\ regs' = regs + 1
    /\ \E mac \in Macs, mmac \in Macs \cup {NoMac} :
          /\ mmac # mac
          /\ reg' = [reg EXCEPT ![g] =
                       IF Cardinality(reps) >= MaxRepeaters THEN Idle
                       ELSE [pc |-> "write", mac |-> mac, mmac |-> mmac]]
    /\ UNCHANGED <<rc, cl, files, reps, repFile, due, restarts>>
    /\ UNCHANGED <<ringVars, lockVars, budgetVars>>

\* tel.Repeaters[repeater.Mac] = repeater
RegWrite(g) ==
    /\ reg[g].pc = "write"
    /\ reps' = reps \cup {reg[g].mac}
    /\ RegSet(g, "save")
    /\ UNCHANGED <<rc, cl, files, repFile, due, regs, restarts>>
    /\ UNCHANGED <<ringVars, lockVars, budgetVars>>

\* RepeatersJson copies the map into a slice of MAX_NUM_OF_REPEATERS
\* entries; a map larger than that indexes past the slice and the handler
\* panics (its check is i > MAX).  The unused entries have Mac "".
RegSave(g) ==
    /\ reg[g].pc = "save"
    /\ IF Cardinality(reps) > MaxRepeaters
         THEN RegDone(g) /\ UNCHANGED repFile
         ELSE /\ repFile' = reps \cup (IF Cardinality(reps) < MaxRepeaters
                                       THEN {Blank} ELSE {})
              /\ RegSet(g, "client")
    /\ UNCHANGED <<rc, cl, files, reps, due, regs, restarts>>
    /\ UNCHANGED <<ringVars, lockVars, budgetVars>>

\* createClient(mac, ip, true, mmac): a new client gets no Lastseen; the
\* MMac becomes an alias key for the client object.
RegClient(g) ==
    LET mac == reg[g].mac
        mmac == reg[g].mmac
        known == mac \in DOMAIN rc
    IN
    /\ reg[g].pc = "client"
    /\ \E valid \in BOOLEAN :
          IF ~known /\ ~valid
            THEN RegDone(g) /\ UNCHANGED <<rc, cl, ringVars>>
            ELSE LET rc1 == IF known THEN rc ELSE Put(rc, mac, mac)
                     rc2 == IF mmac = NoMac THEN rc1 ELSE Put(rc1, mmac, rc1[mac])
                 IN /\ rc' = rc2
                    /\ cl' = Restrict(IF known THEN cl ELSE Put(cl, mac, NewClient),
                                      Range(rc2))
                    /\ IF known THEN UNCHANGED ringVars ELSE Ring!NewEventTel
                    /\ RegSet(g, "dump")
    /\ UNCHANGED <<files, reps, repFile, due, regs, restarts, lockVars, budgetVars>>

\* The handler calls dumpRouterClients; DumpEnd returns from it.
RegDump(g) ==
    /\ reg[g].pc = "dump"
    /\ dmp[g].pc = "idle"
    /\ DumpStart(g)
    /\ RegSet(g, "dumping")
    /\ UNCHANGED <<rc, cl, files, reps, repFile, due, regs, restarts, pa, pauses, calls>>
    /\ UNCHANGED ringVars

-----------------------------------------------------------------------------
(* The event consumer (MainActivity.handleEvents) and restarts. *)

GetNextEvent ==
    /\ Unlocked
    /\ Ring!GetNextEventTel
    /\ UNCHANGED <<telVars, lockVars, budgetVars>>

HandleEvent ==
    /\ Ring!HandleEventTel
    /\ UNCHANGED <<telVars, lockVars, budgetVars>>

\* readClientDetails with NewTelemetry's callback: every file becomes a
\* client under its own MAC, not dirty.
ReadClientDetails ==
    /\ rc' = [c \in DOMAIN files |-> c]
    /\ cl' = [c \in DOMAIN files |-> files[c] @@ [dirty |-> FALSE]]

\* readRepeaterInfo: every entry of the file, the blank ones included, is a
\* key of Repeaters; no file leaves the map empty.
ReadRepeaterInfo == reps' = repFile

\* The process starts again (NewTelemetry): the clients and repeaters are
\* read back, the ring is new, clientsdumped is 0 and every handler is gone.
Restart ==
    /\ restarts < MaxRestarts
    /\ restarts' = restarts + 1
    /\ ReadClientDetails
    /\ ReadRepeaterInfo
    /\ due' = TRUE
    /\ reg' = [g \in Registrars |-> Idle]
    /\ dmp' = [w \in Dumpers |-> DumpIdle] /\ pa' = PauseIdle
    /\ slot' = [s \in Ring!Slots |-> Ring!Nil] /\ head' = 0
    /\ active' = {} /\ nextId' = 1 /\ rd' = Ring!Nil /\ delivered' = << >>
    /\ UNCHANGED <<files, repFile, regs, pauses, calls>>

-----------------------------------------------------------------------------

Next ==
    \/ Tick
    \/ RunDump
    \/ \E d \in Macs, valid, blocked \in BOOLEAN : ProcessTelemetry(d, valid, blocked)
    \/ \E d \in Macs : UpdateWireless(d) \/ SetClientDetails(d)
    \/ \E d \in Macs, p \in BOOLEAN : PauseClient(d, p)
    \/ \E p \in BOOLEAN : PauseStart(p)
    \/ PauseStep \/ PauseEnd
    \/ \E w \in Dumpers : DumpMarshal(w) \/ DumpWrite(w) \/ DumpEnd(w)
    \/ \E g \in Registrars :
          RegCheck(g) \/ RegWrite(g) \/ RegSave(g) \/ RegClient(g) \/ RegDump(g)
    \/ GetNextEvent
    \/ HandleEvent
    \/ Restart

Spec == Init /\ [][Next]_vars

-----------------------------------------------------------------------------
(* Properties. *)

\* The pause setting of a clean client is the one on disk: pauseClient
\* and pauseAll save the client they change, and a dump marks a client
\* clean only after saving it.  The dump and pauseAll both hold only the
\* read lock, so the dump can write the bytes it marshalled before pauseAll
\* changed Paused and saved, and then clear Dirty: TLC finds this violated.
SavedPauseMatches ==
    \A c \in DOMAIN rc \cap DOMAIN files :
        rc[c] = c /\ ~cl[c].dirty => files[c].paused = cl[c].paused

\* A client the router has seen within the week and does not mark dirty
\* is saved with the pause setting it has in memory, so that a
\* restart keeps them.  processTelemetry refreshes Lastseen without
\* marking the client dirty, so a client whose file was removed while it
\* looked stale is not saved again.
ClientSettingsDurable ==
    \A c \in DOMAIN rc :
        rc[c] = c /\ ~cl[c].dirty /\ cl[c].age < Week
            => /\ c \in DOMAIN files
               /\ files[c].paused = cl[c].paused
=============================================================================
