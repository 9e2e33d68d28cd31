---------------------------- MODULE ResidentServer ----------------------------
(***************************************************************************)
(* The resident llama-server, and a request to the language model, which   *)
(* goes to it or to a process of its own.                                  *)
(*                                                                         *)
(*   pipeline/local_llm.rs           start_resident_server, the provider    *)
(*   local_engine/llm_server.rs      LlamaServer, the pidfile               *)
(*   local_engine/llm.rs             the handle a request uses              *)
(*   commands/local_engine.rs        set_keep_resident                      *)
(*                                                                         *)
(* AppState.llm_server is locked only to look at it, to take it and to set *)
(* it; a start takes up to three minutes between.  The permit under which  *)
(* requests run is in ResourceQueue.  The pidfile can be written, always.  *)
(***************************************************************************)
EXTENDS Naturals, FiniteSets

CONSTANTS
    Presets,
    Starters,     \* start_resident_server in progress: the command, the warm-up
    MaxServers,   \* bound: processes spawned
    NoServer, NoPreset

ASSUME ServerAssumption ==
    /\ Presets # {} /\ MaxServers \in Nat \ {0}
    /\ NoServer \notin 1..MaxServers /\ NoPreset \notin Presets

VARIABLES
    activePreset, keepResident,   \* settings
    slot,         \* AppState.llm_server
    servers,      \* processes: preset and state
    spawnedCount,
    pidfile,
    starts,       \* starters: where, for which preset, with which server
    stopping,     \* set_keep_resident(false) between its write and its stop
    request,      \* a request: where, preset read, server it will use
    leftBehind,   \* history: servers alive when the application went
    startsOverlapped,   \* history: two starts ran together
    overtaken     \* history: a stop ran while a start did

serverVars == <<activePreset, keepResident, slot, servers, spawnedCount, pidfile, starts, stopping,
                leftBehind, startsOverlapped, overtaken>>
residentVars == <<serverVars, request>>

ServerIds == 1..MaxServers
IdleStart == [at |-> "idle", preset |-> NoPreset, server |-> NoServer]
IdleRequest == [at |-> "idle", preset |-> NoPreset, server |-> NoServer]

ServerInit ==
    /\ activePreset \in Presets /\ keepResident = FALSE
    /\ slot = NoServer
    /\ servers = [i \in ServerIds |-> [preset |-> NoPreset, state |-> "none"]]
    /\ spawnedCount = 0 /\ pidfile = NoServer
    /\ starts = [s \in Starters |-> IdleStart]
    /\ stopping = FALSE
    /\ request = IdleRequest
    /\ leftBehind = {} /\ startsOverlapped = FALSE /\ overtaken = FALSE

ServerAlive(i) == servers[i].state \in {"loading", "up"}
Killed(S) == [i \in ServerIds |-> IF i \in S THEN [servers[i] EXCEPT !.state = "dead"]
                                             ELSE servers[i]]
AtStep(s, place) == starts[s].at = place
GoTo(s, place) ==
    starts' = [starts EXCEPT ![s] = IF place = "idle" THEN IdleStart ELSE [@ EXCEPT !.at = place]]
Starting == \E s \in Starters : starts[s].at # "idle"

SetPreset ==
    /\ activePreset' \in Presets \ {activePreset}
    /\ UNCHANGED <<keepResident, slot, servers, spawnedCount, pidfile, starts, stopping,
                   leftBehind, startsOverlapped, overtaken, request>>

\* set_keep_resident(true), and the warm-up where the setting is on.
BeginStart(s) ==
    /\ AtStep(s, "idle")
    /\ keepResident' = TRUE
    /\ starts' = [starts EXCEPT ![s] = [at |-> "check", preset |-> activePreset,
                                        server |-> NoServer]]
    /\ startsOverlapped' = (startsOverlapped \/ Starting)
    /\ UNCHANGED <<activePreset, slot, servers, spawnedCount, pidfile, stopping, leftBehind,
                   overtaken, request>>

\* A server for this preset in the slot is taken to be up.
CheckSlot(s) ==
    /\ AtStep(s, "check")
    /\ GoTo(s, IF slot # NoServer /\ servers[slot].preset = starts[s].preset
               THEN "idle" ELSE "stop")
    /\ UNCHANGED <<activePreset, keepResident, slot, servers, spawnedCount, pidfile, stopping,
                   leftBehind, startsOverlapped, overtaken, request>>

\* Mutant: the old server stays when another preset's is started.
StopOldKeeps(s) ==
    /\ AtStep(s, "stop") /\ GoTo(s, "kill")
    /\ slot' = NoServer
    /\ UNCHANGED <<activePreset, keepResident, servers, spawnedCount, pidfile, stopping,
                   leftBehind, startsOverlapped, overtaken, request>>

StopOld(s) ==
    /\ AtStep(s, "stop") /\ GoTo(s, "kill")
    /\ slot' = NoServer
    /\ servers' = Killed({slot})
    /\ UNCHANGED <<activePreset, keepResident, spawnedCount, pidfile, stopping, leftBehind,
                   startsOverlapped, overtaken, request>>

\* kill_stale_server: meant for the last session's, it kills whom the file names.
KillStale(s) ==
    /\ AtStep(s, "kill") /\ GoTo(s, "spawn")
    /\ servers' = Killed({pidfile})
    /\ pidfile' = NoServer
    /\ UNCHANGED <<activePreset, keepResident, slot, spawnedCount, stopping, leftBehind,
                   startsOverlapped, overtaken, request>>

SpawnServer(s) ==
    /\ AtStep(s, "spawn") /\ spawnedCount < MaxServers
    /\ LET i == spawnedCount + 1 IN
        /\ spawnedCount' = i
        /\ servers' = [servers EXCEPT ![i] = [preset |-> starts[s].preset, state |-> "loading"]]
        /\ starts' = [starts EXCEPT ![s].at = "health", ![s].server = i]
        /\ pidfile' = i
    /\ UNCHANGED <<activePreset, keepResident, slot, stopping, leftBehind, startsOverlapped,
                   overtaken, request>>

\* No model file (before the kill), no port or no process.
StartErrs(s) ==
    /\ starts[s].at \in {"kill", "spawn"} /\ GoTo(s, "idle")
    /\ UNCHANGED <<activePreset, keepResident, slot, servers, spawnedCount, pidfile, stopping,
                   leftBehind, startsOverlapped, overtaken, request>>

\* /health says ok and /props accepts our key.
HealthOk(s) ==
    /\ AtStep(s, "health") /\ servers[starts[s].server].state = "up"
    /\ GoTo(s, "store")
    /\ UNCHANGED <<activePreset, keepResident, slot, servers, spawnedCount, pidfile, stopping,
                   leftBehind, startsOverlapped, overtaken, request>>

\* Not healthy in time, or the key is not ours.
HealthFails(s) ==
    /\ AtStep(s, "health")
    /\ servers' = Killed({starts[s].server})
    /\ GoTo(s, "idle")
    /\ UNCHANGED <<activePreset, keepResident, slot, spawnedCount, pidfile, stopping, leftBehind,
                   startsOverlapped, overtaken, request>>

\* The slot is not looked at: what was in it is dropped, which kills it.
StoreServer(s) ==
    /\ AtStep(s, "store")
    /\ slot' = starts[s].server
    /\ servers' = Killed({slot})
    /\ GoTo(s, "idle")
    /\ UNCHANGED <<activePreset, keepResident, spawnedCount, pidfile, stopping, leftBehind,
                   startsOverlapped, overtaken, request>>

TurnOff ==
    /\ ~stopping /\ stopping' = TRUE
    /\ keepResident' = FALSE
    /\ UNCHANGED <<activePreset, slot, servers, spawnedCount, pidfile, starts, leftBehind,
                   startsOverlapped, overtaken, request>>

\* stop_resident_server; a start in progress is not told.
StopResident ==
    /\ stopping /\ stopping' = FALSE
    /\ slot' = NoServer /\ servers' = Killed({slot})
    /\ overtaken' = (overtaken \/ Starting)
    /\ UNCHANGED <<activePreset, keepResident, spawnedCount, pidfile, starts, leftBehind,
                   startsOverlapped, request>>

\* The process loads its model; it may die, which is only logged.
ServerRuns(i) ==
    /\ \/ servers[i].state = "loading" /\ servers' = [servers EXCEPT ![i].state = "up"]
       \/ ServerAlive(i) /\ servers' = Killed({i})
    /\ UNCHANGED <<activePreset, keepResident, slot, spawnedCount, pidfile, starts, stopping,
                   leftBehind, startsOverlapped, overtaken, request>>

\* Exit stops the server of the slot; one that is being started outlives the
\* application.  Temporary files of a run in progress stay.
ExitAndRestart ==
    /\ servers' = Killed({slot})
    /\ leftBehind' = {i \in ServerIds : ServerAlive(i) /\ i # slot}
    /\ slot' = NoServer
    /\ starts' = [s \in Starters |-> IdleStart] /\ stopping' = FALSE
    /\ request' = IdleRequest
    /\ overtaken' = FALSE
    /\ UNCHANGED <<activePreset, keepResident, spawnedCount, pidfile, startsOverlapped>>

\* build_local_llm_provider: the preset first, the slot later.
ReadPreset ==
    /\ request.at = "idle"
    /\ request' = [at |-> "preset", preset |-> activePreset, server |-> NoServer]
    /\ UNCHANGED serverVars

ServerFor(p) == IF slot # NoServer /\ servers[slot].preset = p THEN slot ELSE NoServer

BuildProvider ==
    /\ request.at = "preset"
    /\ request' = [request EXCEPT !.at = "built", !.server = ServerFor(request.preset)]
    /\ UNCHANGED serverVars

\* The handle is used once, on a server that may be gone by then; without a
\* handle the request has a process of its own.
AskServer ==
    /\ request.at = "built"
    /\ request' = IdleRequest
    /\ UNCHANGED serverVars

ServerNext ==
    \/ SetPreset \/ TurnOff \/ StopResident \/ ExitAndRestart
    \/ \E s \in Starters :
        \/ BeginStart(s) \/ CheckSlot(s) \/ StopOld(s) \/ KillStale(s) \/ SpawnServer(s)
        \/ StartErrs(s) \/ HealthOk(s) \/ HealthFails(s) \/ StoreServer(s)
    \/ \E i \in ServerIds : ServerRuns(i)
    \/ ReadPreset \/ BuildProvider \/ AskServer

ServerSpec == ServerInit /\ [][ServerNext]_residentVars
-----------------------------------------------------------------------------
(* Properties *)

\* A live server is in the slot, or in the hands of the start that waits for
\* it: overlapping starts, a change of preset and a stop in the middle of a
\* start leak none, until the application exits.
ServersOwned ==
    \A i \in ServerIds : ServerAlive(i) =>
        \/ i = slot \/ i \in leftBehind
        \/ \E s \in Starters : starts[s].server = i

\* While starts do not overlap, the pidfile names every live server, one that
\* outlived its application included: the next start ends it.
PidfileFinds == ~startsOverlapped => \A i \in ServerIds : ServerAlive(i) => pidfile = i

\* Once the setting is off and nothing is in progress there is no server,
\* unless the stop came in the middle of a start.
OffMeansOff == ~keepResident /\ ~stopping /\ ~Starting /\ ~overtaken => slot = NoServer

\* The server that answers has the model of the preset the request was made
\* for, whatever is switched between the two reads.
RightModel ==
    request.at = "built" /\ request.server # NoServer =>
        servers[request.server].preset = request.preset

\* Every server that runs can be found and ended by somebody.
ServersAccounted == ServersOwned /\ PidfileFinds

\* What runs is what the user chose last, for a request as for the setting.
ServerAsChosen == OffMeansOff /\ RightModel

\* Both.
ServersRight == ServersAccounted /\ ServerAsChosen
=============================================================================
