---------------------------- MODULE DebugFrames ----------------------------
(***************************************************************************)
(* Where the frames of the debug window come from                          *)
(* (src/app/debug_window_main.cpp, RunWindow): the feed when a game is     *)
(* connected, the synthetic generator when none is.  The server may not be *)
(* running at all (--no-ipc, or the endpoint is taken).  The rest of the   *)
(* window's state is the subject of DebugWindow; the benchmark and the     *)
(* export ('b', 'e') are calls into PerformanceSession.                    *)
(***************************************************************************)
EXTENDS FeedReader

CONSTANTS
    Synthetic,    \* the source of generated frames
    MaxFrames     \* bound: frames in the session when one more is generated

ASSUME SyntheticAssumption == Synthetic \notin Clients

VARIABLES
    ipcRunning,   \* ipc_server.IsRunning()
    ipcWas,       \* ipc_was_connected
    simulating    \* state.running

frameVars == <<ipcRunning, ipcWas, simulating>>
debugVars  == <<readerVars, frameVars>>

DebugIdle == ipcRunning = FALSE /\ ipcWas = FALSE /\ simulating = TRUE

DebugInit == ReaderInit /\ main = "start" /\ DebugIdle

StartIpc ==
    /\ MainGoto("start", "events")
    /\ ipcRunning' \in BOOLEAN
    /\ UNCHANGED <<feedVars, running, frames, ipcWas, simulating>>

\* 'r'.
PressR ==
    /\ MainGoto("events", "events")
    /\ frames' = <<>>
    /\ UNCHANGED <<feedVars, running, frameVars>>

PressSpace ==
    /\ MainGoto("events", "events")
    /\ simulating' = ~simulating
    /\ UNCHANGED <<feedVars, running, frames, ipcRunning, ipcWas>>

PressClose == PressQuit /\ UNCHANGED frameVars

PollDone ==
    /\ MainGoto("events", IF ipcRunning THEN "edges" ELSE "generate")
    /\ UNCHANGED <<feedVars, running, frames, frameVars>>

\* The status line announces the connection and its end.
Announce ==
    /\ MainGoto("edges", "drain")
    /\ ipcWas' = HasClient
    /\ UNCHANGED <<feedVars, running, frames, ipcRunning, simulating>>

DrainSamples ==
    /\ MainGoto("drain", "generate")
    /\ frames' = frames \o queue /\ Drain
    /\ UNCHANGED <<running, frameVars>>

EndOfTurn == IF running THEN "events" ELSE "done"

\* A generator that goes by what the turn's first look at the feed said.
GenerateOnAnnounced ==
    /\ MainGoto("generate", EndOfTurn)
    /\ ~ipcWas /\ simulating /\ Len(frames) < MaxFrames
    /\ frames' = Append(frames, Synthetic)
    /\ IF running THEN UNCHANGED feedVars ELSE StopFeed
    /\ UNCHANGED <<running, frameVars>>

\* A frame of the generator: HasClient is asked anew, after the drain.
Generate ==
    /\ MainGoto("generate", EndOfTurn)
    /\ ~HasClient /\ simulating /\ Len(frames) < MaxFrames
    /\ frames' = Append(frames, Synthetic)
    /\ IF running THEN UNCHANGED feedVars ELSE StopFeed
    /\ UNCHANGED <<running, frameVars>>

\* A client is there, the simulation is paused, or 16 ms have not passed.
GenerateNone ==
    /\ MainGoto("generate", EndOfTurn)
    /\ IF running THEN UNCHANGED feedVars ELSE StopFeed
    /\ UNCHANGED <<running, frames, frameVars>>

DebugGames == ipcRunning /\ main # "done" /\ GamesNext /\ UNCHANGED frameVars

\* A turn of the loop, without what the user does in it.
DebugLoop == StartIpc \/ PollDone \/ Announce \/ DrainSamples \/ Generate \/ GenerateNone

DebugNext == DebugLoop \/ PressR \/ PressSpace \/ PressClose \/ DebugGames

DebugSpec == DebugInit /\ [][DebugNext]_debugVars

-----------------------------------------------------------------------------

\* A generated frame is never put behind the frames of a game that is still
\* connected: by the time one follows a game's frame, the game was let go.
NoSyntheticDuringClient ==
    \A i, j \in DOMAIN frames:
        i < j /\ frames[i] \in Clients /\ frames[j] = Synthetic => frames[i] \in gone

=============================================================================
