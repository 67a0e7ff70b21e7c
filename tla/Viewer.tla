------------------------------- MODULE Viewer -------------------------------
(***************************************************************************)
(* The standalone viewer (src/app/viewer_main.cpp): its main loop over the *)
(* feed, and the GpuMetricsSampler thread beside it (src/gpu).  A turn of  *)
(* the loop polls events, compares HasClient with what the turn before saw,*)
(* drains the queue into the session and renders.  Between any two of      *)
(* these the server thread and the games may act.                          *)
(*                                                                         *)
(* Exporting ('e') and the status line change nothing here.                *)
(***************************************************************************)
EXTENDS FeedReader

VARIABLES
    wasConnected,  \* was_connected
    shownState,         \* state: what the window says
    provider,      \* the GPU provider the sampler was built with
    nvmlOpen,      \* the NVML library is loaded and initialised
    sampling,      \* the sampler's running_
    sampler,       \* where the sampler's thread is, "none" without one
    lastSample     \* last_sample_.available

shownVars   == <<wasConnected, shownState>>
samplerVars == <<provider, nvmlOpen, sampling, sampler, lastSample>>
viewerVars  == <<readerVars, shownVars, samplerVars>>

\* The window and the sampler before the program starts.
ViewerIdle ==
    /\ wasConnected = FALSE /\ shownState = "WAITING"
    /\ provider = "none" /\ nvmlOpen = FALSE
    /\ sampling = FALSE /\ sampler = "none" /\ lastSample = FALSE

ViewerInit == ReaderInit /\ main = "start" /\ ViewerIdle

-----------------------------------------------------------------------------
(* The GPU sampler and its providers. *)

\* NvmlGpuProvider's constructor: the library, its nvmlInit and a first device
\* are all there.  What its Query cannot read of a device stays zero.
NvmlFound(machine) == machine.nvml /\ machine.nvmlInit /\ machine.device

\* SysfsGpuProvider::Probe: some card of /sys/class/drm has gpu_busy_percent.
SysfsFound(machine) == machine.card

\* CreateGpuMetricsProvider: the first that finds a GPU.
Chosen(machine) ==
    CASE NvmlFound(machine) -> "nvml"
      [] ~NvmlFound(machine) /\ SysfsFound(machine) -> "sysfs"
      [] OTHER -> "null"

\* What is left open of the library: a provider that found no device is
\* destroyed, and its NvmlLibrary shut down and closed with it.
LibraryKept(machine) == Chosen(machine) = "nvml"

StartSampler ==
    /\ main = "start" /\ main' = "events"
    /\ \E machine \in [nvml: BOOLEAN, nvmlInit: BOOLEAN, device: BOOLEAN, card: BOOLEAN]:
           provider' = Chosen(machine) /\ nvmlOpen' = LibraryKept(machine)
    /\ sampling' = TRUE /\ sampler' = "check"
    /\ UNCHANGED <<feedVars, delivered, running, frames, shownVars, lastSample>>

SamplerGoto(from, to) ==
    /\ sampler = from /\ sampler' = to
    /\ UNCHANGED <<readerVars, shownVars, provider, nvmlOpen, sampling>>

\* A thread that looks at running_ only while it sleeps.
CheckNever == SamplerGoto("check", "query") /\ UNCHANGED lastSample

Check == SamplerGoto("check", IF sampling THEN "query" ELSE "done") /\ UNCHANGED lastSample

\* provider_->Query(), stored under the mutex.
Query ==
    /\ SamplerGoto("query", "sleep")
    /\ lastSample' = (provider # "null")

\* The slices of the sleep end with the interval or with running_.
Sleep == SamplerGoto("sleep", "check") /\ UNCHANGED lastSample

SamplerNext == Check \/ Query \/ Sleep

-----------------------------------------------------------------------------
(* The main loop. *)

LoopGoto(from, to) == MainGoto(from, to) /\ UNCHANGED samplerVars

\* 'r': the session starts over, and the state is taken from HasClient, not
\* from what the last turn saw.
PressReset ==
    /\ LoopGoto("events", "events")
    /\ frames' = <<>>
    /\ shownState' = IF HasClient THEN "LIVE" ELSE "WAITING"
    /\ UNCHANGED <<feedVars, running, wasConnected>>

ViewerQuits == PressQuit /\ UNCHANGED <<shownVars, samplerVars>>

EventsDone ==
    /\ LoopGoto("events", "edges")
    /\ UNCHANGED <<feedVars, running, frames, shownVars>>

\* The connection transitions since the last turn.
Edges ==
    /\ LoopGoto("edges", "drain")
    /\ shownState' = IF HasClient /\ ~wasConnected THEN "LIVE"
                ELSE IF ~HasClient /\ wasConnected THEN "DISCONNECTED" ELSE shownState
    /\ wasConnected' = HasClient
    /\ UNCHANGED <<feedVars, running, frames>>

DrainQueue ==
    /\ LoopGoto("drain", "render")
    /\ frames' = frames \o queue /\ Drain
    /\ UNCHANGED <<running, shownVars>>

\* Drawing reads the session, the state and LastSample, and ends the turn.
Render ==
    /\ LoopGoto("render", IF running THEN "events" ELSE "stop sampler")
    /\ UNCHANGED <<feedVars, running, frames, shownVars>>

\* Stop(): the exchange, then the join.
StopSampler ==
    /\ main = "stop sampler" /\ main' = "join sampler"
    /\ sampling' = FALSE
    /\ UNCHANGED <<feedVars, delivered, running, frames, shownVars,
                   provider, nvmlOpen, sampler, lastSample>>

JoinSampler ==
    /\ main = "join sampler" /\ sampler = "done" /\ main' = "stop ipc"
    /\ sampler' = "none"
    /\ UNCHANGED <<feedVars, delivered, running, frames, shownVars,
                   provider, nvmlOpen, sampling, lastSample>>

\* ipc.Stop() cuts the client; the destructors close the provider.
StopViewer ==
    /\ main = "stop ipc" /\ main' = "done"
    /\ StopFeed
    /\ nvmlOpen' = FALSE
    /\ UNCHANGED <<delivered, running, frames, shownVars,
                   provider, sampling, sampler, lastSample>>

LoopNext ==
    \/ StartSampler \/ EventsDone \/ Edges \/ DrainQueue \/ Render
    \/ StopSampler \/ JoinSampler \/ StopViewer

\* The server is up from before the window opens to the viewer's end.
ViewerGames == main \notin {"start", "done"} /\ GamesNext /\ UNCHANGED <<shownVars, samplerVars>>

ViewerNext == LoopNext \/ PressReset \/ ViewerQuits \/ SamplerNext \/ ViewerGames

\* The window presents, and the scheduler runs both threads.
ViewerFairness == WF_viewerVars(LoopNext) /\ WF_viewerVars(SamplerNext)

ViewerSpec == ViewerInit /\ [][ViewerNext]_viewerVars

-----------------------------------------------------------------------------
(* Properties. *)

\* CHANGELOG.md:42-43: "three states -- WAITING (no client), LIVE (streaming),
\* DISCONNECTED".  What is drawn agrees with the HasClient of the same turn.
ShownStateIsTrue ==
    main = "render" => (shownState = "LIVE" <=> wasConnected)

\* A program that was told to quit ends.  In the viewer the sampler's thread
\* sees the cleared flag wherever it is and can be joined.
QuitEnds == ~running ~> main = "done"

=============================================================================
