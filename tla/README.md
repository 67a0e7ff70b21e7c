# FrameWatch in TLA+

FrameWatch measures and shows frame times. It hooks a game's present call (on
Windows by injecting a library, on Linux by preloading one), turns presents
into frame samples, keeps rolling metrics, records benchmarks, draws an overlay
and exports sessions; a viewer receives samples over a local socket. This
directory holds TLA+ models of that code, the TLC configurations that check
them, and theorems about them checked by TLAPS.

Paths below are relative to the repository root.

## 1. Inventory

| Part | State it keeps | Operations | Modelled in |
|---|---|---|---|
| FrametimeTracker `src/core/frametime_tracker.cpp` | start and previous stamp, frame count | OnPresent, Reset | `PerformanceSession` |
| MetricsEngine `src/core/metrics_engine.cpp` | window deque, sorted multiset, Welford mean and M2, totals | PushSample, Reset, Snapshot | `MetricsEngine` |
| SessionLogger `src/core/session_logger.cpp` | sample list | Append, Reset, exports | `PerformanceSession` |
| PerformanceSession `src/session/performance_session.cpp` | tracker, two metrics engines, two logs, recording flag, last summary, synthetic clock | captures, benchmark start/stop/toggle, resets, summaries, graph, export | `PerformanceSession` |
| C API `src/c_api/framewatch_c.cpp` | a heap-allocated session per handle | the `fw_session_*` calls | `CApi` |
| Present hooks `src/hooks/dx11`, `dx12` | static claim and original pointer; per instance state and target | Install, Remove, the detour | `PresentHook` |
| Vulkan hook `src/hooks/vulkan` | the same, with `MH_ALL_HOOKS` | Install, Remove, the detour | `VulkanHook` |
| HookOverlayService `src/hooks/hook_overlay_service.cpp` | runtime, hook, initialized flag | Initialize, Shutdown | `PresentHook` |
| OverlayRuntime `src/overlay/overlay_runtime.cpp` | session, renderer, mutex, last snapshot | Initialize, Shutdown, OnPresent, CopyLastSnapshot | `PresentHook` (control flow only) |
| IpcServer `src/ipc/ipc_server.cpp` | socket, wake pipe, thread, running and client flags, sample queue | Start, Stop, DrainSamples, the server thread | `IpcServer` (Unix half), `Feed` |
| Preload hook `src/preload/framewatch_preload_linux.cpp` | descriptor, last stamp, frame counter, mutex | constructor, present wrappers, destructor | `PreloadHook` |
| Injected runtime `src/bootstrap/injected_runtime_win.cpp` | module, stop event, service, state, status file | DllMain, bootstrap thread, request shutdown | `InjectedRuntime` |
| Injector `src/app/framewatch_injector_win.cpp` | none between calls | inject, eject, status waits | `InjectedRuntime` |
| GPU sampler `src/gpu/gpu_metrics_sampler.cpp` and providers | provider, thread, running flag, last sample | probing, Start, Stop, LastSample | `Viewer` |
| Overlay settings `src/overlay/overlay_settings.cpp` | a JSON file | Load, Save, clamping, preset cycling | `OverlaySettings` |
| DX11 renderer `src/overlay/dx11` | bound swap chain, view, subclassed window, settings and dirty flag | Initialize, Render, Shutdown, window procedure | `Overlay` (not the drawing) |
| Viewer `src/app/viewer_main.cpp` | session, shown state, what the last turn saw | frame loop, reset, quit | `Viewer`, `FeedReader` |
| Debug window `src/app/debug_window_main.cpp`, `debug_window/` | session, target list, edit buffer, scroll and hover, settings file | frame loop, keys and mouse, targeting, saving | `DebugFrames`, `DebugWindow`, `Targeting` |
| Window enumeration `src/platform` | none | the list of windows | `Targeting` (macOS filter) |
| Overlay model, exporters, smoke programs, samples | none | pure computation, drawing, I/O | no |

**How they interact.** A game thread presents; the patched entry of `Present`
jumps to the detour, which loads the static claim (`active_instance_`), calls the
claimed hook's callback - `OverlayRuntime::OnPresent`, under the runtime's mutex:
capture into the session, snapshot, draw - and then calls the original through
MinHook's trampoline. Control threads install and remove the hook at any time.
On Linux the preloaded wrappers write one JSON line per frame into a Unix
socket; in the viewer a server thread reads, assembles and queues the lines and
the viewer's main loop drains the queue into its session, looking at `HasClient`
to say whether a game is there. The debug window does the same and makes frames of its
own while nobody streams; it also follows another program's window and keeps its settings
in the file the overlay uses too. A `PerformanceSession`
is used by one thread at a time (under the runtime's mutex, in a main loop, or by
the client of the C API), so it is modelled as sequential.

**What is hard here.** Removal of a hook with detours in flight; presents
stamped before a lock and delivered after it; failures in the middle of an
install; stop against a thread blocked in `select`; lines split anywhere by
`recv` and cut by a dying client; a full or broken socket under a mutex; two
logs and two windows that must describe the same frames; incremental statistics
against batch ones; a library loaded, stopped and loaded again by tools that
talk to it through one named event and a file they poll; flags read twice in a turn of
a loop; indices into a list that is refreshed; pointers to the game's objects and a window
procedure that others replace too; settings that could not be saved. `PROJECT.json` lists every such hazard at its line with the
property that covers it, or why none does yet.

**What makes each part correct.** Tracker, logs and session: no frame and no
time lost, the benchmark is a slice of the session, one answer to one question.
Metrics: the increments equal the definitions. Hooks: a patched entry always
leads back to the game, no call into freed memory, failures leave nothing
behind. Runtime: one `OnPresent` at a time, each returns. IPC: what the viewer
gets from a client is a prefix of what it wrote, and all of it once the client
closed in order; stop returns and leaves nothing. Injection: one runtime at a time, a
stop is heeded whenever it comes, and what the injector prints is so. Preload hook: the game never
notices it. Viewers: what is shown agrees with the feed, synthetic frames stay apart from
a connected game's, and a program told to quit ends. Debug window: indices fit the list, the
selection stays with its window, choices are saved. Overlay: it draws on the chain being
presented, takes no message from the game, forgets no change and gives everything back.

## 2. Modules

| Module | Role |
|---|---|
| `PerformanceSession` | tracker, loggers and session; one action per public operation |
| `MCPerformanceSession` | its inputs for TLC |
| `CApi` | extends it with a handle and one action per C function; what `framewatch.h` says |
| `Rational` | exact fractions as pairs in lowest terms |
| `RollingWindow` | abstract specification of a metrics engine: a bounded window and batch statistics |
| `MetricsEngine` | the incremental engine, refining `RollingWindow` |
| `MCMetricsEngine` | its inputs for TLC |
| `PresentHook` | hook, service and runtime against render threads |
| `IpcServer` | owner, server thread, kernel socket and clients |
| `PreloadHook` | extends `IpcServer`: the client is a game running the preload hook |
| `InjectedRuntime` | copies of the library in one process and the injectors that load and stop them |
| `Feed` | abstract specification of the server as its owner sees it: one client, a queue, drains |
| `FeedReader` | what the two readers share: a loop over the feed and a session |
| `Viewer` | extends it with the viewer's loop and the GPU sampler's thread |
| `DebugFrames` | extends it with the debug window's loop and its synthetic frames |
| `OverlaySettings` | the settings, their file, clamping and cycling: operators |
| `Targeting` | extends it with the target list, the list panel and docking: operators |
| `DebugWindow` | extends it with the debug window's handlers, desktop, restarts and crashes |
| `Overlay` | the DX11 renderer in a game: swap chains, window subclass, settings, Shutdown |
| `VulkanHook` | any number of Vulkan hook instances around a present |
| `Programs` | the five programs above checked in one run, each over its own behaviours |
| `SequenceFolds` | sum and filter of a sequence, as recursive functions: operators used by `PerformanceSession`, `IpcServer`, `Targeting`, `RollingWindow` |
| `SequenceFacts` | lemmas about them, for sequences of any length |
| `*Proofs` | theorems: `PresentHook`, `PerformanceSession`, `MetricsEngine`, `InjectedRuntime`, `IpcServer`, `PreloadHook`, and `Programs` (debug window, overlay, Vulkan hook) |

### PerformanceSession

Time is in microseconds and synthetic frametimes are in tenths of a
microsecond, because `CaptureSyntheticFrame` rounds (`std::llround`) and the
rounding to zero matters. `tracker` is the
`FrametimeTracker`; a log is the sequence of its samples; a window is the deque of its
metrics engine, cut at its limit. Each action is one member function, calls
included: `CaptureFrame` is tracker, live engine, live log and, while recording,
both of the benchmark's. No program of the repository mixes presents and synthetic
frametimes in one session (`feed` is chosen in Init and kept). Presents may carry any stamp of the horizon, older ones included:
the present hooks read the clock before the runtime's mutex is taken.

### MetricsEngine and RollingWindow

`PushSample` evicts, downdates Welford's mean and M2, removes one equal entry
of the sorted mirror and adds the new frametime. The mirror, a `std::multiset`, is a sequence in ascending
order by construction only: `Inserted` puts a value behind those that are not larger, `Evicted` takes out one
that equals the oldest frametime if it finds one, and that it stays in order and holds what the window holds is
a result (`MirrorInv`). Values are exact fractions, so
a difference from the batch formula is an error of the algorithm and never one
of rounding. `RollingWindow` knows a window and the batch definitions only
(mean, squared deviations, order statistics by counting); `MetricsEngine` is
shown to implement it with `window <- frametimes`, and its whole `Snapshot` to
equal the batch `Report`.

### PresentHook

One control call (Initialize or Shutdown of some service) is in progress at a
time; each of its steps is one statement that touches shared state, so that a
render thread's detour can run between any two. MinHook is what the code uses
of it: an entry that is absent, created or enabled, and trampoline slots that
are reused once freed. Every MinHook call, and the resolution of
the target, may fail; where the code ignores a result (the `MH_RemoveHook` of a failed install,
both calls of `Remove`) it goes on as if the call had worked, so that an entry may stay, even
patched, with its pointer cleared. `kept` remembers that MinHook refused to remove a hook. `original_present_` is not atomic: the detour tests it and
then calls through the tested or a reloaded value. The renderer's readiness
stands for `OverlayRuntime::IsReady`.

### IpcServer

The kernel side is a listening flag, a backlog, and per connection a bounded
wire of pieces: each line is two pieces, so that `recv` may split every line.
The thread's program counter names the statement it is at; `select`, `accept` and
`recv` may fail (`MaxFaults`). A client writes whole lines, closes in order, or
dies inside a line. `EnqueueLine` is modelled by what it does: a line glued from
two halves does not parse, and a frametime that is not positive is dropped.
A `Start` that fails removes the endpoint's file and its sockets; while the server does not run nobody
listens there, so this is no step.

### PreloadHook

Composes with `IpcServer` by extending it: the game is the client. Each present
reads the clock, takes `g_mutex`, measures, writes (a full wire blocks, a closed
one breaks or kills), closes and forgets the descriptor if that failed, and stores its stamp.
The destructor takes no lock: its test, its close and its store are three steps, between which
threads still present. So a descriptor may be closed twice, and a line may go to a closed one or to
a file that got its number; `misused` remembers it. Another game (`OtherConns`) may have connected
first; this one then waits in the listen queue, where its socket fills and nobody reads.

### InjectedRuntime

One process, several copies of the library (a copy in another directory is
another module with another status file), several injectors. The loader runs
`DllMain` under its lock, so that a load and a release are single steps; the
bootstrap thread's steps are those another thread or process can see: the status file is
truncated and then written, or does not open and keeps what it had, the service comes up or fails, the event is waited
for and closed, the module is given back. The kernel keeps the named event while
anyone has a handle: a context, an unloaded module that never closed it, an injector
between `OpenEvent` and `CloseHandle`. Every injection can fail, a status
that is being written cannot be removed, and a wait can time out at any poll. The status file belongs to a
directory, not to the process: one from before may be there at the start, and a copy in another
process may replace it (`OthersWrite`); `stale` remembers that a file is not the latest status of
this process's copy. `FrameWatchRequestShutdown` tests the event's handle and sets it in two steps,
between which the bootstrap thread may close it.

### Feed, FeedReader, Viewer and DebugFrames

`Feed` is the server by its public calls: whom `HasClient` speaks of, which
clients' samples are queued, who was let go. `IpcServer` implements it
(`serving` is its client while `has_client_` is set, `queue` the clients of its queue,
`gone` those whose connection it closed or is about to). The readers are written against
`Feed`, with the server thread and the games acting between any two reads. A session is the
sequence of its frames' sources, because the questions here are whose frames meet in it.

A turn of `Viewer` is events, transitions, drain, drawing; the sampler's thread runs beside it,
and the program ends by stopping and joining that thread before the server. The provider is
chosen from what a machine may have: the NVML library, its initialisation, a device, a card in
sysfs. A turn of `DebugFrames` asks `HasClient` twice, as the code does: to
announce the connection and to decide about a synthetic frame, with the drain between.

### OverlaySettings, Targeting and DebugWindow

A settings file is missing, unreadable, or a function from the keys that have a
value of the right type; loading clamps, saving clamps again, and a save may fail before or after it
emptied the file - after it also without saying so, because `good()` is asked before the stream writes
its buffer. A text is the set of its words: containment is inclusion, trimming takes the
blank away. Target lists are filtered and searched as in `targeting.cpp`; indices count from 1.
Each handler of the debug window that ends with a save has the save in its action. Between
handlers windows open, close and come to the front, and the program is closed or killed (in the middle of a save too) and
started again from the file it left, with each command line of `Options`.

### Overlay

The game creates and releases swap chains, whose addresses may be reused once no reference is left.
`Render` is a sequence of steps, `render` naming the next one, because the window's thread dispatches
messages meanwhile: `OverlayWindowProc` looks the window's property up, then the handler uses
`original_wnd_proc_`, and install and removal change window procedure, property and pointers one by
one. Another program subclasses the window too, and both restore what they found.
A present that is in the detour when it is taken out may still render. `Shutdown` takes no lock: where it
meets a render, or one begins while it works (`LateRender`), the model stops in `life = "overlapped"`
and claims nothing, since the code does nothing to order the two.
The settings file is `"current"`, `"old"` (it lacks a change) or `"cut"` (a save truncated it).

### VulkanHook

As `PresentHook`, with what is different: `Install` does not ask whether it is installed already,
`Remove` clears the claim of whoever has it and does nothing more unless this instance is `Running`,
`MH_ALL_HOOKS` takes every hook. `Remove` looks at neither result: a patch that neither
call took out (`stuck`) stays without its original, and presents through it are swallowed. A present stays in the detour or in the original across any
control steps.

### Programs

`Viewer`, `DebugFrames`, `DebugWindow`, `Overlay` and `VulkanHook` are different
programs that share no state but the feed's. One run checks all five: `program` is chosen in Init, and only that one moves.

## 3. Runs

| Run | Asks | Bounds |
|---|---|---|
| `session` | do logs, windows and summaries agree after any sequence of operations? | windows of 2 and 1, at most 3 frames, a horizon of 5: both windows overflow, stamps repeat and go back, two recordings fit |
| `metrics` | is the incremental engine the batch one? | limits 0 (raised to 1), 3 and 5, values 1, 2 and 9 (equal and unequal neighbours), 7 pushes: every window fills and rolls |
| `present_hook` | is installing and removing safe against render threads, and does each present return? | 2 services, 2 threads, 2 slots: a service against another's install, a thread in flight while another enters, a slot reused |
| `ipc` | is the feed faithful, does stop work? | 2 clients, a wire of 3 pieces, 2 lines, 2 starts, 1 failure: a client dies inside a line and the other is served next, stop and start again |
| `preload` | do presenting threads, socket and server work together? | 2 threads, 3 presents, a clock of 2, wire of 2, another game first or none: the wire fills, stamps go backwards, the game waits in the listen queue, the destructor meets both threads |
| `injection` | do injections and ejections from several tools keep to one truthful runtime? | 2 copies, 2 injectors, 3 runs, 1 failed bootstrap, 1 status lost or replaced, `running` left from before: a second injection during, after and instead of an ejection, an injection after a failure, an old status that could not be removed |
| `programs` | viewer, debug window, overlay and Vulkan hook, each by itself | 2 clients, 2 samples, 3 frames: a client replaces another between two reads; 2 windows and the program's own, 1 word, a buffer of 1, height 420 (one visible row): the list scrolls, empties and changes order; 3 swap chains at 2 addresses: an address is reused; 2 Vulkan hooks: each against the other's install and remove |
| `viewer_state`, `capi_snapshot`, `trampoline`, `sigpipe`, `unload` | does what the documents say hold? | smallest instances that answer; each finds a counterexample, see below |

Deadlock checking is off where the system may stop: after a crash, or with all
inputs used up. Symmetry is not used: the runs check liveness, or are small.

What the passing runs show:

* `session`: `LiveLogComplete` (every counted frame is in the log, in its place),
  `BenchmarkIsSlice`, `StoredSummaryIsCurrent`, `WindowsFollowLogs`,
  `NoTimeLost` (with out-of-order stamps time may be counted twice, never
  lost), `NoPushLost`.
* `metrics`: `SnapshotMatchesReport` (everything `Snapshot` says - mean, deviation, percentiles,
  low FPS - is what the batch definitions say of the window), `PercentilesMatchWindow`,
  and the refinement `KeepsRollingWindow`.
* `present_hook`: `PatchedHasTrampoline`, `DanglingOnlyInsideRemove`,
  `QuietStateIsConsistent`, `OnPresentIsExclusive`, `PresentReturns`. A refusal of MinHook to remove a
  hook is the one exception of the first and the third: it leaves a hook that may swallow presents, and no
  second one is created over it.
* `ipc`: `FeedIsPrefix`, `ClosedMeansReadToTheEnd`, `StopLeavesNothing`,
  `StopReturns`, `LinesArrive`, and the refinement `ImplementsFeed`.
* `preload`: `GapsTelescope` (the sent frametimes account for the time between
  stamps), `NoStaleDescriptor` (an open connection is never lost, and only the destructor can make a
  thread use a closed descriptor), `PresentReturns` (except while another game has the server),
  `GoneGameIsNoticed`.
* `injection`: `OneRuntime`, `StatusTellsTheTruth` (of a status that is not stale: running is read only while the
  overlay is up, uninitialized only when its hook is gone), `StopIsHeeded` (also
  a stop during the bootstrap), `EventOutlivesOnlyFailures` (after an orderly end the
  library can be injected again; after a failed bootstrap it cannot).
* `programs`: `QuitEnds` (a loop that was told to quit ends, the sampler joined),
  `NoSyntheticDuringClient`; `IndicesFitTheList` and `SelectionFollowsWindow` (over refreshes, searches,
  scrolling, hovering and editing), `ChoicesAreSaved` (once a save was reported good, the file has every choice made in the target list and
  the panel, or is truncated and loads as nothing; it never has older ones); `DrawsOnThePresentedChain`,
  `MessagesReachTheGame` (but for those in flight while the subclass is put in or taken out),
  `SettingsAreNotForgotten` (as `ChoicesAreSaved`, for the overlay's dirty flag), `StoppedMeansGivenBack` (of a
  Shutdown that no render overlaps); `QuietHook`, `PresentsGoThrough` (but for a hook MinHook refused to take out).

Each property has a mutant in `PROJECT.json`: a change of one definition, the
kind a slip in the code would be, under which it fails.

### Disagreements between code and documents

1. `framewatch.h:58` promises the snapshot of a *completed* benchmark;
   `fw_session_benchmark_snapshot` answers during a recording too (`capi_snapshot`).
2. `CHANGELOG.md:15-16` says the freed trampoline can never be called. `Remove`
   does not wait for detours: one that was entered before can call through the
   pointer between `MH_RemoveHook` and the clearing, or through the value it
   tested before (`trampoline`).
3. `framewatch_preload_linux.cpp:15-16` says the hook runs silently when the
   connection drops. `write` on a closed connection raises SIGPIPE in the game, and
   nothing blocks it (`sigpipe`). The run lets the game keep the default disposition;
   in the passing run games with either disposition occur, and a killed
   game is an end like any other.
4. `CHANGELOG.md:113` speaks of a clean unload by `--eject`. An ending runtime gives
   back one reference of its module; a library injected twice, or injected on the
   status `uninitialized` before its thread has ended, stays loaded with no
   thread, and injecting it again starts none (`unload`).
5. `CHANGELOG.md:41-43` gives the viewer three states, LIVE while a game streams.
   A reset (`viewer_main.cpp:187`) sets the state from `HasClient`, and the transitions of the same
   turn look at it again (line 203): a client that leaves in between was never `was_connected`,
   and the viewer shows LIVE until another one comes (`viewer_state`).

`framewatch.h:66` promises an export of the *live* session where `PreferredLog` prefers
the benchmark's; that reads off the code and no run is spent on it. `ipc_server.h:43-44` says
`Start` returns false when the endpoint cannot be created; the Windows half, which is not modelled,
creates it on its thread and returns true.

What the models show of the code where no document says otherwise:

* `MH_DisableHook` and `MH_RemoveHook` that fail leave a detour in place whose original has been cleared
  (`dx11_present_hook_win.cpp:245-250`, `vulkan_present_hook_win.cpp:141-143`): every later present is
  swallowed, and the hook cannot be installed again.
* A settings file can be truncated by a save that returned true (`overlay_settings.cpp:185-191`).
* A status file from before or from another process makes the injector report what is not so, if its removal
  failed or it was written since; so does an older status whose successor could not be written
  (`injected_runtime_win.cpp:60-62`).
* A file that vanishes is taken for a finished unload (`framewatch_injector_win.cpp:484-486`), also when
  another injector's run has removed it.
* A game that connects while another is served is blocked in `write`, holding `g_mutex`, once its socket is
  full, until the other game leaves.
* While the preload destructor works, a presenting thread can write to, or close, a descriptor that is no
  longer the hook's (`framewatch_preload_linux.cpp:119-121`).
* `FrameWatchRequestShutdown` can set an event that was closed since it looked, or a newer runtime's.

## 4. Fairness

* `PresentHook`: weak fairness of each detour's steps. The operating system
  schedules render threads, and capture and rendering are finite code. Nothing is assumed of
  control calls. `PresentReturns` starts at the point where the mutex is held, since
  `std::mutex` promises waiters no order.
* `IpcServer`: weak fairness of the server thread and of a begun Stop. Nothing
  is assumed of clients, nor that the owner ever stops or drains; `select` with a
  readable descriptor returns. The thread's choice among ready
  descriptors is left open.
* `PreloadHook`: in addition weak fairness of each present's steps. Its blocked
  `write` needs the server to read: `PresentReturns` there holds because the
  server thread reads or closes, which is exactly the server's fairness. A game that waits in the
  listen queue behind another is exempt, since nothing makes the other one leave.
* `InjectedRuntime`: weak fairness of each bootstrap thread's steps, which the
  operating system schedules and whose calls return. Nothing is assumed of injectors or
  of the callers of `FrameWatchRequestShutdown`.

* `Programs`: weak fairness of the viewer's and the debug window's loops (SDL
  returns, the window presents) and of the sampler's thread. Nothing is assumed of users,
  games, clients or the desktop, nor that anybody ever quits. The overlay, the debug window's
  handlers and the Vulkan hook have no liveness property and no fairness.

## 5. Proofs

TLAPS checks the theorems for every value of the constants.

**SequenceFacts** holds no theorem about the system, but what the theorems about
sequences rest on. The library's induction theorems take an operator, which the installed
provers cannot instantiate, so induction is done with sets: a set of numbers that has 0
and is closed under successor has every number (`NatSetInduction`, from the least
counterexample that a well-founded order gives), and the same for sequences that grow at their
end (`SnocInduction`). A fold of a function over a sequence exists and is unique, hence
the recursive functions of `Total` and `Kept` do what their bodies say
(`TotalAppend`, `KeptAppend`); by induction a filter of a concatenation is the concatenation of
the filters, and has exactly the members it should. Counts of the members in a set (`CountConcat`,
`CountIsCardinality`) and sums of a function of the members (`SumConcat`, `SumTail`) follow.

**PresentHookProofs**: `TypeCorrect`, `PatchedTrampoline`,
`DanglingInsideRemove`, `QuietConsistent`, `OnPresentExclusion`. None of the
three control properties is inductive: what holds between calls depends on
what every step of Install and Remove has already done. `ControlInv` says, for each
step of the call in progress, what entry, trampoline, original pointer
(`EntryInv`), target ownership (`OwnerInv`), state of the service (`StateInv`)
and claim (`ActiveInv`) are; each of its parts is preserved
given the others, and the three properties are instances of it. `KeptInv` says what a hook that
MinHook refused to remove is: an entry and its trampoline in `MinHook`, and nothing that runs. `OnPresentExclusion`
follows from a separate invariant: a thread inside `OnPresent` owns the mutex of its
hook. TLC checked `ControlInv` on the run's instance before it was proved.

**PerformanceSessionProofs**: `StoredSummary` (from the definitions: the
summary is stored from the log and window that are kept, and everything that
changes them clears it), `LiveLog`, `BenchmarkSlice`, `CapturesKeepBenchmark` (a captured frame
is the same sample in both logs while recording, and in the live log only otherwise),
`TypeCorrect`.
The strengthening `LogInv` joins the types of logs and tracker with the
first two log properties: a benchmark log extends at its end only while it reaches up to
the newest frame, and a frame's number is its place only while the tracker's
count is the log's length. Bounds (`Horizon`, `MaxFrames`) only restrict actions, so
the theorems do not depend on them.
`Windows` needs beside `LogInv` only that dropping the head of a full window and appending
is what cutting the longer log does. `TimeLogged` and `PushesLogged` have `TimeInv`: the logged
frametimes, summed, cover the distance from the first stamp to the previous one (a stamp that steps
back makes the sum larger), and while the synthetic clock is set it is the tracker's
previous stamp, so that a push is measured from where the last one ended.

**MetricsEngineProofs**: `EngineKeepsRollingWindow`, the refinement of `RollingWindow`: every push and
reset is a step of the abstract window, because the deque never outgrows its limit (`WindowInv`).
`SnapshotsMatchReports` and `PercentilesMatchWindows` say that what the engine computes step by step is what the batch
definitions compute from the window, for every limit and all frametimes that are positive whole
numbers. Neither property is inductive, since a snapshot does not show what the next eviction will find. `MetricsInv` adds
two parts. `MirrorInv`: the mirror is in order and, for every set of values, has as many members in it as the window.
It gives the order statistics (`OrderStatisticIs`), since a place in the mirror splits it by count, and so minimum, maximum and
percentiles, the floor and the ceiling of the scaled index being places (`FloorAndCeil`). `MomentInv`: with n frametimes of sum S and
sum of squares Q, the mean is S/n and M2 is (nQ - SS)/n, in lowest terms. `UpdatedIs` and
`DowndatedIs` are the algebra of the two recurrences; the second needs that M2 of what is left is not negative
(`SpreadNatural`, as a sum of squares), which is why the clamps never act. `DeviationsAre` brings the promised sum of squared distances to the same
form. They rest on what the fractions of `Rational` do: Euclid's recursion exists and is unique, a fraction does
not depend on common factors (`FracCancels`), so equal quotients are equal pairs (`FracEqual`). TLC checked
`MetricsInv` on the run's instance before it was proved.

**InjectedRuntimeProofs**: `TypeCorrect`, `OneAtATime`, `EventFreed`,
`AnswersTrue`. The strengthening `IInv` has a part for each module by itself
(`PointInv`: what its thread's step says of references, event, status file and
service), one for the event (`EventInv`: one context at most has it) and one for
failures (`LeakInv`: without one, every context that has the event has a thread that will
close it). `OneAtATime` follows because an active thread has the event;
`AnswersTrue` because a status file that is not stale and says running belongs to a thread
between the two statements around the wait. A step of one module leaves the others'
`PointInv` alone (`OthersUntouched`), so each action is proved for its own
module only. TLC checked `IInv` on the run's instance first.

**IpcServerProofs**: `TypeCorrect`, `StopLeaves` and the refinement
`ServerImplementsFeed`. The invariant `IInv` says whose pieces a stream and the line buffer
hold (`OwnPieces`: a line cut from the buffer is the served client's, which `Feed` needs for
a delivery), where a connection's server end is (`ConnInv`), and that flag, client, thread and
descriptors follow the two program counters (`ThreadInv`, `OwnerInv`). For the
refinement each step of owner, thread or client is `Serve`, `Deliver`, `Leave`, `Refuse`, `Drain` or a stutter.
`FeedPrefix` and `ClosedReadToTheEnd` come from a second invariant, `FeedInv`, that relates three places: what a
client wrote, what is on its way, and what the owner has. `InStep`: while a connection is readable, the lines taken,
the line buffer and the wire together spell the lines the client wrote, with half a line at the end only if it
died there. `Settled`: a connection that was let go keeps a prefix, and all of it unless it was cut. `BufferRead`
and `ReadToTheEnd` say when the thread may hang up: with no whole line in the buffer and, without a cut, nothing
on the wire. That a line cut from the front of the buffer is the first line not yet taken (`TakeLineMovesOn`) is the
heart of it.

**PreloadHookProofs** extends both: `HookTypeCorrect`, `DescriptorIsOpen`, `FrametimesTelescope`
and `LiveFeedImplementsFeed`, for any number of presenting threads. To the server the hook is a client
(`ServerSees`), so that `IInv` carries over; `LastLineInv` says that the last line's stamp is
`g_last_ts`, or what the thread between its write and its store is about to put there, which is why
the next gap starts where the last one ended. `DescriptorIsOpen` needs `ForgetInv`: what
a thread or the destructor is about to forget is closed, so that no open connection is lost.

**ProgramsProofs** has a part for each program, about that program's own specification.

*Frames*: `GeneratedFramesStayApart`, from the invariant that a client in the
session or the queue is being served or gone.

*Handlers*: `IndicesFit`, `ChoicesReachTheFile`, `SelectionStays`, for lists of any length and
windows of any height. `WindowInv` strengthens the bounds to types (a selection is 0 or an index of the
list, a scroll position is one the list has): handlers compute the next index from the present one,
so a bound from above is not enough. Each operator on the target list has a lemma
(`RefreshFits`, `PickFits`, `CycleFits`, `VisibleFits`), and a handler is then one of two kinds, with a
save at its end (`SavedWithKeeps`) or without (`UiOnlyKeeps`). `SelectionStays` is an action property: what
`FirstOf` finds is one of the indices, and one is found if there is one (`FirstFits`). The only thing assumed of the
constants is that the height is a natural number and the keys are those the program has.

*Overlay*: `DrawsWherePresented` (`ChainInv`: chains that are alive have addresses of their
own, and the overlay's reference keeps the bound one alive), `GameGetsItsMessages` (`StackInv`: removed in order, the
two subclasses are a stack, and ours is in it exactly while it is installed; `MessageInv`: an
undisturbed message is handled by an installed hook), `SettingsAreKept`, `ShutdownGivesBack`.

*Vulkan hook*: `QuietVulkanHook`, `VulkanPresentsGoThrough`, for any number
of instances; the invariant has one part for the patched entry, one for the Running instance and one for the claim.

Each of these invariants was checked by TLC on the run's constants before it was proved.

**Only model-checked.** Liveness and everything under fairness, which the provers do not reach.

## 6. What is abstracted

* Floating point: time is integer, statistics are exact fractions.
* Text: JSON, CSV, descriptions and log lines, except where a line is split or
  glued.
* Memory orders: the flags of `IpcServer` are relaxed atomics read and written whole;
  the model interleaves them. Non-atomic data read under a race is a choice.
* `std::bad_alloc` and thread creation failures outside the paths the code handles.
* A poll looks for the status file and reads it in one step. A wait of zero or less, which returns at once,
  is left out.
* `InjectedRuntime` has one game process, and its end, with the handles the kernel closes then, is not
  modelled. What an earlier one, or another, leaves in a status file is (`OldStatuses`).
* The lines of another game on the preload hook's server.
* MinHook moving an instruction pointer out of a trampoline it frees: a
  thread already inside the trampoline is safe in the model.
* Opacity is in percent; texts are sets of words, so that order and repetition of words do not count; the
  debug window's own size and the vertical position are not kept. One failed save of the
  debug window, silent or not, is not followed by another in the run (`RepeatedFailures`).
* One game window. Swap chains that differ in what `GetDevice` returns are one kind; a
  present of another API is a hidden one.
* A readable GPU counter is a sample, an unreadable one is none.

### Not modelled

* The Windows half of `IpcServer` (a named pipe with overlapped I/O): its thread is the same
  loop over other calls; a client that connects between `CreateNamedPipe` and `ConnectNamedPipe`
  depends on a result the code ignores.
* `dx12_present_hook_win.cpp`, the same code as the DX11 hook with another description; the map
  names the DX11 file.
* What is drawn: ImGui calls, `overlay_model.cpp`, `renderer.cpp`, `bitmap_font.cpp`, most of `ui_panels.cpp`.
  These keep no state.
* Exporters, which write a file from a log; the C API's results stand for them. The smoke programs, the synthetic driver,
  tests and samples, which call the library in sequence.
* `DockWindowToTarget` on a screen narrower than the window: `std::clamp` with its bounds in the wrong order is
  undefined, and the model's `Clamp` gives the lower bound; `Screen` is wide enough in the run.
* Detours in flight when `InjectedRuntime` unloads the library: `PresentHook` has the detours,
  `InjectedRuntime` the unload, and their composition is not built.

## 7. What could follow

1. The composition of `InjectedRuntime` with `PresentHook`: unloading with a detour in flight.
2. The named-pipe half of `IpcServer` as a second implementation of `Feed`.
