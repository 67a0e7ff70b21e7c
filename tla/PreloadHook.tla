----------------------------- MODULE PreloadHook -----------------------------
(***************************************************************************)
(* The Linux hook (src/preload/framewatch_preload_linux.cpp) inside a      *)
(* game, writing to the server of IpcServer: the whole live feed.  The     *)
(* game presents from several threads and connects once, while it is being *)
(* loaded.  Another game may have connected before it; the lines that one  *)
(* writes are left out.                                                    *)
(*                                                                         *)
(* Time is in ticks of what "%.4f" of ft_ms can tell apart.  A line is     *)
(* shorter than one socket buffer segment: write() puts all of it in the   *)
(* stream or waits for room.  A close() during the wait is taken as one    *)
(* after it, because the kernel lets the write end on the open socket.     *)
(***************************************************************************)
EXTENDS IpcServer

CONSTANTS
    OtherConns,  \* those of Conns that are other games'
    Threads,     \* the game's presenting threads
    MaxPresents, \* presents the game makes
    MaxClock     \* last tick of the monotonic clock

ASSUME HookAssumption ==
    /\ OtherConns \subseteq Conns
    /\ Threads # {} /\ None \notin Threads
    /\ MaxPresents \in Nat /\ MaxClock \in Nat \ {0}

VARIABLES
    game,        \* the process: "new", "running" or "gone"
    fini,        \* its destructor: "no", "close", "clear" or "done"
    killed,      \* history: a signal ended the process
    clock,       \* CLOCK_MONOTONIC
    ipcFd,       \* g_ipc_fd, None for -1
    misused,     \* history: a closed descriptor was written to or closed again
    lastTs,      \* g_last_ts
    frameIndex,  \* g_frame_index
    mutex,       \* who holds g_mutex
    pc,          \* where each thread is in record_frame, "idle" outside it
    now          \* the local of that name, 0 outside record_frame

fdVars     == <<ipcFd, misused>>
hookVars   == <<game, fini, killed, clock, fdVars, lastTs, frameIndex, mutex, pc, now>>
vars       == <<serverVars, hookVars>>

-----------------------------------------------------------------------------
HookInit ==
    /\ game = "new" /\ fini = "no" /\ killed = FALSE /\ misused = FALSE
    /\ clock = 1 /\ ipcFd = None /\ lastTs = 0 /\ frameIndex = 0 /\ mutex = None
    /\ pc = [t \in Threads |-> "idle"]
    /\ now = [t \in Threads |-> 0]

\* fw_preload_init: ipc_connect keeps the descriptor when connect() succeeds
\* and tries once only.
PreloadInit(c) ==
    /\ game = "new" /\ game' = "running" /\ c \notin OtherConns
    /\ \/ Connect(c) /\ ipcFd' = c
       \/ ~listening /\ UNCHANGED <<serverVars, ipcFd>>
    /\ UNCHANGED <<fini, killed, misused, clock, lastTs, frameIndex, mutex, pc, now>>

\* Another game is there first, and goes away when it pleases.
OtherGame(c) ==
    /\ c \in OtherConns
    /\ (game = "new" /\ Connect(c)) \/ CloseNear(c)
    /\ UNCHANGED hookVars

Tick ==
    /\ game = "running" /\ clock < MaxClock /\ clock' = clock + 1
    /\ UNCHANGED <<serverVars, game, fini, killed, fdVars, lastTs, frameIndex,
                   mutex, pc, now>>

Move(t, from, to) ==
    /\ game = "running" /\ pc[t] = from /\ pc' = [pc EXCEPT ![t] = to]
    /\ UNCHANGED <<game, fini, killed, clock>>

\* vkQueuePresentKHR, eglSwapBuffers and glXSwapBuffers: ++g_frame_index, then
\* record_frame, which reads the frame number and mono_time_sec before it takes
\* the lock.  The number decides nothing.
Present(t) ==
    /\ Move(t, "idle", "lock") /\ frameIndex < MaxPresents
    /\ frameIndex' = frameIndex + 1 /\ now' = [now EXCEPT ![t] = clock]
    /\ UNCHANGED <<serverVars, fdVars, lastTs, mutex>>

Lock(t) ==
    /\ Move(t, "lock", IF ipcFd # None /\ lastTs > 0 THEN "write" ELSE "store")
    /\ mutex = None /\ mutex' = t
    /\ UNCHANGED <<serverVars, fdVars, lastTs, frameIndex, now>>

\* snprintf: the gap to whatever frame was recorded last.
Measured(t) == [conn |-> ipcFd, ts |-> now[t], ft |-> now[t] - lastTs]

\* write() finds room; while there is none it waits, holding g_mutex.
WriteLine(t) ==
    /\ Move(t, "write", "store") /\ ipcFd # None
    /\ SendLine(ipcFd, Measured(t))
    /\ UNCHANGED <<fdVars, lastTs, frameIndex, mutex, now>>

\* The destructor works without g_mutex: at any point of record_frame the
\* descriptor may have been closed under it, or be gone.
FdClosed == ipcFd # None /\ near[ipcFd] # "open"

\* The server's end is closed and the game ignores the SIGPIPE; or there is no
\* such descriptor, closed or -1.
WriteFails(t) ==
    /\ ipcFd # None /\ near[ipcFd] = "open" => far[ipcFd] = "closed"
    /\ Move(t, "write", "close")
    /\ misused' = (misused \/ FdClosed)
    /\ UNCHANGED <<serverVars, ipcFd, lastTs, frameIndex, mutex, now>>

\* The number of the closed descriptor is a file's that the game opened since.
WriteElsewhere(t) ==
    /\ FdClosed /\ Move(t, "write", "store") /\ misused' = TRUE
    /\ UNCHANGED <<serverVars, ipcFd, lastTs, frameIndex, mutex, now>>

Dead ==
    /\ game' = "gone" /\ ipcFd' = None /\ mutex' = None
    /\ pc' = [t \in Threads |-> "idle"] /\ now' = [t \in Threads |-> 0]

\* In a game that leaves SIGPIPE alone, it ends the process.  A hook meets this
\* once at most, so both kinds of game are behaviours of the two actions.
WriteKilled(t) ==
    /\ game = "running" /\ pc[t] = "write" /\ ipcFd # None /\ far[ipcFd] = "closed"
    /\ Dead /\ killed' = TRUE /\ CloseNear(ipcFd)
    /\ UNCHANGED <<fini, misused, clock, lastTs, frameIndex>>

\* close(g_ipc_fd): ours, one that is closed already, or -1.
CloseFd ==
    \/ ipcFd # None /\ CloseNear(ipcFd) /\ UNCHANGED misused
    \/ FdClosed /\ misused' = TRUE /\ UNCHANGED serverVars
    \/ ipcFd = None /\ UNCHANGED <<serverVars, misused>>

CloseBroken(t) ==
    /\ Move(t, "close", "forget") /\ CloseFd
    /\ UNCHANGED <<ipcFd, lastTs, frameIndex, mutex, now>>

\* The descriptor closed and kept.
KeepFd(t) ==
    /\ Move(t, "forget", "store")
    /\ UNCHANGED <<serverVars, fdVars, lastTs, frameIndex, mutex, now>>

ForgetFd(t) ==
    /\ Move(t, "forget", "store") /\ ipcFd' = None
    /\ UNCHANGED <<serverVars, misused, lastTs, frameIndex, mutex, now>>

\* A g_last_ts that only moves forward.
StoreLatest(t) ==
    /\ Move(t, "store", "idle")
    /\ lastTs' = IF now[t] > lastTs THEN now[t] ELSE lastTs
    /\ mutex' = None /\ now' = [now EXCEPT ![t] = 0]
    /\ UNCHANGED <<serverVars, fdVars, frameIndex>>

\* A return that keeps the lock.
StoreKeepingLock(t) ==
    /\ Move(t, "store", "idle")
    /\ lastTs' = now[t] /\ now' = [now EXCEPT ![t] = 0]
    /\ UNCHANGED <<serverVars, fdVars, frameIndex, mutex>>

\* g_last_ts = now; the lock_guard goes out of scope, and the game's present
\* function is called.
Store(t) ==
    /\ Move(t, "store", "idle")
    /\ lastTs' = now[t] /\ mutex' = None /\ now' = [now EXCEPT ![t] = 0]
    /\ UNCHANGED <<serverVars, fdVars, frameIndex>>

\* fw_preload_fini runs when the process exits, while other threads may still
\* present: the test, ...
Fini(from, to) ==
    /\ game = "running" /\ fini = from /\ fini' = to
    /\ UNCHANGED <<game, killed, clock, lastTs, frameIndex, mutex, pc, now>>

FiniTest ==
    /\ Fini("no", IF ipcFd # None THEN "close" ELSE "done")
    /\ UNCHANGED <<serverVars, fdVars>>

\* ... the close ...
FiniClose == Fini("close", "clear") /\ CloseFd /\ UNCHANGED ipcFd

\* ... and the store.
FiniClear ==
    /\ Fini("clear", "done") /\ ipcFd' = None
    /\ UNCHANGED <<serverVars, misused>>

PreloadFini == FiniTest \/ FiniClose \/ FiniClear

\* The process ends: after fini, or because the game crashes.
GameEnds ==
    /\ game = "running" /\ Dead
    /\ \/ ipcFd # None /\ CloseNear(ipcFd)
       \/ (ipcFd = None \/ FdClosed) /\ UNCHANGED serverVars
    /\ UNCHANGED <<fini, killed, misused, clock, lastTs, frameIndex>>

PresentStep(t) ==
    \/ Lock(t)
    \/ WriteLine(t) \/ WriteFails(t) \/ WriteElsewhere(t) \/ WriteKilled(t)
    \/ CloseBroken(t) \/ ForgetFd(t) \/ Store(t)

ServerNext == (OwnerNext \/ ThreadNext) /\ UNCHANGED hookVars

LiveInit == ServerInit /\ HookInit
LiveNext ==
    \/ ServerNext
    \/ \E c \in Conns: PreloadInit(c) \/ OtherGame(c)
    \/ Tick \/ PreloadFini \/ GameEnds
    \/ \E t \in Threads: Present(t) \/ PresentStep(t)
LiveSpec == LiveInit /\ [][LiveNext]_vars

\* As in IpcServer for the two threads of the viewer; the game's threads run
\* too, and a waiting write() goes on when there is room.
LiveFairSpec ==
    /\ LiveSpec
    /\ WF_vars(at # "none" /\ UNCHANGED <<hookVars, ownerVars, faults>> /\ ThreadNext)
    /\ WF_vars(owner # "idle" /\ UNCHANGED hookVars /\ (StopWake \/ StopJoin \/ StopClose))
    /\ \A t \in Threads: WF_vars(pc[t] # "idle" /\ PresentStep(t))

-----------------------------------------------------------------------------
(* Properties. *)

Locked == {"write", "close", "forget", "store"}
Places == {"idle", "lock"} \union Locked

HookTypeOK ==
    /\ game \in {"new", "running", "gone"} /\ fini \in {"no", "close", "clear", "done"}
    /\ killed \in BOOLEAN /\ misused \in BOOLEAN
    /\ clock \in 1..MaxClock /\ lastTs \in 0..MaxClock
    /\ frameIndex \in 0..MaxPresents
    /\ ipcFd \in (Conns \ OtherConns) \union {None} /\ mutex \in Threads \union {None}
    /\ pc \in [Threads -> Places]
    /\ now \in [Threads -> 0..MaxClock]
    /\ \A t \in Threads: pc[t] \in Locked => mutex = t

\* Whichever threads present, and in whatever order they get the lock, each
\* line's frametime is the distance from the line before it: no gap is
\* measured twice from one start, and none is skipped while connected.
GapsTelescope ==
    \A c \in Conns: \A i \in 1..Len(written[c]) - 1:
        written[c][i + 1].ft = written[c][i + 1].ts - written[c][i].ts

\* The hook forgets a descriptor when it closes it: what it would write to or
\* close next may be any file the game has opened since.  A thread closes and
\* forgets under g_mutex; only the destructor, which does not take it, lets
\* another use the descriptor in between, and never loses an open one.
NoStaleDescriptor ==
    /\ \A c \in Conns \ OtherConns: near[c] = "open" => ipcFd = c
    /\ FdClosed => fini = "clear" \/ \E t \in Threads: pc[t] = "forget"
    /\ misused => fini # "no"

\* Another game is served, and this one waits in the listen queue.
Waiting == client \in OtherConns /\ ipcFd # None /\ far[ipcFd] = "queued"

\* A present comes back to the game, even when the stream is full, the viewer
\* stops or another thread is recording -- unless for all of its time another
\* game has the server, which then reads nothing of what this one writes, or a
\* failing select() or accept() left the server without its thread.
PresentReturns ==
    \A t \in Threads:
        (pc[t] # "idle" /\ ~Waiting) ~> (pc[t] = "idle" \/ faults > 0)

\* A game that ends while it is served is noticed: has_client_ drops, so the
\* viewer leaves its live state.
GoneGameIsNoticed ==
    \A c \in Conns \ OtherConns:
        (game = "gone" /\ far[c] = "served") ~> (far[c] = "closed" /\ ~hasClient)

\* "If the socket is absent or the connection drops, the hook runs silently"
\* (lines 15-16): the viewer going away never ends the game.
GameSurvivesViewer == ~killed
=============================================================================
