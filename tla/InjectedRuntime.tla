--------------------------- MODULE InjectedRuntime ---------------------------
(***************************************************************************)
(* The overlay library in one game process                                 *)
(* (src/bootstrap/injected_runtime_win.cpp) and the injector runs that     *)
(* load it and ask it to stop (src/app/framewatch_injector_win.cpp).       *)
(* Copies of the library in different directories are different modules,   *)
(* each with its own context and its own status file; all of them share    *)
(* the process's one named stop event.                                     *)
(*                                                                         *)
(* The loader runs DllMain under its lock, so that attaching and detaching *)
(* are single steps.  Installing the hook is PresentHook's subject: here   *)
(* the service is up or not.  A status file is its directory's: it         *)
(* outlives the process, and a copy of the library from that directory in  *)
(* another process writes the same one.  Its content is the word after     *)
(* "state=".                                                               *)
(***************************************************************************)
EXTENDS Integers, FiniteSets

CONSTANTS
    Dlls,         \* copies of the library
    Tools,        \* injectors running side by side
    MaxCalls,     \* bound: injector runs
    MaxFailures,  \* bound: services that do not initialize
    MaxLost,      \* bound: statuses not written, or replaced from another process
    OldStatuses,  \* what another process, or one before, may leave in the file
    None          \* no library

\* The status file: there is none, one being written, or a state's name.
Contents == {"absent", "", "starting", "failed", "running", "stopping", "uninitialized"}

ASSUME RuntimeAssumption ==
    /\ MaxCalls \in Nat /\ MaxFailures \in Nat /\ MaxLost \in Nat
    /\ OldStatuses \subseteq Contents /\ None \notin Dlls

VARIABLES
    refs,      \* the loader's reference count of each module
    event,     \* context.stop_event is not null
    leaked,    \* a module was unloaded without closing its stop_event
    signaled,  \* the named event's (manual-reset) state
    thread,    \* what the bootstrap thread does next, "none" when there is none
    writing,   \* it has truncated the status file and not written it yet
    service,   \* the hook service is initialized
    file,      \* the status file
    stale,     \* history: it is not the latest status of this process's copy
    lost,      \* bound: statuses lost so far
    failures,  \* bound: failed initializations so far
    caller,    \* in whose FrameWatchRequestShutdown a call is, or None
    at,        \* where each injector is
    dll,       \* the library it was given, None between two runs
    last,      \* last_reported_content is not empty
    calls      \* bound: injector runs so far

runtime == <<leaked, thread, writing, service, failures>>
status  == <<file, stale, lost>>
tools   == <<at, dll, last, calls>>
vars    == <<refs, event, signaled, runtime, status, caller, tools>>

-----------------------------------------------------------------------------
Init ==
    /\ refs = [d \in Dlls |-> 0] /\ event = [d \in Dlls |-> FALSE]
    /\ leaked = FALSE /\ signaled = FALSE
    /\ thread = [d \in Dlls |-> "none"]
    /\ writing = [d \in Dlls |-> FALSE] /\ service = [d \in Dlls |-> FALSE]
    /\ file \in [Dlls -> OldStatuses] /\ stale = [d \in Dlls |-> file[d] # "absent"]
    /\ lost = 0 /\ failures = 0 /\ caller = None
    /\ at = [k \in Tools |-> "idle"] /\ dll = [k \in Tools |-> None]
    /\ last = [k \in Tools |-> FALSE] /\ calls = 0

\* The kernel keeps a named object while a handle to it is open: a context's,
\* a lost one, or that of an injector about to set the event.
EventExists ==
    \/ leaked
    \/ \E d \in Dlls : event[d]
    \/ \E k \in Tools : at[k] = "signal"

-----------------------------------------------------------------------------
(* DllMain                                                                 *)

\* DLL_PROCESS_ATTACH succeeds: a new event and a new bootstrap thread.
\* Fault: an event that exists already is shared.
AttachSharing(d) ==
    /\ event' = [event EXCEPT ![d] = TRUE] /\ signaled' = FALSE
    /\ thread' = [thread EXCEPT ![d] = "starting"]
Attach(d) ==
    /\ ~EventExists
    /\ event' = [event EXCEPT ![d] = TRUE] /\ signaled' = FALSE
    /\ thread' = [thread EXCEPT ![d] = "starting"]

\* LoadLibraryW returns the module: a loaded one is only counted once more.
Load(d) ==
    /\ refs' = [refs EXCEPT ![d] = @ + 1]
    /\ IF refs[d] = 0 THEN Attach(d) ELSE UNCHANGED <<event, signaled, thread>>
    /\ UNCHANGED <<leaked, writing, service, failures>>

\* FreeLibraryAndExitThread.  The last reference runs DLL_PROCESS_DETACH, which
\* sets an event it still has, and the context goes with the module.
UnloadTwice(d) ==     \* Fault: the thread frees the module before it does so again.
    /\ thread[d] = "unload" /\ thread' = [thread EXCEPT ![d] = "none"]
    /\ refs' = [refs EXCEPT ![d] = @ - 2]
    /\ UNCHANGED <<event, signaled, leaked, writing, service, failures, status, caller, tools>>
Unload(d) ==
    /\ thread[d] = "unload" /\ thread' = [thread EXCEPT ![d] = "none"]
    /\ refs' = [refs EXCEPT ![d] = @ - 1]
    /\ IF refs[d] = 1
       THEN /\ event' = [event EXCEPT ![d] = FALSE]
            /\ leaked' = (leaked \/ event[d]) /\ signaled' = (signaled \/ event[d])
       ELSE UNCHANGED <<event, leaked, signaled>>
    /\ UNCHANGED <<writing, service, failures, status, caller, tools>>

-----------------------------------------------------------------------------
(* BootstrapThreadMain                                                     *)

\* What WriteStatusFile is writing, and what the thread does after it.
StatusOf(step) ==
    CASE step = "starting" -> "starting"
      [] step = "failed"   -> "failed"
      [] step = "running"  -> "running"
      [] step = "stopping" -> "stopping"
      [] step = "stopped"  -> "uninitialized"
After(step) ==
    CASE step = "starting" -> "initialize"
      [] step = "failed"   -> "unload"
      [] step = "running"  -> "await"
      [] step = "stopping" -> "shutdown"
      [] step = "stopped"  -> "close"
Reporting == {"starting", "failed", "running", "stopping", "stopped"}

OpenStatus(d) ==
    /\ thread[d] \in Reporting /\ ~writing[d]
    /\ writing' = [writing EXCEPT ![d] = TRUE] /\ file' = [file EXCEPT ![d] = ""]
    /\ stale' = [stale EXCEPT ![d] = FALSE]
    /\ UNCHANGED <<refs, event, signaled, leaked, thread, service, failures, lost, caller, tools>>

\* The path is empty or the file does not open: the older status stays.
DropStatus(d) ==
    /\ thread[d] \in Reporting /\ ~writing[d]
    /\ lost < MaxLost /\ lost' = lost + 1
    /\ stale' = [stale EXCEPT ![d] = file[d] # "absent"]
    /\ thread' = [thread EXCEPT ![d] = After(thread[d])]
    /\ UNCHANGED <<refs, event, signaled, leaked, writing, service, failures, file, caller, tools>>

\* Fault: a stop asked for during the bootstrap is taken for a stale one.
CloseStatusResetting(d) ==
    /\ thread[d] \in Reporting /\ writing[d]
    /\ writing' = [writing EXCEPT ![d] = FALSE]
    /\ file' = [file EXCEPT ![d] = StatusOf(thread[d])]
    /\ thread' = [thread EXCEPT ![d] = After(thread[d])]
    /\ stale' = [stale EXCEPT ![d] = FALSE]
    /\ signaled' = (signaled /\ thread[d] # "running")
    /\ UNCHANGED <<refs, event, leaked, service, failures, lost, caller, tools>>
CloseStatus(d) ==
    /\ thread[d] \in Reporting /\ writing[d]
    /\ writing' = [writing EXCEPT ![d] = FALSE]
    /\ file' = [file EXCEPT ![d] = StatusOf(thread[d])]
    /\ stale' = [stale EXCEPT ![d] = FALSE]
    /\ thread' = [thread EXCEPT ![d] = After(thread[d])]
    /\ UNCHANGED <<refs, event, signaled, leaked, service, failures, lost, caller, tools>>

\* The service is created and initialized, or is not: then the thread reports
\* it and unloads the module without closing the stop event.
InitializeUnchecked(d) ==     \* Fault: the result is not looked at.
    /\ thread[d] = "initialize" /\ thread' = [thread EXCEPT ![d] = "running"]
    /\ \E ok \in BOOLEAN : service' = [service EXCEPT ![d] = ok]
    /\ UNCHANGED <<refs, event, signaled, leaked, writing, failures, status, caller, tools>>
Initialize(d) ==
    /\ thread[d] = "initialize"
    /\ \/ /\ service' = [service EXCEPT ![d] = TRUE]
          /\ thread' = [thread EXCEPT ![d] = "running"]
          /\ UNCHANGED failures
       \/ /\ failures < MaxFailures /\ failures' = failures + 1
          /\ thread' = [thread EXCEPT ![d] = "failed"]
          /\ UNCHANGED service
    /\ UNCHANGED <<refs, event, signaled, leaked, writing, status, caller, tools>>

AwaitStop(d) ==
    /\ thread[d] = "await" /\ signaled
    /\ thread' = [thread EXCEPT ![d] = "stopping"]
    /\ UNCHANGED <<refs, event, signaled, leaked, writing, service, failures, status, caller, tools>>

ShutDown(d) ==
    /\ thread[d] = "shutdown" /\ thread' = [thread EXCEPT ![d] = "stopped"]
    /\ service' = [service EXCEPT ![d] = FALSE]
    /\ UNCHANGED <<refs, event, signaled, leaked, writing, failures, status, caller, tools>>

CloseEventLeaking(d) ==     \* Fault: the pointer is cleared, the handle stays.
    /\ thread[d] = "close" /\ thread' = [thread EXCEPT ![d] = "unload"]
    /\ event' = [event EXCEPT ![d] = FALSE] /\ leaked' = TRUE
    /\ UNCHANGED <<refs, signaled, writing, service, failures, status, caller, tools>>
CloseEvent(d) ==
    /\ thread[d] = "close" /\ thread' = [thread EXCEPT ![d] = "unload"]
    /\ event' = [event EXCEPT ![d] = FALSE]
    /\ UNCHANGED <<refs, signaled, leaked, writing, service, failures, status, caller, tools>>

BootstrapStep(d) ==
    \/ OpenStatus(d) \/ DropStatus(d) \/ CloseStatus(d) \/ Initialize(d) \/ AwaitStop(d)
    \/ ShutDown(d) \/ CloseEvent(d) \/ Unload(d)

\* The exported FrameWatchRequestShutdown, called by whoever finds it: it tests
\* the pointer ...
RequestShutdown(d) ==
    /\ caller = None /\ caller' = d
    /\ refs[d] > 0 /\ event[d]
    /\ UNCHANGED <<refs, event, signaled, runtime, status, tools>>

\* ... and sets the event.  The bootstrap thread may have closed it since: then
\* the handle is nobody's, or its value is that of a newer runtime's event.
SetStopEvent ==
    /\ caller # None /\ caller' = None
    /\ \/ signaled' = (signaled \/ \E e \in Dlls : event[e])
       \/ ~event[caller] /\ UNCHANGED signaled
    /\ UNCHANGED <<refs, event, runtime, status, tools>>

\* A copy from the same directory in another process, or an injector there.
OthersWrite(d) ==
    /\ lost < MaxLost /\ lost' = lost + 1
    /\ \E s \in OldStatuses : file' = [file EXCEPT ![d] = s]
    /\ stale' = [stale EXCEPT ![d] = TRUE]
    /\ UNCHANGED <<refs, event, signaled, runtime, caller, tools>>

-----------------------------------------------------------------------------
(* The injector                                                            *)

Tool(k, from, to) == at[k] = from /\ at' = [at EXCEPT ![k] = to]

Finish(k) ==
    /\ at' = [at EXCEPT ![k] = "idle"]
    /\ dll' = [dll EXCEPT ![k] = None] /\ last' = [last EXCEPT ![k] = FALSE]
    /\ UNCHANGED <<refs, event, signaled, runtime, status, caller, calls>>

\* wmain with or without --eject, its arguments and its target being in order.
Begin(k, d) ==
    /\ calls < MaxCalls /\ calls' = calls + 1
    /\ \E call \in {"remove", "open"} : Tool(k, "idle", call)
    /\ dll' = [dll EXCEPT ![k] = d]
    /\ UNCHANGED <<refs, event, signaled, runtime, status, caller, last>>

\* The old status is removed, unless the file is open somewhere.
RemoveStatus(k) ==
    /\ Tool(k, "remove", "load")
    /\ \/ /\ ~writing[dll[k]]
          /\ file' = [file EXCEPT ![dll[k]] = "absent"]
          /\ stale' = [stale EXCEPT ![dll[k]] = FALSE]
       \/ UNCHANGED <<file, stale>>
    /\ UNCHANGED <<refs, event, signaled, runtime, lost, caller, dll, last, calls>>

\* InjectLibrary: LoadLibraryW on a thread of the game.
InjectLibrary(k) ==
    /\ Tool(k, "load", "starting") /\ Load(dll[k])
    /\ UNCHANGED <<status, caller, dll, last, calls>>

\* Opening the process, its memory or the thread fails, or DllMain refuses.
InjectFails(k) == at[k] = "load" /\ Finish(k)

\* EjectLibrary: OpenEventW fails when no module holds the event.
OpenEvent(k) ==
    \/ /\ EventExists /\ Tool(k, "open", "signal")
       /\ UNCHANGED <<refs, event, signaled, runtime, status, caller, dll, last, calls>>
    \/ ~EventExists /\ at[k] = "open" /\ Finish(k)

\* SetEvent and CloseHandle.
Signal(k) ==
    /\ Tool(k, "signal", "ending") /\ signaled' = TRUE
    /\ UNCHANGED <<refs, event, runtime, status, caller, dll, last, calls>>

\* A poll finds a file; some contents end the wait, the others are reported.
Verdicts(wait) == {"failed", IF wait = "starting" THEN "running" ELSE "uninitialized"}
Poll(k) ==
    /\ at[k] \in {"starting", "ending"}
    /\ file[dll[k]] # "absent"
    /\ IF file[dll[k]] \in Verdicts(at[k])
       THEN Finish(k)
       ELSE /\ last' = [last EXCEPT ![k] = file[dll[k]] # ""]
            /\ UNCHANGED <<refs, event, signaled, runtime, status, caller, at, dll, calls>>

\* WaitForEjectStatus takes a file that disappeared for an unloaded library.
PollGone(k) ==
    /\ at[k] = "ending" /\ file[dll[k]] = "absent" /\ last[k]
    /\ Finish(k)

PollTimeout(k) == at[k] \in {"starting", "ending"} /\ Finish(k)

ToolStep(k) ==
    \/ \E d \in Dlls : Begin(k, d)
    \/ RemoveStatus(k) \/ InjectLibrary(k) \/ InjectFails(k)
    \/ OpenEvent(k) \/ Signal(k) \/ Poll(k) \/ PollGone(k) \/ PollTimeout(k)

-----------------------------------------------------------------------------
Next ==
    \/ \E d \in Dlls : BootstrapStep(d) \/ RequestShutdown(d) \/ OthersWrite(d)
    \/ SetStopEvent
    \/ \E k \in Tools : ToolStep(k)

Spec == Init /\ [][Next]_vars

\* The bootstrap thread is scheduled, and its calls return.
FairSpec == Spec /\ \A d \in Dlls : WF_vars(BootstrapStep(d))

-----------------------------------------------------------------------------
(* Properties                                                              *)

Steps    == Reporting \cup {"none", "initialize", "await", "shutdown", "close", "unload"}
Places   == {"idle", "remove", "load", "starting", "open", "signal", "ending"}

\* A module with a thread is loaded; its context has the event until it closes it.
TypeOK ==
    /\ refs \in [Dlls -> Nat] /\ failures \in 0..MaxFailures /\ calls \in 0..MaxCalls
    /\ thread \in [Dlls -> Steps] /\ file \in [Dlls -> Contents]
    /\ dll \in [Tools -> Dlls \cup {None}] /\ at \in [Tools -> Places]
    /\ caller \in Dlls \cup {None} /\ lost \in 0..MaxLost
    /\ \A d \in Dlls :
           /\ thread[d] # "none" => refs[d] > 0
           /\ thread[d] \notin {"none", "unload"} => event[d]
           /\ writing[d] => thread[d] \in Reporting

\* However many copies of the library are injected at once, one runtime at a
\* time is between its bootstrap and the end of its shutdown.
Active(d) == thread[d] \notin {"none", "unload"}
OneRuntime == \A d, e \in Dlls : Active(d) /\ Active(e) => d = e

\* What the status file makes the injector print is so at that moment: the
\* overlay runs when an injection is reported complete, and its hook is gone
\* when an eject is, also when another injector works on the same library.
\* Only a status that is not this process's latest misleads: one from before
\* that could not be removed, one written by another process, or one whose
\* successor could not be written.
StatusTellsTheTruth ==
    [][\A k \in Tools : Poll(k) /\ ~stale[dll[k]] =>
           /\ at[k] = "starting" /\ file[dll[k]] = "running" => service[dll[k]]
           /\ at[k] = "ending" /\ file[dll[k]] = "uninitialized" => ~service[dll[k]]]_vars

\* A stop asked for at any point of a runtime's life ends it.
StopIsHeeded ==
    \A d \in Dlls :
        Active(d) /\ signaled ~> ~Active(d)

\* With no runtime and no injector at work the stop event is gone, so that the
\* library can be injected again, unless a service failed to initialize.
EventOutlivesOnlyFailures ==
    (\A d \in Dlls : thread[d] = "none") /\ (\A k \in Tools : at[k] # "signal") /\ failures = 0
        => ~EventExists

\* CHANGELOG.md:113 "`--eject` mode in `framewatch_injector` for clean DLL
\* unload": a runtime that ends leaves no module behind.
EndingUnloads == \A d \in Dlls : thread[d] = "none" => refs[d] = 0
=============================================================================
