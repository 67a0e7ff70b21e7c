---------------------------- MODULE PresentHook ----------------------------
(***************************************************************************)
(* The DX11 and DX12 Present hooks under HookOverlayService.  One control  *)
(* thread (the bootstrap thread, or a smoke program's main) initializes    *)
(* and shuts down the services of the process one call at a time, while    *)
(* the game's render threads run PresentDetour.  active_instance_ and      *)
(* original_present_ are static members shared by all of them; nothing     *)
(* makes Remove wait for a detour that is under way.                       *)
(* A HookOverlayService, its hook and its OverlayRuntime are one service.  *)
(***************************************************************************)
EXTENDS Naturals

CONSTANTS
    Services,  \* HookOverlayService objects of the process
    Threads,   \* render threads of the game
    Slots,     \* MinHook's trampoline slots, reused once freed
    None       \* nullptr

ASSUME HookAssumption == None \notin Services /\ None \notin Threads /\ None \notin Slots

VARIABLES
    active,       \* active_instance_
    original,     \* original_present_: a slot or None
    entry,        \* MinHook's entry for Present: "none", "disabled" or "enabled"
    trampoline,   \* the slot MinHook has allocated, or None
    kept,         \* history: MH_RemoveHook failed, and its result was ignored
    state,        \* state_ of each hook
    target,       \* hook_target_ # nullptr
    ready,        \* the runtime's initialized_: its renderer may be used
    initialized,  \* the service's initialized_
    control,      \* the control thread: the service it works on and its next step
    mutex,        \* the thread holding OverlayRuntime::mutex_
    pc,           \* each render thread's next step; "game" outside the detour
    hook,         \* the instance a detour loaded
    callee,       \* the trampoline a detour is about to call
    crash         \* how the process died, or None

minhook == <<entry, trampoline, kept>>
service == <<state, target, ready, initialized>>
detours == <<mutex, pc, hook, callee>>
vars == <<active, original, minhook, service, control, detours, crash>>

Idle == [service |-> None, step |-> "idle"]

Init ==
    /\ active = None /\ original = None
    /\ entry = "none" /\ trampoline = None /\ kept = FALSE
    /\ state = [s \in Services |-> "Ready"]
    /\ target = [s \in Services |-> FALSE]
    /\ ready = [s \in Services |-> FALSE]
    /\ initialized = [s \in Services |-> FALSE]
    /\ control = Idle
    /\ mutex = [s \in Services |-> None]
    /\ pc = [t \in Threads |-> "game"]
    /\ hook = [t \in Threads |-> None]
    /\ callee = [t \in Threads |-> None]
    /\ crash = None

-----------------------------------------------------------------------------
(* The control thread                                                      *)

\* The control thread is at this step for s, and the process is alive.
At(s, step) == crash = None /\ control = [service |-> s, step |-> step]
Goto(s, step) == control' = [service |-> s, step |-> step]

\* HookOverlayService::Initialize up to Install.  A renderer that does not
\* initialize ends the call; an initialized service returns at once.
Initialize(s) ==
    /\ crash = None /\ control = Idle /\ ~initialized[s]
    /\ \E rendererOk \in BOOLEAN :
           /\ ready' = [ready EXCEPT ![s] = rendererOk]
           /\ control' = IF rendererOk THEN [service |-> s, step |-> "claim"] ELSE Idle
    /\ UNCHANGED <<active, original, minhook, state, target, initialized, detours, crash>>

\* Install's compare_exchange_strong on active_instance_.
Claim(s) ==
    /\ At(s, "claim")
    /\ IF active = None
       THEN active' = s /\ Goto(s, "resolve") /\ UNCHANGED state
       ELSE /\ state' = [state EXCEPT ![s] = "Error"]
            /\ Goto(s, "stop") /\ UNCHANGED active
    /\ UNCHANGED <<original, minhook, target, ready, initialized, detours, crash>>

\* Install gives up: the claim is released and Initialize stops the runtime.
\* DX12 reports a missing adapter as Unsupported.  Fault: the claim stays.
GiveUpKeepingClaim(s, failure) ==
    /\ state' = [state EXCEPT ![s] = failure]
    /\ Goto(s, "stop")
    /\ UNCHANGED <<active, target, ready, initialized, detours, crash>>
GiveUp(s, failure) ==
    /\ active' = None
    /\ state' = [state EXCEPT ![s] = failure]
    /\ Goto(s, "stop")
    /\ UNCHANGED <<target, ready, initialized, detours, crash>>

\* ResolvePresentTarget through a dummy swap chain, then MH_Initialize.
ResolveTarget(s) ==
    /\ At(s, "resolve")
    /\ \/ Goto(s, "create") /\ UNCHANGED <<active, service, detours, crash>>
       \/ \E failure \in {"Error", "Unsupported"} : GiveUp(s, failure)
    /\ UNCHANGED <<original, minhook>>

\* MH_CreateHook refuses a second hook on the same function.
CreateHook(s) ==
    /\ At(s, "create")
    /\ \/ /\ entry = "none" /\ entry' = "disabled"
          /\ trampoline' \in Slots /\ original' = trampoline'
          /\ Goto(s, "enable")
          /\ UNCHANGED <<active, kept, service, detours, crash>>
       \/ GiveUp(s, "Error") /\ UNCHANGED <<original, minhook>>

\* MH_RemoveHook takes the patch out if it is still in, then frees the
\* trampoline and the entry; or it fails and leaves all of them.
RemoveEntry ==
    \/ entry' = "none" /\ trampoline' = None /\ UNCHANGED kept
    \/ kept' = TRUE /\ UNCHANGED <<entry, trampoline>>

\* MH_EnableHook patches Present: from here on presents enter the detour.  When
\* it fails, MH_RemoveHook is called and its result ignored.
EnableHook(s) ==
    /\ At(s, "enable")
    /\ \/ entry' = "enabled" /\ Goto(s, "run") /\ UNCHANGED <<trampoline, kept>>
       \/ RemoveEntry /\ Goto(s, "undo")
    /\ UNCHANGED <<active, original, service, detours, crash>>

\* Fault: the pointer to the freed trampoline is kept.
UndoKeepingOriginal(s) == At(s, "undo") /\ GiveUp(s, "Error") /\ UNCHANGED <<original, minhook>>
UndoCreate(s) ==
    /\ At(s, "undo")
    /\ original' = None
    /\ GiveUp(s, "Error")
    /\ UNCHANGED minhook

FinishInstall(s) ==
    /\ At(s, "run")
    /\ target' = [target EXCEPT ![s] = TRUE]
    /\ state' = [state EXCEPT ![s] = "Running"]
    /\ initialized' = [initialized EXCEPT ![s] = TRUE]
    /\ control' = Idle
    /\ UNCHANGED <<active, original, minhook, ready, detours, crash>>

\* HookOverlayService::Shutdown is called at any time and first calls Remove,
\* which disconnects whichever instance is active.
\* Fault: original_present_ is cleared along with active_instance_.
ShutdownClearingFirst(s) ==
    /\ crash = None /\ control = Idle
    /\ active' = None /\ original' = None
    /\ Goto(s, IF target[s] THEN "disable" ELSE "removed")
    /\ UNCHANGED <<minhook, service, detours, crash>>
Shutdown(s) ==
    /\ crash = None /\ control = Idle
    /\ active' = None
    /\ Goto(s, IF target[s] THEN "disable" ELSE "removed")
    /\ UNCHANGED <<original, minhook, service, detours, crash>>

\* MH_DisableHook restores Present, or fails: its result is ignored.
DisableHook(s) ==
    /\ At(s, "disable")
    /\ entry' \in {"disabled", entry} /\ Goto(s, "free")
    /\ UNCHANGED <<active, original, trampoline, kept, service, detours, crash>>

\* So is MH_RemoveHook's.  original_present_ still points to the trampoline,
\* freed or not.
FreeTrampoline(s) ==
    /\ At(s, "free")
    /\ RemoveEntry /\ Goto(s, "clear")
    /\ UNCHANGED <<active, original, service, detours, crash>>

ClearOriginal(s) ==
    /\ At(s, "clear")
    /\ target' = [target EXCEPT ![s] = FALSE]
    /\ original' = None /\ Goto(s, "removed")
    /\ UNCHANGED <<active, minhook, state, ready, initialized, detours, crash>>

FinishRemove(s) ==
    /\ At(s, "removed")
    /\ state' = [state EXCEPT ![s] = "Ready"]
    /\ Goto(s, "stop")
    /\ UNCHANGED <<active, original, minhook, target, ready, initialized, detours, crash>>

\* OverlayRuntime::Shutdown, without the mutex a present may be holding.
StopRuntime(s) ==
    /\ At(s, "stop")
    /\ ready' = [ready EXCEPT ![s] = FALSE]
    /\ initialized' = [initialized EXCEPT ![s] = FALSE]
    /\ control' = Idle
    /\ UNCHANGED <<active, original, minhook, state, target, detours, crash>>

ControlStep(s) ==
    \/ Claim(s) \/ ResolveTarget(s) \/ CreateHook(s) \/ EnableHook(s) \/ UndoCreate(s)
    \/ FinishInstall(s) \/ DisableHook(s) \/ FreeTrampoline(s) \/ ClearOriginal(s)
    \/ FinishRemove(s) \/ StopRuntime(s)

-----------------------------------------------------------------------------
(* A render thread: PresentDetour                                          *)

Step(t, from, to) == crash = None /\ pc[t] = from /\ pc' = [pc EXCEPT ![t] = to]

\* The game presents.  An unpatched Present does not come through here.
Present(t) ==
    /\ entry = "enabled"
    /\ Step(t, "game", "load")
    /\ UNCHANGED <<active, original, minhook, service, control, mutex, hook, callee, crash>>

\* A null instance is not dispatched to.
LoadInstance(t) ==
    /\ Step(t, "load", IF active = None THEN "original" ELSE "lock")
    /\ hook' = [hook EXCEPT ![t] = active]
    /\ UNCHANGED <<active, original, minhook, service, control, mutex, callee, crash>>

\* DispatchPresent's callback: OverlayRuntime::OnPresent takes its mutex.
\* Fault: it does not wait for it.
LockWithoutWaiting(t) ==
    /\ Step(t, "lock", "capture")
    /\ mutex' = [mutex EXCEPT ![hook[t]] = t]
    /\ UNCHANGED <<active, original, minhook, service, control, hook, callee, crash>>
Lock(t) ==
    /\ Step(t, "lock", "capture")
    /\ mutex[hook[t]] = None
    /\ mutex' = [mutex EXCEPT ![hook[t]] = t]
    /\ UNCHANGED <<active, original, minhook, service, control, hook, callee, crash>>

\* OnPresent returns: the mutex is released, the detour is done with the hook.
Unlock(t) ==
    /\ mutex' = [mutex EXCEPT ![hook[t]] = None]
    /\ hook' = [hook EXCEPT ![t] = None]

\* A runtime that is not initialized, or a timestamp the session rejects,
\* ends OnPresent.  Fault: an early return that keeps the mutex.
CaptureLeakingLock(t) ==
    /\ \/ Step(t, "capture", "render") /\ ready[hook[t]] /\ UNCHANGED hook
       \/ Step(t, "capture", "original") /\ hook' = [hook EXCEPT ![t] = None]
    /\ UNCHANGED <<active, original, minhook, service, control, mutex, callee, crash>>
Capture(t) ==
    /\ \/ Step(t, "capture", "render") /\ ready[hook[t]] /\ UNCHANGED <<mutex, hook>>
       \/ Step(t, "capture", "original") /\ Unlock(t)
    /\ UNCHANGED <<active, original, minhook, service, control, callee, crash>>

\* The renderer is used until here.
Render(t) ==
    /\ Step(t, "render", "original")
    /\ Unlock(t)
    /\ UNCHANGED <<active, original, minhook, service, control, callee, crash>>

\* original_present_ is tested; null answers DXGI_ERROR_INVALID_CALL.
TestOriginal(t) ==
    /\ Step(t, "original", IF original = None THEN "game" ELSE "call")
    /\ callee' = [callee EXCEPT ![t] = original]
    /\ UNCHANGED <<active, original, minhook, service, control, mutex, hook, crash>>

\* The call goes through the tested value or, the member not being atomic,
\* through one the compiler loads again.
CallOriginal(t) ==
    /\ Step(t, "call", "game")
    /\ \E f \in {callee[t], original} :
           crash' = IF f = None THEN "null call"
                    ELSE IF f # trampoline THEN "freed trampoline" ELSE None
    /\ callee' = [callee EXCEPT ![t] = None]
    /\ UNCHANGED <<active, original, minhook, service, control, mutex, hook>>

DetourStep(t) ==
    LoadInstance(t) \/ Lock(t) \/ Capture(t) \/ Render(t) \/ TestOriginal(t) \/ CallOriginal(t)

-----------------------------------------------------------------------------

Next ==
    \/ \E s \in Services : Initialize(s) \/ Shutdown(s) \/ ControlStep(s)
    \/ \E t \in Threads : Present(t) \/ DetourStep(t)

\* The operating system schedules the render threads, and Present and Render
\* return.  A std::mutex promises its waiters no order: WF of the whole thread
\* lets one wait forever while others keep taking it.
Fairness == \A t \in Threads : WF_vars(DetourStep(t))

Spec == Init /\ [][Next]_vars
FairSpec == Spec /\ Fairness

-----------------------------------------------------------------------------
(* Properties                                                              *)

InstallSteps == {"claim", "resolve", "create", "enable", "undo", "run"}
RemoveSteps == {"disable", "free", "clear", "removed"}

\* Every variable has its type, and an instance a detour dispatches to is not null.
TypeOK ==
    /\ active \in Services \cup {None}
    /\ original \in Slots \cup {None} /\ trampoline \in Slots \cup {None}
    /\ entry \in {"none", "disabled", "enabled"} /\ kept \in BOOLEAN
    /\ state \in [Services -> {"Ready", "Running", "Error", "Unsupported"}]
    /\ target \in [Services -> BOOLEAN]
    /\ ready \in [Services -> BOOLEAN] /\ initialized \in [Services -> BOOLEAN]
    /\ \/ control = Idle
       \/ control \in [service : Services, step : InstallSteps \cup RemoveSteps \cup {"stop"}]
    /\ mutex \in [Services -> Threads \cup {None}]
    /\ pc \in [Threads -> {"game", "load", "lock", "capture", "render", "original", "call"}]
    /\ hook \in [Threads -> Services \cup {None}]
    /\ \A t \in Threads : pc[t] \in {"lock", "capture", "render"} => hook[t] # None
    /\ callee \in [Threads -> Slots \cup {None}]
    /\ crash \in {None, "null call", "freed trampoline"}

\* While Present is patched, original_present_ is the trampoline that leads
\* back to it: a detour that runs from end to end without a Remove beginning
\* presents the frame, whatever installs failed before or beside it.  There is
\* one way to lose it: MinHook failed to take the patch out, twice, and Remove
\* cleared the pointer all the same.
PatchedHasTrampoline ==
    entry = "enabled" =>
        \/ original # None /\ original = trampoline
        \/ original = None /\ kept

\* original_present_ points to freed memory only inside Remove's, or a failed
\* enable's, two statements; every other path has cleared it, also where
\* MinHook did not free anything.
DanglingOnlyInsideRemove ==
    original # None /\ original # trampoline => control.step \in {"clear", "undo"}

\* Between calls, whichever of their steps failed: a hook that says Running is
\* patched in, dispatches to itself or to nobody, and its runtime is
\* initialized; at most one hook does; and when none does, the claim and the
\* pointer are free and nothing of MinHook's is left behind, unless MinHook
\* refused to remove it -- after that no hook runs any more, since a second
\* one is never created over it.
QuietStateIsConsistent ==
    control = Idle =>
        /\ \A s \in Services : state[s] = "Running" =>
               /\ entry = "enabled" /\ target[s] /\ ready[s] /\ initialized[s]
               /\ active \in {s, None} /\ ~kept
               /\ \A other \in Services \ {s} : state[other] # "Running"
        /\ (\A s \in Services : state[s] # "Running") =>
               /\ original = None /\ active = None
               /\ kept <=> entry # "none"
               /\ kept <=> trampoline # None

\* One render thread at a time is inside a session's OnPresent, also while
\* control shuts the service down and initializes it again.
InOnPresent(t) == pc[t] \in {"capture", "render"}
OnPresentIsExclusive ==
    \A t, u \in Threads : t # u /\ InOnPresent(t) /\ InOnPresent(u) => hook[t] # hook[u]

\* A present that got the runtime's mutex gives it back and returns to the
\* game, whatever Shutdown does meanwhile, unless the process dies.
PresentReturns ==
    \A t \in Threads :
        pc[t] = "capture" ~>
            \/ crash # None
            \/ pc[t] = "game" /\ \A s \in Services : mutex[s] # t

\* CHANGELOG.md:15-16 "the freed MinHook trampoline can never be called
\* through a dangling pointer".
NeverCallsFreedTrampoline == crash # "freed trampoline"
=============================================================================
