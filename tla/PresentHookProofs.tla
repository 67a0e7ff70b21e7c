-------------------------- MODULE PresentHookProofs --------------------------
(***************************************************************************)
(* Theorems about PresentHook, for any number of services, render threads  *)
(* and trampoline slots.                                                   *)
(***************************************************************************)
EXTENDS PresentHook, TLAPS

-----------------------------------------------------------------------------
(* Types *)

\* The static members and the process start with their types.
LEMMA InitType == Init => TypeOK
<1> SUFFICES ASSUME Init PROVE TypeOK
  OBVIOUS
<1>1. \A t \in Threads : pc[t] \in {"lock", "capture", "render"} => hook[t] # None
  BY DEF Init
<1> QED BY <1>1 DEF Init, TypeOK, Idle

\* The control thread's steps keep every type: its own variables take values
\* of theirs, and it leaves the detours' alone.
LEMMA ControlType ==
    ASSUME TypeOK, NEW s \in Services, Initialize(s) \/ Shutdown(s) \/ ControlStep(s)
    PROVE  TypeOK'
<1> USE DEF TypeOK, Idle, InstallSteps, RemoveSteps, service, minhook, detours, At, Goto
<1>1. CASE Initialize(s) BY <1>1 DEF Initialize
<1>2. CASE Shutdown(s) BY <1>2 DEF Shutdown
<1>3. CASE Claim(s) BY <1>3 DEF Claim
<1>0. ASSUME NEW f \in {"Error", "Unsupported"}, GiveUp(s, f), UNCHANGED minhook,
             original' \in Slots \cup {None}
      PROVE  TypeOK'
  BY <1>0 DEF GiveUp
<1>4. CASE ResolveTarget(s)
  <2>1. CASE \E f \in {"Error", "Unsupported"} : GiveUp(s, f)
    BY <1>0, <1>4, <2>1 DEF ResolveTarget
  <2>2. CASE Goto(s, "create") /\ UNCHANGED <<active, service, detours, crash>>
    BY <1>4, <2>2 DEF ResolveTarget
  <2> QED BY <1>4, <2>1, <2>2 DEF ResolveTarget
<1>5. CASE CreateHook(s)
  <2>1. CASE GiveUp(s, "Error") /\ UNCHANGED <<original, minhook>>
    BY <1>0, <2>1
  <2>2. CASE entry = "none" /\ UNCHANGED <<active, service, detours, crash>>
             /\ entry' = "disabled" /\ trampoline' \in Slots /\ original' = trampoline'
             /\ Goto(s, "enable") /\ UNCHANGED kept
    BY <2>2
  <2> QED BY <1>5, <2>1, <2>2 DEF CreateHook
<1>6. CASE EnableHook(s)
  <2>1. /\ entry' \in {"none", "disabled", "enabled"}
        /\ trampoline' \in Slots \cup {None} /\ kept' \in BOOLEAN
    BY <1>6 DEF EnableHook, RemoveEntry
  <2>2. /\ UNCHANGED <<active, original, service, detours, crash>>
        /\ control' \in [service : Services, step : {"run", "undo"}]
    BY <1>6 DEF EnableHook
  <2> QED BY <2>1, <2>2
<1>7. CASE UndoCreate(s) BY <1>7 DEF UndoCreate, GiveUp
<1>8. CASE FinishInstall(s) BY <1>8 DEF FinishInstall
<1>9. CASE DisableHook(s) BY <1>9 DEF DisableHook
<1>10. CASE FreeTrampoline(s) BY <1>10 DEF FreeTrampoline, RemoveEntry
<1>11. CASE ClearOriginal(s) BY <1>11 DEF ClearOriginal
<1>12. CASE FinishRemove(s) BY <1>12 DEF FinishRemove
<1>13. CASE StopRuntime(s) BY <1>13 DEF StopRuntime
<1> QED BY <1>1, <1>2, <1>3, <1>4, <1>5, <1>6, <1>7, <1>8, <1>9, <1>10, <1>11, <1>12, <1>13
        DEF ControlStep

\* A detour's steps keep every type; in particular the instance it goes on to
\* dispatch to is the one it tested, although active_instance_ may be null by
\* then.
LEMMA DetourType ==
    ASSUME TypeOK, NEW t \in Threads, Present(t) \/ DetourStep(t)
    PROVE  TypeOK'
<1> USE DEF TypeOK, Step, Idle, service, minhook
<1>1. CASE Present(t) BY <1>1 DEF Present
<1>2. CASE LoadInstance(t) BY <1>2 DEF LoadInstance
<1>3. CASE Lock(t) BY <1>3 DEF Lock
<1>4. CASE Capture(t) BY <1>4, ZenonT(40) DEF Capture, Unlock
<1>5. CASE Render(t) BY <1>5 DEF Render, Unlock
<1>6. CASE TestOriginal(t) BY <1>6 DEF TestOriginal
<1>7. CASE CallOriginal(t) BY <1>7 DEF CallOriginal
<1> QED BY <1>1, <1>2, <1>3, <1>4, <1>5, <1>6, <1>7 DEF DetourStep

\* A step that changes nothing keeps every type.
LEMMA StutterType == TypeOK /\ UNCHANGED vars => TypeOK'
BY DEF TypeOK, vars, minhook, service, detours, Idle

\* Every variable of the hooks keeps its type, and a detour never dispatches
\* to a null instance.
THEOREM TypeCorrect == Spec => []TypeOK
<1>1. TypeOK /\ [Next]_vars => TypeOK'
  BY ControlType, DetourType, StutterType DEF Next
<1> QED BY InitType, <1>1, PTL DEF Spec

-----------------------------------------------------------------------------
(* What the control thread keeps up between its steps.  The properties talk *)
(* about a patched entry or about the moment between two calls; they follow *)
(* from what holds at each step of Install, Remove and Shutdown.            *)

Doing(step) == control.step = step
Busy == control.service

\* MinHook's entry, its trampoline and original_present_ go together, but for
\* the statement after MinHook has let go of the trampoline, or has refused to.
EntryInv ==
    /\ entry = "none" <=> trampoline = None
    /\ original # None /\ original # trampoline => control.step \in {"clear", "undo"}
    /\ Doing("clear") \/ Doing("undo") => entry = "none" \/ kept
    /\ Doing("enable") => entry = "disabled"
    /\ Doing("free") => entry # "none"
    /\ entry = "disabled" => Doing("enable") \/ Doing("free") \/ kept
    /\ Doing("run") => entry = "enabled"
    /\ entry # "none" /\ ~kept => original = trampoline

\* What MinHook refused to remove stays, and nothing is installed over it.
KeptInv ==
    kept =>
        /\ entry # "none"
        /\ control.step \notin {"enable", "run", "disable", "free"}
        /\ IF control.step \in {"clear", "undo"} THEN original = trampoline ELSE original = None

\* The entry has one owner: the service whose hook_target_ is set, or the one
\* that is installing.
OwnerInv ==
    /\ \A s, o \in Services : target[s] /\ target[o] => s = o
    /\ \A s \in Services :
           target[s] => \/ entry = "enabled" /\ ~kept /\ ~Doing("run")
                        \/ Busy = s /\ control.step \in {"free", "clear"}
    /\ entry = "enabled" => kept \/ Doing("run") \/ \E s \in Services : target[s]
    /\ control.step \in {"disable", "free", "clear"} => target[Busy]
    /\ control.step \in InstallSteps \cup {"removed", "stop"} => ~target[Busy]

\* state_, hook_target_ and the two initialized_ flags agree, but for the last
\* statement of Remove.
StateInv ==
    /\ \A s \in Services : target[s] => state[s] = "Running" /\ ready[s] /\ initialized[s]
    /\ \A s \in Services :
           state[s] = "Running" => target[s] \/ (Doing("removed") /\ Busy = s)
    /\ control.step \in InstallSteps => ready[Busy]

\* active_instance_ belongs to whoever claimed it last and did not give up.
ActiveInv ==
    /\ control.step \in InstallSteps \ {"claim"} => active = Busy
    /\ active # None => \/ control.step \in InstallSteps \ {"claim"}
                        \/ target[active]
    /\ control.step \in RemoveSteps => active = None
    /\ \A s \in Services :
           target[s] => \/ active \in {s, None}
                        \/ control.step \in {"resolve", "create"}

ControlInv == EntryInv /\ KeptInv /\ OwnerInv /\ StateInv /\ ActiveInv

LEMMA InitControl == Init => ControlInv
BY HookAssumption DEF Init, Idle, ControlInv, EntryInv, KeptInv, OwnerInv, StateInv, ActiveInv,
                      Doing, Busy, InstallSteps, RemoveSteps

\* One step per action of the control thread, one leaf per conjunct.
LEMMA ControlKeeps ==
    ASSUME TypeOK, ControlInv, NEW s \in Services,
           Initialize(s) \/ Shutdown(s) \/ ControlStep(s)
    PROVE  ControlInv'
<1> USE HookAssumption DEF TypeOK, ControlInv, Idle, Doing, Busy, InstallSteps, RemoveSteps,
        service, minhook, At, Goto
<1>1. CASE Initialize(s)
  <2> USE <1>1 DEF Initialize
  <2>1. EntryInv' BY DEF EntryInv, KeptInv
  <2>2. OwnerInv' BY DEF OwnerInv, KeptInv, EntryInv, StateInv
  <2>3. StateInv' BY DEF StateInv
  <2>4. ActiveInv' BY DEF ActiveInv
  <2>5. KeptInv' BY DEF KeptInv, EntryInv, OwnerInv
  <2> QED BY <2>1, <2>2, <2>3, <2>4, <2>5
<1>2. CASE Shutdown(s)
  <2> USE <1>2 DEF Shutdown
  <2>1. EntryInv' BY DEF EntryInv, KeptInv
  <2>2. OwnerInv' BY DEF OwnerInv, KeptInv, EntryInv
  <2>3. StateInv' BY DEF StateInv
  <2>4. ActiveInv' BY DEF ActiveInv
  <2>5. KeptInv' BY DEF KeptInv, EntryInv, OwnerInv
  <2> QED BY <2>1, <2>2, <2>3, <2>4, <2>5
<1>3. CASE Claim(s)
  <2> USE <1>3 DEF Claim
  <2>1. EntryInv' BY DEF EntryInv, KeptInv
  <2>2. OwnerInv' BY DEF OwnerInv, KeptInv
  <2>3. StateInv' BY DEF StateInv, OwnerInv
  <2>4. ActiveInv' BY DEF ActiveInv
  <2>5. KeptInv' BY DEF KeptInv, EntryInv, OwnerInv
  <2> QED BY <2>1, <2>2, <2>3, <2>4, <2>5
<1>4. CASE ResolveTarget(s)
  <2> USE <1>4 DEF ResolveTarget, GiveUp
  <2>1. EntryInv' BY DEF EntryInv, KeptInv
  <2>2. OwnerInv' BY DEF OwnerInv, KeptInv
  <2>3. StateInv' BY DEF StateInv, OwnerInv
  <2>4. ActiveInv' BY DEF ActiveInv, OwnerInv
  <2>5. KeptInv' BY DEF KeptInv, EntryInv, OwnerInv
  <2> QED BY <2>1, <2>2, <2>3, <2>4, <2>5
<1>5. CASE CreateHook(s)
  <2> USE <1>5 DEF CreateHook, GiveUp
  <2>1. EntryInv' BY DEF EntryInv, KeptInv
  <2>2. OwnerInv' BY DEF OwnerInv, KeptInv, EntryInv
  <2>3. StateInv' BY DEF StateInv, OwnerInv
  <2>4. ActiveInv' BY DEF ActiveInv, OwnerInv
  <2>5. KeptInv'
    <3>1. CASE kept
      BY <3>1 DEF KeptInv
    <3>2. CASE ~kept
      BY <3>2 DEF KeptInv
    <3> QED BY <3>1, <3>2
  <2> QED BY <2>1, <2>2, <2>3, <2>4, <2>5
<1>6. CASE EnableHook(s)
  <2> USE <1>6 DEF EnableHook, RemoveEntry
  <2>1. EntryInv' BY DEF EntryInv, KeptInv
  <2>2. OwnerInv' BY DEF OwnerInv, KeptInv, EntryInv
  <2>3. StateInv' BY DEF StateInv
  <2>4. ActiveInv' BY DEF ActiveInv
  <2>5. KeptInv'
    <3>1. ~kept /\ entry # "none" /\ original = trampoline
      BY DEF KeptInv, EntryInv
    <3>2. CASE UNCHANGED kept
      BY <3>1, <3>2 DEF KeptInv
    <3>3. CASE kept' = TRUE /\ UNCHANGED <<entry, trampoline>> /\ Goto(s, "undo")
      BY <3>1, <3>3 DEF KeptInv
    <3> QED BY <3>1, <3>2, <3>3
  <2> QED BY <2>1, <2>2, <2>3, <2>4, <2>5
<1>7. CASE UndoCreate(s)
  <2> USE <1>7 DEF UndoCreate, GiveUp
  <2>1. EntryInv' BY DEF EntryInv, KeptInv
  <2>2. OwnerInv' BY DEF OwnerInv, KeptInv, EntryInv
  <2>3. StateInv' BY DEF StateInv, OwnerInv
  <2>4. ActiveInv' BY DEF ActiveInv, OwnerInv, EntryInv
  <2>5. KeptInv' BY DEF KeptInv, EntryInv, OwnerInv
  <2> QED BY <2>1, <2>2, <2>3, <2>4, <2>5
<1>8. CASE FinishInstall(s)
  <2> USE <1>8 DEF FinishInstall
  <2>1. EntryInv' BY DEF EntryInv, KeptInv
  <2>2. OwnerInv' BY DEF OwnerInv, KeptInv, EntryInv
  <2>3. StateInv' BY DEF StateInv
  <2>4. ActiveInv' BY DEF ActiveInv, OwnerInv, EntryInv
  <2>5. KeptInv' BY DEF KeptInv, EntryInv, OwnerInv
  <2> QED BY <2>1, <2>2, <2>3, <2>4, <2>5
<1>9. CASE DisableHook(s)
  <2> USE <1>9 DEF DisableHook
  <2>1. EntryInv' BY DEF EntryInv, KeptInv, OwnerInv
  <2>2. OwnerInv' BY DEF OwnerInv, KeptInv, EntryInv
  <2>3. StateInv' BY DEF StateInv
  <2>4. ActiveInv' BY DEF ActiveInv
  <2>5. KeptInv' BY DEF KeptInv, EntryInv, OwnerInv
  <2> QED BY <2>1, <2>2, <2>3, <2>4, <2>5
<1>10. CASE FreeTrampoline(s)
  <2> USE <1>10 DEF FreeTrampoline, RemoveEntry
  <2>1. EntryInv' BY DEF EntryInv, KeptInv
  <2>2. OwnerInv' BY DEF OwnerInv, KeptInv, EntryInv
  <2>3. StateInv' BY DEF StateInv
  <2>4. ActiveInv' BY DEF ActiveInv
  <2>5. KeptInv' BY DEF KeptInv, EntryInv, OwnerInv
  <2> QED BY <2>1, <2>2, <2>3, <2>4, <2>5
<1>11. CASE ClearOriginal(s)
  <2> USE <1>11 DEF ClearOriginal
  <2>1. EntryInv' BY DEF EntryInv, KeptInv
  <2>2. OwnerInv' BY DEF OwnerInv, KeptInv, EntryInv
  <2>3. StateInv' BY DEF StateInv
  <2>4. ActiveInv' BY DEF ActiveInv
  <2>5. KeptInv' BY DEF KeptInv, EntryInv, OwnerInv
  <2> QED BY <2>1, <2>2, <2>3, <2>4, <2>5
<1>12. CASE FinishRemove(s)
  <2> USE <1>12 DEF FinishRemove
  <2>1. EntryInv' BY DEF EntryInv, KeptInv
  <2>2. OwnerInv' BY DEF OwnerInv, KeptInv
  <2>3. StateInv' BY DEF StateInv, OwnerInv
  <2>4. ActiveInv' BY DEF ActiveInv
  <2>5. KeptInv' BY DEF KeptInv, EntryInv, OwnerInv
  <2> QED BY <2>1, <2>2, <2>3, <2>4, <2>5
<1>13. CASE StopRuntime(s)
  <2> USE <1>13 DEF StopRuntime
  <2>1. EntryInv' BY DEF EntryInv, KeptInv
  <2>2. OwnerInv' BY DEF OwnerInv, KeptInv
  <2>3. StateInv' BY DEF StateInv, OwnerInv
  <2>4. ActiveInv' BY DEF ActiveInv
  <2>5. KeptInv' BY DEF KeptInv, EntryInv, OwnerInv
  <2> QED BY <2>1, <2>2, <2>3, <2>4, <2>5
<1> QED BY <1>1, <1>2, <1>3, <1>4, <1>5, <1>6, <1>7, <1>8, <1>9, <1>10, <1>11, <1>12, <1>13
        DEF ControlStep

\* Detours read the statics and write nothing of the control thread's.
LEMMA DetoursKeepControl ==
    ASSUME NEW t \in Threads, Present(t) \/ DetourStep(t)
    PROVE  UNCHANGED <<active, original, minhook, service, control>>
BY DEF DetourStep, Present, LoadInstance, Lock, Capture, Render, TestOriginal, CallOriginal

LEMMA UnchangedControl ==
    ControlInv /\ UNCHANGED <<active, original, minhook, service, control>> => ControlInv'
BY DEF ControlInv, EntryInv, KeptInv, OwnerInv, StateInv, ActiveInv, Doing, Busy, minhook, service

\* What Install, Remove and Shutdown keep up holds between any two steps.
THEOREM ControlCorrect == Spec => []ControlInv
<1>1. TypeOK /\ ControlInv /\ [Next]_vars => ControlInv'
  <2> SUFFICES ASSUME TypeOK, ControlInv, [Next]_vars PROVE ControlInv'
    OBVIOUS
  <2>1. CASE \E s \in Services : Initialize(s) \/ Shutdown(s) \/ ControlStep(s)
    BY <2>1, ControlKeeps
  <2>2. CASE \E t \in Threads : Present(t) \/ DetourStep(t)
    BY <2>2, DetoursKeepControl, UnchangedControl
  <2>3. CASE UNCHANGED vars
    BY <2>3, UnchangedControl DEF vars
  <2> QED BY <2>1, <2>2, <2>3 DEF Next
<1> QED BY InitControl, <1>1, TypeCorrect, PTL DEF Spec

-----------------------------------------------------------------------------
(* What callers and render threads rely on *)

\* Whatever the control thread is doing and whichever call of MinHook fails, a
\* present that enters the patched function finds the trampoline it has to
\* call, unless MinHook refused to remove the hook and Remove is over.
THEOREM PatchedTrampoline == Spec => []PatchedHasTrampoline
<1>1. ControlInv => PatchedHasTrampoline
  BY HookAssumption DEF ControlInv, EntryInv, KeptInv, PatchedHasTrampoline, Doing
<1> QED BY <1>1, ControlCorrect, PTL

\* original_present_ outlives its trampoline for one statement of Remove and
\* one of a failed Install, and nowhere else, whatever MinHook refuses.
THEOREM DanglingInsideRemove == Spec => []DanglingOnlyInsideRemove
<1>1. ControlInv => DanglingOnlyInsideRemove
  BY DEF ControlInv, EntryInv, DanglingOnlyInsideRemove
<1> QED BY <1>1, ControlCorrect, PTL

\* Between calls the hooks' states tell the truth, whichever steps failed, and
\* when no hook runs nothing of MinHook's is left, or MinHook refused to remove
\* it: then none ever runs again.
THEOREM QuietConsistent == Spec => []QuietStateIsConsistent
<1>1. TypeOK /\ ControlInv => QuietStateIsConsistent
  <2> SUFFICES ASSUME TypeOK, ControlInv, control = Idle
               PROVE  /\ \A s \in Services : state[s] = "Running" =>
                             /\ entry = "enabled" /\ target[s] /\ ready[s] /\ initialized[s]
                             /\ active \in {s, None} /\ ~kept
                             /\ \A other \in Services \ {s} : state[other] # "Running"
                      /\ (\A s \in Services : state[s] # "Running") =>
                             /\ original = None /\ active = None
                             /\ kept <=> entry # "none"
                             /\ kept <=> trampoline # None
    BY DEF QuietStateIsConsistent
  <2>1. control.step = "idle" BY DEF Idle
  <2>2. \A s \in Services : state[s] = "Running" <=> target[s]
    BY <2>1 DEF ControlInv, StateInv, Doing
  <2>3. \A s \in Services : target[s] =>
            entry = "enabled" /\ ~kept /\ ready[s] /\ initialized[s] /\ active \in {s, None}
    BY <2>1 DEF ControlInv, OwnerInv, StateInv, ActiveInv, Doing
  <2>4. \A s, other \in Services : target[s] /\ target[other] => s = other
    BY DEF ControlInv, OwnerInv
  <2>5. ASSUME \A s \in Services : ~target[s]
        PROVE  original = None /\ active = None /\ (kept <=> entry # "none")
               /\ (kept <=> trampoline # None)
    <3>1. kept <=> entry # "none"
      BY <2>1, <2>5 DEF ControlInv, OwnerInv, EntryInv, KeptInv, Doing, TypeOK
    <3>2. active = None
      BY <2>1, <2>5 DEF ControlInv, ActiveInv, InstallSteps, TypeOK
    <3>3. original = None
      BY <2>1, <3>1 DEF ControlInv, EntryInv, KeptInv
    <3> QED BY <3>1, <3>2, <3>3 DEF ControlInv, EntryInv
  <2> QED BY <2>2, <2>3, <2>4, <2>5
<1> QED BY <1>1, TypeCorrect, ControlCorrect, PTL

\* A render thread inside OnPresent holds the mutex of the runtime it loaded.
HoldsMutex == \A t \in Threads : InOnPresent(t) => mutex[hook[t]] = t

\* No two render threads are inside one session's OnPresent, whatever the
\* control thread does to the service meanwhile.
THEOREM OnPresentExclusion == Spec => []OnPresentIsExclusive
<1>1. Init => HoldsMutex
  BY DEF Init, HoldsMutex, InOnPresent
<1>2. TypeOK /\ HoldsMutex /\ [Next]_vars => HoldsMutex'
  <2> SUFFICES ASSUME TypeOK, HoldsMutex, [Next]_vars PROVE HoldsMutex'
    OBVIOUS
  <2> USE DEF HoldsMutex, InOnPresent, TypeOK, Step
  <2>1. ASSUME NEW s \in Services, Initialize(s) \/ Shutdown(s) \/ ControlStep(s)
        PROVE  HoldsMutex'
    <3>1. UNCHANGED detours
      BY <2>1 DEF ControlStep, Initialize, Shutdown, Claim, ResolveTarget, CreateHook, GiveUp,
            EnableHook, UndoCreate, FinishInstall, DisableHook, FreeTrampoline, ClearOriginal,
            FinishRemove, StopRuntime
    <3> QED BY <3>1 DEF detours
  <2>2. ASSUME NEW t \in Threads, Present(t) \/ DetourStep(t)
        PROVE  HoldsMutex'
    <3>1. CASE Present(t) BY <3>1 DEF Present
    <3>2. CASE LoadInstance(t) BY <3>2 DEF LoadInstance
    <3>3. CASE Lock(t) BY <3>3, HookAssumption DEF Lock
    <3>4. CASE Capture(t)
      <4>1. CASE pc' = [pc EXCEPT ![t] = "render"] /\ UNCHANGED <<mutex, hook>>
        BY <3>4, <4>1 DEF Capture
      <4>2. CASE pc' = [pc EXCEPT ![t] = "original"] /\ Unlock(t)
        <5> SUFFICES ASSUME NEW u \in Threads, InOnPresent(u)' PROVE (mutex[hook[u]] = u)'
          OBVIOUS
        <5>1. u # t /\ InOnPresent(u) /\ hook'[u] = hook[u]
          BY <4>2 DEF Unlock
        <5>2. mutex[hook[t]] = t /\ mutex[hook[u]] = u
          BY <3>4, <5>1 DEF Capture
        <5>3. mutex' = [mutex EXCEPT ![hook[t]] = None]
          BY <4>2 DEF Unlock
        <5>4. hook[u] \in Services /\ hook[u] # hook[t]
          BY <5>1, <5>2
        <5>5. mutex'[hook[u]] = mutex[hook[u]]
          BY <5>3, <5>4
        <5> QED BY <5>1, <5>2, <5>5
      <4> QED BY <3>4, <4>1, <4>2 DEF Capture
    <3>5. CASE Render(t) BY <3>5 DEF Render, Unlock
    <3>6. CASE TestOriginal(t) BY <3>6 DEF TestOriginal
    <3>7. CASE CallOriginal(t) BY <3>7 DEF CallOriginal
    <3> QED BY <2>2, <3>1, <3>2, <3>3, <3>4, <3>5, <3>6, <3>7 DEF DetourStep
  <2>3. CASE UNCHANGED vars
    BY <2>3 DEF vars, detours
  <2> QED BY <2>1, <2>2, <2>3 DEF Next
<1>3. HoldsMutex => OnPresentIsExclusive
  BY DEF HoldsMutex, OnPresentIsExclusive
<1> QED BY <1>1, <1>2, <1>3, TypeCorrect, PTL DEF Spec
=============================================================================
