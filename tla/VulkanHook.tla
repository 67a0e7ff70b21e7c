----------------------------- MODULE VulkanHook -----------------------------
(***************************************************************************)
(* The Vulkan present hook (src/hooks/vulkan/vulkan_present_hook_win.cpp). *)
(* Unlike the DX11 and DX12 hooks it does not ask whether it is installed  *)
(* already, and a Remove of an instance that is not Running clears the     *)
(* static claim, whoever has it.  One thread controls the hooks, call by   *)
(* call; the game presents on another.  MinHook and the loader are         *)
(* external: each of their calls may fail; Remove looks at no result, and  *)
(* what was not taken out or not removed stays.                            *)
(***************************************************************************)
CONSTANTS Hooks, NoHook

ASSUME VulkanAssumption == NoHook \notin Hooks

VARIABLES
    claim,       \* active_instance_
    trampoline,  \* original_present_ is set
    hookState,   \* state_ of each instance
    created, enabled,  \* MinHook's hook of vkQueuePresentKHR
    call,        \* the control call going on: [hook, at]
    present,     \* where the game's present is: "out", "detour", "original"
    stuck,       \* history: neither MinHook call of Remove took the patch out
    undoing,     \* history: a hook was undone during this present
    skipped      \* history: a present not undone so never reached Vulkan

mhVars      == <<created, enabled>>
presentVars == <<present, stuck, undoing, skipped>>
vulkanVars  == <<claim, trampoline, hookState, mhVars, call, presentVars>>

NoCall == [hook |-> NoHook, at |-> "idle"]
Idle   == call = NoCall

VulkanIdle ==
    /\ claim = NoHook /\ trampoline = FALSE
    /\ hookState = [h \in Hooks |-> "Ready"]
    /\ created = FALSE /\ enabled = FALSE
    /\ call = NoCall
    /\ present = "out" /\ stuck = FALSE /\ undoing = FALSE /\ skipped = FALSE

Proceed(from, to) == call.at = from /\ call' = [call EXCEPT !.at = to] /\ UNCHANGED presentVars

Return(from, state) ==
    /\ call.at = from /\ call' = NoCall
    /\ hookState' = [hookState EXCEPT ![call.hook] = state]

\* Install takes the claim; the hook that has it already is refused as any
\* other would be.
Install(hook) ==
    /\ Idle
    /\ IF claim = NoHook
       THEN claim' = hook /\ call' = [hook |-> hook, at |-> "create"] /\ UNCHANGED hookState
       ELSE /\ hookState' = [hookState EXCEPT ![hook] = "Error"]
            /\ UNCHANGED <<claim, call>>
    /\ UNCHANGED <<trampoline, mhVars, presentVars>>

\* A failure that leaves the claim taken.
GiveUpClaimed(state) ==
    /\ Return("create", state)
    /\ UNCHANGED <<claim, trampoline, mhVars, presentVars>>

\* No vulkan-1.dll, or MinHook cannot be initialized or create the hook.
GiveUp(state) ==
    /\ Return("create", state) /\ claim' = NoHook
    /\ UNCHANGED <<trampoline, mhVars, presentVars>>

\* The trampoline kept in a local of Install.
CreateLocal ==
    /\ Proceed("create", "enable")
    /\ ~created /\ created' = TRUE
    /\ UNCHANGED <<claim, trampoline, hookState, enabled>>

\* MH_CreateHookApi stores the trampoline; a hook that is there already is an
\* error.
Create ==
    /\ Proceed("create", "enable")
    /\ ~created /\ created' = TRUE /\ trampoline' = TRUE
    /\ UNCHANGED <<claim, hookState, enabled>>

Enable ==
    /\ Return("enable", "Running")
    /\ enabled' = TRUE
    /\ UNCHANGED <<claim, trampoline, created, presentVars>>

\* MH_EnableHook failed.
UndoCreate ==
    /\ Return("enable", "Error")
    /\ created' \in BOOLEAN /\ trampoline' = FALSE /\ claim' = NoHook
    /\ undoing' = TRUE
    /\ UNCHANGED <<enabled, present, stuck, skipped>>

\* Remove of a hook that is not Running clears the claim and no more.
RemoveNotRunning(hook) ==
    /\ Idle /\ hookState[hook] # "Running"
    /\ claim' = NoHook
    /\ UNCHANGED <<trampoline, hookState, mhVars, call, presentVars>>

Remove(hook) ==
    /\ Idle /\ hookState[hook] = "Running"
    /\ call' = [hook |-> hook, at |-> "disable"]
    /\ UNCHANGED <<claim, trampoline, hookState, mhVars, presentVars>>

\* MH_DisableHook, then MH_RemoveHook, which takes out a patch that is still
\* in: each works or does not.
Disable ==
    /\ call.at = "disable" /\ call' = [call EXCEPT !.at = "clear"]
    /\ created' \in BOOLEAN /\ enabled' \in {FALSE, enabled /\ created'}
    /\ stuck' = (stuck \/ enabled') /\ undoing' = TRUE
    /\ UNCHANGED <<claim, trampoline, hookState, present, skipped>>

Clear ==
    /\ Return("clear", "Ready")
    /\ trampoline' = FALSE /\ undoing' = TRUE
    /\ claim' = IF claim = call.hook THEN NoHook ELSE claim
    /\ UNCHANGED <<mhVars, present, stuck, skipped>>

-----------------------------------------------------------------------------
(* HookQueuePresent on the game's thread. *)

PresentStep == UNCHANGED <<claim, trampoline, hookState, mhVars, call>>

BeginPresent ==
    /\ enabled /\ present = "out" /\ present' = "detour"
    /\ undoing' = (call.at = "clear")
    /\ PresentStep /\ UNCHANGED <<stuck, skipped>>

\* The callback of the instance that has the claim, if one has, runs first.
CallOriginal ==
    /\ present = "detour" /\ trampoline /\ present' = "original"
    /\ PresentStep /\ UNCHANGED <<stuck, undoing, skipped>>

ReturnSuccess ==
    /\ present = "detour" /\ ~trampoline /\ present' = "out"
    /\ undoing' = FALSE /\ skipped' = (skipped \/ ~undoing)
    /\ PresentStep /\ UNCHANGED stuck

EndPresent ==
    /\ present = "original" /\ present' = "out" /\ undoing' = FALSE
    /\ PresentStep /\ UNCHANGED <<stuck, skipped>>

VulkanNext ==
    \/ \E hook \in Hooks: Install(hook) \/ Remove(hook) \/ RemoveNotRunning(hook)
    \/ \E state \in {"Error", "Unsupported"}: GiveUp(state)
    \/ Create \/ Enable \/ UndoCreate \/ Disable \/ Clear
    \/ BeginPresent \/ CallOriginal \/ ReturnSuccess \/ EndPresent

VulkanSpec == VulkanIdle /\ [][VulkanNext]_vulkanVars

-----------------------------------------------------------------------------

\* Between two control calls, whatever failed and whoever cleared whose claim:
\* a patched vkQueuePresentKHR finds its original, and a claim is only held
\* over a patched one, so a failed Install does not keep others out.  A patch
\* Remove could not take out has lost its original, and nobody holds a claim
\* over it: it stays as it is.
QuietHook ==
    Idle => /\ enabled => (trampoline <=> ~stuck)
            /\ claim # NoHook => enabled /\ ~stuck
            /\ stuck => enabled

\* A present returns without having reached Vulkan only if the hook was being
\* undone around it, or MinHook refused twice to take the patch out.
PresentsGoThrough == skipped => stuck

=============================================================================
