------------------------------ MODULE Programs ------------------------------
(***************************************************************************)
(* The programs around the core, checked in one run: the viewer, the debug *)
(* window's frames and its settings, the DX11 overlay in a game, and the   *)
(* Vulkan hook.  They share no state but the feed's; a behaviour is one of *)
(* exactly one of them, and the others stay as they are before they start. *)
(* MC definitions give the constants of Programs.cfg their values.         *)
(***************************************************************************)
EXTENDS Viewer, DebugFrames, DebugWindow, Overlay, VulkanHook

Window(id, title, owner) ==
    [id |-> id, title |-> title, owner |-> owner, large |-> TRUE, x |-> 300, width |-> 400]

\* A game with a title, and a tool that has only an owner.
MCWindows   == { Window(1, {"game"}, {"studio"}), Window(2, {}, {"mine"}) }
MCOwnWindow == Window(3, {"FrameWatch", "Debug"}, {"framewatch"})
\* Following comes from the file.
MCOptions   == { [title |-> {}, follow |-> FALSE], [title |-> {"mine"}, follow |-> FALSE] }
MCScreen    == [x |-> 0, width |-> 2000]
MCAddress   == [c \in Chains |-> IF c = "s3" THEN 2 ELSE 1]

VARIABLE program

ProgramsInit ==
    /\ program \in {"viewer", "frames", "window", "overlay", "vulkan"}
    /\ ReaderInit /\ main = "start" /\ ViewerIdle /\ DebugIdle
    /\ DebugWindowInit
    /\ OverlayInit
    /\ VulkanIdle

viewerOnly == <<shownVars, samplerVars>>

\* A step of the viewer, and of nothing else.
InViewer(step) ==
    /\ program = "viewer" /\ step
    /\ UNCHANGED <<program, frameVars, debugWindowVars, overlayVars, vulkanVars>>

\* The same of the debug window's loop.
InFrames(step) ==
    /\ program = "frames" /\ step
    /\ UNCHANGED <<program, viewerOnly, debugWindowVars, overlayVars, vulkanVars>>

ProgramsNext ==
    \/ InViewer(ViewerNext)
    \/ InFrames(DebugNext)
    \/ program = "window" /\ DebugWindowNext
       /\ UNCHANGED <<program, viewerOnly, debugVars, overlayVars, vulkanVars>>
    \/ program = "overlay" /\ OverlayNext
       /\ UNCHANGED <<program, viewerOnly, debugVars, debugWindowVars, vulkanVars>>
    \/ program = "vulkan" /\ VulkanNext
       /\ UNCHANGED <<program, viewerOnly, debugVars, debugWindowVars, overlayVars>>

programsVars ==
    <<program, viewerOnly, debugVars, debugWindowVars, overlayVars, vulkanVars>>

\* Both loops turn, whatever the user and the games do, and the sampler runs.
ProgramsSpec ==
    /\ ProgramsInit /\ [][ProgramsNext]_programsVars
    /\ WF_programsVars(InViewer(LoopNext)) /\ WF_programsVars(InViewer(SamplerNext))
    /\ WF_programsVars(InFrames(DebugLoop))
=============================================================================
