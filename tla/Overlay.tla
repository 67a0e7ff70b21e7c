------------------------------ MODULE Overlay ------------------------------
(***************************************************************************)
(* The overlay's renderer in a DX11 game                                   *)
(* (src/overlay/dx11/dx11_overlay_renderer_win.cpp): Render runs on the    *)
(* game's render thread inside Present, OverlayWindowProc on the thread    *)
(* that owns the game's window, Shutdown on the thread that ends the       *)
(* service, without OverlayRuntime's mutex.  PresentHook has the detour    *)
(* and the mutex around Render; here a present is a present that reaches   *)
(* it.                                                                     *)
(*                                                                         *)
(* Other programs subclass windows too: `other' is one of them.  A swap    *)
(* chain is an object at an address; the allocator may put a new object    *)
(* where a released one was.  Where a render and Shutdown overlap anything *)
(* may happen (life = "overlapped"), and the model goes no further.        *)
(***************************************************************************)
CONSTANTS
    Chains,      \* the swap chains: one that nobody refers to stands for a new one
    Address,     \* where each one is
    NoChain, NoProc

ASSUME OverlayAssumption ==
    /\ NoChain \notin Chains /\ DOMAIN Address = Chains
    /\ NoProc \notin {"game", "ours", "other"}

VARIABLES
    life,        \* "up", then the steps of Shutdown, "stopped" or "overlapped"
    render,      \* where the render thread is, "out" outside Render
    own,         \* the game's swap chain
    bound, view, \* bound_swap_chain_ with its device; the chain the view is of
    proc, prop,  \* the window: its procedure, and whether it has our property
    hooked, original, previous,  \* hooked_window_, original_wnd_proc_, and the
                                 \* local of EnsureWindowHookInstalled
    other,       \* the other subclass: [in, prev]
    message,     \* a message on its way: "none", "ours", "handle"
    disturbed,   \* history: an install or a removal ran meanwhile
    outOfOrder,  \* history: a subclass was removed from under another one
    lost,        \* history: an undisturbed message did not reach the game
    shown,       \* show_overlay
    dirty,       \* settings_dirty_
    stored       \* the settings file loads as the settings are ("current"), as
                 \* they were before a change ("old"), or as nothing ("cut")

chainVars    == <<own, bound, view>>
windowVars   == <<proc, prop, hooked, original, previous, other, outOfOrder>>
messageVars  == <<message, disturbed, lost>>
settingVars  == <<shown, dirty, stored>>
overlayVars  == <<life, render, chainVars, windowVars, messageVars, settingVars>>

OverlayIdle ==
    /\ render = "out"
    /\ own = NoChain /\ bound = NoChain /\ view = NoChain
    /\ proc = "game" /\ prop = FALSE
    /\ hooked = FALSE /\ original = NoProc /\ previous = NoProc
    /\ other = [in |-> FALSE, prev |-> NoProc]
    /\ message = "none" /\ disturbed = FALSE /\ outOfOrder = FALSE /\ lost = FALSE
    /\ dirty = FALSE /\ stored = "current"

\* Initialize: the settings are the file's, or the defaults.
OverlayInit == life = "up" /\ OverlayIdle /\ shown = TRUE

-----------------------------------------------------------------------------
(* The game's swap chains, created and released between its presents. *)

\* Of an overlay that keeps the pointer without a reference.
AliveInGame(chain) == chain = own

\* A chain lives while the game or the overlay has a reference to it.
Alive(chain) == chain \in {own, bound}

CreateChain(chain) ==
    /\ life # "overlapped" /\ render = "out" /\ own = NoChain
    /\ chain \notin {bound, view}
    /\ \A c \in Chains: Alive(c) => Address[c] # Address[chain]
    /\ own' = chain
    /\ UNCHANGED <<life, render, bound, view, windowVars, messageVars, settingVars>>

ReleaseChain ==
    /\ life # "overlapped" /\ render = "out" /\ own # NoChain
    /\ own' = NoChain
    /\ UNCHANGED <<life, render, bound, view, windowVars, messageVars, settingVars>>

-----------------------------------------------------------------------------
(* Settings. *)

\* A save that forgets the change it could not write.
SaveOnce(nowDirty, nowStored) ==
    \/ dirty' = FALSE /\ stored' = nowStored
    \/ nowDirty /\ dirty' = FALSE /\ stored' \in {"current", "cut"}

\* SaveSettingsIfDirty: nothing to save; saved, or cut short behind good()'s
\* back; not opened, or cut short (SaveOutcomes of OverlaySettings).
SaveSettingsIfDirty(nowDirty, nowStored) ==
    \/ ~nowDirty /\ dirty' = FALSE /\ stored' = nowStored
    \/ nowDirty /\ dirty' = FALSE /\ stored' \in {"current", "cut"}
    \/ nowDirty /\ dirty' = TRUE /\ stored' \in {nowStored, "cut"}

\* What the file is to settings that have changed.
Outdated(s) == IF s = "current" THEN "old" ELSE s

\* Keys or widgets change some settings ("look" stands for all but
\* show_overlay), and the change is saved at once.
ChangeSettings(changed) ==
    /\ shown' = (shown # ("shown" \in changed))
    /\ IF changed = {} THEN SaveSettingsIfDirty(dirty, stored)
       ELSE SaveSettingsIfDirty(TRUE, Outdated(stored))

-----------------------------------------------------------------------------
(* Render. *)

RenderGoto(from, to) ==
    /\ life # "overlapped" /\ render = from /\ render' = to
    /\ UNCHANGED <<life, own>>

\* HandleHotkeys and the save, then the early returns: hidden, or a present
\* without a DX11 swap chain.  A present that entered the detour before it was
\* taken out may get here afterwards.
BeginRender ==
    /\ life \in {"up", "unhooked"} /\ own # NoChain
    /\ \E pressed \in SUBSET {"shown", "look"}: ChangeSettings(pressed)
    /\ \/ shown' /\ RenderGoto("out", "bind")
       \/ RenderGoto("out", "out")
    /\ UNCHANGED <<bound, view, windowVars, messageVars>>

\* The same, when Shutdown has begun: neither initialized_ is FALSE before
\* Shutdown's end, so the present renders, and binds what is being released.
\* After Shutdown it returns at once.
LateRender ==
    /\ life \in {"restore", "forget", "release"} /\ own # NoChain
    /\ life' = "overlapped"
    /\ UNCHANGED <<render, chainVars, windowVars, messageVars, settingVars>>

\* BindSwapChain compares pointers.
BoundAlready == bound # NoChain /\ Address[bound] = Address[own]

KeepBound ==
    /\ RenderGoto("bind", "view") /\ BoundAlready
    /\ UNCHANGED <<bound, view, windowVars, messageVars, settingVars>>

Unbind ==
    /\ RenderGoto("bind", IF hooked THEN "restore" ELSE "rebind") /\ ~BoundAlready
    /\ UNCHANGED <<bound, view, windowVars, messageVars, settingVars>>

\* What was held is released and the chain is taken with a reference; without
\* a device or a context all is released again.
Rebind ==
    /\ view' = NoChain
    /\ \/ bound' = own /\ RenderGoto("rebind", "view")
       \/ bound' = NoChain /\ RenderGoto("rebind", "out")
    /\ UNCHANGED <<windowVars, messageVars, settingVars>>

\* EnsureRenderTargetView: the view is kept while the size stays, made anew
\* when it changed or there is none, or something fails.
EnsureRenderTargetView ==
    /\ \/ view # NoChain /\ view' = view /\ RenderGoto("view", "install")
       \/ view' = own /\ RenderGoto("view", "install")
       \/ view' \in {view, NoChain} /\ RenderGoto("view", "out")
    /\ UNCHANGED <<bound, windowVars, messageVars, settingVars>>

\* RenderOverlayWindow, whose widgets change settings too, the save and the
\* drawing.
Draw ==
    /\ RenderGoto("draw", "out")
    /\ \E changed \in SUBSET {"look"}: ChangeSettings(changed)
    /\ UNCHANGED <<bound, view, windowVars, messageVars>>

-----------------------------------------------------------------------------
(* Subclassing the window: EnsureWindowHookInstalled and RemoveWindowHook. *)

\* No window, or one that is gone by now: a frame without the hook.  Already
\* installed: nothing to do; else the property comes first.
EnsureWindowHookInstalled ==
    /\ \/ RenderGoto("install", "draw") /\ UNCHANGED <<prop, disturbed>>
       \/ /\ ~(hooked /\ original # NoProc)
          /\ RenderGoto("install", "swap") /\ prop' = TRUE /\ disturbed' = TRUE
    /\ UNCHANGED <<bound, view, proc, hooked, original, previous, other, outOfOrder,
                   message, lost, settingVars>>

\* SetWindowLongPtr puts our procedure in place, or fails.
SwapProc ==
    /\ \/ RenderGoto("swap", "store") /\ proc' = "ours" /\ previous' = proc /\ UNCHANGED prop
       \/ RenderGoto("swap", "draw") /\ prop' = FALSE /\ UNCHANGED <<proc, previous>>
    /\ disturbed' = TRUE
    /\ UNCHANGED <<bound, view, hooked, original, other, outOfOrder, message, lost, settingVars>>

StoreOriginal ==
    /\ RenderGoto("store", "draw")
    /\ hooked' = TRUE /\ original' = previous /\ previous' = NoProc
    /\ disturbed' = TRUE
    /\ UNCHANGED <<bound, view, proc, prop, other, outOfOrder, message, lost, settingVars>>

\* A removal that leaves the window's procedure as it is.
RestoreNothing ==
    disturbed' = TRUE /\ UNCHANGED <<proc, outOfOrder>>

\* RemoveWindowHook: the procedure is set to what it was before ours, whatever
\* it is by now...
RestoreProc ==
    /\ proc' = original
    /\ outOfOrder' = (outOfOrder \/ proc # "ours")
    /\ disturbed' = TRUE

\* A removal that leaves the window its property.
ForgetPointers ==
    /\ prop' = prop /\ original' = NoProc /\ hooked' = FALSE
    /\ disturbed' = TRUE

\* ... and the hook is forgotten.
ForgetHook ==
    /\ prop' = FALSE /\ original' = NoProc /\ hooked' = FALSE
    /\ disturbed' = TRUE

RenderRestores ==
    /\ RenderGoto("restore", "forget") /\ RestoreProc
    /\ UNCHANGED <<bound, view, prop, hooked, original, previous, other, message, lost, settingVars>>

RenderForgets ==
    /\ RenderGoto("forget", "rebind") /\ ForgetHook
    /\ UNCHANGED <<bound, view, proc, previous, other, outOfOrder, message, lost, settingVars>>

-----------------------------------------------------------------------------
(* Shutdown, after the detour was taken out. *)

RemoveDetour ==
    /\ life = "up" /\ life' = "unhooked"
    /\ UNCHANGED <<render, chainVars, windowVars, messageVars, settingVars>>

\* It waits for nobody: a render may still be going on.
ShutdownSaves ==
    /\ life = "unhooked"
    /\ life' = IF render # "out" THEN "overlapped" ELSE IF hooked THEN "restore" ELSE "release"
    /\ SaveSettingsIfDirty(dirty, stored)
    /\ UNCHANGED <<render, chainVars, windowVars, messageVars, shown>>

ShutdownRestores ==
    /\ life = "restore" /\ life' = "forget" /\ RestoreProc
    /\ UNCHANGED <<render, chainVars, prop, hooked, original, previous, other,
                   message, lost, settingVars>>

ShutdownForgets ==
    /\ life = "forget" /\ life' = "release" /\ ForgetHook
    /\ UNCHANGED <<render, chainVars, proc, previous, other, outOfOrder,
                   message, lost, settingVars>>

ShutdownReleases ==
    /\ life = "release" /\ life' = "stopped"
    /\ bound' = NoChain /\ view' = NoChain
    /\ UNCHANGED <<render, own, windowVars, messageVars, settingVars>>

-----------------------------------------------------------------------------
(* The window's thread, and the other subclass. *)

MessageEnds(reachedGame) ==
    /\ message' = "none" /\ disturbed' = FALSE
    /\ lost' = (lost \/ ~(reachedGame \/ disturbed \/ outOfOrder))

\* The procedure the window has when a message is dispatched; the other
\* subclass passes on what it gets.
FirstProc == IF proc = "other" /\ other.in THEN other.prev ELSE proc

Changing == render \in {"swap", "store", "forget"} \/ life = "forget"

WindowStep == life # "overlapped" /\ UNCHANGED <<life, render, chainVars, windowVars, settingVars>>

Dispatch ==
    /\ WindowStep /\ message = "none"
    /\ IF FirstProc = "ours"
       THEN message' = "ours" /\ disturbed' = Changing /\ UNCHANGED lost
       ELSE UNCHANGED messageVars

\* OverlayWindowProc: without the property the message ends in DefWindowProc.
OverlayWindowProc ==
    /\ WindowStep /\ message = "ours"
    /\ IF prop THEN message' = "handle" /\ UNCHANGED <<disturbed, lost>>
               ELSE MessageEnds(FALSE)

\* HandleWindowMessage: captured by an open panel that wants it, passed to the
\* procedure before ours -- which must not be ours again -- or left to
\* DefWindowProc.
HandleWindowMessage ==
    /\ WindowStep /\ message = "handle"
    /\ \/ shown /\ MessageEnds(TRUE)
       \/ MessageEnds(original = "game" \/ (original = "other" /\ other.prev # "ours"))

OtherInstalls ==
    /\ life # "overlapped" /\ ~other.in
    /\ other' = [in |-> TRUE, prev |-> proc] /\ proc' = "other"
    /\ UNCHANGED <<life, render, chainVars, prop, hooked, original, previous, outOfOrder,
                   messageVars, settingVars>>

\* It restores what it found, as RemoveWindowHook does.
OtherRemoves ==
    /\ life # "overlapped" /\ other.in
    /\ other' = [in |-> FALSE, prev |-> NoProc] /\ proc' = other.prev
    /\ outOfOrder' = (outOfOrder \/ proc # "other")
    /\ UNCHANGED <<life, render, chainVars, prop, hooked, original, previous,
                   messageVars, settingVars>>

OverlayNext ==
    \/ \E chain \in Chains: CreateChain(chain)
    \/ ReleaseChain
    \/ BeginRender \/ LateRender \/ KeepBound \/ Unbind \/ Rebind \/ EnsureRenderTargetView \/ Draw
    \/ EnsureWindowHookInstalled \/ SwapProc \/ StoreOriginal \/ RenderRestores \/ RenderForgets
    \/ RemoveDetour \/ ShutdownSaves \/ ShutdownRestores \/ ShutdownForgets \/ ShutdownReleases
    \/ Dispatch \/ OverlayWindowProc \/ HandleWindowMessage \/ OtherInstalls \/ OtherRemoves

OverlaySpec == OverlayInit /\ [][OverlayNext]_overlayVars

-----------------------------------------------------------------------------

\* What is drawn goes to a view of the swap chain being presented, also when
\* a new chain has the address of one the overlay was bound to before.
DrawsOnThePresentedChain == render = "draw" => view = own

\* A window message the overlay does not capture reaches the game, unless the
\* subclass was being installed or removed meanwhile, or some subclass was
\* removed from under another.
MessagesReachTheGame == ~lost

\* A change of the settings that is not in the file is still to be saved: with
\* nothing to save the file has the last change, or was cut short by a save
\* reported good and loads as nothing; it never has the settings before the
\* change.
SettingsAreNotForgotten == stored = "old" => dirty

\* After a Shutdown that no Render overlapped nothing of the overlay is left in
\* the game; only a subclass that another one has put back out of order may be.
StoppedMeansGivenBack ==
    life = "stopped" =>
        /\ bound = NoChain /\ view = NoChain
        /\ ~prop /\ ~hooked
        /\ proc # "ours" \/ outOfOrder

=============================================================================
