---------------------------- MODULE DebugWindow ----------------------------
(***************************************************************************)
(* The debug window (src/app/debug_window_main.cpp): its settings panel,   *)
(* its target list and its settings file.  One thread handles the events   *)
(* one after the other, each handler with the save at its end; around it   *)
(* desktop windows come, go and change places, a save may fail, and the    *)
(* program may die.  Frames are the subject of DebugFrames; drawing, the   *)
(* status line and the window's size are left out.                         *)
(***************************************************************************)
EXTENDS Targeting

CONSTANTS
    DesktopWindows,  \* the other programs' windows that may ever be open
    OwnWindow,       \* this program's, which the system lists too
    Words,           \* the words the user may type
    Blank,           \* a blank at the end of the typed text
    MaxBuffer,       \* the edit buffer's capacity, 46 characters in the source
    Options,         \* command lines: records [title, follow]
    LookKeys,        \* the settings the user changes besides the target
    RepeatedFailures,\* bound: whether one failed save may follow another
    Height,          \* the height of the renderer's output
    Screen,          \* SDL_GetDisplayUsableBounds
    Centered         \* SDL_WINDOWPOS_CENTERED

\* The keys and buttons there are.
ASSUME LookAssumption ==
    LookKeys \subseteq Flags \union {"dock_anchor", "target_fps", "panel_opacity"}

ASSUME HeightAssumption == Height \in Nat

VARIABLES
    up,              \* the program runs
    settings,        \* overlay_settings
    targeting,       \* [windows, selected, query, follow]
    ui,              \* [panel, editing, buffer, start, hover] of WindowState
    place,           \* where the program's window is
    file,            \* the settings file
    saved,           \* how the last save of this run ended: "never", "ok", "failed"
    desktop          \* the other programs' open windows, front to back

choiceVars    == <<settings, targeting, ui, place>>
debugWindowVars == <<up, choiceVars, file, saved, desktop>>

OnScreen == <<OwnWindow>> \o desktop

Rows == ComputeSettingsVisibleRows(Height)

NoTargets == [windows |-> <<>>, selected |-> 0, query |-> {}, follow |-> FALSE]
ClosedUi  == [panel |-> FALSE, editing |-> FALSE, buffer |-> {}, start |-> 0, hover |-> 0]

\* What the memory of a program that is not running stands for.
Down ==
    /\ settings = Defaults /\ targeting = NoTargets /\ ui = ClosedUi
    /\ place = Centered /\ saved = "never"

DebugWindowInit == up = FALSE /\ Down /\ file = Missing /\ desktop = <<>>

-----------------------------------------------------------------------------
(* Saving. *)

StoredPlace(s) == IF s["window_x"] = Unset THEN Centered ELSE s["window_x"]

\* persist_overlay_settings gathers what lives outside overlay_settings...
Gathered(s, t, p) ==
    [s EXCEPT !["follow_target_window"] = t.follow, !["target_window_query"] = t.query,
              !["window_x"] = p]

\* The last save of this run failed, whether it said so or not.
LastFailed == saved = "failed" \/ (saved = "ok" /\ file = Unreadable)

Written(outcome) == outcome.ok /\ IsObject(outcome.file)

\* ... and saves it all.
Save(s) ==
    \E outcome \in SaveOutcomes(s, file):
        /\ Written(outcome) \/ ~LastFailed \/ RepeatedFailures
        /\ file' = outcome.file
        /\ saved' = IF outcome.ok THEN "ok" ELSE "failed"

\* A handler that leaves s, t and u behind and ends with a save.
SavedWith(s, t, u) ==
    /\ up
    /\ settings' = Gathered(s, t, place) /\ targeting' = t /\ ui' = u
    /\ Save(settings')
    /\ UNCHANGED <<up, place, desktop>>

\* A handler that saves nothing.
UiOnly(u) ==
    /\ up /\ ui' = u
    /\ UNCHANGED <<up, settings, targeting, place, file, saved, desktop>>

Visible(u, t) == [u EXCEPT !.start = VisibleStart(t, Rows, @)]
Unhovered(u)  == [u EXCEPT !.hover = 0]
StopEdit(u)   == [u EXCEPT !.editing = FALSE, !.buffer = {}]

-----------------------------------------------------------------------------
(* The target query. *)

\* 't', or a click on the query.
BeginEdit ==
    /\ ~ui.editing \/ ui.panel
    /\ UiOnly([ui EXCEPT !.panel = TRUE, !.editing = TRUE, !.buffer = targeting.query])

Type(word) ==
    /\ ui.editing
    /\ UiOnly([ui EXCEPT !.buffer = IF Cardinality(@) < MaxBuffer THEN @ \union {word} ELSE @])

Backspace ==
    /\ ui.editing
    /\ \E word \in ui.buffer: UiOnly([ui EXCEPT !.buffer = @ \ {word}])

TrimWhitespace(text) == text \ {Blank}

Apply(query, u) ==
    LET t == RefreshTargets([targeting EXCEPT !.query = TrimWhitespace(query), !.selected = 0],
                            OnScreen)
    IN  SavedWith(settings, t, Visible(Unhovered(u), t))

ApplyEdit   == ui.editing /\ Apply(ui.buffer, StopEdit(ui))
ApplyActive == ui.panel /\ ~ui.editing /\ Apply(targeting.query, ui)
CancelEdit  == ui.editing /\ UiOnly(StopEdit(ui))

\* 'n', or the clear button.
ClearQuery ==
    /\ ~ui.editing \/ ui.panel
    /\ SavedWith(settings,
                 RefreshTargets([targeting EXCEPT !.query = {}, !.selected = 0], OnScreen),
                 [StopEdit(Unhovered(ui)) EXCEPT !.start = 0])

-----------------------------------------------------------------------------
(* The list. *)

\* select_target_row.
SelectRow(i) ==
    LET t == QueryOfTarget([targeting EXCEPT !.selected = i])
    IN  i \in DOMAIN targeting.windows
        /\ SavedWith(settings, t, Visible([ui EXCEPT !.hover = i], t))

ListUsable == ui.panel /\ ~ui.editing

ClickRow ==
    ListUsable /\ \E i \in ShownRows(targeting, Rows, ui.start): SelectRow(i)

\* Up and Down stop at the ends; with nothing selected they start from one.
ArrowKey(direction) ==
    /\ ListUsable
    /\ SelectRow(IF targeting.selected = 0
                 THEN IF direction > 0 THEN 1 ELSE Len(targeting.windows)
                 ELSE Clamp(targeting.selected + direction, 1, Len(targeting.windows)))

EdgeKey(last) == ListUsable /\ SelectRow(IF last THEN Len(targeting.windows) ELSE 1)

\* The wheel, a page key or a page button.
Scroll(delta) ==
    /\ ListUsable /\ targeting.windows # <<>>
    /\ UiOnly([ui EXCEPT !.start = ClampStart(targeting, Rows, @ + delta)])

PageSize == AtLeast(Rows - 1, 1)

Hover ==
    /\ ListUsable
    /\ \E i \in ShownRows(targeting, Rows, ui.start) \union {0}: UiOnly([ui EXCEPT !.hover = i])

-----------------------------------------------------------------------------
(* Keys and buttons that work outside the list too. *)

CycleKey(direction) ==
    LET t == QueryOfTarget(CycleTarget(RefreshTargets(targeting, OnScreen), direction))
    IN  ~ui.editing /\ SavedWith(settings, t, Visible(Unhovered(ui), t))

LockFrontmost ==
    LET t == QueryOfTarget(PickFrontmostTarget(targeting, OnScreen))
    IN  ~ui.editing /\ SavedWith(settings, t, Visible(Unhovered(ui), t))

\* A toggle that is stored when the window is closed, and not before.
ToggleFollowLater ==
    /\ ~ui.editing /\ up
    /\ targeting' = [targeting EXCEPT !.follow = ~@]
    /\ UNCHANGED <<up, settings, ui, place, file, saved, desktop>>

ToggleFollow ==
    ~ui.editing /\ SavedWith(settings, [targeting EXCEPT !.follow = ~@], ui)

\* The other settings: graph, sidebar, dock, opacity, target FPS.
Changed(s, key) ==
    CASE key \in Flags         -> { [s EXCEPT ![key] = ~@] }
      [] key = "dock_anchor"   -> { [s EXCEPT ![key] = CycleOverlayDockAnchor(@)] }
      [] key = "target_fps"    -> { [s EXCEPT ![key] = CycleTargetFps(@)] }
      [] key = "panel_opacity" -> { OpacityBy(s, -10), OpacityBy(s, 10) }

ChangeLook ==
    /\ ~ui.editing
    /\ \E key \in LookKeys: \E s \in Changed(settings, key): SavedWith(s, targeting, ui)

\* The list stays as it is; the window goes back to the middle.
ResetDefaults ==
    /\ up /\ ~ui.editing
    /\ targeting' = [targeting EXCEPT !.follow = FALSE, !.query = {}, !.selected = 0]
    /\ ui' = [Unhovered(ui) EXCEPT !.start = 0]
    /\ place' = Centered
    /\ settings' = Gathered(Defaults, targeting', Centered)
    /\ Save(settings')
    /\ UNCHANGED <<up, desktop>>

\* 's'; Escape with the panel open is the same; a click beside the panel also
\* ends an edit.
TogglePanel == ~ui.editing /\ UiOnly([Unhovered(ui) EXCEPT !.panel = ~@])
ClickBeside == ui.panel /\ UiOnly([StopEdit(Unhovered(ui)) EXCEPT !.panel = FALSE])

-----------------------------------------------------------------------------
(* The turn of the loop, and the program's life. *)

\* A refresh that leaves the highlighted row alone.
TurnKeepingHover(refresh, sync) ==
    LET t == IF refresh THEN RefreshTargets(targeting, OnScreen) ELSE targeting
    IN  /\ up
        /\ targeting' = t
        /\ ui' = [ui EXCEPT !.start = ClampStart(t, Rows, @)]
        /\ UNCHANGED <<up, settings, place, file, saved, desktop>>

\* Every 750 ms the list is refreshed, every 500 ms a followed target is
\* docked to, and the list's start is clamped before it is drawn.
Turn(refresh, sync) ==
    LET t == IF refresh THEN RefreshTargets(targeting, OnScreen) ELSE targeting
        u == IF refresh THEN Unhovered(ui) ELSE ui
    IN  /\ up
        /\ targeting' = t
        /\ ui' = [u EXCEPT !.start = ClampStart(t, Rows, @)]
        /\ place' = IF sync /\ t.follow /\ HasTarget(t)
                    THEN DockX(settings["dock_anchor"], Target(t),
                               settings["window_width"], Screen)
                    ELSE place
        /\ UNCHANGED <<up, settings, file, saved, desktop>>

\* A query found nowhere is left alone; following with no query takes the
\* front window, which is stored with the next save.
Start ==
    \E option \in Options:
        LET s == LoadedOrDefaults(file)
            t == RefreshTargets(
                     [windows |-> <<>>, selected |-> 0,
                      query |-> IF option.title # {} THEN option.title
                                ELSE s["target_window_query"],
                      follow |-> option.follow \/ s["follow_target_window"]], OnScreen)
            picked == IF t.query = {} /\ t.follow /\ ~HasTarget(t)
                      THEN QueryOfTarget(PickFrontmostTarget(t, OnScreen)) ELSE t
        IN  /\ ~up /\ up' = TRUE
            /\ settings' = s /\ targeting' = picked
            /\ ui' = Visible(ClosedUi, picked)
            /\ place' = StoredPlace(s) /\ saved' = "never"
            /\ UNCHANGED <<file, desktop>>

GoDown ==
    /\ up /\ up' = FALSE
    /\ settings' = Defaults /\ targeting' = NoTargets /\ ui' = ClosedUi
    /\ place' = Centered /\ saved' = "never"
    /\ UNCHANGED desktop

\* Closing the window, or Escape with nothing open; saved on the way out.
Quit ==
    /\ GoDown
    /\ \E outcome \in SaveOutcomes(Gathered(settings, targeting, place), file):
           file' = outcome.file

\* The program dies, in the middle of a save or not.
Die == GoDown /\ file' \in {file, Unreadable}

\* The system's windows: one opens in front, closes, or comes to the front.
DesktopNext ==
    /\ \E w \in DesktopWindows:
          LET others == Kept(desktop, DesktopWindows \ {w})
          IN  desktop' \in {<<w>> \o others, others}
    /\ UNCHANGED <<up, choiceVars, file, saved>>

UserNext ==
    \/ BeginEdit \/ Backspace \/ ApplyEdit \/ ApplyActive \/ CancelEdit \/ ClearQuery
    \/ \E word \in Words \union {Blank}: Type(word)
    \/ ClickRow \/ Hover
    \/ \E direction \in {-1, 1}: ArrowKey(direction) \/ CycleKey(direction)
                                 \/ Scroll(direction * PageSize)
    \/ \E last \in BOOLEAN: EdgeKey(last)
    \/ LockFrontmost \/ ToggleFollow \/ ChangeLook \/ ResetDefaults
    \/ TogglePanel \/ ClickBeside

AnyTurn == \E refresh, sync \in BOOLEAN: Turn(refresh, sync)

DebugWindowNext == UserNext \/ AnyTurn \/ Start \/ Quit \/ Die \/ DesktopNext

DebugWindowSpec == DebugWindowInit /\ [][DebugWindowNext]_debugWindowVars

-----------------------------------------------------------------------------

\* No handler leaves an index behind that the list no longer has: what is
\* highlighted, selected or scrolled to exists, and only an open panel has a
\* highlighted row or an edit going on.
IndicesFitTheList ==
    /\ targeting.selected <= Len(targeting.windows)
    /\ ui.hover <= Len(targeting.windows)
    /\ ui.start <= AtLeast(Len(targeting.windows) - Rows, 0)
    /\ ui.hover # 0 \/ ui.editing => ui.panel

\* The selection is on another window, or on none, while the one it was on is
\* still in the list.
SelectionLeft ==
    \E i \in DOMAIN targeting.windows:
        /\ i = targeting.selected
        /\ \E j \in DOMAIN targeting'.windows:
               targeting'.windows[j].id = targeting.windows[i].id
        /\ ~(HasTarget(targeting)' /\ Target(targeting)'.id = targeting.windows[i].id)

\* A turn of the loop keeps the selected window selected, wherever a refresh
\* finds it in the list, for as long as it is open.
SelectionFollowsWindow == [][SelectionLeft => ~AnyTurn]_debugWindowVars

\* Once a save of this run was reported good, the file has every choice made,
\* or was cut short unnoticed and loads as nothing: no handler changes a choice
\* without saving it, so that a file that loads never has older ones.
ChoicesAreSaved ==
    saved = "ok" => file \in { Unreadable,
                               Dump([settings EXCEPT
                                   !["follow_target_window"] = targeting.follow,
                                   !["target_window_query"] = targeting.query]) }

=============================================================================
