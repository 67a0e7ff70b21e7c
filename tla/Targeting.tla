----------------------------- MODULE Targeting -----------------------------
(***************************************************************************)
(* The debug window's target list (src/app/debug_window/targeting.cpp) and *)
(* the list panel's arithmetic (ui_panels.cpp).  A text contains another   *)
(* when it has all its words; the empty text is in every text.  A          *)
(* targeting state is a record [windows, selected, query, follow]; indices *)
(* count from 1 here, and 0 is the source's -1.  Where targeting is not    *)
(* supported RefreshTargets returns at once, which is what it does on an   *)
(* empty desktop.                                                          *)
(***************************************************************************)
EXTENDS OverlaySettings, SequenceFolds, FiniteSetsExt

CONSTANTS
    SelfMarker,     \* kSelfTitleMarker
    SystemOwners    \* owners whose windows are left out: Window Server, Dock

Contains(text, needle) == needle \subseteq text

\* ShouldKeepWindow, of a window the system lists on the normal layer.
ShouldKeepWindow(w) == w.large /\ w.title \union w.owner # {} /\ w.owner \notin SystemOwners

\* EnumerateDesktopWindows, as a set; the order is the desktop's.
EnumerateDesktopWindows(desktop) == {w \in Range(desktop): ShouldKeepWindow(w)}

Matches(w, text) == Contains(w.title, text) \/ Contains(w.owner, text)
IsSelfWindow(w)  == Matches(w, SelfMarker)

\* The windows that can be a target, front to back.
Listed(desktop) == Kept(desktop, {w \in EnumerateDesktopWindows(desktop): ~IsSelfWindow(w)})

TargetQueryForPersistence(w) == IF w.title # {} THEN w.title ELSE w.owner

HasTarget(t) == t.selected \in DOMAIN t.windows
Target(t)    == t.windows[t.selected]

\* The first of some indices, or 0.
FirstOf(indices) == IF indices = {} THEN 0 ELSE Min(indices)

\* Where the list has the query: nowhere, when there is no query.
FirstMatch(list, query) == FirstOf({i \in DOMAIN list: query # {} /\ Matches(list[i], query)})

\* Where the list has the window that is the target now.
FirstSame(list, t) == FirstOf({i \in DOMAIN list: HasTarget(t) /\ list[i].id = Target(t).id})

\* A refresh that keeps the index instead of the window.
RefreshByIndex(t, desktop) ==
    LET listed == Listed(desktop)
    IN  [t EXCEPT !.windows = listed,
                  !.selected = IF @ \in DOMAIN listed THEN @ ELSE FirstMatch(listed, t.query)]

RefreshTargets(t, desktop) ==
    LET listed == Listed(desktop)
        same   == FirstSame(listed, t)
    IN  [t EXCEPT !.windows = listed,
                  !.selected = IF same # 0 THEN same ELSE FirstMatch(listed, t.query)]

PickFrontmostTarget(t, desktop) ==
    LET r == RefreshTargets(t, desktop)
    IN  [r EXCEPT !.selected = IF r.windows = <<>> THEN @ ELSE 1]

\* CycleTarget, by 1 or -1.
CycleTarget(t, direction) ==
    LET size == Len(t.windows)
    IN  [t EXCEPT !.selected =
            CASE size = 0                      -> 0
              [] size > 0 /\ @ = 0             -> IF direction > 0 THEN 1 ELSE size
              [] size > 0 /\ @ # 0             -> ((@ - 1 + direction + size) % size) + 1]

\* The query follows a target that was picked.
QueryOfTarget(t) ==
    IF HasTarget(t) THEN [t EXCEPT !.query = TargetQueryForPersistence(Target(t))] ELSE t

-----------------------------------------------------------------------------
(* The list panel. *)

ComputeSettingsVisibleRows(height) ==
    LET panel    == AtLeast(height - 32, 320)
        reserved == 84 + (24 * 5 + 6 * 4) + 12 + 22 + 12 + 108 + 16
    IN  Clamp((panel - reserved) \div 22, 1, 6)

\* ClampTargetListStartIndex: start counts from 0, as in the source.
ClampStart(t, rows, start) == Clamp(start, 0, AtLeast(Len(t.windows) - rows, 0))

\* ensure_selected_target_visible.
VisibleStart(t, rows, start) ==
    ClampStart(t, rows,
        CASE t.selected > 0 /\ t.selected - 1 < start     -> t.selected - 1
          [] t.selected > 0 /\ t.selected > start + rows  -> t.selected - rows
          [] OTHER                                        -> start)

\* The rows BuildSettingsPanelLayout lays out, and its page buttons.
ShownRows(t, rows, start) ==
    { i \in DOMAIN t.windows: ClampStart(t, rows, start) < i /\ i <= ClampStart(t, rows, start) + rows }

-----------------------------------------------------------------------------
(* DockWindowToTarget: the side it is put on, and the place. *)

DockX(anchor, target, width, screen) ==
    LET onRight     == target.x + target.width + 18
        onLeft      == target.x - width - 18
        preferRight == anchor \in {"RIGHT TOP", "RIGHT BOTTOM"}
        wanted      ==
            CASE preferRight  -> IF onRight + width > screen.x + screen.width THEN onLeft ELSE onRight
              [] ~preferRight -> IF onLeft < screen.x THEN onRight ELSE onLeft
    IN  Clamp(wanted, screen.x, screen.x + screen.width - width)

DockY(anchor, target, height, screen) ==
    Clamp(IF anchor \in {"RIGHT BOTTOM", "LEFT BOTTOM"}
            THEN target.y + target.height - height ELSE target.y,
            screen.y, screen.y + screen.height - height)
=============================================================================
