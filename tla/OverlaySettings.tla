-------------------------- MODULE OverlaySettings --------------------------
(***************************************************************************)
(* The settings both overlays keep in a JSON file                          *)
(* (src/overlay/overlay_settings.cpp).  Opacity is in percent; a text is   *)
(* the set of its words.  A file is Missing, Unreadable (empty, cut short, *)
(* not an object), or a function from the keys that have a value of the    *)
(* right type: GetOpt treats an absent, null or mistyped key alike.        *)
(***************************************************************************)
EXTENDS Integers, Sequences

CONSTANTS
    Missing, Unreadable,   \* files that load as nothing
    Unset                  \* std::nullopt, a position never stored

ASSUME FileAssumption == Missing # Unreadable

Flags == {"show_overlay", "show_graph", "show_sidebar", "show_hotkey_hints",
          "show_settings_panel", "capture_input_when_panel_open",
          "compact_mode", "follow_target_window"}

Keys == Flags \union {"panel_opacity", "target_fps", "window_width", "window_height",
                      "dock_anchor", "target_window_query", "window_x", "window_y"}

FlagDefaults ==
    [k \in Flags |-> k \in {"show_overlay", "show_graph", "show_sidebar", "show_hotkey_hints"}]

\* OverlaySettings{}.
Defaults ==
    [k \in Keys |->
        CASE k \in Flags                    -> FlagDefaults[k]
          [] k = "panel_opacity"            -> 86
          [] k = "target_fps"               -> 60
          [] k = "window_width"             -> 1180
          [] k = "window_height"            -> 760
          [] k = "dock_anchor"              -> "RIGHT TOP"
          [] k = "target_window_query"      -> {}
          [] k \in {"window_x", "window_y"} -> Unset]

Clamp(value, low, high) == IF value < low THEN low ELSE IF high < value THEN high ELSE value
AtLeast(value, low)     == IF value < low THEN low ELSE value

ClampOverlayOpacity(percent) == Clamp(percent, 35, 100)
ClampTargetFps(fps)          == Clamp(fps, 10, 1000)
ClampWindowWidth(width)      == AtLeast(width, 640)
ClampWindowHeight(height)    == AtLeast(height, 420)

\* What is kept of a key's value, on the way in and on the way out.
Clamped(key, value) ==
    CASE key = "panel_opacity" -> ClampOverlayOpacity(value)
      [] key = "target_fps"    -> ClampTargetFps(value)
      [] key = "window_width"  -> ClampWindowWidth(value)
      [] key = "window_height" -> ClampWindowHeight(value)
      [] OTHER                 -> value

IsObject(file) == file # Missing /\ file # Unreadable

\* LoadOverlaySettings of a file that IsObject; of another it returns nothing,
\* and both callers go on with Defaults.
LoadOverlaySettings(object) ==
    [k \in Keys |-> IF k \in DOMAIN object THEN Clamped(k, object[k]) ELSE Defaults[k]]

LoadedOrDefaults(file) == IF IsObject(file) THEN LoadOverlaySettings(file) ELSE Defaults

\* The text SaveOverlaySettings writes.
Dump(settings) == [k \in Keys |-> Clamped(k, settings[k])]

\* Where SaveOverlaySettings may leave the file, and what it returns.  The
\* directory or the file cannot be created; opening emptied the file and the
\* write failed, which good() tells only if it happened before good() was asked:
\* the stream writes its buffer after that, when it is closed, and nobody hears
\* of a failure then; or the text is there.
SaveOutcomes(settings, file) ==
    { [file |-> file, ok |-> FALSE],
      [file |-> Unreadable, ok |-> FALSE],
      [file |-> Unreadable, ok |-> TRUE],
      [file |-> Dump(settings), ok |-> TRUE] }

\* AdjustOverlayOpacity.
OpacityBy(settings, delta) ==
    [settings EXCEPT !["panel_opacity"] = ClampOverlayOpacity(@ + delta)]

Presets == <<30, 60, 90, 120, 144, 165, 240>>

Distance(a, b) == IF a < b THEN b - a ELSE a - b

\* The nearest preset, the first of two as near.
IsNearest(i, fps) ==
    /\ \A j \in DOMAIN Presets: Distance(Presets[i], fps) <= Distance(Presets[j], fps)
    /\ \A j \in 1..(i - 1): Distance(Presets[j], fps) > Distance(Presets[i], fps)

NearestPreset(fps) == CHOOSE i \in DOMAIN Presets: IsNearest(i, fps)

\* CycleTargetFps with direction 1, the only one the callers use.
CycleTargetFps(fps) == Presets[(NearestPreset(fps) % Len(Presets)) + 1]

\* CycleOverlayDockAnchor, the same.
CycleOverlayDockAnchor(anchor) ==
    CASE anchor = "RIGHT TOP"    -> "RIGHT BOTTOM"
      [] anchor = "RIGHT BOTTOM" -> "LEFT TOP"
      [] anchor = "LEFT TOP"     -> "LEFT BOTTOM"
      [] anchor = "LEFT BOTTOM"  -> "RIGHT TOP"
=============================================================================
