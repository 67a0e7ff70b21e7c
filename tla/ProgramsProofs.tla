--------------------------- MODULE ProgramsProofs ---------------------------
(***************************************************************************)
(* Theorems about the programs around the core, each about the             *)
(* specification of its own program: the debug window's frames, its        *)
(* handlers, the DX11 overlay and the Vulkan hook.                         *)
(***************************************************************************)
EXTENDS Programs, SequenceFacts

-----------------------------------------------------------------------------
(* THE DEBUG WINDOW: FRAMES.  For any number of games, samples and generated *)
(* frames.                                                                   *)

-----------------------------------------------------------------------------
(* The invariant *)

FramesType ==
    /\ serving \in Clients \union {None}
    /\ gone \in SUBSET Clients
    /\ queue \in Seq(Clients)
    /\ frames \in Seq(Clients \union {Synthetic})

\* Whoever sent a sample, queued or drained, was let go or is still served.
SendersKnown ==
    /\ \A i \in DOMAIN queue: queue[i] \in gone \union {serving}
    /\ \A i \in DOMAIN frames: frames[i] # Synthetic => frames[i] \in gone \union {serving}

FramesInv == FramesType /\ SendersKnown /\ NoSyntheticDuringClient

LEMMA InitFrames == DebugInit => FramesInv
<1> SUFFICES ASSUME DebugInit PROVE FramesInv OBVIOUS
<1>1. \A S: <<>> \in Seq(S) BY EmptySeq
<1>2. serving = None /\ gone = {} /\ queue = <<>> /\ frames = <<>>
  BY DEF DebugInit, ReaderInit, FeedInit
<1> QED BY <1>1, <1>2 DEF FramesInv, FramesType, SendersKnown, NoSyntheticDuringClient

-----------------------------------------------------------------------------
(* What a step does to feed and frames *)

\* Steps of the feed that leave the frames alone.  Who was let go stays let
\* go, and the feed adds samples of the client it serves only.
LEMMA FeedKeeps ==
    ASSUME FramesInv, UNCHANGED frames,
           Deliver \/ Leave \/ (\E c \in Clients: Serve(c)) \/ UNCHANGED feedVars
    PROVE  FramesInv'
<1> USE FeedAssumption DEF FramesInv, FramesType
<1>1. CASE UNCHANGED feedVars
  BY <1>1 DEF feedVars, SendersKnown, NoSyntheticDuringClient
<1>2. CASE Leave
  BY <1>2 DEF Leave, HasClient, SendersKnown, NoSyntheticDuringClient
<1>3. ASSUME NEW c \in Clients, Serve(c) PROVE FramesInv'
  <2>1. /\ \A i \in DOMAIN queue: queue[i] \in Clients
        /\ \A i \in DOMAIN frames: frames[i] \in Clients \union {Synthetic}
    BY LenProperties, ElementOfSeq
  <2> QED BY <1>3, <2>1 DEF Serve, HasClient, SendersKnown, NoSyntheticDuringClient
<1>4. CASE Deliver
  <2>1. serving \in Clients BY <1>4 DEF Deliver, HasClient
  <2>2. /\ queue' \in Seq(Clients) /\ Len(queue') = Len(queue) + 1
        /\ \A i \in 1..Len(queue): queue'[i] = queue[i]
        /\ queue'[Len(queue) + 1] = serving
    BY <1>4, <2>1, AppendProperties DEF Deliver
  <2>3. DOMAIN queue = 1..Len(queue) /\ DOMAIN queue' = 1..(Len(queue) + 1) /\ Len(queue) \in Nat
    BY <2>2, LenProperties
  <2>4. \A i \in DOMAIN queue': queue'[i] \in gone \union {serving}
    BY <2>2, <2>3 DEF SendersKnown
  <2> QED BY <1>4, <2>2, <2>4 DEF Deliver, SendersKnown, NoSyntheticDuringClient
<1> QED BY <1>1, <1>2, <1>3, <1>4

\* 'r' starts over.
LEMMA StartOverKeeps ==
    ASSUME FramesInv, frames' = <<>>, UNCHANGED feedVars PROVE FramesInv'
<1>1. frames' \in Seq(Clients \union {Synthetic}) BY EmptySeq
<1> QED BY <1>1
        DEF FramesInv, FramesType, SendersKnown, NoSyntheticDuringClient, feedVars

\* The drain puts the queued samples behind the frames: no generated one.
LEMMA DrainKeeps ==
    ASSUME FramesInv, frames' = frames \o queue, Drain PROVE FramesInv'
<1> USE FeedAssumption, SyntheticAssumption DEF FramesInv, FramesType, Drain
<1> DEFINE S == Clients \union {Synthetic}
<1>1. queue \in Seq(S) BY SeqMonotonic
<1>2. /\ frames' \in Seq(S) /\ Len(frames') = Len(frames) + Len(queue)
      /\ \A i \in 1..(Len(frames) + Len(queue)):
             frames'[i] = IF i <= Len(frames) THEN frames[i] ELSE queue[i - Len(frames)]
  BY <1>1, ConcatProperties
<1>3. /\ Len(frames) \in Nat /\ DOMAIN frames = 1..Len(frames)
      /\ Len(queue) \in Nat /\ DOMAIN queue = 1..Len(queue)
      /\ DOMAIN frames' = 1..(Len(frames) + Len(queue))
      /\ \A i \in 1..Len(queue): queue[i] \in Clients
  BY <1>2, LenProperties, ElementOfSeq
<1>4. queue' = <<>> /\ queue' \in Seq(Clients) BY EmptySeq
<1>5. SendersKnown'
  <2>1. \A i \in DOMAIN frames':
            frames'[i] # Synthetic => frames'[i] \in gone \union {serving}
    BY <1>2, <1>3 DEF SendersKnown
  <2> QED BY <1>4, <2>1 DEF SendersKnown
<1>6. NoSyntheticDuringClient'
  <2> SUFFICES ASSUME NEW i \in DOMAIN frames', NEW j \in DOMAIN frames', i < j,
                      frames'[i] \in Clients, frames'[j] = Synthetic
               PROVE  frames'[i] \in gone
    BY DEF NoSyntheticDuringClient
  <2>1. j <= Len(frames) BY <1>2, <1>3
  <2>2. frames'[i] = frames[i] /\ frames'[j] = frames[j] BY <1>2, <1>3, <2>1
  <2> QED BY <1>3, <2>1, <2>2 DEF NoSyntheticDuringClient
<1> QED BY <1>2, <1>4, <1>5, <1>6

\* A frame is generated only when nobody is served: all senders were let go.
LEMMA GenerateKeeps ==
    ASSUME FramesInv, ~HasClient, frames' = Append(frames, Synthetic), UNCHANGED feedVars
    PROVE  FramesInv'
<1> USE FeedAssumption, SyntheticAssumption DEF FramesInv, FramesType, feedVars
<1>1. /\ frames' \in Seq(Clients \union {Synthetic}) /\ Len(frames') = Len(frames) + 1
      /\ \A i \in 1..Len(frames): frames'[i] = frames[i]
      /\ frames'[Len(frames) + 1] = Synthetic
  BY AppendProperties
<1>2. /\ Len(frames) \in Nat /\ DOMAIN frames = 1..Len(frames)
      /\ DOMAIN frames' = 1..(Len(frames) + 1)
  BY <1>1, LenProperties
<1>3. \A i \in DOMAIN frames: frames[i] \in Clients => frames[i] \in gone
  BY DEF SendersKnown, HasClient
<1>4. NoSyntheticDuringClient'
  <2> SUFFICES ASSUME NEW i \in DOMAIN frames', NEW j \in DOMAIN frames', i < j,
                      frames'[i] \in Clients
               PROVE  frames'[i] \in gone
    BY DEF NoSyntheticDuringClient
  <2>1. i \in DOMAIN frames /\ frames'[i] = frames[i] BY <1>1, <1>2
  <2> QED BY <1>3, <2>1
<1>5. SendersKnown' BY <1>1, <1>2 DEF SendersKnown
<1> QED BY <1>1, <1>4, <1>5

-----------------------------------------------------------------------------

\* Whatever the games do between the window's looks at the feed, a generated
\* frame never follows one of a game that is still connected.
THEOREM GeneratedFramesStayApart == DebugSpec => []NoSyntheticDuringClient
<1>1. ASSUME FramesInv, [DebugNext]_debugVars PROVE FramesInv'
  <2>1. CASE UNCHANGED debugVars
    BY <1>1, <2>1, FeedKeeps DEF debugVars, readerVars, feedVars
  <2>2. CASE StartIpc \/ PressSpace \/ PressClose \/ PollDone \/ Announce
    BY <1>1, <2>2, FeedKeeps
    DEF StartIpc, PressSpace, PressClose, PressQuit, PollDone, Announce
  <2>3. CASE PressR BY <1>1, <2>3, StartOverKeeps DEF PressR
  <2>4. CASE DrainSamples BY <1>1, <2>4, DrainKeeps DEF DrainSamples
  <2>5. CASE GenerateNone BY <1>1, <2>5, FeedKeeps DEF GenerateNone, StopFeed
  <2>6. CASE Generate
    <3>1. UNCHANGED feedVars BY <2>6 DEF Generate, StopFeed
    <3> QED BY <1>1, <2>6, <3>1, GenerateKeeps DEF Generate
  <2>7. CASE DebugGames BY <1>1, <2>7, FeedKeeps DEF DebugGames, GamesNext
  <2> QED BY <1>1, <2>1, <2>2, <2>3, <2>4, <2>5, <2>6, <2>7 DEF DebugNext, DebugLoop
<1>2. FramesInv => NoSyntheticDuringClient BY DEF FramesInv
<1> QED BY InitFrames, <1>1, <1>2, PTL DEF DebugSpec

-----------------------------------------------------------------------------
(* THE DEBUG WINDOW: HANDLERS.  For any windows, words, command lines and     *)
(* heights, and lists of any length.                                         *)

-----------------------------------------------------------------------------
(* Lists and indices *)

AnyWindow == DesktopWindows \union {OwnWindow}

\* What is found is one of the indices, and one of them is found if there is one.
LEMMA FirstFits ==
    ASSUME NEW n \in Nat, NEW indices \in SUBSET (1..n)
    PROVE  IF indices = {} THEN FirstOf(indices) = 0 ELSE FirstOf(indices) \in indices
<1>1. CASE indices = {} BY <1>1 DEF FirstOf
<1>2. CASE indices # {}
  <2>1. PICK i \in indices: \A j \in indices: ~ (<<j, i>> \in OpToRel(<, Nat))
    <3>1. indices \subseteq Nat OBVIOUS
    <3> QED BY <1>2, <3>1, NatLessThanWellFounded, WFMin
  <2>2. \A j \in indices: i <= j
    <3> SUFFICES ASSUME NEW j \in indices, j < i PROVE FALSE OBVIOUS
    <3>1. <<j, i>> \in OpToRel(<, Nat) BY DEF OpToRel
    <3> QED BY <2>1, <3>1
  <2> QED BY <1>2, <2>2 DEF FirstOf, Min
<1> QED BY <1>1, <1>2

LEMMA ListedType ==
    ASSUME NEW d \in Seq(AnyWindow)
    PROVE  Listed(d) \in Seq(AnyWindow)
BY KeptType DEF Listed, EnumerateDesktopWindows

LEMMA RowsFit == Rows \in 1..6
BY HeightAssumption DEF Rows, ComputeSettingsVisibleRows, Clamp, AtLeast

\* A targeting state as the handlers keep it: the selection is in the list.
IsTargeting(t) ==
    /\ DOMAIN t = {"windows", "selected", "query", "follow"}
    /\ t.windows \in Seq(AnyWindow)
    /\ t.selected \in 0..Len(t.windows)

Starts(t) == 0..AtLeast(Len(t.windows) - Rows, 0)

\* What the panel shows of t: a row under the mouse is of the list, and a row is
\* lit or a query edited only in an open panel.
IsPanel(u, t) ==
    /\ DOMAIN u = {"panel", "editing", "buffer", "start", "hover"}
    /\ u.panel \in BOOLEAN /\ u.editing \in BOOLEAN
    /\ u.start \in Nat
    /\ u.hover \in 0..Len(t.windows)
    /\ u.hover # 0 \/ u.editing => u.panel

\* Moreover the list is not scrolled beyond its end.
IsUi(u, t) == IsPanel(u, t) /\ u.start \in Starts(t)

WindowInv ==
    /\ DOMAIN settings = Keys
    /\ IsTargeting(targeting) /\ IsUi(ui, targeting)
    /\ desktop \in Seq(DesktopWindows)

LEMMA LenOfList == ASSUME NEW t, IsTargeting(t) PROVE Len(t.windows) \in Nat /\ DOMAIN t.windows = 1..Len(t.windows)
BY LenProperties DEF IsTargeting

LEMMA ScreenType == ASSUME WindowInv PROVE OnScreen \in Seq(AnyWindow)
<1>1. <<OwnWindow>> \in Seq(AnyWindow)
  <2>1. OwnWindow \in AnyWindow BY DEF AnyWindow
  <2> QED BY <2>1
<1>2. desktop \in Seq(AnyWindow) BY SeqMonotonic DEF WindowInv, AnyWindow
<1> QED BY <1>1, <1>2, ConcatProperties DEF OnScreen

LEMMA RefreshFits ==
    ASSUME NEW t, IsTargeting(t), NEW d \in Seq(AnyWindow)
    PROVE  /\ IsTargeting(RefreshTargets(t, d))
           /\ RefreshTargets(t, d).query = t.query
           /\ RefreshTargets(t, d).follow = t.follow
           /\ RefreshTargets(t, d).windows = Listed(d)
<1> DEFINE l == Listed(d)
           same == FirstSame(l, t)
           match == FirstMatch(l, t.query)
           selected == IF same # 0 THEN same ELSE match
<1>1. l \in Seq(AnyWindow) BY ListedType
<1>2. same \in 0..Len(l) /\ match \in 0..Len(l)
  <2>1. Len(l) \in Nat /\ DOMAIN l = 1..Len(l) BY <1>1, LenProperties
  <2> HIDE DEF l
  <2>2. \A S \in SUBSET (1..Len(l)): FirstOf(S) \in 0..Len(l)
    <3> SUFFICES ASSUME NEW S \in SUBSET (1..Len(l)) PROVE FirstOf(S) \in 0..Len(l) OBVIOUS
    <3>1. IF S = {} THEN FirstOf(S) = 0 ELSE FirstOf(S) \in S BY <2>1, FirstFits
    <3>2. \A k \in S: k \in 0..Len(l) BY <2>1
    <3>3. 0 \in 0..Len(l) BY <2>1
    <3> QED BY <3>1, <3>2, <3>3
  <2> QED BY <2>1, <2>2 DEF FirstSame, FirstMatch
<1>3. RefreshTargets(t, d) = [t EXCEPT !.windows = l, !.selected = selected]
  BY DEF RefreshTargets
<1> HIDE DEF l, same, match
<1>4. selected \in 0..Len(l) BY <1>2
<1> HIDE DEF selected
<1> QED BY <1>1, <1>3, <1>4 DEF IsTargeting, l

LEMMA PickFits ==
    ASSUME NEW t, IsTargeting(t), NEW d \in Seq(AnyWindow)
    PROVE  /\ IsTargeting(PickFrontmostTarget(t, d))
           /\ PickFrontmostTarget(t, d).follow = t.follow
<1> DEFINE r == RefreshTargets(t, d)
<1>1. IsTargeting(r) /\ r.follow = t.follow BY RefreshFits
<1>2. PickFrontmostTarget(t, d) = [r EXCEPT !.selected = IF r.windows = <<>> THEN @ ELSE 1]
  BY DEF PickFrontmostTarget
<1> HIDE DEF r
<1>3. Len(r.windows) \in Nat /\ (r.windows # <<>> => Len(r.windows) # 0)
  BY <1>1, LenProperties, EmptySeq DEF IsTargeting
<1>4. CASE r.windows = <<>>
  <2>1. PickFrontmostTarget(t, d) = [r EXCEPT !.selected = r.selected] BY <1>2, <1>4
  <2> QED BY <1>1, <2>1 DEF IsTargeting
<1>5. CASE r.windows # <<>>
  <2>1. PickFrontmostTarget(t, d) = [r EXCEPT !.selected = 1] BY <1>2, <1>5
  <2> QED BY <1>1, <1>3, <1>5, <2>1 DEF IsTargeting
<1> QED BY <1>4, <1>5

LEMMA CycleFits ==
    ASSUME NEW t, IsTargeting(t), NEW direction \in {-1, 1}
    PROVE  IsTargeting(CycleTarget(t, direction)) /\ CycleTarget(t, direction).follow = t.follow
<1> DEFINE size == Len(t.windows)
           was == t.selected
           next == CASE size = 0                      -> 0
                     [] size > 0 /\ was = 0             -> IF direction > 0 THEN 1 ELSE size
                     [] size > 0 /\ was # 0             -> ((was - 1 + direction + size) % size) + 1
<1>1. size \in Nat /\ was \in 0..size BY LenOfList DEF IsTargeting
<1>2. CycleTarget(t, direction) = [t EXCEPT !.selected = next] BY DEF CycleTarget, IsTargeting
<1> HIDE DEF size, was
<1>3. next \in 0..size
  <2>1. CASE size = 0 BY <2>1
  <2>2. CASE size > 0 /\ was = 0 BY <1>1, <2>2
  <2>3. CASE size > 0 /\ was # 0
    <3>1. (was - 1 + direction + size) % size \in 0..(size - 1) BY <1>1, <2>3
    <3> QED BY <1>1, <2>3, <3>1
  <2> QED BY <1>1, <2>1, <2>2, <2>3
<1> HIDE DEF next
<1> QED BY <1>2, <1>3 DEF IsTargeting, size

LEMMA QueryFits ==
    ASSUME NEW t, IsTargeting(t)
    PROVE  /\ IsTargeting(QueryOfTarget(t))
           /\ QueryOfTarget(t).windows = t.windows
           /\ QueryOfTarget(t).selected = t.selected
           /\ QueryOfTarget(t).follow = t.follow
BY DEF QueryOfTarget, IsTargeting

LEMMA ClampStartFits ==
    ASSUME NEW t, IsTargeting(t), NEW start \in Int
    PROVE  ClampStart(t, Rows, start) \in Starts(t)
<1> DEFINE size == Len(t.windows)
<1>1. size \in Nat BY LenOfList
<1>2. Rows \in Int BY RowsFit
<1> HIDE DEF size
<1>3. ClampStart(t, Rows, start) = Clamp(start, 0, AtLeast(size - Rows, 0)) BY DEF ClampStart, size
<1>4. Starts(t) = 0..AtLeast(size - Rows, 0) BY DEF Starts, size
<1> QED BY <1>1, <1>2, <1>3, <1>4 DEF Clamp, AtLeast

LEMMA VisibleFits ==
    ASSUME NEW t, IsTargeting(t), NEW start \in Int
    PROVE  VisibleStart(t, Rows, start) \in Starts(t)
<1> DEFINE wanted == CASE t.selected > 0 /\ t.selected - 1 < start     -> t.selected - 1
                       [] t.selected > 0 /\ t.selected > start + Rows  -> t.selected - Rows
                       [] OTHER                                        -> start
<1>1. t.selected \in Int /\ Rows \in Int BY LenOfList, RowsFit DEF IsTargeting
<1>2. wanted \in Int BY <1>1
<1>3. VisibleStart(t, Rows, start) = ClampStart(t, Rows, wanted) BY DEF VisibleStart
<1> HIDE DEF wanted
<1> QED BY <1>2, <1>3, ClampStartFits

LEMMA StartsAreNat == ASSUME NEW t, IsTargeting(t) PROVE Starts(t) \subseteq Nat /\ 0 \in Starts(t)
BY LenOfList, RowsFit DEF Starts, AtLeast

\* A panel fits once its list is scrolled to fit.
LEMMA ScrolledFits ==
    ASSUME NEW t, IsTargeting(t), NEW u, IsPanel(u, t)
    PROVE  /\ IsUi(Visible(u, t), t)
           /\ \A start \in Int: IsUi([u EXCEPT !.start = ClampStart(t, Rows, start)], t)
           /\ IsUi([u EXCEPT !.start = 0], t)
<1>1. VisibleStart(t, Rows, u.start) \in Starts(t) BY VisibleFits DEF IsPanel
<1>2. \A start \in Int: ClampStart(t, Rows, start) \in Starts(t) BY ClampStartFits
<1> QED BY <1>1, <1>2, StartsAreNat DEF IsUi, IsPanel, Visible

\* With no row lit it fits any list.
LEMMA UnlitFits ==
    ASSUME NEW u, NEW t0, NEW t, IsTargeting(t), IsPanel(u, t0), u.hover = 0
    PROVE  IsPanel(u, t)
BY LenOfList DEF IsPanel

-----------------------------------------------------------------------------
(* Handlers *)

LEMMA DownFits == IsTargeting(NoTargets) /\ IsUi(ClosedUi, NoTargets)
<1>1. IsTargeting(NoTargets) BY EmptySeq DEF IsTargeting, NoTargets
<1>2. IsPanel(ClosedUi, NoTargets) BY <1>1, LenOfList DEF IsPanel, ClosedUi
<1> QED BY <1>1, <1>2, StartsAreNat DEF IsUi, ClosedUi

LEMMA InitWindow == DebugWindowInit => WindowInv /\ ChoicesAreSaved
<1> SUFFICES ASSUME DebugWindowInit PROVE WindowInv /\ ChoicesAreSaved OBVIOUS
<1>1. /\ settings = Defaults /\ targeting = NoTargets /\ ui = ClosedUi
      /\ desktop = <<>> /\ saved = "never"
  BY DEF DebugWindowInit, Down
<1> QED BY <1>1, DownFits, EmptySeq DEF WindowInv, ChoicesAreSaved, Defaults

LEMMA GatheredHas ==
    ASSUME NEW s, DOMAIN s = Keys, NEW t, NEW p
    PROVE  /\ DOMAIN Gathered(s, t, p) = Keys
           /\ Gathered(s, t, p) = [Gathered(s, t, p) EXCEPT
                                      !["follow_target_window"] = t.follow,
                                      !["target_window_query"] = t.query]
BY DEF Gathered, Keys

\* A handler that ends with a save leaves a state that fits, and a file that
\* has all of it, or was cut short, unless the save was reported failed.
LEMMA SavedWithKeeps ==
    ASSUME WindowInv, NEW s, NEW t, NEW u, SavedWith(s, t, u),
           DOMAIN s = Keys, IsTargeting(t), IsUi(u, t)
    PROVE  WindowInv' /\ ChoicesAreSaved'
<1>1. settings' = Gathered(s, t, place) /\ targeting' = t /\ ui' = u /\ desktop' = desktop
  BY DEF SavedWith
<1>2. WindowInv' BY <1>1 DEF WindowInv, IsTargeting, IsUi, IsPanel, Starts, Gathered
<1>3. ASSUME saved' = "ok" PROVE file' \in {Unreadable, Dump(settings')}
  <2>1. PICK outcome \in SaveOutcomes(settings', file):
            file' = outcome.file /\ saved' = IF outcome.ok THEN "ok" ELSE "failed"
    BY DEF SavedWith, Save
  <2> QED BY <1>3, <2>1 DEF SaveOutcomes
<1>4. settings' = [settings' EXCEPT !["follow_target_window"] = t.follow,
                                    !["target_window_query"] = t.query]
  BY <1>1, GatheredHas
<1> QED BY <1>1, <1>2, <1>3, <1>4 DEF ChoicesAreSaved

LEMMA UiOnlyKeeps ==
    ASSUME WindowInv, ChoicesAreSaved, NEW u, UiOnly(u), IsUi(u, targeting)
    PROVE  WindowInv' /\ ChoicesAreSaved'
BY DEF UiOnly, WindowInv, ChoicesAreSaved, IsTargeting, IsUi, IsPanel, Starts

LEMMA EditKeeps ==
    ASSUME WindowInv, ChoicesAreSaved,
           \/ BeginEdit \/ Backspace \/ CancelEdit
           \/ \E word \in Words \union {Blank}: Type(word)
    PROVE  WindowInv' /\ ChoicesAreSaved'
<1> USE DEF WindowInv, IsUi, IsPanel
<1>1. CASE BeginEdit BY <1>1, UiOnlyKeeps DEF BeginEdit
<1>2. CASE CancelEdit BY <1>2, UiOnlyKeeps DEF CancelEdit, StopEdit
<1>3. CASE Backspace
  <2>1. PICK word \in ui.buffer: UiOnly([ui EXCEPT !.buffer = @ \ {word}])
    BY <1>3 DEF Backspace
  <2> QED BY <2>1, UiOnlyKeeps
<1>4. ASSUME NEW word \in Words \union {Blank}, Type(word)
      PROVE  WindowInv' /\ ChoicesAreSaved'
  <2> DEFINE buffer == IF Cardinality(ui.buffer) < MaxBuffer THEN ui.buffer \union {word}
                       ELSE ui.buffer
  <2>1. UiOnly([ui EXCEPT !.buffer = buffer]) BY <1>4 DEF Type
  <2> HIDE DEF buffer
  <2> QED BY <2>1, UiOnlyKeeps
<1> QED BY <1>1, <1>2, <1>3, <1>4

LEMMA Unlit ==
    ASSUME NEW u, NEW t, IsPanel(u, t)
    PROVE  /\ IsPanel(Unhovered(u), t) /\ Unhovered(u).hover = 0
           /\ IsPanel(StopEdit(u), t)
BY DEF IsPanel, Unhovered, StopEdit

\* A refreshed target list with the panel scrolled back into it.
LEMMA ApplyKeeps ==
    ASSUME WindowInv, ChoicesAreSaved, ApplyEdit \/ ApplyActive \/ ClearQuery
    PROVE  WindowInv' /\ ChoicesAreSaved'
<1>1. DOMAIN settings = Keys /\ IsTargeting(targeting) /\ IsPanel(ui, targeting)
  BY DEF WindowInv, IsUi
<1>2. ASSUME NEW query
      PROVE  IsTargeting(RefreshTargets([targeting EXCEPT !.query = query, !.selected = 0], OnScreen))
  <2>1. IsTargeting([targeting EXCEPT !.query = query, !.selected = 0])
    BY <1>1, LenOfList DEF IsTargeting
  <2> QED BY <2>1, ScreenType, RefreshFits
<1>3. ASSUME NEW query, NEW u, IsPanel(u, targeting), Apply(query, u)
      PROVE  WindowInv' /\ ChoicesAreSaved'
  <2> DEFINE t == RefreshTargets([targeting EXCEPT !.query = TrimWhitespace(query), !.selected = 0],
                                 OnScreen)
  <2>1. IsTargeting(t) BY <1>2
  <2>2. SavedWith(settings, t, Visible(Unhovered(u), t)) BY <1>3 DEF Apply
  <2> HIDE DEF t
  <2>3. IsPanel(Unhovered(u), t) BY <1>3, <2>1, Unlit, UnlitFits
  <2> QED BY <1>1, <2>1, <2>2, <2>3, ScrolledFits, SavedWithKeeps
<1>4. CASE ApplyEdit BY <1>1, <1>3, <1>4, Unlit DEF ApplyEdit
<1>5. CASE ApplyActive BY <1>1, <1>3, <1>5 DEF ApplyActive
<1>6. CASE ClearQuery
  <2> DEFINE t == RefreshTargets([targeting EXCEPT !.query = {}, !.selected = 0], OnScreen)
             u == StopEdit(Unhovered(ui))
  <2>1. IsTargeting(t) BY <1>2
  <2>2. SavedWith(settings, t, [u EXCEPT !.start = 0]) BY <1>6 DEF ClearQuery
  <2>3. IsPanel(u, targeting) /\ u.hover = 0 BY <1>1, Unlit DEF StopEdit, Unhovered, IsPanel
  <2> HIDE DEF t, u
  <2>4. IsPanel(u, t) BY <1>1, <2>1, <2>3, UnlitFits
  <2> QED BY <1>1, <2>1, <2>2, <2>4, ScrolledFits, SavedWithKeeps
<1> QED BY <1>4, <1>5, <1>6

LEMMA SelectKeeps ==
    ASSUME WindowInv, ChoicesAreSaved, ui.panel, NEW i, SelectRow(i)
    PROVE  WindowInv' /\ ChoicesAreSaved'
<1> DEFINE picked == [targeting EXCEPT !.selected = i]
           t == QueryOfTarget(picked)
           u == [ui EXCEPT !.hover = i]
<1>1. DOMAIN settings = Keys /\ IsTargeting(targeting) /\ IsPanel(ui, targeting)
  BY DEF WindowInv, IsUi
<1>2. i \in 1..Len(targeting.windows) /\ Len(targeting.windows) \in Nat
  BY <1>1, LenOfList DEF SelectRow
<1>3. IsTargeting(picked) /\ picked.windows = targeting.windows BY <1>1, <1>2 DEF IsTargeting
<1>4. SavedWith(settings, t, Visible(u, t)) BY DEF SelectRow
<1>5. IsPanel(u, targeting)
  <2>1. i \in 0..Len(targeting.windows) BY <1>2
  <2>2. u.hover = i /\ u.panel /\ u.panel \in BOOLEAN BY <1>1 DEF IsPanel
  <2> QED BY <1>1, <2>1, <2>2 DEF IsPanel
<1> HIDE DEF picked, u
<1>6. IsTargeting(t) /\ t.windows = targeting.windows BY <1>3, QueryFits
<1> HIDE DEF t
<1>7. IsPanel(u, t) BY <1>5, <1>6 DEF IsPanel
<1> QED BY <1>1, <1>4, <1>6, <1>7, ScrolledFits, SavedWithKeeps

LEMMA ListKeeps ==
    ASSUME WindowInv, ChoicesAreSaved,
           \/ ClickRow \/ Hover
           \/ \E direction \in {-1, 1}: ArrowKey(direction) \/ Scroll(direction * PageSize)
           \/ \E last \in BOOLEAN: EdgeKey(last)
    PROVE  WindowInv' /\ ChoicesAreSaved'
<1>1. IsTargeting(targeting) /\ IsPanel(ui, targeting) /\ IsUi(ui, targeting)
  BY DEF WindowInv, IsUi
<1>2. CASE ClickRow BY <1>2, SelectKeeps DEF ClickRow, ListUsable
<1>3. CASE Hover
  <2>1. PICK i \in ShownRows(targeting, Rows, ui.start) \union {0}:
            ui.panel /\ UiOnly([ui EXCEPT !.hover = i])
    BY <1>3 DEF Hover, ListUsable
  <2>2. i \in 0..Len(targeting.windows) BY <1>1, LenOfList DEF ShownRows
  <2>3. IsUi([ui EXCEPT !.hover = i], targeting) BY <1>1, <2>1, <2>2 DEF IsUi, IsPanel
  <2> QED BY <2>1, <2>3, UiOnlyKeeps
<1>4. CASE \E direction \in {-1, 1}: ArrowKey(direction)
  BY <1>4, SelectKeeps DEF ArrowKey, ListUsable
<1>5. CASE \E last \in BOOLEAN: EdgeKey(last) BY <1>5, SelectKeeps DEF EdgeKey, ListUsable
<1>6. ASSUME NEW direction \in {-1, 1}, Scroll(direction * PageSize)
      PROVE  WindowInv' /\ ChoicesAreSaved'
  <2> DEFINE start == ui.start + direction * PageSize
  <2>1. UiOnly([ui EXCEPT !.start = ClampStart(targeting, Rows, start)]) BY <1>6 DEF Scroll
  <2>2. start \in Int BY <1>1, RowsFit DEF IsPanel, PageSize, AtLeast
  <2> HIDE DEF start
  <2>3. IsUi([ui EXCEPT !.start = ClampStart(targeting, Rows, start)], targeting)
    BY <1>1, <2>2, ScrolledFits
  <2> QED BY <2>1, <2>3, UiOnlyKeeps
<1> QED BY <1>2, <1>3, <1>4, <1>5, <1>6

LEMMA KeysKeep ==
    ASSUME WindowInv, ChoicesAreSaved,
           LockFrontmost \/ \E direction \in {-1, 1}: CycleKey(direction)
    PROVE  WindowInv' /\ ChoicesAreSaved'
<1>1. DOMAIN settings = Keys /\ IsTargeting(targeting) /\ IsPanel(ui, targeting)
  BY DEF WindowInv, IsUi
<1>2. ASSUME NEW t, IsTargeting(t), SavedWith(settings, t, Visible(Unhovered(ui), t))
      PROVE  WindowInv' /\ ChoicesAreSaved'
  <2>1. IsPanel(Unhovered(ui), t) BY <1>1, <1>2, Unlit, UnlitFits
  <2> QED BY <1>1, <1>2, <2>1, ScrolledFits, SavedWithKeeps
<1>3. CASE LockFrontmost
  <2>1. IsTargeting(QueryOfTarget(PickFrontmostTarget(targeting, OnScreen)))
    BY <1>1, ScreenType, PickFits, QueryFits
  <2> QED BY <1>2, <1>3, <2>1 DEF LockFrontmost
<1>4. ASSUME NEW direction \in {-1, 1}, CycleKey(direction) PROVE WindowInv' /\ ChoicesAreSaved'
  <2>1. IsTargeting(RefreshTargets(targeting, OnScreen)) BY <1>1, ScreenType, RefreshFits
  <2>2. IsTargeting(QueryOfTarget(CycleTarget(RefreshTargets(targeting, OnScreen), direction)))
    BY <2>1, CycleFits, QueryFits
  <2> QED BY <1>2, <1>4, <2>2 DEF CycleKey
<1> QED BY <1>3, <1>4

LEMMA PanelKeeps ==
    ASSUME WindowInv, ChoicesAreSaved,
           ToggleFollow \/ ChangeLook \/ TogglePanel \/ ClickBeside
    PROVE  WindowInv' /\ ChoicesAreSaved'
<1>1. DOMAIN settings = Keys /\ IsTargeting(targeting) /\ IsUi(ui, targeting)
  BY DEF WindowInv
<1>2. CASE ToggleFollow
  <2> DEFINE t == [targeting EXCEPT !.follow = ~@]
  <2>1. IsTargeting(t) /\ IsUi(ui, t) BY <1>1 DEF IsTargeting, IsUi, IsPanel, Starts
  <2>2. SavedWith(settings, t, ui) BY <1>2 DEF ToggleFollow
  <2> HIDE DEF t
  <2> QED BY <1>1, <2>1, <2>2, SavedWithKeeps
<1>3. CASE ChangeLook
  <2>0. PICK key \in LookKeys: \E s \in Changed(settings, key): SavedWith(s, targeting, ui)
    BY <1>3 DEF ChangeLook
  <2>1. PICK s \in Changed(settings, key): SavedWith(s, targeting, ui) BY <2>0
  <2>2. key \in Flags \union {"dock_anchor", "target_fps", "panel_opacity"} BY LookAssumption
  <2>3. DOMAIN s = Keys
    BY <1>1, <2>1, <2>2 DEF Changed, OpacityBy, Flags
  <2> QED BY <1>1, <2>1, <2>3, SavedWithKeeps
<1>4. CASE TogglePanel
  <2>1. IsUi([Unhovered(ui) EXCEPT !.panel = ~@], targeting)
    BY <1>1, <1>4 DEF IsUi, IsPanel, Unhovered, TogglePanel
  <2> QED BY <1>4, <2>1, UiOnlyKeeps DEF TogglePanel
<1>5. CASE ClickBeside
  <2>1. IsUi([StopEdit(Unhovered(ui)) EXCEPT !.panel = FALSE], targeting)
    BY <1>1 DEF IsUi, IsPanel, Unhovered, StopEdit
  <2> QED BY <1>5, <2>1, UiOnlyKeeps DEF ClickBeside
<1> QED BY <1>2, <1>3, <1>4, <1>5

\* Everything back to its default, the list as it is.
LEMMA ResetKeeps ==
    ASSUME WindowInv, ChoicesAreSaved, ResetDefaults PROVE WindowInv' /\ ChoicesAreSaved'
<1> DEFINE t == [targeting EXCEPT !.follow = FALSE, !.query = {}, !.selected = 0]
           u == Unhovered(ui)
           s == Gathered(Defaults, t, Centered)
<1>1. /\ targeting' = t /\ ui' = [u EXCEPT !.start = 0]
      /\ settings' = s /\ desktop' = desktop
  BY DEF ResetDefaults
<1>2. IsTargeting(targeting) /\ IsPanel(ui, targeting) /\ desktop \in Seq(DesktopWindows)
  BY DEF WindowInv, IsUi
<1>3. IsTargeting(t) BY <1>2, LenOfList DEF IsTargeting
<1>4. t.follow = FALSE /\ t.query = {} BY <1>2 DEF IsTargeting
<1>5. /\ DOMAIN s = Keys
      /\ s = [s EXCEPT !["follow_target_window"] = FALSE, !["target_window_query"] = {}]
  <2>1. DOMAIN Defaults = Keys BY DEF Defaults
  <2> HIDE DEF t
  <2>2. DOMAIN s = Keys BY <2>1, GatheredHas
  <2>3. s = [s EXCEPT !["follow_target_window"] = t.follow,
                      !["target_window_query"] = t.query]
    BY <2>1, GatheredHas
  <2> HIDE DEF s
  <2> QED BY <1>4, <2>2, <2>3
<1>6. ASSUME saved' = "ok" PROVE file' \in {Unreadable, Dump(s)}
  <2>1. PICK outcome \in SaveOutcomes(settings', file):
            file' = outcome.file /\ saved' = IF outcome.ok THEN "ok" ELSE "failed"
    BY DEF ResetDefaults, Save
  <2> HIDE DEF s, t, u
  <2> QED BY <1>1, <1>6, <2>1 DEF SaveOutcomes
<1> HIDE DEF t, s
<1>7. IsPanel(u, t) BY <1>2, <1>3, Unlit, UnlitFits
<1> HIDE DEF u
<1>8. IsUi([u EXCEPT !.start = 0], t) BY <1>3, <1>7, ScrolledFits
<1>9. WindowInv'
  BY <1>1, <1>2, <1>3, <1>5, <1>8 DEF WindowInv, IsTargeting, IsUi, IsPanel, Starts
<1> QED BY <1>1, <1>4, <1>5, <1>6, <1>9 DEF ChoicesAreSaved

-----------------------------------------------------------------------------
(* The loop, and the program's life *)

LEMMA TurnKeeps ==
    ASSUME WindowInv, ChoicesAreSaved, NEW refresh \in BOOLEAN, NEW sync \in BOOLEAN,
           Turn(refresh, sync)
    PROVE  WindowInv' /\ ChoicesAreSaved'
<1> DEFINE t == IF refresh THEN RefreshTargets(targeting, OnScreen) ELSE targeting
           u == IF refresh THEN Unhovered(ui) ELSE ui
<1>1. /\ targeting' = t /\ ui' = [u EXCEPT !.start = ClampStart(t, Rows, u.start)]
      /\ UNCHANGED <<settings, file, saved, desktop>>
  BY DEF Turn
<1>2. IsTargeting(targeting) /\ IsPanel(ui, targeting) BY DEF WindowInv, IsUi
<1>3. /\ IsTargeting(t) /\ t.follow = targeting.follow /\ t.query = targeting.query
  BY <1>2, ScreenType, RefreshFits
<1>4. IsPanel(u, t)
  <2>1. CASE refresh
    <3>1. IsPanel(Unhovered(ui), t) BY <1>2, <1>3, Unlit, UnlitFits
    <3> QED BY <2>1, <3>1
  <2>2. CASE ~refresh BY <1>2, <2>2
  <2> QED BY <2>1, <2>2
<1> HIDE DEF t, u
<1>5. u.start \in Int BY <1>4 DEF IsPanel
<1>6. IsUi([u EXCEPT !.start = ClampStart(t, Rows, u.start)], t) BY <1>3, <1>4, <1>5, ScrolledFits
<1>7. WindowInv'
  BY <1>1, <1>3, <1>6 DEF WindowInv, IsTargeting, IsUi, IsPanel, Starts
<1>8. ChoicesAreSaved' BY <1>1, <1>3 DEF ChoicesAreSaved
<1> QED BY <1>7, <1>8

LEMMA StartFits ==
    ASSUME WindowInv, Start PROVE WindowInv' /\ ChoicesAreSaved'
<1> DEFINE s == LoadedOrDefaults(file)
           First(option) ==
               [windows |-> <<>>, selected |-> 0,
                query |-> IF option.title # {} THEN option.title ELSE s["target_window_query"],
                follow |-> option.follow \/ s["follow_target_window"]]
           Listing(option) == RefreshTargets(First(option), OnScreen)
           Picked(option) ==
               IF Listing(option).query = {} /\ Listing(option).follow /\ ~HasTarget(Listing(option))
               THEN QueryOfTarget(PickFrontmostTarget(Listing(option), OnScreen))
               ELSE Listing(option)
<1>1. PICK option \in Options:
          /\ settings' = s /\ targeting' = Picked(option)
          /\ ui' = Visible(ClosedUi, Picked(option))
          /\ saved' = "never" /\ desktop' = desktop
  BY DEF Start
<1>2. DOMAIN s = Keys BY DEF LoadedOrDefaults, LoadOverlaySettings, Defaults
<1>3. IsTargeting(First(option))
  <2> HIDE DEF s
  <2> QED BY EmptySeq DEF IsTargeting
<1> DEFINE p == Picked(option)
<1>4. IsTargeting(p)
  <2> DEFINE l == Listing(option)
  <2>1. IsTargeting(l)
    <3> DEFINE f == First(option)
    <3> HIDE DEF f
    <3> QED BY <1>3, ScreenType, RefreshFits DEF f
  <2> HIDE DEF l
  <2>2. IsTargeting(QueryOfTarget(PickFrontmostTarget(l, OnScreen)))
    BY <2>1, ScreenType, PickFits, QueryFits
  <2> QED BY <2>1, <2>2 DEF l
<1>5. /\ settings' = s /\ targeting' = p /\ ui' = Visible(ClosedUi, p)
      /\ saved' = "never" /\ desktop' = desktop
  BY <1>1
<1> HIDE DEF p, s
<1>6. IsPanel(ClosedUi, p) BY <1>4, LenOfList DEF IsPanel, ClosedUi
<1>7. IsUi(Visible(ClosedUi, p), p) BY <1>4, <1>6, ScrolledFits
<1> QED BY <1>2, <1>4, <1>5, <1>7
        DEF WindowInv, ChoicesAreSaved, IsTargeting, IsUi, IsPanel, Starts

LEMMA DownKeeps == ASSUME WindowInv, GoDown PROVE WindowInv' /\ ChoicesAreSaved'
<1>1. /\ settings' = Defaults /\ targeting' = NoTargets /\ ui' = ClosedUi
      /\ saved' = "never" /\ desktop' = desktop
  BY DEF GoDown
<1>2. IsTargeting(NoTargets) /\ IsUi(ClosedUi, NoTargets) BY DownFits
<1> QED BY <1>1, <1>2
        DEF WindowInv, ChoicesAreSaved, Defaults, IsTargeting, IsUi, IsPanel, Starts

LEMMA DesktopKeeps ==
    ASSUME WindowInv, ChoicesAreSaved, DesktopNext PROVE WindowInv' /\ ChoicesAreSaved'
<1>1. PICK w \in DesktopWindows:
          desktop' \in {<<w>> \o Kept(desktop, DesktopWindows \ {w}), Kept(desktop, DesktopWindows \ {w})}
  BY DEF DesktopNext
<1>2. Kept(desktop, DesktopWindows \ {w}) \in Seq(DesktopWindows)
  BY KeptType DEF WindowInv
<1>3. <<w>> \in Seq(DesktopWindows) OBVIOUS
<1>4. desktop' \in Seq(DesktopWindows) BY <1>1, <1>2, <1>3, ConcatProperties
<1>5. UNCHANGED <<settings, targeting, ui, file, saved>> BY DEF DesktopNext, choiceVars
<1> QED BY <1>4, <1>5
        DEF WindowInv, ChoicesAreSaved, IsTargeting, IsUi, IsPanel, Starts

-----------------------------------------------------------------------------

LEMMA DebugWindowStep ==
    ASSUME WindowInv, ChoicesAreSaved, [DebugWindowNext]_debugWindowVars
    PROVE  WindowInv' /\ ChoicesAreSaved'
<1>1. CASE UNCHANGED debugWindowVars
  BY <1>1 DEF debugWindowVars, choiceVars, WindowInv, ChoicesAreSaved, IsTargeting, IsUi,
              IsPanel, Starts
<1>2. CASE UserNext
  BY <1>2, EditKeeps, ApplyKeeps, ListKeeps, KeysKeep, PanelKeeps, ResetKeeps DEF UserNext
<1>3. CASE AnyTurn BY <1>3, TurnKeeps DEF AnyTurn
<1>4. CASE Start BY <1>4, StartFits
<1>5. CASE Quit \/ Die BY <1>5, DownKeeps DEF Quit, Die
<1>6. CASE DesktopNext BY <1>6, DesktopKeeps
<1> QED BY <1>1, <1>2, <1>3, <1>4, <1>5, <1>6 DEF DebugWindowNext

\* Whatever the user does to the panel and the desktop to the list between two
\* refreshes, what is selected, lit or scrolled to is in the list.
THEOREM IndicesFit == DebugWindowSpec => []IndicesFitTheList
<1>1. WindowInv => IndicesFitTheList
  BY LenOfList, RowsFit DEF WindowInv, IndicesFitTheList, IsTargeting, IsUi, IsPanel, Starts, AtLeast
<1> QED BY InitWindow, DebugWindowStep, <1>1, PTL DEF DebugWindowSpec

\* A file that loads after a save reported good has what the user chose since,
\* because every handler that changes a choice saves; the file may have been cut
\* short behind good()'s back, and then has nothing.
THEOREM ChoicesReachTheFile == DebugWindowSpec => []ChoicesAreSaved
<1> QED BY InitWindow, DebugWindowStep, PTL DEF DebugWindowSpec

\* A refresh keeps the selection on its window, for lists of any length and in
\* any order.
THEOREM SelectionStays == DebugWindowSpec => SelectionFollowsWindow
<1> DEFINE Step == SelectionLeft => ~AnyTurn
<1>1. ASSUME WindowInv, [DebugWindowNext]_debugWindowVars PROVE [Step]_debugWindowVars
  <2> SUFFICES ASSUME AnyTurn, NEW i \in DOMAIN targeting.windows, i = targeting.selected,
                      NEW j \in DOMAIN targeting'.windows,
                      targeting'.windows[j].id = targeting.windows[i].id
               PROVE  HasTarget(targeting)' /\ Target(targeting)'.id = targeting.windows[i].id
    BY DEF SelectionLeft
  <2>1. IsTargeting(targeting) BY <1>1 DEF WindowInv
  <2>2. HasTarget(targeting) /\ Target(targeting) = targeting.windows[i] BY DEF HasTarget, Target
  <2>3. PICK refresh \in BOOLEAN, sync \in BOOLEAN: Turn(refresh, sync) BY DEF AnyTurn
  <2>4. CASE ~refresh
    <3>1. targeting' = targeting BY <2>3, <2>4 DEF Turn
    <3> QED BY <2>2, <3>1 DEF HasTarget, Target
  <2>5. CASE refresh
    <3> DEFINE l == Listed(OnScreen)
               S == {k \in DOMAIN l: HasTarget(targeting) /\ l[k].id = Target(targeting).id}
    <3>1. targeting' = RefreshTargets(targeting, OnScreen) BY <2>3, <2>5 DEF Turn
    <3>2. l \in Seq(AnyWindow) BY <1>1, ScreenType, ListedType
    <3>3. targeting'.windows = l BY <1>1, <2>1, <3>1, ScreenType, RefreshFits
    <3>4. DOMAIN l = 1..Len(l) /\ Len(l) \in Nat BY <3>2, LenProperties
    <3>5. j \in S BY <2>2, <3>3
    <3>6. FirstOf(S) \in S
      <4>1. S \in SUBSET (1..Len(l)) BY <3>4
      <4> HIDE DEF l, S
      <4> QED BY <3>4, <3>5, <4>1, FirstFits
    <3>7. FirstOf(S) # 0 /\ FirstOf(S) \in DOMAIN l /\ l[FirstOf(S)].id = targeting.windows[i].id
      <4> DEFINE f == FirstOf(S)
      <4> HIDE DEF f
      <4>1. f \in S BY <3>6 DEF f
      <4>2. f \in DOMAIN l /\ l[f].id = Target(targeting).id BY <4>1
      <4> HIDE DEF l, S
      <4>3. f # 0 BY <3>4, <4>2
      <4> QED BY <2>2, <4>2, <4>3 DEF f
    <3>8. targeting'.selected = FirstOf(S)
      <4>1. FirstSame(l, targeting) = FirstOf(S) BY DEF FirstSame
      <4> HIDE DEF l, S
      <4> QED BY <2>1, <3>1, <3>7, <4>1 DEF RefreshTargets, IsTargeting, l
    <3> HIDE DEF l, S
    <3> QED BY <3>3, <3>7, <3>8 DEF HasTarget, Target
  <2> QED BY <2>4, <2>5
<1> QED BY InitWindow, DebugWindowStep, <1>1, PTL DEF DebugWindowSpec, SelectionFollowsWindow

-----------------------------------------------------------------------------
(* THE OVERLAY.  For any number of swap chains. *)

-----------------------------------------------------------------------------
(* The invariant *)

Procs == {"game", "ours", "other"}

OverlayType ==
    /\ own \in Chains \union {NoChain} /\ bound \in Chains \union {NoChain}
    /\ proc \in Procs /\ original \in Procs \union {NoProc} /\ previous \in Procs \union {NoProc}
    /\ other \in [in: BOOLEAN, prev: Procs \union {NoProc}]
    /\ prop \in BOOLEAN /\ hooked \in BOOLEAN /\ dirty \in BOOLEAN /\ stored \in {"current", "old", "cut"}
    /\ disturbed \in BOOLEAN /\ outOfOrder \in BOOLEAN /\ lost \in BOOLEAN
    /\ message \in {"none", "ours", "handle"}

\* Where a view of the presented swap chain is needed there is one: the chains
\* alive have addresses of their own, so that comparing pointers is enough.
ChainInv ==
    /\ \A c, d \in Chains: Alive(c) /\ Alive(d) /\ Address[c] = Address[d] => c = d
    /\ view \in {NoChain, bound}
    /\ render # "out" => own # NoChain
    /\ render \in {"view", "install", "swap", "store", "draw"} => bound = own
    /\ render \in {"install", "swap", "store", "draw"} => view = own

\* The steps that want the hook installed, or gone.
HookInv ==
    /\ hooked => original # NoProc /\ prop
    /\ render = "store" => previous # NoProc
    /\ prop => hooked \/ render \in {"swap", "store"}
    /\ render \in {"swap", "store"} => ~hooked /\ prop
    /\ render \in {"restore", "forget"} => hooked
    /\ other.in => other.prev # NoProc

\* The steps of Shutdown, with no render.
LifeInv ==
    /\ life \in {"restore", "forget", "release", "stopped"} => render = "out"
    /\ life \in {"restore", "forget"} => hooked
    /\ life \in {"release", "stopped"} => ~hooked
    /\ life = "stopped" => bound = NoChain /\ view = NoChain

\* Our procedure is the window's, or is below the other subclass.
Installed == (hooked \/ render = "store") /\ render # "forget" /\ life # "forget"

\* The two subclasses are a stack, as long as they are removed in order.
StackInv ==
    ~outOfOrder /\ life # "overlapped" =>
        /\ proc = "ours" => Installed
        /\ other.in /\ other.prev = "ours" => Installed /\ proc = "other"
        /\ Installed /\ hooked => original # "ours"
        /\ render = "store" => previous # "ours"
        /\ proc = "other" => other.in
        /\ other.in => other.prev # "other"
        /\ Installed /\ hooked /\ original = "other" => proc = "ours" /\ other.in
        /\ render = "store" /\ previous = "other" => proc = "ours" /\ other.in

\* A message that nothing disturbed is handled by a hook that is in place.
MessageInv ==
    /\ ~lost
    /\ message # "none" /\ ~disturbed /\ ~outOfOrder /\ life # "overlapped" => Installed /\ hooked /\ ~Changing

OverlayInv ==
    /\ OverlayType /\ ChainInv /\ HookInv /\ LifeInv /\ StackInv /\ MessageInv
    /\ SettingsAreNotForgotten

LEMMA InitOverlay == OverlayInit => OverlayInv
<1> SUFFICES ASSUME OverlayInit PROVE OverlayInv OBVIOUS
<1> USE OverlayAssumption DEF OverlayInit, OverlayIdle
<1>1. OverlayType BY DEF OverlayType, Procs
<1>2. ChainInv BY DEF ChainInv, Alive
<1>3. HookInv /\ LifeInv /\ StackInv /\ MessageInv
  BY DEF HookInv, LifeInv, StackInv, MessageInv, Installed
<1> QED BY <1>1, <1>2, <1>3 DEF OverlayInv, SettingsAreNotForgotten

-----------------------------------------------------------------------------
(* The settings *)

\* What a save leaves, of a file that has older settings only if they are dirty.
SettingsFit == dirty \in BOOLEAN /\ stored \in {"current", "old", "cut"} /\ SettingsAreNotForgotten

LEMMA SaveKeeps ==
    ASSUME NEW nowDirty \in BOOLEAN, NEW nowStored \in {"current", "old", "cut"},
           nowStored = "old" => nowDirty, SaveSettingsIfDirty(nowDirty, nowStored)
    PROVE  SettingsFit'
BY DEF SaveSettingsIfDirty, SettingsAreNotForgotten, SettingsFit

LEMMA ChangeKeeps == ASSUME OverlayInv, NEW changed, ChangeSettings(changed) PROVE SettingsFit'
<1>1. dirty \in BOOLEAN /\ stored \in {"current", "old", "cut"} /\ (stored = "old" => dirty)
  BY DEF OverlayInv, OverlayType, SettingsAreNotForgotten
<1>2. CASE changed = {}
  <2>1. SaveSettingsIfDirty(dirty, stored) BY <1>2 DEF ChangeSettings
  <2> QED BY <1>1, <2>1, SaveKeeps
<1>3. CASE changed # {}
  <2>1. SaveSettingsIfDirty(TRUE, Outdated(stored)) BY <1>3 DEF ChangeSettings
  <2>2. Outdated(stored) \in {"current", "old", "cut"} BY <1>1 DEF Outdated
  <2> HIDE DEF Outdated
  <2> QED BY <2>1, <2>2, SaveKeeps
<1> QED BY <1>2, <1>3

-----------------------------------------------------------------------------
(* The swap chains *)

LEMMA CreateChainKeeps ==
    ASSUME OverlayInv, NEW chain \in Chains, CreateChain(chain) PROVE OverlayInv'
<1> USE OverlayAssumption
    DEF OverlayInv, CreateChain, windowVars, messageVars, settingVars
<1>1. OverlayType' BY DEF OverlayType
<1>2. ChainInv'
  <2>1. \A c, d \in Chains:
            Alive(c)' /\ Alive(d)' /\ Address[c] = Address[d] => c = d
    <3>1. \A c \in Chains: Alive(c)' => Alive(c) \/ c = chain BY DEF Alive
    <3>2. \A c \in Chains: Alive(c) => Address[c] # Address[chain] OBVIOUS
    <3> QED BY <3>1, <3>2 DEF ChainInv
  <2>2. UNCHANGED <<render, bound, view>> /\ render = "out" OBVIOUS
  <2> QED BY <2>1, <2>2 DEF ChainInv
<1>3. HookInv' /\ LifeInv' /\ StackInv' BY DEF HookInv, LifeInv, StackInv, Installed
<1>4. MessageInv' BY DEF MessageInv, Installed, Changing
<1> QED BY <1>1, <1>2, <1>3, <1>4 DEF SettingsAreNotForgotten

LEMMA ReleaseChainKeeps == ASSUME OverlayInv, ReleaseChain PROVE OverlayInv'
<1> USE DEF OverlayInv, ReleaseChain, windowVars, messageVars, settingVars
<1>1. OverlayType' BY DEF OverlayType
<1>2. ChainInv'
  <2>1. \A c \in Chains: Alive(c)' => Alive(c)
    BY OverlayAssumption DEF Alive, OverlayType
  <2> QED BY <2>1 DEF ChainInv
<1>3. HookInv' /\ LifeInv' /\ StackInv' BY DEF HookInv, LifeInv, StackInv, Installed
<1>4. MessageInv' BY DEF MessageInv, Installed, Changing
<1> QED BY <1>1, <1>2, <1>3, <1>4 DEF SettingsAreNotForgotten

-----------------------------------------------------------------------------
(* Render *)

LEMMA BeginRenderKeeps == ASSUME OverlayInv, BeginRender PROVE OverlayInv'
<1> USE DEF OverlayInv, BeginRender, RenderGoto, windowVars, messageVars
<1>1. SettingsFit' BY ChangeKeeps
<1>2. OverlayType' /\ SettingsAreNotForgotten' BY <1>1 DEF OverlayType, SettingsFit
<1>3. ChainInv' BY DEF ChainInv, Alive
<1>4. HookInv' /\ LifeInv' /\ StackInv' BY DEF HookInv, LifeInv, StackInv, Installed
<1>5. MessageInv' BY DEF MessageInv, Installed, Changing
<1> QED BY <1>1, <1>2, <1>3, <1>4, <1>5

\* Of a render beside Shutdown the invariant says what it said before.
LEMMA LateRenderKeeps == ASSUME OverlayInv, LateRender PROVE OverlayInv'
<1> USE DEF OverlayInv, LateRender, chainVars, windowVars, messageVars, settingVars
<1>1. OverlayType' BY DEF OverlayType
<1>2. ChainInv' BY DEF ChainInv, Alive
<1>3. HookInv' /\ LifeInv' /\ StackInv' BY DEF HookInv, LifeInv, StackInv, Installed
<1>4. MessageInv' BY DEF MessageInv, Installed, Changing
<1> QED BY <1>1, <1>2, <1>3, <1>4 DEF SettingsAreNotForgotten

LEMMA DrawKeeps == ASSUME OverlayInv, Draw PROVE OverlayInv'
<1> USE DEF OverlayInv, Draw, RenderGoto, windowVars, messageVars
<1>1. SettingsFit' BY ChangeKeeps
<1>2. OverlayType' /\ SettingsAreNotForgotten' BY <1>1 DEF OverlayType, SettingsFit
<1>3. ChainInv' BY DEF ChainInv, Alive
<1>4. HookInv' /\ LifeInv' /\ StackInv' BY DEF HookInv, LifeInv, StackInv, Installed
<1>5. MessageInv' BY DEF MessageInv, Installed, Changing
<1> QED BY <1>1, <1>2, <1>3, <1>4, <1>5

\* A chain kept is the one presented, because both are alive.
LEMMA KeepBoundKeeps == ASSUME OverlayInv, KeepBound PROVE OverlayInv'
<1> USE DEF OverlayInv, KeepBound, RenderGoto, windowVars, messageVars, settingVars
<1>1. bound = own
  BY OverlayAssumption DEF BoundAlready, ChainInv, Alive, OverlayType
<1>2. OverlayType' BY DEF OverlayType
<1>3. ChainInv' BY <1>1 DEF ChainInv, Alive
<1>4. HookInv' /\ LifeInv' /\ StackInv' BY DEF HookInv, LifeInv, StackInv, Installed
<1>5. MessageInv' BY DEF MessageInv, Installed, Changing
<1> QED BY <1>2, <1>3, <1>4, <1>5 DEF SettingsAreNotForgotten

LEMMA UnbindKeeps == ASSUME OverlayInv, Unbind PROVE OverlayInv'
<1> USE DEF OverlayInv, Unbind, RenderGoto, windowVars, messageVars, settingVars
<1>1. OverlayType' BY DEF OverlayType
<1>2. ChainInv' BY DEF ChainInv, Alive
<1>3. HookInv' /\ LifeInv' /\ StackInv' BY DEF HookInv, LifeInv, StackInv, Installed
<1>4. MessageInv' BY DEF MessageInv, Installed, Changing
<1> QED BY <1>1, <1>2, <1>3, <1>4 DEF SettingsAreNotForgotten

LEMMA RebindKeeps == ASSUME OverlayInv, Rebind PROVE OverlayInv'
<1> USE DEF OverlayInv, Rebind, RenderGoto, windowVars, messageVars, settingVars
<1>1. OverlayType' BY DEF OverlayType
<1>2. ChainInv'
  <2>1. \A c \in Chains: Alive(c)' => Alive(c)
    BY OverlayAssumption DEF Alive, OverlayType
  <2> QED BY <2>1 DEF ChainInv
<1>3. HookInv' /\ LifeInv' /\ StackInv' BY DEF HookInv, LifeInv, StackInv, Installed
<1>4. MessageInv' BY DEF MessageInv, Installed, Changing
<1> QED BY <1>1, <1>2, <1>3, <1>4 DEF SettingsAreNotForgotten

LEMMA ViewKeeps == ASSUME OverlayInv, EnsureRenderTargetView PROVE OverlayInv'
<1> USE DEF OverlayInv, EnsureRenderTargetView, RenderGoto, windowVars, messageVars, settingVars
<1>1. OverlayType' BY DEF OverlayType
<1>2. ChainInv' BY DEF ChainInv, Alive
<1>3. HookInv' /\ LifeInv' /\ StackInv' BY DEF HookInv, LifeInv, StackInv, Installed
<1>4. MessageInv' BY DEF MessageInv, Installed, Changing
<1> QED BY <1>1, <1>2, <1>3, <1>4 DEF SettingsAreNotForgotten

-----------------------------------------------------------------------------
(* The subclass put in place by Render *)

LEMMA SubclassKeeps ==
    ASSUME OverlayInv, EnsureWindowHookInstalled \/ SwapProc \/ StoreOriginal
    PROVE  OverlayInv'
<1> USE DEF OverlayInv, RenderGoto, settingVars
<1>1. CASE EnsureWindowHookInstalled
  <2> USE <1>1 DEF EnsureWindowHookInstalled
  <2>1. OverlayType'
    <3>1. prop' \in BOOLEAN /\ disturbed' \in BOOLEAN BY DEF OverlayType
    <3>2. UNCHANGED <<own, bound, view, proc, hooked, original, previous, other,
                      outOfOrder, message, lost, dirty, stored>>
      OBVIOUS
    <3> QED BY <3>1, <3>2 DEF OverlayType
  <2>2. ChainInv' BY DEF ChainInv, Alive
  <2>3. HookInv' /\ LifeInv' /\ StackInv' BY DEF HookInv, LifeInv, StackInv, Installed
  <2>4. MessageInv' BY DEF MessageInv, Installed, Changing
  <2> QED BY <2>1, <2>2, <2>3, <2>4 DEF SettingsAreNotForgotten
<1>2. CASE SwapProc
  <2> USE <1>2 DEF SwapProc
  <2>1. OverlayType'
    <3>1. disturbed' = TRUE /\ prop' \in {prop, FALSE} OBVIOUS
    <3>2. proc' \in Procs /\ previous' \in Procs \union {NoProc} BY DEF OverlayType, Procs
    <3>3. UNCHANGED <<own, bound, view, hooked, original, other,
                      outOfOrder, message, lost, dirty, stored>>
      OBVIOUS
    <3> QED BY <3>1, <3>2, <3>3 DEF OverlayType
  <2>2. ChainInv' BY DEF ChainInv, Alive
  <2>3. HookInv'
    <3>1. proc # NoProc BY OverlayAssumption DEF OverlayType, Procs
    <3>2. CASE render' = "store" BY <3>1, <3>2 DEF HookInv
    <3>3. CASE render' = "draw" BY <3>3 DEF HookInv
    <3> QED BY <3>2, <3>3
  <2>4. LifeInv' BY DEF LifeInv
  <2>5. StackInv' BY DEF StackInv, HookInv, LifeInv, Installed
  <2>6. MessageInv' BY DEF MessageInv
  <2> QED BY <2>1, <2>2, <2>3, <2>4, <2>5, <2>6 DEF SettingsAreNotForgotten
<1>3. CASE StoreOriginal
  <2> USE <1>3 DEF StoreOriginal
  <2>1. OverlayType' BY DEF OverlayType
  <2>2. ChainInv' BY DEF ChainInv, Alive
  <2>3. HookInv' /\ LifeInv' /\ StackInv' BY DEF HookInv, LifeInv, StackInv, Installed
  <2>4. MessageInv' BY DEF MessageInv
  <2> QED BY <2>1, <2>2, <2>3, <2>4 DEF SettingsAreNotForgotten
<1> QED BY <1>1, <1>2, <1>3

-----------------------------------------------------------------------------
(* The subclass removed, by Render or by Shutdown *)

\* In order, the procedure that comes back is not ours, and neither is what
\* the other subclass will put back.
LEMMA RestoreKeeps ==
    ASSUME OverlayInv, RenderRestores \/ ShutdownRestores PROVE OverlayInv'
<1> USE DEF OverlayInv, RenderRestores, ShutdownRestores, RestoreProc, RenderGoto,
        chainVars, settingVars
<1>1. hooked /\ original \in Procs BY DEF HookInv, LifeInv, OverlayType
<1>2. OverlayType' BY <1>1 DEF OverlayType
<1>3. ChainInv' BY DEF ChainInv, Alive
<1>4. HookInv' /\ LifeInv' BY DEF HookInv, LifeInv
<1>5. StackInv'
  <2> SUFFICES ASSUME ~outOfOrder' PROVE StackInv' BY DEF StackInv
  <2>1. ~outOfOrder /\ proc = "ours" BY DEF OverlayType
  <2>2. original # "ours" BY <2>1, <1>1 DEF StackInv
  <2>3. render' # "store" /\ ~Installed' BY DEF LifeInv, Installed
  <2>4. original = "other" => other.in BY <1>1, <2>1 DEF StackInv
  <2>5. ~(other.in /\ other.prev = "ours") BY <2>1 DEF StackInv
  <2> QED BY <2>1, <2>2, <2>3, <2>4, <2>5 DEF StackInv
<1>6. MessageInv' BY DEF MessageInv
<1> QED BY <1>2, <1>3, <1>4, <1>5, <1>6 DEF SettingsAreNotForgotten

LEMMA ForgetKeeps ==
    ASSUME OverlayInv, RenderForgets \/ ShutdownForgets PROVE OverlayInv'
<1> USE DEF OverlayInv, RenderForgets, ShutdownForgets, ForgetHook, RenderGoto,
        chainVars, settingVars
<1>1. OverlayType' BY DEF OverlayType
<1>2. ChainInv' BY DEF ChainInv, Alive
<1>3. HookInv' /\ LifeInv' BY DEF HookInv, LifeInv
<1>4. StackInv' BY DEF StackInv, LifeInv, Installed
<1>5. MessageInv' BY DEF MessageInv
<1> QED BY <1>1, <1>2, <1>3, <1>4, <1>5 DEF SettingsAreNotForgotten

-----------------------------------------------------------------------------
(* Shutdown *)

LEMMA ShutdownKeeps ==
    ASSUME OverlayInv, RemoveDetour \/ ShutdownSaves \/ ShutdownReleases PROVE OverlayInv'
<1> USE DEF OverlayInv, windowVars, messageVars
<1>1. CASE RemoveDetour
  <2> USE <1>1 DEF RemoveDetour, chainVars, settingVars
  <2>1. OverlayType' BY DEF OverlayType
  <2>2. ChainInv' BY DEF ChainInv, Alive
  <2>3. HookInv' /\ LifeInv' /\ StackInv' BY DEF HookInv, LifeInv, StackInv, Installed
  <2>4. MessageInv' BY DEF MessageInv, Installed, Changing
  <2> QED BY <2>1, <2>2, <2>3, <2>4 DEF SettingsAreNotForgotten
<1>2. CASE ShutdownSaves
  <2> USE <1>2 DEF ShutdownSaves, chainVars
  <2>1. SettingsFit'
    <3>1. /\ dirty \in BOOLEAN /\ stored \in {"current", "old", "cut"}
          /\ stored = "old" => dirty
      BY DEF OverlayType, SettingsAreNotForgotten
    <3> QED BY <3>1, SaveKeeps
  <2>2. OverlayType' /\ SettingsAreNotForgotten' BY <2>1 DEF OverlayType, SettingsFit
  <2>3. ChainInv' BY DEF ChainInv, Alive
  <2>4. HookInv' /\ LifeInv' /\ StackInv' BY DEF HookInv, LifeInv, StackInv, Installed
  <2>5. MessageInv' BY DEF MessageInv, Installed, Changing
  <2> QED BY <2>1, <2>2, <2>3, <2>4, <2>5
<1>3. CASE ShutdownReleases
  <2> USE <1>3 DEF ShutdownReleases, settingVars
  <2>1. OverlayType' BY DEF OverlayType
  <2>2. render = "out" BY DEF LifeInv
  <2>3. ChainInv'
    <3>1. \A c \in Chains: Alive(c)' => Alive(c)
      BY OverlayAssumption DEF Alive, OverlayType
    <3> QED BY <3>1, <2>2 DEF ChainInv
  <2>4. HookInv' /\ LifeInv' /\ StackInv' BY DEF HookInv, LifeInv, StackInv, Installed
  <2>5. MessageInv' BY DEF MessageInv, Installed, Changing
  <2> QED BY <2>1, <2>3, <2>4, <2>5 DEF SettingsAreNotForgotten
<1> QED BY <1>1, <1>2, <1>3

-----------------------------------------------------------------------------
(* The window's thread *)

LEMMA MessageKeeps ==
    ASSUME OverlayInv, Dispatch \/ OverlayWindowProc \/ HandleWindowMessage
    PROVE  OverlayInv'
<1> USE DEF OverlayInv, WindowStep, chainVars, windowVars, settingVars
<1>1. WindowStep /\ life # "overlapped"
  BY DEF Dispatch, OverlayWindowProc, HandleWindowMessage
<1>2. OverlayType' /\ MessageInv'
  <2>1. CASE Dispatch
    <3>1. ~outOfOrder /\ FirstProc = "ours" => Installed
      BY <1>1 DEF FirstProc, StackInv
    <3>2. Installed /\ ~Changing => hooked BY DEF Installed, Changing
    <3>3. CASE FirstProc = "ours"
      <4>1. message' = "ours" /\ disturbed' = Changing /\ UNCHANGED lost
        BY <2>1, <3>3 DEF Dispatch
      <4>2. OverlayType' BY <4>1, <1>1 DEF OverlayType, Changing
      <4>3. ~outOfOrder /\ ~Changing => Installed /\ hooked BY <3>1, <3>2, <3>3
      <4>4. Installed' = Installed /\ Changing' = Changing BY <1>1 DEF Installed, Changing
      <4> QED BY <1>1, <4>1, <4>2, <4>3, <4>4 DEF MessageInv
    <3>4. CASE FirstProc # "ours"
      <4>1. UNCHANGED messageVars BY <2>1, <3>4 DEF Dispatch
      <4> QED BY <1>1, <4>1 DEF OverlayType, MessageInv, Installed, Changing, messageVars
    <3> QED BY <3>3, <3>4
  <2>2. CASE OverlayWindowProc
    BY <2>2, ZenonT(40)
    DEF OverlayWindowProc, MessageEnds, OverlayType, MessageInv, HookInv, Installed, Changing
  <2>3. CASE HandleWindowMessage
    <3>1. ~disturbed /\ ~outOfOrder =>
             original = "game" \/ (original = "other" /\ other.prev # "ours")
      <4> SUFFICES ASSUME ~disturbed, ~outOfOrder
                   PROVE  original = "game" \/ (original = "other" /\ other.prev # "ours")
        OBVIOUS
      <4>1. Installed /\ hooked BY <1>1, <2>3 DEF HandleWindowMessage, MessageInv
      <4>2. original # "ours" /\ original \in Procs BY <1>1, <4>1 DEF StackInv, HookInv, OverlayType
      <4>3. original = "other" => proc = "ours" /\ other.in BY <1>1, <4>1 DEF StackInv
      <4>4. other.in /\ other.prev = "ours" => proc = "other" BY <1>1 DEF StackInv
      <4> QED BY <4>2, <4>3, <4>4 DEF Procs
    <3>2. lost' = FALSE /\ message' = "none" /\ disturbed' = FALSE
      BY <2>3, <3>1 DEF HandleWindowMessage, MessageEnds, MessageInv, OverlayType
    <3> QED BY <1>1, <3>2, ZenonT(40) DEF OverlayType, MessageInv
  <2> QED BY <2>1, <2>2, <2>3
<1>3. ChainInv' BY <1>1 DEF ChainInv, Alive
<1>4. HookInv' /\ LifeInv' /\ StackInv' BY <1>1 DEF HookInv, LifeInv, StackInv, Installed
<1> QED BY <1>1, <1>2, <1>3, <1>4 DEF SettingsAreNotForgotten

LEMMA OtherKeeps ==
    ASSUME OverlayInv, OtherInstalls \/ OtherRemoves PROVE OverlayInv'
<1> USE DEF OverlayInv, OtherInstalls, OtherRemoves, chainVars, messageVars, settingVars
<1>1. other.in => other.prev \in Procs BY DEF OverlayType, HookInv
<1>2. OverlayType'
  <2>1. proc' \in Procs BY <1>1 DEF Procs
  <2>2. outOfOrder' \in BOOLEAN BY DEF OverlayType
  <2>3. other' \in [in: BOOLEAN, prev: Procs \union {NoProc}]
    <3>1. CASE OtherInstalls
      <4>1. proc \in Procs \union {NoProc} BY DEF OverlayType
      <4> QED BY <3>1, <4>1
    <3>2. CASE OtherRemoves BY <3>2
    <3> QED BY <3>1, <3>2
  <2> QED BY <2>1, <2>2, <2>3 DEF OverlayType
<1>3. ChainInv' BY DEF ChainInv, Alive
<1>4. HookInv' /\ LifeInv' BY OverlayAssumption DEF HookInv, LifeInv, OverlayType, Procs
<1>5. StackInv'
  <2>1. CASE OtherInstalls BY <2>1 DEF StackInv, Installed
  <2>2. CASE OtherRemoves
    <3> SUFFICES ASSUME ~outOfOrder' PROVE StackInv' BY DEF StackInv
    <3>1. ~outOfOrder /\ proc = "other" BY <2>2 DEF OverlayType
    <3> QED BY <2>2, <3>1 DEF StackInv, Installed
  <2> QED BY <2>1, <2>2
<1>6. MessageInv' BY DEF MessageInv, Installed, Changing, OverlayType
<1> QED BY <1>2, <1>3, <1>4, <1>5, <1>6 DEF SettingsAreNotForgotten

-----------------------------------------------------------------------------

LEMMA OverlayInvariance == OverlaySpec => []OverlayInv
<1>1. OverlayInv /\ UNCHANGED overlayVars => OverlayInv'
  <2> SUFFICES ASSUME OverlayInv, UNCHANGED overlayVars PROVE OverlayInv' OBVIOUS
  <2> USE DEF OverlayInv, overlayVars, chainVars, windowVars, messageVars, settingVars
  <2>1. OverlayType' BY DEF OverlayType
  <2>2. ChainInv' BY DEF ChainInv, Alive
  <2>3. HookInv' /\ LifeInv' /\ StackInv' BY DEF HookInv, LifeInv, StackInv, Installed
  <2>4. MessageInv' BY DEF MessageInv, Installed, Changing
  <2> QED BY <2>1, <2>2, <2>3, <2>4 DEF SettingsAreNotForgotten
<1>2. OverlayInv /\ [OverlayNext]_overlayVars => OverlayInv'
  BY <1>1, CreateChainKeeps, ReleaseChainKeeps, BeginRenderKeeps, LateRenderKeeps, KeepBoundKeeps, UnbindKeeps,
     RebindKeeps, ViewKeeps, DrawKeeps, SubclassKeeps, RestoreKeeps, ForgetKeeps, ShutdownKeeps,
     MessageKeeps, OtherKeeps DEF OverlayNext
<1> QED BY InitOverlay, <1>2, PTL DEF OverlaySpec

\* A new swap chain at the address of an old one is never taken for it.
THEOREM DrawsWherePresented == OverlaySpec => []DrawsOnThePresentedChain
<1>1. OverlayInv => DrawsOnThePresentedChain
  BY DEF OverlayInv, ChainInv, DrawsOnThePresentedChain
<1> QED BY <1>1, OverlayInvariance, PTL

\* A message during which no subclass was installed or removed reaches the
\* game, as long as none was removed from under another one.  Of a message that
\* an installation or a removal met on its way nothing is said.
THEOREM GameGetsItsMessages == OverlaySpec => []MessagesReachTheGame
<1>1. OverlayInv => MessagesReachTheGame
  BY DEF OverlayInv, MessageInv, MessagesReachTheGame
<1> QED BY <1>1, OverlayInvariance, PTL

\* A change whose save was reported failed stays to be saved, and whenever
\* there is nothing to save the file has the last change or loads as nothing.
THEOREM SettingsAreKept == OverlaySpec => []SettingsAreNotForgotten
<1>1. OverlayInv => SettingsAreNotForgotten BY DEF OverlayInv
<1> QED BY <1>1, OverlayInvariance, PTL

\* A Shutdown that no render overlaps leaves no reference, no property and no
\* pointer behind, and not our procedure unless a subclass was removed from
\* under another one.
THEOREM ShutdownGivesBack == OverlaySpec => []StoppedMeansGivenBack
<1>1. OverlayInv => StoppedMeansGivenBack
  <2> SUFFICES ASSUME OverlayInv, life = "stopped"
               PROVE  /\ bound = NoChain /\ view = NoChain
                      /\ ~prop /\ ~hooked
                      /\ proc # "ours" \/ outOfOrder
    BY DEF StoppedMeansGivenBack
  <2>1. ~hooked /\ render = "out" /\ bound = NoChain /\ view = NoChain
    BY DEF OverlayInv, LifeInv
  <2>2. ~prop BY <2>1 DEF OverlayInv, HookInv
  <2>3. ~Installed BY <2>1 DEF Installed
  <2> QED BY <2>1, <2>2, <2>3 DEF OverlayInv, StackInv
<1> QED BY <1>1, OverlayInvariance, PTL

-----------------------------------------------------------------------------
(* THE VULKAN HOOK.  For any number of hook instances. *)

-----------------------------------------------------------------------------
(* The invariant *)

HookStates == {"Ready", "Running", "Error", "Unsupported"}

Places == {"create", "enable", "disable", "clear"}

VulkanType ==
    /\ claim \in Hooks \union {NoHook}
    /\ hookState \in [Hooks -> HookStates]
    /\ trampoline \in BOOLEAN /\ created \in BOOLEAN /\ enabled \in BOOLEAN
    /\ call = NoCall \/ call \in [hook: Hooks, at: Places]
    /\ present \in {"out", "detour", "original"}
    /\ stuck \in BOOLEAN /\ undoing \in BOOLEAN /\ skipped \in BOOLEAN

\* A patched entry is MinHook's, has its original, and is not being cleared.
PatchInv ==
    /\ enabled => created /\ (stuck \/ trampoline)
    /\ call.at = "enable" => ~enabled /\ created /\ trampoline
    /\ call.at = "clear" => (enabled <=> stuck)

\* A patch that could not be taken out stays, without its original, and nothing
\* is enabled or disabled any more.
StuckInv ==
    stuck => /\ enabled /\ call.at \notin {"enable", "disable"}
             /\ call.at # "clear" => ~trampoline

\* One instance at most is Running; the entry is patched until it is removed.
RunningInv ==
    /\ \A h, g \in Hooks: hookState[h] = "Running" /\ hookState[g] = "Running" => h = g
    /\ \A h \in Hooks:
           hookState[h] = "Running" /\ call.at # "clear" => enabled /\ ~stuck
    /\ call.at \in {"disable", "clear"} => hookState[call.hook] = "Running"

\* A claim is over a patched entry or, during an Install, the caller's.  No
\* instance but the Running one has it while there is one: an instance that was
\* installed twice keeps its claim and is not Running.
ClaimInv ==
    /\ Idle /\ claim # NoHook => enabled /\ ~stuck
    /\ Idle => \A h \in Hooks: hookState[h] = "Running" => claim \in {NoHook, h}
    /\ call.at \in {"create", "enable"} => claim = call.hook
    /\ call.at \in {"disable", "clear"} => claim \in {NoHook, call.hook}

\* A present in the detour finds the original unless a hook was undone, or could
\* not be.
PresentInv ==
    (present = "detour" /\ ~undoing => trampoline \/ stuck) /\ (skipped => stuck)

VulkanInv == VulkanType /\ PatchInv /\ StuckInv /\ RunningInv /\ ClaimInv /\ PresentInv

LEMMA InitHook == VulkanIdle => VulkanInv
<1> SUFFICES ASSUME VulkanIdle PROVE VulkanInv OBVIOUS
<1>1. VulkanType BY DEF VulkanIdle, VulkanType, HookStates
<1>2. \A h \in Hooks: hookState[h] = "Ready" BY DEF VulkanIdle
<1>3. call.at = "idle" /\ ~enabled /\ claim = NoHook /\ present = "out" /\ ~skipped
      /\ ~stuck
  BY DEF VulkanIdle, NoCall
<1> QED BY <1>1, <1>2, <1>3 DEF VulkanInv, PatchInv, StuckInv, RunningInv, ClaimInv, PresentInv

-----------------------------------------------------------------------------
(* The control calls *)

LEMMA InstallKeeps == ASSUME VulkanInv, NEW hook \in Hooks, Install(hook) PROVE VulkanInv'
<1> USE VulkanAssumption DEF VulkanInv, VulkanType, Install, Idle, NoCall, Places, HookStates,
        mhVars, presentVars
<1>1. CASE claim = NoHook
  BY <1>1 DEF PatchInv, StuckInv, RunningInv, ClaimInv, PresentInv
<1>2. CASE claim # NoHook
  BY <1>2 DEF PatchInv, StuckInv, RunningInv, ClaimInv, PresentInv
<1> QED BY <1>1, <1>2

\* The failing instance is not Running any more, and its claim is given up.
LEMMA GiveUpKeeps ==
    ASSUME VulkanInv, NEW state \in {"Error", "Unsupported"}, GiveUp(state) PROVE VulkanInv'
<1> USE VulkanAssumption DEF VulkanInv, VulkanType, GiveUp, Return, Idle, NoCall, Places,
        HookStates, mhVars, presentVars
<1>1. call.hook \in Hooks /\ call \in [hook: Hooks, at: Places] OBVIOUS
<1>2. \A h \in Hooks: hookState'[h] = IF h = call.hook THEN state ELSE hookState[h]
  BY <1>1
<1>3. VulkanType' BY <1>1
<1> QED BY <1>1, <1>2, <1>3 DEF PatchInv, StuckInv, RunningInv, ClaimInv, PresentInv

\* A hook is only created where none is, so that no instance was Running.
LEMMA CreateKeeps == ASSUME VulkanInv, Create PROVE VulkanInv'
<1> USE VulkanAssumption DEF VulkanInv, Create, Proceed, presentVars
<1>1. call \in [hook: Hooks, at: Places] /\ call' = [call EXCEPT !.at = "enable"]
      /\ call'.at = "enable" /\ call'.hook = call.hook
  BY DEF VulkanType, Places, NoCall
<1>2. VulkanType' BY <1>1 DEF VulkanType, Places
<1>3. ~enabled /\ ~stuck BY DEF PatchInv, StuckInv
<1> QED BY <1>1, <1>2, <1>3 DEF PatchInv, StuckInv, RunningInv, ClaimInv, PresentInv, Idle, NoCall, VulkanType

LEMMA EnableKeeps == ASSUME VulkanInv, Enable PROVE VulkanInv'
<1> USE VulkanAssumption DEF VulkanInv, Enable, Return, NoCall, presentVars
<1>1. call.hook \in Hooks /\ claim = call.hook BY DEF VulkanType, Places, ClaimInv
<1>2. \A h \in Hooks: hookState'[h] = IF h = call.hook THEN "Running" ELSE hookState[h]
  BY <1>1 DEF VulkanType
<1>3. (\A h \in Hooks: hookState[h] # "Running") /\ ~stuck BY DEF PatchInv, StuckInv, RunningInv
<1>4. VulkanType' BY <1>1 DEF VulkanType, HookStates
<1> QED BY <1>1, <1>2, <1>3, <1>4 DEF PatchInv, StuckInv, RunningInv, ClaimInv, PresentInv, Idle

LEMMA UndoKeeps == ASSUME VulkanInv, UndoCreate PROVE VulkanInv'
<1> USE VulkanAssumption DEF VulkanInv, UndoCreate, Return, NoCall, presentVars
<1>1. call.hook \in Hooks BY DEF VulkanType, Places
<1>2. \A h \in Hooks: hookState'[h] = IF h = call.hook THEN "Error" ELSE hookState[h]
  BY <1>1 DEF VulkanType
<1>3. ~enabled /\ ~stuck BY DEF PatchInv, StuckInv
<1>4. VulkanType' BY <1>1 DEF VulkanType, HookStates
<1> QED BY <1>1, <1>2, <1>3, <1>4 DEF PatchInv, StuckInv, RunningInv, ClaimInv, PresentInv, Idle

\* Remove of an instance that is not Running takes a claim away, which breaks
\* nothing.
LEMMA RemoveKeeps ==
    ASSUME VulkanInv, NEW hook \in Hooks, Remove(hook) \/ RemoveNotRunning(hook)
    PROVE  VulkanInv'
<1> USE VulkanAssumption DEF VulkanInv, Idle, NoCall, mhVars, presentVars
<1>1. CASE RemoveNotRunning(hook)
  BY <1>1 DEF RemoveNotRunning, VulkanType, PatchInv, StuckInv, RunningInv, ClaimInv, PresentInv
<1>2. CASE Remove(hook)
  BY <1>2 DEF Remove, VulkanType, Places, PatchInv, StuckInv, RunningInv, ClaimInv, PresentInv
<1> QED BY <1>1, <1>2

LEMMA DisableKeeps == ASSUME VulkanInv, Disable PROVE VulkanInv'
<1> USE VulkanAssumption DEF VulkanInv, Disable
<1>1. call \in [hook: Hooks, at: Places] /\ call'.at = "clear" /\ call'.hook = call.hook
  BY DEF VulkanType, Places, NoCall
<1>2. VulkanType' BY <1>1 DEF VulkanType, Places
<1> QED BY <1>1, <1>2 DEF PatchInv, StuckInv, RunningInv, ClaimInv, PresentInv, Idle, NoCall

LEMMA ClearKeeps == ASSUME VulkanInv, Clear PROVE VulkanInv'
<1> USE VulkanAssumption DEF VulkanInv, Clear, Return, NoCall, mhVars
<1>1. call.hook \in Hooks BY DEF VulkanType, Places
<1>2. \A h \in Hooks: hookState'[h] = IF h = call.hook THEN "Ready" ELSE hookState[h]
  BY <1>1 DEF VulkanType
<1>3. \A h \in Hooks: hookState'[h] # "Running" BY <1>1, <1>2 DEF RunningInv
<1>4. (enabled <=> stuck) /\ claim' = NoHook BY DEF PatchInv, ClaimInv
<1>5. VulkanType' BY <1>1, <1>4 DEF VulkanType, HookStates
<1> QED BY <1>1, <1>3, <1>4, <1>5 DEF PatchInv, StuckInv, RunningInv, ClaimInv, PresentInv, Idle

-----------------------------------------------------------------------------
(* The detour *)

LEMMA PresentKeeps ==
    ASSUME VulkanInv, BeginPresent \/ CallOriginal \/ ReturnSuccess \/ EndPresent
    PROVE  VulkanInv'
<1>1. PresentStep
  BY DEF BeginPresent, CallOriginal, ReturnSuccess, EndPresent
<1>2. /\ present' \in {"out", "detour", "original"}
      /\ undoing' \in BOOLEAN /\ skipped' \in BOOLEAN /\ PresentInv'
      /\ stuck' = stuck
  <2> USE DEF VulkanInv, VulkanType, PresentInv, PresentStep, mhVars
  <2>1. CASE BeginPresent BY <2>1 DEF BeginPresent, PatchInv
  <2>2. CASE CallOriginal BY <2>2 DEF CallOriginal
  <2>3. CASE ReturnSuccess
    <3>1. undoing \/ stuck BY <2>3 DEF ReturnSuccess
    <3>2. skipped' => stuck BY <2>3, <3>1 DEF ReturnSuccess
    <3> QED BY <2>3, <3>2 DEF ReturnSuccess
  <2>4. CASE EndPresent BY <2>4 DEF EndPresent
  <2> QED BY <2>1, <2>2, <2>3, <2>4
<1> QED BY <1>1, <1>2
        DEF VulkanInv, VulkanType, PatchInv, StuckInv, RunningInv, ClaimInv, PresentStep, mhVars, Idle

-----------------------------------------------------------------------------

LEMMA VulkanInvariance == VulkanSpec => []VulkanInv
<1>1. VulkanInv /\ UNCHANGED vulkanVars => VulkanInv'
  BY DEF VulkanInv, VulkanType, PatchInv, StuckInv, RunningInv, ClaimInv, PresentInv, vulkanVars,
     mhVars, presentVars, Idle
<1>2. VulkanInv /\ [VulkanNext]_vulkanVars => VulkanInv'
  BY <1>1, InstallKeeps, GiveUpKeeps, CreateKeeps, EnableKeeps, UndoKeeps, RemoveKeeps,
     DisableKeeps, ClearKeeps, PresentKeeps DEF VulkanNext
<1> QED BY InitHook, <1>2, PTL DEF VulkanSpec

\* Between two control calls a patched entry has its original and a claim is
\* over a patched entry, although Remove may clear another instance's claim; a
\* patch that could not be taken out has lost its original and has no owner.
THEOREM QuietVulkanHook == VulkanSpec => []QuietHook
<1>1. VulkanInv => QuietHook
  BY DEF VulkanInv, VulkanType, PatchInv, StuckInv, RunningInv, ClaimInv, QuietHook, Idle, NoCall
<1> QED BY <1>1, VulkanInvariance, PTL

\* No present is swallowed while the hook stays in place: only around its
\* removal, and for good once a removal failed.
THEOREM VulkanPresentsGoThrough == VulkanSpec => []PresentsGoThrough
<1>1. VulkanInv => PresentsGoThrough BY DEF VulkanInv, PresentInv, PresentsGoThrough
<1> QED BY <1>1, VulkanInvariance, PTL
=============================================================================
