------------------------- MODULE PerformanceSession -------------------------
(***************************************************************************)
(* PerformanceSession with the FrametimeTracker, the two SessionLoggers    *)
(* and the two rolling metrics windows it owns.  A session is fed either   *)
(* by present hooks (CaptureFrame with the present's timestamp) or by      *)
(* measured frametimes (CaptureSyntheticFrame); no caller mixes the two.   *)
(* A metrics engine is represented by its window; MetricsEngine.tla models *)
(* what it computes from one.  Clock values are microseconds, a pushed     *)
(* frametime is given in tenths of a microsecond.                          *)
(* Operators marked "Fault" are bugs this code could plausibly have; no    *)
(* action uses them.                                                       *)
(***************************************************************************)
EXTENDS SequenceFolds, SequencesExt

CONSTANTS
    LiveLimit,    \* live_history_limit
    BenchLimit,   \* benchmark_history_limit
    FrameTimes,   \* frametimes a client pushes, in tenths of a microsecond
    Seeds,        \* values FrameClock::now() may return
    Horizon,      \* bound: the clocks stay in -Horizon .. Horizon
    MaxFrames,    \* bound: samples captured between two resets
    None          \* an empty std::optional

ASSUME SessionAssumption ==
    /\ LiveLimit \in Nat \ {0} /\ BenchLimit \in Nat \ {0}
    /\ FrameTimes \subseteq Int /\ Seeds \subseteq Int
    /\ Horizon \in Nat /\ MaxFrames \in Nat
    /\ None \notin Int

VARIABLES
    feed,           \* which of the two capture calls the owner uses
    tracker,        \* live_tracker_: session_start_, previous_frame_, captured_frames_
    liveLog,        \* live_logger_.samples_
    liveWindow,     \* live_metrics_: the rolling window of frametimes
    benchLog,       \* benchmark_logger_.samples_
    benchWindow,    \* benchmark_metrics_: its rolling window
    lastCompleted,  \* last_completed_benchmark_
    recording,      \* benchmark_recording_
    synthClock,     \* synthetic_timestamp_
    synthReady      \* synthetic_timeline_ready_

live      == <<liveLog, liveWindow>>
benchmark == <<benchLog, benchWindow, lastCompleted, recording>>
synthetic == <<synthClock, synthReady>>
vars      == <<feed, tracker, live, benchmark, synthetic>>

Clock == -Horizon .. Horizon

-----------------------------------------------------------------------------
(* FrametimeTracker                                                        *)

FreshTracker == [start |-> None, previous |-> None, captured |-> 0]

\* Capture(t) yields a sample.  Fault: frames closer than two microseconds
\* are debounced.
YieldsDebounced(tr, t) == tr.start # None /\ t > tr.previous + 1
Yields(tr, t) == tr.start # None /\ t > tr.previous

SampleAt(tr, t) ==
    [frame_index |-> tr.captured + 1, elapsed |-> t - tr.start, frametime |-> t - tr.previous]

\* The tracker after Capture(t): a timestamp at or before the last one yields
\* nothing and still becomes the reference of the next frame.
\* Fault: the rejected timestamp is ignored.
TrackedAheadOnly(tr, t) ==
    IF tr.start = None THEN [start |-> t, previous |-> t, captured |-> tr.captured]
    ELSE IF Yields(tr, t) THEN [tr EXCEPT !.previous = t, !.captured = @ + 1]
    ELSE tr
Tracked(tr, t) ==
    IF tr.start = None THEN [start |-> t, previous |-> t, captured |-> tr.captured]
    ELSE [tr EXCEPT !.previous = t, !.captured = IF Yields(tr, t) THEN @ + 1 ELSE @]

-----------------------------------------------------------------------------
(* Loggers, windows and summaries                                          *)

\* SessionLogger::Append; the session's loggers have no cap (max_samples_ is 0).
\* Fault: the logger is given the window's cap.
LoggedCapped(log, sample) == Append(IF Len(log) >= LiveLimit THEN Tail(log) ELSE log, sample)
Logged(log, sample) == Append(log, sample)

\* A rolling window of at most limit frametimes after one more push.
\* Fault: the newest sample is evicted.
RolledOverNewest(window, limit, x) ==
    IF Len(window) >= limit THEN Append(Front(window), x) ELSE Append(window, x)
Rolled(window, limit, x) ==
    IF Len(window) >= limit THEN Append(Tail(window), x) ELSE Append(window, x)

Frametimes(log) == [i \in DOMAIN log |-> log[i].frametime]

\* SessionDurationSeconds, in microseconds.
SessionDuration(log) == Total(Frametimes(log))

\* BuildBenchmarkSummary; metrics stands for what the engine reads off its window.
Summary(active, log, window) ==
    [active |-> active, has_data |-> Len(log) > 0, frame_count |-> Len(log),
     duration |-> SessionDuration(log), metrics |-> window]

EmptySummary ==
    [active |-> FALSE, has_data |-> FALSE, frame_count |-> 0, duration |-> 0, metrics |-> <<>>]

CurrentBenchmark ==
    IF recording \/ Len(benchLog) > 0 THEN Summary(recording, benchLog, benchWindow)
    ELSE IF lastCompleted # None THEN lastCompleted ELSE EmptySummary

\* The log ExportPreferred writes to both of its files.
PreferredLog == IF Len(benchLog) > 0 THEN benchLog ELSE liveLog

\* The window GraphSnapshot draws, and GraphLabel's name for it.
GraphWindow == IF Len(benchLog) > 1 THEN benchWindow ELSE liveWindow
GraphLabel ==
    IF recording THEN "BENCHMARK GRAPH"
    ELSE IF Len(benchLog) > 1 THEN "LAST BENCHMARK" ELSE "LIVE GRAPH"

-----------------------------------------------------------------------------
(* Actions: the public operations of the session                           *)

Init ==
    /\ feed \in {"present", "synthetic"}
    /\ tracker = FreshTracker
    /\ liveLog = <<>> /\ liveWindow = <<>>
    /\ benchLog = <<>> /\ benchWindow = <<>>
    /\ lastCompleted = None /\ recording = FALSE
    /\ synthClock = 0 /\ synthReady = FALSE

\* What Reset assigns outside the tracker and the synthetic clock.
ClearHistory ==
    /\ liveLog' = <<>> /\ liveWindow' = <<>>
    /\ benchLog' = <<>> /\ benchWindow' = <<>>
    /\ lastCompleted' = None /\ recording' = FALSE
    /\ UNCHANGED feed

Reset ==
    /\ ClearHistory
    /\ tracker' = FreshTracker
    /\ synthClock' = 0 /\ synthReady' = FALSE

\* The apps call it without an argument: the timeline starts at the epoch.
ResetSyntheticTimeline ==
    /\ feed = "synthetic"
    /\ ClearHistory
    /\ synthClock' = 0 /\ synthReady' = TRUE
    /\ tracker' = Tracked(FreshTracker, 0)

\* The body of CaptureFrame, on a tracker that may just have been seeded.
CaptureOn(tr, t) ==
    /\ tr.captured < MaxFrames /\ t \in Clock
    /\ tracker' = Tracked(tr, t)
    /\ IF Yields(tr, t)
       THEN LET sample == SampleAt(tr, t) IN
            /\ liveWindow' = Rolled(liveWindow, LiveLimit, sample.frametime)
            /\ liveLog' = Logged(liveLog, sample)
            /\ IF recording
               THEN /\ benchWindow' = Rolled(benchWindow, BenchLimit, sample.frametime)
                    /\ benchLog' = Logged(benchLog, sample)
               ELSE UNCHANGED <<benchWindow, benchLog>>
       ELSE UNCHANGED <<live, benchWindow, benchLog>>
    /\ UNCHANGED <<feed, lastCompleted, recording>>

\* Presents of several threads reach the session in any order of timestamps.
CaptureFrame(t) ==
    /\ feed = "present"
    /\ CaptureOn(tracker, t)
    /\ UNCHANGED synthetic

\* std::llround to whole microseconds: half away from zero.
LLRound(tenths) == IF tenths >= 0 THEN (tenths + 5) \div 10 ELSE -((5 - tenths) \div 10)

\* The first push seeds the clock and the tracker, without a Reset.
CaptureSyntheticFrame(ft) ==
    \E now \in IF synthReady THEN {synthClock} ELSE Seeds :
        /\ feed = "synthetic"
        /\ CaptureOn(IF synthReady THEN tracker ELSE Tracked(tracker, now), now + LLRound(ft))
        /\ synthReady' = TRUE /\ synthClock' = now + LLRound(ft)

\* Faults: the previous benchmark's log, or its stored summary, is kept.
StartBenchmarkKeepingLog ==
    /\ benchWindow' = <<>> /\ recording' = TRUE /\ lastCompleted' = None
    /\ UNCHANGED <<feed, tracker, live, synthetic, benchLog>>
StartBenchmarkKeepingSummary ==
    /\ benchWindow' = <<>> /\ benchLog' = <<>> /\ recording' = TRUE
    /\ UNCHANGED <<feed, tracker, live, synthetic, lastCompleted>>
StartBenchmark ==
    /\ benchWindow' = <<>> /\ benchLog' = <<>>
    /\ recording' = TRUE /\ lastCompleted' = None
    /\ UNCHANGED <<feed, tracker, live, synthetic>>

StopBenchmark ==
    /\ recording
    /\ recording' = FALSE
    /\ lastCompleted' = IF Len(benchLog) > 0 THEN Summary(FALSE, benchLog, benchWindow)
                        ELSE lastCompleted
    /\ UNCHANGED <<feed, tracker, live, benchLog, benchWindow, synthetic>>

ToggleBenchmark == IF recording THEN StopBenchmark ELSE StartBenchmark

Next ==
    \/ Reset
    \/ ResetSyntheticTimeline
    \/ \E t \in 0..Horizon : CaptureFrame(t)
    \/ \E ft \in FrameTimes : CaptureSyntheticFrame(ft)
    \/ StartBenchmark
    \/ StopBenchmark
    \/ ToggleBenchmark

Spec == Init /\ [][Next]_vars

-----------------------------------------------------------------------------
(* Properties                                                              *)

Sample == [frame_index : Nat \ {0}, elapsed : Int, frametime : Nat \ {0}]
TrackerType(tr) ==
    /\ tr \in [start : Int \cup {None}, previous : Int \cup {None}, captured : Nat]
    /\ tr.start = None <=> tr.previous = None

\* Logs, tracker, flags and clock have their types, and the tracker the first
\* push seeds has not started: seeding one that has would count a frame and
\* not log it.
TypeOK ==
    /\ TrackerType(tracker)
    /\ liveLog \in Seq(Sample) /\ benchLog \in Seq(Sample)
    /\ recording \in BOOLEAN /\ synthClock \in Int
    /\ feed = "synthetic" /\ ~synthReady => tracker.start = None

\* The live log holds every frame counted since the last reset, in order: no
\* sample is dropped, repeated or numbered apart from its place in the export.
LiveLogComplete ==
    /\ Len(liveLog) = tracker.captured
    /\ \A i \in DOMAIN liveLog : liveLog[i].frame_index = i

\* The benchmark log is a contiguous slice of the live log, and while the
\* recording lasts the slice reaches up to the newest frame: a start, stop,
\* toggle or lazy seeding in between never mixes two recordings or loses one.
BenchmarkIsSlice ==
    /\ \A j \in DOMAIN benchLog :
           /\ benchLog[j].frame_index = benchLog[1].frame_index + j - 1
           /\ benchLog[j].frame_index <= Len(liveLog)
           /\ benchLog[j] = liveLog[benchLog[j].frame_index]
    /\ recording /\ benchLog # <<>> => benchLog[Len(benchLog)].frame_index = Len(liveLog)

\* The summary stored by StopBenchmark is exactly what CurrentBenchmark would
\* rebuild from the log and window kept since then, so that the two sources
\* CurrentBenchmark chooses between never disagree.
StoredSummaryIsCurrent ==
    lastCompleted # None =>
        /\ ~recording
        /\ Len(benchLog) > 0
        /\ lastCompleted = Summary(FALSE, benchLog, benchWindow)

SmallerOf(a, b) == IF a < b THEN a ELSE b

\* w is the last min(limit, Len(log)) frametimes of log.
WindowOf(w, log, limit) ==
    LET n == SmallerOf(limit, Len(log))
    IN  w = [i \in 1..n |-> log[Len(log) - n + i].frametime]

\* The two halves of what a session reports agree: each metrics window is the
\* tail of its log (frame_count and duration cover the log, metrics the tail).
WindowsFollowLogs ==
    WindowOf(liveWindow, liveLog, LiveLimit) /\ WindowOf(benchWindow, benchLog, BenchLimit)

\* Time is never lost: the logged frametimes sum to at least the time between
\* the first and the latest present.  (Presents that arrive out of order make
\* the sum larger: the step back is counted again by the next frame.)
NoTimeLost ==
    tracker.start # None => SessionDuration(liveLog) >= tracker.previous - tracker.start

\* A client that pushes a frametime of at least half a microsecond always gets
\* a frame, also for the first push, after a reset, and after a rejected push
\* moved the synthetic clock backwards.
NoPushLost ==
    [][\A ft \in FrameTimes :
           CaptureSyntheticFrame(ft) /\ LLRound(ft) > 0 => Len(liveLog') = Len(liveLog) + 1]_vars

\* Capturing never disturbs a benchmark: a captured frame, the one that seeds
\* the synthetic clock included, neither begins nor ends a recording and keeps
\* the stored summary.  The recording gets the very sample the live log gets,
\* and the benchmark log is as it was when nothing is recorded.
CaptureKeepsBenchmark ==
    [][tracker'.captured > tracker.captured =>
           /\ UNCHANGED <<recording, lastCompleted>>
           /\ \E x \in Sample :
                  /\ liveLog' = Append(liveLog, x)
                  /\ benchLog' = IF recording THEN Append(benchLog, x) ELSE benchLog]_vars
=============================================================================
