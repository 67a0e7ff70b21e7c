---------------------- MODULE PerformanceSessionProofs ----------------------
(***************************************************************************)
(* Theorems about PerformanceSession: for any limits, frametimes, clock    *)
(* values and number of frames.                                            *)
(***************************************************************************)
EXTENDS PerformanceSession, SequenceFacts

-----------------------------------------------------------------------------
(* The stored summary: an invariant that is inductive as it stands.  While  *)
(* a summary is stored nothing records, and then no capture touches the log *)
(* and window it was built from.                                            *)

LEMMA SummaryKept == StoredSummaryIsCurrent /\ [Next]_vars => StoredSummaryIsCurrent'
<1> SUFFICES ASSUME StoredSummaryIsCurrent, [Next]_vars, lastCompleted' # None
             PROVE  /\ ~recording' /\ Len(benchLog') > 0
                    /\ lastCompleted' = Summary(FALSE, benchLog', benchWindow')
  BY DEF StoredSummaryIsCurrent, Summary
<1>1. ASSUME NEW tr, NEW t, CaptureOn(tr, t)
      PROVE  /\ ~recording' /\ Len(benchLog') > 0
             /\ lastCompleted' = Summary(FALSE, benchLog', benchWindow')
  <2>1. lastCompleted' = lastCompleted /\ recording' = recording
    BY <1>1 DEF CaptureOn
  <2>2. ~recording
    BY <2>1 DEF StoredSummaryIsCurrent
  <2>3. benchLog' = benchLog /\ benchWindow' = benchWindow
    BY <1>1, <2>2 DEF CaptureOn
  <2> QED BY <2>1, <2>3 DEF StoredSummaryIsCurrent
<1>2. ASSUME StartBenchmark PROVE FALSE
  BY <1>2 DEF StartBenchmark
<1>3. ASSUME StopBenchmark
      PROVE  /\ ~recording' /\ Len(benchLog') > 0
             /\ lastCompleted' = Summary(FALSE, benchLog', benchWindow')
  BY <1>3 DEF StopBenchmark, StoredSummaryIsCurrent
<1>4. CASE Reset \/ ResetSyntheticTimeline
  BY <1>4 DEF Reset, ResetSyntheticTimeline, ClearHistory
<1>5. CASE \E t \in 0..Horizon : CaptureFrame(t)
  BY <1>1, <1>5 DEF CaptureFrame
<1>6. CASE \E ft \in FrameTimes : CaptureSyntheticFrame(ft)
  BY <1>1, <1>6 DEF CaptureSyntheticFrame
<1>7. CASE StartBenchmark \/ StopBenchmark \/ ToggleBenchmark
  BY <1>2, <1>3, <1>7 DEF ToggleBenchmark
<1>8. CASE UNCHANGED vars
  BY <1>8 DEF vars, benchmark, StoredSummaryIsCurrent
<1> QED BY <1>4, <1>5, <1>6, <1>7, <1>8 DEF Next

\* The two sources CurrentBenchmark chooses between never disagree.
THEOREM StoredSummary == Spec => []StoredSummaryIsCurrent
<1>1. Init => StoredSummaryIsCurrent
  BY DEF Init, StoredSummaryIsCurrent
<1> QED BY <1>1, SummaryKept, PTL DEF Spec

-----------------------------------------------------------------------------
(* The logs                                                                 *)

\* What Capture does to a well-typed tracker: a timestamp that yields makes a
\* well-typed sample numbered one past the frames counted so far.
LEMMA TrackerStep ==
    ASSUME NEW tr, TrackerType(tr), NEW t \in Int
    PROVE  /\ TrackerType(Tracked(tr, t))
           /\ Yields(tr, t) => /\ SampleAt(tr, t) \in Sample
                               /\ SampleAt(tr, t).frame_index = tr.captured + 1
                               /\ Tracked(tr, t).captured = tr.captured + 1
           /\ ~Yields(tr, t) => Tracked(tr, t).captured = tr.captured
<1> USE SessionAssumption
<1>1. CASE tr.start = None
  BY <1>1 DEF TrackerType, Tracked, Yields
<1>2. CASE tr.start # None
  <2>1. tr.start \in Int /\ tr.previous \in Int /\ tr.captured \in Nat
    BY <1>2 DEF TrackerType
  <2>2. TrackerType(Tracked(tr, t))
    <3> DEFINE n == IF Yields(tr, t) THEN tr.captured + 1 ELSE tr.captured
    <3>1. Tracked(tr, t) = [start |-> tr.start, previous |-> t, captured |-> n]
      BY <1>2 DEF Tracked, TrackerType
    <3>2. n \in Nat
      BY <2>1
    <3> HIDE DEF n
    <3> QED BY <2>1, <3>1, <3>2 DEF TrackerType
  <2>3. ASSUME Yields(tr, t)
        PROVE  /\ SampleAt(tr, t) \in Sample
               /\ SampleAt(tr, t).frame_index = tr.captured + 1
               /\ Tracked(tr, t).captured = tr.captured + 1
    BY <1>2, <2>1, <2>3 DEF TrackerType, SampleAt, Sample, Tracked, Yields
  <2>4. ~Yields(tr, t) => Tracked(tr, t).captured = tr.captured
    BY <1>2, <2>1 DEF TrackerType, Tracked
  <2> QED BY <2>2, <2>3, <2>4
<1> QED BY <1>1, <1>2

LEMMA FreshType == TrackerType(FreshTracker)
BY DEF TrackerType, FreshTracker

\* A rounded frametime is a whole number of microseconds.
LEMMA LLRoundInt == \A x \in Int : LLRound(x) \in Int
BY DEF LLRound

\* What a capture call amounts to: at a whole timestamp, on a tracker that has
\* counted as many frames as the session's.
Capturing(tr, t) ==
    /\ CaptureOn(tr, t) /\ t \in Int
    /\ TrackerType(tr) /\ tr.captured = tracker.captured

LEMMA FrameCaptures ==
    ASSUME TypeOK, NEW t \in 0..Horizon, CaptureFrame(t)
    PROVE  Capturing(tracker, t)
BY SessionAssumption DEF CaptureFrame, Capturing, TypeOK

LEMMA PushCaptures ==
    ASSUME TypeOK, NEW ft \in FrameTimes, CaptureSyntheticFrame(ft)
    PROVE  synthClock' \in Int /\ \E tr, t : Capturing(tr, t)
<1>1. PICK now \in IF synthReady THEN {synthClock} ELSE Seeds :
          /\ feed = "synthetic"
          /\ CaptureOn(IF synthReady THEN tracker ELSE Tracked(tracker, now), now + LLRound(ft))
          /\ synthClock' = now + LLRound(ft)
  BY DEF CaptureSyntheticFrame
<1>2. now \in Int /\ LLRound(ft) \in Int
  BY SessionAssumption, LLRoundInt DEF TypeOK
<1>3. CASE synthReady
  BY <1>1, <1>2, <1>3 DEF Capturing, TypeOK
<1>4. CASE ~synthReady
  <2>1. TrackerType(Tracked(tracker, now))
    BY <1>2, TrackerStep DEF TypeOK
  <2>2. Tracked(tracker, now).captured = tracker.captured
    BY <1>1, <1>4 DEF TypeOK, Tracked
  <2> QED BY <1>1, <1>2, <1>4, <2>1, <2>2 DEF Capturing, TypeOK
<1> QED BY <1>3, <1>4

LogInv == TypeOK /\ LiveLogComplete /\ BenchmarkIsSlice

\* A capture appends the same sample to the live log and, while recording, to
\* the benchmark log, or touches neither.
LEMMA CaptureAppends ==
    ASSUME TypeOK, NEW tr, NEW t, Capturing(tr, t)
    PROVE  /\ TrackerType(tracker') /\ UNCHANGED <<feed, recording, lastCompleted>>
           /\ \/ /\ UNCHANGED <<liveLog, benchLog>> /\ tracker'.captured = tracker.captured
              \/ \E x \in Sample :
                    /\ x.frame_index = tracker.captured + 1
                    /\ tracker'.captured = tracker.captured + 1
                    /\ liveLog' = Append(liveLog, x)
                    /\ benchLog' = IF recording THEN Append(benchLog, x) ELSE benchLog
<1>1. TrackerType(tr) /\ t \in Int /\ CaptureOn(tr, t) /\ tr.captured = tracker.captured
  BY DEF Capturing
<1>2. TrackerType(tracker') /\ UNCHANGED <<feed, recording, lastCompleted>>
  BY <1>1, TrackerStep DEF CaptureOn
<1>3. CASE Yields(tr, t)
  <2>1. /\ SampleAt(tr, t) \in Sample
        /\ SampleAt(tr, t).frame_index = tracker.captured + 1
        /\ tracker'.captured = tracker.captured + 1
    BY <1>1, <1>3, TrackerStep DEF CaptureOn
  <2>2. /\ liveLog' = Append(liveLog, SampleAt(tr, t))
        /\ benchLog' = IF recording THEN Append(benchLog, SampleAt(tr, t)) ELSE benchLog
    BY <1>1, <1>3 DEF CaptureOn, Logged
  <2> QED BY <1>2, <2>1, <2>2
<1>4. CASE ~Yields(tr, t)
  BY <1>1, <1>2, <1>4, TrackerStep DEF CaptureOn, live
<1> QED BY <1>3, <1>4

\* The numbers in a log are positive.
LEMMA Numbers ==
    ASSUME NEW log \in Seq(Sample), NEW j \in DOMAIN log
    PROVE  log[j] \in Sample /\ log[j].frame_index \in Nat \ {0}
<1>1. log[j] \in Sample
  OBVIOUS
<1> QED BY <1>1 DEF Sample

LEMMA CaptureKeepsLogs ==
    ASSUME LogInv, NEW tr, NEW t, Capturing(tr, t)
    PROVE  /\ TrackerType(tracker')
           /\ liveLog' \in Seq(Sample) /\ benchLog' \in Seq(Sample)
           /\ LiveLogComplete' /\ BenchmarkIsSlice'
<1> USE DEF LogInv, TypeOK
<1>1. CASE UNCHANGED <<liveLog, benchLog>> /\ tracker'.captured = tracker.captured
  BY <1>1, CaptureAppends DEF LiveLogComplete, BenchmarkIsSlice
<1>2. ASSUME NEW x \in Sample, x.frame_index = tracker.captured + 1,
             tracker'.captured = tracker.captured + 1,
             liveLog' = Append(liveLog, x),
             benchLog' = IF recording THEN Append(benchLog, x) ELSE benchLog
      PROVE  /\ liveLog' \in Seq(Sample) /\ benchLog' \in Seq(Sample)
             /\ LiveLogComplete' /\ BenchmarkIsSlice'
  <2>1. liveLog' \in Seq(Sample) /\ benchLog' \in Seq(Sample)
    BY <1>2
  <2>2. Len(liveLog') = Len(liveLog) + 1 /\ liveLog'[Len(liveLog) + 1] = x
    BY <1>2
  <2>3. \A i \in 1..Len(liveLog) : liveLog'[i] = liveLog[i]
    BY <1>2
  <2>4. Len(liveLog) = tracker.captured /\ Len(liveLog) \in Nat
    BY DEF LiveLogComplete
  <2>5. LiveLogComplete'
    BY <1>2, <2>2, <2>3, <2>4 DEF LiveLogComplete
  <2>6. BenchmarkIsSlice'
    <3>1. CASE ~recording
      <4>1. benchLog' = benchLog /\ ~recording'
        BY <1>2, <3>1, CaptureAppends
      <4>2. ASSUME NEW j \in DOMAIN benchLog
            PROVE  /\ benchLog[j].frame_index = benchLog[1].frame_index + j - 1
                   /\ benchLog[j].frame_index <= Len(liveLog')
                   /\ benchLog[j] = liveLog'[benchLog[j].frame_index]
        <5>1. benchLog[j] \in Sample /\ benchLog[j].frame_index \in 1..Len(liveLog)
          BY <2>4, Numbers DEF BenchmarkIsSlice
        <5> QED BY <2>2, <2>3, <2>4, <5>1 DEF BenchmarkIsSlice
      <4> QED BY <4>1, <4>2 DEF BenchmarkIsSlice
    <3>2. CASE recording
      <4>1. /\ benchLog' = Append(benchLog, x)
            /\ Len(benchLog') = Len(benchLog) + 1 /\ Len(benchLog) \in Nat
            /\ benchLog'[Len(benchLog) + 1] = x
            /\ \A j \in 1..Len(benchLog) : benchLog'[j] = benchLog[j]
        BY <1>2, <3>2
      <4>2. x.frame_index = Len(liveLog') /\ x = liveLog'[x.frame_index]
        BY <1>2, <2>2, <2>4
      <4>3. \A j \in DOMAIN benchLog' : benchLog'[j].frame_index \in Nat
        BY <2>1, Numbers
      <4>4. x.frame_index = benchLog'[1].frame_index + Len(benchLog)
        <5>1. CASE Len(benchLog) = 0
          BY <2>4, <4>1, <4>2, <5>1, <2>2
        <5>2. CASE Len(benchLog) # 0
          <6>1. benchLog[Len(benchLog)].frame_index = Len(liveLog)
            BY <3>2, <5>2 DEF BenchmarkIsSlice
          <6>2. /\ benchLog[Len(benchLog)].frame_index
                       = benchLog[1].frame_index + Len(benchLog) - 1
                /\ benchLog'[1] = benchLog[1]
            BY <4>1, <5>2 DEF BenchmarkIsSlice
          <6>3. benchLog[1].frame_index \in Nat
            BY <5>2, <4>1, Numbers
          <6>4. x.frame_index = Len(liveLog) + 1
            BY <4>2, <2>2
          <6>5. Len(liveLog) = benchLog[1].frame_index + Len(benchLog) - 1
            BY <6>1, <6>2
          <6>6. Len(liveLog) + 1 = benchLog[1].frame_index + Len(benchLog)
            BY <6>3, <6>5, <4>1, <2>4
          <6> QED BY <6>2, <6>4, <6>6
        <5> QED BY <5>1, <5>2
      <4>5. ASSUME NEW j \in DOMAIN benchLog'
            PROVE  /\ benchLog'[j].frame_index = benchLog'[1].frame_index + j - 1
                   /\ benchLog'[j].frame_index <= Len(liveLog')
                   /\ benchLog'[j] = liveLog'[benchLog'[j].frame_index]
        <5>1. j \in 1..Len(benchLog) \/ j = Len(benchLog) + 1
          BY <4>1, <2>1
        <5>2. CASE j = Len(benchLog) + 1
          BY <4>1, <4>2, <4>3, <4>4, <5>2, <2>2, <2>4
        <5>3. CASE j \in 1..Len(benchLog)
          <6>1. /\ benchLog'[j] = benchLog[j] /\ benchLog'[1] = benchLog[1]
                /\ benchLog[j].frame_index = benchLog[1].frame_index + j - 1
                /\ benchLog[j].frame_index <= Len(liveLog)
                /\ benchLog[j] = liveLog[benchLog[j].frame_index]
            BY <4>1, <5>3 DEF BenchmarkIsSlice
          <6>2. benchLog[j].frame_index \in 1..Len(liveLog)
            BY <6>1, <5>3, <2>4, Numbers
          <6> QED BY <6>1, <6>2, <2>2, <2>3, <2>4
        <5> QED BY <5>1, <5>2, <5>3
      <4>6. benchLog'[Len(benchLog')].frame_index = Len(liveLog')
        BY <4>1, <4>2
      <4> QED BY <4>5, <4>6 DEF BenchmarkIsSlice
    <3> QED BY <3>1, <3>2
  <2> QED BY <2>1, <2>5, <2>6
<1> QED BY <1>1, <1>2, CaptureAppends

\* Two empty logs agree with a tracker that has counted nothing.
LEMMA EmptyLogs ==
    ASSUME liveLog = <<>>, benchLog = <<>>, tracker.captured = 0
    PROVE  /\ liveLog \in Seq(Sample) /\ benchLog \in Seq(Sample)
           /\ LiveLogComplete /\ BenchmarkIsSlice
<1>1. LiveLogComplete
  BY DEF LiveLogComplete
<1>2. BenchmarkIsSlice
  BY DEF BenchmarkIsSlice
<1> QED BY <1>1, <1>2

LEMMA InitLogs == Init => LogInv
<1> SUFFICES ASSUME Init PROVE LogInv
  OBVIOUS
<1>1. tracker.captured = 0 /\ tracker.start = None /\ TrackerType(tracker)
  BY FreshType DEF Init, FreshTracker
<1>2. liveLog = <<>> /\ benchLog = <<>>
  BY DEF Init
<1>3. LiveLogComplete /\ BenchmarkIsSlice /\ liveLog \in Seq(Sample) /\ benchLog \in Seq(Sample)
  BY <1>1, <1>2, EmptyLogs
<1>4. TypeOK
  <2>1. recording \in BOOLEAN
    BY DEF Init
  <2>2. synthClock \in Int
    BY DEF Init
  <2> QED BY <1>1, <1>3, <2>1, <2>2 DEF TypeOK
<1> QED BY <1>3, <1>4 DEF LogInv

\* Whatever a reset leaves in the tracker has counted nothing.
LEMMA ClearedLogs ==
    ASSUME ClearHistory, TrackerType(tracker'), tracker'.captured = 0, synthClock' \in Int,
           synthReady' \/ tracker'.start = None
    PROVE  LogInv'
<1>1. liveLog' = <<>> /\ benchLog' = <<>> /\ recording' = FALSE
  BY DEF ClearHistory
<1>2. /\ liveLog' \in Seq(Sample) /\ benchLog' \in Seq(Sample)
      /\ LiveLogComplete'
  BY <1>1 DEF LiveLogComplete
<1>3. BenchmarkIsSlice'
  BY <1>1 DEF BenchmarkIsSlice
<1> QED BY <1>1, <1>2, <1>3 DEF LogInv, TypeOK

LEMMA LogsKept == LogInv /\ [Next]_vars => LogInv'
<1> SUFFICES ASSUME LogInv, [Next]_vars PROVE LogInv'
  OBVIOUS
<1>1. CASE Reset
  BY <1>1, ClearedLogs, FreshType DEF Reset, FreshTracker
<1>2. CASE ResetSyntheticTimeline
  <2>1. /\ TrackerType(Tracked(FreshTracker, 0))
        /\ Tracked(FreshTracker, 0).captured = 0
    BY FreshType, TrackerStep DEF Yields, FreshTracker
  <2> QED BY <1>2, <2>1, ClearedLogs DEF ResetSyntheticTimeline
<1>3. ASSUME NEW t \in 0..Horizon, CaptureFrame(t) PROVE LogInv'
  <2>1. Capturing(tracker, t)
    BY <1>3, FrameCaptures DEF LogInv
  <2>2. feed' = "present" /\ recording' = recording /\ synthClock' = synthClock
    BY <1>3 DEF CaptureFrame, CaptureOn, synthetic
  <2> QED BY <2>1, <2>2, CaptureKeepsLogs DEF LogInv, TypeOK
<1>4. ASSUME NEW ft \in FrameTimes, CaptureSyntheticFrame(ft) PROVE LogInv'
  <2>1. PICK tr, t : Capturing(tr, t)
    BY <1>4, PushCaptures DEF LogInv
  <2>2. synthClock' \in Int /\ synthReady' /\ recording' = recording
    BY <1>4, PushCaptures DEF CaptureSyntheticFrame, CaptureOn, LogInv
  <2> QED BY <2>1, <2>2, CaptureKeepsLogs DEF LogInv, TypeOK
<1>5. ASSUME StartBenchmark PROVE LogInv'
  BY <1>5 DEF StartBenchmark, live, synthetic, LogInv, TypeOK, LiveLogComplete, BenchmarkIsSlice
<1>6. ASSUME StopBenchmark PROVE LogInv'
  BY <1>6 DEF StopBenchmark, live, synthetic, LogInv, TypeOK, LiveLogComplete, BenchmarkIsSlice
<1>7. CASE ToggleBenchmark
  BY <1>5, <1>6, <1>7 DEF ToggleBenchmark
<1>8. CASE UNCHANGED vars
  BY <1>8 DEF vars, live, benchmark, synthetic, LogInv, TypeOK, LiveLogComplete, BenchmarkIsSlice
<1> QED BY <1>1, <1>2, <1>3, <1>4, <1>5, <1>6, <1>7, <1>8 DEF Next

LEMMA LogsCorrect == Spec => []LogInv
BY InitLogs, LogsKept, PTL DEF Spec

\* Logs and tracker keep their types, and an unseeded synthetic session has a
\* fresh tracker.
THEOREM TypeCorrect == Spec => []TypeOK
BY LogsCorrect, PTL DEF LogInv

\* No sample is dropped, repeated or misnumbered in the live log, with any
\* limits and however captures, resets and benchmarks follow each other.
THEOREM LiveLog == Spec => []LiveLogComplete
BY LogsCorrect, PTL DEF LogInv

\* The benchmark's log is a contiguous run of the live log's samples that ends
\* at the newest one while the recording lasts.
THEOREM BenchmarkSlice == Spec => []BenchmarkIsSlice
BY LogsCorrect, PTL DEF LogInv

-----------------------------------------------------------------------------
(* Captures and benchmarks                                                  *)

\* A captured frame leaves the recording going or not, and is added to the
\* benchmark log exactly when it is going.
THEOREM CapturesKeepBenchmark == Spec => CaptureKeepsBenchmark
<1> DEFINE Undisturbed == tracker'.captured > tracker.captured =>
             /\ UNCHANGED <<recording, lastCompleted>>
             /\ \E x \in Sample :
                    /\ liveLog' = Append(liveLog, x)
                    /\ benchLog' = IF recording THEN Append(benchLog, x) ELSE benchLog
<1>1. ASSUME LogInv, [Next]_vars PROVE Undisturbed
  <2>1. tracker.captured \in Nat
    BY <1>1 DEF LogInv, TypeOK, TrackerType
  <2>2. ASSUME NEW tr, NEW t, Capturing(tr, t) PROVE Undisturbed
    BY <1>1, <2>1, <2>2, CaptureAppends DEF LogInv
  <2>3. CASE Reset \/ ResetSyntheticTimeline
    <3>1. tracker'.captured = 0
      BY <2>3, FreshType, TrackerStep DEF Reset, ResetSyntheticTimeline, FreshTracker, Yields
    <3> QED BY <2>1, <3>1
  <2>4. CASE \E t \in 0..Horizon : CaptureFrame(t)
    BY <1>1, <2>2, <2>4, FrameCaptures DEF LogInv
  <2>5. CASE \E ft \in FrameTimes : CaptureSyntheticFrame(ft)
    BY <1>1, <2>2, <2>5, PushCaptures DEF LogInv
  <2>6. CASE StartBenchmark \/ StopBenchmark \/ ToggleBenchmark \/ UNCHANGED vars
    <3>1. tracker' = tracker
      BY <2>6 DEF StartBenchmark, StopBenchmark, ToggleBenchmark, vars
    <3> QED BY <2>1, <3>1
  <2> QED BY <1>1, <2>3, <2>4, <2>5, <2>6 DEF Next
<1> QED BY <1>1, LogsCorrect, PTL DEF Spec, CaptureKeepsBenchmark

-----------------------------------------------------------------------------
(* The windows                                                              *)

\* Rolling a window along its log keeps it the log's tail.
LEMMA RolledAlong ==
    ASSUME NEW log \in Seq(Sample), NEW limit \in Nat \ {0}, NEW w, WindowOf(w, log, limit),
           NEW x \in Sample
    PROVE  WindowOf(Rolled(w, limit, x.frametime), Append(log, x), limit)
<1> DEFINE ft == x.frametime
           longer == Append(log, x)
           n == SmallerOf(limit, Len(log))
           m == SmallerOf(limit, Len(longer))
           r == Rolled(w, limit, ft)
<1>1. /\ Len(log) \in Nat /\ Len(longer) = Len(log) + 1
      /\ longer[Len(log) + 1] = x /\ \A i \in 1..Len(log): longer[i] = log[i]
  BY AppendProperties, LenProperties
<1>2. n \in Nat /\ w = [i \in 1..n |-> log[Len(log) - n + i].frametime]
  BY <1>1 DEF WindowOf, SmallerOf
<1>3. ft \in Int /\ \A i \in 1..Len(log): log[i].frametime \in Int
  <2>1. \A y \in Sample: y.frametime \in Int BY DEF Sample
  <2> QED BY <2>1, ElementOfSeq
<1>4. w \in Seq(Int) /\ Len(w) = n
  <2>1. \A i \in 1..n: Len(log) - n + i \in 1..Len(log) BY <1>1, <1>2 DEF SmallerOf
  <2>2. w \in [1..n -> Int] BY <1>2, <1>3, <2>1
  <2>3. n \in Nat BY <1>2
  <2> HIDE DEF n
  <2>4. w \in Seq(Int) /\ DOMAIN w = 1..n BY <2>2, <2>3, IsASeq
  <2> QED BY <2>3, <2>4, LenProperties
<1>5. r \in Seq(Int) /\ Len(r) = m /\ \A i \in 1..m: r[i] = longer[Len(longer) - m + i].frametime
  <2>1. CASE Len(log) < limit
    <3>1. n = Len(log) /\ m = Len(log) + 1 BY <1>1, <2>1 DEF SmallerOf
    <3>2. r = Append(w, ft) BY <1>4, <2>1, <3>1 DEF Rolled
    <3>3. /\ r \in Seq(Int) /\ Len(r) = m
          /\ r[m] = ft /\ \A i \in 1..n: r[i] = w[i]
      BY <1>3, <1>4, <3>1, <3>2, AppendProperties
    <3>4. ASSUME NEW i \in 1..m PROVE r[i] = longer[i].frametime
      <4>1. CASE i = m BY <1>1, <3>1, <3>3, <4>1
      <4>2. CASE i \in 1..n
        <5>1. w[i] = log[i].frametime BY <1>1, <1>2, <3>1, <4>2
        <5> QED BY <1>1, <3>1, <3>3, <4>2, <5>1
      <4> QED BY <1>1, <3>1, <4>1, <4>2
    <3> QED BY <1>1, <3>1, <3>3, <3>4
  <2>2. CASE ~ (Len(log) < limit)
    <3>1. n = limit /\ m = limit BY <1>1, <2>2 DEF SmallerOf
    <3>2. r = Append(Tail(w), ft) BY <1>4, <2>2, <3>1 DEF Rolled
    <3>3. w # <<>> BY <1>4, <3>1
    <3>4. /\ Tail(w) \in Seq(Int) /\ Len(Tail(w)) = n - 1
          /\ \A i \in 1..(n - 1): Tail(w)[i] = w[i + 1]
      BY <1>4, <3>3, HeadTailProperties
    <3>5. /\ r \in Seq(Int) /\ Len(r) = m
          /\ r[m] = ft /\ \A i \in 1..(n - 1): r[i] = w[i + 1]
      <4>1. /\ Append(Tail(w), ft) \in Seq(Int) /\ Len(Append(Tail(w), ft)) = (n - 1) + 1
            /\ Append(Tail(w), ft)[(n - 1) + 1] = ft
            /\ \A i \in 1..(n - 1): Append(Tail(w), ft)[i] = Tail(w)[i]
        BY <1>3, <3>4, AppendNumber
      <4>2. n \in Nat /\ (n - 1) + 1 = m BY <1>2, <3>1
      <4> HIDE DEF n, m, r, ft
      <4> QED BY <3>2, <3>4, <4>1, <4>2
    <3>6. ASSUME NEW i \in 1..m PROVE r[i] = longer[Len(longer) - m + i].frametime
      <4>1. CASE i = m BY <1>1, <3>1, <3>5, <4>1
      <4>2. CASE i \in 1..(n - 1)
        <5>1. i + 1 \in 1..n BY <1>2, <4>2
        <5>2. w[i + 1] = log[Len(log) - n + (i + 1)].frametime BY <1>2, <5>1
        <5>3. /\ Len(log) - n + (i + 1) \in 1..Len(log)
              /\ Len(log) - n + (i + 1) = Len(longer) - m + i
          BY <1>1, <1>2, <2>2, <3>1, <4>2
        <5> QED BY <1>1, <3>5, <4>2, <5>2, <5>3
      <4>3. i = m \/ i \in 1..(n - 1)
        <5> HIDE DEF n, m
        <5> QED BY <1>2, <3>1
      <4> QED BY <4>1, <4>2, <4>3
    <3> QED BY <3>5, <3>6
  <2> QED BY <2>1, <2>2
<1>6. r = [i \in 1..m |-> longer[Len(longer) - m + i].frametime]
  BY <1>5, LenProperties
<1> QED BY <1>6 DEF WindowOf

\* No window on no log.
LEMMA EmptyWindow == ASSUME NEW limit \in Nat PROVE WindowOf(<<>>, <<>>, limit)
<1>1. SmallerOf(limit, Len(<<>>)) = 0 /\ 1..0 = {} BY EmptySeq DEF SmallerOf
<1> QED BY <1>1 DEF WindowOf

\* A capture rolls each window it pushes to along the log it appends to.
LEMMA CaptureKeepsWindows ==
    ASSUME TypeOK, WindowsFollowLogs, NEW tr, NEW t, Capturing(tr, t)
    PROVE  WindowsFollowLogs'
<1>1. TrackerType(tr) /\ t \in Int /\ CaptureOn(tr, t) BY DEF Capturing
<1>2. LiveLimit \in Nat \ {0} /\ BenchLimit \in Nat \ {0} BY SessionAssumption
<1>3. CASE ~Yields(tr, t)
  BY <1>1, <1>3 DEF CaptureOn, live, WindowsFollowLogs
<1>4. CASE Yields(tr, t)
  <2> DEFINE x == SampleAt(tr, t)
  <2>1. x \in Sample BY <1>1, <1>4, TrackerStep
  <2>2. /\ liveLog' = Append(liveLog, x) /\ liveWindow' = Rolled(liveWindow, LiveLimit, x.frametime)
        /\ IF recording
           THEN benchLog' = Append(benchLog, x)
                /\ benchWindow' = Rolled(benchWindow, BenchLimit, x.frametime)
           ELSE benchLog' = benchLog /\ benchWindow' = benchWindow
    BY <1>1, <1>4 DEF CaptureOn, Logged
  <2> HIDE DEF x
  <2>3. liveLog \in Seq(Sample) /\ benchLog \in Seq(Sample) BY DEF TypeOK
  <2>4. WindowOf(liveWindow', liveLog', LiveLimit)
    BY <1>2, <2>1, <2>2, <2>3, RolledAlong DEF WindowsFollowLogs
  <2>5. WindowOf(benchWindow', benchLog', BenchLimit)
    <3>1. CASE recording
      BY <1>2, <2>1, <2>2, <2>3, <3>1, RolledAlong DEF WindowsFollowLogs
    <3>2. CASE ~recording BY <2>2, <3>2 DEF WindowsFollowLogs
    <3> QED BY <3>1, <3>2
  <2> QED BY <2>4, <2>5 DEF WindowsFollowLogs
<1> QED BY <1>3, <1>4

LEMMA WindowsKept == LogInv /\ WindowsFollowLogs /\ [Next]_vars => WindowsFollowLogs'
<1> SUFFICES ASSUME LogInv, WindowsFollowLogs, [Next]_vars PROVE WindowsFollowLogs'
  OBVIOUS
<1>0. TypeOK /\ LiveLimit \in Nat /\ BenchLimit \in Nat
  BY SessionAssumption DEF LogInv
<1>1. CASE Reset \/ ResetSyntheticTimeline
  BY <1>0, <1>1, EmptyWindow DEF Reset, ResetSyntheticTimeline, ClearHistory, WindowsFollowLogs
<1>2. CASE \E t \in 0..Horizon : CaptureFrame(t)
  BY <1>0, <1>2, FrameCaptures, CaptureKeepsWindows
<1>3. CASE \E ft \in FrameTimes : CaptureSyntheticFrame(ft)
  BY <1>0, <1>3, PushCaptures, CaptureKeepsWindows
<1>4. ASSUME StartBenchmark PROVE WindowsFollowLogs'
  BY <1>0, <1>4, EmptyWindow DEF StartBenchmark, live, WindowsFollowLogs
<1>5. ASSUME StopBenchmark PROVE WindowsFollowLogs'
  BY <1>5 DEF StopBenchmark, live, WindowsFollowLogs
<1>6. CASE ToggleBenchmark
  BY <1>4, <1>5, <1>6 DEF ToggleBenchmark
<1>7. CASE UNCHANGED vars
  BY <1>7 DEF vars, live, benchmark, WindowsFollowLogs
<1> QED BY <1>1, <1>2, <1>3, <1>4, <1>5, <1>6, <1>7 DEF Next

\* Each metrics window is the tail of its log: what the metrics say and what
\* the log says is about the same frames, for any limits.
THEOREM Windows == Spec => []WindowsFollowLogs
<1>1. Init => WindowsFollowLogs
  BY SessionAssumption, EmptyWindow DEF Init, WindowsFollowLogs
<1> QED BY <1>1, LogsCorrect, WindowsKept, PTL DEF Spec

-----------------------------------------------------------------------------
(* Time                                                                     *)

\* A log with one more sample lasts that sample's frametime longer.
LEMMA DurationOfAppend ==
    ASSUME NEW log \in Seq(Sample), NEW x \in Sample
    PROVE  /\ SessionDuration(log) \in Int
           /\ SessionDuration(Append(log, x)) = SessionDuration(log) + x.frametime
<1>1. \A y \in Sample: y.frametime \in Int BY DEF Sample
<1>2. Frametimes(log) \in Seq(Int)
  <2>1. Frametimes(log) \in [1..Len(log) -> Int] BY <1>1, ElementOfSeq, LenProperties DEF Frametimes
  <2> QED BY <2>1, IsASeq, LenProperties
<1>3. Frametimes(Append(log, x)) = Append(Frametimes(log), x.frametime)
  <2> DEFINE a == Frametimes(Append(log, x))
             b == Append(Frametimes(log), x.frametime)
  <2>1. /\ Len(log) \in Nat /\ DOMAIN log = 1..Len(log)
        /\ Append(log, x) \in Seq(Sample) /\ DOMAIN Append(log, x) = 1..(Len(log) + 1)
        /\ Append(log, x)[Len(log) + 1] = x
        /\ \A i \in 1..Len(log): Append(log, x)[i] = log[i]
    BY AppendProperties, LenProperties
  <2>2. /\ a \in [1..(Len(log) + 1) -> Int]
        /\ a[Len(log) + 1] = x.frametime
        /\ \A i \in 1..Len(log): a[i] = log[i].frametime
    BY <1>1, <2>1, ElementOfSeq DEF Frametimes
  <2>3. a \in Seq(Int) /\ Len(a) = Len(log) + 1
    BY <2>1, <2>2, IsASeq, LenProperties
  <2>4. Len(Frametimes(log)) = Len(log) /\ \A i \in 1..Len(log): Frametimes(log)[i] = log[i].frametime
    BY <1>2, <2>1, LenProperties DEF Frametimes
  <2>5. /\ b \in Seq(Int) /\ Len(b) = Len(log) + 1
        /\ b[Len(log) + 1] = x.frametime
        /\ \A i \in 1..Len(log): b[i] = log[i].frametime
    <3>1. x.frametime \in Int BY <1>1
    <3> QED BY <1>2, <2>4, <3>1, AppendNumber
  <2>6. \A i \in 1..Len(a): a[i] = b[i]
    <3>1. \A i \in 1..Len(a): i \in 1..Len(log) \/ i = Len(log) + 1 BY <2>1, <2>3
    <3> QED BY <2>2, <2>5, <3>1
  <2> HIDE DEF a, b
  <2>7. a = b BY <2>3, <2>5, <2>6, SeqEqual
  <2> QED BY <2>7 DEF a, b
<1>4. x.frametime \in Int BY <1>1
<1>5. Total(Frametimes(log)) \in Int BY <1>2, <1>4, TotalAppend
<1>6. Total(Append(Frametimes(log), x.frametime)) = Total(Frametimes(log)) + x.frametime
  BY <1>2, <1>4, TotalAppend
<1> QED BY <1>3, <1>5, <1>6 DEF SessionDuration

\* The logged time covers what a tracker has seen.
Covers(tr) ==
    IF tr.start = None THEN liveLog = <<>>
                       ELSE SessionDuration(liveLog) >= tr.previous - tr.start

\* The synthetic clock is the timestamp of the last frame.
ClockIsPrevious ==
    feed = "synthetic" /\ synthReady => tracker.start # None /\ tracker.previous = synthClock

TimeInv == Covers(tracker) /\ ClockIsPrevious

LEMMA NoDuration == liveLog = <<>> => SessionDuration(liveLog) = 0
<1> SUFFICES ASSUME liveLog = <<>> PROVE SessionDuration(liveLog) = 0 OBVIOUS
<1>1. Frametimes(liveLog) = <<>> BY DEF Frametimes
<1> QED BY <1>1, TotalEmpty DEF SessionDuration

\* The tracker of the first push, seeded, covers the empty log.
LEMMA PushTracker ==
    ASSUME TypeOK, TimeInv, NEW ft \in FrameTimes, CaptureSyntheticFrame(ft)
    PROVE  /\ LLRound(ft) \in Int
           /\ \E tr: /\ Capturing(tr, synthClock') /\ Covers(tr)
                     /\ tr.start # None /\ synthClock' = tr.previous + LLRound(ft)
<1>1. PICK now \in IF synthReady THEN {synthClock} ELSE Seeds :
          /\ feed = "synthetic"
          /\ CaptureOn(IF synthReady THEN tracker ELSE Tracked(tracker, now), now + LLRound(ft))
          /\ synthClock' = now + LLRound(ft)
  BY DEF CaptureSyntheticFrame
<1>2. now \in Int /\ LLRound(ft) \in Int /\ now + LLRound(ft) \in Int
  BY SessionAssumption, LLRoundInt DEF TypeOK
<1>3. CASE synthReady
  BY <1>1, <1>2, <1>3 DEF Capturing, TypeOK, TimeInv, ClockIsPrevious
<1>4. CASE ~synthReady
  <2> DEFINE tr == Tracked(tracker, now)
  <2>1. TrackerType(tr)
    BY <1>2, TrackerStep DEF TypeOK
  <2>2. tracker.start = None BY <1>1, <1>4 DEF TypeOK
  <2>3. tr.start = now /\ tr.previous = now /\ tr.captured = tracker.captured
    BY <2>2 DEF Tracked
  <2>4. now # None BY <1>2, SessionAssumption
  <2>5. liveLog = <<>> BY <2>2 DEF TimeInv, Covers
  <2>6. Covers(tr) BY <1>2, <2>3, <2>4, <2>5, NoDuration DEF Covers
  <2>7. Capturing(tr, synthClock') BY <1>1, <1>2, <1>4, <2>1, <2>3 DEF Capturing
  <2> QED BY <1>1, <1>2, <2>3, <2>4, <2>6, <2>7
<1> QED BY <1>3, <1>4

LEMMA CaptureCovers ==
    ASSUME TypeOK, NEW tr, NEW t, Capturing(tr, t), Covers(tr)
    PROVE  /\ Covers(tracker)' /\ tracker'.previous = t /\ tracker'.start # None
           /\ tr.start # None /\ t > tr.previous => Len(liveLog') = Len(liveLog) + 1
<1>1. TrackerType(tr) /\ t \in Int /\ CaptureOn(tr, t) BY DEF Capturing
<1>2. tracker' = Tracked(tr, t) BY <1>1 DEF CaptureOn
<1>3. liveLog \in Seq(Sample) BY DEF TypeOK
<1>4. None \notin Int BY SessionAssumption
<1>5. CASE tr.start = None
  <2>1. ~Yields(tr, t) BY <1>5 DEF Yields
  <2>2. liveLog' = liveLog BY <1>1, <2>1 DEF CaptureOn, live
  <2>3. tracker'.start = t /\ tracker'.previous = t BY <1>2, <1>5 DEF Tracked
  <2>4. liveLog' = <<>> BY <1>5, <2>2 DEF Covers
  <2>5. SessionDuration(liveLog') = 0 BY <2>4, <2>2, NoDuration
  <2> QED BY <1>1, <1>4, <1>5, <2>3, <2>5 DEF Covers
<1>6. CASE tr.start # None
  <2>1. tr.start \in Int /\ tr.previous \in Int BY <1>1, <1>6 DEF TrackerType
  <2>2. tracker'.start = tr.start /\ tracker'.previous = t
    BY <1>1, <1>2, <1>6 DEF Tracked, TrackerType
  <2>3. SessionDuration(liveLog) >= tr.previous - tr.start BY <1>6 DEF Covers
  <2>4. CASE Yields(tr, t)
    <3> DEFINE x == SampleAt(tr, t)
    <3>1. x \in Sample BY <1>1, <2>4, TrackerStep
    <3>2. x.frametime = t - tr.previous BY DEF SampleAt
    <3>3. liveLog' = Append(liveLog, x) BY <1>1, <2>4 DEF CaptureOn, Logged
    <3> HIDE DEF x
    <3>4. /\ SessionDuration(liveLog) \in Int
          /\ SessionDuration(liveLog') = SessionDuration(liveLog) + x.frametime
      BY <1>3, <3>1, <3>3, DurationOfAppend
    <3>5. SessionDuration(liveLog') >= t - tr.start
      BY <1>1, <2>1, <2>3, <3>2, <3>4
    <3>6. Len(liveLog') = Len(liveLog) + 1 BY <1>3, <3>1, <3>3, AppendProperties
    <3> QED BY <1>6, <2>2, <3>5, <3>6 DEF Covers
  <2>5. CASE ~Yields(tr, t)
    <3>1. liveLog' = liveLog BY <1>1, <2>5 DEF CaptureOn, live
    <3>2. t <= tr.previous BY <1>1, <1>6, <2>1, <2>5 DEF Yields
    <3>3. SessionDuration(liveLog) \in Int
      <4>1. PICK x: x \in Sample
        <5>1. [frame_index |-> 1, elapsed |-> 0, frametime |-> 1] \in Sample BY DEF Sample
        <5> QED BY <5>1
      <4> QED BY <1>3, <4>1, DurationOfAppend
    <3>4. SessionDuration(liveLog') >= t - tr.start
      BY <1>1, <2>1, <2>3, <3>1, <3>2, <3>3
    <3> QED BY <1>1, <1>6, <2>1, <2>2, <3>2, <3>4 DEF Covers
  <2> QED BY <2>4, <2>5
<1> QED BY <1>5, <1>6

LEMMA TimeKept == LogInv /\ TimeInv /\ [Next]_vars => TimeInv'
<1> SUFFICES ASSUME LogInv, TimeInv, [Next]_vars PROVE TimeInv'
  OBVIOUS
<1>0. TypeOK BY DEF LogInv
<1>1. CASE Reset
  BY <1>1 DEF Reset, ClearHistory, FreshTracker, TimeInv, Covers, ClockIsPrevious
<1>2. CASE ResetSyntheticTimeline
  <2>1. liveLog' = <<>> /\ synthClock' = 0
    BY <1>2 DEF ResetSyntheticTimeline, ClearHistory
  <2>2. tracker'.start = 0 /\ tracker'.previous = 0 /\ tracker'.start # None
    BY <1>2, SessionAssumption DEF ResetSyntheticTimeline, Tracked, FreshTracker
  <2>3. Frametimes(<<>>) = <<>> BY DEF Frametimes
  <2>4. SessionDuration(liveLog') = 0 BY <2>1, <2>3, TotalEmpty DEF SessionDuration
  <2> QED BY <2>1, <2>2, <2>4 DEF TimeInv, Covers, ClockIsPrevious
<1>3. ASSUME NEW t \in 0..Horizon, CaptureFrame(t) PROVE TimeInv'
  <2>1. Capturing(tracker, t) BY <1>0, <1>3, FrameCaptures
  <2>2. Covers(tracker)' BY <1>0, <2>1, CaptureCovers DEF TimeInv
  <2>3. feed' = "present" BY <1>3 DEF CaptureFrame, CaptureOn
  <2> QED BY <2>2, <2>3 DEF TimeInv, ClockIsPrevious
<1>4. ASSUME NEW ft \in FrameTimes, CaptureSyntheticFrame(ft) PROVE TimeInv'
  <2>1. PICK tr: Capturing(tr, synthClock') /\ Covers(tr) BY <1>0, <1>4, PushTracker
  <2> QED BY <1>0, <2>1, CaptureCovers DEF TimeInv, ClockIsPrevious
<1>5. CASE StartBenchmark \/ StopBenchmark \/ ToggleBenchmark \/ UNCHANGED vars
  <2>1. UNCHANGED <<feed, tracker, liveLog, synthClock, synthReady>>
    BY <1>5 DEF StartBenchmark, StopBenchmark, ToggleBenchmark, vars, live, synthetic
  <2> QED BY <2>1 DEF TimeInv, Covers, ClockIsPrevious
<1> QED BY <1>1, <1>2, <1>3, <1>4, <1>5 DEF Next

LEMMA TimeCorrect == Spec => []TimeInv
<1>1. Init => TimeInv
  BY DEF Init, FreshTracker, TimeInv, Covers, ClockIsPrevious
<1> QED BY <1>1, LogsCorrect, TimeKept, PTL DEF Spec

\* The logged frametimes account for all the time between the first and the
\* latest present, in whatever order the presents' timestamps come.
THEOREM TimeLogged == Spec => []NoTimeLost
<1>1. TimeInv => NoTimeLost BY DEF TimeInv, Covers, NoTimeLost
<1> QED BY <1>1, TimeCorrect, PTL

\* Every pushed frametime of half a microsecond or more becomes a frame.
THEOREM PushesLogged == Spec => NoPushLost
<1> DEFINE Framed == \A ft \in FrameTimes :
               CaptureSyntheticFrame(ft) /\ LLRound(ft) > 0 => Len(liveLog') = Len(liveLog) + 1
<1>1. ASSUME LogInv, TimeInv PROVE Framed
  <2> SUFFICES ASSUME NEW ft \in FrameTimes, CaptureSyntheticFrame(ft), LLRound(ft) > 0
               PROVE  Len(liveLog') = Len(liveLog) + 1
    OBVIOUS
  <2>1. LLRound(ft) \in Int /\ TypeOK BY <1>1, PushTracker DEF LogInv
  <2>2. PICK tr: /\ Capturing(tr, synthClock') /\ Covers(tr)
                 /\ tr.start # None /\ synthClock' = tr.previous + LLRound(ft)
    BY <1>1, <2>1, PushTracker
  <2>3. tr.previous \in Int BY <2>2 DEF Capturing, TrackerType
  <2>4. synthClock' > tr.previous BY <2>1, <2>2, <2>3
  <2> QED BY <2>1, <2>2, <2>4, CaptureCovers
<1> HIDE DEF Framed
<1>2. LogInv /\ TimeInv => [Framed]_vars BY <1>1
<1> QED BY <1>2, LogsCorrect, TimeCorrect, PTL DEF NoPushLost, Framed
=============================================================================
