-------------------------------- MODULE CApi --------------------------------
(***************************************************************************)
(* The C API of framewatch.h over one session handle.  A call on a null    *)
(* handle answers without touching the session.  The variable reply is     *)
(* what the last call returned or wrote for its caller.                    *)
(***************************************************************************)
EXTENDS PerformanceSession

VARIABLES
    handle,   \* the caller holds a session (FALSE: the null handle)
    reply     \* the last call: its name, its return code and the data it handed out

apiVars == <<vars, handle, reply>>

Answer(call, code, data) == reply' = [call |-> call, code |-> code, data |-> data]

CreateInit ==
    /\ Init /\ feed = "synthetic"
    /\ handle = FALSE /\ reply = [call |-> "none", code |-> 0, data |-> None]

Create ==
    /\ ~handle /\ handle' = TRUE
    /\ Answer("create", 0, None)
    /\ UNCHANGED vars

\* The members go with the session: a later Create starts from Init again.
Destroy ==
    /\ handle /\ handle' = FALSE
    /\ Reset
    /\ Answer("destroy", 0, None)

\* The void calls, each forwarding to the session when there is one.
Forward(call, operation) ==
    /\ IF handle THEN operation ELSE UNCHANGED vars
    /\ Answer(call, 0, None)
    /\ UNCHANGED handle

StopIfRecording == IF recording THEN StopBenchmark ELSE UNCHANGED vars

\* fw_session_snapshot: the live window; zeroes for a null handle.
Snapshot ==
    /\ Answer("snapshot", 0, IF handle THEN liveWindow ELSE <<>>)
    /\ UNCHANGED <<vars, handle>>

\* fw_session_benchmark_snapshot: 1 when out was written, 0 otherwise, also for
\* a null out.
BenchmarkSnapshot(out) ==
    /\ IF handle /\ out /\ CurrentBenchmark.has_data
       THEN Answer("benchmark_snapshot", 1, CurrentBenchmark.metrics)
       ELSE Answer("benchmark_snapshot", 0, None)
    /\ UNCHANGED <<vars, handle>>

\* fw_session_export: both files are attempted, whether or not the first was
\* written; none when a path is null.
Export(paths, csvOk, jsonOk) ==
    /\ IF handle /\ paths
       THEN Answer("export", IF csvOk /\ jsonOk THEN 0 ELSE -1, PreferredLog)
       ELSE Answer("export", -1, None)
    /\ UNCHANGED <<vars, handle>>

CallNext ==
    \/ Create
    \/ Destroy
    \/ Forward("reset", Reset)
    \/ \E ft \in FrameTimes : Forward("push_frame", CaptureSyntheticFrame(ft))
    \/ Forward("start_benchmark", StartBenchmark)
    \/ Forward("stop_benchmark", StopIfRecording)
    \/ Snapshot
    \/ \E out \in BOOLEAN : BenchmarkSnapshot(out)
    \/ \E paths, csvOk, jsonOk \in BOOLEAN : Export(paths, csvOk, jsonOk)

ApiSpec == CreateInit /\ [][CallNext]_apiVars

-----------------------------------------------------------------------------
(* What framewatch.h says of the calls                                     *)

\* framewatch.h:58 "Returns 1 if a completed benchmark snapshot was written
\* to *out": a snapshot is handed out only once a benchmark was completed.
SnapshotIsOfCompletedBenchmark ==
    reply.call = "benchmark_snapshot" /\ reply.code = 1 => lastCompleted # None
=============================================================================
