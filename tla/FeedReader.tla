----------------------------- MODULE FeedReader -----------------------------
(***************************************************************************)
(* What the two programs that read the feed share, src/app/viewer_main.cpp *)
(* and src/app/debug_window_main.cpp: a main loop over events, and a       *)
(* session that is the sequence of its frames since the last reset, each   *)
(* told by where it came from.  Between any two steps of a loop the server *)
(* thread and the games may act.                                           *)
(***************************************************************************)
EXTENDS Feed, Naturals

CONSTANT MaxSamples    \* samples the games send, all together

VARIABLES
    delivered,     \* bound: samples sent so far
    main,          \* where the main thread is
    running,       \* the loop's flag
    frames         \* the session, as the sources of its frames

readerVars == <<feedVars, delivered, main, running, frames>>

ReaderInit ==
    /\ FeedInit /\ delivered = 0
    /\ running = TRUE /\ frames = <<>>

\* A step of the main thread.
MainGoto(from, to) == main = from /\ main' = to /\ UNCHANGED delivered

\* Closing the window, Escape or 'q': the turn goes on to its end.
PressQuit ==
    /\ MainGoto("events", "events")
    /\ running /\ running' = FALSE
    /\ UNCHANGED <<feedVars, frames>>

\* ipc.Stop(), also from the destructor, cuts the client.
StopFeed == IF HasClient THEN Leave ELSE UNCHANGED feedVars

\* The server's side of the feed.
GamesNext ==
    /\ \/ \E c \in Clients: Serve(c) /\ UNCHANGED delivered
       \/ delivered < MaxSamples /\ delivered' = delivered + 1 /\ Deliver
       \/ Leave /\ UNCHANGED delivered
    /\ UNCHANGED <<main, running, frames>>
=============================================================================
