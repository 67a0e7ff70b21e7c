------------------------------ MODULE IpcServer ------------------------------
(***************************************************************************)
(* The live feed's receiving end (src/ipc/ipc_server.cpp, Unix half):      *)
(* the owner's thread calls Start, DrainSamples and Stop, the server       *)
(* thread accepts one client at a time, cuts what it reads into lines and  *)
(* queues the samples they hold, and the clients connect, write and go     *)
(* away when they please.  The kernel's part -- a listen queue, one byte   *)
(* stream per connection, the self-pipe -- is modelled from how both ends  *)
(* use it.                                                                 *)
(*                                                                         *)
(* A line travels as two pieces, because recv() may stop anywhere in the   *)
(* stream; only its two pieces next to each other parse.  A Start that     *)
(* fails takes back its sockets and its flag; that it has removed the      *)
(* endpoint's file changes nothing, because nobody listens on it while the *)
(* server does not run: it is no step at all.                              *)
(***************************************************************************)
EXTENDS SequenceFolds, SequencesExt, Functions

CONSTANTS
    Conns,      \* the connections clients may ever open
    None,       \* no client is being served
    Backlog,    \* connections the listen queue holds
    Capacity,   \* pieces the socket buffer of one connection holds
    MaxLines,   \* lines the clients write, all together
    MaxStarts,  \* times the owner starts the server
    MaxFaults   \* failing select(), accept() and recv() calls

ASSUME ServerAssumption ==
    /\ None \notin Conns
    /\ Backlog \in Nat \ {0} /\ Capacity \in Nat \ {0, 1}
    /\ MaxLines \in Nat /\ MaxStarts \in Nat /\ MaxFaults \in Nat

VARIABLES
    running,    \* running_
    hasClient,  \* has_client_
    queue,      \* sample_queue_
    listening,  \* server_fd_ is open and bound
    wake,       \* the self-pipe: "closed", "quiet" or "signalled"
    owner,      \* where the owner's thread is in Stop, "idle" outside it
    at,         \* where the server thread is, "none" when there is none
    client,     \* the connection behind client_fd
    lineBuf,    \* line_buf, in pieces
    backlog,    \* connections waiting for accept()
    wire,       \* pieces written and not yet received, per connection
    near,       \* the client's end of each connection
    far,        \* the server's end of each connection
    written,    \* history: the complete lines each client wrote
    cut,        \* history: connections the server gave up before their end
    drained,    \* history: what DrainSamples returned so far
    starts, faults

kernelVars == <<listening, backlog, wire, near, far, written>>
threadVars == <<hasClient, queue, at, client, lineBuf, cut, faults>>
ownerVars  == <<running, wake, owner, drained, starts>>
serverVars == <<kernelVars, threadVars, ownerVars>>

-----------------------------------------------------------------------------
(* Lines and their pieces. *)

\* A sample: its frame number and fps travel along and decide nothing.
Line == [conn: Conns, ts: Nat, ft: Int]

Start1(l) == [line |-> l, end |-> FALSE]
End1(l)   == [line |-> l, end |-> TRUE]
Pieces(l) == <<Start1(l), End1(l)>>

Good(l) == l.ft > 0

\* EnqueueLine: what a line adds to the queue.  Pieces that do not belong
\* together are no JSON object; frametimes that are not positive are dropped.
Parsed(pieces) ==
    IF Len(pieces) = 2 /\ pieces = Pieces(pieces[2].line) /\ Good(pieces[2].line)
    THEN <<pieces[2].line>> ELSE <<>>

\* Where the first newline of the buffer is.
IsFirstEnd(buf, n) == buf[n].end /\ \A i \in 1..(n - 1): ~buf[i].end

-----------------------------------------------------------------------------

ServerInit ==
    /\ running = FALSE /\ hasClient = FALSE /\ queue = <<>>
    /\ listening = FALSE /\ wake = "closed" /\ owner = "idle"
    /\ at = "none" /\ client = None /\ lineBuf = <<>>
    /\ backlog = <<>> /\ wire = [c \in Conns |-> <<>>]
    /\ near = [c \in Conns |-> "new"] /\ far = [c \in Conns |-> "new"]
    /\ written = [c \in Conns |-> <<>>] /\ cut = {}
    /\ drained = <<>> /\ starts = 0 /\ faults = 0

-----------------------------------------------------------------------------
(* The owner's thread. *)

Start ==
    /\ owner = "idle" /\ ~running /\ starts < MaxStarts
    /\ running' = TRUE /\ wake' = "quiet" /\ listening' = TRUE /\ at' = "outer"
    /\ starts' = starts + 1
    /\ UNCHANGED <<hasClient, queue, owner, client, lineBuf, backlog, wire, near, far,
                   written, cut, drained, faults>>

DrainSamples ==
    /\ owner = "idle" /\ queue # <<>>
    /\ drained' = drained \o queue /\ queue' = <<>>
    /\ UNCHANGED <<kernelVars, running, wake, owner, starts,
                   hasClient, at, client, lineBuf, cut, faults>>

Stop ==
    /\ owner = "idle" /\ running
    /\ running' = FALSE /\ owner' = "wake"
    /\ UNCHANGED <<kernelVars, threadVars, wake, drained, starts>>

\* Stop trusting the thread to look at running_ by itself.
StopUnwoken ==
    /\ owner = "wake" /\ owner' = "join"
    /\ UNCHANGED <<kernelVars, threadVars, running, wake, drained, starts>>

StopWake ==
    /\ owner = "wake"
    /\ wake' = "signalled" /\ owner' = "join"
    /\ UNCHANGED <<kernelVars, threadVars, running, drained, starts>>

StopJoin ==
    /\ owner = "join" /\ at = "done"
    /\ at' = "none" /\ owner' = "close"
    /\ UNCHANGED <<kernelVars, running, wake, drained, starts,
                   hasClient, queue, client, lineBuf, cut, faults>>

\* Closing the listening socket resets the connections nobody accepted.
StopClose ==
    /\ owner = "close"
    /\ listening' = FALSE /\ wake' = "closed" /\ hasClient' = FALSE
    /\ backlog' = <<>>
    /\ far' = [c \in Conns |-> IF far[c] = "queued" THEN "closed" ELSE far[c]]
    /\ cut' = cut \union {c \in Conns: far[c] = "queued"}
    /\ owner' = "idle"
    /\ UNCHANGED <<running, queue, at, client, lineBuf, wire, near, written,
                   drained, starts, faults>>

OwnerNext == Start \/ DrainSamples \/ Stop \/ StopWake \/ StopJoin \/ StopClose

-----------------------------------------------------------------------------
(* The server thread. *)

Goto(from, to) ==
    at = from /\ at' = to /\ UNCHANGED <<kernelVars, ownerVars>>

\* while (running_) around select() and accept().
OuterCheck ==
    /\ Goto("outer", IF running THEN "select" ELSE "done")
    /\ UNCHANGED <<hasClient, queue, client, lineBuf, cut, faults>>

\* select() has no timeout: the thread waits for the pipe or for a client.
WokenOutside ==
    /\ Goto("select", "done")
    /\ wake = "signalled"
    /\ UNCHANGED <<hasClient, queue, client, lineBuf, cut, faults>>

Accept ==
    /\ at = "select" /\ wake # "signalled" /\ backlog # <<>>
    /\ client' = Head(backlog) /\ backlog' = Tail(backlog)
    /\ far' = [far EXCEPT ![Head(backlog)] = "served"]
    /\ at' = "greet"
    /\ UNCHANGED <<ownerVars, listening, wire, near, written,
                   hasClient, queue, lineBuf, cut, faults>>

\* select() or accept() fails: the thread leaves while running_ stays set.
AcceptFails ==
    /\ Goto("select", "done")
    /\ faults < MaxFaults /\ faults' = faults + 1
    /\ UNCHANGED <<hasClient, queue, client, lineBuf, cut>>

Greet ==
    /\ Goto("greet", "check")
    /\ hasClient' = TRUE
    /\ UNCHANGED <<queue, client, lineBuf, cut, faults>>

InnerCheck ==
    /\ Goto("check", IF running THEN "poll" ELSE "hangup")
    /\ cut' = IF running THEN cut ELSE cut \union {client}
    /\ UNCHANGED <<hasClient, queue, client, lineBuf, faults>>

WokenInside ==
    /\ Goto("poll", "hangup")
    /\ wake = "signalled"
    /\ cut' = cut \union {client}
    /\ UNCHANGED <<hasClient, queue, client, lineBuf, faults>>

\* Five milliseconds pass and neither descriptor is readable.
PollTimeout ==
    /\ Goto("poll", "check")
    /\ wake # "signalled" /\ wire[client] = <<>> /\ near[client] = "open"
    /\ UNCHANGED <<hasClient, queue, client, lineBuf, cut, faults>>

\* A client seen to be closed is taken off the flag before its rest is read.
RecvAnnouncingHangup ==
    /\ at = "poll" /\ wake # "signalled" /\ wire[client] # <<>>
    /\ \E n \in 1..Len(wire[client]):
           /\ lineBuf' = lineBuf \o SubSeq(wire[client], 1, n)
           /\ wire' = [wire EXCEPT ![client] = SubSeq(@, n + 1, Len(@))]
    /\ at' = "lines" /\ hasClient' = (near[client] = "open")
    /\ UNCHANGED <<ownerVars, listening, backlog, near, far, written,
                   queue, client, cut, faults>>

\* recv() returns some of what is buffered.
Recv ==
    /\ at = "poll" /\ wake # "signalled" /\ wire[client] # <<>>
    /\ \E n \in 1..Len(wire[client]):
           /\ lineBuf' = lineBuf \o SubSeq(wire[client], 1, n)
           /\ wire' = [wire EXCEPT ![client] = SubSeq(@, n + 1, Len(@))]
    /\ at' = "lines"
    /\ UNCHANGED <<ownerVars, listening, backlog, near, far, written,
                   hasClient, queue, client, cut, faults>>

\* A hang-up acted on before what is still buffered is read.
RecvEofFirst ==
    /\ Goto("poll", "hangup")
    /\ wake # "signalled" /\ near[client] = "closed"
    /\ UNCHANGED <<hasClient, queue, client, lineBuf, cut, faults>>

\* n < 0 where the code tests n <= 0.
RecvEofIgnored ==
    /\ Goto("poll", "lines")
    /\ wake # "signalled" /\ wire[client] = <<>> /\ near[client] = "closed"
    /\ UNCHANGED <<hasClient, queue, client, lineBuf, cut, faults>>

\* recv() returns 0: the client is gone and its stream is empty.
RecvEof ==
    /\ Goto("poll", "hangup")
    /\ wake # "signalled" /\ wire[client] = <<>> /\ near[client] = "closed"
    /\ UNCHANGED <<hasClient, queue, client, lineBuf, cut, faults>>

RecvFails ==
    /\ Goto("poll", "hangup")
    /\ faults < MaxFaults /\ faults' = faults + 1
    /\ cut' = cut \union {client}
    /\ UNCHANGED <<hasClient, queue, client, lineBuf>>

\* An if where the code has a while: one line per recv().
TakeOneLine ==
    /\ Goto("lines", "check")
    /\ \E n \in DOMAIN lineBuf:
           /\ IsFirstEnd(lineBuf, n)
           /\ queue' = queue \o Parsed(SubSeq(lineBuf, 1, n))
           /\ lineBuf' = SubSeq(lineBuf, n + 1, Len(lineBuf))
    /\ UNCHANGED <<hasClient, client, cut, faults>>

\* One turn of the while over line_buf: EnqueueLine, then erase.
TakeLine ==
    /\ Goto("lines", "lines")
    /\ \E n \in DOMAIN lineBuf:
           /\ IsFirstEnd(lineBuf, n)
           /\ queue' = queue \o Parsed(SubSeq(lineBuf, 1, n))
           /\ lineBuf' = SubSeq(lineBuf, n + 1, Len(lineBuf))
    /\ UNCHANGED <<hasClient, client, cut, faults>>

LinesTaken ==
    /\ Goto("lines", "check")
    /\ \A n \in DOMAIN lineBuf: ~lineBuf[n].end
    /\ UNCHANGED <<hasClient, queue, client, lineBuf, cut, faults>>

\* The store to has_client_ forgotten.
HangupKeepingFlag ==
    /\ Goto("hangup", "closing")
    /\ UNCHANGED <<hasClient, queue, client, lineBuf, cut, faults>>

Hangup ==
    /\ Goto("hangup", "closing")
    /\ hasClient' = FALSE
    /\ UNCHANGED <<queue, client, lineBuf, cut, faults>>

\* line_buf outliving its connection.
CloseKeepingBuffer ==
    /\ at = "closing"
    /\ far' = [far EXCEPT ![client] = "closed"]
    /\ client' = None /\ at' = "outer"
    /\ UNCHANGED <<ownerVars, listening, backlog, wire, near, written,
                   hasClient, queue, lineBuf, cut, faults>>

\* The end of an iteration takes line_buf with it.
CloseClient ==
    /\ at = "closing"
    /\ far' = [far EXCEPT ![client] = "closed"]
    /\ client' = None /\ lineBuf' = <<>> /\ at' = "outer"
    /\ UNCHANGED <<ownerVars, listening, backlog, wire, near, written,
                   hasClient, queue, cut, faults>>

ThreadNext ==
    \/ OuterCheck \/ WokenOutside \/ Accept \/ AcceptFails \/ Greet
    \/ InnerCheck \/ WokenInside \/ PollTimeout \/ Recv \/ RecvEof \/ RecvFails
    \/ TakeLine \/ LinesTaken \/ Hangup \/ CloseClient

-----------------------------------------------------------------------------
(* What a client does to the kernel's objects: external to this file. *)

Connect(c) ==
    /\ near[c] = "new" /\ listening /\ Len(backlog) < Backlog
    /\ near' = [near EXCEPT ![c] = "open"]
    /\ far' = [far EXCEPT ![c] = "queued"]
    /\ backlog' = Append(backlog, c)
    /\ UNCHANGED <<ownerVars, threadVars, listening, wire, written>>

\* write() of a whole line finds room for it.
SendLine(c, l) ==
    /\ near[c] = "open" /\ far[c] # "closed"
    /\ Len(wire[c]) + 2 <= Capacity
    /\ wire' = [wire EXCEPT ![c] = @ \o Pieces(l)]
    /\ written' = [written EXCEPT ![c] = Append(@, l)]
    /\ UNCHANGED <<ownerVars, threadVars, listening, backlog, near, far>>

CloseNear(c) ==
    /\ near[c] = "open"
    /\ near' = [near EXCEPT ![c] = "closed"]
    /\ UNCHANGED <<ownerVars, threadVars, listening, backlog, wire, far, written>>

\* The client dies with half a line in the stream.
DieInsideLine(c, l) ==
    /\ near[c] = "open" /\ far[c] # "closed"
    /\ Len(wire[c]) < Capacity
    /\ wire' = [wire EXCEPT ![c] = Append(@, Start1(l))]
    /\ near' = [near EXCEPT ![c] = "closed"]
    /\ UNCHANGED <<ownerVars, threadVars, listening, backlog, far, written>>

\* The next line of any client: its frametime may be bad.
NextLine(c, ft) ==
    [conn |-> c, ts |-> Len(written[c]), ft |-> ft]

LinesLeft == FoldFunction(LAMBDA w, n: Len(w) + n, 0, written) < MaxLines

ClientNext ==
    \E c \in Conns:
        \/ Connect(c)
        \/ LinesLeft /\ \E ft \in 0..1: SendLine(c, NextLine(c, ft))
        \/ CloseNear(c)
        \/ LinesLeft /\ DieInsideLine(c, NextLine(c, 1))

Init == ServerInit
Next == OwnerNext \/ ThreadNext \/ ClientNext
Spec == Init /\ [][Next]_serverVars

\* The scheduler runs both threads; nothing makes an owner start or stop the
\* server or a client write, and no call has to fail.
ServerFairness ==
    /\ WF_serverVars(ThreadNext /\ faults' = faults)
    /\ WF_serverVars(StopWake \/ StopJoin \/ StopClose)
FairSpec == Spec /\ ServerFairness

-----------------------------------------------------------------------------
(* Properties. *)

ThreadPlaces == {"none", "outer", "select", "greet", "check", "poll", "lines",
                 "hangup", "closing", "done"}
Serving == {"greet", "check", "poll", "lines", "hangup", "closing"}

Piece == [line: Line, end: BOOLEAN]

\* Every variable keeps its type, and the kernel's queues keep their limits.
TypeOK ==
    /\ running \in BOOLEAN /\ hasClient \in BOOLEAN /\ listening \in BOOLEAN
    /\ queue \in Seq(Line) /\ drained \in Seq(Line)
    /\ wake \in {"closed", "quiet", "signalled"}
    /\ owner \in {"idle", "wake", "join", "close"}
    /\ at \in ThreadPlaces
    /\ client \in Conns \union {None}
    /\ lineBuf \in Seq(Piece)
    /\ backlog \in Seq(Conns) /\ Len(backlog) <= Backlog
    /\ wire \in [Conns -> Seq(Piece)]
    /\ \A c \in Conns: Len(wire[c]) <= Capacity
    /\ near \in [Conns -> {"new", "open", "closed"}]
    /\ far \in [Conns -> {"new", "queued", "served", "closed"}]
    /\ written \in [Conns -> Seq(Line)]
    /\ cut \in SUBSET Conns
    /\ starts \in 0..MaxStarts /\ faults \in 0..MaxFaults

Received == drained \o queue
From(c) == Kept(Received, {l \in Line: l.conn = c})
GoodLines(c) == Kept(written[c], {l \in Line: Good(l)})

\* The owner sees, of every connection, a prefix of the valid lines written on
\* it: none twice, none out of order, none glued together from two clients,
\* whatever recv() splits and whoever dies inside a line.
FeedIsPrefix == \A c \in Conns: IsPrefix(From(c), GoodLines(c))

\* A client that wrote its lines and closed loses none of them: the server
\* hangs up on it only at the end of its stream, unless Stop or a failing
\* call cut the connection.
ClosedMeansReadToTheEnd ==
    \A c \in Conns:
        far[c] = "closed" /\ c \notin cut => From(c) = GoodLines(c)

\* has_client_ is up exactly while a client is being read, and Stop returns
\* with no thread, no client, no listener and nobody left in the queue -- also
\* when the thread had already left because a call failed.
StopLeavesNothing ==
    /\ hasClient <=> at \in {"check", "poll", "lines", "hangup"}
    /\ (client # None) <=> at \in Serving
    /\ owner = "idle" /\ ~running =>
           /\ at = "none" /\ ~hasClient /\ ~listening /\ wake = "closed"
           /\ \A c \in Conns: far[c] \in {"new", "closed"}

\* Stop returns: the byte in the pipe ends a select() that has no timeout.
StopReturns == (owner # "idle") ~> (owner = "idle")

\* While its client is served, a valid line that was written reaches the
\* queue without waiting for the next one, unless the connection is cut.
LinesArrive ==
    \A c \in Conns: \A n \in 1..MaxLines:
        (far[c] = "served" /\ Len(GoodLines(c)) >= n)
            ~> (Len(From(c)) >= n \/ c \in cut)

\* What the viewers rely on: samples are queued only while their client holds
\* has_client_ up, one client at a time, and none after it was let go --
\* through every split line, failing call, stop and restart.
Abstract == INSTANCE Feed WITH
    Clients <- Conns,
    serving <- IF hasClient THEN client ELSE None,
    queue   <- [i \in DOMAIN queue |-> queue[i].conn],
    gone    <- {c \in Conns: far[c] = "closed" \/ (c = client /\ at = "closing")}
ImplementsFeed == Abstract!FeedSpec
=============================================================================
