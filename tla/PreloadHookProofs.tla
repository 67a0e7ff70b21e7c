-------------------------- MODULE PreloadHookProofs --------------------------
(***************************************************************************)
(* Theorems about PreloadHook, for any number of presenting threads: the   *)
(* hook with the server of IpcServer, so that the whole live feed          *)
(* implements Feed.                                                        *)
(***************************************************************************)
EXTENDS PreloadHook, IpcServerProofs

-----------------------------------------------------------------------------
(* The invariant *)

\* The thread that holds g_mutex after its write, or after it skipped it.
Storing == \E t \in Threads: pc[t] = "store"

\* Once a thread is past the clock, its stamp is one of the clock's; it writes
\* only after some frame was recorded.
StampInv ==
    /\ \A t \in Threads: pc[t] \in {"lock"} \union Locked => now[t] > 0
    /\ \A t \in Threads: pc[t] = "write" => lastTs > 0

FdOpen == ipcFd # None /\ near[ipcFd] = "open"

\* The last line written is stamped as the last frame recorded, or as the one
\* about to be, for as long as another can be written.
LastLineInv ==
    FdOpen /\ written[ipcFd] # <<>> =>
        /\ lastTs > 0
        /\ ~Storing => written[ipcFd][Len(written[ipcFd])].ts = lastTs
        /\ \A t \in Threads:
               pc[t] = "store" => written[ipcFd][Len(written[ipcFd])].ts = now[t]

\* Before it is loaded the hook has no descriptor, and nothing is written to a
\* connection that is not open yet.
NewInv ==
    /\ game = "new" => ipcFd = None /\ fini = "no" /\ \A t \in Threads: pc[t] = "idle"
    /\ \A c \in Conns: near[c] = "new" => written[c] = <<>>

\* What is about to be forgotten is closed.
ForgetInv == fini = "clear" \/ (\E t \in Threads: pc[t] = "forget") => ~FdOpen

HookInv ==
    /\ HookTypeOK /\ StampInv /\ LastLineInv /\ NewInv /\ ForgetInv
    /\ NoStaleDescriptor /\ GapsTelescope

LiveInv == IInv /\ HookInv

LEMMA InitHook == LiveInit => LiveInv
<1> SUFFICES ASSUME LiveInit PROVE LiveInv OBVIOUS
<1>1. IInv BY InitInv DEF LiveInit, Init
<1>2. HookTypeOK
  <2>1. 0 \in 0..MaxClock /\ 1 \in 1..MaxClock /\ 0 \in 0..MaxPresents BY HookAssumption
  <2>2. pc \in [Threads -> Places] BY DEF LiveInit, HookInit, Places
  <2>3. now \in [Threads -> 0..MaxClock] BY <2>1 DEF LiveInit, HookInit
  <2>4. \A t \in Threads: pc[t] = "idle" BY DEF LiveInit, HookInit
  <2> QED BY <2>1, <2>2, <2>3, <2>4 DEF LiveInit, HookInit, HookTypeOK, Locked
<1>3. \A c \in Conns: near[c] = "new" /\ written[c] = <<>> /\ Len(written[c]) = 0
  BY EmptySeq DEF LiveInit, ServerInit
<1>4. NoStaleDescriptor /\ GapsTelescope
  BY <1>3, ServerAssumption
  DEF LiveInit, HookInit, NoStaleDescriptor, FdClosed, GapsTelescope
<1>5. \A t \in Threads: pc[t] = "idle" BY DEF LiveInit, HookInit
<1>6. StampInv /\ NewInv BY <1>3, <1>5 DEF LiveInit, HookInit, StampInv, NewInv, Locked
<1>7. LastLineInv /\ ForgetInv
  BY <1>3 DEF LiveInit, HookInit, LastLineInv, ForgetInv, FdOpen
<1> QED BY <1>1, <1>2, <1>4, <1>6, <1>7 DEF LiveInv, HookInv

-----------------------------------------------------------------------------
(* What a step is to the server *)

\* The hook is a client as the server knows them.
HookAsClient ==
    \/ \E c \in Conns: Connect(c) \/ CloseNear(c)
    \/ \E c \in Conns: \E l \in Line: l.conn = c /\ SendLine(c, l)
    \/ UNCHANGED serverVars

LEMMA MeasuredLine ==
    ASSUME HookTypeOK, NEW t \in Threads, ipcFd # None
    PROVE  /\ ipcFd \in Conns
           /\ Measured(t) \in Line /\ Measured(t).conn = ipcFd
           /\ Measured(t).ts = now[t] /\ Measured(t).ft = now[t] - lastTs
<1>1. now[t] \in Nat /\ lastTs \in Nat /\ ipcFd \in Conns
  BY HookAssumption DEF HookTypeOK
<1> QED BY <1>1 DEF Measured, Line

\* A close: what it leaves, and what it may have hit.
LEMMA CloseFdDoes ==
    ASSUME LiveInv, CloseFd
    PROVE  /\ HookAsClient /\ UNCHANGED written
           /\ \A c \in Conns: near'[c] # near[c] => c = ipcFd /\ near[c] = "open"
           /\ \A c \in Conns: near'[c] = "new" <=> near[c] = "new"
           /\ ipcFd # None => near'[ipcFd] # "open"
           /\ misused' \in BOOLEAN /\ (misused' => misused \/ FdClosed)
<1> USE DEF LiveInv, HookInv
<1>1. /\ ipcFd # None => ipcFd \in Conns
      /\ misused \in BOOLEAN
  BY DEF HookTypeOK
<1>2. CASE ipcFd # None /\ CloseNear(ipcFd) /\ UNCHANGED misused
  <2>1. /\ UNCHANGED written /\ near[ipcFd] = "open"
        /\ \A c \in Conns: near'[c] = IF c = ipcFd THEN "closed" ELSE near[c]
    BY <1>1, <1>2 DEF CloseNear, IInv, TypeOK
  <2> QED BY <1>1, <1>2, <2>1 DEF HookAsClient
<1>3. CASE FdClosed /\ misused' = TRUE /\ UNCHANGED serverVars
  <2>1. UNCHANGED <<near, written>> BY <1>3 DEF serverVars, kernelVars
  <2> QED BY <1>1, <1>3, <2>1 DEF HookAsClient, FdClosed
<1>4. CASE ipcFd = None /\ UNCHANGED <<serverVars, misused>>
  <2>1. UNCHANGED <<near, written>> BY <1>4 DEF serverVars, kernelVars
  <2> QED BY <1>1, <1>4, <2>1 DEF HookAsClient
<1> QED BY <1>2, <1>3, <1>4 DEF CloseFd

LEMMA ServerSees ==
    ASSUME LiveInv, LiveNext PROVE ServerNext \/ HookAsClient
<1> USE DEF LiveInv, HookInv
<1>1. ipcFd # None => ipcFd \in Conns BY DEF HookTypeOK
<1>2. ASSUME NEW c \in Conns, PreloadInit(c) \/ OtherGame(c) PROVE HookAsClient
  BY <1>2 DEF PreloadInit, OtherGame, HookAsClient, serverVars
<1>3. CASE Tick \/ PreloadFini \/ GameEnds
  BY <1>1, <1>3, CloseFdDoes
  DEF Tick, PreloadFini, FiniTest, FiniClose, FiniClear, GameEnds, HookAsClient
<1>4. ASSUME NEW t \in Threads, Present(t) \/ PresentStep(t) PROVE HookAsClient
  <2>1. CASE WriteLine(t) BY <2>1, MeasuredLine DEF WriteLine, HookAsClient
  <2>2. CASE WriteKilled(t) BY <1>1, <2>2 DEF WriteKilled, HookAsClient
  <2>3. CASE CloseBroken(t) BY <2>3, CloseFdDoes DEF CloseBroken
  <2>4. CASE Present(t) \/ Lock(t) \/ WriteFails(t) \/ WriteElsewhere(t) \/ ForgetFd(t) \/ Store(t)
    BY <2>4 DEF Present, Lock, WriteFails, WriteElsewhere, ForgetFd, Store, HookAsClient
  <2> QED BY <1>4, <2>1, <2>2, <2>3, <2>4 DEF PresentStep
<1> QED BY <1>2, <1>3, <1>4 DEF LiveNext

LEMMA LiveServerKeeps == ASSUME LiveInv, [LiveNext]_vars PROVE IInv'
<1>1. ServerNext => IInv' BY OwnerKeeps, ThreadKeeps DEF ServerNext, LiveInv
<1>2. HookAsClient => IInv'
  BY ConnectKeeps, CloseNearKeeps, SendKeeps, StutterKeeps DEF HookAsClient, LiveInv
<1>3. UNCHANGED vars => UNCHANGED serverVars BY DEF vars
<1> QED BY <1>1, <1>2, <1>3, ServerSees, StutterKeeps DEF LiveInv

-----------------------------------------------------------------------------
(* The hook's own steps *)

\* Steps that leave lines, descriptor and stamps as they are.
LEMMA ServerStepKeeps == ASSUME LiveInv, ServerNext PROVE HookInv'
<1>1. UNCHANGED <<near, written>>
  BY DEF ServerNext, OwnerNext, Start, DrainSamples, Stop, StopWake, StopJoin, StopClose,
     ThreadNext, OuterCheck, WokenOutside, Accept, AcceptFails, Greet, InnerCheck,
     WokenInside, PollTimeout, Recv, RecvEof, RecvFails, TakeLine, LinesTaken, Hangup,
     CloseClient, Goto, kernelVars
<1>2. UNCHANGED hookVars BY DEF ServerNext
<1> QED BY <1>1, <1>2
        DEF LiveInv, HookInv, HookTypeOK, StampInv, LastLineInv, Storing, NewInv, ForgetInv, FdOpen,
            NoStaleDescriptor, FdClosed, GapsTelescope, hookVars, fdVars

LEMMA InitStepKeeps == ASSUME LiveInv, NEW c \in Conns, PreloadInit(c) PROVE HookInv'
<1> USE DEF LiveInv, HookInv, PreloadInit
<1>1. /\ ipcFd = None /\ \A d \in Conns \ OtherConns: near[d] # "open"
      /\ \A t \in Threads: pc'[t] = "idle"
      /\ c \in Conns \ OtherConns
  BY ServerAssumption DEF NewInv, NoStaleDescriptor
<1>2. CASE Connect(c) /\ ipcFd' = c
  <2>1. /\ \A d \in Conns: near'[d] = IF d = c THEN "open" ELSE near[d]
        /\ near[c] = "new" /\ written[c] = <<>> /\ UNCHANGED written
    BY <1>2 DEF Connect, NewInv, IInv, TypeOK
  <2>2. c # None BY ServerAssumption
  <2>3. HookTypeOK' /\ StampInv' BY <1>1, <1>2 DEF HookTypeOK, StampInv
  <2>4. LastLineInv' BY <1>2, <2>1 DEF LastLineInv
  <2>5. NewInv' BY <2>1 DEF NewInv
  <2>6. ~FdClosed' BY <1>2, <2>1 DEF FdClosed
  <2>7. ~FdClosed BY <1>1 DEF FdClosed
  <2>8. NoStaleDescriptor' BY <1>1, <1>2, <2>1, <2>6 DEF NoStaleDescriptor
  <2>9. GapsTelescope' BY <2>1 DEF GapsTelescope
  <2>10. ForgetInv'
    <3>1. fini' # "clear" BY DEF NewInv
    <3> QED BY <1>1, <3>1 DEF ForgetInv
  <2> QED BY <2>3, <2>4, <2>5, <2>8, <2>9, <2>10
<1>3. CASE UNCHANGED <<serverVars, ipcFd>>
  <2>1. UNCHANGED <<near, written, ipcFd>> BY <1>3 DEF serverVars, kernelVars
  <2> QED BY <1>1, <2>1
          DEF HookTypeOK, StampInv, LastLineInv, Storing, NewInv, ForgetInv, FdOpen,
              NoStaleDescriptor, FdClosed, GapsTelescope
<1> QED BY <1>2, <1>3

LEMMA OtherGameKeeps == ASSUME LiveInv, NEW c \in Conns, OtherGame(c) PROVE HookInv'
<1> USE DEF LiveInv, HookInv, OtherGame
<1>1. UNCHANGED hookVars /\ UNCHANGED written BY DEF Connect, CloseNear
<1>2. UNCHANGED <<game, fini, killed, clock, ipcFd, misused, lastTs, frameIndex, mutex, pc, now>>
  BY <1>1 DEF hookVars, fdVars
<1>3. /\ \A d \in Conns: d # c => near'[d] = near[d]
      /\ near'[c] # "new"
  BY DEF Connect, CloseNear, IInv, TypeOK
<1>4. ipcFd # None => near'[ipcFd] = near[ipcFd] BY <1>3 DEF HookTypeOK
<1>5. HookTypeOK' /\ StampInv' BY <1>2 DEF HookTypeOK, StampInv
<1>6. FdOpen' = FdOpen /\ FdClosed' = FdClosed BY <1>2, <1>4 DEF FdOpen, FdClosed
<1>7. LastLineInv' /\ ForgetInv' BY <1>1, <1>2, <1>6 DEF LastLineInv, ForgetInv, Storing
<1>8. NewInv' BY <1>1, <1>2, <1>3 DEF NewInv
<1>9. NoStaleDescriptor' BY <1>2, <1>3, <1>6 DEF NoStaleDescriptor
<1> QED BY <1>1, <1>5, <1>7, <1>8, <1>9 DEF GapsTelescope

LEMMA TickKeeps == ASSUME LiveInv, Tick PROVE HookInv'
<1>1. UNCHANGED <<near, written>> BY DEF Tick, serverVars, kernelVars
<1>2. clock' \in 1..MaxClock
  BY HookAssumption DEF Tick, LiveInv, HookInv, HookTypeOK
<1> QED BY <1>1, <1>2
        DEF Tick, LiveInv, HookInv, HookTypeOK, StampInv, LastLineInv, Storing, NewInv, ForgetInv,
            FdOpen, NoStaleDescriptor, FdClosed, GapsTelescope, fdVars

-----------------------------------------------------------------------------
(* A present *)

\* A step of a thread from one place to another, and what follows for the
\* threads beside it.
LEMMA MoveDoes ==
    ASSUME HookTypeOK, NEW t \in Threads, NEW from, NEW to \in Places, Move(t, from, to)
    PROVE  /\ pc' \in [Threads -> Places] /\ pc[t] = from /\ pc'[t] = to
           /\ \A s \in Threads: s # t => pc'[s] = pc[s]
           /\ from \in Locked => mutex = t /\ \A s \in Threads: s # t => pc[s] \notin Locked
           /\ game = "running" /\ UNCHANGED <<game, fini, killed, clock>>
BY DEF Move, HookTypeOK

\* A present begins: a step from "idle" to "lock".
LEMMA BeginKeeps == ASSUME LiveInv, NEW t \in Threads, Present(t) PROVE HookInv'
<1> USE DEF LiveInv, HookInv, Present
<1>1. UNCHANGED <<near, written, ipcFd, misused, lastTs, mutex, game, fini, clock, killed>>
  BY DEF serverVars, kernelVars, fdVars, Move
<1>2. /\ pc' \in [Threads -> Places] /\ pc[t] = "idle" /\ pc'[t] = "lock"
      /\ \A s \in Threads: s # t => pc'[s] = pc[s]
  BY MoveDoes DEF Places
<1>3. /\ now' \in [Threads -> 0..MaxClock] /\ now'[t] > 0
      /\ \A s \in Threads: s # t => now'[s] = now[s]
  BY HookAssumption DEF HookTypeOK
<1>4. frameIndex' \in 0..MaxPresents BY HookAssumption DEF HookTypeOK
<1>5. HookTypeOK' BY <1>1, <1>2, <1>3, <1>4 DEF HookTypeOK, Locked
<1>6. StampInv' BY <1>1, <1>2, <1>3 DEF StampInv
<1>7. LastLineInv' /\ ForgetInv'
  BY <1>1, <1>2, <1>3 DEF LastLineInv, Storing, ForgetInv, FdOpen
<1>8. NewInv' BY <1>1 DEF NewInv, Move
<1>9. NoStaleDescriptor' /\ GapsTelescope'
  BY <1>1, <1>2 DEF NoStaleDescriptor, FdClosed, GapsTelescope
<1> QED BY <1>5, <1>6, <1>7, <1>8, <1>9

\* With the mutex taken nobody else writes or stores.  The write is skipped
\* without a descriptor, or before the first frame recorded.
LEMMA LockKeeps == ASSUME LiveInv, NEW t \in Threads, Lock(t) PROVE HookInv'
<1> USE DEF LiveInv, HookInv, Lock
<1>1. UNCHANGED <<near, written, ipcFd, misused, lastTs, now, game, fini, clock, killed, frameIndex>>
  BY DEF serverVars, kernelVars, fdVars, Move
<1> DEFINE to == IF ipcFd # None /\ lastTs > 0 THEN "write" ELSE "store"
<1>2. /\ pc' \in [Threads -> Places] /\ pc[t] = "lock" /\ pc'[t] = to
      /\ \A s \in Threads: s # t => pc'[s] = pc[s]
  <2>1. to \in Places BY DEF Places, Locked
  <2> QED BY <2>1, MoveDoes
<1>3. \A s \in Threads: pc[s] \notin Locked BY HookAssumption DEF HookTypeOK
<1>4. HookTypeOK' BY <1>1, <1>2, <1>3 DEF HookTypeOK
<1>5. StampInv' BY <1>1, <1>2 DEF StampInv, Locked
<1>6. LastLineInv'
  <2> SUFFICES ASSUME FdOpen, written[ipcFd] # <<>>
               PROVE  /\ lastTs > 0 /\ written[ipcFd][Len(written[ipcFd])].ts = lastTs
                      /\ \A s \in Threads: pc'[s] # "store"
    BY <1>1 DEF LastLineInv, FdOpen
  <2>1. lastTs > 0 /\ ~Storing BY <1>3 DEF LastLineInv, Storing, Locked
  <2>2. pc'[t] = "write" BY <1>2, <2>1 DEF FdOpen
  <2> QED BY <1>2, <1>3, <2>1, <2>2 DEF LastLineInv, Locked
<1>7. NewInv' BY <1>1 DEF NewInv, Move
<1>8. \A s \in Threads: pc[s] # "forget" /\ pc'[s] # "forget" BY <1>2, <1>3 DEF Locked
<1>9. ForgetInv' /\ NoStaleDescriptor' /\ GapsTelescope'
  BY <1>1, <1>8 DEF ForgetInv, FdOpen, NoStaleDescriptor, FdClosed, GapsTelescope
<1> QED BY <1>4, <1>5, <1>6, <1>7, <1>9

\* The line written is measured from the last one.
LEMMA WriteLineKeeps == ASSUME LiveInv, NEW t \in Threads, WriteLine(t) PROVE HookInv'
<1> USE DEF LiveInv, HookInv, WriteLine
<1> DEFINE fd == ipcFd
           n  == Len(written[fd])
<1>1. /\ fd \in Conns /\ Measured(t) \in Line
      /\ Measured(t).ts = now[t] /\ Measured(t).ft = now[t] - lastTs
  BY MeasuredLine
<1>2. UNCHANGED <<near, ipcFd, misused, lastTs, mutex, now, game, fini, clock, killed, frameIndex>>
      /\ near[fd] = "open" /\ written' = [written EXCEPT ![fd] = Append(@, Measured(t))]
  BY DEF SendLine, Move, fdVars
<1>3. /\ pc' \in [Threads -> Places] /\ pc[t] = "write" /\ pc'[t] = "store" /\ mutex = t
      /\ \A s \in Threads: s # t => pc'[s] = pc[s] /\ pc[s] \notin Locked
  BY MoveDoes DEF Places, Locked
<1>4. /\ \A c \in Conns: written'[c] = IF c = fd THEN Append(written[fd], Measured(t))
                                                ELSE written[c]
      /\ written[fd] \in Seq(Line)
  BY <1>1, <1>2 DEF IInv, TypeOK
<1>5. /\ n \in Nat /\ Len(written'[fd]) = n + 1
      /\ \A i \in 1..n: written'[fd][i] = written[fd][i]
      /\ written'[fd][n + 1] = Measured(t)
  <2>1. written'[fd] = Append(written[fd], Measured(t)) BY <1>1, <1>4
  <2> HIDE DEF WriteLine, fd
  <2> QED BY <1>1, <1>4, <2>1, AppendProperties, LenProperties DEF n
<1>6. HookTypeOK' BY <1>2, <1>3 DEF HookTypeOK
<1>7. StampInv' BY <1>2, <1>3 DEF StampInv, Locked
<1>8. LastLineInv'
  <2>1. lastTs > 0 BY <1>3 DEF StampInv
  <2>2. Storing' BY <1>3 DEF Storing
  <2>3. written'[fd][Len(written'[fd])].ts = now[t] BY <1>1, <1>5
  <2>4. \A s \in Threads: pc'[s] = "store" => s = t BY <1>3 DEF Locked
  <2> QED BY <1>2, <2>1, <2>2, <2>3, <2>4 DEF LastLineInv
<1>9. NewInv' BY <1>2, <1>4 DEF NewInv, Move
<1>10. GapsTelescope'
  <2> SUFFICES ASSUME NEW c \in Conns, NEW i \in 1..Len(written'[c]) - 1
               PROVE  written'[c][i + 1].ft = written'[c][i + 1].ts - written'[c][i].ts
    BY DEF GapsTelescope
  <2>1. CASE c # fd BY <1>4, <2>1 DEF GapsTelescope
  <2>2. CASE c = fd /\ i # n
    <3>1. i \in 1..(n - 1) /\ i \in 1..n /\ i + 1 \in 1..n BY <1>5, <2>2
    <3> HIDE DEF WriteLine, n
    <3>2. written'[c][i] = written[c][i] BY <1>5, <2>2, <3>1
    <3>3. written'[c][i + 1] = written[c][i + 1] BY <1>5, <2>2, <3>1
    <3> QED BY <2>2, <3>1, <3>2, <3>3 DEF GapsTelescope, n
  <2>3. CASE c = fd /\ i = n
    <3>1. n > 0 /\ written[fd] # <<>> BY <1>4, <1>5, <2>3, EmptySeq
    <3>2. ~Storing BY <1>3 DEF Storing, Locked
    <3>3. written[fd][n].ts = lastTs BY <1>2, <3>1, <3>2 DEF LastLineInv, FdOpen
    <3> QED BY <1>1, <1>5, <2>3, <3>1, <3>3
  <2> QED BY <2>1, <2>2, <2>3
<1>11. ~FdClosed /\ ~FdClosed' BY <1>2 DEF FdClosed
<1>12. NoStaleDescriptor' BY <1>2, <1>11 DEF NoStaleDescriptor
<1>13. ForgetInv'
  <2>1. fini # "clear" /\ \A s \in Threads: pc[s] # "forget"
    BY <1>2 DEF ForgetInv, FdOpen
  <2> QED BY <1>2, <1>3, <2>1 DEF ForgetInv
<1> QED BY <1>6, <1>7, <1>8, <1>9, <1>10, <1>12, <1>13

\* A write to no connection: it fails, or it goes to another file, which only
\* the destructor makes possible.
LEMMA WriteAstrayKeeps ==
    ASSUME LiveInv, NEW t \in Threads, WriteFails(t) \/ WriteElsewhere(t) PROVE HookInv'
<1> USE DEF LiveInv, HookInv
<1>1. UNCHANGED <<near, written, ipcFd, lastTs, mutex, now, game, fini, clock, killed, frameIndex>>
  BY DEF WriteFails, WriteElsewhere, Move, serverVars, kernelVars
<1>2. /\ pc' \in [Threads -> Places] /\ pc[t] = "write" /\ mutex = t
      /\ pc'[t] \in {"close", "store"} /\ (pc'[t] = "store" => FdClosed)
      /\ \A s \in Threads: s # t => pc'[s] = pc[s] /\ pc[s] \notin Locked
  BY MoveDoes DEF WriteFails, WriteElsewhere, Places, Locked
<1>3. misused' \in BOOLEAN /\ (misused' => misused \/ FdClosed)
  BY DEF WriteFails, WriteElsewhere, HookTypeOK
<1>4. \A s \in Threads: pc[s] # "forget" /\ pc'[s] # "forget" BY <1>2 DEF Locked
<1>5. FdClosed => fini = "clear" BY <1>4 DEF NoStaleDescriptor
<1>6. FdClosed' = FdClosed /\ FdOpen' = FdOpen BY <1>1 DEF FdClosed, FdOpen
<1>7. HookTypeOK' BY <1>1, <1>2, <1>3 DEF HookTypeOK, Locked
<1>8. StampInv' BY <1>1, <1>2 DEF StampInv, Locked
<1>9. LastLineInv'
  <2> SUFFICES ASSUME FdOpen PROVE LastLineInv' BY <1>6 DEF LastLineInv
  <2>1. pc'[t] = "close" BY <1>2 DEF FdOpen, FdClosed
  <2> QED BY <1>1, <1>2, <2>1 DEF LastLineInv, Storing, Locked
<1>10. NewInv' /\ GapsTelescope' BY <1>1, <1>2 DEF NewInv, GapsTelescope
<1>11. ForgetInv' BY <1>1, <1>4, <1>6 DEF ForgetInv
<1>12. NoStaleDescriptor' BY <1>1, <1>3, <1>5, <1>6 DEF NoStaleDescriptor
<1> QED BY <1>7, <1>8, <1>9, <1>10, <1>11, <1>12

\* The stamp stored is the last line's.
LEMMA StoreKeeps == ASSUME LiveInv, NEW t \in Threads, Store(t) PROVE HookInv'
<1> USE DEF LiveInv, HookInv, Store
<1>1. UNCHANGED <<near, written, ipcFd, misused, game, fini, clock, killed, frameIndex>>
  BY DEF Move, serverVars, kernelVars, fdVars
<1>2. /\ pc' \in [Threads -> Places] /\ pc[t] = "store" /\ pc'[t] = "idle"
      /\ lastTs' = now[t] /\ mutex' = None
      /\ \A s \in Threads: s # t => pc'[s] = pc[s] /\ pc[s] \notin Locked
  BY MoveDoes DEF Places, Locked
<1>3. now[t] > 0 /\ now[t] \in 0..MaxClock BY <1>2 DEF StampInv, HookTypeOK, Locked
<1>4. /\ now' \in [Threads -> 0..MaxClock]
      /\ \A s \in Threads: s # t => now'[s] = now[s]
  BY HookAssumption DEF HookTypeOK
<1>5. \A s \in Threads: pc'[s] \notin Locked BY <1>2 DEF Locked
<1>6. HookTypeOK' BY <1>1, <1>2, <1>3, <1>4, <1>5 DEF HookTypeOK
<1>7. StampInv' BY <1>2, <1>4, <1>5 DEF StampInv, Locked
<1>8. LastLineInv' BY <1>1, <1>2, <1>3, <1>5 DEF LastLineInv, FdOpen, Locked
<1>9. NewInv' /\ GapsTelescope' BY <1>1 DEF NewInv, GapsTelescope, Move
<1>10. \A s \in Threads: pc[s] # "forget" /\ pc'[s] # "forget" BY <1>2 DEF Locked
<1>11. ForgetInv' /\ NoStaleDescriptor'
  BY <1>1, <1>10 DEF ForgetInv, FdOpen, NoStaleDescriptor, FdClosed
<1> QED BY <1>6, <1>7, <1>8, <1>9, <1>11

-----------------------------------------------------------------------------
(* The descriptor closed and forgotten *)

\* Under g_mutex or in the destructor, what is closed is about to be forgotten.
LEMMA ShutKeeps ==
    ASSUME LiveInv, FiniClose \/ \E t \in Threads: CloseBroken(t) PROVE HookInv'
<1> USE DEF LiveInv, HookInv
<1>1. /\ CloseFd
      /\ UNCHANGED <<ipcFd, lastTs, mutex, now, game, clock, killed, frameIndex>>
  BY DEF FiniClose, Fini, CloseBroken, Move
<1>2. /\ UNCHANGED written
      /\ \A c \in Conns: near'[c] # near[c] => c = ipcFd /\ near[c] = "open"
      /\ \A c \in Conns: near'[c] = "new" <=> near[c] = "new"
      /\ ipcFd # None => near'[ipcFd] # "open"
      /\ misused' \in BOOLEAN /\ (misused' => misused \/ FdClosed)
  BY <1>1, CloseFdDoes
<1>3. ~FdOpen' BY <1>1, <1>2 DEF FdOpen
<1>4. LastLineInv' /\ NewInv' /\ ForgetInv' /\ GapsTelescope'
  <2>1. LastLineInv' /\ ForgetInv' BY <1>3 DEF LastLineInv, ForgetInv
  <2>2. game # "new" BY DEF FiniClose, Fini, CloseBroken, Move
  <2> QED BY <1>1, <1>2, <2>1, <2>2 DEF NewInv, GapsTelescope
<1>5. \A c \in Conns \ OtherConns: near'[c] = "open" => ipcFd' = c
  BY <1>1, <1>2 DEF NoStaleDescriptor
<1>6. CASE FiniClose
  <2>1. fini = "close" /\ fini' = "clear" /\ pc' = pc BY <1>6 DEF FiniClose, Fini
  <2>2. HookTypeOK' /\ StampInv' BY <1>1, <1>2, <2>1 DEF HookTypeOK, StampInv
  <2> QED BY <1>4, <1>5, <2>1, <2>2 DEF NoStaleDescriptor
<1>7. ASSUME NEW t \in Threads, CloseBroken(t) PROVE HookInv'
  <2>1. /\ pc' \in [Threads -> Places] /\ pc[t] = "close" /\ pc'[t] = "forget" /\ mutex = t
        /\ \A s \in Threads: s # t => pc'[s] = pc[s] /\ pc[s] \notin Locked
        /\ fini' = fini
    BY <1>7, MoveDoes DEF CloseBroken, Places, Locked
  <2>2. HookTypeOK' BY <1>1, <1>2, <2>1 DEF HookTypeOK
  <2>3. StampInv' BY <1>1, <2>1 DEF StampInv, Locked
  <2>4. \A s \in Threads: pc[s] # "forget" BY <2>1 DEF Locked
  <2>5. misused' => fini # "no" BY <1>2, <2>4 DEF NoStaleDescriptor
  <2> QED BY <1>4, <1>5, <2>1, <2>2, <2>3, <2>5 DEF NoStaleDescriptor
<1> QED BY <1>6, <1>7

\* What is forgotten is closed, or is nothing.
LEMMA ForgetKeeps ==
    ASSUME LiveInv, FiniTest \/ FiniClear \/ \E t \in Threads: ForgetFd(t) PROVE HookInv'
<1> USE DEF LiveInv, HookInv
<1>1. UNCHANGED <<near, written, misused, lastTs, mutex, now, game, clock, killed, frameIndex>>
  BY DEF FiniTest, FiniClear, Fini, ForgetFd, Move, serverVars, kernelVars, fdVars
<1>2. game = "running" BY DEF FiniTest, FiniClear, Fini, ForgetFd, Move
<1>3. NewInv' /\ GapsTelescope' BY <1>1, <1>2 DEF NewInv, GapsTelescope
<1>4. CASE FiniTest
  <2>1. fini = "no" /\ fini' \in {"close", "done"} /\ pc' = pc /\ ipcFd' = ipcFd
    BY <1>4 DEF FiniTest, Fini, fdVars
  <2>2. HookTypeOK' /\ StampInv' BY <1>1, <2>1 DEF HookTypeOK, StampInv
  <2>3. FdOpen' = FdOpen /\ FdClosed' = FdClosed BY <1>1, <2>1 DEF FdOpen, FdClosed
  <2>4. LastLineInv' /\ ForgetInv' BY <1>1, <2>1, <2>3 DEF LastLineInv, ForgetInv, Storing
  <2>5. NoStaleDescriptor' BY <1>1, <2>1, <2>3 DEF NoStaleDescriptor
  <2> QED BY <1>3, <2>2, <2>4, <2>5
<1>5. ASSUME ipcFd' = None, ~FdOpen, misused => fini' # "no"
      PROVE  LastLineInv' /\ ForgetInv' /\ NoStaleDescriptor'
  <2>1. ~FdOpen' /\ ~FdClosed' BY <1>5 DEF FdOpen, FdClosed
  <2>2. \A c \in Conns \ OtherConns: near[c] # "open"
    BY <1>5, ServerAssumption DEF NoStaleDescriptor, FdOpen
  <2> QED BY <1>1, <1>5, <2>1, <2>2 DEF LastLineInv, ForgetInv, NoStaleDescriptor
<1>6. CASE FiniClear
  <2>1. fini = "clear" /\ fini' = "done" /\ pc' = pc /\ ipcFd' = None
    BY <1>6 DEF FiniClear, Fini
  <2>2. HookTypeOK' /\ StampInv' BY <1>1, <2>1 DEF HookTypeOK, StampInv
  <2> QED BY <1>3, <1>5, <2>1, <2>2 DEF ForgetInv
<1>7. ASSUME NEW t \in Threads, ForgetFd(t) PROVE HookInv'
  <2>1. /\ pc' \in [Threads -> Places] /\ pc[t] = "forget" /\ pc'[t] = "store" /\ mutex = t
        /\ \A s \in Threads: s # t => pc'[s] = pc[s] /\ pc[s] \notin Locked
        /\ fini' = fini /\ ipcFd' = None
    BY <1>7, MoveDoes DEF ForgetFd, Places, Locked
  <2>2. HookTypeOK' BY <1>1, <2>1 DEF HookTypeOK
  <2>3. StampInv' BY <1>1, <2>1 DEF StampInv, Locked
  <2>4. ~FdOpen /\ (misused => fini' # "no") BY <2>1 DEF ForgetInv, NoStaleDescriptor
  <2> QED BY <1>3, <1>5, <2>1, <2>2, <2>3, <2>4
<1> QED BY <1>4, <1>6, <1>7

\* The end of the game, and a signal.
LEMMA EndKeeps ==
    ASSUME LiveInv, GameEnds \/ \E t \in Threads: WriteKilled(t) PROVE HookInv'
<1> USE DEF LiveInv, HookInv
<1>1. /\ Dead /\ killed' \in BOOLEAN
      /\ UNCHANGED <<fini, misused, clock, lastTs, frameIndex>>
      /\ (ipcFd # None /\ CloseNear(ipcFd)) \/ ((ipcFd = None \/ FdClosed) /\ UNCHANGED serverVars)
  <2>1. killed \in BOOLEAN BY DEF HookTypeOK
  <2>2. CASE GameEnds BY <2>1, <2>2 DEF GameEnds
  <2>3. ASSUME NEW t \in Threads, WriteKilled(t)
        PROVE  /\ Dead /\ killed' = TRUE /\ ipcFd # None /\ CloseNear(ipcFd)
               /\ UNCHANGED <<fini, misused, clock, lastTs, frameIndex>>
    BY <2>3 DEF WriteKilled
  <2> QED BY <2>2, <2>3
<1>2. /\ UNCHANGED written
      /\ \A c \in Conns \ OtherConns: near'[c] # "open"
      /\ \A c \in Conns: near'[c] = "new" <=> near[c] = "new"
  <2>1. CASE ipcFd # None /\ CloseNear(ipcFd)
    <3>1. /\ UNCHANGED written /\ near[ipcFd] = "open"
          /\ \A c \in Conns: near'[c] = IF c = ipcFd THEN "closed" ELSE near[c]
      BY <2>1 DEF CloseNear, IInv, TypeOK
    <3> QED BY <2>1, <3>1 DEF NoStaleDescriptor
  <2>2. CASE (ipcFd = None \/ FdClosed) /\ UNCHANGED serverVars
    <3>1. UNCHANGED <<near, written>> BY <2>2 DEF serverVars, kernelVars
    <3> QED BY <2>2, <3>1, ServerAssumption DEF NoStaleDescriptor, FdClosed
  <2> QED BY <1>1, <2>1, <2>2
<1>3. /\ game' = "gone" /\ ipcFd' = None /\ mutex' = None
      /\ pc' \in [Threads -> Places] /\ now' \in [Threads -> 0..MaxClock]
      /\ \A t \in Threads: pc'[t] = "idle"
  BY <1>1, HookAssumption DEF Dead, Places
<1>4. HookTypeOK' /\ StampInv' BY <1>1, <1>3 DEF HookTypeOK, StampInv, Locked
<1>5. ~FdOpen' /\ ~FdClosed' BY <1>3 DEF FdOpen, FdClosed
<1>6. LastLineInv' /\ ForgetInv' BY <1>5 DEF LastLineInv, ForgetInv
<1>7. NewInv' /\ GapsTelescope' BY <1>2, <1>3 DEF NewInv, GapsTelescope
<1>8. NoStaleDescriptor' BY <1>1, <1>2, <1>5 DEF NoStaleDescriptor
<1> QED BY <1>4, <1>6, <1>7, <1>8

-----------------------------------------------------------------------------

LEMMA LiveInvariance == LiveSpec => []LiveInv
<1>1. LiveInv /\ UNCHANGED vars => HookInv'
  BY DEF LiveInv, HookInv, HookTypeOK, StampInv, LastLineInv, Storing, NewInv, ForgetInv, FdOpen,
     NoStaleDescriptor, FdClosed, GapsTelescope, vars, hookVars, fdVars, serverVars, kernelVars
<1>2. ASSUME LiveInv, [LiveNext]_vars PROVE HookInv'
  <2>1. ASSUME NEW c \in Conns, PreloadInit(c) \/ OtherGame(c) PROVE HookInv'
    BY <1>2, <2>1, InitStepKeeps, OtherGameKeeps
  <2>2. CASE PreloadFini BY <1>2, <2>2, ShutKeeps, ForgetKeeps DEF PreloadFini
  <2>3. CASE ServerNext \/ Tick \/ GameEnds
    BY <1>2, <2>3, ServerStepKeeps, TickKeeps, EndKeeps
  <2>4. ASSUME NEW t \in Threads, PresentStep(t) PROVE HookInv'
    <3>1. CASE CloseBroken(t) BY <1>2, <3>1, ShutKeeps
    <3>2. CASE ForgetFd(t) BY <1>2, <3>2, ForgetKeeps
    <3>3. CASE WriteKilled(t) BY <1>2, <3>3, EndKeeps
    <3>4. CASE WriteFails(t) \/ WriteElsewhere(t) BY <1>2, <3>4, WriteAstrayKeeps
    <3>5. CASE Lock(t) \/ WriteLine(t) \/ Store(t)
      BY <1>2, <3>5, LockKeeps, WriteLineKeeps, StoreKeeps
    <3> QED BY <2>4, <3>1, <3>2, <3>3, <3>4, <3>5 DEF PresentStep
  <2>5. ASSUME NEW t \in Threads, Present(t) PROVE HookInv'
    BY <1>2, <2>5, BeginKeeps
  <2> QED BY <1>1, <1>2, <2>1, <2>2, <2>3, <2>4, <2>5 DEF LiveNext
<1>3. LiveInv /\ [LiveNext]_vars => LiveInv'
  BY <1>2, LiveServerKeeps DEF LiveInv
<1> QED BY InitHook, <1>3, PTL DEF LiveSpec

\* In whatever order threads take their stamps and the lock, the frametimes
\* sent add up.
THEOREM FrametimesTelescope == LiveSpec => []GapsTelescope
<1>1. LiveInv => GapsTelescope BY DEF LiveInv, HookInv
<1> QED BY <1>1, LiveInvariance, PTL

\* An open connection of the hook is never lost, a closed one is forgotten
\* before g_mutex is given up or the destructor ends, and only once the
\* destructor runs can a closed descriptor be used.
THEOREM DescriptorIsOpen == LiveSpec => []NoStaleDescriptor
<1>1. LiveInv => NoStaleDescriptor BY DEF LiveInv, HookInv
<1> QED BY <1>1, LiveInvariance, PTL

\* The hook's state keeps its type, and whoever writes or stores has g_mutex.
THEOREM HookTypeCorrect == LiveSpec => []HookTypeOK
<1>1. LiveInv => HookTypeOK BY DEF LiveInv, HookInv
<1> QED BY <1>1, LiveInvariance, PTL

-----------------------------------------------------------------------------
(* The live feed implements Feed *)

LEMMA HookRefines == ASSUME IInv, HookAsClient PROVE Unseen
<1>1. UNCHANGED threadVars
  BY DEF HookAsClient, Connect, SendLine, CloseNear, serverVars
<1>2. \A c \in Conns: far'[c] = "closed" <=> far[c] = "closed"
  <2>1. CASE UNCHANGED far BY <2>1
  <2>2. ASSUME NEW c \in Conns, Connect(c)
        PROVE  \A d \in Conns: far'[d] = "closed" <=> far[d] = "closed"
    BY <2>2 DEF Connect, IInv, ConnInv, TypeOK
  <2> QED BY <2>1, <2>2 DEF HookAsClient, SendLine, CloseNear, serverVars, kernelVars
<1> QED BY <1>1, <1>2 DEF Unseen, ServingNow, Queued, Gone, threadVars

\* A viewer written against Feed is right about a game with the hook in it,
\* however the game ends.
THEOREM LiveFeedImplementsFeed == LiveSpec => ImplementsFeed
<1>1. LiveInit => Abstract!FeedInit
  BY DEF LiveInit, ServerInit, Abstract!FeedInit
<1>2. LiveInv /\ [LiveNext]_vars => [Abstract!FeedNext]_(Abstract!feedVars)
  <2> SUFFICES ASSUME LiveInv, [LiveNext]_vars
               PROVE  Abstract!FeedNext \/ UNCHANGED Abstract!feedVars
    OBVIOUS
  <2>1. IInv BY DEF LiveInv
  <2>2. UNCHANGED vars => HookAsClient BY DEF vars, HookAsClient
  <2>3. Unseen => UNCHANGED Abstract!feedVars
    BY DEF Unseen, ServingNow, Queued, Gone, Abstract!feedVars
  <2> QED BY <2>1, <2>2, <2>3, ServerSees, OwnerRefines, ThreadRefines, HookRefines
          DEF ServerNext
<1> QED BY <1>1, <1>2, LiveInvariance, PTL DEF LiveSpec, ImplementsFeed, Abstract!FeedSpec
=============================================================================
