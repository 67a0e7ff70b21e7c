--------------------------- MODULE IpcServerProofs ---------------------------
(***************************************************************************)
(* Theorems about IpcServer, for any connections and bounds: what Stop     *)
(* leaves behind, and that the server implements Feed, the specification   *)
(* the viewers are written against.                                        *)
(***************************************************************************)
EXTENDS IpcServer, SequenceFacts

-----------------------------------------------------------------------------
(* The invariant *)

Reading == {"check", "poll", "lines", "hangup"}

PieceOf(c) == {p \in Piece: p.line.conn = c}

\* A stream and the buffer of the client being read hold its own pieces only;
\* without a client the buffer is empty.
OwnPieces ==
    /\ \A c \in Conns: wire[c] \in Seq(PieceOf(c))
    /\ lineBuf \in Seq(PieceOf(client))

\* The server's end of a connection is where the listen queue and the thread
\* say it is.
ConnInv ==
    /\ \A c \in Conns: near[c] = "new" => far[c] = "new"
    /\ \A c \in Conns: far[c] = "served" <=> c = client
    /\ \A i \in DOMAIN backlog: far[backlog[i]] = "queued"
    /\ \A i, j \in DOMAIN backlog: backlog[i] = backlog[j] => i = j
    /\ ~listening => \A c \in Conns: far[c] # "queued"

\* Flag and client follow the thread.
ThreadInv ==
    /\ hasClient <=> at \in Reading
    /\ client # None <=> at \in Serving

\* The owner has a thread from Start to its join, and the descriptors until
\* the end of Stop.
OwnerInv ==
    /\ owner # "idle" => ~running
    /\ at = "none" <=> owner = "close" \/ (owner = "idle" /\ ~running)
    /\ listening <=> running \/ owner # "idle"
    /\ wake = "closed" <=> ~listening

IInv == TypeOK /\ OwnPieces /\ ConnInv /\ ThreadInv /\ OwnerInv

\* Before the first Start.
LEMMA InitInv == Init => IInv
<1> SUFFICES ASSUME Init PROVE IInv OBVIOUS
<1>1. \A S: <<>> \in Seq(S) /\ Len(<<>>) = 0 BY EmptySeq
<1>2. TypeOK
  <2> DEFINE Empty == [c \in Conns |-> <<>>]
  <2>1. Empty \in [Conns -> Seq(Piece)] /\ Empty \in [Conns -> Seq(Line)] BY <1>1
  <2>2. \A c \in Conns: Len(Empty[c]) <= Capacity BY <1>1, ServerAssumption
  <2>3. /\ queue \in Seq(Line) /\ drained \in Seq(Line) /\ lineBuf \in Seq(Piece)
        /\ backlog \in Seq(Conns) /\ Len(backlog) <= Backlog
        /\ wire = Empty /\ written = Empty
    BY <1>1, ServerAssumption DEF Init, ServerInit
  <2>4. /\ near \in [Conns -> {"new", "open", "closed"}]
        /\ far \in [Conns -> {"new", "queued", "served", "closed"}]
    BY DEF Init, ServerInit
  <2>5. starts \in 0..MaxStarts /\ faults \in 0..MaxFaults
    BY ServerAssumption DEF Init, ServerInit
  <2>6. /\ cut \in SUBSET Conns /\ at \in ThreadPlaces
        /\ wake \in {"closed", "quiet", "signalled"}
        /\ owner \in {"idle", "wake", "join", "close"}
        /\ running \in BOOLEAN /\ hasClient \in BOOLEAN /\ listening \in BOOLEAN
        /\ client \in Conns \union {None}
    BY DEF Init, ServerInit, ThreadPlaces
  <2> QED BY <2>1, <2>2, <2>3, <2>4, <2>5, <2>6 DEF TypeOK
<1>3. OwnPieces BY <1>1 DEF OwnPieces, Init, ServerInit
<1>4. ConnInv BY ServerAssumption DEF ConnInv, Init, ServerInit
<1> QED BY <1>2, <1>3, <1>4
        DEF IInv, ThreadInv, OwnerInv, Reading, Serving, Init, ServerInit

-----------------------------------------------------------------------------
(* The owner's steps *)

\* Start, Stop and DrainSamples touch flags and the queue only.
LEMMA OwnerKeeps == ASSUME IInv, OwnerNext PROVE IInv'
<1> USE ServerAssumption DEF IInv, TypeOK, OwnPieces, ConnInv, ThreadInv, OwnerInv,
        ThreadPlaces, Reading, Serving, kernelVars, threadVars
<1>1. CASE Start BY <1>1 DEF Start
<1>2. CASE DrainSamples
  <2>1. drained' \in Seq(Line) /\ queue' \in Seq(Line)
    BY <1>2, ConcatProperties, EmptySeq DEF DrainSamples
  <2> QED BY <1>2, <2>1 DEF DrainSamples
<1>3. CASE Stop BY <1>3 DEF Stop
<1>4. CASE StopWake BY <1>4 DEF StopWake
<1>5. CASE StopJoin BY <1>5 DEF StopJoin
<1>6. CASE StopClose
  <2>1. client = None /\ at = "none" BY <1>6 DEF StopClose
  <2>2. \A c \in Conns: far'[c] = IF far[c] = "queued" THEN "closed" ELSE far[c]
    BY <1>6 DEF StopClose
  <2>3. backlog' = <<>> /\ backlog' \in Seq(Conns) /\ Len(backlog') = 0
    BY <1>6, EmptySeq DEF StopClose
  <2>4. far' \in [Conns -> {"new", "queued", "served", "closed"}] /\ cut' \in SUBSET Conns
    BY <1>6 DEF StopClose
  <2>6. Len(backlog') <= Backlog BY <2>3
  <2>7. TypeOK' BY <1>6, <2>3, <2>4, <2>6 DEF StopClose
  <2>5. ConnInv' BY <1>6, <2>1, <2>2, <2>3 DEF StopClose
  <2> QED BY <1>6, <2>1, <2>5, <2>7 DEF StopClose
<1> QED BY <1>1, <1>2, <1>3, <1>4, <1>5, <1>6 DEF OwnerNext

-----------------------------------------------------------------------------
(* The thread's steps *)

\* The steps that move the thread and change flags, cut and faults at most.
ThreadControl ==
    \/ OuterCheck \/ WokenOutside \/ AcceptFails \/ Greet \/ InnerCheck \/ WokenInside
    \/ PollTimeout \/ RecvEof \/ RecvFails \/ LinesTaken \/ Hangup

LEMMA ControlKeeps == ASSUME IInv, ThreadControl PROVE IInv'
<1>1. /\ UNCHANGED <<kernelVars, ownerVars, queue, client, lineBuf>>
      /\ at \notin {"none", "done", "closing"}
      /\ at' \in ThreadPlaces \ {"none"}
      /\ at' \in Serving <=> at \in Serving
      /\ hasClient' <=> at' \in Reading
      /\ hasClient' \in BOOLEAN
  <2> USE DEF Goto, IInv, ThreadInv, TypeOK, ThreadPlaces, Reading, Serving
  <2>1. CASE OuterCheck \/ WokenOutside \/ AcceptFails
    BY <2>1 DEF OuterCheck, WokenOutside, AcceptFails
  <2>2. CASE Greet \/ InnerCheck \/ WokenInside \/ Hangup
    BY <2>2 DEF Greet, InnerCheck, WokenInside, Hangup
  <2>3. CASE PollTimeout \/ RecvEof \/ RecvFails \/ LinesTaken
    BY <2>3 DEF PollTimeout, RecvEof, RecvFails, LinesTaken
  <2> QED BY <2>1, <2>2, <2>3 DEF ThreadControl
<1>2. cut' \in SUBSET Conns /\ faults' \in 0..MaxFaults
  BY ServerAssumption DEF ThreadControl, OuterCheck, WokenOutside, AcceptFails, Greet, InnerCheck,
     WokenInside, PollTimeout, RecvEof, RecvFails, LinesTaken, Hangup, Goto, IInv, ThreadInv,
     TypeOK, Serving
<1>3. TypeOK' BY <1>1, <1>2 DEF IInv, TypeOK, kernelVars, ownerVars
<1> QED BY <1>1, <1>3
        DEF IInv, OwnPieces, ConnInv, ThreadInv, OwnerInv, kernelVars, ownerVars

\* The accepted connection was queued once.
LEMMA AcceptKeeps == ASSUME IInv, Accept PROVE IInv'
<1> DEFINE c0 == Head(backlog)
<1> USE DEF IInv, Accept
<1>1. /\ c0 \in Conns /\ c0 = backlog[1] /\ Len(backlog) \in Nat \ {0}
      /\ backlog' \in Seq(Conns) /\ Len(backlog') = Len(backlog) - 1
      /\ \A i \in 1..Len(backlog'): backlog'[i] = backlog[i + 1]
  BY HeadTailProperties, EmptySeq DEF TypeOK
<1>2. DOMAIN backlog = 1..Len(backlog) /\ DOMAIN backlog' = 1..Len(backlog')
  BY <1>1, LenProperties DEF TypeOK
<1>3. client = None /\ ~hasClient BY DEF ThreadInv, Serving, Reading
<1>4. TypeOK' BY <1>1, ServerAssumption DEF TypeOK, ThreadPlaces, ownerVars
<1>5. OwnPieces'
  <2>1. PieceOf(None) = {} BY ServerAssumption DEF PieceOf, Piece, Line
  <2>2. lineBuf \in Seq(PieceOf(c0))
    BY <1>3, <2>1, SeqMonotonic DEF OwnPieces
  <2> QED BY <2>2 DEF OwnPieces
<1>6. ConnInv'
  <2>1. \A c \in Conns: far'[c] = IF c = c0 THEN "served" ELSE far[c]
    BY <1>1 DEF TypeOK
  <2>2. \A i \in 1..Len(backlog'): backlog'[i] \in Conns /\ backlog'[i] # c0
    <3> SUFFICES ASSUME NEW i \in 1..Len(backlog')
                 PROVE  backlog'[i] \in Conns /\ backlog'[i] # c0
      OBVIOUS
    <3>1. backlog'[i] \in Conns BY <1>1, ElementOfSeq
    <3>2. backlog'[i] # backlog[1] BY <1>1, <1>2 DEF ConnInv
    <3> QED BY <1>1, <3>1, <3>2
  <2>3. far[c0] = "queued" BY <1>1, <1>2 DEF ConnInv
  <2>4. \A c \in Conns: near'[c] = "new" => far'[c] = "new" BY <2>1, <2>3 DEF ConnInv
  <2>5. \A c \in Conns: far'[c] = "served" <=> c = client'
    BY <1>3, <2>1, ServerAssumption DEF ConnInv
  <2>6. \A i \in DOMAIN backlog': far'[backlog'[i]] = "queued"
    BY <1>1, <1>2, <2>1, <2>2 DEF ConnInv
  <2>7. \A i, j \in DOMAIN backlog': backlog'[i] = backlog'[j] => i = j
    BY <1>1, <1>2 DEF ConnInv
  <2>8. ~listening' => \A c \in Conns: far'[c] # "queued" BY <2>1 DEF ConnInv
  <2> QED BY <2>4, <2>5, <2>6, <2>7, <2>8 DEF ConnInv
<1>7. ThreadInv' /\ OwnerInv'
  BY <1>1, <1>3, ServerAssumption DEF ThreadInv, OwnerInv, Reading, Serving, ownerVars
<1> QED BY <1>4, <1>5, <1>6, <1>7

\* What recv returns are pieces of the client's stream.
LEMMA RecvKeeps == ASSUME IInv, Recv PROVE IInv'
<1> USE DEF IInv, Recv
<1>1. client \in Conns BY DEF ThreadInv, Serving, TypeOK
<1>2. PICK n \in 1..Len(wire[client]):
        /\ lineBuf' = lineBuf \o SubSeq(wire[client], 1, n)
        /\ wire' = [wire EXCEPT ![client] = SubSeq(@, n + 1, Len(@))]
  OBVIOUS
<1> DEFINE w == wire[client]
           got == SubSeq(w, 1, n)
           left == SubSeq(w, n + 1, Len(w))
<1>3. /\ w \in Seq(Piece) /\ w \in Seq(PieceOf(client))
      /\ Len(w) \in Nat /\ n \in Int
  BY <1>1, LenProperties DEF TypeOK, OwnPieces
<1>4. \A i \in 1..Len(w): w[i] \in Piece /\ w[i] \in PieceOf(client)
  BY <1>3, ElementOfSeq
<1>5. /\ got \in Seq(Piece) /\ got \in Seq(PieceOf(client))
      /\ left \in Seq(Piece) /\ left \in Seq(PieceOf(client)) /\ Len(left) <= Len(w)
  <2>1. \A i \in 1..n: w[i] \in Piece /\ w[i] \in PieceOf(client) BY <1>3, <1>4
  <2>2. \A i \in (n + 1)..Len(w): w[i] \in Piece /\ w[i] \in PieceOf(client) BY <1>3, <1>4
  <2>3. got \in Seq(Piece) /\ got \in Seq(PieceOf(client)) BY <1>3, <2>1, SubSeqProperties
  <2>4. left \in Seq(Piece) /\ left \in Seq(PieceOf(client))
    BY <1>3, <2>2, SubSeqProperties
  <2>5. Len(left) = IF n + 1 <= Len(w) THEN Len(w) - (n + 1) + 1 ELSE 0
    BY <1>3, <2>2, SubSeqProperties
  <2> QED BY <1>3, <2>3, <2>4, <2>5
<1>6. lineBuf' \in Seq(Piece) /\ lineBuf' \in Seq(PieceOf(client))
  BY <1>2, <1>5, ConcatProperties DEF TypeOK, OwnPieces
<1>7. \A c \in Conns: wire'[c] = IF c = client THEN left ELSE wire[c]
  BY <1>1, <1>2 DEF TypeOK
<1>8. wire' \in [Conns -> Seq(Piece)] BY <1>1, <1>2, <1>5 DEF TypeOK
<1>9. \A c \in Conns: Len(wire'[c]) <= Capacity
  BY <1>1, <1>3, <1>5, <1>7, ServerAssumption, LenProperties DEF TypeOK
<1>10. TypeOK' BY <1>6, <1>8, <1>9 DEF TypeOK, ThreadPlaces, ownerVars
<1>11. OwnPieces' BY <1>5, <1>6, <1>7 DEF OwnPieces
<1> QED BY <1>10, <1>11 DEF ConnInv, ThreadInv, OwnerInv, Reading, Serving, ownerVars

\* What a line adds to the queue: the client's sample or nothing.
LEMMA TakenLine ==
    ASSUME IInv, TakeLine
    PROVE  /\ \/ queue' = queue
              \/ \E l \in Line: l.conn = client /\ queue' = Append(queue, l)
           /\ lineBuf' \in Seq(Piece) /\ lineBuf' \in Seq(PieceOf(client))
           /\ UNCHANGED <<kernelVars, ownerVars, hasClient, at, client, cut, faults>>
<1> USE DEF IInv
<1>1. PICK n \in DOMAIN lineBuf:
        /\ queue' = queue \o Parsed(SubSeq(lineBuf, 1, n))
        /\ lineBuf' = SubSeq(lineBuf, n + 1, Len(lineBuf))
  BY DEF TakeLine
<1> DEFINE b == lineBuf
           taken == SubSeq(b, 1, n)
<1>2. /\ Len(b) \in Nat /\ n \in 1..Len(b)
      /\ \A i \in 1..Len(b): b[i] \in Piece /\ b[i] \in PieceOf(client)
  BY LenProperties, ElementOfSeq DEF TypeOK, OwnPieces
<1>3. lineBuf' \in Seq(Piece) /\ lineBuf' \in Seq(PieceOf(client))
  <2>1. \A i \in (n + 1)..Len(b): b[i] \in Piece /\ b[i] \in PieceOf(client) BY <1>2
  <2> QED BY <1>1, <1>2, <2>1, SubSeqProperties
<1>4. Parsed(taken) = <<>> \/ \E l \in Line: l.conn = client /\ Parsed(taken) = <<l>>
  <2>1. CASE Len(taken) = 2
    <3>1. /\ Len(taken) = IF 1 <= n THEN n - 1 + 1 ELSE 0
          /\ \A i \in 1..(n - 1 + 1): taken[i] = b[1 + i - 1]
      BY <1>2, SubSeqProperties
    <3>2. taken[2] \in Piece /\ taken[2] \in PieceOf(client) BY <1>2, <2>1, <3>1
    <3>3. taken[2].line \in Line /\ taken[2].line.conn = client
      BY <3>2 DEF Piece, PieceOf
    <3> QED BY <3>3 DEF Parsed
  <2>2. CASE Len(taken) # 2 BY <2>2 DEF Parsed
  <2> QED BY <2>1, <2>2
<1>5. CASE Parsed(taken) = <<>>
  <2>1. queue' = queue BY <1>1, <1>5, ConcatEmptySeq DEF TypeOK
  <2> QED BY <1>3, <2>1 DEF TakeLine, Goto
<1>6. ASSUME NEW l \in Line, l.conn = client, Parsed(taken) = <<l>>
      PROVE  \E k \in Line: k.conn = client /\ queue' = Append(queue, k)
  <2>1. queue \o <<l>> = Append(queue, l) BY <1>6, AppendIsConcat DEF TypeOK
  <2> QED BY <1>1, <1>6, <2>1
<1> QED BY <1>3, <1>4, <1>5, <1>6 DEF TakeLine, Goto

LEMMA TakeLineKeeps == ASSUME IInv, TakeLine PROVE IInv'
<1>1. queue' \in Seq(Line)
  <2>1. queue \in Seq(Line) BY DEF IInv, TypeOK
  <2>2. ASSUME NEW l \in Line, queue' = Append(queue, l) PROVE queue' \in Seq(Line)
    BY <2>1, <2>2, AppendProperties
  <2> QED BY <2>1, <2>2, TakenLine
<1> QED BY <1>1, TakenLine
        DEF IInv, TypeOK, OwnPieces, ConnInv, ThreadInv, OwnerInv, kernelVars, ownerVars

\* The end of a connection takes the buffer with it.
LEMMA CloseKeeps == ASSUME IInv, CloseClient PROVE IInv'
<1> USE DEF IInv, CloseClient
<1>1. client \in Conns /\ far[client] = "served" /\ ~hasClient
  BY DEF ThreadInv, ConnInv, Serving, Reading, TypeOK
<1>2. \A c \in Conns: far'[c] = IF c = client THEN "closed" ELSE far[c]
  BY <1>1 DEF TypeOK
<1>3. far' \in [Conns -> {"new", "queued", "served", "closed"}] BY <1>1 DEF TypeOK
<1>4. lineBuf' = <<>> /\ \A S: lineBuf' \in Seq(S) BY EmptySeq
<1>5. TypeOK' BY <1>3, <1>4 DEF TypeOK, ThreadPlaces, ownerVars
<1>6. OwnPieces' BY <1>4 DEF OwnPieces
<1>7. ConnInv'
  <2>1. \A i \in DOMAIN backlog: backlog[i] \in Conns
    BY LenProperties, ElementOfSeq DEF TypeOK
  <2> QED BY <1>1, <1>2, <2>1, ServerAssumption DEF ConnInv
<1> QED BY <1>1, <1>5, <1>6, <1>7 DEF ThreadInv, OwnerInv, Reading, Serving, ownerVars

LEMMA ThreadKeeps == ASSUME IInv, ThreadNext PROVE IInv'
BY ControlKeeps, AcceptKeeps, RecvKeeps, TakeLineKeeps, CloseKeeps DEF ThreadNext, ThreadControl
-----------------------------------------------------------------------------
(* The clients' steps *)

LEMMA ConnectKeeps == ASSUME IInv, NEW c \in Conns, Connect(c) PROVE IInv'
<1> USE DEF IInv, Connect
<1>1. /\ \A d \in Conns: far'[d] = IF d = c THEN "queued" ELSE far[d]
      /\ \A d \in Conns: near'[d] = IF d = c THEN "open" ELSE near[d]
      /\ far[c] = "new" /\ c # client
  BY DEF TypeOK, ConnInv
<1>2. /\ far' \in [Conns -> {"new", "queued", "served", "closed"}]
      /\ near' \in [Conns -> {"new", "open", "closed"}]
  BY DEF TypeOK
<1>3. /\ backlog' \in Seq(Conns) /\ Len(backlog') = Len(backlog) + 1
      /\ \A i \in 1..Len(backlog): backlog'[i] = backlog[i]
      /\ backlog'[Len(backlog) + 1] = c
  BY AppendProperties DEF TypeOK
<1>4. /\ DOMAIN backlog = 1..Len(backlog) /\ DOMAIN backlog' = 1..(Len(backlog) + 1)
      /\ Len(backlog) \in Nat /\ \A i \in 1..Len(backlog): backlog[i] \in Conns
  BY <1>3, LenProperties, ElementOfSeq DEF TypeOK
<1>5. TypeOK'
  <2>1. Len(backlog') <= Backlog BY <1>3, <1>4, ServerAssumption
  <2> QED BY <1>2, <1>3, <2>1 DEF TypeOK, threadVars, ownerVars
<1>6. ConnInv'
  <2>1. \A i \in 1..Len(backlog): far[backlog[i]] = "queued" /\ backlog[i] # c
    BY <1>1, <1>4 DEF ConnInv
  <2>2. \A i \in DOMAIN backlog': far'[backlog'[i]] = "queued"
    <3> SUFFICES ASSUME NEW i \in 1..(Len(backlog) + 1) PROVE far'[backlog'[i]] = "queued"
      BY <1>4
    <3>1. CASE i = Len(backlog) + 1 BY <1>1, <1>3, <3>1
    <3>2. CASE i \in 1..Len(backlog) BY <1>1, <1>3, <1>4, <2>1, <3>2
    <3> QED BY <1>4, <3>1, <3>2
  <2>3. \A i, j \in DOMAIN backlog': backlog'[i] = backlog'[j] => i = j
    BY <1>3, <1>4, <2>1 DEF ConnInv
  <2>4. \A d \in Conns: near'[d] = "new" => far'[d] = "new" BY <1>1 DEF ConnInv
  <2>5. \A d \in Conns: far'[d] = "served" <=> d = client'
    BY <1>1 DEF ConnInv, threadVars
  <2> QED BY <2>2, <2>3, <2>4, <2>5 DEF ConnInv
<1>7. OwnPieces' BY DEF OwnPieces, threadVars
<1> QED BY <1>5, <1>6, <1>7 DEF ThreadInv, OwnerInv, threadVars, ownerVars

\* A stream that grows by pieces of its own.
LEMMA StreamGrows ==
    ASSUME IInv, NEW c \in Conns, NEW pieces \in Seq(PieceOf(c)),
           wire' = [wire EXCEPT ![c] = @ \o pieces],
           Len(wire[c]) + Len(pieces) <= Capacity
    PROVE  /\ wire' \in [Conns -> Seq(Piece)]
           /\ \A d \in Conns: Len(wire'[d]) <= Capacity /\ wire'[d] \in Seq(PieceOf(d))
<1> USE DEF IInv
<1>1. PieceOf(c) \subseteq Piece BY DEF PieceOf
<1>2. pieces \in Seq(Piece) BY <1>1, SeqMonotonic
<1>3. wire[c] \in Seq(Piece) /\ wire[c] \in Seq(PieceOf(c)) BY DEF TypeOK, OwnPieces
<1>4. /\ wire[c] \o pieces \in Seq(Piece)
      /\ Len(wire[c] \o pieces) = Len(wire[c]) + Len(pieces)
  BY <1>2, <1>3, ConcatProperties
<1>5. wire[c] \o pieces \in Seq(PieceOf(c)) BY <1>3, ConcatProperties
<1>6. \A d \in Conns: wire'[d] = IF d = c THEN wire[c] \o pieces ELSE wire[d] BY DEF TypeOK
<1>7. wire' \in [Conns -> Seq(Piece)] BY <1>4 DEF TypeOK
<1> QED BY <1>4, <1>5, <1>6, <1>7 DEF TypeOK, OwnPieces

LEMMA SendKeeps ==
    ASSUME IInv, NEW c \in Conns, NEW l \in Line, l.conn = c, SendLine(c, l)
    PROVE  IInv'
<1> USE DEF IInv, SendLine
<1>1. Pieces(l) \in Seq(PieceOf(c)) /\ Len(Pieces(l)) = 2
  <2>1. Start1(l) \in PieceOf(c) /\ End1(l) \in PieceOf(c)
    BY DEF Start1, End1, PieceOf, Piece
  <2> QED BY <2>1 DEF Pieces
<1>2. wire' = [wire EXCEPT ![c] = @ \o Pieces(l)] /\ Len(wire[c]) + 2 <= Capacity OBVIOUS
<1>3. /\ wire' \in [Conns -> Seq(Piece)]
      /\ \A d \in Conns: Len(wire'[d]) <= Capacity /\ wire'[d] \in Seq(PieceOf(d))
  BY <1>1, <1>2, StreamGrows
<1>4. Append(written[c], l) \in Seq(Line) BY AppendProperties DEF TypeOK
<1>5. written' \in [Conns -> Seq(Line)] BY <1>4 DEF TypeOK
<1>6. TypeOK' BY <1>3, <1>5 DEF TypeOK, threadVars, ownerVars
<1>7. OwnPieces' BY <1>3 DEF OwnPieces, threadVars
<1> QED BY <1>6, <1>7 DEF ConnInv, ThreadInv, OwnerInv, threadVars, ownerVars

\* A client's end that closes changes nothing the server looks after.
LEMMA NearCloses ==
    ASSUME IInv, NEW c \in Conns, near[c] = "open", near' = [near EXCEPT ![c] = "closed"],
           wire' \in [Conns -> Seq(Piece)],
           \A d \in Conns: Len(wire'[d]) <= Capacity /\ wire'[d] \in Seq(PieceOf(d)),
           UNCHANGED <<ownerVars, threadVars, listening, backlog, far, written>>
    PROVE  IInv'
<1> USE DEF IInv, ownerVars, threadVars
<1>1. \A d \in Conns: near'[d] = IF d = c THEN "closed" ELSE near[d] BY DEF TypeOK
<1>2. near' \in [Conns -> {"new", "open", "closed"}] BY DEF TypeOK
<1>3. TypeOK' BY <1>2 DEF TypeOK
<1>4. ConnInv' BY <1>1 DEF ConnInv
<1> QED BY <1>3, <1>4 DEF OwnPieces, ThreadInv, OwnerInv

LEMMA CloseNearKeeps == ASSUME IInv, NEW c \in Conns, CloseNear(c) PROVE IInv'
<1>1. /\ wire' \in [Conns -> Seq(Piece)]
      /\ \A d \in Conns: Len(wire'[d]) <= Capacity /\ wire'[d] \in Seq(PieceOf(d))
  BY DEF CloseNear, IInv, TypeOK, OwnPieces
<1> QED BY <1>1, NearCloses DEF CloseNear

LEMMA DieKeeps ==
    ASSUME IInv, NEW c \in Conns, NEW l \in Line, l.conn = c, DieInsideLine(c, l)
    PROVE  IInv'
<1> DEFINE half == <<Start1(l)>>
<1>1. Start1(l) \in PieceOf(c) BY DEF Start1, PieceOf, Piece
<1>2. half \in Seq(PieceOf(c)) /\ Len(half) = 1 BY <1>1
<1>3. wire[c] \in Seq(PieceOf(c)) /\ Len(wire[c]) \in Nat
  BY LenProperties DEF IInv, OwnPieces
<1>4. Append(wire[c], Start1(l)) = wire[c] \o half BY <1>1, <1>3, AppendIsConcat
<1>5. wire' = [wire EXCEPT ![c] = @ \o half] BY <1>4 DEF DieInsideLine
<1>6. Len(wire[c]) + Len(half) <= Capacity
  BY <1>2, <1>3, ServerAssumption DEF DieInsideLine
<1>7. /\ wire' \in [Conns -> Seq(Piece)]
      /\ \A d \in Conns: Len(wire'[d]) <= Capacity /\ wire'[d] \in Seq(PieceOf(d))
  BY <1>2, <1>5, <1>6, StreamGrows
<1> QED BY <1>7, NearCloses DEF DieInsideLine

LEMMA ClientKeeps == ASSUME IInv, ClientNext PROVE IInv'
<1>1. \A c \in Conns: \A ft \in 0..1:
          NextLine(c, ft) \in Line /\ NextLine(c, ft).conn = c
  BY LenProperties DEF NextLine, Line, IInv, TypeOK
<1>2. PICK c \in Conns:
        \/ Connect(c)
        \/ \E ft \in 0..1: SendLine(c, NextLine(c, ft))
        \/ CloseNear(c)
        \/ DieInsideLine(c, NextLine(c, 1))
  BY DEF ClientNext
<1>3. CASE Connect(c) BY <1>3, ConnectKeeps
<1>4. ASSUME NEW ft \in 0..1, SendLine(c, NextLine(c, ft)) PROVE IInv'
  BY <1>1, <1>4, SendKeeps
<1>5. CASE CloseNear(c) BY <1>5, CloseNearKeeps
<1>6. CASE DieInsideLine(c, NextLine(c, 1)) BY <1>1, <1>6, DieKeeps
<1> QED BY <1>2, <1>3, <1>4, <1>5, <1>6

-----------------------------------------------------------------------------
(* What follows *)

LEMMA StutterKeeps == IInv /\ UNCHANGED serverVars => IInv'
BY DEF IInv, TypeOK, OwnPieces, ConnInv, ThreadInv, OwnerInv,
       serverVars, kernelVars, threadVars, ownerVars

LEMMA Invariance == Spec => []IInv
<1>1. IInv /\ [Next]_serverVars => IInv'
  BY OwnerKeeps, ThreadKeeps, ClientKeeps, StutterKeeps DEF Next
<1> QED BY InitInv, <1>1, PTL DEF Spec

\* Sockets, pipe, queues, flags and buffers keep their types, and the kernel's
\* queues their limits.
THEOREM TypeCorrect == Spec => []TypeOK
BY Invariance, PTL DEF IInv

\* Wherever the thread is when Stop comes, and also when a failing call ended
\* it before, Stop returns with no thread, client, listener or queued
\* connection.
THEOREM StopLeaves == Spec => []StopLeavesNothing
<1>1. IInv => StopLeavesNothing
  <2> SUFFICES ASSUME IInv PROVE StopLeavesNothing OBVIOUS
  <2>1. (hasClient <=> at \in Reading) /\ (client # None <=> at \in Serving)
    BY DEF IInv, ThreadInv
  <2>2. ASSUME owner = "idle", ~running
        PROVE  /\ at = "none" /\ ~hasClient /\ ~listening /\ wake = "closed"
               /\ \A c \in Conns: far[c] \in {"new", "closed"}
    <3>1. at = "none" /\ ~listening /\ wake = "closed" BY <2>2 DEF IInv, OwnerInv
    <3>2. ~hasClient /\ client = None BY <2>1, <3>1 DEF Reading, Serving
    <3>3. \A c \in Conns: far[c] # "queued" /\ far[c] # "served"
      BY <3>1, <3>2, ServerAssumption DEF IInv, ConnInv
    <3> QED BY <3>1, <3>2, <3>3 DEF IInv, TypeOK
  <2> QED BY <2>1, <2>2 DEF StopLeavesNothing, Reading
<1> QED BY <1>1, Invariance, PTL

-----------------------------------------------------------------------------
(* The feed *)

LinesOf(c) == {l \in Line: l.conn = c}
GoodOnes   == {l \in Line: Good(l)}

\* What is on its way between a client and the queue: the buffer of the one
\* being read, then its socket.
Stream(c) == (IF c = client THEN lineBuf ELSE <<>>) \o wire[c]

\* The first k lines of c were taken, and what is on its way are the others,
\* in order and piece by piece, and half a line at most if it died inside one.
TakenUpTo(c, k) ==
    LET n == Len(written[c]) - k IN
    /\ \/ Len(Stream(c)) = 2 * n
       \/ near[c] = "closed" /\ Len(Stream(c)) = 2 * n + 1 /\ ~Stream(c)[2 * n + 1].end
    /\ \A j \in 1..n: /\ Stream(c)[2 * j - 1] = Start1(written[c][k + j])
                      /\ Stream(c)[2 * j] = End1(written[c][k + j])
    /\ From(c) = Kept(SubSeq(written[c], 1, k), GoodOnes)

\* No whole line waits in the buffer.
NoLine == \A i \in DOMAIN lineBuf: ~lineBuf[i].end

InStep == \A c \in Conns: far[c] # "closed" => \E k \in 0..Len(written[c]): TakenUpTo(c, k)
Settled ==
    \A c \in Conns: far[c] = "closed" =>
        IsPrefix(From(c), GoodLines(c)) /\ (c \notin cut => From(c) = GoodLines(c))
BufferRead == at \in {"greet", "check", "poll"} => NoLine
ReadToTheEnd ==
    at \in {"hangup", "closing"} /\ client \notin cut =>
        near[client] = "closed" /\ Len(Stream(client)) <= 1

FeedInv == InStep /\ Settled /\ BufferRead /\ ReadToTheEnd

LEMMA ConcatIsPrefix ==
    ASSUME NEW T, NEW s \in Seq(T), NEW t \in Seq(T)
    PROVE  IsPrefix(s, s \o t)
<1>1. /\ s \o t \in Seq(T) /\ Len(s \o t) = Len(s) + Len(t) /\ Len(s) \in Nat /\ Len(t) \in Nat
      /\ \A i \in 1..Len(s): (s \o t)[i] = s[i]
  BY ConcatProperties, LenProperties
<1>2. \A i \in 1..Len(s): s[i] \in T /\ (s \o t)[i] \in T BY <1>1, ElementOfSeq
<1>3. /\ SubSeq(s \o t, 1, Len(s)) \in Seq(T)
      /\ Len(SubSeq(s \o t, 1, Len(s))) = IF 1 <= Len(s) THEN Len(s) - 1 + 1 ELSE 0
      /\ \A i \in 1..(Len(s) - 1 + 1): SubSeq(s \o t, 1, Len(s))[i] = (s \o t)[1 + i - 1]
  BY <1>1, <1>2, SubSeqProperties
<1>4. /\ Len(SubSeq(s \o t, 1, Len(s))) = Len(s)
      /\ \A i \in 1..Len(s): SubSeq(s \o t, 1, Len(s))[i] = s[i]
  BY <1>1, <1>3
<1>5. SubSeq(s \o t, 1, Len(s)) = s BY <1>3, <1>4, SeqEqual
<1>6. SubSeq(s, 1, Len(s)) = s BY SubSeqFull
<1> QED BY <1>1, <1>5, <1>6 DEF IsPrefix

\* A filtered beginning is a beginning of the filtered whole.
LEMMA KeptOfPrefix ==
    ASSUME NEW T, NEW S, NEW s \in Seq(T), NEW k \in 0..Len(s)
    PROVE  /\ SubSeq(s, 1, k) \in Seq(T)
           /\ IsPrefix(Kept(SubSeq(s, 1, k), S), Kept(s, S))
<1> DEFINE a == SubSeq(s, 1, k)
           b == SubSeq(s, k + 1, Len(s))
<1>1. Len(s) \in Nat /\ k \in Int /\ k + 1 \in Int /\ Len(s) \in Int BY LenProperties
<1>2. \A i \in 1..Len(s): s[i] \in T BY ElementOfSeq
<1>3. (\A i \in 1..k: s[i] \in T) /\ (\A i \in (k + 1)..Len(s): s[i] \in T) BY <1>1, <1>2
<1>4. a \in Seq(T) BY <1>1, <1>3, SubSeqProperties
<1>5. b \in Seq(T) BY <1>1, <1>3, SubSeqProperties
<1>6. a \o b = s
  <2>1. 1 \in 1..(Len(s) + 1) /\ k \in (1 - 1)..Len(s) /\ Len(s) \in k..Len(s) BY <1>1
  <2>2. SubSeq(s, 1, Len(s)) = s BY SubSeqFull
  <2> QED BY <2>1, <2>2, ConcatAdjacentSubSeq
<1> HIDE DEF a, b
<1>7. Kept(s, S) = Kept(a, S) \o Kept(b, S) BY <1>4, <1>5, <1>6, KeptConcat
<1>8. Kept(a, S) \in Seq(T) /\ Kept(b, S) \in Seq(T) BY <1>4, <1>5, KeptType
<1>9. IsPrefix(Kept(a, S), Kept(s, S)) BY <1>7, <1>8, ConcatIsPrefix
<1> QED BY <1>4, <1>9 DEF a

LEMMA StreamTypes ==
    ASSUME IInv, NEW c \in Conns
    PROVE  /\ Stream(c) \in Seq(Piece) /\ Len(Stream(c)) \in Nat
           /\ written[c] \in Seq(Line) /\ Len(written[c]) \in Nat
           /\ Received \in Seq(Line) /\ From(c) \in Seq(Line) /\ GoodLines(c) \in Seq(Line)
<1> USE DEF IInv, TypeOK
<1>1. Stream(c) \in Seq(Piece)
  <2>1. wire[c] \in Seq(Piece) /\ lineBuf \in Seq(Piece) /\ <<>> \in Seq(Piece) BY EmptySeq
  <2> QED BY <2>1, ConcatProperties DEF Stream
<1>2. written[c] \in Seq(Line) OBVIOUS
<1>3. Received \in Seq(Line) BY ConcatProperties DEF Received
<1>4. From(c) \in Seq(Line) BY <1>3, KeptType DEF From
<1>5. GoodLines(c) \in Seq(Line) BY <1>2, KeptType DEF GoodLines
<1> QED BY <1>1, <1>2, <1>3, <1>4, <1>5, LenProperties

\* Without a client the buffer is empty.
LEMMA NoClientNoBuffer == ASSUME IInv, client = None PROVE lineBuf = <<>>
<1>1. PieceOf(None) = {} BY ServerAssumption DEF PieceOf, Piece, Line
<1>2. lineBuf \in Seq({}) BY <1>1 DEF IInv, OwnPieces
<1> QED BY <1>2, EmptySeq, ElementOfSeq, LenProperties

\* A connection nothing happened to, but that it may have been closed.
LEMMA SameStream ==
    ASSUME NEW c \in Conns, NEW k \in 0..Len(written[c]), TakenUpTo(c, k),
           Stream(c)' = Stream(c), written'[c] = written[c],
           near[c] = "closed" => near'[c] = "closed", From(c)' = From(c)
    PROVE  k \in 0..Len(written'[c]) /\ TakenUpTo(c, k)'
BY DEF TakenUpTo

\* What was taken of a connection is a prefix of what was written on it.
LEMMA TakenIsPrefix ==
    ASSUME IInv, NEW c \in Conns, NEW k \in 0..Len(written[c]), TakenUpTo(c, k)
    PROVE  /\ IsPrefix(From(c), GoodLines(c))
           /\ Len(Stream(c)) <= 1 => From(c) = GoodLines(c)
<1>1. written[c] \in Seq(Line) /\ Len(written[c]) \in Nat BY StreamTypes
<1>2. From(c) = Kept(SubSeq(written[c], 1, k), GoodOnes) BY DEF TakenUpTo
<1>3. GoodLines(c) = Kept(written[c], GoodOnes) BY DEF GoodLines, GoodOnes
<1>4. IsPrefix(From(c), GoodLines(c)) BY <1>1, <1>2, <1>3, KeptOfPrefix
<1>5. ASSUME Len(Stream(c)) <= 1 PROVE From(c) = GoodLines(c)
  <2>1. Len(Stream(c)) = 2 * (Len(written[c]) - k) \/ Len(Stream(c)) = 2 * (Len(written[c]) - k) + 1
    BY DEF TakenUpTo
  <2>2. k = Len(written[c]) BY <1>1, <1>5, <2>1
  <2>3. SubSeq(written[c], 1, k) = written[c] BY <1>1, <2>2, SubSeqFull
  <2> QED BY <1>2, <1>3, <2>3
<1> QED BY <1>4, <1>5

\* Steps that move nothing along any stream.
Still(c) == Stream(c)' = Stream(c) /\ written'[c] = written[c] /\ From(c)' = From(c)

LEMMA StillInStep ==
    ASSUME InStep, NEW c \in Conns, Still(c), far[c] # "closed",
           near[c] = "closed" => near'[c] = "closed"
    PROVE  \E k \in 0..Len(written'[c]): TakenUpTo(c, k)'
<1>1. PICK k \in 0..Len(written[c]): TakenUpTo(c, k) BY DEF InStep
<1>2. k \in 0..Len(written'[c]) /\ TakenUpTo(c, k)' BY <1>1, SameStream DEF Still
<1> QED BY <1>2

LEMMA StillSettled ==
    ASSUME Settled, NEW c \in Conns, Still(c), far[c] = "closed", cut \subseteq cut'
    PROVE  IsPrefix(From(c)', GoodLines(c)') /\ (c \notin cut' => From(c)' = GoodLines(c)')
<1>1. GoodLines(c)' = GoodLines(c) BY DEF Still, GoodLines
<1> QED BY <1>1 DEF Settled, Still

LEMMA StillKeeps ==
    ASSUME FeedInv, \A c \in Conns: Still(c), UNCHANGED far, cut \subseteq cut',
           \A c \in Conns: near[c] = "closed" => near'[c] = "closed"
    PROVE  InStep' /\ Settled'
<1>1. InStep' BY StillInStep DEF InStep, FeedInv
<1>2. Settled' BY StillSettled DEF Settled, FeedInv
<1> QED BY <1>1, <1>2

\* The same for a step that changes neither queue, buffer, socket nor client.
LEMMA QuietIsStill ==
    ASSUME UNCHANGED <<Received, lineBuf, client, wire, written>>
    PROVE  \A c \in Conns: Still(c)
BY DEF Still, Stream, From

LEMMA InitFeed == Init => FeedInv
<1> SUFFICES ASSUME Init PROVE FeedInv OBVIOUS
<1>0. IInv BY InitInv
<1>1. ASSUME NEW c \in Conns PROVE TakenUpTo(c, 0) /\ 0 \in 0..Len(written[c])
  <2>1. written[c] = <<>> /\ Len(written[c]) = 0 BY EmptySeq DEF Init, ServerInit
  <2>2. Stream(c) = <<>> \o <<>> BY ServerAssumption DEF Stream, Init, ServerInit
  <2>3. Stream(c) = <<>> /\ Len(Stream(c)) = 0 BY <2>2, EmptySeq, ConcatEmptySeq
  <2>4. Received = <<>> BY EmptySeq, ConcatEmptySeq DEF Received, Init, ServerInit
  <2>5. SubSeq(written[c], 1, 0) = <<>> BY SubSeqEmpty
  <2>6. From(c) = Kept(SubSeq(written[c], 1, 0), GoodOnes) BY <2>4, <2>5, KeptEmpty DEF From
  <2> QED BY <2>1, <2>3, <2>6 DEF TakenUpTo
<1>2. InStep BY <1>1 DEF InStep
<1>3. Settled BY DEF Settled, Init, ServerInit
<1>4. at = "none" BY DEF Init, ServerInit
<1> QED BY <1>2, <1>3, <1>4 DEF FeedInv, BufferRead, ReadToTheEnd

LEMMA OwnerKeepsFeed == ASSUME IInv, FeedInv, OwnerNext PROVE FeedInv'
<1> USE DEF IInv, FeedInv, kernelVars, threadVars
<1>1. CASE Start \/ Stop \/ StopWake \/ StopJoin
  <2>1. UNCHANGED <<Received, lineBuf, client, wire, near, far, written, cut>>
    BY <1>1 DEF Start, Stop, StopWake, StopJoin, Received
  <2>2. at' = at \/ at' = "outer" \/ at' = "none"
    BY <1>1 DEF Start, Stop, StopWake, StopJoin
  <2>3. InStep' /\ Settled' BY <2>1, QuietIsStill, StillKeeps
  <2>4. BufferRead' /\ ReadToTheEnd'
    BY <2>1, <2>2 DEF BufferRead, ReadToTheEnd, NoLine, Stream
  <2> QED BY <2>3, <2>4
<1>2. CASE DrainSamples
  <2>1. UNCHANGED <<lineBuf, client, wire, near, far, written, cut, at>> BY <1>2 DEF DrainSamples
  <2>2. Received' = Received
    <3>1. queue \in Seq(Line) /\ drained \in Seq(Line) /\ drained \o queue \in Seq(Line)
      BY ConcatProperties DEF TypeOK
    <3>2. (drained \o queue) \o <<>> = drained \o queue BY <3>1, ConcatEmptySeq
    <3> QED BY <1>2, <3>2 DEF DrainSamples, Received
  <2>3. InStep' /\ Settled' BY <2>1, <2>2, QuietIsStill, StillKeeps
  <2>4. BufferRead' /\ ReadToTheEnd' BY <2>1 DEF BufferRead, ReadToTheEnd, NoLine, Stream
  <2> QED BY <2>3, <2>4
<1>3. CASE StopClose
  <2>1. UNCHANGED <<Received, lineBuf, client, wire, near, written, at>> /\ at = "none"
    BY <1>3 DEF StopClose, Received, OwnerInv
  <2>2. /\ \A c \in Conns: far'[c] = IF far[c] = "queued" THEN "closed" ELSE far[c]
        /\ cut' = cut \union {c \in Conns: far[c] = "queued"}
    BY <1>3 DEF StopClose
  <2>3. \A c \in Conns: Still(c) BY <2>1, QuietIsStill
  <2>4. InStep' BY <2>1, <2>2, <2>3, StillInStep DEF InStep
  <2>5. ASSUME NEW c \in Conns, far'[c] = "closed"
        PROVE  IsPrefix(From(c)', GoodLines(c)') /\ (c \notin cut' => From(c)' = GoodLines(c)')
    <3>1. CASE far[c] = "closed" BY <2>2, <2>3, <3>1, StillSettled
    <3>2. CASE far[c] # "closed"
      <4>1. c \in cut' BY <2>2, <2>5, <3>2
      <4>2. PICK k \in 0..Len(written[c]): TakenUpTo(c, k) BY <3>2 DEF InStep
      <4>3. IsPrefix(From(c), GoodLines(c)) BY <4>2, TakenIsPrefix
      <4>4. From(c)' = From(c) /\ GoodLines(c)' = GoodLines(c)
        BY <2>3 DEF Still, GoodLines
      <4> QED BY <4>1, <4>3, <4>4
    <3> QED BY <3>1, <3>2
  <2>6. Settled' BY <2>5 DEF Settled
  <2> QED BY <2>1, <2>4, <2>6 DEF BufferRead, ReadToTheEnd
<1> QED BY <1>1, <1>2, <1>3 DEF OwnerNext

\* A client whose stream is empty and whose buffer holds no whole line was
\* read to its end.
LEMMA EofIsTheEnd ==
    ASSUME IInv, InStep, NoLine, client \in Conns, far[client] # "closed", wire[client] = <<>>
    PROVE  Len(Stream(client)) <= 1
<1>1. PICK k \in 0..Len(written[client]): TakenUpTo(client, k) BY DEF InStep
<1>2. lineBuf \in Seq(Piece) BY DEF IInv, TypeOK
<1>3. Stream(client) = lineBuf BY <1>2, ConcatEmptySeq DEF Stream
<1>4. DOMAIN lineBuf = 1..Len(lineBuf) /\ Len(lineBuf) \in Nat BY <1>2, LenProperties
<1> DEFINE n == Len(written[client]) - k
<1>5. n \in Nat BY StreamTypes
<1>6. Len(lineBuf) = 2 * n \/ Len(lineBuf) = 2 * n + 1 BY <1>1, <1>3 DEF TakenUpTo
<1>7. n = 0
  <2> SUFFICES ASSUME n # 0 PROVE FALSE OBVIOUS
  <2>1. 1 \in 1..n BY <1>5
  <2>2. lineBuf[2 * 1] = End1(written[client][k + 1]) BY <1>1, <1>3, <2>1 DEF TakenUpTo
  <2>3. 2 \in DOMAIN lineBuf BY <1>4, <1>5, <1>6
  <2>4. lineBuf[2].end BY <2>2 DEF End1
  <2> QED BY <2>3, <2>4 DEF NoLine
<1> HIDE DEF n
<1> QED BY <1>3, <1>4, <1>6, <1>7

LEMMA ControlKeepsFeed == ASSUME IInv, FeedInv, ThreadControl PROVE FeedInv'
<1> USE DEF FeedInv
<1>1. UNCHANGED <<Received, lineBuf, client, wire, near, far, written>> /\ cut \subseteq cut'
  BY DEF ThreadControl, OuterCheck, WokenOutside, AcceptFails, Greet, InnerCheck, WokenInside,
     PollTimeout, RecvEof, RecvFails, LinesTaken, Hangup, Goto, kernelVars, ownerVars, Received
<1>2. InStep' /\ Settled' BY <1>1, QuietIsStill, StillKeeps
<1>3. Stream(client)' = Stream(client) /\ NoLine' = NoLine BY <1>1 DEF Stream, NoLine
<1>4. BufferRead' /\ ReadToTheEnd'
  <2> USE DEF Goto, BufferRead, ReadToTheEnd
  <2>1. CASE OuterCheck \/ WokenOutside \/ AcceptFails
    BY <2>1 DEF OuterCheck, WokenOutside, AcceptFails
  <2>2. CASE Greet \/ PollTimeout BY <1>3, <2>2 DEF Greet, PollTimeout
  <2>3. CASE InnerCheck BY <1>3, <2>3 DEF InnerCheck
  <2>4. CASE WokenInside \/ RecvFails BY <2>4 DEF WokenInside, RecvFails
  <2>5. CASE RecvEof
    <3>1. at = "poll" /\ at' = "hangup" /\ wire[client] = <<>> /\ near[client] = "closed"
      BY <2>5 DEF RecvEof
    <3>2. client \in Conns /\ far[client] # "closed"
      BY <3>1 DEF IInv, TypeOK, ThreadInv, ConnInv, Serving
    <3>3. Len(Stream(client)) <= 1 BY <3>1, <3>2, EofIsTheEnd
    <3> QED BY <1>1, <1>3, <3>1, <3>3
  <2>6. CASE LinesTaken BY <1>3, <2>6 DEF LinesTaken, NoLine
  <2>7. CASE Hangup BY <1>1, <1>3, <2>7 DEF Hangup
  <2> QED BY <2>1, <2>2, <2>3, <2>4, <2>5, <2>6, <2>7 DEF ThreadControl
<1> QED BY <1>2, <1>4

LEMMA AcceptKeepsFeed == ASSUME IInv, FeedInv, Accept PROVE FeedInv'
<1> DEFINE c0 == Head(backlog)
<1>1. client = None /\ lineBuf = <<>> /\ lineBuf' = <<>>
  BY NoClientNoBuffer DEF Accept, IInv, ThreadInv, Serving
<1>2. UNCHANGED <<Received, wire, near, written, cut>> BY DEF Accept, ownerVars, Received
<1>3. \A c \in Conns: Stream(c)' = Stream(c) BY <1>1, <1>2 DEF Stream
<1>4. \A c \in Conns: Still(c) BY <1>2, <1>3 DEF Still, From
<1>5. c0 \in Conns /\ far[c0] = "queued"
  <2>1. backlog \in Seq(Conns) /\ backlog # <<>> BY DEF Accept, IInv, TypeOK
  <2>2. 1 \in DOMAIN backlog /\ Head(backlog) = backlog[1]
    BY <2>1, EmptySeq, LenProperties
  <2> QED BY <2>1, <2>2, HeadTailProperties DEF IInv, ConnInv
<1>6. \A c \in Conns: far'[c] = "closed" <=> far[c] = "closed"
  BY <1>5 DEF Accept, IInv, TypeOK
<1>7. InStep' BY <1>2, <1>4, <1>6, StillInStep DEF InStep, FeedInv
<1>8. Settled' BY <1>2, <1>4, <1>6, StillSettled DEF Settled, FeedInv
<1>9. NoLine' BY <1>1, EmptySeq DEF NoLine
<1> QED BY <1>7, <1>8, <1>9 DEF FeedInv, BufferRead, ReadToTheEnd, Accept

LEMMA PiecesAssociate == \A x, y, z \in Seq(Piece): (x \o y) \o z = x \o (y \o z)
BY ConcatAssociative

\* What recv returns stays on its way.
LEMMA RecvKeepsFeed == ASSUME IInv, FeedInv, Recv PROVE FeedInv'
<1> USE DEF Recv
<1>1. client \in Conns BY DEF IInv, ThreadInv, Serving, TypeOK
<1>2. PICK n \in 1..Len(wire[client]):
        /\ lineBuf' = lineBuf \o SubSeq(wire[client], 1, n)
        /\ wire' = [wire EXCEPT ![client] = SubSeq(@, n + 1, Len(@))]
  OBVIOUS
<1> DEFINE w == wire[client]
           got == SubSeq(w, 1, n)
           left == SubSeq(w, n + 1, Len(w))
<1>3. w \in Seq(Piece) /\ lineBuf \in Seq(Piece) /\ Len(w) \in Nat
  BY <1>1, LenProperties DEF IInv, TypeOK
<1>4. got \in Seq(Piece) /\ left \in Seq(Piece)
  <2>1. \A i \in 1..Len(w): w[i] \in Piece BY <1>3, ElementOfSeq
  <2>2. (\A i \in 1..n: w[i] \in Piece) /\ (\A i \in (n + 1)..Len(w): w[i] \in Piece)
    BY <1>3, <2>1
  <2> QED BY <1>3, <2>2, SubSeqProperties
<1>5. got \o left = w
  <2>1. 1 \in 1..(Len(w) + 1) /\ n \in (1 - 1)..Len(w) /\ Len(w) \in n..Len(w) BY <1>3
  <2>2. SubSeq(w, 1, Len(w)) = w BY <1>3, SubSeqFull
  <2> QED BY <1>3, <2>1, <2>2, ConcatAdjacentSubSeq
<1>6. (lineBuf \o got) \o left = lineBuf \o (got \o left)
  <2> HIDE DEF got, left
  <2> QED BY <1>3, <1>4, PiecesAssociate
<1>7. \A c \in Conns: wire'[c] = IF c = client THEN left ELSE wire[c]
  BY <1>1, <1>2 DEF IInv, TypeOK
<1>8. Stream(client)' = (lineBuf \o got) \o left
  <2>1. client' = client /\ lineBuf' = lineBuf \o got /\ wire'[client] = left BY <1>1, <1>2, <1>7
  <2> QED BY <2>1 DEF Stream
<1>9. ASSUME NEW c \in Conns PROVE Still(c)
  <2>1. Stream(c)' = Stream(c)
    <3>1. CASE c = client BY <1>5, <1>6, <1>8, <3>1 DEF Stream
    <3>2. CASE c # client BY <1>7, <3>2 DEF Stream
    <3> QED BY <3>1, <3>2
  <2>2. From(c)' = From(c) BY DEF From, Received, ownerVars
  <2> QED BY <2>1, <2>2 DEF Still
<1>10. InStep' /\ Settled' BY <1>9, StillKeeps
<1> QED BY <1>10 DEF FeedInv, BufferRead, ReadToTheEnd

\* The line TakeLine takes is the first of those on their way, whole.
LEMMA FirstLineTaken ==
    ASSUME IInv, TakeLine, NEW k \in 0..Len(written[client]), TakenUpTo(client, k)
    PROVE  LET l == written[client][k + 1] IN
           /\ k + 1 \in 0..Len(written[client]) /\ l \in Line /\ l.conn = client
           /\ queue' = IF Good(l) THEN Append(queue, l) ELSE queue
           /\ 2 <= Len(lineBuf) /\ lineBuf' = SubSeq(lineBuf, 3, Len(lineBuf))
<1> USE DEF IInv
<1>1. PICK n \in DOMAIN lineBuf:
        /\ IsFirstEnd(lineBuf, n)
        /\ queue' = queue \o Parsed(SubSeq(lineBuf, 1, n))
        /\ lineBuf' = SubSeq(lineBuf, n + 1, Len(lineBuf))
  BY DEF TakeLine
<1> DEFINE b == lineBuf
           s == Stream(client)
           m == Len(written[client]) - k
           l == written[client][k + 1]
<1>2. client \in Conns BY DEF ThreadInv, Serving, TypeOK, TakeLine, Goto
<1>3. /\ s \in Seq(Piece) /\ Len(s) \in Nat /\ Len(written[client]) \in Nat
      /\ written[client] \in Seq(Line) /\ m \in Nat
  BY <1>2, StreamTypes
<1>4. /\ Len(b) \in Nat /\ DOMAIN b = 1..Len(b) /\ n \in 1..Len(b) /\ Len(b) <= Len(s)
      /\ \A i \in 1..Len(b): b[i] = s[i] /\ b[i] \in Piece /\ b[i] \in PieceOf(client)
  <2>1. b \in Seq(Piece) /\ wire[client] \in Seq(Piece) BY <1>2 DEF TypeOK
  <2>2. /\ Len(s) = Len(b) + Len(wire[client]) /\ Len(b) \in Nat /\ Len(wire[client]) \in Nat
        /\ \A i \in 1..(Len(b) + Len(wire[client])): s[i] =
               IF i <= Len(b) THEN b[i] ELSE wire[client][i - Len(b)]
    BY <2>1, ConcatProperties, LenProperties DEF Stream
  <2>3. \A i \in 1..Len(b): b[i] \in Piece BY <2>1, ElementOfSeq
  <2>4. \A i \in 1..Len(b): b[i] \in PieceOf(client) BY ElementOfSeq DEF OwnPieces
  <2>5. DOMAIN b = 1..Len(b) BY <2>1, LenProperties
  <2>6. \A i \in 1..Len(b): b[i] = s[i] BY <2>2
  <2> QED BY <1>1, <2>2, <2>3, <2>4, <2>5, <2>6
<1>5. Len(s) = 2 * m \/ (Len(s) = 2 * m + 1 /\ ~s[2 * m + 1].end) BY DEF TakenUpTo
<1>6. b[n].end /\ \A i \in 1..(n - 1): ~b[i].end BY <1>1 DEF IsFirstEnd
<1>7. m # 0
  <2> SUFFICES ASSUME m = 0 PROVE FALSE OBVIOUS
  <2> HIDE DEF m, s
  <2>1. n = 1 /\ ~s[1].end BY <1>3, <1>4, <1>5
  <2> QED BY <1>4, <1>6, <2>1
<1>8. k + 1 \in 1..Len(written[client]) BY <1>3, <1>7
<1>9. s[1] = Start1(l) /\ s[2] = End1(l) /\ l \in Line
  <2>1. 1 \in 1..m BY <1>3, <1>7
  <2>2. s[2 * 1 - 1] = Start1(l) /\ s[2 * 1] = End1(l) BY <2>1 DEF TakenUpTo
  <2>3. l \in Line BY <1>3, <1>8, ElementOfSeq
  <2> QED BY <2>2, <2>3
<1>10. n = 2
  <2>1. n # 1 BY <1>4, <1>6, <1>9 DEF Start1
  <2>2. ~ (n > 2)
    <3> SUFFICES ASSUME n > 2 PROVE FALSE OBVIOUS
    <3>1. 2 \in 1..(n - 1) /\ 2 \in 1..Len(b) BY <1>4
    <3> QED BY <1>4, <1>6, <1>9, <3>1 DEF End1
  <2> QED BY <1>4, <2>1, <2>2
<1>11. b[1] = Start1(l) /\ b[2] = End1(l) /\ 2 <= Len(b) BY <1>4, <1>9, <1>10
<1>12. l.conn = client
  <2>1. b[2] \in PieceOf(client) BY <1>4, <1>11
  <2> QED BY <1>11, <2>1 DEF PieceOf, End1
<1>13. SubSeq(b, 1, 2) = Pieces(l)
  <2>1. \A i \in 1..2: b[i] \in Piece BY <1>4, <1>11
  <2>2. /\ SubSeq(b, 1, 2) \in Seq(Piece) /\ Len(SubSeq(b, 1, 2)) = 2
        /\ \A i \in 1..2: SubSeq(b, 1, 2)[i] = b[i]
    <3>1. /\ SubSeq(b, 1, 2) \in Seq(Piece)
          /\ Len(SubSeq(b, 1, 2)) = IF 1 <= 2 THEN 2 - 1 + 1 ELSE 0
          /\ \A i \in 1..(2 - 1 + 1): SubSeq(b, 1, 2)[i] = b[1 + i - 1]
      <4>1. 1 \in Int /\ 2 \in Int OBVIOUS
      <4> QED BY <2>1, <4>1, SubSeqProperties
    <3> QED BY <3>1
  <2>3. /\ Pieces(l) \in Seq(Piece) /\ Len(Pieces(l)) = 2
        /\ Pieces(l)[1] = b[1] /\ Pieces(l)[2] = b[2]
    <3>1. Start1(l) \in Piece /\ End1(l) \in Piece BY <1>9 DEF Start1, End1, Piece
    <3> QED BY <1>11, <3>1 DEF Pieces
  <2>4. \A i \in 1..2: SubSeq(b, 1, 2)[i] = Pieces(l)[i]
    <3>1. \A i \in 1..2: i = 1 \/ i = 2 OBVIOUS
    <3> QED BY <2>2, <2>3, <3>1
  <2> QED BY <2>2, <2>3, <2>4, SeqEqual
<1>14. Parsed(SubSeq(b, 1, n)) = IF Good(l) THEN <<l>> ELSE <<>>
  <2>1. Len(Pieces(l)) = 2 /\ Pieces(l)[2].line = l BY DEF Pieces, End1
  <2> QED BY <1>10, <1>13, <2>1 DEF Parsed
<1>15. queue' = IF Good(l) THEN Append(queue, l) ELSE queue
  <2>1. queue \in Seq(Line) BY DEF TypeOK
  <2>2. queue \o <<l>> = Append(queue, l) /\ queue \o <<>> = queue
    BY <1>9, <2>1, AppendIsConcat, ConcatEmptySeq
  <2> QED BY <1>1, <1>14, <2>2
<1> QED BY <1>1, <1>3, <1>8, <1>9, <1>10, <1>11, <1>12, <1>15

\* Taking the first line of a stream moves on by that line.
LEMMA TakeLineMovesOn ==
    ASSUME IInv, TakeLine, NEW k \in 0..Len(written[client]), TakenUpTo(client, k)
    PROVE  TakenUpTo(client, k + 1)'
<1> DEFINE b == lineBuf
           w == wire[client]
           s == Stream(client)
           rest == SubSeq(b, 3, Len(b))
           lines == written[client]
           l == lines[k + 1]
           m == Len(lines) - k
<1>1. client \in Conns BY DEF IInv, ThreadInv, Serving, TypeOK, TakeLine, Goto
<1>2. /\ k + 1 \in 0..Len(lines) /\ l \in Line /\ l.conn = client
      /\ queue' = IF Good(l) THEN Append(queue, l) ELSE queue
      /\ 2 <= Len(b) /\ lineBuf' = rest
  BY FirstLineTaken
<1>3. UNCHANGED <<drained, client, wire, near, written>>
  BY DEF TakeLine, Goto, kernelVars, ownerVars
<1>4. b \in Seq(Piece) /\ w \in Seq(Piece) /\ Len(b) \in Nat /\ Len(w) \in Nat
  BY <1>1, LenProperties DEF IInv, TypeOK
<1>5. lines \in Seq(Line) /\ Len(lines) \in Nat /\ Received \in Seq(Line) /\ m \in Nat
  BY <1>1, StreamTypes
<1>6. /\ rest \in Seq(Piece) /\ Len(rest) = Len(b) - 2
      /\ \A i \in 1..(Len(b) - 2): rest[i] = b[i + 2]
  <2>1. \A i \in 3..Len(b): b[i] \in Piece BY <1>4, ElementOfSeq
  <2>2. 3 \in Int /\ Len(b) \in Int BY <1>4
  <2>3. /\ rest \in Seq(Piece) /\ Len(rest) = IF 3 <= Len(b) THEN Len(b) - 3 + 1 ELSE 0
        /\ \A i \in 1..(Len(b) - 3 + 1): rest[i] = b[3 + i - 1]
    BY <2>1, <2>2, SubSeqProperties
  <2>4. Len(b) - 3 + 1 = Len(b) - 2 /\ \A i \in 1..(Len(b) - 2): 3 + i - 1 = i + 2 BY <1>4
  <2> HIDE DEF b, rest
  <2>5. Len(rest) = Len(b) - 2
    <3> DEFINE size == Len(b)
    <3>1. 2 <= size /\ size \in Nat BY <1>2, <1>4
    <3>2. Len(rest) = IF 3 <= size THEN size - 3 + 1 ELSE 0 BY <2>3
    <3> HIDE DEF size
    <3>3. Len(rest) = size - 2 BY <3>1, <3>2
    <3> QED BY <3>3 DEF size
  <2>6. \A i \in 1..(Len(b) - 2): rest[i] = b[i + 2] BY <2>3, <2>4
  <2> QED BY <2>3, <2>5, <2>6
<1>7. /\ Len(s) = Len(b) + Len(w)
      /\ \A i \in 1..(Len(b) + Len(w)): s[i] = IF i <= Len(b) THEN b[i] ELSE w[i - Len(b)]
  BY <1>4, ConcatProperties DEF Stream
<1>8. /\ Len(Stream(client)') = Len(s) - 2
      /\ \A i \in 1..(Len(s) - 2): Stream(client)'[i] = s[i + 2]
  <2>1. Stream(client)' = rest \o w BY <1>2, <1>3 DEF Stream
  <2> HIDE DEF rest, s
  <2>2. /\ Len(rest \o w) = Len(rest) + Len(w)
        /\ \A i \in 1..(Len(rest) + Len(w)):
               (rest \o w)[i] = IF i <= Len(rest) THEN rest[i] ELSE w[i - Len(rest)]
    BY <1>4, <1>6, ConcatProperties
  <2>3. Len(rest \o w) = Len(s) - 2 BY <1>4, <1>6, <1>7, <2>2
  <2>4. ASSUME NEW i \in 1..(Len(s) - 2) PROVE (rest \o w)[i] = s[i + 2]
    <3>1. i \in 1..(Len(rest) + Len(w)) /\ i + 2 \in 1..(Len(b) + Len(w))
      BY <1>4, <1>6, <1>7
    <3>2. CASE i <= Len(rest)
      <4>1. i + 2 <= Len(b) /\ i \in 1..(Len(b) - 2) BY <1>4, <1>6, <3>1, <3>2
      <4> QED BY <1>6, <1>7, <2>2, <3>1, <3>2, <4>1
    <3>3. CASE ~ (i <= Len(rest))
      <4>1. ~ (i + 2 <= Len(b)) /\ i - Len(rest) = (i + 2) - Len(b) BY <1>4, <1>6, <3>1, <3>3
      <4> QED BY <1>7, <2>2, <3>1, <3>3, <4>1
    <3> QED BY <3>2, <3>3
  <2> QED BY <2>1, <2>3, <2>4
<1>9. /\ Len(s) = 2 * m \/ (near[client] = "closed" /\ Len(s) = 2 * m + 1 /\ ~s[2 * m + 1].end)
      /\ \A j \in 1..m: s[2 * j - 1] = Start1(lines[k + j]) /\ s[2 * j] = End1(lines[k + j])
      /\ From(client) = Kept(SubSeq(lines, 1, k), GoodOnes)
  BY DEF TakenUpTo
<1>10. m - 1 \in Nat /\ m - 1 = Len(lines) - (k + 1) BY <1>2, <1>5
<1>11. \/ Len(Stream(client)') = 2 * (m - 1)
       \/ /\ near'[client] = "closed" /\ Len(Stream(client)') = 2 * (m - 1) + 1
          /\ ~Stream(client)'[2 * (m - 1) + 1].end
  <2> DEFINE t == Stream(client)'
  <2> HIDE DEF s, m, t
  <2>1. CASE Len(s) = 2 * m BY <1>5, <1>8, <2>1 DEF t
  <2>2. CASE near[client] = "closed" /\ Len(s) = 2 * m + 1 /\ ~s[2 * m + 1].end
    <3>1. 2 * (m - 1) + 1 \in 1..(Len(s) - 2) /\ (2 * (m - 1) + 1) + 2 = 2 * m + 1
      BY <1>5, <1>10, <2>2
    <3>2. t[2 * (m - 1) + 1] = s[2 * m + 1] BY <1>8, <3>1 DEF t
    <3>3. Len(t) = 2 * (m - 1) + 1 BY <1>5, <1>8, <2>2 DEF t
    <3> QED BY <1>3, <2>2, <3>2, <3>3 DEF t
  <2> QED BY <1>9, <2>1, <2>2
<1>12. ASSUME NEW j \in 1..(m - 1)
       PROVE  /\ Stream(client)'[2 * j - 1] = Start1(lines[(k + 1) + j])
              /\ Stream(client)'[2 * j] = End1(lines[(k + 1) + j])
  <2> HIDE DEF s, m
  <2>1. j + 1 \in 1..m /\ k + (j + 1) = (k + 1) + j BY <1>5
  <2>2. /\ 2 * j - 1 \in 1..(Len(s) - 2) /\ 2 * j \in 1..(Len(s) - 2)
        /\ (2 * j - 1) + 2 = 2 * (j + 1) - 1 /\ 2 * j + 2 = 2 * (j + 1)
    <3>1. j \in Nat /\ 2 * j <= 2 * m - 2 /\ 1 <= 2 * j - 1 BY <1>5
    <3>2. Len(s) = 2 * m \/ Len(s) = 2 * m + 1 BY <1>9
    <3> QED BY <1>5, <3>1, <3>2
  <2>3. /\ Stream(client)'[2 * j - 1] = s[2 * (j + 1) - 1]
        /\ Stream(client)'[2 * j] = s[2 * (j + 1)]
    BY <1>8, <2>2
  <2>4. /\ s[2 * (j + 1) - 1] = Start1(lines[k + (j + 1)])
        /\ s[2 * (j + 1)] = End1(lines[k + (j + 1)])
    BY <1>9, <2>1
  <2> QED BY <2>1, <2>3, <2>4
<1>13. From(client)' = Kept(SubSeq(lines, 1, k + 1), GoodOnes)
  <2> DEFINE u == SubSeq(lines, 1, k)
  <2>1. u \in Seq(Line) BY <1>5, KeptOfPrefix
  <2>2. SubSeq(lines, 1, k + 1) = Append(u, l)
    <3>1. 1 \in 1..Len(lines) /\ k + 1 \in 1..Len(lines) BY <1>2, <1>5
    <3>2. SubSeq(lines, 1, k + 1) = SubSeq(lines, 1, (k + 1) - 1) \o <<l>>
      BY <1>5, <3>1, SubSeqRecursiveSecond
    <3>3. (k + 1) - 1 = k BY <1>5
    <3> QED BY <1>2, <2>1, <3>2, <3>3, AppendIsConcat
  <2> HIDE DEF u, l
  <2>3. Kept(Append(u, l), GoodOnes) =
            IF l \in GoodOnes THEN Append(Kept(u, GoodOnes), l) ELSE Kept(u, GoodOnes)
    BY <1>2, <2>1, KeptAppend
  <2>4. l \in GoodOnes <=> Good(l) BY <1>2 DEF GoodOnes
  <2>5. l \in LinesOf(client) BY <1>2 DEF LinesOf
  <2>6. From(client)' = Kept(Received', LinesOf(client)) BY <1>3 DEF From, LinesOf
  <2>7. From(client) = Kept(Received, LinesOf(client)) BY DEF From, LinesOf
  <2>8. CASE Good(l)
    <3>1. Received' = Append(Received, l)
      <4>1. queue \in Seq(Line) /\ drained \in Seq(Line) BY DEF IInv, TypeOK
      <4>2. drained \o Append(queue, l) = Append(drained \o queue, l)
        BY <1>2, <4>1, SMTT(20)
      <4> QED BY <1>2, <1>3, <2>8, <4>2 DEF Received
    <3>2. Kept(Append(Received, l), LinesOf(client)) = Append(Kept(Received, LinesOf(client)), l)
      BY <1>2, <1>5, <2>5, KeptAppend
    <3> QED BY <1>9, <2>2, <2>3, <2>4, <2>6, <2>7, <2>8, <3>1, <3>2 DEF u
  <2>9. CASE ~Good(l)
    <3>1. Received' = Received BY <1>2, <1>3, <2>9 DEF Received
    <3> QED BY <1>9, <2>2, <2>3, <2>4, <2>6, <2>7, <2>9, <3>1 DEF u
  <2> QED BY <2>8, <2>9
<1> QED BY <1>3, <1>10, <1>11, <1>12, <1>13 DEF TakenUpTo

LEMMA TakeLineKeepsFeed == ASSUME IInv, FeedInv, TakeLine PROVE FeedInv'
<1>1. client \in Conns /\ far[client] = "served"
  BY DEF IInv, ThreadInv, ConnInv, Serving, TypeOK, TakeLine, Goto
<1>2. PICK k \in 0..Len(written[client]): TakenUpTo(client, k) BY <1>1 DEF FeedInv, InStep
<1> DEFINE l == written[client][k + 1]
<1>3. /\ k + 1 \in 0..Len(written[client]) /\ l \in Line /\ l.conn = client
      /\ queue' = IF Good(l) THEN Append(queue, l) ELSE queue
  BY <1>2, FirstLineTaken
<1>4. UNCHANGED <<drained, client, wire, near, far, written, cut, at>> /\ at = "lines"
  BY DEF TakeLine, Goto, kernelVars, ownerVars
<1>5. ASSUME NEW c \in Conns, c # client PROVE Still(c)
  <2>1. Stream(c)' = Stream(c) BY <1>4, <1>5 DEF Stream
  <2>2. Received' = Received \/ Received' = Append(Received, l)
    <3>1. queue \in Seq(Line) /\ drained \in Seq(Line) BY DEF IInv, TypeOK
    <3>2. drained \o Append(queue, l) = Append(drained \o queue, l) BY <1>3, <3>1
    <3> QED BY <1>3, <1>4, <3>2 DEF Received
  <2>3. l \notin LinesOf(c) BY <1>3, <1>5 DEF LinesOf
  <2>4. Received \in Seq(Line) BY StreamTypes
  <2> HIDE DEF l
  <2>5. Kept(Append(Received, l), LinesOf(c)) = Kept(Received, LinesOf(c))
    BY <1>3, <2>3, <2>4, KeptAppend
  <2>6. From(c)' = From(c) BY <2>2, <2>5 DEF From, LinesOf
  <2> QED BY <1>4, <2>1, <2>6 DEF Still
<1>6. TakenUpTo(client, k + 1)' BY <1>2, TakeLineMovesOn
<1>7. InStep'
  <2> SUFFICES ASSUME NEW c \in Conns, far'[c] # "closed"
               PROVE  \E j \in 0..Len(written'[c]): TakenUpTo(c, j)'
    BY DEF InStep
  <2>1. CASE c = client BY <1>3, <1>4, <1>6, <2>1
  <2>2. CASE c # client BY <1>4, <1>5, <2>2, StillInStep DEF FeedInv
  <2> QED BY <2>1, <2>2
<1>8. Settled' BY <1>1, <1>4, <1>5, StillSettled DEF Settled, FeedInv
<1> QED BY <1>4, <1>7, <1>8 DEF FeedInv, BufferRead, ReadToTheEnd

\* The server lets go of a client it has cut, or read to the end.
LEMMA CloseKeepsFeed == ASSUME IInv, FeedInv, CloseClient PROVE FeedInv'
<1> USE DEF CloseClient
<1>1. client \in Conns /\ far[client] = "served" /\ at = "closing"
  BY DEF IInv, ThreadInv, ConnInv, Serving, TypeOK
<1>2. \A c \in Conns: far'[c] = IF c = client THEN "closed" ELSE far[c]
  BY <1>1 DEF IInv, TypeOK
<1>3. UNCHANGED <<Received, wire, near, written, cut>> /\ client' = None /\ at' = "outer"
  BY DEF ownerVars, Received
<1>4. ASSUME NEW c \in Conns, c # client PROVE Still(c)
  BY <1>3, <1>4, ServerAssumption DEF Still, Stream, From
<1>5. /\ IsPrefix(From(client), GoodLines(client))
      /\ client \notin cut => From(client) = GoodLines(client)
  <2>1. PICK k \in 0..Len(written[client]): TakenUpTo(client, k) BY <1>1 DEF FeedInv, InStep
  <2>2. client \notin cut => Len(Stream(client)) <= 1 BY <1>1 DEF FeedInv, ReadToTheEnd
  <2> QED BY <1>1, <2>1, <2>2, TakenIsPrefix
<1>6. InStep' BY <1>2, <1>3, <1>4, StillInStep DEF InStep, FeedInv
<1>7. Settled'
  <2> SUFFICES ASSUME NEW c \in Conns, far'[c] = "closed"
               PROVE  /\ IsPrefix(From(c)', GoodLines(c)')
                      /\ c \notin cut' => From(c)' = GoodLines(c)'
    BY DEF Settled
  <2>1. CASE c = client
    <3>2. \A d: From(d)' = From(d) BY <1>3 DEF From
    <3>3. \A d: GoodLines(d)' = GoodLines(d) BY <1>3 DEF GoodLines
    <3> QED BY <1>3, <1>5, <2>1, <3>2, <3>3
  <2>2. CASE c # client BY <1>2, <1>3, <1>4, <2>2, StillSettled DEF FeedInv
  <2> QED BY <2>1, <2>2
<1> QED BY <1>3, <1>6, <1>7 DEF FeedInv, BufferRead, ReadToTheEnd

LEMMA ThreadKeepsFeed == ASSUME IInv, FeedInv, ThreadNext PROVE FeedInv'
BY ControlKeepsFeed, AcceptKeepsFeed, RecvKeepsFeed, TakeLineKeepsFeed, CloseKeepsFeed
   DEF ThreadNext, ThreadControl

\* A stream that grows: its lines keep their places.
LEMMA GrownStream ==
    ASSUME IInv, NEW c \in Conns, near[c] = "open", NEW pieces \in Seq(Piece),
           wire' = [wire EXCEPT ![c] = @ \o pieces], UNCHANGED <<client, lineBuf>>
    PROVE  /\ Len(Stream(c)') = Len(Stream(c)) + Len(pieces)
           /\ \A i \in 1..Len(Stream(c)): Stream(c)'[i] = Stream(c)[i]
           /\ \A i \in 1..Len(pieces): Stream(c)'[Len(Stream(c)) + i] = pieces[i]
           /\ \A d \in Conns \ {c}: Stream(d)' = Stream(d)
<1> DEFINE b == IF c = client THEN lineBuf ELSE <<>>
           w == wire[c]
           s == Stream(c)
<1>1. b \in Seq(Piece) /\ w \in Seq(Piece) BY EmptySeq DEF IInv, TypeOK
<1>2. \A d \in Conns: wire'[d] = IF d = c THEN w \o pieces ELSE wire[d] BY DEF IInv, TypeOK
<1>3. s \in Seq(Piece) /\ s = b \o w BY StreamTypes DEF Stream
<1>4. Stream(c)' = s \o pieces
  <2>1. Stream(c)' = b \o (w \o pieces) BY <1>2 DEF Stream
  <2> HIDE DEF b, w, s
  <2> QED BY <1>1, <1>3, <2>1, PiecesAssociate
<1>5. \A d \in Conns \ {c}: Stream(d)' = Stream(d) BY <1>2 DEF Stream
<1>6. /\ Len(s \o pieces) = Len(s) + Len(pieces) /\ Len(s) \in Nat /\ Len(pieces) \in Nat
      /\ \A i \in 1..(Len(s) + Len(pieces)):
             (s \o pieces)[i] = IF i <= Len(s) THEN s[i] ELSE pieces[i - Len(s)]
  <2>1. s \in Seq(Piece) BY <1>3
  <2> HIDE DEF s
  <2> QED BY <2>1, ConcatProperties, LenProperties
<1>7. /\ \A i \in 1..Len(s): (s \o pieces)[i] = s[i]
      /\ \A i \in 1..Len(pieces): (s \o pieces)[Len(s) + i] = pieces[i]
  <2> HIDE DEF s
  <2>1. \A i \in 1..Len(s): i \in 1..(Len(s) + Len(pieces)) /\ i <= Len(s) BY <1>6
  <2>2. \A i \in 1..Len(pieces):
            /\ Len(s) + i \in 1..(Len(s) + Len(pieces)) /\ ~ (Len(s) + i <= Len(s))
            /\ Len(s) + i - Len(s) = i
    BY <1>6
  <2> QED BY <1>6, <2>1, <2>2
<1> QED BY <1>4, <1>5, <1>6, <1>7

\* The connection whose client acts is still being read or waits to be.
LEMMA OpenIsReadable ==
    ASSUME FeedInv, NEW c \in Conns, near[c] = "open"
    PROVE  at \in {"hangup", "closing"} /\ client \notin cut => client # c
BY DEF FeedInv, ReadToTheEnd

LEMMA ConnectKeepsFeed == ASSUME IInv, FeedInv, NEW c \in Conns, Connect(c) PROVE FeedInv'
<1> USE DEF Connect
<1>1. UNCHANGED <<Received, lineBuf, client, wire, written, cut, at>>
  BY DEF threadVars, ownerVars, Received
<1>2. \A d \in Conns: Still(d) BY <1>1, QuietIsStill
<1>3. /\ \A d \in Conns: near'[d] = IF d = c THEN "open" ELSE near[d]
      /\ \A d \in Conns: far'[d] = IF d = c THEN "queued" ELSE far[d]
      /\ near[c] = "new" /\ far[c] = "new"
  BY DEF IInv, TypeOK, ConnInv
<1>4. InStep' BY <1>2, <1>3, StillInStep DEF InStep, FeedInv
<1>5. Settled' BY <1>1, <1>2, <1>3, StillSettled DEF Settled, FeedInv
<1>6. near[client] = "closed" /\ client \in Conns => near'[client] = "closed" BY <1>3
<1>7. at \in {"hangup", "closing"} => client \in Conns BY DEF IInv, TypeOK, ThreadInv, Serving
<1> QED BY <1>1, <1>4, <1>5, <1>6, <1>7 DEF FeedInv, BufferRead, ReadToTheEnd, NoLine, Stream

LEMMA SendKeepsFeed ==
    ASSUME IInv, FeedInv, NEW c \in Conns, NEW l \in Line, SendLine(c, l)
    PROVE  FeedInv'
<1> USE DEF SendLine
<1>1. UNCHANGED <<Received, lineBuf, client, near, far, cut, at>>
  BY DEF threadVars, ownerVars, Received
<1>2. /\ Pieces(l) \in Seq(Piece) /\ Len(Pieces(l)) = 2
      /\ Pieces(l)[1] = Start1(l) /\ Pieces(l)[2] = End1(l)
  <2>1. Start1(l) \in Piece /\ End1(l) \in Piece BY DEF Start1, End1, Piece
  <2> QED BY <2>1 DEF Pieces
<1> DEFINE s == Stream(c)
           lines == written[c]
<1>3. /\ Len(Stream(c)') = Len(s) + 2
      /\ \A i \in 1..Len(s): Stream(c)'[i] = s[i]
      /\ Stream(c)'[Len(s) + 1] = Start1(l) /\ Stream(c)'[Len(s) + 2] = End1(l)
      /\ \A d \in Conns \ {c}: Stream(d)' = Stream(d)
  <2>1. wire' = [wire EXCEPT ![c] = @ \o Pieces(l)] /\ near[c] = "open" OBVIOUS
  <2>2. /\ Len(Stream(c)') = Len(Stream(c)) + Len(Pieces(l))
        /\ \A i \in 1..Len(Stream(c)): Stream(c)'[i] = Stream(c)[i]
        /\ \A i \in 1..Len(Pieces(l)): Stream(c)'[Len(Stream(c)) + i] = Pieces(l)[i]
        /\ \A d \in Conns \ {c}: Stream(d)' = Stream(d)
    BY <1>1, <1>2, <2>1, GrownStream
  <2>3. 1 \in 1..Len(Pieces(l)) /\ 2 \in 1..Len(Pieces(l)) BY <1>2
  <2> QED BY <1>2, <2>2, <2>3
<1>4. /\ lines \in Seq(Line) /\ Len(lines) \in Nat
      /\ \A d \in Conns: written'[d] = IF d = c THEN Append(lines, l) ELSE written[d]
  BY StreamTypes DEF IInv, TypeOK
<1>5. /\ Len(Append(lines, l)) = Len(lines) + 1 /\ Append(lines, l)[Len(lines) + 1] = l
      /\ \A i \in 1..Len(lines): Append(lines, l)[i] = lines[i]
      /\ Append(lines, l) \in Seq(Line)
  BY <1>4, AppendProperties
<1>6. PICK k \in 0..Len(lines): TakenUpTo(c, k) BY DEF FeedInv, InStep
<1> DEFINE n == Len(lines) - k
<1>7. /\ Len(s) = 2 * n /\ n \in Nat /\ k \in Nat
      /\ \A j \in 1..n: s[2 * j - 1] = Start1(lines[k + j]) /\ s[2 * j] = End1(lines[k + j])
      /\ From(c) = Kept(SubSeq(lines, 1, k), GoodOnes)
  BY <1>4, <1>6 DEF TakenUpTo
<1>8. written'[c] = Append(lines, l) /\ Len(written'[c]) - k = n + 1 /\ k \in 0..Len(written'[c])
  <2>1. written'[c] = Append(lines, l) BY <1>4
  <2>2. Len(lines) + 1 - k = n + 1 /\ k \in 0..(Len(lines) + 1) BY <1>4
  <2> HIDE DEF lines, n
  <2> QED BY <1>5, <2>1, <2>2
<1>9. ASSUME NEW j \in 1..(n + 1)
      PROVE  /\ Stream(c)'[2 * j - 1] = Start1(written'[c][k + j])
             /\ Stream(c)'[2 * j] = End1(written'[c][k + j])
  <2>1. n \in Nat /\ n + k = Len(lines) BY <1>4, <1>7
  <2> HIDE DEF n, s, lines
  <2>2. CASE j = n + 1
    <3>1. 2 * j - 1 = Len(s) + 1 /\ 2 * j = Len(s) + 2 /\ k + j = Len(lines) + 1
      BY <1>7, <2>1, <2>2
    <3> QED BY <1>3, <1>5, <1>8, <3>1
  <2>3. CASE j \in 1..n
    <3>1. 2 * j - 1 \in 1..Len(s) /\ 2 * j \in 1..Len(s) /\ k + j \in 1..Len(lines)
      BY <1>7, <2>1, <2>3
    <3> QED BY <1>3, <1>5, <1>7, <1>8, <2>3, <3>1
  <2>4. j = n + 1 \/ j \in 1..n BY <2>1
  <2> QED BY <2>2, <2>3, <2>4
<1>10. SubSeq(written'[c], 1, k) = SubSeq(lines, 1, k)
  <2> DEFINE longer == Append(lines, l)
  <2>1. \A i \in 1..k: longer[i] = lines[i] /\ lines[i] \in Line /\ longer[i] \in Line
    <3>1. \A i \in 1..Len(lines): lines[i] \in Line BY <1>4, ElementOfSeq
    <3> QED BY <1>4, <1>5, <3>1
  <2> HIDE DEF longer, lines
  <2>2. 1 \in Int /\ k \in Int BY <1>7
  <2>3. /\ SubSeq(longer, 1, k) \in Seq(Line)
        /\ Len(SubSeq(longer, 1, k)) = IF 1 <= k THEN k - 1 + 1 ELSE 0
        /\ \A i \in 1..(k - 1 + 1): SubSeq(longer, 1, k)[i] = longer[1 + i - 1]
    BY <2>1, <2>2, SubSeqProperties
  <2>4. /\ SubSeq(lines, 1, k) \in Seq(Line)
        /\ Len(SubSeq(lines, 1, k)) = IF 1 <= k THEN k - 1 + 1 ELSE 0
        /\ \A i \in 1..(k - 1 + 1): SubSeq(lines, 1, k)[i] = lines[1 + i - 1]
    BY <2>1, <2>2, SubSeqProperties
  <2>5. \A i \in 1..Len(SubSeq(longer, 1, k)): SubSeq(longer, 1, k)[i] = SubSeq(lines, 1, k)[i]
    <3>1. k - 1 + 1 = k /\ (IF 1 <= k THEN k - 1 + 1 ELSE 0) = k /\ \A i \in 1..k: 1 + i - 1 = i
      BY <1>7
    <3> QED BY <2>1, <2>3, <2>4, <3>1
  <2>6. SubSeq(longer, 1, k) = SubSeq(lines, 1, k) BY <2>3, <2>4, <2>5, SeqEqual
  <2> QED BY <1>8, <2>6 DEF longer
<1>11. From(c)' = From(c) /\ \A d \in Conns: From(d)' = From(d) BY <1>1 DEF From
<1>12. TakenUpTo(c, k)'
  <2>1. Len(Stream(c)') = 2 * (n + 1) BY <1>3, <1>7
  <2> HIDE DEF n, s
  <2> QED BY <1>7, <1>8, <1>9, <1>10, <1>11, <2>1 DEF TakenUpTo
<1>13. \A d \in Conns \ {c}: Still(d) BY <1>3, <1>4, <1>11 DEF Still
<1>14. InStep'
  <2> SUFFICES ASSUME NEW d \in Conns, far'[d] # "closed"
               PROVE  \E j \in 0..Len(written'[d]): TakenUpTo(d, j)'
    BY DEF InStep
  <2>1. CASE d = c BY <1>8, <1>12, <2>1
  <2>2. CASE d # c BY <1>1, <1>13, <2>2, StillInStep DEF FeedInv
  <2> QED BY <2>1, <2>2
<1>15. Settled' BY <1>1, <1>13, StillSettled DEF Settled, FeedInv
<1>16. at \in {"hangup", "closing"} => client \in Conns BY DEF IInv, TypeOK, ThreadInv, Serving
<1>17. ReadToTheEnd'
  BY <1>1, <1>3, <1>16, OpenIsReadable DEF FeedInv, ReadToTheEnd
<1> QED BY <1>1, <1>14, <1>15, <1>17 DEF FeedInv, BufferRead, NoLine

LEMMA CloseNearKeepsFeed == ASSUME IInv, FeedInv, NEW c \in Conns, CloseNear(c) PROVE FeedInv'
<1>1. UNCHANGED <<Received, lineBuf, client, wire, far, written, cut, at>>
  BY DEF CloseNear, threadVars, ownerVars, Received
<1>2. \A d \in Conns: near[d] = "closed" => near'[d] = "closed" BY DEF CloseNear, IInv, TypeOK
<1>3. InStep' /\ Settled' BY <1>1, <1>2, QuietIsStill, StillKeeps
<1>4. at \in {"hangup", "closing"} => client \in Conns BY DEF IInv, TypeOK, ThreadInv, Serving
<1> QED BY <1>1, <1>2, <1>3, <1>4 DEF FeedInv, BufferRead, ReadToTheEnd, NoLine, Stream

LEMMA DieKeepsFeed ==
    ASSUME IInv, FeedInv, NEW c \in Conns, NEW l \in Line, DieInsideLine(c, l)
    PROVE  FeedInv'
<1> USE DEF DieInsideLine
<1> DEFINE half == <<Start1(l)>>
           s == Stream(c)
<1>1. UNCHANGED <<Received, lineBuf, client, far, written, cut, at>>
  BY DEF threadVars, ownerVars, Received
<1>2. half \in Seq(Piece) /\ Len(half) = 1 /\ half[1] = Start1(l)
  <2>1. Start1(l) \in Piece BY DEF Start1, Piece
  <2> QED BY <2>1
<1>3. wire' = [wire EXCEPT ![c] = @ \o half] /\ near[c] = "open"
  <2>1. wire[c] \in Seq(Piece) /\ Start1(l) \in Piece BY DEF IInv, TypeOK, Start1, Piece
  <2>2. Append(wire[c], Start1(l)) = wire[c] \o half BY <2>1, AppendIsConcat
  <2> QED BY <2>2
<1>4. /\ Len(Stream(c)') = Len(s) + 1
      /\ \A i \in 1..Len(s): Stream(c)'[i] = s[i]
      /\ Stream(c)'[Len(s) + 1] = Start1(l)
      /\ \A d \in Conns \ {c}: Stream(d)' = Stream(d)
  <2> HIDE DEF half
  <2>1. /\ Len(Stream(c)') = Len(Stream(c)) + Len(half)
        /\ \A i \in 1..Len(Stream(c)): Stream(c)'[i] = Stream(c)[i]
        /\ \A i \in 1..Len(half): Stream(c)'[Len(Stream(c)) + i] = half[i]
        /\ \A d \in Conns \ {c}: Stream(d)' = Stream(d)
    BY <1>1, <1>2, <1>3, GrownStream
  <2>2. 1 \in 1..Len(half) BY <1>2
  <2> QED BY <1>2, <2>1, <2>2
<1>5. PICK k \in 0..Len(written[c]): TakenUpTo(c, k) BY DEF FeedInv, InStep
<1> DEFINE n == Len(written[c]) - k
<1>6. /\ Len(s) = 2 * n /\ n \in Nat
      /\ \A j \in 1..n: /\ s[2 * j - 1] = Start1(written[c][k + j])
                        /\ s[2 * j] = End1(written[c][k + j])
  BY <1>5, StreamTypes DEF TakenUpTo
<1>7. near'[c] = "closed" /\ \A d \in Conns: near[d] = "closed" => near'[d] = "closed"
  BY DEF IInv, TypeOK
<1>8. \A d \in Conns: From(d)' = From(d) BY <1>1 DEF From
<1>9. TakenUpTo(c, k)'
  <2> HIDE DEF n, s
  <2>1. Len(Stream(c)') = 2 * n + 1 /\ ~Stream(c)'[2 * n + 1].end
    BY <1>4, <1>6 DEF Start1
  <2>2. \A j \in 1..n: 2 * j - 1 \in 1..Len(s) /\ 2 * j \in 1..Len(s) BY <1>6
  <2>3. \A j \in 1..n: /\ Stream(c)'[2 * j - 1] = Start1(written[c][k + j])
                       /\ Stream(c)'[2 * j] = End1(written[c][k + j])
    BY <1>4, <1>6, <2>2
  <2>4. From(c)' = Kept(SubSeq(written[c], 1, k), GoodOnes) BY <1>5, <1>8 DEF TakenUpTo
  <2> QED BY <1>1, <1>7, <2>1, <2>3, <2>4 DEF TakenUpTo, n
<1>10. \A d \in Conns \ {c}: Still(d) BY <1>1, <1>4, <1>8 DEF Still
<1>11. InStep'
  <2> SUFFICES ASSUME NEW d \in Conns, far'[d] # "closed"
               PROVE  \E j \in 0..Len(written'[d]): TakenUpTo(d, j)'
    BY DEF InStep
  <2>1. CASE d = c BY <1>1, <1>9, <2>1
  <2>2. CASE d # c BY <1>1, <1>7, <1>10, <2>2, StillInStep DEF FeedInv
  <2> QED BY <2>1, <2>2
<1>12. Settled' BY <1>1, <1>10, StillSettled DEF Settled, FeedInv
<1>13. at \in {"hangup", "closing"} => client \in Conns BY DEF IInv, TypeOK, ThreadInv, Serving
<1>14. ReadToTheEnd'
  BY <1>1, <1>3, <1>4, <1>7, <1>13, OpenIsReadable DEF FeedInv, ReadToTheEnd
<1> QED BY <1>1, <1>11, <1>12, <1>14 DEF FeedInv, BufferRead, NoLine

LEMMA ClientKeepsFeed == ASSUME IInv, FeedInv, ClientNext PROVE FeedInv'
<1>1. \A c \in Conns: \A ft \in 0..1: NextLine(c, ft) \in Line
  BY LenProperties DEF NextLine, Line, IInv, TypeOK
<1>2. PICK c \in Conns:
        \/ Connect(c)
        \/ \E ft \in 0..1: SendLine(c, NextLine(c, ft))
        \/ CloseNear(c)
        \/ DieInsideLine(c, NextLine(c, 1))
  BY DEF ClientNext
<1>3. CASE Connect(c) BY <1>3, ConnectKeepsFeed
<1>4. CASE \E ft \in 0..1: SendLine(c, NextLine(c, ft)) BY <1>1, <1>4, SendKeepsFeed
<1>5. CASE CloseNear(c) BY <1>5, CloseNearKeepsFeed
<1>6. CASE DieInsideLine(c, NextLine(c, 1)) BY <1>1, <1>6, DieKeepsFeed
<1> QED BY <1>2, <1>3, <1>4, <1>5, <1>6

LEMMA FeedInvariance == Spec => []FeedInv
<1>1. IInv /\ FeedInv /\ UNCHANGED serverVars => FeedInv'
  <2> SUFFICES ASSUME FeedInv, UNCHANGED serverVars PROVE FeedInv' OBVIOUS
  <2>1. UNCHANGED <<Received, lineBuf, client, wire, near, far, written, cut, at>>
    BY DEF serverVars, kernelVars, threadVars, ownerVars, Received
  <2>2. InStep' /\ Settled' BY <2>1, QuietIsStill, StillKeeps
  <2> QED BY <2>1, <2>2 DEF FeedInv, BufferRead, ReadToTheEnd, NoLine, Stream
<1>2. IInv /\ FeedInv /\ [Next]_serverVars => FeedInv'
  BY <1>1, OwnerKeepsFeed, ThreadKeepsFeed, ClientKeepsFeed DEF Next
<1> QED BY InitFeed, Invariance, <1>2, PTL DEF Spec

\* The owner gets, of every connection, a prefix of the valid lines written on
\* it, however recv splits the stream, whoever dies inside a line, and through
\* every Stop and Start.
THEOREM FeedPrefix == Spec => []FeedIsPrefix
<1>1. ASSUME IInv, FeedInv PROVE FeedIsPrefix
  <2> SUFFICES ASSUME NEW c \in Conns PROVE IsPrefix(From(c), GoodLines(c))
    BY DEF FeedIsPrefix
  <2>1. CASE far[c] = "closed" BY <1>1, <2>1 DEF FeedInv, Settled
  <2>2. CASE far[c] # "closed"
    <3>1. PICK k \in 0..Len(written[c]): TakenUpTo(c, k) BY <1>1, <2>2 DEF FeedInv, InStep
    <3> QED BY <1>1, <3>1, TakenIsPrefix
  <2> QED BY <2>1, <2>2
<1> QED BY <1>1, Invariance, FeedInvariance, PTL

\* A client the server let go of by itself, not because of Stop or a failing
\* call, has had all its valid lines taken.
THEOREM ClosedReadToTheEnd == Spec => []ClosedMeansReadToTheEnd
<1>1. FeedInv => ClosedMeansReadToTheEnd BY DEF FeedInv, Settled, ClosedMeansReadToTheEnd
<1> QED BY <1>1, FeedInvariance, PTL

-----------------------------------------------------------------------------
(* The server implements Feed *)

\* Feed's state, as the server keeps it.
ServingNow == IF hasClient THEN client ELSE None
Queued     == [i \in DOMAIN queue |-> queue[i].conn]
Gone       == {c \in Conns: far[c] = "closed" \/ (c = client /\ at = "closing")}

\* Most of the server's steps are none of Feed's.
Unseen == UNCHANGED <<ServingNow, Queued, Gone>>

LEMMA OwnerRefines ==
    ASSUME IInv, OwnerNext PROVE Abstract!FeedNext \/ Unseen
<1> USE DEF ServingNow, Queued, Gone, Unseen
<1>1. CASE Start \/ Stop \/ StopWake
  BY <1>1 DEF Start, Stop, StopWake, IInv, OwnerInv, kernelVars, threadVars
<1>2. CASE DrainSamples
  <2>1. Queued' = <<>> BY <1>2 DEF DrainSamples
  <2>2. Abstract!Drain BY <1>2, <2>1 DEF DrainSamples, Abstract!Drain, kernelVars
  <2> QED BY <2>2 DEF Abstract!FeedNext
<1>3. CASE StopJoin BY <1>3 DEF StopJoin, kernelVars
<1>4. CASE StopClose
  <2> DEFINE refused == {c \in Conns: far[c] = "queued"}
  <2>1. at = "none" /\ ~hasClient
    BY <1>4 DEF StopClose, IInv, OwnerInv, ThreadInv, Reading
  <2>2. Gone' = Gone \union refused BY <1>4, <2>1 DEF StopClose
  <2>3. \E clients \in SUBSET Conns:
            ServingNow \notin clients /\ Gone' = Gone \union clients
    <3>1. refused \in SUBSET Conns /\ ServingNow \notin refused BY <2>1, ServerAssumption
    <3> QED BY <2>2, <3>1
  <2>4. UNCHANGED <<ServingNow, Queued>> BY <1>4, <2>1 DEF StopClose
  <2> QED BY <2>3, <2>4 DEF Abstract!FeedNext, Abstract!Refuse
<1> QED BY <1>1, <1>2, <1>3, <1>4 DEF OwnerNext

LEMMA ThreadRefines ==
    ASSUME IInv, ThreadNext PROVE Abstract!FeedNext \/ Unseen
<1> USE DEF ServingNow, Queued, Gone, Unseen
<1>1. CASE OuterCheck \/ WokenOutside \/ AcceptFails
  BY <1>1 DEF OuterCheck, WokenOutside, AcceptFails, Goto, kernelVars
<1>2. CASE InnerCheck \/ WokenInside \/ PollTimeout \/ RecvEof \/ RecvFails \/ LinesTaken
  BY <1>2 DEF InnerCheck, WokenInside, PollTimeout, RecvEof, RecvFails, LinesTaken,
     Goto, kernelVars
<1>3. CASE Recv BY <1>3 DEF Recv
<1>4. CASE Accept
  <2>1. ~hasClient BY <1>4 DEF Accept, IInv, ThreadInv, Reading
  <2>2. /\ Head(backlog) \in Conns /\ far[Head(backlog)] = "queued"
    <3>1. backlog \in Seq(Conns) /\ backlog # <<>> BY <1>4 DEF Accept, IInv, TypeOK
    <3>2. 1 \in DOMAIN backlog /\ Head(backlog) = backlog[1]
      BY <3>1, EmptySeq, LenProperties
    <3> QED BY <3>1, <3>2, HeadTailProperties DEF IInv, ConnInv
  <2>3. Gone' = Gone BY <1>4, <2>2 DEF Accept, IInv, TypeOK
  <2> QED BY <1>4, <2>1, <2>3 DEF Accept
<1>5. CASE Greet
  <2>1. client \in Conns /\ far[client] = "served" /\ ~hasClient
    BY <1>5 DEF Greet, Goto, IInv, ThreadInv, ConnInv, TypeOK, Serving, Reading
  <2>2. Abstract!Serve(client)
    BY <1>5, <2>1 DEF Greet, Goto, Abstract!Serve, Abstract!HasClient, kernelVars
  <2> QED BY <2>1, <2>2 DEF Abstract!FeedNext
<1>6. CASE Hangup
  <2>1. client \in Conns /\ hasClient
    BY <1>6 DEF Hangup, Goto, IInv, ThreadInv, TypeOK, Serving, Reading
  <2>2. Gone' = Gone \union {client} BY <1>6, <2>1 DEF Hangup, Goto, kernelVars
  <2>3. Abstract!Leave
    BY <1>6, <2>1, <2>2, ServerAssumption
    DEF Hangup, Goto, Abstract!Leave, Abstract!HasClient, kernelVars
  <2> QED BY <2>3 DEF Abstract!FeedNext
<1>7. CASE CloseClient
  <2>1. client \in Conns /\ ~hasClient
    BY <1>7 DEF CloseClient, IInv, ThreadInv, TypeOK, Serving, Reading
  <2>2. Gone' = Gone BY <1>7, <2>1, ServerAssumption DEF CloseClient, IInv, TypeOK
  <2> QED BY <1>7, <2>1, <2>2 DEF CloseClient
<1>8. CASE TakeLine
  <2>1. hasClient /\ client \in Conns /\ UNCHANGED <<ServingNow, Gone>>
    BY <1>8, TakenLine
    DEF TakeLine, Goto, IInv, ThreadInv, TypeOK, Serving, Reading, kernelVars
  <2>2. CASE queue' = queue BY <2>1, <2>2
  <2>3. ASSUME NEW l \in Line, l.conn = client, queue' = Append(queue, l)
        PROVE  Abstract!FeedNext
    <3>1. queue \in Seq(Line) BY DEF IInv, TypeOK
    <3>2. /\ Len(queue) \in Nat /\ DOMAIN queue = 1..Len(queue)
          /\ DOMAIN queue' = 1..(Len(queue) + 1)
          /\ \A i \in 1..Len(queue): queue'[i] = queue[i]
          /\ queue'[Len(queue) + 1] = l
      <4>1. Append(queue, l) \in Seq(Line) /\ Len(Append(queue, l)) = Len(queue) + 1
        BY <3>1, AppendProperties
      <4> QED BY <2>3, <3>1, <4>1, AppendProperties, LenProperties
    <3>3. \A i \in 1..Len(queue): queue[i].conn \in Conns
      <4>1. \A i \in 1..Len(queue): queue[i] \in Line BY <3>1, ElementOfSeq
      <4> QED BY <4>1 DEF Line
    <3>4. Queued \in Seq(Conns) /\ Len(Queued) = Len(queue) BY <3>2, <3>3
    <3>5. Queued' \in Seq(Conns) /\ Len(Queued') = Len(queue) + 1 BY <2>1, <2>3, <3>2, <3>3
    <3>6. /\ Append(Queued, client) \in Seq(Conns)
          /\ Len(Append(Queued, client)) = Len(queue) + 1
          /\ \A i \in 1..Len(queue): Append(Queued, client)[i] = Queued[i]
          /\ Append(Queued, client)[Len(queue) + 1] = client
      BY <2>1, <3>4, AppendProperties
    <3>7. \A i \in 1..(Len(queue) + 1): Queued'[i] = Append(Queued, client)[i]
      BY <2>3, <3>2, <3>6
    <3>8. Queued' = Append(Queued, client) BY <3>5, <3>6, <3>7, SeqEqual
    <3>9. Abstract!Deliver
      BY <2>1, <3>8, ServerAssumption DEF Abstract!Deliver, Abstract!HasClient
    <3> QED BY <3>9 DEF Abstract!FeedNext
  <2> QED BY <1>8, <2>2, <2>3, TakenLine
<1> QED BY <1>1, <1>2, <1>3, <1>4, <1>5, <1>6, <1>7, <1>8 DEF ThreadNext

\* A client that connects was not served before; otherwise Feed's state is the
\* server's own.
LEMMA ClientRefines == ASSUME IInv, ClientNext PROVE Unseen
<1>1. UNCHANGED threadVars
  BY DEF ClientNext, Connect, SendLine, CloseNear, DieInsideLine
<1>2. \A c \in Conns: far'[c] = "closed" <=> far[c] = "closed"
  <2>1. CASE UNCHANGED far BY <2>1
  <2>2. ASSUME NEW c \in Conns, Connect(c)
        PROVE  \A d \in Conns: far'[d] = "closed" <=> far[d] = "closed"
    BY <2>2 DEF Connect, IInv, ConnInv, TypeOK
  <2> QED BY <2>1, <2>2 DEF ClientNext, SendLine, CloseNear, DieInsideLine
<1> QED BY <1>1, <1>2 DEF Unseen, ServingNow, Queued, Gone, threadVars

\* The viewers may be written against Feed: whatever recv splits, whichever
\* call fails and however often the server is stopped and started, the
\* server's HasClient and its queue are a feed's.
THEOREM ServerImplementsFeed == Spec => ImplementsFeed
<1>1. Init => Abstract!FeedInit
  BY DEF Init, ServerInit, Abstract!FeedInit
<1>2. IInv /\ [Next]_serverVars => [Abstract!FeedNext]_(Abstract!feedVars)
  <2> SUFFICES ASSUME IInv, [Next]_serverVars
               PROVE  Abstract!FeedNext \/ UNCHANGED Abstract!feedVars
    OBVIOUS
  <2>1. UNCHANGED serverVars => Unseen
    BY DEF serverVars, kernelVars, threadVars, ownerVars, Unseen, ServingNow, Queued, Gone
  <2>2. Unseen => UNCHANGED Abstract!feedVars
    BY DEF Unseen, ServingNow, Queued, Gone, Abstract!feedVars
  <2> QED BY <2>1, <2>2, OwnerRefines, ThreadRefines, ClientRefines DEF Next
<1> QED BY <1>1, <1>2, Invariance, PTL DEF Spec, ImplementsFeed, Abstract!FeedSpec
=============================================================================
