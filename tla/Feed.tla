-------------------------------- MODULE Feed --------------------------------
(***************************************************************************)
(* What a viewer may rely on of IpcServer, by its public calls: HasClient  *)
(* (src/ipc/ipc_server.cpp, has_client_) and DrainSamples.  One client at  *)
(* a time is served; samples are queued only while it is, and a client     *)
(* that was let go never comes back -- its samples may still be queued.    *)
(* IpcServer is shown to implement FeedSpec; the viewers are written       *)
(* against it.                                                             *)
(***************************************************************************)
EXTENDS Sequences

CONSTANTS
    Clients,  \* the connections games may ever open
    None      \* nobody is being served

ASSUME FeedAssumption == None \notin Clients

VARIABLES
    serving,  \* the client being served
    queue,    \* the clients whose samples wait to be drained, in order
    gone      \* the clients that were served and let go, or never served

feedVars == <<serving, queue, gone>>

HasClient == serving # None

FeedInit == serving = None /\ queue = <<>> /\ gone = {}

Serve(c) ==
    /\ ~HasClient /\ c \notin gone
    /\ serving' = c
    /\ UNCHANGED <<queue, gone>>

Deliver ==
    /\ HasClient
    /\ queue' = Append(queue, serving)
    /\ UNCHANGED <<serving, gone>>

Leave ==
    /\ HasClient
    /\ serving' = None /\ gone' = gone \union {serving}
    /\ UNCHANGED queue

\* Clients in the listen queue when the server is stopped.
Refuse(clients) ==
    /\ serving \notin clients
    /\ gone' = gone \union clients
    /\ UNCHANGED <<serving, queue>>

Drain == queue' = <<>> /\ UNCHANGED <<serving, gone>>

FeedNext ==
    \/ \E c \in Clients: Serve(c)
    \/ Deliver \/ Leave \/ Drain
    \/ \E clients \in SUBSET Clients: Refuse(clients)

FeedSpec == FeedInit /\ [][FeedNext]_feedVars
=============================================================================
