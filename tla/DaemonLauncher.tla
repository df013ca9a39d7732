--------------------------- MODULE DaemonLauncher ---------------------------
(***************************************************************************)
(* daemon-utils: processes that want to talk to a service start it if it    *)
(* is not there (daemon_launcher::open) and the service stops when its last *)
(* client has gone (auto_shutdown_service over unix_service_impl).          *)
(*                                                                         *)
(* Client processes and daemons share one thing, the socket file at         *)
(* service_path: path is the daemon whose socket the file names, whether    *)
(* that daemon still listens or not.  A connection is named by its client   *)
(* and by how many connections the client has made.                         *)
(***************************************************************************)
EXTENDS Integers, Sequences, FiniteSets, SequencesExt

CONSTANTS Clients,
          MaxDaemons,          \* bound: daemons started in a behaviour
          MaxOpens,            \* bound: connections made by each client
          MaxKills             \* bound: daemons that die without cleaning up

ASSUME BoundsAreNat ==
  MaxDaemons \in Nat /\ MaxKills \in Nat /\ MaxOpens \in [Clients -> Nat]

Daemons == 1 .. MaxDaemons
None == 0

VARIABLES
  cpc,         \* where each client is in open(), or "connected", "failed", "crashed"
  onIo,        \* open() was called on the client's epoll thread, by connection_closed
  opens,       \* connections made by each client
  peer,        \* daemon of a client's last connection
  watch,       \* the client's inotify watch exists
  events,      \* IN_CREATE events of service_path not yet read
  promise,     \* stop_promise is set
  child,       \* daemon the client has started in this open(), or None
  dpc,         \* state of each daemon
  ready,       \* epoll has an event for the daemon's listening socket
  backlog,     \* connections not yet accepted
  conns,       \* connections the daemon has accepted
  count,       \* the int connections of auto_shutdown_service
  stop,        \* requested_shutdown
  path,        \* whose socket service_path is, or None
  kills,       \* daemons that were killed
  overlap,     \* history: two daemon processes existed at the same time
  coalesced,   \* history: daemons whose event for a connection was merged with another
  uncounted,   \* history: daemons that accepted a connection while they were constructed
  foreign      \* history: clients whose watch saw the file of a daemon they did not start

opening == <<watch, events, promise, child, foreign>>
clientVars == <<cpc, onIo, opens, peer, opening>>
serverVars == <<ready, backlog, conns, count, stop, uncounted>>
world == <<path, kills, overlap>>
vars == <<clientVars, dpc, serverVars, world, coalesced>>

Init == /\ cpc = [c \in Clients |-> "none"] /\ onIo = [c \in Clients |-> FALSE]
        /\ opens = [c \in Clients |-> 0] /\ peer = [c \in Clients |-> None]
        /\ watch = [c \in Clients |-> FALSE] /\ events = [c \in Clients |-> 0]
        /\ promise = [c \in Clients |-> FALSE] /\ child = [c \in Clients |-> None]
        /\ dpc = [d \in Daemons |-> "unused"]
        /\ ready = [d \in Daemons |-> FALSE] /\ backlog = [d \in Daemons |-> <<>>]
        /\ conns = [d \in Daemons |-> {}] /\ count = [d \in Daemons |-> 0]
        /\ stop = [d \in Daemons |-> FALSE] /\ uncounted = {}
        /\ path = None /\ kills = 0 /\ overlap = FALSE /\ coalesced = {} /\ foreign = {}

Alive(d) == dpc[d] \notin {"unused", "dead"}
Listening(d) == dpc[d] \in {"constructing", "listening"}
Serving(d) == Listening(d) \/ dpc[d] \in {"unlinking", "exiting"}

----------------------------------------------------------------------------
(* impl.open(service_path) *)

(* connect() reaches the daemon the file names if that daemon listens *)
Reached == path # None /\ Listening(path)

(* the local variables of open() are gone, and the watch is closed *)
Forget(c) ==
  /\ watch' = [watch EXCEPT ![c] = FALSE] /\ events' = [events EXCEPT ![c] = 0]
  /\ promise' = [promise EXCEPT ![c] = FALSE] /\ child' = [child EXCEPT ![c] = None]
  /\ foreign' = foreign \ {c} /\ onIo' = [onIo EXCEPT ![c] = FALSE]

Connect(c) ==
  /\ cpc' = [cpc EXCEPT ![c] = "connected"]
  /\ opens' = [opens EXCEPT ![c] = @ + 1]
  /\ peer' = [peer EXCEPT ![c] = path]
  /\ backlog' = [backlog EXCEPT ![path] = Append(@, <<c, opens[c] + 1>>)]
  /\ ready' = [ready EXCEPT ![path] = TRUE]
  /\ coalesced' = IF ready[path] THEN coalesced \cup {path} ELSE coalesced
  /\ Forget(c)
  /\ UNCHANGED <<conns, count, stop, uncounted>>

Continue(c, next) ==
  /\ cpc' = [cpc EXCEPT ![c] = next]
  /\ UNCHANGED <<onIo, opens, peer, opening, serverVars, coalesced>>

(* an exception out of open(); on the epoll thread nothing catches it *)
Fails(c) == Continue(c, IF onIo[c] THEN "crashed" ELSE "failed")

(* a client is constructed *)
NewClient(c) ==
  /\ cpc[c] = "none" /\ opens[c] < MaxOpens[c]
  /\ cpc' = [cpc EXCEPT ![c] = "try"]
  /\ UNCHANGED <<onIo, opens, peer, opening, dpc, serverVars, world, coalesced>>

(* open(): try the file if it is there *)
TryOpen(c) ==
  /\ cpc[c] = "try"
  /\ IF Reached THEN Connect(c) ELSE Continue(c, "watch")
  /\ UNCHANGED <<dpc, world>>

\* Mutant: the watch cannot be added and open() goes on.
AddWatch_Unchecked(c) ==
  /\ cpc[c] = "watch"
  /\ cpc' = [cpc EXCEPT ![c] = "retry"]
  /\ UNCHANGED <<onIo, opens, peer, opening, dpc, serverVars, world, coalesced>>

(* watch the directory, or throw *)
AddWatch(c) ==
  /\ cpc[c] = "watch"
  /\ \/ /\ cpc' = [cpc EXCEPT ![c] = "retry"]
        /\ watch' = [watch EXCEPT ![c] = TRUE]
        /\ UNCHANGED <<onIo, opens, peer, events, promise, child, foreign, serverVars, coalesced>>
     \/ Fails(c)
  /\ UNCHANGED <<dpc, world>>

(* "in case the service was started in the meanwhile" *)
TryAgain(c) ==
  /\ cpc[c] = "retry"
  /\ IF Reached THEN Connect(c) ELSE Continue(c, "start")
  /\ UNCHANGED <<dpc, world>>

(* start() forks the daemon, or throws *)
Start(c) ==
  /\ cpc[c] = "start"
  /\ \/ \E d \in Daemons :
          /\ dpc[d] = "unused" /\ \A e \in 1 .. d - 1 : dpc[e] # "unused"
          /\ dpc' = [dpc EXCEPT ![d] = "starting"]
          /\ overlap' = (overlap \/ \E e \in Daemons : Alive(e))
          /\ cpc' = [cpc EXCEPT ![c] = "waiting"]
          /\ child' = [child EXCEPT ![c] = d]
          /\ UNCHANGED <<onIo, opens, peer, watch, events, promise, foreign, serverVars, coalesced>>
     \/ Fails(c) /\ UNCHANGED <<dpc, overlap>>
  /\ UNCHANGED <<path, kills>>

\* Mutant: the events are looked at and not read.
ReadEvents_Peek(c) == events

(* ioctl(FIONREAD) and read() take all events there are *)
ReadEvents(c) == [events EXCEPT ![c] = 0]

(* The epoll thread of the client sets the promise once per event; the      *)
(* second time throws on that thread.  It cannot run while open() itself    *)
(* blocks it.  (SIGCHLD is not blocked, so the signalfd never has anything.) *)
HandleEvents(c) ==
  /\ cpc[c] \in {"waiting", "woken"} /\ ~onIo[c] /\ watch[c] /\ events[c] > 0
  /\ promise' = [promise EXCEPT ![c] = TRUE]
  /\ events' = ReadEvents(c)
  /\ cpc' = IF promise[c] \/ events[c] > 1 THEN [cpc EXCEPT ![c] = "crashed"] ELSE cpc
  /\ UNCHANGED <<onIo, opens, peer, watch, child, foreign, dpc, serverVars, world, coalesced>>

\* Mutant: the wait has no timeout.
Wake_NoTimeout(c) ==
  /\ cpc[c] = "waiting" /\ promise[c]
  /\ cpc' = [cpc EXCEPT ![c] = "woken"]
  /\ UNCHANGED <<onIo, opens, peer, opening, dpc, serverVars, world, coalesced>>

(* stop_future.wait_for returns: the promise is set, or ten seconds passed *)
Wake(c) ==
  /\ cpc[c] = "waiting"
  /\ cpc' = [cpc EXCEPT ![c] = "woken"]
  /\ UNCHANGED <<onIo, opens, peer, opening, dpc, serverVars, world, coalesced>>

(* the watch is removed and the file opened a last time *)
LastOpen(c) ==
  /\ cpc[c] = "woken"
  /\ IF Reached THEN Connect(c) ELSE Fails(c)
  /\ UNCHANGED <<dpc, world>>

(* the client is destroyed *)
Leave(c) ==
  /\ cpc[c] = "connected"
  /\ cpc' = [cpc EXCEPT ![c] = "none"] /\ peer' = [peer EXCEPT ![c] = None]
  /\ UNCHANGED <<onIo, opens, opening, dpc, serverVars, world, coalesced>>

(* the daemon does not have the connection any more *)
Cut(c) == /\ cpc[c] = "connected"
          /\ LET d == peer[c] IN
             \/ ~Alive(d)
             \/ <<c, opens[c]>> \notin conns[d] \cup ToSet(backlog[d])

(* launchable_service_client::connection_closed opens again *)
Reopen(c) ==
  /\ Cut(c)
  /\ cpc' = [cpc EXCEPT ![c] = IF opens[c] < MaxOpens[c] THEN "try" ELSE "none"]
  /\ onIo' = [onIo EXCEPT ![c] = opens[c] < MaxOpens[c]] /\ peer' = [peer EXCEPT ![c] = None]
  /\ UNCHANGED <<opens, opening, dpc, serverVars, world, coalesced>>

----------------------------------------------------------------------------
(* The daemon *)

DaemonGoto(d, s) == dpc' = [dpc EXCEPT ![d] = s]

(* execv fails, or the daemon exits before it has a socket *)
NeverRuns(d) ==
  /\ dpc[d] = "starting"
  /\ DaemonGoto(d, "dead")
  /\ UNCHANGED <<clientVars, serverVars, world, coalesced>>

(* unix_service_impl::bind removes the old file ... *)
UnlinkOld(d) ==
  /\ dpc[d] = "starting"
  /\ path' = None
  /\ DaemonGoto(d, "unlinked")
  /\ UNCHANGED <<clientVars, serverVars, kills, overlap, coalesced>>

\* Mutant: the old file is removed after the socket was bound.
Bind_UnlinksLast(d) ==
  /\ dpc[d] = "unlinked"
  /\ path' = None
  /\ DaemonGoto(d, "bound")
  /\ UNCHANGED <<clientVars, serverVars, kills, overlap, coalesced>>

(* ... and creates its own, which every watch sees; if another daemon's is  *)
(* there again, close() removes that one and the constructor throws         *)
Bind(d) ==
  /\ dpc[d] = "unlinked"
  /\ IF path = None
     THEN /\ path' = d
          /\ DaemonGoto(d, "bound")
          /\ events' = [c \in Clients |-> IF watch[c] THEN events[c] + 1 ELSE events[c]]
          /\ foreign' = foreign \cup {c \in Clients : watch[c] /\ child[c] # d}
     ELSE path' = None /\ DaemonGoto(d, "dead") /\ UNCHANGED <<events, foreign>>
  /\ UNCHANGED <<cpc, onIo, opens, peer, watch, promise, child, serverVars, kills, overlap, coalesced>>

(* service(path): the base class listens and is known to epoll before the   *)
(* members of auto_shutdown_service exist                                   *)
Listen(d) ==
  /\ dpc[d] = "bound"
  /\ DaemonGoto(d, "constructing")
  /\ UNCHANGED <<clientVars, serverVars, world, coalesced>>

(* connections = 0, requested_shutdown = false; then run() waits *)
Constructed(d) ==
  /\ dpc[d] = "constructing"
  /\ DaemonGoto(d, "listening")
  /\ UNCHANGED <<clientVars, serverVars, world, coalesced>>

(* one connection is taken from the backlog *)
Accept(d) ==
  /\ conns' = [conns EXCEPT ![d] = @ \cup {Head(backlog[d])}]
  /\ backlog' = [backlog EXCEPT ![d] = Tail(@)]

(***************************************************************************)
(* The callbacks of the epoll thread.  While the service is constructed     *)
(* they are those of the base class, which do nothing, or write members     *)
(* that the initializers then overwrite: the connection is not counted.     *)
(***************************************************************************)
OnClientConnected(d) ==
  IF dpc[d] = "constructing"
  THEN uncounted' = uncounted \cup {d} /\ UNCHANGED count
  ELSE count' = [count EXCEPT ![d] = @ + 1] /\ UNCHANGED uncounted

\* Mutant: the event is consumed and nothing accepted while there is another client.
HandleIncoming_OneClient(d) ==
  /\ Listening(d) /\ ready[d]
  /\ ready' = [ready EXCEPT ![d] = FALSE]
  /\ IF conns[d] # {} THEN UNCHANGED <<backlog, conns, count, uncounted>>
     ELSE Accept(d) /\ OnClientConnected(d)
  /\ UNCHANGED <<clientVars, dpc, stop, world, coalesced>>

(* handle_incoming: the event is consumed and one connection accepted *)
HandleIncoming(d) ==
  /\ Listening(d) /\ ready[d]
  /\ ready' = [ready EXCEPT ![d] = FALSE]
  /\ Accept(d) /\ OnClientConnected(d)
  /\ UNCHANGED <<clientVars, dpc, stop, world, coalesced>>

Left(x) == cpc[x[1]] # "connected" \/ opens[x[1]] # x[2]

\* Mutant: the count is tested before it is decremented.
RequestStop_Before(d) == count[d] = 0

(* --connections == 0: the last client has gone *)
RequestStop(d) == count[d] = 1

OnClientDisconnected(d) ==
  IF dpc[d] = "constructing" THEN UNCHANGED <<count, stop>>
  ELSE /\ count' = [count EXCEPT ![d] = @ - 1]
       /\ stop' = [stop EXCEPT ![d] = @ \/ RequestStop(d)]

ConnectionClosed(d) ==
  /\ Serving(d)
  /\ \E x \in conns[d] :
       /\ Left(x)
       /\ conns' = [conns EXCEPT ![d] = @ \ {x}]
  /\ OnClientDisconnected(d)
  /\ UNCHANGED <<clientVars, dpc, ready, backlog, uncounted, world, coalesced>>

(* run() returns; close() closes the socket, which cuts the backlog off ... *)
CloseSocket(d) ==
  /\ dpc[d] = "listening" /\ stop[d]
  /\ DaemonGoto(d, "unlinking")
  /\ backlog' = [backlog EXCEPT ![d] = <<>>] /\ ready' = [ready EXCEPT ![d] = FALSE]
  /\ UNCHANGED <<clientVars, conns, count, stop, uncounted, world, coalesced>>

(* ... and removes the file, whose ever it is by now *)
UnlinkPath(d) ==
  /\ dpc[d] = "unlinking"
  /\ path' = None
  /\ DaemonGoto(d, "exiting")
  /\ UNCHANGED <<clientVars, serverVars, kills, overlap, coalesced>>

Exit(d) ==
  /\ dpc[d] = "exiting"
  /\ DaemonGoto(d, "dead")
  /\ conns' = [conns EXCEPT ![d] = {}]
  /\ count' = [count EXCEPT ![d] = 0] /\ uncounted' = uncounted \ {d}
  /\ UNCHANGED <<clientVars, ready, backlog, stop, world, coalesced>>

(* the daemon dies and leaves its file behind *)
Kill(d) ==
  /\ Alive(d) /\ kills < MaxKills
  /\ kills' = kills + 1
  /\ DaemonGoto(d, "dead")
  /\ conns' = [conns EXCEPT ![d] = {}] /\ backlog' = [backlog EXCEPT ![d] = <<>>]
  /\ ready' = [ready EXCEPT ![d] = FALSE] /\ stop' = [stop EXCEPT ![d] = TRUE]
  /\ count' = [count EXCEPT ![d] = 0] /\ uncounted' = uncounted \ {d}
  /\ UNCHANGED <<clientVars, path, overlap, coalesced>>

----------------------------------------------------------------------------
OpenStep(c) == \/ TryOpen(c) \/ AddWatch(c) \/ TryAgain(c) \/ Start(c)
               \/ Wake(c) \/ LastOpen(c)
IoStep(c) == HandleEvents(c) \/ Reopen(c)
DaemonMain(d) == \/ UnlinkOld(d) \/ Bind(d) \/ Listen(d) \/ Constructed(d)
                 \/ CloseSocket(d) \/ UnlinkPath(d) \/ Exit(d)
DaemonIo(d) == HandleIncoming(d) \/ ConnectionClosed(d)

Next == \/ \E c \in Clients : NewClient(c) \/ OpenStep(c) \/ IoStep(c) \/ Leave(c)
        \/ \E d \in Daemons : DaemonMain(d) \/ DaemonIo(d) \/ NeverRuns(d) \/ Kill(d)

Spec == Init /\ [][Next]_vars

(***************************************************************************)
(* Threads of clients and daemons run; nothing makes a client appear or     *)
(* leave, or a daemon fail.                                                 *)
(***************************************************************************)
FairSpec == /\ Spec
            /\ \A c \in Clients : WF_vars(OpenStep(c)) /\ WF_vars(IoStep(c))
            /\ \A d \in Daemons : WF_vars(DaemonMain(d)) /\ WF_vars(DaemonIo(d))

----------------------------------------------------------------------------
(***************************************************************************)
(* No wakeup is lost: once the daemon a client has started has created its  *)
(* socket file, the client that waits for the file has the event to read or *)
(* has read it.                                                             *)
(***************************************************************************)
NoMissedCreate ==
  \A c \in Clients :
    cpc[c] = "waiting" /\ (dpc[child[c]] = "bound" \/ Serving(child[c]))
      => events[c] > 0 \/ promise[c]

(***************************************************************************)
(* A daemon that listens can be reached: the file names its socket.  This   *)
(* fails once two daemons exist at the same time: the one that stops        *)
(* removes the file of the other.                                           *)
(***************************************************************************)
Reachable == \A d \in Daemons : Listening(d) => path = d \/ overlap

(***************************************************************************)
(* The promise of an open() is set twice, which ends the client, only if    *)
(* another daemon than its own created the file while it watched.  (The     *)
(* other way a client crashes is an exception while it opens again on its   *)
(* epoll thread.)                                                           *)
(***************************************************************************)
PromiseSetOnce == \A c \in Clients : cpc[c] = "crashed" => c \in foreign \/ onIo[c]

(* Every open() ends: with a connection, an exception or the client's crash. *)
OpenEnds ==
  \A c \in Clients : cpc[c] = "try" ~> cpc[c] \in {"connected", "failed", "crashed", "none"}

(***************************************************************************)
(* A connected client is served or learns that it is not: the daemon        *)
(* accepts its connection or the connection is cut, unless two connections  *)
(* came in one event, of which the daemon accepts only one.                 *)
(***************************************************************************)
ServedOrTold ==
  \A c \in Clients :
    cpc[c] = "connected" ~>
      \/ cpc[c] # "connected"
      \/ <<c, opens[c]>> \in conns[peer[c]]
      \/ peer[c] \in coalesced

(***************************************************************************)
(* A daemon that has had a client and has none left stops, unless it        *)
(* accepted a connection before auto_shutdown_service was constructed:      *)
(* that connection is not counted, the count then ends at -1, and the       *)
(* daemon stays.                                                            *)
(***************************************************************************)
StopsWhenUnused ==
  \A d \in Daemons :
    (Serving(d) /\ conns[d] # {} /\ \A x \in conns[d] : Left(x)) ~>
      \/ ~Alive(d)
      \/ \E x \in conns[d] \cup ToSet(backlog[d]) : ~Left(x)
      \/ d \in uncounted
=============================================================================
