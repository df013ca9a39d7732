------------------------ MODULE DaemonLauncherProofs ------------------------
(***************************************************************************)
(* The safety of launching daemons, for any number of clients, daemons,    *)
(* connections and daemons that are killed.                                *)
(***************************************************************************)
EXTENDS DaemonLauncher, TLAPS

\* The places a client and a daemon may be in.
ClientPC == {"none", "try", "watch", "retry", "start", "waiting", "woken",
             "connected", "failed", "crashed"}
DaemonPC == {"unused", "starting", "unlinked", "bound", "constructing", "listening",
             "unlinking", "exiting", "dead"}

\* The types of what the three properties depend on.
Types ==
  /\ cpc \in [Clients -> ClientPC] /\ onIo \in [Clients -> BOOLEAN]
  /\ watch \in [Clients -> BOOLEAN] /\ events \in [Clients -> Nat]
  /\ promise \in [Clients -> BOOLEAN] /\ child \in [Clients -> Daemons \cup {None}]
  /\ dpc \in [Daemons -> DaemonPC] /\ path \in Daemons \cup {None}
  /\ overlap \in BOOLEAN /\ foreign \in SUBSET Clients /\ opens \in [Clients -> Nat]

\* A client that is about to fork, or waits, watches the directory.
Watches == \A c \in Clients : cpc[c] \in {"retry", "start", "waiting"} => watch[c]

\* It has a child exactly from the fork on.
HasChild ==
  \A c \in Clients :
    /\ cpc[c] \in {"none", "try", "watch", "retry", "start", "connected"} => child[c] = None
    /\ cpc[c] = "waiting" => child[c] \in Daemons

\* The daemon has not created its file yet.
NoFileYet(d) == dpc[d] \in {"unused", "starting", "unlinked"}

\* Unless the file of another daemon appeared, a client hears of its own child's file, once:
\* it has the event, or it has set the promise.
HeardOnce ==
  \A c \in Clients \ foreign :
    /\ events[c] <= 1 /\ (promise[c] => events[c] = 0)
    /\ promise[c] \/ events[c] > 0 => child[c] \in Daemons /\ ~NoFileYet(child[c])

\* Without an overlap there is one daemon process at most.
OneDaemon ==
  overlap \/ \A d, e \in Daemons : Alive(d) /\ Alive(e) => d = e

\* From bind() on the file is the daemon's, unless another daemon removed it.
FileIsMine == \A d \in Daemons : dpc[d] \in {"bound", "constructing", "listening"} => path = d \/ overlap

\* The inductive invariant.
IInv == /\ Types /\ Watches /\ HasChild /\ HeardOnce /\ OneDaemon /\ FileIsMine
        /\ NoMissedCreate /\ PromiseSetOnce

USE DEF None

\* Initially there is no daemon and no file.
LEMMA InitIInv == Init => IInv
<1> SUFFICES ASSUME Init PROVE IInv
  OBVIOUS
<1>1. Types
  BY DEF Init, Types, ClientPC, DaemonPC, Daemons
<1>2. HeardOnce
  BY DEF Init, HeardOnce
<1>3. OneDaemon /\ FileIsMine
  BY DEF Init, OneDaemon, FileIsMine, Alive
<1> QED
  BY <1>1, <1>2, <1>3 DEF Init, IInv, Watches, HasChild, NoMissedCreate, PromiseSetOnce

\* A step of a client that leaves the daemons and the file alone disturbs only what is said of it.
LEMMA ClientStep ==
  ASSUME IInv, Types', UNCHANGED <<dpc, path, overlap>>, NEW c \in Clients,
         \A e \in Clients \ {c} :
           /\ cpc'[e] = cpc[e] /\ onIo'[e] = onIo[e] /\ watch'[e] = watch[e]
           /\ events'[e] = events[e] /\ promise'[e] = promise[e] /\ child'[e] = child[e]
           /\ (e \in foreign' <=> e \in foreign),
         cpc'[c] \in {"retry", "start", "waiting"} => watch'[c],
         cpc'[c] \in {"none", "try", "watch", "retry", "start", "connected"} => child'[c] = None,
         cpc'[c] = "waiting" =>
            /\ child'[c] \in Daemons
            /\ dpc[child'[c]] \in {"bound", "constructing", "listening", "unlinking", "exiting"}
                 => events'[c] > 0 \/ promise'[c],
         c \notin foreign' =>
            /\ events'[c] <= 1 /\ (promise'[c] => events'[c] = 0)
            /\ promise'[c] \/ events'[c] > 0 => child'[c] \in Daemons /\ ~NoFileYet(child'[c]),
         cpc'[c] = "crashed" => c \in foreign' \/ onIo'[c]
  PROVE  IInv'
<1>1. OneDaemon' /\ FileIsMine'
  BY DEF IInv, OneDaemon, FileIsMine, Alive
<1>2. Watches' /\ HasChild' /\ PromiseSetOnce'
  BY DEF IInv, Watches, HasChild, PromiseSetOnce
<1>3. HeardOnce'
  BY DEF IInv, HeardOnce, NoFileYet
<1>4. NoMissedCreate'
  BY DEF IInv, NoMissedCreate, Serving, Listening
<1> QED
  BY <1>1, <1>2, <1>3, <1>4 DEF IInv

\* So does a connection: open() has returned and its local variables are gone.
LEMMA ConnectStep ==
  ASSUME IInv, NEW c \in Clients, Connect(c), UNCHANGED <<dpc, path, overlap>>
  PROVE  IInv'
<1>1. Types'
  BY DEF IInv, Types, Connect, Forget, ClientPC
<1>2. \A e \in Clients \ {c} :
           /\ cpc'[e] = cpc[e] /\ onIo'[e] = onIo[e] /\ watch'[e] = watch[e]
           /\ events'[e] = events[e] /\ promise'[e] = promise[e] /\ child'[e] = child[e]
           /\ (e \in foreign' <=> e \in foreign)
  BY DEF IInv, Types, Connect, Forget
<1>3. /\ cpc'[c] = "connected" /\ events'[c] = 0 /\ promise'[c] = FALSE /\ child'[c] = None
  BY DEF IInv, Types, Connect, Forget
<1> QED
  BY <1>1, <1>2, <1>3, ClientStep

\* And going to another place of open(), or out of it with an exception.
LEMMA ContinueStep ==
  ASSUME IInv, NEW c \in Clients, NEW next \in ClientPC, Continue(c, next),
         UNCHANGED <<dpc, path, overlap>>,
         next \in {"retry", "start"} => watch[c],
         next \in {"none", "try", "watch", "retry", "start", "connected"} => child[c] = None,
         next # "waiting",
         next = "crashed" => onIo[c]
  PROVE  IInv'
<1>1. Types'
  BY DEF IInv, Types, Continue, opening
<1>2. \A e \in Clients \ {c} : cpc'[e] = cpc[e]
  BY DEF IInv, Types, Continue
<1>3. cpc'[c] = next
  BY DEF IInv, Types, Continue
<1>4. UNCHANGED <<onIo, watch, events, promise, child, foreign>>
  BY DEF Continue, opening
<1>5. c \notin foreign =>
            /\ events[c] <= 1 /\ (promise[c] => events[c] = 0)
            /\ promise[c] \/ events[c] > 0 => child[c] \in Daemons /\ ~NoFileYet(child[c])
  BY DEF IInv, HeardOnce
<1> QED
  BY <1>1, <1>2, <1>3, <1>4, <1>5, ClientStep

\* A step of a daemon that creates no file, and takes a file away only if it was its own or
\* there are two daemons.
LEMMA DaemonStep ==
  ASSUME IInv, NEW d \in Daemons, NEW s \in DaemonPC, DaemonGoto(d, s),
         UNCHANGED <<cpc, onIo, opens, watch, events, promise, child, foreign, overlap>>,
         Alive(d),
         s \in {"starting", "unlinked"} => NoFileYet(d),
         s \in {"bound", "constructing", "listening", "unlinking", "exiting"} => ~NoFileYet(d) /\ dpc[d] # "dead",
         s # "unused",
         path' = path \/ (path' = None /\ s \notin {"bound", "constructing", "listening"}),
         s \in {"bound", "constructing", "listening"} => dpc[d] \in {"bound", "constructing", "listening"}
  PROVE  IInv'
<1>1. Types'
  BY DEF IInv, Types, DaemonGoto
<1>2. dpc'[d] = s /\ \A e \in Daemons \ {d} : dpc'[e] = dpc[e]
  BY DEF IInv, Types, DaemonGoto
<1>3. dpc[d] \in DaemonPC
  BY DEF IInv, Types
<1>4. OneDaemon'
  BY <1>2 DEF IInv, OneDaemon, Alive
<1>5. FileIsMine'
  BY <1>2 DEF IInv, OneDaemon, FileIsMine, Alive
<1>6. Watches' /\ HasChild' /\ PromiseSetOnce'
  BY DEF IInv, Watches, HasChild, PromiseSetOnce
<1>7. \A e \in Daemons : ~NoFileYet(e) => ~NoFileYet(e)'
  BY <1>2, <1>3 DEF NoFileYet, DaemonPC, Alive
<1>8. HeardOnce'
  BY <1>7 DEF IInv, HeardOnce
<1>9. \A e \in Daemons : dpc'[e] \in {"bound", "constructing", "listening", "unlinking", "exiting"}
                          => dpc[e] \in {"bound", "constructing", "listening", "unlinking", "exiting"}
  BY <1>2, <1>3 DEF NoFileYet, DaemonPC
<1>10. NoMissedCreate'
  BY <1>9 DEF IInv, NoMissedCreate, Serving, Listening, HasChild
<1> QED
  BY <1>1, <1>4, <1>5, <1>6, <1>8, <1>10 DEF IInv

\* fork(): the new daemon overlaps with any other that lives.
LEMMA StartStep ==
  ASSUME IInv, NEW c \in Clients, Start(c)
  PROVE  IInv'
<1>1. CASE Fails(c) /\ UNCHANGED <<dpc, overlap>>
  BY <1>1, ContinueStep DEF Start, Fails, ClientPC
<1>2. ASSUME NEW d \in Daemons, cpc[c] = "start", dpc[d] = "unused",
             dpc' = [dpc EXCEPT ![d] = "starting"],
             overlap' = (overlap \/ \E e \in Daemons : Alive(e)),
             cpc' = [cpc EXCEPT ![c] = "waiting"],
             child' = [child EXCEPT ![c] = d],
             UNCHANGED <<onIo, opens, watch, events, promise, foreign, path>>
      PROVE  IInv'
  <2>1. Types'
    <3>1. overlap' \in BOOLEAN
      BY <1>2, Zenon
    <3> QED
      BY <1>2, <3>1 DEF IInv, Types, ClientPC, DaemonPC
  <2>2. dpc'[d] = "starting" /\ \A e \in Daemons \ {d} : dpc'[e] = dpc[e]
    BY <1>2 DEF IInv, Types
  <2>3. /\ cpc'[c] = "waiting" /\ child'[c] = d
        /\ \A e \in Clients \ {c} : cpc'[e] = cpc[e] /\ child'[e] = child[e]
    BY <1>2 DEF IInv, Types
  <2>4. child[c] = None /\ watch[c]
    BY <1>2 DEF IInv, HasChild, Watches
  <2>5. OneDaemon' /\ FileIsMine'
    <3>1. CASE \E e \in Daemons : Alive(e)
      BY <1>2, <3>1 DEF OneDaemon, FileIsMine
    <3>2. CASE ~ \E e \in Daemons : Alive(e)
      BY <2>2, <3>2 DEF OneDaemon, FileIsMine, Alive
    <3> QED
      BY <3>1, <3>2
  <2>6. Watches' /\ HasChild' /\ PromiseSetOnce'
    BY <1>2, <2>3, <2>4 DEF IInv, Watches, HasChild, PromiseSetOnce
  <2>7. \A e \in Daemons : ~NoFileYet(e) => ~NoFileYet(e)'
    BY <1>2, <2>2 DEF NoFileYet
  <2>8. HeardOnce'
    BY <1>2, <2>3, <2>4, <2>7 DEF IInv, HeardOnce, Daemons
  <2>9. NoMissedCreate'
    BY <1>2, <2>2, <2>3 DEF IInv, NoMissedCreate, Serving, Listening, HasChild
  <2> QED
    BY <2>1, <2>5, <2>6, <2>8, <2>9 DEF IInv
<1> QED
  BY <1>1, <1>2 DEF Start

\* bind(): every watch sees the file, and a client whose child it is has not heard of one before.
LEMMA BindStep ==
  ASSUME IInv, NEW d \in Daemons, Bind(d)
  PROVE  IInv'
<1>1. CASE path # None
  BY <1>1, DaemonStep DEF Bind, DaemonPC, Alive
<1>2. CASE path = None
  <2>1. /\ dpc[d] = "unlinked" /\ path' = d /\ dpc' = [dpc EXCEPT ![d] = "bound"]
        /\ events' = [c \in Clients |-> IF watch[c] THEN events[c] + 1 ELSE events[c]]
        /\ foreign' = foreign \cup {c \in Clients : watch[c] /\ child[c] # d}
        /\ UNCHANGED <<cpc, onIo, opens, watch, promise, child, overlap>>
    BY <1>2 DEF Bind, DaemonGoto
  <2>2. Types'
    BY <2>1 DEF IInv, Types, DaemonPC
  <2>3. dpc'[d] = "bound" /\ \A e \in Daemons \ {d} : dpc'[e] = dpc[e]
    BY <2>1 DEF IInv, Types
  <2>4. OneDaemon' /\ FileIsMine'
    BY <2>1, <2>3 DEF IInv, OneDaemon, FileIsMine, Alive
  <2>5. Watches' /\ HasChild' /\ PromiseSetOnce'
    BY <2>1 DEF IInv, Watches, HasChild, PromiseSetOnce
  <2>6. \A e \in Daemons : ~NoFileYet(e) => ~NoFileYet(e)'
    BY <2>3 DEF NoFileYet
  <2>7. HeardOnce'
    <3> SUFFICES ASSUME NEW c \in Clients, c \notin foreign'
                 PROVE  /\ events'[c] <= 1 /\ (promise'[c] => events'[c] = 0)
                        /\ promise'[c] \/ events'[c] > 0
                             => child'[c] \in Daemons /\ ~NoFileYet(child[c])'
      BY <2>1 DEF HeardOnce
    <3>1. c \notin foreign /\ (watch[c] => child[c] = d)
      BY <2>1
    <3>2. CASE watch[c]
      BY <2>1, <2>3, <3>1, <3>2 DEF IInv, Types, HeardOnce, NoFileYet
    <3>3. CASE ~watch[c]
      BY <2>1, <2>6, <3>1, <3>3 DEF IInv, Types, HeardOnce
    <3> QED
      BY <3>2, <3>3
  <2>8. NoMissedCreate'
    BY <2>1, <2>3 DEF IInv, Types, NoMissedCreate, Serving, Listening, HasChild, Watches
  <2> QED
    BY <2>2, <2>4, <2>5, <2>7, <2>8 DEF IInv
<1> QED
  BY <1>1, <1>2

\* handle_events: the second event of an open() is another daemon's.
LEMMA HandleEventsStep ==
  ASSUME IInv, NEW c \in Clients, HandleEvents(c)
  PROVE  IInv'
<1>1. /\ cpc[c] \in {"waiting", "woken"} /\ events[c] > 0
      /\ promise' = [promise EXCEPT ![c] = TRUE] /\ events' = [events EXCEPT ![c] = 0]
      /\ cpc' = IF promise[c] \/ events[c] > 1 THEN [cpc EXCEPT ![c] = "crashed"] ELSE cpc
      /\ UNCHANGED <<onIo, opens, watch, child, foreign, dpc, path, overlap>>
  BY DEF HandleEvents, ReadEvents, world
<1>2. Types'
  BY <1>1 DEF IInv, Types, ClientPC
<1>3. /\ promise'[c] = TRUE /\ events'[c] = 0
      /\ cpc'[c] = IF promise[c] \/ events[c] > 1 THEN "crashed" ELSE cpc[c]
      /\ \A e \in Clients \ {c} :
           cpc'[e] = cpc[e] /\ promise'[e] = promise[e] /\ events'[e] = events[e]
  BY <1>1 DEF IInv, Types
<1>4. c \notin foreign => /\ ~promise[c] /\ events[c] <= 1
                          /\ child[c] \in Daemons /\ ~NoFileYet(child[c])
  BY <1>1 DEF IInv, Types, HeardOnce
<1>5. c \notin foreign => cpc'[c] # "crashed"
  <2>1. events[c] <= 1 => ~(events[c] > 1)
    BY DEF IInv, Types
  <2>2. c \notin foreign => cpc'[c] = cpc[c]
    BY <1>3, <1>4, <2>1, Zenon
  <2> QED
    BY <1>1, <2>2
<1>6. cpc'[c] = "waiting" => watch[c] /\ child[c] \in Daemons
  BY <1>1, <1>3 DEF IInv, Watches, HasChild
<1>7. cpc'[c] \in {"waiting", "woken", "crashed"}
  BY <1>1, <1>3
<1>8. cpc'[c] = "waiting" =>
         /\ child'[c] \in Daemons
         /\ dpc[child'[c]] \in {"bound", "constructing", "listening", "unlinking", "exiting"}
              => events'[c] > 0 \/ promise'[c]
  BY <1>1, <1>3, <1>6
<1>9. c \notin foreign' =>
         /\ events'[c] <= 1 /\ (promise'[c] => events'[c] = 0)
         /\ promise'[c] \/ events'[c] > 0 => child'[c] \in Daemons /\ ~NoFileYet(child'[c])
  BY <1>1, <1>3, <1>4
<1>10. cpc'[c] = "crashed" => c \in foreign' \/ onIo'[c]
  BY <1>1, <1>5
<1>11. cpc'[c] \in {"retry", "start", "waiting"} => watch'[c]
  BY <1>1, <1>6, <1>7
<1> QED
  BY <1>1, <1>2, <1>3, <1>7, <1>8, <1>9, <1>10, <1>11, ClientStep

\* Every step preserves the inductive invariant.
LEMMA NextIInv == IInv /\ [Next]_vars => IInv'
<1> SUFFICES ASSUME IInv, [Next]_vars PROVE IInv'
  OBVIOUS
<1> USE DEF clientVars, opening, world
<1>1. ASSUME NEW c \in Clients, NewClient(c) PROVE IInv'
  <2>1. Continue(c, "try") /\ UNCHANGED <<dpc, path, overlap>> /\ child[c] = None
    BY <1>1 DEF NewClient, Continue, IInv, HasChild
  <2> QED
    BY <2>1, ContinueStep DEF ClientPC
<1>2. ASSUME NEW c \in Clients, TryOpen(c) PROVE IInv'
  <2>1. child[c] = None /\ UNCHANGED <<dpc, path, overlap>>
    BY <1>2 DEF TryOpen, IInv, HasChild
  <2> QED
    BY <1>2, <2>1, ConnectStep, ContinueStep DEF TryOpen, ClientPC
<1>3. ASSUME NEW c \in Clients, AddWatch(c) PROVE IInv'
  <2>1. child[c] = None /\ UNCHANGED <<dpc, path, overlap>>
    BY <1>3 DEF AddWatch, IInv, HasChild
  <2>2. CASE Fails(c)
    BY <2>1, <2>2, ContinueStep DEF Fails, ClientPC
  <2>3. CASE /\ cpc' = [cpc EXCEPT ![c] = "retry"] /\ watch' = [watch EXCEPT ![c] = TRUE]
             /\ UNCHANGED <<onIo, opens, events, promise, child, foreign>>
    <3>1. Types'
      BY <2>1, <2>3 DEF IInv, Types, ClientPC
    <3>2. /\ cpc'[c] = "retry" /\ watch'[c] = TRUE
          /\ \A e \in Clients \ {c} : cpc'[e] = cpc[e] /\ watch'[e] = watch[e]
      BY <2>3 DEF IInv, Types
    <3>3. c \notin foreign =>
            /\ events[c] <= 1 /\ (promise[c] => events[c] = 0)
            /\ promise[c] \/ events[c] > 0 => child[c] \in Daemons /\ ~NoFileYet(child[c])
      BY DEF IInv, HeardOnce
    <3> QED
      BY <2>1, <2>3, <3>1, <3>2, <3>3, ClientStep
  <2> QED
    BY <1>3, <2>2, <2>3 DEF AddWatch
<1>4. ASSUME NEW c \in Clients, TryAgain(c) PROVE IInv'
  <2>1. child[c] = None /\ watch[c] /\ UNCHANGED <<dpc, path, overlap>>
    BY <1>4 DEF TryAgain, IInv, HasChild, Watches
  <2> QED
    BY <1>4, <2>1, ConnectStep, ContinueStep DEF TryAgain, ClientPC
<1>5. ASSUME NEW c \in Clients, Start(c) PROVE IInv'
  BY <1>5, StartStep
<1>6. ASSUME NEW c \in Clients, Wake(c) PROVE IInv'
  <2>1. Continue(c, "woken") /\ UNCHANGED <<dpc, path, overlap>>
    BY <1>6 DEF Wake, Continue
  <2> QED
    BY <2>1, ContinueStep DEF ClientPC
<1>7. ASSUME NEW c \in Clients, LastOpen(c) PROVE IInv'
  BY <1>7, ConnectStep, ContinueStep DEF LastOpen, Fails, ClientPC
<1>8. ASSUME NEW c \in Clients, HandleEvents(c) PROVE IInv'
  BY <1>8, HandleEventsStep
<1>9. ASSUME NEW c \in Clients, NEW next \in {"try", "none"}, cpc[c] = "connected",
             cpc' = [cpc EXCEPT ![c] = next], NEW b \in BOOLEAN,
             onIo' = [onIo EXCEPT ![c] = b],
             UNCHANGED <<opens, watch, events, promise, child, foreign, dpc, path, overlap>>
      PROVE  IInv'
  <2>1. Types'
    BY <1>9 DEF IInv, Types, ClientPC
  <2>2. /\ cpc'[c] = next /\ child[c] = None
        /\ \A e \in Clients \ {c} : cpc'[e] = cpc[e] /\ onIo'[e] = onIo[e]
    BY <1>9 DEF IInv, Types, HasChild
  <2>3. c \notin foreign =>
            /\ events[c] <= 1 /\ (promise[c] => events[c] = 0)
            /\ promise[c] \/ events[c] > 0 => child[c] \in Daemons /\ ~NoFileYet(child[c])
    BY DEF IInv, HeardOnce
  <2> QED
    BY <1>9, <2>1, <2>2, <2>3, ClientStep
<1>10. ASSUME NEW c \in Clients, Reopen(c) PROVE IInv'
  <2> DEFINE b == opens[c] < MaxOpens[c]
  <2>1. b \in BOOLEAN
    BY BoundsAreNat DEF IInv, Types
  <2>2. cpc[c] = "connected" /\ onIo' = [onIo EXCEPT ![c] = b]
        /\ cpc' = [cpc EXCEPT ![c] = IF b THEN "try" ELSE "none"]
        /\ UNCHANGED <<opens, watch, events, promise, child, foreign, dpc, path, overlap>>
    BY <1>10 DEF Reopen, Cut
  <2> HIDE DEF b
  <2> QED
    BY <1>9, <2>1, <2>2
<1>11. ASSUME NEW c \in Clients, Leave(c) PROVE IInv'
  <2>1. onIo' = [onIo EXCEPT ![c] = onIo[c]] /\ onIo[c] \in BOOLEAN
    BY <1>11 DEF Leave, IInv, Types
  <2> QED
    BY <1>9, <1>11, <2>1 DEF Leave
<1>12. ASSUME NEW d \in Daemons, UnlinkOld(d) PROVE IInv'
  BY <1>12, DaemonStep DEF UnlinkOld, DaemonPC, Alive, NoFileYet
<1>13. ASSUME NEW d \in Daemons, Bind(d) PROVE IInv'
  BY <1>13, BindStep
<1>14. ASSUME NEW d \in Daemons, Listen(d) PROVE IInv'
  BY <1>14, DaemonStep DEF Listen, DaemonPC, Alive, NoFileYet
<1>14a. ASSUME NEW d \in Daemons, Constructed(d) PROVE IInv'
  BY <1>14a, DaemonStep DEF Constructed, DaemonPC, Alive, NoFileYet
<1>15. ASSUME NEW d \in Daemons, CloseSocket(d) PROVE IInv'
  BY <1>15, DaemonStep DEF CloseSocket, DaemonPC, Alive, NoFileYet
<1>16. ASSUME NEW d \in Daemons, UnlinkPath(d) PROVE IInv'
  BY <1>16, DaemonStep DEF UnlinkPath, DaemonPC, Alive, NoFileYet
<1>17. ASSUME NEW d \in Daemons, Exit(d) \/ NeverRuns(d) \/ Kill(d) PROVE IInv'
  BY <1>17, DaemonStep DEF Exit, NeverRuns, Kill, DaemonPC, Alive, NoFileYet
<1>18. ASSUME UNCHANGED <<cpc, onIo, opens, watch, events, promise, child, foreign, dpc, path,
                         overlap>>
       PROVE  IInv'
  BY <1>18 DEF IInv, Types, Watches, HasChild, HeardOnce, NoFileYet, OneDaemon, FileIsMine,
               NoMissedCreate, Serving, Listening, PromiseSetOnce, Alive
<1>19. ASSUME NEW d \in Daemons, HandleIncoming(d) \/ ConnectionClosed(d) PROVE IInv'
  BY <1>18, <1>19 DEF HandleIncoming, ConnectionClosed
<1>20. CASE UNCHANGED vars
  BY <1>18, <1>20 DEF vars
<1> QED
  BY <1>1, <1>2, <1>3, <1>4, <1>5, <1>6, <1>7, <1>8, <1>10, <1>11, <1>12, <1>13, <1>14, <1>14a,
     <1>15, <1>16, <1>17, <1>19, <1>20 DEF Next, OpenStep, IoStep, DaemonMain, DaemonIo

\* The inductive invariant holds in every reachable state.
THEOREM Invariance == Spec => []IInv
  BY InitIInv, NextIInv, PTL DEF Spec

\* No wakeup is lost (daemon_launcher::open, which waits for the file of the daemon it forked).
THEOREM NoMissedCreateHolds == Spec => []NoMissedCreate
<1>1. IInv => NoMissedCreate
  BY DEF IInv
<1> QED
  BY <1>1, Invariance, PTL

\* A daemon that listens can be reached, unless two daemons overlapped (unix_service_impl::bind
\* and close remove the file by its name).
THEOREM ReachableHolds == Spec => []Reachable
<1>1. IInv => Reachable
  BY DEF IInv, FileIsMine, Reachable, Listening
<1> QED
  BY <1>1, Invariance, PTL

\* The promise of an open() is set twice only if a foreign daemon's file appeared.
THEOREM PromiseSetOnceHolds == Spec => []PromiseSetOnce
<1>1. IInv => PromiseSetOnce
  BY DEF IInv
<1> QED
  BY <1>1, Invariance, PTL
=============================================================================
