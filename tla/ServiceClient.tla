--------------------------- MODULE ServiceClient ---------------------------
(***************************************************************************)
(* The client half of simple-ipc as the launcher uses it (a                 *)
(* launchable_service_client over a unix socket) and the server's side of   *)
(* the same connections.                                                    *)
(*                                                                         *)
(* Threads: Main constructs the client, waits for the answer to .hello and  *)
(* destroys the client at the end; every caller makes one rpc call; Io is   *)
(* the epoll thread, which delivers messages, notices that a connection was *)
(* closed and opens the next one.  The mutexes of service_client guard      *)
(* single steps of this model.  The two that are held longer are read off   *)
(* the program counter of Io: cbm is held whenever Io is not idle, and      *)
(* shutting_down_mutex while Io is in ClosedRegion.                         *)
(*                                                                         *)
(* A message is its id and the encoding it was written in.  The id of a     *)
(* call is the caller, the id of a .hello the number of the connection that *)
(* open() was opening when it was sent.                                     *)
(***************************************************************************)
EXTENDS Naturals, Sequences

CONSTANTS Callers, Main, Io,
          MaxConn      \* bound: connections opened in a behaviour

ASSUME ThreadsDiffer == Main # Io /\ Main \notin Callers /\ Io \notin Callers
ASSUME MaxConnIsPositive == MaxConn \in Nat \ {0}
ASSUME IdsDiffer == Callers \cap (0 .. MaxConn) = {}

Conns == 1 .. MaxConn
Threads == Callers \cup {Main, Io}

VARIABLES
  pc,             \* where each thread is
  conn,           \* number of the connection the client holds, 0 for none
  nconn,          \* connections opened so far
  using,          \* connection a sending thread has checked, then the one it holds
  cbs,            \* ids with a registered callback
  swapped,        \* callbacks connection_closed took out of cbs
  hello,          \* hello_response_value
  cb,             \* the callback interface is set
  shutting_down,
  link,           \* state of each connection, see Link
  ran,            \* history: how often the callback of each call ran
  threw,          \* history: calls that ended in an exception
  early,          \* history: a connection was closed before its .hello was answered
  stale,          \* history: a call was checked on one connection and sent on another
  misread,        \* history: a message was read in another encoding than its own
  over            \* the process died, or the constructor threw

callState == <<cbs, swapped, hello, ran, threw>>
history == <<early, stale, misread>>
vars == <<pc, conn, nconn, using, cbs, swapped, hello, cb, shutting_down, link,
          ran, threw, early, stale, misread, over>>

(***************************************************************************)
(* One connection: messages in flight each way, the encoding each end uses, *)
(* whether the peer is still there, the calls the server works on, the      *)
(* threads between the two writes of a message (with the encoding they      *)
(* chose), and whether the writes of two messages were mixed.               *)
(***************************************************************************)
NewLink == [up |-> <<>>, down |-> <<>>, cenc |-> "json", senc |-> "json",
            peer |-> TRUE, work |-> {}, half |-> {}, torn |-> FALSE]

ClosedRegion == {"swap", "run", "reopen", "add", "lookup", "head", "tail"}
Finished(c) == pc[c] = "done" \/ ran[c] > 0

Init == /\ pc = [t \in Threads |-> CASE t = Main -> "new" [] t = Io -> "idle" [] OTHER -> "call"]
        /\ conn = 0 /\ nconn = 0
        /\ using = [t \in Threads |-> 0]
        /\ cbs = {} /\ swapped = {} /\ hello = FALSE /\ cb = TRUE
        /\ shutting_down = FALSE
        /\ link = [k \in Conns |-> NewLink]
        /\ ran = [c \in Callers |-> 0] /\ threw = {}
        /\ early = FALSE /\ stale = FALSE /\ misread = FALSE /\ over = FALSE

Goto(t, l) == pc' = [pc EXCEPT ![t] = l]
Dies == over' = TRUE
Lives == over' = FALSE

----------------------------------------------------------------------------
(* Opening: the constructor, and the sending of a message by any thread *)

(* the constructor: launcher.open, which connects and registers the socket *)
Construct ==
  /\ pc[Main] = "new"
  /\ nconn' = 1 /\ conn' = 1
  /\ Goto(Main, "add") /\ Lives
  /\ UNCHANGED <<using, callState, cb, shutting_down, link, history>>

(* next_message_id.fetch_add: ids are never used twice *)
IdOf(t) == CASE t \in Callers -> t [] t = Main -> 1 [] t = Io -> nconn

(* rpc_json_call::call takes an id and registers the callback; callers have *)
(* the client once its constructor returned and until it is destroyed      *)
AddCallback(t) ==
  /\ \/ t \in Callers /\ pc[t] = "call" /\ pc[Main] = "ready"
     \/ t \notin Callers /\ pc[t] = "add"
  /\ cbs' = cbs \cup {IdOf(t)}
  /\ Goto(t, IF t \in Callers THEN "check" ELSE "lookup") /\ Lives
  /\ UNCHANGED <<conn, nconn, using, swapped, hello, ran, threw, cb, shutting_down,
                 link, history>>

\* Mutant: the callback is looked up and not erased.
get_rpc_cb_Keeps(i) == cbs

(* get_rpc_cb finds the callback of a message and erases it: what is left *)
get_rpc_cb(i) == cbs \ {i}

\* Mutant: a call that comes before the answer to .hello is dropped without a word.
CheckHello_Silent(c) ==
  /\ pc[c] = "check"
  /\ Goto(c, IF hello THEN "lookup" ELSE "sent")
  /\ cbs' = IF hello THEN cbs ELSE cbs \ {c}
  /\ using' = [using EXCEPT ![c] = nconn]
  /\ Lives
  /\ UNCHANGED <<conn, nconn, swapped, hello, ran, threw, cb, shutting_down, link, history>>

(* service_client::send_message: only .hello may be sent before its answer; *)
(* any other call is answered at once with no_hello_reply                   *)
CheckHello(c) ==
  /\ pc[c] = "check"
  /\ IF hello THEN Goto(c, "lookup") /\ UNCHANGED <<cbs, ran>>
     ELSE /\ Goto(c, "done")
          /\ cbs' = get_rpc_cb(c)
          /\ ran' = IF c \in cbs THEN [ran EXCEPT ![c] = @ + 1] ELSE ran
  /\ using' = [using EXCEPT ![c] = nconn]
  /\ Lives
  /\ UNCHANGED <<conn, nconn, swapped, hello, threw, cb, shutting_down, link, history>>

(* an exception leaves the callback registered; out of the constructor or  *)
(* on the epoll thread it ends the client                                  *)
Throw(t) ==
  /\ threw' = IF t \in Callers THEN threw \cup {t} ELSE threw
  /\ IF t \in Callers THEN Goto(t, "done") /\ Lives ELSE UNCHANGED pc /\ Dies
  /\ UNCHANGED <<cbs, swapped, hello, ran>>

(* unix_service_client_impl::send_message looks at the shared connection *)
LookupConnection(t) ==
  /\ pc[t] = "lookup"
  /\ \/ conn = 0 /\ Throw(t) /\ UNCHANGED <<using, stale>>
     \/ /\ conn # 0
        /\ using' = [using EXCEPT ![t] = conn]
        /\ stale' = (stale \/ (t \in Callers /\ using[t] # conn))
        /\ Goto(t, "head") /\ Lives /\ UNCHANGED callState
  /\ UNCHANGED <<conn, nconn, cb, shutting_down, link, early, misread>>

(* the connection a thread has in hand is still the client's *)
Held(t) == conn = using[t]

(* A message is written in two parts.  The first write picks the encoding;  *)
(* if another thread is between its two writes the messages are mixed.      *)
WriteHead(t) ==
  /\ pc[t] = "head" /\ Held(t) /\ link[conn].peer
  /\ link' = [link EXCEPT ![conn].half = @ \cup {<<t, link[conn].cenc>>},
                          ![conn].torn = @ \/ link[conn].half # {}]
  /\ Goto(t, "tail") /\ Lives
  /\ UNCHANGED <<conn, nconn, using, callState, cb, shutting_down, history>>

AfterSend(t) == CASE t \in Callers -> "sent" [] t = Main -> "wait" [] t = Io -> "idle"

WriteTail(t) ==
  /\ pc[t] = "tail" /\ Held(t) /\ link[conn].peer
  /\ \E h \in link[conn].half :
       /\ h[1] = t
       /\ link' = [link EXCEPT ![conn].half = @ \ {h},
                               ![conn].up = Append(@, [id |-> IdOf(t), enc |-> h[2]])]
  /\ Goto(t, AfterSend(t)) /\ Lives
  /\ UNCHANGED <<conn, nconn, using, callState, cb, shutting_down, history>>

(* write() writes less than asked because the socket buffer is full, and    *)
(* send_data throws; whatever was written of the message stays in the stream *)
WriteFails(t) ==
  /\ pc[t] \in {"head", "tail"} /\ Held(t) /\ link[conn].peer
  /\ Throw(t)
  /\ \E written \in (IF pc[t] = "tail" THEN {TRUE} ELSE BOOLEAN) :
       link' = [link EXCEPT ![conn].half = {h \in @ : h[1] # t}, ![conn].torn = @ \/ written]
  /\ UNCHANGED <<conn, nconn, using, cb, shutting_down, history>>

(* The peer is gone: SIGPIPE, which nothing ignores, ends the process.  Or  *)
(* Io destroyed the connection since: a use after free, which may end the   *)
(* process or reach the closed descriptor and throw.                        *)
WriteToNobody(t) ==
  /\ pc[t] \in {"head", "tail"}
  /\ \/ Held(t) /\ ~link[conn].peer /\ Dies /\ UNCHANGED <<pc, callState>>
     \/ ~Held(t) /\ (Throw(t) \/ (Dies /\ UNCHANGED <<pc, callState>>))
  /\ UNCHANGED <<conn, nconn, using, cb, shutting_down, link, history>>

(* wait_for_hello_message: the constructor returns *)
HelloSeen ==
  /\ pc[Main] = "wait" /\ hello
  /\ Goto(Main, "ready") /\ Lives
  /\ UNCHANGED <<conn, nconn, using, callState, cb, shutting_down, link, history>>

----------------------------------------------------------------------------
(* The server's end; each connection is served by one thread *)

\* Mutant: the encoding is switched before .hello is answered.
Answered_SwitchFirst(l, m) ==
  IF m.id \in Conns
  THEN [l EXCEPT !.down = Append(@, [id |-> m.id, enc |-> "cbor"]), !.senc = "cbor"]
  ELSE [l EXCEPT !.work = @ \cup {m.id}]

(* A message that is mixed up or in the wrong encoding is not understood,   *)
(* and where the next one starts is then unknown; the error the server      *)
(* sends has no id and the client ignores it.                               *)
(* .hello is answered in the old encoding and the encoding switched after. *)
Answered(l, m) ==
  IF m.id \in Conns
  THEN [l EXCEPT !.down = Append(@, [id |-> m.id, enc |-> l.senc]), !.senc = "cbor"]
  ELSE [l EXCEPT !.work = @ \cup {m.id}]

ServerReads(k) ==
  /\ link[k].peer /\ link[k].up # <<>>
  /\ LET m == Head(link[k].up)
         l == [link[k] EXCEPT !.up = Tail(@)]
     IN /\ \/ m.enc = l.senc /\ link' = [link EXCEPT ![k] = Answered(l, m)]
           \/ (m.enc # l.senc \/ l.torn) /\ link' = [link EXCEPT ![k] = [l EXCEPT !.torn = TRUE]]
        /\ misread' = (misread \/ m.enc # l.senc)
  /\ Lives
  /\ UNCHANGED <<pc, conn, nconn, using, callState, cb, shutting_down, early, stale>>

(* the handler of a call delivers its result, in any order *)
ServerReplies(k) ==
  /\ link[k].peer
  /\ \E i \in link[k].work :
       link' = [link EXCEPT ![k].work = @ \ {i},
                            ![k].down = Append(@, [id |-> i, enc |-> link[k].senc])]
  /\ Lives
  /\ UNCHANGED <<pc, conn, nconn, using, callState, cb, shutting_down, history>>

(* the server closes the connection or dies; the bound leaves one to reopen *)
PeerCloses(k) ==
  /\ k = nconn /\ k < MaxConn /\ link[k].peer
  /\ link' = [link EXCEPT ![k].peer = FALSE, ![k].work = {}]
  /\ Lives
  /\ UNCHANGED <<pc, conn, nconn, using, callState, cb, shutting_down, history>>

----------------------------------------------------------------------------
(* The epoll thread *)

(* data: base_service_client_impl::handle_message tests cb ... *)
IoData ==
  /\ pc[Io] = "idle" /\ conn # 0 /\ link[conn].down # <<>>
  /\ IF cb THEN Goto(Io, "deliver") /\ UNCHANGED link
     ELSE link' = [link EXCEPT ![conn].down = Tail(@)] /\ UNCHANGED pc
  /\ Lives
  /\ UNCHANGED <<conn, nconn, using, callState, cb, shutting_down, history>>

(* ... and loads it again to call it; get_rpc_cb finds and erases the       *)
(* callback, and the one of .hello switches the encoding and tells Main.    *)
(* A message in the wrong encoding is an exception nobody catches, or looks *)
(* incomplete for ever.                                                     *)
IoDeliver ==
  /\ pc[Io] = "deliver"
  /\ LET m == Head(link[conn].down)
         l == [link[conn] EXCEPT !.down = Tail(@)]
         understood == m.enc = l.cenc
         known == m.id \in cbs /\ understood
     IN /\ over' \in {~cb, ~cb \/ ~understood}
        /\ misread' = (misread \/ ~understood)
        /\ cbs' = IF known THEN get_rpc_cb(m.id) ELSE cbs
        /\ ran' = IF known /\ m.id \in Callers THEN [ran EXCEPT ![m.id] = @ + 1] ELSE ran
        /\ hello' = (hello \/ (known /\ m.id \in Conns))
        /\ link' = [link EXCEPT ![conn] =
                      [l EXCEPT !.cenc = IF known /\ m.id \in Conns THEN "cbor" ELSE @,
                                !.torn = @ \/ ~understood]]
  /\ Goto(Io, "idle")
  /\ UNCHANGED <<conn, nconn, using, swapped, threw, cb, shutting_down, early, stale>>

(* The hang-up is handled before unread data.  base_service_client_impl     *)
(* closes the connection and tests cb ...                                   *)
IoClose ==
  /\ pc[Io] = "idle" /\ conn # 0 /\ ~link[conn].peer
  /\ conn' = 0
  /\ early' = (early \/ link[conn].cenc = "json")
  /\ Goto(Io, IF cb THEN "closed" ELSE "idle") /\ Lives
  /\ UNCHANGED <<nconn, using, callState, cb, shutting_down, link, stale, misread>>

(* ... and loads it again *)
IoCallsClosed ==
  /\ pc[Io] = "closed"
  /\ Goto(Io, "lock") /\ over' = ~cb
  /\ UNCHANGED <<conn, nconn, using, callState, cb, shutting_down, link, history>>

(* connection_closed locks shutting_down_mutex and resets the flag *)
IoResetsHello ==
  /\ pc[Io] = "lock"
  /\ hello' = FALSE
  /\ Goto(Io, "swap") /\ Lives
  /\ UNCHANGED <<conn, nconn, using, cbs, swapped, ran, threw, cb, shutting_down, link, history>>

\* Mutant: connection_closed leaves the callbacks where they are.
IoTakesCallbacks_Not ==
  /\ pc[Io] = "swap"
  /\ Goto(Io, "run") /\ Lives
  /\ UNCHANGED <<conn, nconn, using, callState, cb, shutting_down, link, history>>

IoTakesCallbacks ==
  /\ pc[Io] = "swap"
  /\ swapped' = cbs /\ cbs' = {}
  /\ Goto(Io, "run") /\ Lives
  /\ UNCHANGED <<conn, nconn, using, hello, ran, threw, cb, shutting_down, link, history>>

(* every callback is told connection_closed; the one of a .hello sets the   *)
(* flag all the same                                                        *)
IoRunsCallbacks ==
  /\ pc[Io] = "run"
  /\ ran' = [c \in Callers |-> IF c \in swapped THEN ran[c] + 1 ELSE ran[c]]
  /\ hello' = (hello \/ swapped \cap Conns # {})
  /\ swapped' = {}
  /\ Goto(Io, "reopen") /\ Lives
  /\ UNCHANGED <<conn, nconn, using, cbs, threw, cb, shutting_down, link, history>>

(* launcher->open, unless the client is being destroyed; connection_opened  *)
(* then sends the .hello of the new connection.  An exception of open ends  *)
(* the process: nothing on this thread catches it.                          *)
IoReopens ==
  /\ pc[Io] = "reopen"
  /\ \/ shutting_down /\ Goto(Io, "idle") /\ Lives /\ UNCHANGED <<conn, nconn>>
     \/ /\ ~shutting_down /\ nconn < MaxConn
        /\ nconn' = nconn + 1 /\ conn' = nconn + 1
        /\ Goto(Io, "add") /\ Lives
     \/ ~shutting_down /\ Dies /\ UNCHANGED <<pc, conn, nconn>>
  /\ UNCHANGED <<using, callState, cb, shutting_down, link, history>>

----------------------------------------------------------------------------
(* The destructors, run by the owner once its calls are finished *)

SetShuttingDown ==
  /\ pc[Main] = "ready" /\ \A c \in Callers : Finished(c)
  /\ pc[Io] \notin ClosedRegion
  /\ shutting_down' = TRUE
  /\ Goto(Main, "clear") /\ Lives
  /\ UNCHANGED <<conn, nconn, using, callState, cb, link, history>>

ClearCallback ==
  /\ pc[Main] = "clear"
  /\ cb' = FALSE
  /\ Goto(Main, "close") /\ Lives
  /\ UNCHANGED <<conn, nconn, using, callState, shutting_down, link, history>>

(* impl->close() returns at once if there is no descriptor, even if Io is   *)
(* still inside the client it then destroys; otherwise remove_socket waits  *)
(* for cbm                                                                  *)
StartClose ==
  /\ pc[Main] = "close"
  /\ Goto(Main, IF conn = 0 THEN "destroyed" ELSE "unregister")
  /\ over' = (conn = 0 /\ pc[Io] # "idle")
  /\ UNCHANGED <<conn, nconn, using, callState, cb, shutting_down, link, history>>

(* if Io closed the connection meanwhile, close(-1) fails and the exception *)
(* leaves a destructor                                                      *)
FinishClose ==
  /\ pc[Main] = "unregister" /\ pc[Io] = "idle"
  /\ over' = (conn = 0)
  /\ conn' = 0
  /\ Goto(Main, "destroyed")
  /\ UNCHANGED <<nconn, using, callState, cb, shutting_down, link, history>>

----------------------------------------------------------------------------
Sends(t) == \/ AddCallback(t) \/ LookupConnection(t)
            \/ WriteHead(t) \/ WriteTail(t) \/ WriteFails(t) \/ WriteToNobody(t)
CallerStep(c) == Sends(c) \/ CheckHello(c)
MainStep == Construct \/ Sends(Main) \/ HelloSeen
Destroy == SetShuttingDown \/ ClearCallback \/ StartClose \/ FinishClose
IoStep == \/ IoData \/ IoDeliver \/ IoClose \/ IoCallsClosed \/ IoResetsHello
          \/ IoTakesCallbacks \/ IoRunsCallbacks \/ IoReopens \/ Sends(Io)
ServerStep(k) == ServerReads(k) \/ ServerReplies(k)

Next == /\ ~over
        /\ \/ \E c \in Callers : CallerStep(c)
           \/ MainStep \/ Destroy \/ IoStep
           \/ \E k \in Conns : ServerStep(k) \/ PeerCloses(k)

Spec == Init /\ [][Next]_vars

(***************************************************************************)
(* Every thread that can take a step takes it, and the server answers what  *)
(* it has received; nothing makes the peer close a connection, a caller     *)
(* call or the owner destroy the client.                                    *)
(***************************************************************************)
Fairness ==
  /\ \A c \in Callers : WF_vars(~over /\ pc[c] # "call" /\ CallerStep(c))
  /\ WF_vars(~over /\ MainStep) /\ WF_vars(~over /\ pc[Main] # "ready" /\ Destroy)
  /\ WF_vars(~over /\ IoStep)
  /\ \A k \in Conns : WF_vars(~over /\ ServerStep(k))
FairSpec == Spec /\ Fairness

----------------------------------------------------------------------------
(* Properties *)

(***************************************************************************)
(* The callback of a call runs at most once, whether a response, the check  *)
(* for .hello or the loss of the connection gets to it first.               *)
(***************************************************************************)
CallbackOnce == \A c \in Callers : ran[c] <= 1

(***************************************************************************)
(* A registered callback is never forgotten: its call is still being sent   *)
(* or has thrown, or the epoll thread is about to fail all calls, or the    *)
(* request or its answer is under way on the connection the client still    *)
(* holds (or that connection is broken: closed by the peer or torn).  A     *)
(* call registered while connection_closed runs is the hard case: it is     *)
(* caught by the flag, by the lookup of the connection or by the swap.      *)
(***************************************************************************)
Carries(l, c) == \/ ~l.peer \/ l.torn \/ c \in l.work
                 \/ \E i \in 1 .. Len(l.up) : l.up[i].id = c
                 \/ \E i \in 1 .. Len(l.down) : l.down[i].id = c

NothingForgotten ==
  \A c \in cbs \cap Callers :
    \/ pc[c] \in {"check", "lookup", "head", "tail"}
    \/ c \in threw
    \/ pc[Io] \in {"closed", "lock", "swap"}
    \/ conn # 0 /\ using[c] = conn /\ Carries(link[conn], c)

(***************************************************************************)
(* Both ends change the encoding at the same point of the stream, although  *)
(* each switches on its own: no message is read in another encoding than    *)
(* its own.  Two things the code does not rule out are excepted: a          *)
(* connection that closes before its .hello is answered (connection_closed  *)
(* runs the callback of that .hello, which sets hello_response_value for    *)
(* the next connection), and a call that passed the check of the flag on    *)
(* one connection and is sent on the next.                                  *)
(***************************************************************************)
EncodingAgrees == misread => early \/ stale

Broken == over \/ \E k \in Conns : link[k].torn

(***************************************************************************)
(* Every call ends, by its callback or by an exception, however the server  *)
(* closes connections, unless the stream was torn or the process died.      *)
(***************************************************************************)
EveryCallEnds == \A c \in Callers : pc[c] = "check" ~> Finished(c) \/ Broken
=============================================================================
