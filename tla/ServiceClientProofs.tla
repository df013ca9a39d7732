------------------------ MODULE ServiceClientProofs ------------------------
(***************************************************************************)
(* For any number of callers and of connections: the callback of a call     *)
(* runs at most once, none is forgotten, and both ends agree on the         *)
(* encoding of every message.                                               *)
(***************************************************************************)
EXTENDS ServiceClient, TLAPS

\* The places a thread may be in.
Labels == {"new", "idle", "call", "add", "check", "lookup", "head", "tail", "sent", "done",
           "wait", "ready", "deliver", "closed", "lock", "swap", "run", "reopen", "clear",
           "close", "unregister", "destroyed"}

CallTypes == pc \in [Threads -> Labels] /\ nconn \in 0 .. MaxConn /\ ran \in [Callers -> Nat]

\* A callback that is registered, or that connection_closed has taken out, has not run yet.
NotRunYet == \A c \in Callers : c \in cbs \cup swapped => ran[c] = 0

\* It is in one of the two places.
OnePlace == \A c \in Callers : ~(c \in cbs /\ c \in swapped)

\* Before the call is made its callback is in neither.
NotYetCalled == \A c \in Callers : pc[c] = "call" => ran[c] = 0 /\ c \notin cbs \cup swapped

\* The inductive invariant.
IInv == CallTypes /\ NotRunYet /\ OnePlace /\ NotYetCalled /\ CallbackOnce

\* Initially no callback is registered.
LEMMA InitIInv == Init => IInv
  BY ThreadsDiffer, MaxConnIsPositive
     DEF Init, Labels, IInv, CallTypes, NotRunYet, OnePlace, NotYetCalled, CallbackOnce, Threads

\* A step that leaves the callbacks alone and starts no call preserves the invariant.
LEMMA QuietStep ==
  ASSUME IInv, UNCHANGED <<cbs, swapped, ran>>, nconn' \in 0 .. MaxConn,
         pc' \in [Threads -> Labels],
         \A c \in Callers : pc'[c] = "call" => pc[c] = "call"
  PROVE  IInv'
  BY DEF IInv, CallTypes, NotRunYet, OnePlace, NotYetCalled, CallbackOnce

\* A callback that is registered runs and leaves cbs: the check for .hello, or a response.
LEMMA RunOne ==
  ASSUME IInv, NEW c, c \in Callers => c \in cbs,
         cbs' = cbs \ {c}, UNCHANGED swapped, nconn' = nconn,
         ran' = IF c \in Callers THEN [ran EXCEPT ![c] = @ + 1] ELSE ran,
         pc' \in [Threads -> Labels],
         \A d \in Callers : pc'[d] = "call" => pc[d] = "call"
  PROVE  IInv'
<1>1. CASE c \notin Callers
  BY <1>1 DEF IInv, CallTypes, NotRunYet, OnePlace, NotYetCalled, CallbackOnce
<1>2. CASE c \in Callers
  <2>1. ran[c] = 0 /\ ran'[c] = 1 /\ ran' \in [Callers -> Nat]
        /\ \A d \in Callers : d # c => ran'[d] = ran[d]
    BY <1>2 DEF IInv, CallTypes, NotRunYet
  <2> QED
    BY <1>2, <2>1 DEF IInv, CallTypes, NotRunYet, OnePlace, NotYetCalled, CallbackOnce
<1> QED
  BY <1>1, <1>2

\* rpc_json_call::call, of a caller or for a .hello.
LEMMA AddCallbackStep ==
  ASSUME IInv, NEW t \in Threads, AddCallback(t)
  PROVE  IInv'
<1>1. CASE t \in Callers
  <2>1. /\ pc[t] = "call" /\ cbs' = cbs \cup {t} /\ Goto(t, "check")
        /\ UNCHANGED <<swapped, ran, nconn>>
    BY <1>1, ThreadsDiffer DEF AddCallback, IdOf
  <2>2. /\ pc' \in [Threads -> Labels]
        /\ \A c \in Callers : pc'[c] = "call" => pc[c] = "call" /\ c # t
    BY <2>1 DEF Goto, Labels, IInv, CallTypes
  <2> QED
    BY <1>1, <2>1, <2>2 DEF IInv, CallTypes, NotRunYet, OnePlace, NotYetCalled, CallbackOnce
<1>2. CASE t \notin Callers
  <2>1. /\ cbs' = cbs \cup {IdOf(t)} /\ Goto(t, "lookup")
        /\ UNCHANGED <<swapped, ran, nconn>>
    BY <1>2 DEF AddCallback
  <2>2. IdOf(t) \notin Callers
    BY <1>2, ThreadsDiffer, MaxConnIsPositive, IdsDiffer DEF IdOf, Threads, IInv, CallTypes
  <2>3. /\ pc' \in [Threads -> Labels]
        /\ \A c \in Callers : pc'[c] = "call" => pc[c] = "call"
    BY <2>1 DEF Goto, Labels, IInv, CallTypes
  <2> QED
    BY <2>1, <2>2, <2>3 DEF IInv, CallTypes, NotRunYet, OnePlace, NotYetCalled, CallbackOnce
<1> QED
  BY <1>1, <1>2

\* Every step preserves the inductive invariant.
LEMMA NextIInv == IInv /\ [Next]_vars => IInv'
<1> SUFFICES ASSUME IInv, [Next]_vars PROVE IInv'
  OBVIOUS
<1>0. Main \in Threads /\ Io \in Threads /\ Callers \subseteq Threads
  BY DEF Threads
<1> USE <1>0
<1>1. ASSUME NEW t \in Threads, AddCallback(t) PROVE IInv'
  BY <1>1, AddCallbackStep
<1>2. ASSUME NEW t \in Threads, Throw(t), nconn' = nconn PROVE IInv'
  <2>1. /\ UNCHANGED <<cbs, swapped, ran>>
        /\ pc' = pc \/ Goto(t, "done")
    BY <1>2 DEF Throw
  <2>2. pc' \in [Threads -> Labels] /\ \A c \in Callers : pc'[c] = "call" => pc[c] = "call"
    BY <2>1 DEF Goto, Labels, IInv, CallTypes
  <2> QED
    BY <1>2, <2>1, <2>2, QuietStep DEF IInv, CallTypes
<1>3. ASSUME NEW t \in Threads, LookupConnection(t) PROVE IInv'
  BY <1>2, QuietStep, <1>3 DEF LookupConnection, callState, Goto, Labels, IInv, CallTypes
<1>4. ASSUME NEW t \in Threads, WriteHead(t) PROVE IInv'
  BY QuietStep, <1>4 DEF WriteHead, callState, Goto, Labels, IInv, CallTypes
<1>5. ASSUME NEW t \in Threads, WriteTail(t) PROVE IInv'
  BY QuietStep, <1>5, ThreadsDiffer
     DEF WriteTail, AfterSend, Threads, callState, Goto, Labels, IInv, CallTypes
<1>6. ASSUME NEW t \in Threads, WriteFails(t) PROVE IInv'
  BY <1>2, <1>6 DEF WriteFails
<1>7. ASSUME NEW t \in Threads, WriteToNobody(t) PROVE IInv'
  BY <1>2, QuietStep, <1>7 DEF WriteToNobody, callState, Goto, Labels, IInv, CallTypes
<1>8. ASSUME NEW c \in Callers, CheckHello(c) PROVE IInv'
  <2>1. CASE hello
    BY QuietStep, <1>8, <2>1 DEF CheckHello, Goto, Labels, IInv, CallTypes
  <2>2. CASE ~hello
    <3>1. pc' \in [Threads -> Labels] /\ \A d \in Callers : pc'[d] = "call" => pc[d] = "call"
      BY <1>8, <2>2 DEF CheckHello, Goto, Labels, IInv, CallTypes
    <3>2. CASE c \in cbs
      BY <1>8, <2>2, <3>1, <3>2, RunOne DEF CheckHello, get_rpc_cb
    <3>3. CASE c \notin cbs
      <4>1. UNCHANGED <<cbs, swapped, ran, nconn>>
        BY <1>8, <2>2, <3>3 DEF CheckHello, get_rpc_cb
      <4> QED
        BY <3>1, <4>1, QuietStep DEF IInv, CallTypes
    <3> QED
      BY <3>2, <3>3
  <2> QED
    BY <2>1, <2>2
<1>9. CASE Construct \/ HelloSeen
  BY QuietStep, <1>9, MaxConnIsPositive
     DEF Construct, HelloSeen, callState, Goto, Labels, IInv, CallTypes
<1>10. CASE Destroy
  BY QuietStep, <1>10
     DEF Destroy, SetShuttingDown, ClearCallback, StartClose, FinishClose, callState, Goto,
         Labels, IInv, CallTypes
<1>11. CASE IoData \/ IoClose \/ IoCallsClosed \/ IoResetsHello
  BY QuietStep, <1>11
     DEF IoData, IoClose, IoCallsClosed, IoResetsHello, callState, Goto, Labels, IInv, CallTypes
<1>12. CASE IoReopens
  BY QuietStep, <1>12, MaxConnIsPositive DEF IoReopens, callState, Goto, Labels, IInv, CallTypes
<1>13. CASE IoDeliver
  <2> DEFINE m     == Head(link[conn].down)
             known == m.id \in cbs /\ m.enc = link[conn].cenc
  <2>1. /\ UNCHANGED <<swapped, nconn>> /\ Goto(Io, "idle")
        /\ cbs' = IF known THEN cbs \ {m.id} ELSE cbs
        /\ ran' = IF known /\ m.id \in Callers THEN [ran EXCEPT ![m.id] = @ + 1] ELSE ran
    BY <1>13 DEF IoDeliver, get_rpc_cb
  <2>2. pc' \in [Threads -> Labels] /\ \A d \in Callers : pc'[d] = "call" => pc[d] = "call"
    BY <2>1 DEF Goto, Labels, IInv, CallTypes
  <2> HIDE DEF m
  <2>3. CASE known
    BY <2>1, <2>2, <2>3, RunOne
  <2>4. CASE ~known
    BY <2>1, <2>2, <2>4, QuietStep DEF IInv, CallTypes
  <2> QED
    BY <2>3, <2>4
<1>14. CASE IoTakesCallbacks
  <2>1. swapped' = cbs /\ cbs' = {} /\ UNCHANGED <<ran, nconn>> /\ Goto(Io, "run")
    BY <1>14 DEF IoTakesCallbacks
  <2>2. pc' \in [Threads -> Labels] /\ \A d \in Callers : pc'[d] = "call" => pc[d] = "call"
    BY <2>1 DEF Goto, Labels, IInv, CallTypes
  <2> QED
    BY <2>1, <2>2 DEF IInv, CallTypes, NotRunYet, OnePlace, NotYetCalled, CallbackOnce
<1>15. CASE IoRunsCallbacks
  <2>1. /\ ran' = [c \in Callers |-> IF c \in swapped THEN ran[c] + 1 ELSE ran[c]]
        /\ swapped' = {} /\ UNCHANGED <<cbs, nconn>> /\ Goto(Io, "reopen")
    BY <1>15 DEF IoRunsCallbacks
  <2>2. pc' \in [Threads -> Labels] /\ \A d \in Callers : pc'[d] = "call" => pc[d] = "call"
    BY <2>1 DEF Goto, Labels, IInv, CallTypes
  <2> QED
    BY <2>1, <2>2 DEF IInv, CallTypes, NotRunYet, OnePlace, NotYetCalled, CallbackOnce
<1>16. ASSUME NEW k \in Conns, ServerReads(k) \/ ServerReplies(k) \/ PeerCloses(k) PROVE IInv'
  BY QuietStep, <1>16
     DEF ServerReads, ServerReplies, PeerCloses, callState, Goto, Labels, IInv, CallTypes
<1>17. CASE UNCHANGED vars
  BY <1>17, QuietStep DEF vars, IInv, CallTypes
<1> QED
  BY <1>1, <1>3, <1>4, <1>5, <1>6, <1>7, <1>8, <1>9, <1>10, <1>11, <1>12, <1>13, <1>14, <1>15,
     <1>16, <1>17
     DEF Next, CallerStep, MainStep, IoStep, ServerStep, Sends

\* Whatever the threads, the server and the network do, no callback runs twice.
THEOREM CallbacksRunOnce == Spec => []CallbackOnce
<1>1. IInv => CallbackOnce
  BY DEF IInv
<1> QED
  BY <1>1, InitIInv, NextIInv, PTL DEF Spec

----------------------------------------------------------------------------
(***************************************************************************)
(* No registered callback is forgotten.                                    *)
(***************************************************************************)

Encodings == {"json", "cbor"}
Ids == Callers \cup Conns
Msg == [id : Ids, enc : Encodings]
Link == [up : Seq(Msg), down : Seq(Msg), cenc : Encodings, senc : Encodings, peer : BOOLEAN,
         work : SUBSET Ids, half : SUBSET (Threads \X Encodings), torn : BOOLEAN]

LinkTypes == /\ link \in [Conns -> Link]
             /\ conn \in 0 .. MaxConn /\ using \in [Threads -> 0 .. MaxConn]

\* The places a caller may be in.
CallerPlaces ==
  \A c \in Callers : pc[c] \in {"call", "check", "lookup", "head", "tail", "sent", "done"}

\* Before the constructor runs there is no connection and no call, and Io has nothing to do.
NothingYet == /\ pc[Main] = "new" => nconn = 0
              /\ nconn = 0 => /\ pc[Main] = "new" /\ conn = 0 /\ pc[Io] = "idle"
                              /\ \A c \in Callers : pc[c] = "call"

\* A thread that writes has a connection in hand.
InHand == \A t \in Threads : pc[t] \in {"head", "tail"} => using[t] # 0

\* A call that has ended without an exception has no callback registered.
EndedCalls == \A c \in Callers : pc[c] = "done" => c \in threw \/ c \notin cbs

\* While connection_closed runs there is no connection.
NoConnection == pc[Io] \in {"closed", "lock", "swap", "run", "reopen"} => conn = 0

\* Io delivers a message of the connection.
Delivers == pc[Io] = "deliver" => conn # 0 /\ link[conn].down # <<>>

\* The destructor runs once all calls have ended, and it alone clears cb.
Destruction ==
  /\ pc[Main] \in {"clear", "close", "unregister", "destroyed"} => \A c \in Callers : Finished(c)
  /\ ~cb => pc[Main] \in {"close", "unregister", "destroyed"}

\* A call that was sent and has its callback registered is under way, or Io is about to fail it.
UnderWay ==
  \A c \in Callers :
    pc[c] = "sent" /\ c \in cbs =>
      \/ pc[Io] \in {"closed", "lock", "swap"}
      \/ conn # 0 /\ using[c] = conn /\ Carries(link[conn], c)

\* The inductive invariant of NothingForgotten.
FInv == /\ IInv /\ LinkTypes /\ CallerPlaces /\ NothingYet /\ InHand /\ EndedCalls
        /\ NoConnection /\ Delivers /\ Destruction /\ UnderWay

\* A message of a stream has the id.
Has(s, c) == \E i \in 1 .. Len(s) : s[i].id = c

\* A stream has the ids it had and the one of the message added to it.
LEMMA HasAppend ==
  ASSUME NEW s \in Seq(Msg), NEW m \in Msg, NEW c
  PROVE  /\ Append(s, m) \in Seq(Msg) /\ Append(s, m) # <<>>
         /\ Has(s, c) \/ m.id = c => Has(Append(s, m), c)
<1>1. /\ Append(s, m) \in Seq(Msg) /\ Len(Append(s, m)) = Len(s) + 1
      /\ \A i \in 1 .. Len(s) : Append(s, m)[i] = s[i]
      /\ Append(s, m)[Len(s) + 1] = m
  OBVIOUS
<1>2. Len(s) \in Nat /\ Append(s, m) # <<>>
  OBVIOUS
<1>3. Has(s, c) => Has(Append(s, m), c)
  BY <1>1, <1>2 DEF Has
<1>4. m.id = c => Has(Append(s, m), c)
  BY <1>1, <1>2 DEF Has
<1> QED
  BY <1>1, <1>2, <1>3, <1>4

\* It loses the id of the message taken from it.
LEMMA HasTail ==
  ASSUME NEW s \in Seq(Msg), s # <<>>, NEW c
  PROVE  /\ Tail(s) \in Seq(Msg) /\ Head(s) \in Msg
         /\ Has(s, c) => Head(s).id = c \/ Has(Tail(s), c)
<1>1. /\ Tail(s) \in Seq(Msg) /\ Head(s) \in Msg
      /\ Len(s) \in Nat \ {0} /\ Len(Tail(s)) = Len(s) - 1
      /\ Head(s) = s[1] /\ \A i \in 1 .. Len(s) - 1 : Tail(s)[i] = s[i + 1]
  OBVIOUS
<1>2. ASSUME NEW i \in 1 .. Len(s), s[i].id = c, i # 1 PROVE Has(Tail(s), c)
  <2>1. i - 1 \in 1 .. Len(Tail(s)) /\ Tail(s)[i - 1] = s[i]
    BY <1>1, <1>2
  <2> QED
    BY <1>2, <2>1 DEF Has
<1> QED
  BY <1>1, <1>2 DEF Has

\* A connection that is broken, or whose streams and work have the call, carries it.
LEMMA CarriesDef ==
  ASSUME NEW l, NEW c
  PROVE  Carries(l, c) <=> ~l.peer \/ l.torn \/ c \in l.work \/ Has(l.up, c) \/ Has(l.down, c)
  BY DEF Carries, Has

\* Sending a message by a thread: what the step has to show of the thread that takes it.
LEMMA SendStep ==
  ASSUME FInv, IInv', LinkTypes', UNCHANGED <<conn, nconn, cb>>, nconn > 0,
         NEW t \in Threads, NEW l \in Labels, pc' = [pc EXCEPT ![t] = l],
         t \in Callers => l \in {"check", "lookup", "head", "tail", "sent", "done"},
         t = Main => pc[t] \in {"add", "lookup", "head", "tail", "wait"}
                       /\ l \in {"lookup", "head", "tail", "wait", "ready"},
         t = Io => pc[t] \in {"add", "lookup", "head", "tail"}
                     /\ l \in {"lookup", "head", "tail", "idle"},
         \A u \in Threads \ {t} : using'[u] = using[u],
         l \in {"head", "tail"} => using'[t] # 0,
         \A d \in Callers : /\ d \in threw => d \in threw'
                            /\ d # t /\ d \in cbs' => d \in cbs
                            /\ Finished(d) => Finished(d)',
         t \in Callers /\ l = "done" => t \in threw' \/ t \notin cbs',
         t \in Callers /\ l = "sent" => conn # 0 /\ using'[t] = conn /\ Carries(link[conn], t)',
         conn # 0 => /\ link'[conn].down = link[conn].down
                     /\ \A d \in Callers : Carries(link[conn], d) => Carries(link[conn], d)'
  PROVE  FInv'
<1>0. Main \in Threads /\ Io \in Threads /\ Callers \subseteq Threads
  BY DEF Threads
<1>1. pc'[t] = l /\ \A u \in Threads \ {t} : pc'[u] = pc[u]
  BY DEF FInv, IInv, CallTypes
<1>2. CallerPlaces' /\ InHand' /\ EndedCalls'
  BY <1>0, <1>1 DEF FInv, CallerPlaces, InHand, EndedCalls
<1>3. NothingYet' /\ NoConnection' /\ Delivers'
  BY <1>0, <1>1 DEF FInv, NothingYet, NoConnection, Delivers
<1>4. Destruction'
  BY <1>0, <1>1 DEF FInv, Destruction
<1>5. UnderWay'
  BY <1>0, <1>1 DEF FInv, UnderWay
<1> QED
  BY <1>2, <1>3, <1>4, <1>5 DEF FInv

\* A step that changes connections only, and loses nothing on the one the client holds.
LEMMA WireStep ==
  ASSUME FInv, IInv', LinkTypes', UNCHANGED <<pc, conn, nconn, cb, using, cbs, threw, ran>>,
         conn # 0 => /\ link[conn].down # <<>> => link'[conn].down # <<>>
                     /\ \A d \in Callers : Carries(link[conn], d) => Carries(link[conn], d)'
  PROVE  FInv'
<1>1. CallerPlaces' /\ InHand' /\ EndedCalls' /\ NothingYet' /\ NoConnection' /\ Delivers'
  BY DEF FInv, CallerPlaces, InHand, EndedCalls, NothingYet, NoConnection, Delivers
<1>2. Destruction' /\ UnderWay'
  BY DEF FInv, Destruction, Finished, UnderWay
<1> QED
  BY <1>1, <1>2 DEF FInv

\* Initially nothing is registered or under way.
LEMMA InitFInv == Init => FInv
<1> SUFFICES ASSUME Init PROVE FInv
  OBVIOUS
<1>1. NewLink \in Link
  BY DEF NewLink, Link, Encodings
<1>2. LinkTypes
  BY <1>1, MaxConnIsPositive DEF Init, LinkTypes
<1>3. /\ pc[Main] = "new" /\ pc[Io] = "idle" /\ \A c \in Callers : pc[c] = "call"
      /\ \A t \in Threads : pc[t] \in {"new", "idle", "call"}
  BY ThreadsDiffer DEF Init, Threads
<1>4. CallerPlaces /\ NothingYet /\ InHand /\ EndedCalls /\ NoConnection /\ Delivers
  BY <1>3 DEF Init, CallerPlaces, NothingYet, InHand, EndedCalls, NoConnection, Delivers
<1>5. Destruction /\ UnderWay
  BY <1>3 DEF Init, Destruction, UnderWay
<1> QED
  BY <1>2, <1>4, <1>5, InitIInv DEF FInv

\* The threads, and the connection a thread writes to.
LEMMA Basics ==
  ASSUME FInv
  PROVE  /\ Main \in Threads /\ Io \in Threads /\ Callers \subseteq Threads
         /\ \A t \in Threads : t \in Callers \/ t = Main \/ t = Io
         /\ \A t \in Threads : pc[t] \in {"head", "tail"} /\ conn = using[t]
                                 => conn \in Conns /\ conn # 0
         /\ \A t \in Threads : pc[t] \in {"add", "check", "lookup", "head", "tail"} => nconn > 0
         /\ nconn \in Nat /\ \A d \in Callers : ran[d] \in Nat
  BY MaxConnIsPositive
     DEF FInv, IInv, CallTypes, LinkTypes, InHand, NothingYet, Conns, Threads

\* An exception out of a call keeps its callback registered and says so.
LEMMA ThrowStep ==
  ASSUME FInv, IInv', LinkTypes', NEW t \in Threads, Throw(t), nconn > 0,
         pc[t] \in {"lookup", "head", "tail"},
         UNCHANGED <<conn, nconn, cb, using>>,
         conn # 0 => /\ link'[conn].down = link[conn].down
                     /\ \A d \in Callers : Carries(link[conn], d) => Carries(link[conn], d)'
  PROVE  FInv'
<1>1. CASE t \in Callers
  <2>1. pc' = [pc EXCEPT ![t] = "done"] /\ threw' = threw \cup {t} /\ UNCHANGED <<cbs, ran>>
    BY <1>1 DEF Throw, Goto
  <2>2. \A d \in Callers : Finished(d) => Finished(d)'
    BY <2>1 DEF Finished, FInv, IInv, CallTypes, Threads
  <2> QED
    BY <1>1, <2>1, <2>2, ThreadsDiffer, SendStep DEF Labels
<1>2. CASE t \notin Callers
  <2>1. UNCHANGED <<pc, cbs, ran, threw>>
    BY <1>2 DEF Throw
  <2> QED
    BY <2>1, WireStep
<1> QED
  BY <1>1, <1>2

\* What a link carries is still there when it has lost nothing.
LEMMA StillCarries ==
  ASSUME NEW l, NEW n, ~l.peer => ~n.peer, l.torn => n.torn, l.work \subseteq n.work,
         n.up = l.up, n.down = l.down
  PROVE  \A c \in Callers : Carries(l, c) => Carries(n, c)
  BY CarriesDef

\* The steps of sending a message: the id and the callback, the lookup of the connection, the
\* two writes and their failures.
LEMMA SendsStep ==
  ASSUME FInv, IInv', NEW t \in Threads, Sends(t)
  PROVE  FInv'
<1>0. /\ Main \in Threads /\ Io \in Threads /\ Callers \subseteq Threads
      /\ t \in Callers \/ t = Main \/ t = Io
      /\ pc[t] \in {"head", "tail"} /\ conn = using[t] => conn \in Conns /\ conn # 0
      /\ pc[t] \in {"add", "check", "lookup", "head", "tail"} => nconn > 0
      /\ nconn \in Nat /\ \A d \in Callers : ran[d] \in Nat
  BY Basics
<1> USE <1>0
<1>1. CASE AddCallback(t)
  <2>1. /\ UNCHANGED <<conn, nconn, cb, using, threw, ran, link>>
        /\ t \in Callers => pc[Main] = "ready" /\ pc[t] = "call"
        /\ t \notin Callers => pc[t] = "add"
        /\ pc' = [pc EXCEPT ![t] = IF t \in Callers THEN "check" ELSE "lookup"]
        /\ cbs' = cbs \cup {IdOf(t)}
    BY <1>1 DEF AddCallback, history, Goto
  <2>2. nconn > 0
    BY <2>1 DEF FInv, NothingYet
  <2>3. \A d \in Callers : d # t /\ d \in cbs' => d \in cbs
    BY <2>1, <2>2, ThreadsDiffer, IdsDiffer, MaxConnIsPositive
       DEF IdOf, Threads, FInv, IInv, CallTypes
  <2>4. LinkTypes'
    BY <2>1 DEF FInv, LinkTypes
  <2>5. \A d \in Callers : Finished(d) => Finished(d)'
    BY <2>1 DEF Finished, FInv, IInv, CallTypes
  <2>6. \A d \in Callers : Carries(link[conn], d) => Carries(link[conn], d)'
    BY <2>1 DEF Carries
  <2> QED
    BY <2>1, <2>2, <2>3, <2>4, <2>5, <2>6, ThreadsDiffer, SendStep DEF Labels
<1>2. CASE LookupConnection(t)
  <2>1. pc[t] = "lookup" /\ UNCHANGED <<conn, nconn, cb, link>> /\ nconn > 0
    BY <1>2 DEF LookupConnection
  <2>2. \A d \in Callers : Carries(link[conn], d) => Carries(link[conn], d)'
    BY <2>1 DEF Carries
  <2>3. CASE conn = 0 /\ Throw(t) /\ UNCHANGED using
    <3>1. LinkTypes'
      BY <2>1, <2>3 DEF FInv, LinkTypes
    <3> QED
      BY <2>1, <2>2, <2>3, <3>1, ThrowStep
  <2>4. CASE /\ conn # 0 /\ using' = [using EXCEPT ![t] = conn] /\ Goto(t, "head")
             /\ UNCHANGED callState
    <3>1. LinkTypes' /\ using'[t] = conn /\ \A u \in Threads \ {t} : using'[u] = using[u]
      BY <2>1, <2>4 DEF FInv, LinkTypes
    <3>2. \A d \in Callers : Finished(d) => Finished(d)'
      BY <2>1, <2>4 DEF Finished, FInv, IInv, CallTypes, callState, Goto
    <3> QED
      BY <2>1, <2>2, <2>4, <3>1, <3>2, ThreadsDiffer, SendStep DEF Labels, Goto, callState
  <2> QED
    BY <1>2, <2>3, <2>4 DEF LookupConnection
<1>3. CASE WriteHead(t)
  <2>1. /\ pc[t] = "head" /\ conn \in Conns /\ using[t] = conn /\ nconn > 0
        /\ link' = [link EXCEPT ![conn].half = @ \cup {<<t, link[conn].cenc>>},
                                ![conn].torn = @ \/ link[conn].half # {}]
        /\ pc' = [pc EXCEPT ![t] = "tail"]
        /\ UNCHANGED <<conn, nconn, using, cbs, threw, ran, cb>>
    BY <1>3 DEF WriteHead, Held, Goto, callState
  <2>2. link[conn] \in Link
    BY <2>1 DEF FInv, LinkTypes
  <2> DEFINE half == link[conn].half \cup {<<t, link[conn].cenc>>}
             torn == link[conn].torn \/ link[conn].half # {}
  <2>3. link'[conn] = [link[conn] EXCEPT !.half = half, !.torn = torn]
    BY <2>1, <2>2 DEF FInv, LinkTypes
  <2>4. half \in SUBSET (Threads \X Encodings) /\ torn \in BOOLEAN /\ (link[conn].torn => torn)
    BY <2>2 DEF Link
  <2> HIDE DEF half, torn
  <2>5. /\ link'[conn] \in Link /\ link'[conn].down = link[conn].down
        /\ link'[conn].up = link[conn].up /\ link'[conn].peer = link[conn].peer
        /\ link'[conn].work = link[conn].work /\ link'[conn].torn = torn
    BY <2>2, <2>3, <2>4 DEF Link
  <2>6. LinkTypes' /\ \A d \in Callers : Carries(link[conn], d) => Carries(link'[conn], d)
    BY <2>1, <2>4, <2>5, StillCarries DEF FInv, LinkTypes
  <2>7. \A d \in Callers : Finished(d) => Finished(d)'
    BY <2>1 DEF Finished, FInv, IInv, CallTypes
  <2> QED
    BY <2>1, <2>5, <2>6, <2>7, ThreadsDiffer, SendStep DEF Labels
<1>4. CASE WriteTail(t)
  <2>1. PICK h \in link[conn].half :
          /\ pc[t] = "tail" /\ conn \in Conns /\ using[t] = conn /\ nconn > 0 /\ h[1] = t
          /\ link' = [link EXCEPT ![conn].half = @ \ {h},
                                  ![conn].up = Append(@, [id |-> IdOf(t), enc |-> h[2]])]
          /\ pc' = [pc EXCEPT ![t] = AfterSend(t)]
          /\ UNCHANGED <<conn, nconn, using, cbs, threw, ran, cb>>
    BY <1>4 DEF WriteTail, Held, Goto, callState
  <2> DEFINE m == [id |-> IdOf(t), enc |-> h[2]]
  <2>2. link[conn] \in Link
    BY <2>1 DEF FInv, LinkTypes
  <2>3. h \in Threads \X Encodings
    BY <2>2 DEF Link
  <2>4. m \in Msg /\ (t \in Callers => m.id = t)
    <3>1. IdOf(t) \in Ids /\ (t \in Callers => IdOf(t) = t)
      BY <2>1, ThreadsDiffer, MaxConnIsPositive DEF IdOf, Ids, Conns, FInv, IInv, CallTypes
    <3> QED
      BY <2>3, <3>1 DEF Msg
  <2> HIDE DEF m
  <2>5. link'[conn] = [link[conn] EXCEPT !.half = @ \ {h}, !.up = Append(@, m)]
    BY <2>1, <2>2 DEF FInv, LinkTypes, m
  <2>6. link[conn].up \in Seq(Msg) /\ Append(link[conn].up, m) \in Seq(Msg)
    BY <2>2, <2>4, HasAppend DEF Link
  <2>7. link'[conn] \in Link
    BY <2>2, <2>5, <2>6 DEF Link
  <2>8. LinkTypes'
    BY <2>1, <2>7 DEF FInv, LinkTypes
  <2>9. /\ link'[conn].down = link[conn].down /\ link'[conn].peer = link[conn].peer
        /\ link'[conn].torn = link[conn].torn /\ link'[conn].work = link[conn].work
        /\ link'[conn].up = Append(link[conn].up, m)
    BY <2>2, <2>5 DEF Link
  <2>10. \A d \in Callers : Carries(link[conn], d) \/ m.id = d => Carries(link'[conn], d)
    BY <2>4, <2>6, <2>9, CarriesDef, HasAppend
  <2>11. \A d \in Callers : Finished(d) => Finished(d)'
    BY <2>1 DEF Finished, FInv, IInv, CallTypes
  <2>12. /\ AfterSend(t) \in Labels
         /\ t \in Callers => AfterSend(t) = "sent"
         /\ t = Main => AfterSend(t) = "wait"
         /\ t = Io => AfterSend(t) = "idle"
    BY ThreadsDiffer DEF AfterSend, Labels
  <2>13. /\ t \in Callers => AfterSend(t) \in {"check", "lookup", "head", "tail", "sent", "done"}
         /\ AfterSend(t) \notin {"head", "tail", "done"}
    BY <2>12
  <2>14. conn # 0
    BY <2>1 DEF Conns
  <2> QED
    BY <2>1, <2>4, <2>8, <2>9, <2>10, <2>11, <2>12, <2>13, <2>14, ThreadsDiffer, SendStep
<1>5. CASE WriteFails(t)
  <2>1. PICK written \in BOOLEAN :
          /\ pc[t] \in {"head", "tail"} /\ conn \in Conns /\ nconn > 0 /\ Throw(t)
          /\ link' = [link EXCEPT ![conn].half = {h \in @ : h[1] # t}, ![conn].torn = @ \/ written]
          /\ UNCHANGED <<conn, nconn, using, cb>>
    BY <1>5 DEF WriteFails, Held
  <2>2. link[conn] \in Link
    BY <2>1 DEF FInv, LinkTypes
  <2> DEFINE half == {h \in link[conn].half : h[1] # t}
             torn == link[conn].torn \/ written
  <2>3. link'[conn] = [link[conn] EXCEPT !.half = half, !.torn = torn]
    BY <2>1, <2>2 DEF FInv, LinkTypes
  <2>4. half \in SUBSET (Threads \X Encodings) /\ torn \in BOOLEAN /\ (link[conn].torn => torn)
    BY <2>2 DEF Link
  <2> HIDE DEF half, torn
  <2>5. /\ link'[conn] \in Link /\ link'[conn].down = link[conn].down
        /\ link'[conn].up = link[conn].up /\ link'[conn].peer = link[conn].peer
        /\ link'[conn].work = link[conn].work /\ link'[conn].torn = torn
    BY <2>2, <2>3, <2>4 DEF Link
  <2>6. LinkTypes' /\ \A d \in Callers : Carries(link[conn], d) => Carries(link'[conn], d)
    BY <2>1, <2>4, <2>5, StillCarries DEF FInv, LinkTypes
  <2> QED
    BY <2>1, <2>5, <2>6, ThrowStep
<1>6. CASE WriteToNobody(t)
  <2>1. pc[t] \in {"head", "tail"} /\ UNCHANGED <<conn, nconn, using, cb, link>> /\ nconn > 0
    BY <1>6 DEF WriteToNobody, Held
  <2>2. LinkTypes' /\ \A d \in Callers : Carries(link[conn], d) => Carries(link[conn], d)'
    BY <2>1 DEF FInv, LinkTypes, Carries
  <2>3. CASE Throw(t)
    BY <2>1, <2>2, <2>3, ThrowStep
  <2>4. CASE UNCHANGED <<pc, callState>>
    BY <2>1, <2>2, <2>4, WireStep DEF callState
  <2> QED
    BY <1>6, <2>3, <2>4 DEF WriteToNobody
<1> QED
  BY <1>1, <1>2, <1>3, <1>4, <1>5, <1>6 DEF Sends

\* The check for .hello in a call.
LEMMA CheckHelloStep ==
  ASSUME FInv, IInv', NEW c \in Callers, CheckHello(c)
  PROVE  FInv'
<1>1. /\ pc[c] = "check" /\ using' = [using EXCEPT ![c] = nconn]
      /\ UNCHANGED <<conn, nconn, threw, cb, link>>
      /\ pc' = [pc EXCEPT ![c] = IF hello THEN "lookup" ELSE "done"]
      /\ cbs' \subseteq cbs /\ (~hello => c \notin cbs')
      /\ \A d \in Callers : ran[d] > 0 => ran'[d] > 0
  <2>1. CASE hello
    BY <2>1 DEF CheckHello, Goto
  <2>2. CASE ~hello
    BY <2>2 DEF CheckHello, Goto, get_rpc_cb, FInv, IInv, CallTypes
  <2> QED
    BY <2>1, <2>2 DEF CheckHello
<1>2. c \in Threads /\ c # Main /\ c # Io /\ nconn > 0
  BY <1>1, Basics, ThreadsDiffer
<1>3. LinkTypes' /\ \A u \in Threads \ {c} : using'[u] = using[u]
  BY <1>1, <1>2 DEF FInv, LinkTypes, IInv, CallTypes
<1>4. \A d \in Callers : Finished(d) => Finished(d)'
  BY <1>1, <1>2 DEF Finished, FInv, IInv, CallTypes, Threads
<1>5. \A d \in Callers : Carries(link[conn], d) => Carries(link[conn], d)'
  BY <1>1 DEF Carries
<1> QED
  BY <1>1, <1>2, <1>3, <1>4, <1>5, SendStep DEF Labels

\* The steps of Main outside a call.
LEMMA MainSteps ==
  ASSUME FInv, IInv', Construct \/ HelloSeen \/ Destroy
  PROVE  FInv'
<1>0. /\ Main \in Threads /\ Io \in Threads /\ Main # Io /\ Callers \subseteq Threads
      /\ Main \notin Callers /\ nconn \in Nat
  BY Basics, ThreadsDiffer
<1>1. CASE Construct
  <2>1. /\ pc[Main] = "new" /\ nconn' = 1 /\ conn' = 1 /\ pc' = [pc EXCEPT ![Main] = "add"]
        /\ UNCHANGED <<using, cbs, threw, ran, cb, link>>
    BY <1>1 DEF Construct, Goto, callState
  <2>2. /\ nconn = 0 /\ pc'[Main] = "add" /\ pc'[Io] = "idle"
        /\ \A t \in Threads \ {Main} : pc'[t] = pc[t]
    BY <1>0, <2>1 DEF FInv, IInv, CallTypes, NothingYet
  <2>3. \A c \in Callers : pc'[c] = "call"
    BY <1>0, <2>1, <2>2 DEF FInv, NothingYet
  <2>4. LinkTypes'
    BY <2>1, MaxConnIsPositive DEF FInv, LinkTypes
  <2>5. CallerPlaces' /\ NothingYet' /\ InHand' /\ EndedCalls'
    BY <1>0, <2>1, <2>2, <2>3 DEF FInv, CallerPlaces, NothingYet, InHand, EndedCalls
  <2>6. NoConnection' /\ Delivers' /\ Destruction' /\ UnderWay'
    BY <2>1, <2>2, <2>3 DEF FInv, NoConnection, Delivers, Destruction, UnderWay
  <2> QED
    BY <2>4, <2>5, <2>6 DEF FInv
<1>2. CASE HelloSeen
  <2>1. /\ pc[Main] = "wait" /\ pc' = [pc EXCEPT ![Main] = "ready"]
        /\ UNCHANGED <<conn, nconn, using, cbs, threw, ran, cb, link>>
    BY <1>2 DEF HelloSeen, Goto, callState
  <2>2. nconn > 0
    BY <1>0, <2>1 DEF FInv, NothingYet
  <2>3. LinkTypes'
    BY <2>1 DEF FInv, LinkTypes
  <2>4. \A d \in Callers : Finished(d) => Finished(d)'
    BY <1>0, <2>1 DEF Finished, FInv, IInv, CallTypes
  <2>5. \A d \in Callers : Carries(link[conn], d) => Carries(link[conn], d)'
    BY <2>1 DEF Carries
  <2> QED
    BY <1>0, <2>1, <2>2, <2>3, <2>4, <2>5, SendStep DEF Labels
<1>3. CASE Destroy
  <2>1. /\ pc[Main] \in {"ready", "clear", "close", "unregister"}
        /\ \A c \in Callers : Finished(c)
        /\ conn' \in {0, conn} /\ (conn' # conn => pc[Io] = "idle")
        /\ UNCHANGED <<nconn, using, cbs, threw, ran, link>>
    BY <1>3 DEF Destroy, SetShuttingDown, ClearCallback, StartClose, FinishClose, callState,
                FInv, Destruction
  <2>2. \E l \in {"clear", "close", "unregister", "destroyed"} :
          /\ pc' = [pc EXCEPT ![Main] = l]
          /\ ~cb' => l # "clear"
    <3>1. ~cb => pc[Main] \in {"close", "unregister", "destroyed"}
      BY DEF FInv, Destruction
    <3> QED
      BY <1>3, <3>1 DEF Destroy, SetShuttingDown, ClearCallback, StartClose, FinishClose, Goto
  <2>3. PICK l \in {"clear", "close", "unregister", "destroyed"} :
          /\ pc' = [pc EXCEPT ![Main] = l]
          /\ ~cb' => l # "clear"
    BY <2>2
  <2>4. pc'[Main] = l /\ \A t \in Threads \ {Main} : pc'[t] = pc[t]
    BY <1>0, <2>3 DEF FInv, IInv, CallTypes
  <2>5. LinkTypes'
    BY <2>1, MaxConnIsPositive DEF FInv, LinkTypes
  <2>6. CallerPlaces' /\ NothingYet' /\ InHand' /\ EndedCalls'
    BY <1>0, <2>1, <2>4 DEF FInv, CallerPlaces, NothingYet, InHand, EndedCalls
  <2>7. NoConnection' /\ Delivers'
    BY <1>0, <2>1, <2>4 DEF FInv, NoConnection, Delivers
  <2>8. Destruction'
    BY <1>0, <2>1, <2>3, <2>4 DEF Destruction, Finished
  <2>9. UnderWay'
    <3>1. \A c \in Callers : pc[c] = "sent" => c \notin cbs
      BY <2>1 DEF Finished, FInv, IInv, NotRunYet
    <3> QED
      BY <1>0, <2>1, <2>4, <3>1 DEF UnderWay
  <2> QED
    BY <2>5, <2>6, <2>7, <2>8, <2>9 DEF FInv
<1> QED
  BY <1>1, <1>2, <1>3

\* A step of the epoll thread outside a call: what it has to show of the calls that were sent.
LEMMA IoMoves ==
  ASSUME FInv, IInv', LinkTypes', NEW l \in Labels \ {"head", "tail"}, pc' = [pc EXCEPT ![Io] = l],
         nconn > 0, nconn' > 0, UNCHANGED <<using, threw, cb>>,
         \A d \in Callers : (d \in cbs' => d \in cbs) /\ (ran[d] > 0 => ran'[d] > 0),
         l \in {"closed", "lock", "swap", "run", "reopen"} => conn' = 0,
         l = "deliver" => conn' # 0 /\ link'[conn'].down # <<>>,
         \A c \in Callers :
           pc[c] = "sent" /\ c \in cbs' =>
             \/ l \in {"closed", "lock", "swap"}
             \/ conn' # 0 /\ using[c] = conn' /\ Carries(link[conn], c)'
  PROVE  FInv'
<1>0. /\ Main \in Threads /\ Io \in Threads /\ Main # Io /\ Callers \subseteq Threads
      /\ Io \notin Callers
  BY Basics, ThreadsDiffer
<1>1. pc'[Io] = l /\ \A u \in Threads \ {Io} : pc'[u] = pc[u]
  BY <1>0 DEF FInv, IInv, CallTypes
<1>2. CallerPlaces' /\ NothingYet' /\ InHand' /\ EndedCalls'
  BY <1>0, <1>1 DEF FInv, CallerPlaces, NothingYet, InHand, EndedCalls
<1>3. NoConnection' /\ Delivers'
  BY <1>0, <1>1 DEF FInv, NoConnection, Delivers
<1>4. Destruction'
  BY <1>0, <1>1 DEF FInv, Destruction, Finished
<1>5. UnderWay'
  BY <1>0, <1>1 DEF FInv, UnderWay
<1> QED
  BY <1>2, <1>3, <1>4, <1>5 DEF FInv

\* Delivering a message: a call whose answer is not understood is on a torn stream.
LEMMA IoDeliverStep ==
  ASSUME FInv, IInv', IoDeliver
  PROVE  FInv'
<1> DEFINE m == Head(link[conn].down)
           understood == m.enc = link[conn].cenc
           known == m.id \in cbs /\ understood
           cenc == IF known /\ m.id \in Conns THEN "cbor" ELSE link[conn].cenc
           torn == link[conn].torn \/ ~understood
<1>1. /\ pc[Io] = "deliver" /\ pc' = [pc EXCEPT ![Io] = "idle"]
      /\ UNCHANGED <<conn, nconn, using, threw, cb>>
      /\ cbs' = IF known THEN cbs \ {m.id} ELSE cbs
      /\ ran' = IF known /\ m.id \in Callers THEN [ran EXCEPT ![m.id] = @ + 1] ELSE ran
  BY DEF IoDeliver, Goto, get_rpc_cb
<1>2. conn \in Conns /\ conn # 0 /\ link[conn] \in Link /\ link[conn].down # <<>> /\ nconn > 0
  BY <1>1, MaxConnIsPositive
     DEF FInv, Delivers, NothingYet, LinkTypes, Conns, IInv, CallTypes
<1>3. link' = [link EXCEPT ![conn] = [[link[conn] EXCEPT !.down = Tail(@)] EXCEPT !.cenc = cenc,
                                                                               !.torn = torn]]
  BY <1>2 DEF IoDeliver, Link
<1>4. /\ link[conn].down \in Seq(Msg) /\ m \in Msg /\ Tail(link[conn].down) \in Seq(Msg)
      /\ \A c : Has(link[conn].down, c) => m.id = c \/ Has(Tail(link[conn].down), c)
  BY <1>2, HasTail DEF Link
<1>5. cenc \in Encodings /\ torn \in BOOLEAN
  BY <1>2 DEF Link, Encodings
<1>6. link'[conn] = [[link[conn] EXCEPT !.down = Tail(@)] EXCEPT !.cenc = cenc, !.torn = torn]
  BY <1>2, <1>3 DEF FInv, LinkTypes
<1>7. torn = (link[conn].torn \/ ~understood)
  OBVIOUS
<1> HIDE DEF m, cenc, torn
<1>8. /\ link'[conn] \in Link /\ link'[conn].down = Tail(link[conn].down)
      /\ link'[conn].up = link[conn].up /\ link'[conn].peer = link[conn].peer
      /\ link'[conn].work = link[conn].work /\ link'[conn].torn = torn
  BY <1>2, <1>4, <1>5, <1>6 DEF Link
<1>9. LinkTypes'
  BY <1>1, <1>2, <1>3, <1>6, <1>8 DEF FInv, LinkTypes
<1>10. \A d \in Callers : (d \in cbs' => d \in cbs) /\ (ran[d] > 0 => ran'[d] > 0)
  BY <1>1 DEF FInv, IInv, CallTypes
<1>11. ASSUME NEW c \in Callers, pc[c] = "sent", c \in cbs'
       PROVE  using[c] = conn /\ Carries(link'[conn], c)
  <2>1. c \in cbs /\ (m.id = c => ~understood)
    BY <1>1, <1>11
  <2>2. using[c] = conn /\ Carries(link[conn], c)
    BY <1>1, <1>11, <2>1 DEF FInv, UnderWay
  <2>3. Carries(link'[conn], c)
    BY <1>4, <1>7, <1>8, <2>1, <2>2, CarriesDef
  <2> QED
    BY <2>2, <2>3
<1> QED
  BY <1>1, <1>2, <1>9, <1>10, <1>11, IoMoves DEF Labels

\* The other steps of the epoll thread.
LEMMA IoSteps ==
  ASSUME FInv, IInv',
         \/ IoData \/ IoClose \/ IoCallsClosed \/ IoResetsHello \/ IoTakesCallbacks
         \/ IoRunsCallbacks \/ IoReopens
  PROVE  FInv'
<1>0. /\ nconn \in Nat /\ conn \in 0 .. MaxConn /\ (conn # 0 => conn \in Conns)
      /\ (conn # 0 => nconn > 0) /\ (pc[Io] # "idle" => nconn > 0)
      /\ \A d \in Callers : ran[d] \in Nat
  BY MaxConnIsPositive DEF FInv, IInv, CallTypes, LinkTypes, Conns, NothingYet
<1>1. ~cb => \A c \in Callers : pc[c] = "sent" => c \notin cbs
  BY DEF FInv, Destruction, Finished, IInv, NotRunYet
<1>2. \A c \in Callers :
        pc[c] = "sent" /\ c \in cbs =>
          \/ pc[Io] \in {"closed", "lock", "swap"}
          \/ conn # 0 /\ using[c] = conn /\ Carries(link[conn], c)
  BY DEF FInv, UnderWay
<1>3. CASE IoData
  <2>1. /\ pc[Io] = "idle" /\ conn # 0 /\ link[conn].down # <<>>
        /\ UNCHANGED <<conn, nconn, using, cbs, threw, ran, cb>>
    BY <1>3 DEF IoData, callState
  <2>2. CASE cb
    <3>1. pc' = [pc EXCEPT ![Io] = "deliver"] /\ link' = link
      BY <1>3, <2>2 DEF IoData, Goto
    <3>2. LinkTypes' /\ \A c \in Callers : Carries(link[conn], c) => Carries(link[conn], c)'
      BY <2>1, <3>1 DEF FInv, LinkTypes, Carries
    <3> QED
      BY <1>0, <1>2, <2>1, <3>1, <3>2, IoMoves DEF Labels
  <2>3. CASE ~cb
    <3>1. link' = [link EXCEPT ![conn].down = Tail(@)] /\ pc' = pc
      BY <1>3, <2>3 DEF IoData
    <3>2. link[conn] \in Link /\ Tail(link[conn].down) \in Seq(Msg)
      BY <1>0, <2>1, HasTail DEF FInv, LinkTypes, Link
    <3>3. link'[conn] = [link[conn] EXCEPT !.down = Tail(@)]
      BY <1>0, <2>1, <3>1 DEF FInv, LinkTypes
    <3>4. link'[conn] \in Link
      BY <3>2, <3>3 DEF Link
    <3>5. LinkTypes'
      BY <1>0, <2>1, <3>1, <3>4 DEF FInv, LinkTypes
    <3>6. pc' = [pc EXCEPT ![Io] = "idle"]
      BY <2>1, <3>1 DEF FInv, IInv, CallTypes
    <3> QED
      BY <1>0, <1>1, <2>1, <2>3, <3>5, <3>6, IoMoves DEF Labels
  <2> QED
    BY <2>2, <2>3
<1>4. CASE IoClose
  <2>1. /\ pc[Io] = "idle" /\ conn # 0 /\ conn' = 0
        /\ pc' = [pc EXCEPT ![Io] = IF cb THEN "closed" ELSE "idle"]
        /\ UNCHANGED <<nconn, using, cbs, threw, ran, cb, link>>
    BY <1>4 DEF IoClose, Goto, callState
  <2>2. LinkTypes'
    BY <2>1, MaxConnIsPositive DEF FInv, LinkTypes
  <2> QED
    BY <1>0, <1>1, <2>1, <2>2, IoMoves DEF Labels
<1>5. CASE IoCallsClosed \/ IoResetsHello
  <2>1. /\ pc[Io] \in {"closed", "lock"}
        /\ pc' = [pc EXCEPT ![Io] = IF pc[Io] = "closed" THEN "lock" ELSE "swap"]
        /\ UNCHANGED <<conn, nconn, using, cbs, threw, ran, cb, link>>
    BY <1>5 DEF IoCallsClosed, IoResetsHello, Goto, callState
  <2>2. LinkTypes' /\ conn = 0
    BY <2>1 DEF FInv, LinkTypes, NoConnection
  <2> QED
    BY <1>0, <2>1, <2>2, IoMoves DEF Labels
<1>6. CASE IoTakesCallbacks
  <2>1. /\ pc[Io] = "swap" /\ pc' = [pc EXCEPT ![Io] = "run"] /\ cbs' = {}
        /\ UNCHANGED <<conn, nconn, using, threw, ran, cb, link>>
    BY <1>6 DEF IoTakesCallbacks, Goto
  <2>2. LinkTypes' /\ conn = 0
    BY <2>1 DEF FInv, LinkTypes, NoConnection
  <2> QED
    BY <1>0, <2>1, <2>2, IoMoves DEF Labels
<1>7. CASE IoRunsCallbacks
  <2>1. /\ pc[Io] = "run" /\ pc' = [pc EXCEPT ![Io] = "reopen"]
        /\ ran' = [c \in Callers |-> IF c \in swapped THEN ran[c] + 1 ELSE ran[c]]
        /\ UNCHANGED <<conn, nconn, using, cbs, threw, cb, link>>
    BY <1>7 DEF IoRunsCallbacks, Goto
  <2>2. LinkTypes' /\ conn = 0
    BY <2>1 DEF FInv, LinkTypes, NoConnection
  <2>3. \A d \in Callers : ran[d] > 0 => ran'[d] > 0
    BY <1>0, <2>1
  <2> QED
    BY <1>0, <1>2, <2>1, <2>2, <2>3, IoMoves DEF Labels
<1>8. CASE IoReopens
  <2>1. /\ pc[Io] = "reopen" /\ UNCHANGED <<using, cbs, threw, ran, cb, link>>
        /\ \/ pc' = [pc EXCEPT ![Io] = "idle"] /\ UNCHANGED <<conn, nconn>>
           \/ /\ nconn < MaxConn /\ nconn' = nconn + 1 /\ conn' = nconn + 1
              /\ pc' = [pc EXCEPT ![Io] = "add"]
           \/ UNCHANGED <<pc, conn, nconn>>
    BY <1>8 DEF IoReopens, Goto, callState
  <2>2. conn = 0 /\ LinkTypes'
    BY <1>0, <2>1, MaxConnIsPositive DEF FInv, LinkTypes, NoConnection
  <2>3. \A c \in Callers : ~(pc[c] = "sent" /\ c \in cbs)
    BY <1>2, <2>1, <2>2
  <2>4. pc' = pc => pc' = [pc EXCEPT ![Io] = "reopen"]
    BY <2>1 DEF FInv, IInv, CallTypes
  <2> QED
    BY <1>0, <2>1, <2>2, <2>3, <2>4, IoMoves DEF Labels
<1> QED
  BY <1>3, <1>4, <1>5, <1>6, <1>7, <1>8

\* A step that replaces one link and loses nothing of it.
LEMMA ReplaceLink ==
  ASSUME FInv, IInv', NEW k \in Conns, NEW n \in Link, link' = [link EXCEPT ![k] = n],
         UNCHANGED <<pc, conn, nconn, cb, using, cbs, threw, ran>>,
         link[k].down # <<>> => n.down # <<>>,
         \A d \in Callers : Carries(link[k], d) => Carries(n, d)
  PROVE  FInv'
<1>1. link'[k] = n /\ \A j \in Conns \ {k} : link'[j] = link[j]
  BY DEF FInv, LinkTypes
<1>2. LinkTypes'
  BY DEF FInv, LinkTypes
<1>3. conn # 0 => conn \in Conns
  BY MaxConnIsPositive DEF FInv, LinkTypes, Conns
<1> QED
  BY <1>1, <1>2, <1>3, WireStep

\* The server takes a message: its call goes to work, or the stream is torn.
LEMMA ServerReadsStep ==
  ASSUME FInv, IInv', NEW k \in Conns, ServerReads(k)
  PROVE  FInv'
<1> DEFINE m == Head(link[k].up)
           l == [link[k] EXCEPT !.up = Tail(@)]
<1>1. /\ UNCHANGED <<pc, conn, nconn, cb, using, cbs, threw, ran>>
      /\ link[k].up # <<>> /\ link[k] \in Link
      /\ \/ link' = [link EXCEPT ![k] = Answered(l, m)]
         \/ link' = [link EXCEPT ![k] = [l EXCEPT !.torn = TRUE]]
  BY DEF ServerReads, callState, FInv, LinkTypes
<1>2. /\ m \in Msg /\ Tail(link[k].up) \in Seq(Msg)
      /\ \A c : Has(link[k].up, c) => m.id = c \/ Has(Tail(link[k].up), c)
  BY <1>1, HasTail DEF Link
<1> HIDE DEF m
<1>3. /\ l \in Link /\ l.up = Tail(link[k].up) /\ l.down = link[k].down /\ l.peer = link[k].peer
      /\ l.torn = link[k].torn /\ l.work = link[k].work
  BY <1>1, <1>2 DEF Link
<1> HIDE DEF l
<1>4. CASE link' = [link EXCEPT ![k] = [l EXCEPT !.torn = TRUE]]
  <2> DEFINE n == [l EXCEPT !.torn = TRUE]
  <2>1. n \in Link /\ n.torn = TRUE /\ n.down = link[k].down
    BY <1>3 DEF Link
  <2> HIDE DEF n
  <2>2. \A d \in Callers : Carries(n, d)
    BY <2>1, CarriesDef
  <2> QED
    BY <1>1, <1>4, <2>1, <2>2, ReplaceLink DEF n
<1>5. CASE link' = [link EXCEPT ![k] = Answered(l, m)] /\ m.id \in Conns
  <2> DEFINE r == [id |-> m.id, enc |-> l.senc]
             n == [l EXCEPT !.down = Append(@, r), !.senc = "cbor"]
  <2>1. link' = [link EXCEPT ![k] = n]
    BY <1>5 DEF Answered
  <2>2. r \in Msg
    BY <1>2, <1>3 DEF Msg, Link
  <2>3. l.down \in Seq(Msg)
    BY <1>3 DEF Link
  <2>4. /\ Append(l.down, r) \in Seq(Msg) /\ Append(l.down, r) # <<>>
        /\ \A c : Has(l.down, c) => Has(Append(l.down, r), c)
    BY <2>2, <2>3, HasAppend
  <2> HIDE DEF r
  <2>5. /\ n \in Link /\ n.up = l.up /\ n.down = Append(l.down, r) /\ n.peer = l.peer
        /\ n.torn = l.torn /\ n.work = l.work
    BY <1>3, <2>4 DEF Link, Encodings
  <2> HIDE DEF n
  <2>6. m.id \notin Callers
    BY <1>5, IdsDiffer DEF Conns
  <2>7. \A d \in Callers : Carries(link[k], d) => Carries(n, d)
    BY <1>2, <1>3, <2>4, <2>5, <2>6, CarriesDef
  <2> QED
    BY <1>1, <2>1, <2>4, <2>5, <2>7, ReplaceLink
<1>6. CASE link' = [link EXCEPT ![k] = Answered(l, m)] /\ m.id \notin Conns
  <2> DEFINE n == [l EXCEPT !.work = @ \cup {m.id}]
  <2>1. link' = [link EXCEPT ![k] = n]
    BY <1>6 DEF Answered
  <2>2. /\ n \in Link /\ n.up = l.up /\ n.down = l.down /\ n.peer = l.peer
        /\ n.torn = l.torn /\ n.work = l.work \cup {m.id}
    BY <1>2, <1>3 DEF Link, Msg
  <2> HIDE DEF n
  <2>3. \A d \in Callers : Carries(link[k], d) => Carries(n, d)
    BY <1>2, <1>3, <2>2, CarriesDef
  <2> QED
    BY <1>1, <1>3, <2>1, <2>2, <2>3, ReplaceLink
<1> QED
  BY <1>1, <1>4, <1>5, <1>6

\* The server answers a call, or goes away.
LEMMA ServerSteps ==
  ASSUME FInv, IInv', NEW k \in Conns, ServerReplies(k) \/ PeerCloses(k)
  PROVE  FInv'
<1>1. link[k] \in Link /\ UNCHANGED <<pc, conn, nconn, cb, using, cbs, threw, ran>>
  BY DEF ServerReplies, PeerCloses, callState, FInv, LinkTypes
<1>2. CASE ServerReplies(k)
  <2>1. PICK i \in link[k].work :
          link' = [link EXCEPT ![k].work = @ \ {i},
                               ![k].down = Append(@, [id |-> i, enc |-> link[k].senc])]
    BY <1>2 DEF ServerReplies
  <2> DEFINE r == [id |-> i, enc |-> link[k].senc]
             n == [link[k] EXCEPT !.work = @ \ {i}, !.down = Append(@, r)]
  <2>2. link' = [link EXCEPT ![k] = n]
    BY <2>1 DEF FInv, LinkTypes
  <2>3. r \in Msg /\ r.id = i /\ link[k].down \in Seq(Msg)
    BY <1>1 DEF Link, Msg
  <2> HIDE DEF r
  <2>4. /\ Append(link[k].down, r) \in Seq(Msg) /\ Append(link[k].down, r) # <<>>
        /\ \A c : Has(link[k].down, c) \/ c = i => Has(Append(link[k].down, r), c)
    BY <2>3, HasAppend
  <2>5. /\ n \in Link /\ n.up = link[k].up /\ n.down = Append(link[k].down, r)
        /\ n.peer = link[k].peer /\ n.torn = link[k].torn /\ n.work = link[k].work \ {i}
    BY <1>1, <2>4 DEF Link
  <2> HIDE DEF n
  <2>6. \A d \in Callers : Carries(link[k], d) => Carries(n, d)
    BY <2>4, <2>5, CarriesDef
  <2> QED
    BY <1>1, <2>2, <2>4, <2>5, <2>6, ReplaceLink
<1>3. CASE PeerCloses(k)
  <2> DEFINE n == [link[k] EXCEPT !.peer = FALSE, !.work = {}]
  <2>1. link' = [link EXCEPT ![k] = n]
    BY <1>3 DEF PeerCloses, FInv, LinkTypes
  <2>2. n \in Link /\ n.peer = FALSE /\ n.down = link[k].down
    BY <1>1 DEF Link
  <2> HIDE DEF n
  <2>3. \A d \in Callers : Carries(n, d)
    BY <2>2, CarriesDef
  <2> QED
    BY <1>1, <2>1, <2>2, <2>3, ReplaceLink
<1> QED
  BY <1>2, <1>3

\* Every step preserves the invariant.
LEMMA NextFInv == FInv /\ [Next]_vars => FInv'
<1> SUFFICES ASSUME FInv, [Next]_vars PROVE FInv'
  OBVIOUS
<1>1. IInv'
  BY NextIInv DEF FInv
<1>2. Main \in Threads /\ Io \in Threads /\ Callers \subseteq Threads
  BY DEF Threads
<1>3. CASE UNCHANGED vars
  <2>1. LinkTypes' /\ \A d \in Callers : Carries(link[conn], d) => Carries(link[conn], d)'
    BY <1>3 DEF vars, FInv, LinkTypes, Carries
  <2> QED
    BY <1>1, <1>3, <2>1, WireStep DEF vars
<1>4. ASSUME NEW c \in Callers, CallerStep(c) PROVE FInv'
  BY <1>1, <1>2, <1>4, SendsStep, CheckHelloStep DEF CallerStep
<1>5. CASE MainStep \/ Destroy
  BY <1>1, <1>2, <1>5, SendsStep, MainSteps DEF MainStep
<1>6. CASE IoStep
  BY <1>1, <1>2, <1>6, SendsStep, IoSteps, IoDeliverStep DEF IoStep
<1>7. ASSUME NEW k \in Conns, ServerStep(k) \/ PeerCloses(k) PROVE FInv'
  BY <1>1, <1>7, ServerReadsStep, ServerSteps DEF ServerStep
<1> QED
  BY <1>3, <1>4, <1>5, <1>6, <1>7 DEF Next

\* A registered callback is never forgotten, whichever of the threads, the server and the
\* network gets in between (service_client::send_message, connection_closed, handle_message).
THEOREM NoCallForgotten == Spec => []NothingForgotten
<1>1. FInv => NothingForgotten
  BY DEF FInv, IInv, NotYetCalled, CallerPlaces, EndedCalls, UnderWay, NothingForgotten
<1> QED
  BY <1>1, InitFInv, NextFInv, PTL DEF Spec

----------------------------------------------------------------------------
(***************************************************************************)
(* Both ends agree on the encoding.                                        *)
(***************************************************************************)

\* The thread that sends the .hello of the n-th connection, and the places where it does.
Greeter(n) == IF n = 1 THEN Main ELSE Io
Greeting == {"add", "lookup", "head", "tail"}

\* All messages of a stream are in the new encoding.
AllCbor(s) == \A i \in 1 .. Len(s) : s[i].enc = "cbor"

\* The phases of the n-th connection: nothing was sent but a part of .hello; .hello was sent;
\* the server has answered it; the client has the answer.
Hello(n) == <<[id |-> n, enc |-> "json"]>>
Fresh(l, n) == /\ l.cenc = "json" /\ l.senc = "json" /\ l.up = <<>> /\ l.down = <<>>
               /\ l.work = {} /\ l.half \subseteq {<<Greeter(n), "json">>}
Asked(l, n) == /\ l.cenc = "json" /\ l.senc = "json" /\ l.up \in {<<>>, Hello(n)} /\ l.down = <<>>
               /\ l.work = {} /\ l.half = {}
Told(l, n) == /\ l.cenc = "json" /\ l.senc = "cbor" /\ l.up = <<>> /\ l.down \in {<<>>, Hello(n)}
              /\ l.work = {} /\ l.half = {}
Agreed(l) == /\ l.cenc = "cbor" /\ l.senc = "cbor" /\ AllCbor(l.up) /\ AllCbor(l.down)
             /\ \A h \in l.half : h[2] = "cbor"

\* Only the newest connection is used: older ones are closed, newer ones untouched.
Newest == /\ conn \in {0, nconn}
          /\ \A k \in Conns : /\ k < nconn => ~link[k].peer
                              /\ k > nconn => link[k] = NewLink
          /\ \A c \in Callers : using[c] <= nconn

\* The newest connection is in one of the phases, the first one while .hello is being sent.
Phases ==
  nconn > 0 =>
    /\ \/ Fresh(link[nconn], nconn) \/ Asked(link[nconn], nconn)
       \/ Told(link[nconn], nconn) \/ Agreed(link[nconn])
    /\ \A t \in {Main, Io} :
         pc[t] \in Greeting => t = Greeter(nconn) /\ Fresh(link[nconn], nconn)

\* The flag says that the newest connection is in the last phase, and so does a call that has
\* passed the check of the flag.
FlagIsRight ==
  /\ hello => nconn > 0 /\ Agreed(link[nconn])
  /\ \A c \in Callers :
       pc[c] \in {"lookup", "head", "tail"} /\ using[c] = nconn /\ nconn > 0 => Agreed(link[nconn])

\* The callback of .hello is registered in the first phases only, and connection_closed runs in
\* the last.
HelloCallback ==
  /\ \A k \in cbs \cap Conns : k = nconn /\ link[nconn].cenc = "json"
  /\ swapped \cap Conns = {}
  /\ pc[Io] \in {"closed", "lock", "swap", "run", "reopen"} =>
       nconn > 0 /\ Agreed(link[nconn]) /\ ~link[nconn].peer
  /\ pc[Io] \in {"swap", "run", "reopen"} => ~hello

Sound == misread = FALSE /\ Newest /\ Phases /\ FlagIsRight /\ HelloCallback

\* The inductive invariant of EncodingAgrees.
EncInv == FInv /\ (early \/ stale \/ Sound)

\* Adding a message in the new encoding keeps a stream in it.
LEMMA AllCborAppend ==
  ASSUME NEW s \in Seq(Msg), NEW m \in Msg, AllCbor(s), m.enc = "cbor"
  PROVE  AllCbor(Append(s, m))
<1>1. /\ Len(Append(s, m)) = Len(s) + 1 /\ Len(s) \in Nat
      /\ \A i \in 1 .. Len(s) : Append(s, m)[i] = s[i]
      /\ Append(s, m)[Len(s) + 1] = m
  OBVIOUS
<1>2. ASSUME NEW i \in 1 .. Len(s) + 1 PROVE i \in 1 .. Len(s) \/ i = Len(s) + 1
  BY <1>1
<1> QED
  BY <1>1, <1>2 DEF AllCbor

\* So does taking one, which is in the new encoding too.
LEMMA AllCborTail ==
  ASSUME NEW s \in Seq(Msg), s # <<>>, AllCbor(s)
  PROVE  AllCbor(Tail(s)) /\ Head(s).enc = "cbor"
<1>1. /\ Len(s) \in Nat \ {0} /\ Len(Tail(s)) = Len(s) - 1 /\ Head(s) = s[1]
      /\ \A i \in 1 .. Len(s) - 1 : Tail(s)[i] = s[i + 1]
  OBVIOUS
<1>2. ASSUME NEW i \in 1 .. Len(s) - 1 PROVE i + 1 \in 1 .. Len(s)
  BY <1>1
<1>3. 1 \in 1 .. Len(s)
  BY <1>1
<1> QED
  BY <1>1, <1>2, <1>3 DEF AllCbor

\* The id of a call is not the number of a connection.
LEMMA NoCallerIsConn == \A c \in Callers : c \notin Conns
<1>1. \A k \in Conns : k \in 0 .. MaxConn
  BY MaxConnIsPositive DEF Conns
<1> QED
  BY <1>1, IdsDiffer

\* A step of thread t, to place p, that does not change the encoding of the client's end.
LEMMA KeepStep ==
  ASSUME FInv, Sound, NEW t \in Threads, NEW p, pc' = [pc EXCEPT ![t] = p],
         UNCHANGED <<nconn, misread>>, conn' \in {0, nconn}, hello' => hello,
         cbs' \cap Conns \subseteq cbs, swapped' \cap Conns = {},
         \A u \in Threads \ {t} : using'[u] = using[u],
         t \in Callers => using'[t] <= nconn,
         t \in Callers /\ p \in {"lookup", "head", "tail"} /\ using'[t] = nconn /\ nconn > 0
           => Agreed(link[nconn]),
         t = Io /\ p \in {"closed", "lock", "swap", "run", "reopen"}
           => nconn > 0 /\ Agreed(link[nconn]) /\ ~link[nconn].peer,
         t = Io /\ p \in {"swap", "run", "reopen"} => ~hello',
         \A k \in Conns \ {nconn} : link'[k] = link[k],
         nconn > 0 =>
           /\ link'[nconn].cenc = link[nconn].cenc
           /\ ~link[nconn].peer => ~link'[nconn].peer
           /\ Agreed(link[nconn]) => Agreed(link'[nconn])
           /\ \/ Fresh(link'[nconn], nconn) \/ Asked(link'[nconn], nconn)
              \/ Told(link'[nconn], nconn) \/ Agreed(link'[nconn]),
         \A u \in {Main, Io} : pc'[u] \in Greeting /\ nconn > 0
                                 => u = Greeter(nconn) /\ Fresh(link'[nconn], nconn)
  PROVE  Sound'
<1>0. /\ Main \in Threads /\ Io \in Threads /\ Main # Io /\ Callers \subseteq Threads
      /\ Main \notin Callers /\ Io \notin Callers /\ nconn \in Nat
  BY Basics, ThreadsDiffer
<1>1. pc'[t] = p /\ \A u \in Threads \ {t} : pc'[u] = pc[u]
  BY DEF FInv, IInv, CallTypes
<1>2. Newest'
  BY <1>0 DEF Sound, Newest, Conns
<1>3. Phases'
  BY <1>0, <1>1 DEF Sound, Phases
<1>4. FlagIsRight'
  BY <1>0, <1>1 DEF Sound, FlagIsRight
<1>5. HelloCallback'
  BY <1>0, <1>1, MaxConnIsPositive DEF Sound, HelloCallback, Conns
<1> QED
  BY <1>2, <1>3, <1>4, <1>5 DEF Sound

\* One that leaves the connections alone.
LEMMA MoveStep ==
  ASSUME FInv, Sound, NEW t \in Threads, NEW p, pc' = [pc EXCEPT ![t] = p],
         UNCHANGED <<nconn, misread, link>>, conn' \in {0, nconn}, hello' => hello,
         cbs' \cap Conns \subseteq cbs, swapped' \cap Conns = {},
         \A u \in Threads \ {t} : using'[u] = using[u],
         t \in Callers => using'[t] <= nconn,
         t \in Callers /\ p \in {"lookup", "head", "tail"} /\ using'[t] = nconn /\ nconn > 0
           => Agreed(link[nconn]),
         t = Io /\ p \in {"closed", "lock", "swap", "run", "reopen"}
           => nconn > 0 /\ Agreed(link[nconn]) /\ ~link[nconn].peer,
         t = Io /\ p \in {"swap", "run", "reopen"} => ~hello',
         t \in {Main, Io} /\ p \in Greeting => pc[t] \in Greeting
  PROVE  Sound'
<1>1. pc'[t] = p /\ \A u \in Threads \ {t} : pc'[u] = pc[u]
  BY DEF FInv, IInv, CallTypes
<1>2. \A u \in {Main, Io} : pc'[u] \in Greeting => pc[u] \in Greeting
  BY <1>1, Basics
<1> QED
  BY <1>2, KeepStep DEF Sound, Phases

\* Taking an id and registering the callback: the one of .hello belongs to the newest connection.
LEMMA EncAddCallback ==
  ASSUME FInv, Sound, NEW t \in Threads, AddCallback(t)
  PROVE  Sound'
<1>0. /\ Main \in Threads /\ Io \in Threads /\ Main # Io /\ Callers \subseteq Threads
      /\ Main \notin Callers /\ Io \notin Callers /\ nconn \in Nat
      /\ t \in Callers \/ t = Main \/ t = Io
      /\ (pc[t] = "add" => nconn > 0)
  BY Basics, ThreadsDiffer
<1>1. /\ UNCHANGED <<conn, nconn, using, swapped, hello, link, misread>>
      /\ cbs' = cbs \cup {IdOf(t)}
      /\ pc' = [pc EXCEPT ![t] = IF t \in Callers THEN "check" ELSE "lookup"]
      /\ t \notin Callers => pc[t] = "add"
  BY DEF AddCallback, Goto, history
<1>2. CASE t \in Callers
  <2>1. IdOf(t) = t /\ t \notin Conns /\ t \in Threads
    BY <1>0, <1>2, NoCallerIsConn DEF IdOf
  <2>2. cbs' \cap Conns \subseteq cbs
    BY <1>1, <2>1
  <2>3. conn \in {0, nconn} /\ using[t] <= nconn /\ swapped \cap Conns = {}
    BY <1>2 DEF Sound, Newest, HelloCallback
  <2> QED
    BY <1>0, <1>1, <1>2, <2>2, <2>3, MoveStep
<1>3. CASE t \notin Callers
  <2>1. nconn > 0 /\ t = Greeter(nconn) /\ Fresh(link[nconn], nconn)
    BY <1>0, <1>1, <1>3 DEF Sound, Phases, Greeting
  <2>2. IdOf(t) = nconn
    BY <1>0, <1>3, <2>1 DEF IdOf, Greeter
  <2>3. link[nconn].cenc = "json"
    BY <2>1 DEF Fresh
  <2>4. pc'[t] = "lookup" /\ \A u \in Threads \ {t} : pc'[u] = pc[u]
    BY <1>1, <1>3 DEF FInv, IInv, CallTypes
  <2>5. Newest'
    BY <1>1 DEF Sound, Newest
  <2>6. Phases'
    BY <1>0, <1>1, <2>1, <2>4 DEF Sound, Phases
  <2>7. FlagIsRight'
    BY <1>0, <1>1, <1>3, <2>4 DEF Sound, FlagIsRight
  <2>8. HelloCallback'
    BY <1>0, <1>1, <2>2, <2>3, <2>4 DEF Sound, HelloCallback
  <2> QED
    BY <1>1, <2>5, <2>6, <2>7, <2>8 DEF Sound
<1> QED
  BY <1>2, <1>3

\* The lookup of the connection, and a write to nobody.
LEMMA EncLookup ==
  ASSUME FInv, Sound, NEW t \in Threads, LookupConnection(t) \/ WriteToNobody(t), ~stale'
  PROVE  Sound'
<1>0. /\ Callers \subseteq Threads /\ Main \notin Callers /\ Io \notin Callers /\ nconn \in Nat
      /\ t \in Callers \/ t = Main \/ t = Io
  BY Basics, ThreadsDiffer
<1>1. /\ conn \in {0, nconn} /\ (t \in Callers => using[t] <= nconn) /\ swapped \cap Conns = {}
      /\ (t \in Callers /\ pc[t] \in {"lookup", "head", "tail"} /\ using[t] = nconn /\ nconn > 0
            => Agreed(link[nconn]))
  BY DEF Sound, Newest, HelloCallback, FlagIsRight
<1>2. /\ UNCHANGED <<conn, nconn, cbs, swapped, hello, link, misread>>
      /\ pc[t] \in {"lookup", "head", "tail"}
  BY DEF LookupConnection, WriteToNobody, callState, history, Throw
<1>3. \/ pc' = pc /\ using' = using
      \/ pc' = [pc EXCEPT ![t] = "done"] /\ t \in Callers /\ using' = using
      \/ /\ pc' = [pc EXCEPT ![t] = "head"] /\ using' = [using EXCEPT ![t] = conn]
         /\ t \in Callers => using[t] = conn
  BY DEF LookupConnection, WriteToNobody, callState, history, Throw, Goto
<1>4. \A u \in Threads \ {t} : using'[u] = using[u]
  BY <1>3 DEF FInv, LinkTypes
<1>5. t \in Callers => using'[t] = using[t]
  BY <1>3 DEF FInv, LinkTypes
<1>6. \E p \in {"done", "head", pc[t]} :
         pc' = [pc EXCEPT ![t] = p] /\ (p = "done" => t \in Callers \/ p = pc[t])
  BY <1>3 DEF FInv, IInv, CallTypes
<1>7. PICK p \in {"done", "head", pc[t]} :
         pc' = [pc EXCEPT ![t] = p] /\ (p = "done" => t \in Callers \/ p = pc[t])
  BY <1>6
<1>8. /\ p \in {"done", "lookup", "head", "tail"}
      /\ t \in Callers \/ p \in Greeting
           => pc[t] \in {"lookup", "head", "tail"} /\ pc[t] \in Greeting
  BY <1>2, <1>7 DEF Greeting
<1> QED
  BY <1>0, <1>1, <1>2, <1>4, <1>5, <1>7, <1>8, MoveStep

\* Writing: the first write is in the encoding of the phase, the second ends .hello or adds a
\* call in the new encoding, and a failed one leaves the phase as it is.
LEMMA EncWrite ==
  ASSUME FInv, Sound, NEW t \in Threads, WriteHead(t) \/ WriteTail(t) \/ WriteFails(t)
  PROVE  Sound'
<1>0. /\ Callers \subseteq Threads /\ Main \notin Callers /\ Io \notin Callers /\ nconn \in Nat
      /\ Main \in Threads /\ Io \in Threads /\ Main # Io
      /\ t \in Callers \/ t = Main \/ t = Io
      /\ pc[t] \in {"head", "tail"} /\ conn = using[t] => conn \in Conns /\ conn # 0
  BY Basics, ThreadsDiffer
<1>1. /\ UNCHANGED <<conn, nconn, using, cbs, swapped, hello, misread>>
      /\ pc[t] \in {"head", "tail"} /\ conn = using[t]
  BY DEF WriteHead, WriteTail, WriteFails, Held, callState, history, Throw
<1>2. conn = nconn /\ nconn > 0 /\ nconn \in Conns /\ link[nconn] \in Link
  BY <1>0, <1>1 DEF Sound, Newest, FInv, LinkTypes
<1>3. /\ t \in Callers => Agreed(link[nconn])
      /\ t \notin Callers => t = Greeter(nconn) /\ Fresh(link[nconn], nconn)
  BY <1>0, <1>1, <1>2 DEF Sound, FlagIsRight, Phases, Greeting
<1>4. (t \in Callers => using[t] <= nconn) /\ swapped \cap Conns = {}
  BY DEF Sound, Newest, HelloCallback
<1>5. \A u \in {Main, Io} : pc[u] \in Greeting => u = Greeter(nconn) /\ Fresh(link[nconn], nconn)
  BY <1>2 DEF Sound, Phases
<1>6. ASSUME NEW p \in {"tail", "done", "sent", "wait", "idle", "head"},
             pc' = [pc EXCEPT ![t] = p],
             \A k \in Conns \ {nconn} : link'[k] = link[k],
             link'[nconn].cenc = link[nconn].cenc, link'[nconn].peer = link[nconn].peer,
             t \in Callers => Agreed(link'[nconn]),
             t \notin Callers =>
                \/ Fresh(link'[nconn], nconn)
                \/ Asked(link'[nconn], nconn) /\ p \in {"wait", "idle"}
      PROVE  Sound'
  <2>1. pc'[t] = p /\ \A u \in Threads \ {t} : pc'[u] = pc[u]
    BY <1>6 DEF FInv, IInv, CallTypes
  <2>2. \A u \in {Main, Io} : pc'[u] \in Greeting
                                => u = Greeter(nconn) /\ Fresh(link'[nconn], nconn)
    <3>1. CASE t \in Callers
      <4>1. ~Fresh(link[nconn], nconn)
        BY <1>3, <3>1 DEF Agreed, Fresh
      <4> QED
        BY <1>0, <1>5, <2>1, <3>1, <4>1
    <3>2. CASE t \notin Callers
      BY <1>0, <1>3, <1>5, <1>6, <2>1, <3>2 DEF Greeting
    <3> QED
      BY <3>1, <3>2
  <2>3. t \notin Callers => ~Agreed(link[nconn])
    BY <1>3 DEF Agreed, Fresh
  <2> QED
    BY <1>0, <1>1, <1>2, <1>3, <1>4, <1>6, <2>2, <2>3, KeepStep
<1>7. CASE WriteHead(t)
  <2>1. /\ link' = [link EXCEPT ![nconn].half = @ \cup {<<t, link[nconn].cenc>>},
                                ![nconn].torn = @ \/ link[nconn].half # {}]
        /\ pc' = [pc EXCEPT ![t] = "tail"]
    BY <1>2, <1>7 DEF WriteHead, Goto
  <2>2. \A k \in Conns \ {nconn} : link'[k] = link[k]
    BY <1>2, <2>1 DEF FInv, LinkTypes
  <2>3. /\ link'[nconn].half = link[nconn].half \cup {<<t, link[nconn].cenc>>}
        /\ link'[nconn].up = link[nconn].up /\ link'[nconn].down = link[nconn].down
        /\ link'[nconn].cenc = link[nconn].cenc /\ link'[nconn].senc = link[nconn].senc
        /\ link'[nconn].peer = link[nconn].peer /\ link'[nconn].work = link[nconn].work
    BY <1>2, <2>1 DEF FInv, LinkTypes, Link
  <2>4. t \in Callers => Agreed(link'[nconn])
    BY <1>3, <2>3 DEF Agreed
  <2>5. t \notin Callers => Fresh(link'[nconn], nconn)
    BY <1>3, <2>3 DEF Fresh
  <2> QED
    BY <1>6, <2>1, <2>2, <2>3, <2>4, <2>5
<1>8. CASE WriteTail(t)
  <2>1. PICK h \in link[nconn].half :
          /\ h[1] = t
          /\ link' = [link EXCEPT ![nconn].half = @ \ {h},
                                  ![nconn].up = Append(@, [id |-> IdOf(t), enc |-> h[2]])]
          /\ pc' = [pc EXCEPT ![t] = AfterSend(t)]
    BY <1>2, <1>8 DEF WriteTail, Goto
  <2> DEFINE m == [id |-> IdOf(t), enc |-> h[2]]
  <2>2. \A k \in Conns \ {nconn} : link'[k] = link[k]
    BY <1>2, <2>1 DEF FInv, LinkTypes
  <2>3. /\ link'[nconn].half = link[nconn].half \ {h}
        /\ link'[nconn].up = Append(link[nconn].up, m) /\ link'[nconn].down = link[nconn].down
        /\ link'[nconn].cenc = link[nconn].cenc /\ link'[nconn].senc = link[nconn].senc
        /\ link'[nconn].peer = link[nconn].peer /\ link'[nconn].work = link[nconn].work
    BY <1>2, <2>1 DEF FInv, LinkTypes, Link
  <2>4. m \in Msg /\ link[nconn].up \in Seq(Msg)
    <3>1. IdOf(t) \in Ids
      BY <1>0, <1>2, ThreadsDiffer, MaxConnIsPositive DEF IdOf, Ids, Conns
    <3>2. h[2] \in Encodings
      BY <1>2, <2>1 DEF Link
    <3> QED
      BY <1>2, <3>1, <3>2 DEF Msg, Link
  <2>5. CASE t \in Callers
    <3>1. m.enc = "cbor"
      BY <1>3, <2>5 DEF Agreed
    <3>2. AllCbor(Append(link[nconn].up, m))
      BY <1>3, <2>4, <2>5, <3>1, AllCborAppend DEF Agreed
    <3>3. Agreed(link'[nconn])
      BY <1>3, <2>3, <2>5, <3>2 DEF Agreed
    <3>4. AfterSend(t) = "sent"
      BY <1>0, <2>5 DEF AfterSend
    <3> QED
      BY <1>6, <2>1, <2>2, <2>3, <2>5, <3>3, <3>4
  <2>6. CASE t \notin Callers
    <3>1. h = <<t, "json">> /\ link[nconn].half = {h} /\ link[nconn].up = <<>>
      BY <1>3, <2>1, <2>6 DEF Fresh
    <3>2. IdOf(t) = nconn
      BY <1>0, <1>3, <2>6 DEF IdOf, Greeter
    <3>3. link'[nconn].up = Hello(nconn) /\ link'[nconn].half = {}
      BY <2>3, <3>1, <3>2 DEF Hello
    <3>4. Asked(link'[nconn], nconn)
      BY <1>3, <2>3, <2>6, <3>3 DEF Asked, Fresh
    <3>5. AfterSend(t) \in {"wait", "idle"}
      BY <1>0, <2>6 DEF AfterSend
    <3> QED
      BY <1>6, <2>1, <2>2, <2>3, <2>6, <3>4, <3>5
  <2> QED
    BY <2>5, <2>6
<1>9. CASE WriteFails(t)
  <2>1. PICK written \in BOOLEAN :
          link' = [link EXCEPT ![nconn].half = {h \in @ : h[1] # t}, ![nconn].torn = @ \/ written]
    BY <1>2, <1>9 DEF WriteFails
  <2>2. \A k \in Conns \ {nconn} : link'[k] = link[k]
    BY <1>2, <2>1 DEF FInv, LinkTypes
  <2>3. /\ link'[nconn].half = {h \in link[nconn].half : h[1] # t}
        /\ link'[nconn].up = link[nconn].up /\ link'[nconn].down = link[nconn].down
        /\ link'[nconn].cenc = link[nconn].cenc /\ link'[nconn].senc = link[nconn].senc
        /\ link'[nconn].peer = link[nconn].peer /\ link'[nconn].work = link[nconn].work
    BY <1>2, <2>1 DEF FInv, LinkTypes, Link
  <2>4. t \in Callers => Agreed(link'[nconn])
    BY <1>3, <2>3 DEF Agreed
  <2>5. t \notin Callers => Fresh(link'[nconn], nconn)
    BY <1>3, <2>3 DEF Fresh
  <2>6. pc' = [pc EXCEPT ![t] = "done"] \/ pc' = [pc EXCEPT ![t] = pc[t]]
    BY <1>9 DEF WriteFails, Throw, Goto, FInv, IInv, CallTypes
  <2> QED
    BY <1>1, <1>6, <2>2, <2>3, <2>4, <2>5, <2>6
<1> QED
  BY <1>7, <1>8, <1>9

\* The check for .hello in a call.
LEMMA EncCheckHello ==
  ASSUME FInv, Sound, NEW c \in Callers, CheckHello(c)
  PROVE  Sound'
<1>0. c \in Threads /\ c # Main /\ c # Io /\ nconn \in Nat
  BY Basics, ThreadsDiffer
<1>1. /\ using' = [using EXCEPT ![c] = nconn] /\ cbs' \subseteq cbs
      /\ UNCHANGED <<conn, nconn, swapped, hello, link, misread>>
      /\ pc' = [pc EXCEPT ![c] = IF hello THEN "lookup" ELSE "done"]
  BY DEF CheckHello, Goto, get_rpc_cb, history
<1>2. using'[c] = nconn /\ \A u \in Threads \ {c} : using'[u] = using[u]
  BY <1>0, <1>1 DEF FInv, LinkTypes
<1>3. conn \in {0, nconn} /\ swapped \cap Conns = {} /\ (hello => Agreed(link[nconn]))
  BY DEF Sound, Newest, HelloCallback, FlagIsRight
<1>4. ASSUME NEW p, pc' = [pc EXCEPT ![c] = p], (p = "lookup" /\ hello) \/ p = "done" PROVE Sound'
  <2>1. /\ conn' \in {0, nconn} /\ cbs' \cap Conns \subseteq cbs /\ swapped' \cap Conns = {}
        /\ using'[c] <= nconn /\ nconn' = nconn /\ c \notin {Main, Io}
    BY <1>0, <1>1, <1>2, <1>3
  <2>2. p \in {"lookup", "head", "tail"} => Agreed(link[nconn])
    BY <1>3, <1>4
  <2> QED
    BY <1>0, <1>1, <1>2, <1>4, <2>1, <2>2, MoveStep
<1>5. hello \/ ~hello
  OBVIOUS
<1> QED
  BY <1>1, <1>4, <1>5

\* The steps of Main outside a call.
LEMMA EncMain ==
  ASSUME FInv, Sound, Construct \/ HelloSeen \/ Destroy
  PROVE  Sound'
<1>0. /\ Main \in Threads /\ Io \in Threads /\ Main # Io /\ Callers \subseteq Threads
      /\ Main \notin Callers /\ Io \notin Callers /\ nconn \in Nat
  BY Basics, ThreadsDiffer
<1>1. CASE Construct
  <2>1. /\ pc[Main] = "new" /\ nconn' = 1 /\ conn' = 1 /\ pc' = [pc EXCEPT ![Main] = "add"]
        /\ UNCHANGED <<using, cbs, swapped, hello, link, misread>>
    BY <1>1 DEF Construct, Goto, callState, history
  <2>2. /\ nconn = 0 /\ pc'[Main] = "add" /\ pc'[Io] = "idle"
        /\ \A c \in Callers : pc'[c] = "call"
    BY <1>0, <2>1 DEF FInv, IInv, CallTypes, NothingYet
  <2>3. 1 \in Conns /\ link[1] = NewLink
    BY <2>2, MaxConnIsPositive DEF Sound, Newest, Conns
  <2>4. Fresh(link'[1], 1) /\ link'[1].cenc = "json"
    BY <2>1, <2>3 DEF Fresh, NewLink
  <2>5. Newest'
    <3>1. \A c \in Callers : using[c] <= 1
      BY <1>0, <2>2 DEF Sound, Newest, FInv, LinkTypes
    <3>2. \A k \in Conns : ~(k < 1) /\ (k > 1 => link[k] = NewLink)
      BY <2>2 DEF Sound, Newest, Conns
    <3> QED
      BY <2>1, <3>1, <3>2 DEF Newest
  <2>6. Phases'
    BY <1>0, <2>1, <2>2, <2>4 DEF Phases, Greeter, Greeting
  <2>7. FlagIsRight'
    BY <2>1, <2>2 DEF Sound, FlagIsRight
  <2>8. HelloCallback'
    BY <2>1, <2>2 DEF Sound, HelloCallback, Conns
  <2> QED
    BY <2>1, <2>5, <2>6, <2>7, <2>8 DEF Sound
<1>2. CASE HelloSeen \/ Destroy
  <2>1. /\ conn' \in {0, conn} /\ UNCHANGED <<nconn, using, cbs, swapped, hello, link, misread>>
        /\ \E p \in {"ready", "clear", "close", "unregister", "destroyed"} :
             pc' = [pc EXCEPT ![Main] = p]
    BY <1>2 DEF HelloSeen, Destroy, SetShuttingDown, ClearCallback, StartClose, FinishClose,
                callState, history, Goto
  <2>2. conn \in {0, nconn} /\ swapped \cap Conns = {}
    BY DEF Sound, Newest, HelloCallback
  <2> QED
    BY <1>0, <2>1, <2>2, MoveStep DEF Greeting
<1> QED
  BY <1>1, <1>2

\* The steps of the epoll thread that leave the connections alone.
LEMMA EncIo ==
  ASSUME FInv, Sound, ~early',
         \/ IoClose \/ IoCallsClosed \/ IoResetsHello \/ IoTakesCallbacks
         \/ IoRunsCallbacks \/ (IoData /\ cb)
  PROVE  Sound'
<1>0. /\ Io \in Threads /\ Io \notin Callers /\ nconn \in Nat
      /\ conn \in {0, nconn} /\ swapped \cap Conns = {}
  BY Basics, ThreadsDiffer DEF Sound, Newest, HelloCallback
<1>1. /\ pc[Io] \in {"closed", "lock", "swap", "run", "reopen"} =>
           nconn > 0 /\ Agreed(link[nconn]) /\ ~link[nconn].peer /\ cbs \cap Conns = {}
      /\ pc[Io] \in {"swap", "run", "reopen"} => ~hello
  BY DEF Sound, HelloCallback, Agreed
<1>2. UNCHANGED <<nconn, using, link, misread>>
  BY DEF IoClose, IoCallsClosed, IoResetsHello, IoTakesCallbacks, IoRunsCallbacks, IoData,
         callState, history
<1>3. CASE IoData /\ cb
  <2>1. pc' = [pc EXCEPT ![Io] = "deliver"] /\ UNCHANGED <<conn, cbs, swapped, hello>>
    BY <1>3 DEF IoData, Goto, callState
  <2> QED
    BY <1>0, <1>2, <2>1, MoveStep DEF Greeting
<1>4. CASE IoClose
  <2>1. /\ pc' = [pc EXCEPT ![Io] = IF cb THEN "closed" ELSE "idle"] /\ conn' = 0
        /\ conn # 0 /\ ~link[conn].peer /\ link[conn].cenc # "json"
        /\ UNCHANGED <<cbs, swapped, hello>>
    BY <1>4 DEF IoClose, Goto, callState
  <2>2. conn = nconn /\ nconn > 0 /\ Agreed(link[nconn])
    BY <1>0, <2>1 DEF Sound, Phases, Fresh, Asked, Told
  <2>3. CASE cb
    BY <1>0, <1>2, <2>1, <2>2, <2>3, MoveStep DEF Greeting
  <2>4. CASE ~cb
    BY <1>0, <1>2, <2>1, <2>2, <2>4, MoveStep DEF Greeting
  <2> QED
    BY <2>3, <2>4
<1>5. CASE IoCallsClosed
  <2>1. /\ pc[Io] = "closed" /\ pc' = [pc EXCEPT ![Io] = "lock"]
        /\ UNCHANGED <<conn, cbs, swapped, hello>>
    BY <1>5 DEF IoCallsClosed, Goto, callState
  <2> QED
    BY <1>0, <1>1, <1>2, <2>1, MoveStep DEF Greeting
<1>6. CASE IoResetsHello
  <2>1. /\ pc[Io] = "lock" /\ pc' = [pc EXCEPT ![Io] = "swap"] /\ hello' = FALSE
        /\ UNCHANGED <<conn, cbs, swapped>>
    BY <1>6 DEF IoResetsHello, Goto
  <2> QED
    BY <1>0, <1>1, <1>2, <2>1, MoveStep DEF Greeting
<1>7. CASE IoTakesCallbacks
  <2>1. /\ pc[Io] = "swap" /\ pc' = [pc EXCEPT ![Io] = "run"] /\ swapped' = cbs /\ cbs' = {}
        /\ UNCHANGED <<conn, hello>>
    BY <1>7 DEF IoTakesCallbacks, Goto
  <2> QED
    BY <1>0, <1>1, <1>2, <2>1, MoveStep DEF Greeting
<1>8. CASE IoRunsCallbacks
  <2>1. /\ pc[Io] = "run" /\ pc' = [pc EXCEPT ![Io] = "reopen"] /\ swapped' = {}
        /\ hello' = (hello \/ swapped \cap Conns # {}) /\ UNCHANGED <<conn, cbs>>
    BY <1>8 DEF IoRunsCallbacks, Goto
  <2>2. hello' => hello
    BY <1>0, <2>1
  <2> QED
    BY <1>0, <1>1, <1>2, <2>1, <2>2, MoveStep DEF Greeting
<1> QED
  BY <1>3, <1>4, <1>5, <1>6, <1>7, <1>8

\* The next connection is untouched when it becomes the newest.
LEMMA EncReopens ==
  ASSUME FInv, Sound, IoReopens
  PROVE  Sound'
<1>0. /\ Main \in Threads /\ Io \in Threads /\ Main # Io /\ Callers \subseteq Threads
      /\ Io \notin Callers /\ nconn \in Nat
  BY Basics, ThreadsDiffer
<1>1. /\ pc[Io] = "reopen" /\ UNCHANGED <<using, cbs, swapped, hello, link, misread>>
  BY DEF IoReopens, callState, history
<1>2. /\ nconn > 0 /\ Agreed(link[nconn]) /\ ~link[nconn].peer /\ cbs \cap Conns = {} /\ ~hello
      /\ conn \in {0, nconn} /\ swapped \cap Conns = {}
  BY <1>1 DEF Sound, HelloCallback, Agreed, Newest
<1>3. CASE pc' = [pc EXCEPT ![Io] = "idle"] /\ UNCHANGED <<conn, nconn>>
  BY <1>0, <1>1, <1>2, <1>3, MoveStep DEF Greeting
<1>4. CASE UNCHANGED <<pc, conn, nconn>>
  <2>1. pc' = [pc EXCEPT ![Io] = "reopen"]
    BY <1>1, <1>4 DEF FInv, IInv, CallTypes
  <2> QED
    BY <1>0, <1>1, <1>2, <1>4, <2>1, MoveStep DEF Greeting
<1>5. CASE /\ nconn < MaxConn /\ nconn' = nconn + 1 /\ conn' = nconn + 1
           /\ pc' = [pc EXCEPT ![Io] = "add"]
  <2>1. /\ pc'[Io] = "add" /\ pc'[Main] = pc[Main]
        /\ \A c \in Callers : pc'[c] = pc[c]
    BY <1>0, <1>5 DEF FInv, IInv, CallTypes
  <2>2. nconn + 1 \in Conns /\ link[nconn + 1] = NewLink
    BY <1>0, <1>5, MaxConnIsPositive DEF Sound, Newest, Conns
  <2>3. Fresh(link'[nconn'], nconn') /\ link'[nconn'].cenc = "json"
    BY <1>1, <1>5, <2>2 DEF Fresh, NewLink
  <2>4. \A c \in Callers : using[c] <= nconn /\ using[c] \in 0 .. MaxConn
    BY <1>0 DEF Sound, Newest, FInv, LinkTypes
  <2>5. Newest'
    <3>1. ASSUME NEW c \in Callers PROVE using[c] <= nconn + 1
      BY <1>0, <2>4, MaxConnIsPositive
    <3>2. \A k \in Conns : /\ k < nconn + 1 => ~link[k].peer
                           /\ k > nconn + 1 => link[k] = NewLink
      BY <1>0, <1>2 DEF Sound, Newest, Conns
    <3> QED
      BY <1>1, <1>5, <3>1, <3>2 DEF Newest
  <2>6. pc[Main] \notin Greeting
    BY <1>2 DEF Sound, Phases, Agreed, Fresh
  <2>7. Phases'
    BY <1>0, <1>2, <1>5, <2>1, <2>3, <2>6 DEF Phases, Greeter
  <2>8. FlagIsRight'
    BY <1>0, <1>1, <1>2, <1>5, <2>4, MaxConnIsPositive DEF FlagIsRight
  <2>9. HelloCallback'
    BY <1>1, <1>2, <1>5, <2>1 DEF HelloCallback
  <2> QED
    BY <1>1, <2>5, <2>7, <2>8, <2>9 DEF Sound
<1> QED
  BY <1>3, <1>4, <1>5 DEF IoReopens, Goto

\* A step that changes the newest connection only.
LEMMA EncLink ==
  ASSUME FInv, Sound, nconn \in Conns, NEW x, link' = [link EXCEPT ![nconn] = x],
         UNCHANGED <<pc, conn, nconn, using, cbs, swapped, hello, misread>>,
         x.cenc = link[nconn].cenc, ~link[nconn].peer => ~x.peer,
         Agreed(link[nconn]) => Agreed(x), Fresh(link[nconn], nconn) => Fresh(x, nconn),
         Fresh(x, nconn) \/ Asked(x, nconn) \/ Told(x, nconn) \/ Agreed(x)
  PROVE  Sound'
<1>0. Main \in Threads /\ Main \notin Callers /\ Main # Io /\ nconn \in Nat /\ nconn > 0
  BY Basics, ThreadsDiffer DEF Conns
<1>1. link'[nconn] = x /\ \A k \in Conns \ {nconn} : link'[k] = link[k]
  BY DEF FInv, LinkTypes
<1>2. pc' = [pc EXCEPT ![Main] = pc[Main]]
  BY <1>0 DEF FInv, IInv, CallTypes
<1>3. conn \in {0, nconn} /\ swapped \cap Conns = {}
  BY DEF Sound, Newest, HelloCallback
<1>4. \A u \in {Main, Io} : pc'[u] \in Greeting => u = Greeter(nconn) /\ Fresh(link'[nconn], nconn)
  BY <1>0, <1>1 DEF Sound, Phases
<1> QED
  BY <1>0, <1>1, <1>2, <1>3, <1>4, KeepStep, ZenonT(60)

\* A message that comes after the client's callbacks were cleared is dropped.
LEMMA EncDrop ==
  ASSUME FInv, Sound, IoData, ~cb
  PROVE  Sound'
<1>1. /\ conn # 0 /\ link[conn].down # <<>> /\ link' = [link EXCEPT ![conn].down = Tail(@)]
      /\ UNCHANGED <<pc, conn, nconn, using, cbs, swapped, hello, misread>>
  BY DEF IoData, callState, history
<1>2. conn = nconn /\ nconn \in Conns /\ link[nconn] \in Link
  BY <1>1, MaxConnIsPositive DEF Sound, Newest, FInv, LinkTypes, Conns
<1> DEFINE x == [link[nconn] EXCEPT !.down = Tail(@)]
<1>3. link' = [link EXCEPT ![nconn] = x]
  BY <1>1, <1>2 DEF FInv, LinkTypes
<1>4. /\ x.cenc = link[nconn].cenc /\ x.peer = link[nconn].peer /\ x.senc = link[nconn].senc
      /\ x.up = link[nconn].up /\ x.down = Tail(link[nconn].down)
      /\ x.work = link[nconn].work /\ x.half = link[nconn].half
  BY <1>2 DEF Link
<1> HIDE DEF x
<1>5. link[nconn].down \in Seq(Msg) /\ nconn > 0
  BY <1>2, Basics DEF Link, Conns
<1>6. ~Fresh(link[nconn], nconn) /\ ~Asked(link[nconn], nconn)
  BY <1>1, <1>2 DEF Fresh, Asked
<1>7. CASE Told(link[nconn], nconn)
  <2>1. link[nconn].down = Hello(nconn)
    BY <1>1, <1>2, <1>7 DEF Told
  <2>2. Tail(link[nconn].down) = <<>>
    BY <2>1 DEF Hello
  <2>3. Told(x, nconn) /\ ~Agreed(link[nconn])
    BY <1>4, <1>7, <2>2 DEF Told, Agreed
  <2> QED
    BY <1>1, <1>2, <1>3, <1>4, <1>6, <2>3, EncLink
<1>8. CASE Agreed(link[nconn])
  <2>1. AllCbor(x.down)
    BY <1>1, <1>2, <1>4, <1>5, <1>8, AllCborTail DEF Agreed
  <2>2. Agreed(x)
    BY <1>4, <1>8, <2>1 DEF Agreed
  <2> QED
    BY <1>1, <1>2, <1>3, <1>4, <1>6, <2>2, EncLink
<1> QED
  BY <1>5, <1>6, <1>7, <1>8 DEF Sound, Phases

\* The server's end reads and switches at the same point of the stream.
LEMMA EncServerReads ==
  ASSUME FInv, Sound, NEW k \in Conns, ServerReads(k)
  PROVE  Sound'
<1> DEFINE m == Head(link[k].up)
           l == [link[k] EXCEPT !.up = Tail(@)]
<1>1. /\ link[k].peer /\ link[k].up # <<>> /\ link[k] \in Link
      /\ UNCHANGED <<pc, conn, nconn, using, cbs, swapped, hello>>
      /\ misread' = (misread \/ m.enc # l.senc)
      /\ \/ link' = [link EXCEPT ![k] = Answered(l, m)]
         \/ link' = [link EXCEPT ![k] = [l EXCEPT !.torn = TRUE]]
  BY DEF ServerReads, callState, FInv, LinkTypes
<1>2. k = nconn /\ nconn > 0
  <2>1. NewLink.up = <<>>
    BY DEF NewLink
  <2>2. ~(k < nconn) /\ ~(k > nconn)
    BY <1>1, <2>1 DEF Sound, Newest
  <2> QED
    BY <2>2, Basics DEF Conns
<1>3. m \in Msg /\ link[k].up \in Seq(Msg) /\ Tail(link[k].up) \in Seq(Msg)
  BY <1>1, HasTail DEF Link
<1>4. /\ l \in Link /\ l.up = Tail(link[k].up) /\ l.down = link[k].down /\ l.peer = link[k].peer
      /\ l.cenc = link[k].cenc /\ l.senc = link[k].senc
      /\ l.work = link[k].work /\ l.half = link[k].half
  BY <1>1, <1>3 DEF Link
<1>5. m = Head(link[k].up)
  OBVIOUS
<1> HIDE DEF m, l
<1> DEFINE t == [l EXCEPT !.torn = TRUE]
           a == [l EXCEPT !.down = Append(@, [id |-> m.id, enc |-> l.senc]), !.senc = "cbor"]
           w == [l EXCEPT !.work = @ \cup {m.id}]
<1>6. \/ link' = [link EXCEPT ![nconn] = t]
      \/ link' = [link EXCEPT ![nconn] = a] /\ m.id \in Conns
      \/ link' = [link EXCEPT ![nconn] = w] /\ m.id \notin Conns
  BY <1>1, <1>2 DEF Answered
<1>7. /\ t.up = l.up /\ t.down = l.down /\ t.peer = l.peer /\ t.cenc = l.cenc /\ t.senc = l.senc
      /\ t.work = l.work /\ t.half = l.half
  BY <1>4 DEF Link
<1>8. /\ a.up = l.up /\ a.down = Append(l.down, [id |-> m.id, enc |-> l.senc]) /\ a.peer = l.peer
      /\ a.cenc = l.cenc /\ a.senc = "cbor" /\ a.work = l.work /\ a.half = l.half
  BY <1>4 DEF Link
<1>9. /\ w.up = l.up /\ w.down = l.down /\ w.peer = l.peer /\ w.cenc = l.cenc /\ w.senc = l.senc
      /\ w.half = l.half
  BY <1>4 DEF Link
<1> HIDE DEF t, a, w
<1>10. ~Fresh(link[nconn], nconn) /\ ~Told(link[nconn], nconn)
  BY <1>1, <1>2 DEF Fresh, Told
<1>11. CASE Asked(link[nconn], nconn)
  <2>1. link[k].up = Hello(nconn)
    BY <1>1, <1>2, <1>11 DEF Asked
  <2>2. m = [id |-> nconn, enc |-> "json"] /\ l.up = <<>>
    BY <1>4, <1>5, <2>1 DEF Hello
  <2>3. l.senc = "json" /\ l.down = <<>> /\ ~Agreed(link[nconn])
    BY <1>2, <1>4, <1>11 DEF Asked, Agreed
  <2>4. misread' = misread
    BY <1>1, <2>2, <2>3 DEF Sound
  <2>5. Asked(t, nconn)
    BY <1>2, <1>4, <1>7, <1>11, <2>2 DEF Asked
  <2>6. a.down = Hello(nconn)
    BY <1>8, <2>2, <2>3 DEF Hello
  <2>7. Told(a, nconn)
    BY <1>2, <1>4, <1>8, <1>11, <2>2, <2>6 DEF Asked, Told
  <2>8. m.id \in Conns
    BY <1>2, <2>2
  <2> QED
    BY <1>1, <1>2, <1>4, <1>6, <1>7, <1>8, <1>10, <2>3, <2>4, <2>5, <2>7, <2>8, EncLink
<1>12. CASE Agreed(link[nconn])
  <2>1. m.enc = "cbor" /\ AllCbor(l.up)
    BY <1>1, <1>2, <1>3, <1>4, <1>5, <1>12, AllCborTail DEF Agreed
  <2>2. l.senc = "cbor" /\ AllCbor(l.down) /\ l.down \in Seq(Msg)
    BY <1>2, <1>4, <1>12 DEF Agreed, Link
  <2>3. misread' = misread
    BY <1>1, <2>1, <2>2 DEF Sound
  <2>4. Agreed(t) /\ Agreed(w)
    BY <1>2, <1>4, <1>7, <1>9, <1>12, <2>1 DEF Agreed
  <2>5. [id |-> m.id, enc |-> l.senc] \in Msg
    BY <1>3, <1>4 DEF Msg, Link
  <2>6. AllCbor(a.down)
    BY <1>8, <2>2, <2>5, AllCborAppend
  <2>7. Agreed(a)
    BY <1>2, <1>4, <1>8, <1>12, <2>1, <2>6 DEF Agreed
  <2> QED
    BY <1>1, <1>2, <1>4, <1>6, <1>7, <1>8, <1>9, <1>10, <2>3, <2>4, <2>7, EncLink
<1> QED
  BY <1>2, <1>10, <1>11, <1>12 DEF Sound, Phases

\* The server answers a call, or goes away.
LEMMA EncServer ==
  ASSUME FInv, Sound, NEW k \in Conns, ServerReplies(k) \/ PeerCloses(k)
  PROVE  Sound'
<1>1. /\ link[k] \in Link /\ UNCHANGED <<pc, conn, nconn, using, cbs, swapped, hello, misread>>
  BY DEF ServerReplies, PeerCloses, callState, history, FInv, LinkTypes
<1>2. CASE ServerReplies(k)
  <2>1. PICK i \in link[k].work :
          link' = [link EXCEPT ![k].work = @ \ {i},
                               ![k].down = Append(@, [id |-> i, enc |-> link[k].senc])]
    BY <1>2 DEF ServerReplies
  <2>2. k = nconn /\ nconn > 0
    <3>1. NewLink.work = {}
      BY DEF NewLink
    <3>2. ~(k < nconn) /\ ~(k > nconn)
      BY <1>2, <2>1, <3>1 DEF Sound, Newest, ServerReplies
    <3> QED
      BY <3>2, Basics DEF Conns
  <2>3. Agreed(link[nconn])
    BY <2>1, <2>2 DEF Sound, Phases, Fresh, Asked, Told
  <2> DEFINE r == [id |-> i, enc |-> link[nconn].senc]
             x == [link[nconn] EXCEPT !.work = @ \ {i}, !.down = Append(@, r)]
  <2>4. link' = [link EXCEPT ![nconn] = x]
    BY <2>1, <2>2 DEF FInv, LinkTypes
  <2>5. r \in Msg /\ r.enc = "cbor" /\ link[nconn].down \in Seq(Msg)
    BY <1>1, <2>2, <2>3 DEF Link, Msg, Agreed
  <2> HIDE DEF r
  <2>6. /\ x.up = link[nconn].up /\ x.down = Append(link[nconn].down, r)
        /\ x.peer = link[nconn].peer /\ x.cenc = link[nconn].cenc /\ x.senc = link[nconn].senc
        /\ x.half = link[nconn].half
    BY <1>1, <2>2 DEF Link
  <2> HIDE DEF x
  <2>7. Agreed(x)
    BY <2>3, <2>5, <2>6, AllCborAppend DEF Agreed
  <2>8. ~Fresh(link[nconn], nconn)
    BY <2>3 DEF Agreed, Fresh
  <2> QED
    BY <1>1, <2>2, <2>4, <2>6, <2>7, <2>8, EncLink
<1>3. CASE PeerCloses(k)
  <2> DEFINE x == [link[nconn] EXCEPT !.peer = FALSE, !.work = {}]
  <2>1. k = nconn /\ link' = [link EXCEPT ![nconn] = x]
    BY <1>3 DEF PeerCloses, FInv, LinkTypes
  <2>2. /\ x.up = link[nconn].up /\ x.down = link[nconn].down /\ x.peer = FALSE /\ x.work = {}
        /\ x.cenc = link[nconn].cenc /\ x.senc = link[nconn].senc /\ x.half = link[nconn].half
    BY <1>1, <2>1 DEF Link
  <2> HIDE DEF x
  <2>3. /\ Agreed(link[nconn]) => Agreed(x)
        /\ Fresh(link[nconn], nconn) => Fresh(x, nconn)
        /\ Asked(link[nconn], nconn) => Asked(x, nconn)
        /\ Told(link[nconn], nconn) => Told(x, nconn)
    BY <2>2 DEF Agreed, Fresh, Asked, Told
  <2>4. nconn > 0
    BY <2>1, Basics DEF Conns
  <2>5. Fresh(x, nconn) \/ Asked(x, nconn) \/ Told(x, nconn) \/ Agreed(x)
    BY <2>3, <2>4 DEF Sound, Phases
  <2> QED
    BY <1>1, <2>1, <2>2, <2>3, <2>5, EncLink
<1> QED
  BY <1>2, <1>3

\* The client's end reads in the encoding of the phase; the answer to .hello ends the third one.
LEMMA EncDeliver ==
  ASSUME FInv, Sound, IoDeliver
  PROVE  Sound'
<1>0. /\ Main \in Threads /\ Io \in Threads /\ Main # Io /\ Callers \subseteq Threads
      /\ Main \notin Callers /\ Io \notin Callers /\ nconn \in Nat
  BY Basics, ThreadsDiffer
<1> DEFINE m == Head(link[conn].down)
           understood == m.enc = link[conn].cenc
           known == m.id \in cbs /\ understood
           cenc == IF known /\ m.id \in Conns THEN "cbor" ELSE link[conn].cenc
           torn == link[conn].torn \/ ~understood
<1>1. /\ pc[Io] = "deliver" /\ pc' = [pc EXCEPT ![Io] = "idle"]
      /\ UNCHANGED <<conn, nconn, using, swapped>>
      /\ cbs' = IF known THEN cbs \ {m.id} ELSE cbs
      /\ hello' = (hello \/ (known /\ m.id \in Conns))
      /\ misread' = (misread \/ ~understood)
  BY DEF IoDeliver, Goto, get_rpc_cb
<1>2. conn = nconn /\ nconn \in Conns /\ nconn > 0 /\ link[conn] \in Link /\ link[conn].down # <<>>
  BY <1>1, MaxConnIsPositive
     DEF FInv, Delivers, LinkTypes, Conns, IInv, CallTypes, Sound, Newest
<1>3. link' = [link EXCEPT ![conn] = [[link[conn] EXCEPT !.down = Tail(@)] EXCEPT !.cenc = cenc,
                                                                               !.torn = torn]]
  BY <1>2 DEF IoDeliver, Link
<1>4. link'[conn] = [[link[conn] EXCEPT !.down = Tail(@)] EXCEPT !.cenc = cenc, !.torn = torn]
      /\ \A k \in Conns \ {nconn} : link'[k] = link[k]
  BY <1>2, <1>3 DEF FInv, LinkTypes
<1>5. /\ link[conn].down \in Seq(Msg) /\ m = Head(link[conn].down)
      /\ (known /\ m.id \in Conns => cenc = "cbor")
      /\ (~(known /\ m.id \in Conns) => cenc = link[conn].cenc)
  BY <1>2 DEF Link
<1> HIDE DEF m, cenc, torn
<1>6. /\ link'[nconn].down = Tail(link[nconn].down) /\ link'[nconn].up = link[nconn].up
      /\ link'[nconn].peer = link[nconn].peer /\ link'[nconn].work = link[nconn].work
      /\ link'[nconn].senc = link[nconn].senc /\ link'[nconn].half = link[nconn].half
      /\ link'[nconn].cenc = cenc
  BY <1>2, <1>4 DEF Link
<1>7. ~Fresh(link[nconn], nconn) /\ ~Asked(link[nconn], nconn)
  BY <1>2 DEF Fresh, Asked
<1>8. \A u \in {Main, Io} : pc[u] \notin Greeting
  BY <1>2, <1>7 DEF Sound, Phases
<1>9. pc'[Io] = "idle" /\ \A u \in Threads \ {Io} : pc'[u] = pc[u]
  BY <1>0, <1>1 DEF FInv, IInv, CallTypes
<1>10. \A u \in {Main, Io} : pc'[u] \notin Greeting
  BY <1>0, <1>8, <1>9 DEF Greeting
<1>11. \/ /\ Told(link[nconn], nconn) /\ m = [id |-> nconn, enc |-> "json"]
          /\ Tail(link[nconn].down) = <<>>
       \/ Agreed(link[nconn]) /\ m.enc = "cbor" /\ AllCbor(Tail(link[nconn].down))
  <2>1. CASE Told(link[nconn], nconn)
    <3>1. link[nconn].down = Hello(nconn)
      BY <1>2, <2>1 DEF Told
    <3> QED
      BY <1>2, <1>5, <2>1, <3>1 DEF Hello
  <2>2. CASE Agreed(link[nconn])
    BY <1>2, <1>5, <2>2, AllCborTail DEF Agreed
  <2> QED
    BY <1>2, <1>7, <2>1, <2>2 DEF Sound, Phases
<1>12. understood /\ misread' = FALSE
  <2>1. m.enc = link[conn].cenc
    BY <1>2, <1>11 DEF Told, Agreed
  <2> QED
    BY <1>1, <2>1 DEF Sound
<1>13. /\ conn \in {0, nconn} /\ swapped \cap Conns = {}
       /\ \A k \in cbs \cap Conns : k = nconn /\ link[nconn].cenc = "json"
  BY DEF Sound, Newest, HelloCallback
<1>14. CASE known /\ m.id \in Conns
  <2>1. Told(link[nconn], nconn) /\ m.id = nconn
    BY <1>11, <1>13, <1>14 DEF Agreed
  <2>2. Tail(link[nconn].down) = <<>>
    BY <1>11, <2>1 DEF Told, Agreed
  <2>3. AllCbor(<<>>)
    BY DEF AllCbor
  <2>4. Agreed(link'[nconn])
    BY <1>5, <1>6, <1>14, <2>1, <2>2, <2>3 DEF Told, Agreed
  <2>5. cbs' \cap Conns = {}
    BY <1>1, <1>13, <1>14, <2>1
  <2>6. Newest'
    BY <1>0, <1>1, <1>4 DEF Sound, Newest, Conns
  <2>7. Phases'
    BY <1>1, <1>10, <2>4 DEF Phases
  <2>8. FlagIsRight'
    BY <1>1, <1>2, <2>4 DEF FlagIsRight
  <2>9. HelloCallback'
    BY <1>1, <1>9, <1>13, <2>5 DEF HelloCallback
  <2> QED
    BY <1>12, <2>6, <2>7, <2>8, <2>9 DEF Sound
<1>15. CASE ~(known /\ m.id \in Conns)
  <2>1. cenc = link[nconn].cenc /\ (hello' => hello) /\ misread' = misread
    BY <1>1, <1>2, <1>5, <1>12, <1>15 DEF Sound
  <2>2. Agreed(link[nconn]) => Agreed(link'[nconn])
    BY <1>6, <1>11, <2>1 DEF Agreed, Told
  <2>3. Told(link[nconn], nconn) => Told(link'[nconn], nconn)
    BY <1>6, <1>11, <2>1 DEF Agreed, Told
  <2>4. cbs' \cap Conns \subseteq cbs
    BY <1>1
  <2> QED
    BY <1>0, <1>1, <1>2, <1>4, <1>6, <1>10, <1>11, <1>13, <2>1, <2>2, <2>3, <2>4, KeepStep
<1> QED
  BY <1>14, <1>15

\* Every step preserves the invariant.
LEMMA NextEncInv == EncInv /\ [Next]_vars => EncInv'
<1> SUFFICES ASSUME EncInv, [Next]_vars PROVE EncInv'
  OBVIOUS
<1>1. FInv /\ FInv'
  BY NextFInv DEF EncInv
<1>2. (early => early') /\ (stale => stale')
  <2> USE DEF history
  <2>1. ASSUME NEW t, Sends(t) PROVE (early => early') /\ (stale => stale')
    <3>1. AddCallback(t) \/ WriteHead(t) \/ WriteTail(t) \/ WriteFails(t) \/ WriteToNobody(t)
            => UNCHANGED <<early, stale>>
      BY DEF AddCallback, WriteHead, WriteTail, WriteFails, WriteToNobody
    <3>2. LookupConnection(t) => early' = early /\ (stale => stale')
      <4>1. LookupConnection(t) =>
              /\ early' = early
              /\ stale' = stale \/ stale' = (stale \/ (t \in Callers /\ using[t] # conn))
        BY Zenon DEF LookupConnection
      <4> QED
        BY <4>1, Zenon
    <3> QED
      BY <2>1, <3>1, <3>2 DEF Sends
  <2>2. ASSUME NEW c, CallerStep(c) PROVE (early => early') /\ (stale => stale')
    BY <2>1, <2>2 DEF CallerStep, CheckHello
  <2>3. CASE MainStep \/ Destroy
    BY <2>1, <2>3 DEF MainStep, Construct, HelloSeen, Destroy, SetShuttingDown, ClearCallback,
                      StartClose, FinishClose
  <2>4. CASE IoStep
    <3>1. IoClose => (early => early') /\ stale' = stale
      BY DEF IoClose
    <3>2. IoDeliver => UNCHANGED <<early, stale>>
      BY DEF IoDeliver
    <3>3. IoData \/ IoCallsClosed \/ IoResetsHello \/ IoTakesCallbacks \/ IoRunsCallbacks \/ IoReopens
            => UNCHANGED <<early, stale>>
      BY DEF IoData, IoCallsClosed, IoResetsHello, IoTakesCallbacks, IoRunsCallbacks, IoReopens
    <3> QED
      BY <2>1, <2>4, <3>1, <3>2, <3>3 DEF IoStep
  <2>5. ASSUME NEW k, ServerStep(k) \/ PeerCloses(k) PROVE (early => early') /\ (stale => stale')
    BY <2>5 DEF ServerStep, ServerReads, ServerReplies, PeerCloses
  <2> QED
    BY <2>2, <2>3, <2>4, <2>5 DEF Next, vars
<1>3. ASSUME Sound, ~early', ~stale' PROVE Sound'
  <2>1. Main \in Threads /\ Io \in Threads /\ Callers \subseteq Threads
    BY DEF Threads
  <2>2. ASSUME NEW t \in Threads, Sends(t) PROVE Sound'
    BY <1>1, <1>3, <2>2, EncAddCallback, EncLookup, EncWrite DEF Sends
  <2>3. CASE UNCHANGED vars
    BY <1>3, <2>3 DEF vars, Sound, Newest, Phases, FlagIsRight, HelloCallback
  <2>4. ASSUME NEW c \in Callers, CallerStep(c) PROVE Sound'
    BY <1>1, <1>3, <2>1, <2>2, <2>4, EncCheckHello DEF CallerStep
  <2>5. CASE MainStep \/ Destroy
    BY <1>1, <1>3, <2>1, <2>2, <2>5, EncMain DEF MainStep
  <2>6. CASE IoStep
    BY <1>1, <1>3, <2>1, <2>2, <2>6, EncIo, EncDrop, EncDeliver, EncReopens DEF IoStep
  <2>7. ASSUME NEW k \in Conns, ServerStep(k) \/ PeerCloses(k) PROVE Sound'
    BY <1>1, <1>3, <2>7, EncServerReads, EncServer DEF ServerStep
  <2> QED
    BY <2>3, <2>4, <2>5, <2>6, <2>7 DEF Next
<1> QED
  BY <1>1, <1>2, <1>3 DEF EncInv

\* Initially there is no connection.
LEMMA InitEncInv == Init => EncInv
<1> SUFFICES ASSUME Init PROVE EncInv
  OBVIOUS
<1>1. Newest /\ Phases /\ FlagIsRight
  BY DEF Init, Newest, Phases, FlagIsRight, Conns, Threads
<1>2. HelloCallback
  BY ThreadsDiffer DEF Init, HelloCallback, Threads
<1> QED
  BY <1>1, <1>2, InitFInv DEF Init, EncInv, Sound

\* No message is read in another encoding than its own, but for the two cases the code does not
\* rule out (the .hello exchange of service_client and rpc_handler's switch after its answer).
THEOREM EncodingsAgree == Spec => []EncodingAgrees
<1>1. EncInv => EncodingAgrees
  BY DEF EncInv, Sound, EncodingAgrees
<1> QED
  BY <1>1, InitEncInv, NextEncInv, PTL DEF Spec
=============================================================================
