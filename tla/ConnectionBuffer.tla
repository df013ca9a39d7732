-------------------------- MODULE ConnectionBuffer --------------------------
(***************************************************************************)
(* connection_internal::handle_data_available: how one end of a connection  *)
(* cuts the stream of bytes back into messages, in a buffer that grows up   *)
(* to a limit, over edge-triggered epoll events.                            *)
(*                                                                         *)
(* Bytes are numbered by their position in the stream.  The peer writes     *)
(* message after message; message m is Size[m] bytes long.  Messages up to  *)
(* LastJson are in json (the last byte is the end of line), the others in   *)
(* json_cbor (the first byte stands for the length, so that a length is     *)
(* never seen in part):                                                     *)
(* the reader switches when it has read the answer to .hello.               *)
(***************************************************************************)
EXTENDS Integers, Sequences

CONSTANTS N,              \* messages in the stream
          Sizes,          \* lengths of messages
          BUFFER_SIZE, MAX_BUFFER_SIZE

ASSUME NAssumption == N \in Nat \ {0}
ASSUME SizesAssumption == Sizes \subseteq Nat \ {0, 1}
ASSUME BufferAssumption ==
  BUFFER_SIZE \in Nat \ {0} /\ MAX_BUFFER_SIZE \in Nat /\ BUFFER_SIZE <= MAX_BUFFER_SIZE

VARIABLES
  Size, LastJson,         \* the stream, chosen at the start
  written,                \* bytes the peer has written
  ready,                  \* epoll has an event for the socket
  pc,                     \* "idle", "loop" (outer loop) or "process" (inner loop)
  size,                   \* buffer.size()
  buf,                    \* positions of the bytes 0 .. buffer_off - 1 of the buffer
  start,                  \* buffer_start_off
  check,                  \* check_start
  delivered,              \* the messages handed to on_message, as positions
  garbled                 \* an overlapping memcpy corrupted the buffer

stream == <<Size, LastJson>>
reader == <<pc, size, buf, start, check, delivered, garbled>>
vars == <<stream, written, ready, reader>>

off == Len(buf)

(* First[m] - 1 bytes precede message m *)
First == LET f[m \in 1 .. N + 1] == IF m = 1 THEN 1 ELSE f[m - 1] + Size[m - 1] IN f
MessageAt(p) == CHOOSE m \in 1 .. N : First[m] <= p /\ p < First[m + 1]
Bytes(a, b) == [i \in 1 .. b - a + 1 |-> a + i - 1]
Whole(m) == Bytes(First[m], First[m + 1] - 1)

Init == /\ Size \in [1 .. N -> Sizes]
        /\ LastJson \in {1, N}
        /\ \A m \in 1 .. LastJson : Size[m] <= MAX_BUFFER_SIZE \* json::send_json refuses others
        /\ written = 0 /\ ready = FALSE
        /\ pc = "idle" /\ size = BUFFER_SIZE /\ buf = <<>> /\ start = 0 /\ check = 0
        /\ delivered = <<>> /\ garbled = FALSE

(* The peer writes a message, in json_cbor whatever its length; it arrives  *)
(* in pieces, which need not be those of the two calls of write.            *)
Write ==
  /\ written < First[N + 1] - 1
  /\ written' \in written + 1 .. First[MessageAt(written + 1) + 1] - 1
  /\ ready' = TRUE
  /\ UNCHANGED <<stream, reader>>

(* epoll_wait returns the event once; handle_data_available must read it all *)
Wake ==
  /\ pc = "idle" /\ ready
  /\ ready' = FALSE /\ pc' = "loop"
  /\ UNCHANGED <<stream, written, size, buf, start, check, delivered, garbled>>

ReadSoFar == IF buf = <<>> THEN First[Len(delivered) + 1] - 1 ELSE buf[off]

Smaller(a, b) == IF a < b THEN a ELSE b

(* read() into the buffer b of size s *)
Read(b, s) ==
  LET n == Smaller(written - ReadSoFar, s - Len(b))
  IN IF n = 0 THEN pc' = "idle" /\ buf' = b /\ UNCHANGED check
     ELSE pc' = "process" /\ buf' = b \o Bytes(ReadSoFar + 1, ReadSoFar + n) /\ check' = Len(b)

\* Mutant: the buffer is not grown to the limit if its double is larger.
Grown_Doubles == IF 2 * size <= MAX_BUFFER_SIZE THEN 2 * size ELSE size

Grown == Smaller(2 * size, MAX_BUFFER_SIZE)

(* there is room in the buffer *)
ReadMore ==
  /\ pc = "loop" /\ off < size
  /\ Read(buf, size)
  /\ UNCHANGED <<stream, written, ready, size, start, delivered, garbled>>

(* a message fills the buffer from its start: it grows *)
GrowAndRead ==
  /\ pc = "loop" /\ off = size /\ start = 0 /\ size < MAX_BUFFER_SIZE
  /\ size' = Grown
  /\ Read(buf, size')
  /\ UNCHANGED <<stream, written, ready, start, delivered, garbled>>

(* ... or is larger than the limit: what is unread stays unread *)
TooBig ==
  /\ pc = "loop" /\ off = size /\ start = 0 /\ size >= MAX_BUFFER_SIZE
  /\ pc' = "idle"
  /\ UNCHANGED <<stream, written, ready, size, buf, start, check, delivered, garbled>>

(* The rest is moved to the start of the buffer, with memcpy: the result is *)
(* undefined if the two places overlap.                                     *)
MoveAndRead ==
  /\ pc = "loop" /\ off = size /\ start # 0
  /\ Read(SubSeq(buf, start + 1, off), size)
  /\ start' = 0
  /\ garbled' \in {garbled, garbled \/ off - start > start}
  /\ UNCHANGED <<stream, written, ready, size, delivered>>

(* check_read_message_complete: the length of the message at start, or -1 *)
JsonComplete ==
  LET ends == {i \in check + 1 .. off : buf[i] = First[MessageAt(buf[i]) + 1] - 1}
  IN IF ends = {} THEN -1 ELSE (CHOOSE i \in ends : \A j \in ends : i <= j) - start
CborComplete ==
  LET total == Size[MessageAt(buf[start + 1])] IN IF off - start >= total THEN total ELSE -1

Complete == IF Len(delivered) < LastJson THEN JsonComplete ELSE CborComplete

\* Mutant: after a message the search goes on behind what was read.
CheckFrom_End(c) == off

(* where the search for the next message goes on *)
CheckFrom(c) == start + c

MoreToProcess == off > start /\ Complete >= 0

ProcessMessage ==
  /\ pc = "process" /\ MoreToProcess
  /\ delivered' = Append(delivered, SubSeq(buf, start + 1, start + Complete))
  /\ start' = start + Complete
  /\ check' = CheckFrom(Complete)
  /\ UNCHANGED <<stream, written, ready, pc, size, buf, garbled>>

ProcessEnds ==
  /\ pc = "process" /\ ~MoreToProcess
  /\ pc' = "loop"
  /\ UNCHANGED <<stream, written, ready, size, buf, start, check, delivered, garbled>>

HandleData == ReadMore \/ GrowAndRead \/ TooBig \/ MoveAndRead \/ ProcessMessage \/ ProcessEnds
Next == Write \/ (~garbled /\ (Wake \/ HandleData))

(* the epoll thread runs; the peer may stop writing at any byte *)
Spec == Init /\ [][Next]_vars /\ WF_vars(~garbled /\ (Wake \/ HandleData))

----------------------------------------------------------------------------
(***************************************************************************)
(* However the reads cut the stream and wherever the encoding changes, the  *)
(* messages handed on are the ones that were sent, whole and in order.      *)
(***************************************************************************)
MessagesWhole ==
  /\ Len(delivered) <= N
  /\ \A i \in 1 .. Len(delivered) : delivered[i] = Whole(i)

(***************************************************************************)
(* A message that was written is delivered although epoll tells of each     *)
(* arrival only once, unless it or one before it exceeds MAX_BUFFER_SIZE,   *)
(* or an overlapping move corrupted the buffer.                             *)
(***************************************************************************)
WrittenIsDelivered ==
  \A m \in 1 .. N :
    written >= First[m + 1] - 1 ~>
      \/ Len(delivered) >= m \/ garbled
      \/ \E i \in 1 .. m : Size[i] > MAX_BUFFER_SIZE
=============================================================================
