---------------------------------- MODULE Door ---------------------------------
(* One read of a release by ffmpeg through its session's loopback door            *)
(* (source.rs): the head of the file from memory, the rest by a task that asks     *)
(* the host for one bounded range after another and hands what comes over a short  *)
(* queue.  The host may refuse, answer another range, send less or more; the       *)
(* session may replace the link; ffmpeg may go elsewhere at any moment.  Reads     *)
(* share nothing but the link: of each, Stats holds the sums.                      *)
EXTENDS Integers, Sequences

CONSTANTS
  Size,        \* bytes of the file, the unit being what a frame carries least
  Held,        \* the head the probe kept
  Spans,       \* the bytes of an uninterrupted read's requests: FIRST_CHUNK, then CHUNKS
  DrainMax,    \* DRAIN_MAX
  Queue,       \* QUEUE
  FrameMax,    \* bound: bytes in one frame of the host
  Headers,     \* bound: the Range headers a reader sends
  None

ASSUME DoorAssumption ==
  /\ Size \in Nat \ {0} /\ Held \in 0..Size
  /\ Spans \in Seq(Nat \ {0}) /\ Spans # <<>>
  /\ DrainMax \in Nat /\ Queue \in Nat \ {0} /\ FrameMax \in Nat \ {0}
  /\ Headers \subseteq [a : {None} \cup Nat, b : {None} \cup Nat]

Error == <<>>  \* a frame that carries no bytes but what went wrong

VARIABLES
  link,        \* what a request is sent to: "good", or "dead" until a fresh one is set
  asked,       \* the Range header, and the answer's status and range
  reader,      \* the body ffmpeg reads: "none", "head", "upstream", "ended", "failed", "gone"
  got,         \* the bytes it has been given, in order
  task,        \* the fetch task: what it does
  at, to, chunk, left, \* its position, the request's end, its number, what is still to come
  frame,       \* what it is about to send, None where nothing
  queue,       \* the channel between the two
  requested, consumed, failed, abandoned, \* a Pull's counts
  after        \* history: bytes the host sent once the reader had gone

vars == <<link, asked, reader, got, task, at, to, chunk, left, frame, queue,
          requested, consumed, failed, abandoned, after>>
task_vars == <<at, to, chunk, left>>
counts == <<requested, consumed, failed, abandoned>>

Smaller(a, b) == IF a < b THEN a ELSE b
Larger(a, b) == IF a > b THEN a ELSE b
Bytes(a, b) == [i \in 1..(b - a + 1) |-> a + i - 1]

-----------------------------------------------------------------------------
(* The request                                                                *)

\* range() and answer(): "bytes=a-b", b = None for "bytes=a-", a = None for no header; one
\* that does not parse is answered as one past the end.
Answer(h) ==
  LET last == IF h.b = None THEN Size - 1 ELSE Smaller(h.b, Size - 1)
  IN CASE h.a = None -> [status |-> 200, first |-> 0, last |-> Size - 1]
       [] h.a # None /\ (h.a >= Size \/ last < h.a) -> [status |-> 416, first |-> 0, last |-> -1]
       [] OTHER -> [status |-> 206, first |-> h.a, last |-> last]

Init ==
  /\ link \in {"good", "dead"}
  /\ \E h \in Headers : asked = Answer(h)
  /\ reader = "none" /\ got = <<>>
  /\ task = "none" /\ at = 0 /\ to = 0 /\ chunk = 1 /\ left = 0 /\ frame = None /\ queue = <<>>
  /\ requested = 0 /\ consumed = 0 /\ failed = 0 /\ abandoned = 0 /\ after = 0

\* fetch(): the task begins at a position.
Fetch(from) ==
  /\ task' = "asks" /\ at' = from /\ to' = Smaller(asked.last, from + Spans[1] - 1)
  /\ chunk' = 1 /\ UNCHANGED left

\* answer() and bytes(): what the head holds is sent first, from memory.
Serve ==
  /\ reader = "none" /\ asked.status # 416
  /\ IF asked.first < Held
     THEN reader' = "head" /\ UNCHANGED <<task, task_vars>>
     ELSE reader' = "upstream" /\ Fetch(asked.first)
  /\ UNCHANGED <<link, asked, got, frame, queue, counts, after>>

Refuse ==
  /\ reader = "none" /\ asked.status = 416
  /\ reader' = "ended"
  /\ UNCHANGED <<link, asked, got, task, task_vars, frame, queue, counts, after>>

ReadHead ==
  LET upto == Smaller(asked.last, Held - 1)
  IN /\ reader = "head"
     /\ got' = Bytes(asked.first, upto)
     /\ IF upto < asked.last
        THEN reader' = "upstream" /\ Fetch(upto + 1)
        ELSE reader' = "ended" /\ UNCHANGED <<task, task_vars>>
     /\ UNCHANGED <<link, asked, frame, queue, counts, after>>

-----------------------------------------------------------------------------
(* The reader                                                                 *)

Outstanding == Larger(requested - consumed - failed, 0)
AccountTwice == abandoned' = abandoned + Outstanding
Account == abandoned' = Larger(abandoned, Outstanding)

\* A frame is handed on; an error ends the body, and the Pull goes.
Recv ==
  /\ reader = "upstream" /\ queue # <<>>
  /\ IF Head(queue) = Error
     THEN /\ reader' = "failed" /\ queue' = <<>> /\ Account
          /\ UNCHANGED <<got, consumed>>
     ELSE /\ got' = got \o Head(queue) /\ queue' = Tail(queue)
          /\ consumed' = consumed + Len(Head(queue))
          /\ UNCHANGED <<reader, abandoned>>
  /\ UNCHANGED <<link, asked, task, task_vars, frame, requested, failed, after>>

\* The task has ended and the queue is empty.
Close ==
  /\ reader = "upstream" /\ queue = <<>> /\ task = "done"
  /\ reader' = "ended" /\ Account
  /\ UNCHANGED <<link, asked, got, task, task_vars, frame, queue, requested, consumed, failed, after>>

\* ffmpeg seeks, or is stopped: the body is dropped with what is queued, Pull's Drop counts.
Leave ==
  /\ reader \in {"head", "upstream"}
  /\ reader' = "gone" /\ queue' = <<>>
  /\ IF reader = "upstream" THEN Account ELSE UNCHANGED abandoned
  /\ UNCHANGED <<link, asked, got, task, task_vars, frame, requested, consumed, failed, after>>

Open == reader = "upstream"

-----------------------------------------------------------------------------
(* The task                                                                   *)

\* A request that came to nothing: its bytes are counted as failed, the reader is told.
Fails(bytes) ==
  /\ failed' = failed + bytes
  /\ task' = "sends" /\ frame' = Error

\* The next request, to the link of the moment.
Ask ==
  /\ task = "asks"
  /\ requested' = requested + (to - at + 1)
  /\ left' = to - at + 1
  /\ task' = IF link = "good" THEN "answered" ELSE "refused"
  /\ UNCHANGED <<link, asked, reader, got, at, to, chunk, frame, queue, consumed, failed, abandoned, after>>

\* Slips a change could make: a request that is refused is sent again, a frame is handed
\* on whatever its length, an abandoned request is read out, what was left counted twice.
RefusedAgain ==
  /\ task \in {"answered", "refused"}
  /\ task' = "asks" /\ requested' = requested - left
  /\ UNCHANGED <<link, asked, reader, got, task_vars, frame, queue, consumed, failed, abandoned, after>>

\* Not sent, or not a 206.
Refused ==
  /\ task \in {"answered", "refused"}
  /\ Fails(left)
  /\ UNCHANGED <<link, asked, reader, got, task_vars, queue, requested, consumed, abandoned, after>>

\* A 206: of just the range that was asked for (Content-Range, Content-Length), or not taken.
Answered(fits) ==
  /\ task = "answered"
  /\ IF fits THEN task' = "reads" /\ UNCHANGED <<frame, failed>> ELSE Fails(left)
  /\ UNCHANGED <<link, asked, reader, got, task_vars, queue, requested, consumed, abandoned, after>>

ChunkAny(n) ==
  /\ task = "reads"
  /\ after' = IF Open THEN after ELSE after + n
  /\ at' = at + n /\ left' = Larger(left - n, 0)
  /\ frame' = Bytes(at, at + n - 1) /\ task' = "sends"
  /\ UNCHANGED <<link, asked, reader, got, to, chunk, queue, requested, consumed, failed, abandoned>>

\* The host sends a frame of n bytes, which may be more than were asked for.
Chunk(n) ==
  /\ task = "reads"
  /\ after' = IF Open THEN after ELSE after + n
  /\ IF n > left
     THEN Fails(left) /\ UNCHANGED <<at, left>>
     ELSE /\ at' = at + n /\ left' = left - n
          /\ frame' = Bytes(at, at + n - 1) /\ task' = "sends"
          /\ UNCHANGED failed
  /\ UNCHANGED <<link, asked, reader, got, to, chunk, queue, requested, consumed, abandoned>>

\* The host ends before it has sent what it said, or the connection breaks.
Short ==
  /\ task = "reads"
  /\ Fails(left)
  /\ UNCHANGED <<link, asked, reader, got, task_vars, queue, requested, consumed, abandoned, after>>

\* The queue has room: that is what holds the host back while ffmpeg is paused.
Send ==
  /\ task = "sends" /\ Open /\ Len(queue) < Queue
  /\ queue' = Append(queue, frame) /\ frame' = None
  /\ task' = CASE frame = Error -> "done" [] frame # Error /\ left = 0 -> "seals" [] OTHER -> "reads"
  /\ UNCHANGED <<link, asked, reader, got, task_vars, counts, after>>

DrainAll ==
  /\ task = "sends" /\ ~Open
  /\ task' = "done" /\ frame' = None /\ Account
  /\ after' = IF frame # Error THEN after + left ELSE after
  /\ UNCHANGED <<link, asked, reader, got, task_vars, queue, requested, consumed, failed>>

\* The reader has gone: counted again, and a short remainder read out for the sake of
\* the connection.
Drain ==
  /\ task = "sends" /\ ~Open
  /\ task' = "done" /\ frame' = None
  /\ IF frame = Error THEN UNCHANGED abandoned ELSE Account
  /\ after' = IF frame # Error /\ left <= DrainMax THEN after + left ELSE after
  /\ UNCHANGED <<link, asked, reader, got, task_vars, queue, requested, consumed, failed>>

\* A request's last byte is sent: the host must have no more to say.
Seal(ok) ==
  /\ task = "seals"
  /\ IF ok
     THEN /\ task' = IF at <= asked.last THEN "asks" ELSE "done"
          /\ to' = Smaller(asked.last, at + Spans[Smaller(chunk + 1, Len(Spans))] - 1)
          /\ chunk' = Smaller(chunk + 1, Len(Spans))
          /\ UNCHANGED <<failed, frame>>
     ELSE Fails(0) /\ UNCHANGED <<to, chunk>>
  /\ UNCHANGED <<link, asked, reader, got, at, left, queue, requested, consumed, abandoned, after>>

\* The link stops working; the session fetches a fresh one (Door::set_upstream).
Expire ==
  /\ link = "good" /\ link' = "dead"
  /\ UNCHANGED <<asked, reader, got, task, task_vars, frame, queue, counts, after>>
SetUpstream ==
  /\ link = "dead" /\ link' = "good"
  /\ UNCHANGED <<asked, reader, got, task, task_vars, frame, queue, counts, after>>

Works ==
  \/ Ask \/ Refused \/ Short \/ Send \/ Drain
  \/ \E fits \in BOOLEAN : Answered(fits)
  \/ \E n \in 1..FrameMax : Chunk(n)
  \/ \E ok \in BOOLEAN : Seal(ok)

Next == Serve \/ Refuse \/ ReadHead \/ Recv \/ Close \/ Leave \/ Works \/ Expire \/ SetUpstream

\* The host sends, ends or runs into SOURCE_READ_IDLE; the task is polled.  ffmpeg
\* need not read on.
Spec == Init /\ [][Next]_vars
FairSpec == Spec /\ WF_vars(Works)

-----------------------------------------------------------------------------
\* ffmpeg is given just the bytes of its range, in order, with none missing over the
\* seam of head and upstream or of two requests, whatever the host answers; a body that
\* ends without an error is whole.
ServedExactly ==
  /\ Len(got) <= asked.last - asked.first + 1
  /\ \A i \in DOMAIN got : got[i] = asked.first + i - 1
  /\ reader = "ended" => Len(got) = asked.last - asked.first + 1

\* Every byte asked of the host is counted at most once as read or abandoned, and once
\* the read is over those that are neither had failed: what the metrics show as wasted
\* is what seeking away wasted.
CountedOnce ==
  /\ consumed + abandoned <= requested
  /\ ~Open /\ task = "done" => requested - consumed - abandoned <= failed

\* ffmpeg paused holds the host back: no more than the queue and a frame in hand is
\* read ahead of it; and once it went elsewhere, no more than one frame, of the next
\* request at most, and a short remainder comes.
ReadsAhead ==
  /\ Open => at - asked.first - Len(got) <= (Queue + 1) * FrameMax
  /\ after <= FrameMax + DrainMax

\* A task does not outlive its reader: when ffmpeg goes elsewhere it ends.
Ends == reader = "gone" /\ task # "none" ~> task = "done"
================================================================================
