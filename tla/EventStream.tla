----------------------------- MODULE EventStream -----------------------------
(***************************************************************************)
(* One session's events on their way to one web client: the broadcast      *)
(* service and its journal (packages/server/src/services/gateway), the     *)
(* server's end of the socket (packages/server/src/ws/connection.ts) and   *)
(* the client (apps/kimi-web: api/daemon/ws.ts, useKimiWebClient.ts).      *)
(*                                                                         *)
(* Durable events are numbered in the order in which they are published;   *)
(* a frame or a line carries an event's number and the position, epoch and *)
(* seq, at which the journal put it.  Connections do not touch each other, *)
(* so one client stands for any.  Scenarios bounds the rest.               *)
(***************************************************************************)
EXTENDS Integers, Sequences, FiniteSets, SequencesExt, FiniteSetsExt

CONSTANTS MaxBuffer,   \* maxBufferSize: the tail, and the most that is replayed
          Scenarios    \* how often each occasion may arise

Occasion == {"event", "drop", "crash", "tear", "writeFails", "click", "fetchFails", "volatile"}

ASSUME StreamConstants ==
  /\ MaxBuffer \in Nat \ {0}
  /\ Scenarios \subseteq [Occasion -> Nat]

VARIABLES published,  \* how many events the core has published
          waiting,    \* events queued behind the opening of the journal
          disk,       \* the journal file
          journal,    \* the SessionEventJournal of this process
          epochs,     \* epochs made so far
          tail,       \* the memory cache of the last lines
          link,       \* is the socket up
          live,       \* does the server send this connection live events
          syncs,      \* syncSessions calls under way
          toServer,   \* cursors the client has sent
          toClient,   \* frames on the way to the client
          client,     \* what the client knows
          snap,       \* its snapshot request
          left        \* the occasions still to come

server == <<published, waiting, disk, journal, epochs, tail>>
wire   == <<link, live, syncs, toServer, toClient>>
vars   == <<server, wire, client, snap, left>>

Cursor(s, e)  == [seq |-> s, epoch |-> e]
Header(e)     == [kind |-> "header", epoch |-> e, seq |-> 0, ev |-> 0]
Line(s, e, v) == [kind |-> "event", epoch |-> e, seq |-> s, ev |-> v]
Resync(s, e)  == [kind |-> "resync_required", epoch |-> e, seq |-> s, ev |-> 0]
Volatile(s, e) == [kind |-> "volatile", epoch |-> e, seq |-> s, ev |-> 0]

Position     == Cursor(journal.seq, journal.epoch)
Higher(m, n) == IF m < n THEN n ELSE m
NoCursor     == Cursor(0, 0)

Unopened == [ready |-> FALSE, epoch |-> 0, seq |-> 0, headerPending |-> FALSE,
             pendingLines |-> <<>>, writing |-> <<>>]
NoRequest == [phase |-> "idle", at |-> NoCursor, has |-> {}, again |-> FALSE]

Init ==
  /\ published = 0 /\ waiting = <<>> /\ tail = <<>> /\ epochs = 0
  /\ disk = [lines |-> <<>>, torn |-> FALSE]
  /\ journal = Unopened
  /\ link = FALSE /\ live = FALSE /\ syncs = <<>> /\ toServer = <<>> /\ toClient = <<>>
  /\ client = [loaded |-> FALSE, cursor |-> NoCursor, lastSeq |-> 0, epoch |-> 0,
               has |-> {}, base |-> NoCursor]
  /\ snap = [NoRequest EXCEPT !.phase = "asked"]
  /\ left \in Scenarios

Happens(h) == left[h] > 0 /\ left' = [left EXCEPT ![h] = @ - 1]

-----------------------------------------------------------------------------
(* The journal.                                                            *)

EventLines(f)  == {l \in Range(f.lines) : l.kind = "event"}
FirstHeader(f) == SelectInSeq(f.lines, LAMBDA l : l.kind = "header")

(* The first line written after a torn one is unreadable as well.          *)
appendFile(f, batch) ==
  IF batch = <<>> THEN f
  ELSE [lines |-> f.lines \o (IF f.torn THEN Tail(batch) ELSE batch), torn |-> FALSE]

open_trustsLastLine(f, fresh) ==
  IF FirstHeader(f) = 0
  THEN [Unopened EXCEPT !.ready = TRUE, !.epoch = fresh, !.headerPending = TRUE]
  ELSE [Unopened EXCEPT !.ready = TRUE, !.epoch = f.lines[FirstHeader(f)].epoch,
        !.seq = Cardinality(EventLines(f))]

open(f, fresh) ==
  IF FirstHeader(f) = 0
  THEN [Unopened EXCEPT !.ready = TRUE, !.epoch = fresh, !.headerPending = TRUE]
  ELSE [Unopened EXCEPT !.ready = TRUE, !.epoch = f.lines[FirstHeader(f)].epoch,
        !.seq = Max({0} \cup {l.seq : l \in EventLines(f)})]

(* Takes the queue unless a write is under way.                            *)
flushOnce(j) ==
  IF j.writing # <<>> THEN j
  ELSE [j EXCEPT !.writing = (IF j.headerPending THEN <<Header(j.epoch)>> ELSE <<>>)
                             \o j.pendingLines,
                 !.headerPending = FALSE, !.pendingLines = <<>>]

(* nextSeq and append.                                                     *)
append(j, v) ==
  flushOnce([j EXCEPT !.seq = @ + 1,
                      !.pendingLines = Append(@, Line(j.seq + 1, j.epoch, v))])

(* The events after a seq.                                                 *)
LinesSince(lines, from) ==
  LET chosen[n \in 0..Len(lines)] ==
        IF n = 0 THEN <<>>
        ELSE IF lines[n].kind = "event" /\ lines[n].seq > from
        THEN Append(chosen[n - 1], lines[n]) ELSE chosen[n - 1]
  IN  chosen[Len(lines)]

readSince(f, from) ==
  LET found == LinesSince(f.lines, from)
  IN  SubSeq(found, 1, IF Len(found) < MaxBuffer THEN Len(found) ELSE MaxBuffer)

LastOf(s) == SubSeq(s, Higher(1, Len(s) - MaxBuffer + 1), Len(s))

-----------------------------------------------------------------------------
(* The broadcast service.                                                  *)

LinesOf(j, evs) == [i \in DOMAIN evs |-> Line(j.seq + i, j.epoch, evs[i])]

(* One append after the other: the first begins a write unless one is      *)
(* under way, the others queue behind it.                                  *)
dispatchAll(j, evs) ==
  IF evs = <<>> THEN j
  ELSE LET first == append(j, evs[1])
       IN  [first EXCEPT !.seq = j.seq + Len(evs),
                         !.pendingLines = @ \o LinesOf(first, Tail(evs))]

_dispatch(j, evs) ==
  /\ journal' = dispatchAll(j, evs)
  /\ tail' = LastOf(tail \o LinesOf(j, evs))
  /\ toClient' = IF live THEN toClient \o LinesOf(j, evs) ELSE toClient

_onEvent ==
  /\ Happens("event")
  /\ published' = published + 1
  /\ IF journal.ready
     THEN _dispatch(journal, <<published + 1>>) /\ UNCHANGED waiting
     ELSE waiting' = Append(waiting, published + 1) /\ UNCHANGED <<journal, tail, toClient>>
  /\ UNCHANGED <<disk, epochs, link, live, syncs, toServer, client, snap>>

(* A delta, progress or status: sent with the seq of the last durable one. *)
_onVolatile ==
  /\ journal.ready /\ live
  /\ Happens("volatile")
  /\ toClient' = Append(toClient, Volatile(journal.seq, journal.epoch))
  /\ UNCHANGED <<server, link, live, syncs, toServer, client, snap>>

(* The file has been scanned; what waited for that is dispatched.          *)
_getOrCreateSession ==
  /\ ~journal.ready
  /\ waiting # <<>> \/ syncs # <<>> \/ snap.phase = "asked"
  /\ LET j == open(disk, epochs + 1)
     IN  _dispatch(j, waiting) /\ epochs' = Higher(epochs, j.epoch)
  /\ waiting' = <<>>
  /\ UNCHANGED <<published, disk, link, live, syncs, toServer, client, snap, left>>

Written ==
  /\ journal.writing # <<>>
  /\ \/ /\ disk' = appendFile(disk, journal.writing)
        /\ UNCHANGED left
     \/ Happens("writeFails") /\ UNCHANGED disk
  /\ journal' = [journal EXCEPT !.writing = <<>>]
  /\ UNCHANGED <<published, waiting, epochs, tail, wire, client, snap>>

-----------------------------------------------------------------------------
(* The server's end of the connection.                                     *)

(* A hello or a subscribe arrives: live events first, then the replay.     *)
syncSessions ==
  /\ toServer # <<>>
  /\ toServer' = Tail(toServer)
  /\ live' = TRUE
  /\ syncs' = Append(syncs, [cursor |-> Head(toServer), at |-> "queue"])
  /\ UNCHANGED <<server, link, toClient, client, snap, left>>

Mismatch(c) == (c.epoch # 0 /\ c.epoch # journal.epoch) \/ c.seq > journal.seq
Overflow(c) == journal.seq - c.seq > MaxBuffer

InTail(c) == tail # <<>> /\ tail[1].seq <= c.seq + 1

getBufferedSince(i) ==
  LET c == syncs[i].cursor
  IN  /\ syncs[i].at = "queue" /\ journal.ready
      /\ IF Mismatch(c) \/ Overflow(c)
         THEN /\ toClient' = Append(toClient, Resync(journal.seq, journal.epoch))
              /\ syncs' = RemoveAt(syncs, i)
         ELSE IF c.seq = journal.seq \/ InTail(c)
         THEN /\ toClient' = toClient \o LinesSince(tail, c.seq)
              /\ syncs' = RemoveAt(syncs, i)
         ELSE syncs' = [syncs EXCEPT ![i].at = "disk"] /\ UNCHANGED toClient
      /\ UNCHANGED <<server, link, live, toServer, client, snap, left>>

(* A replay from the file: flush() loops until nothing is queued.          *)
readJournal_withoutFlush(i) ==
  /\ syncs[i].at = "disk"
  /\ toClient' = toClient \o readSince(disk, syncs[i].cursor.seq)
  /\ syncs' = RemoveAt(syncs, i)
  /\ UNCHANGED <<server, link, live, toServer, client, snap, left>>

readJournal(i) ==
  /\ syncs[i].at = "disk" /\ journal.writing = <<>>
  /\ IF journal.pendingLines # <<>>
     THEN journal' = flushOnce(journal) /\ UNCHANGED <<syncs, toClient>>
     ELSE /\ toClient' = toClient \o readSince(disk, syncs[i].cursor.seq)
          /\ syncs' = RemoveAt(syncs, i)
          /\ UNCHANGED journal
  /\ UNCHANGED <<published, waiting, disk, epochs, tail, link, live, toServer, client, snap, left>>

-----------------------------------------------------------------------------
(* The client.                                                             *)

(* The cursor of a durable frame, epoch included.                          *)
trackCursor(cursor, f) ==
  IF f.kind = "volatile" \/ (f.seq <= cursor.seq /\ cursor.epoch # 0) THEN cursor
  ELSE Cursor(Higher(f.seq, cursor.seq), f.epoch)

applyEvent(c, f) ==
  [c EXCEPT !.cursor = trackCursor(@, f), !.lastSeq = Higher(@, f.seq),
            !.has = IF f.kind = "event" THEN @ \cup {f.ev} ELSE @]

(* createCoalescedAsyncRunner: one fetch at a time, one more afterwards.   *)
request(s) ==
  IF s.phase = "idle" THEN [NoRequest EXCEPT !.phase = "asked"] ELSE [s EXCEPT !.again = TRUE]

settled(s) == IF s.again THEN [NoRequest EXCEPT !.phase = "asked"] ELSE NoRequest

onResync_keepsCursor(c, f) == [c EXCEPT !.epoch = f.epoch]

onResync(c, f) ==
  [c EXCEPT !.cursor = Cursor(f.seq, f.epoch), !.base = Cursor(f.seq, f.epoch), !.epoch = f.epoch]

handleFrame ==
  /\ toClient # <<>>
  /\ toClient' = Tail(toClient)
  /\ LET f == Head(toClient)
     IN  IF f.kind = "resync_required"
         THEN client' = onResync(client, f) /\ snap' = request(snap)
         ELSE client' = applyEvent(client, f) /\ UNCHANGED snap
  /\ UNCHANGED <<server, link, live, syncs, toServer, left>>

(* The socket opens; server_hello is answered with the cursors.            *)
onServerHello ==
  /\ ~link
  /\ link' = TRUE
  /\ toServer' = IF client.loaded THEN <<client.cursor>> ELSE <<>>
  /\ client' = [client EXCEPT !.base = client.cursor]
  /\ UNCHANGED <<server, live, syncs, toClient, snap, left>>

subscribe(c, cursor) ==
  /\ client' = [c EXCEPT !.cursor = cursor]
  /\ toServer' = IF link THEN Append(toServer, cursor) ELSE toServer

(* The snapshot service looks at the position and reads the transcript.    *)
getSnapshotState ==
  /\ snap.phase = "asked" /\ journal.ready
  /\ snap' = [snap EXCEPT !.phase = "answered", !.at = Position, !.has = 1..published]
  /\ UNCHANGED <<server, wire, client, left>>

syncSessionFromSnapshot ==
  /\ snap.phase = "answered"
  /\ subscribe([client EXCEPT !.loaded = TRUE, !.has = snap.has, !.base = snap.at,
                              !.lastSeq = snap.at.seq, !.epoch = snap.at.epoch], snap.at)
  /\ snap' = settled(snap)
  /\ UNCHANGED <<server, link, live, syncs, toClient, left>>

fetchFails ==
  /\ snap.phase \in {"asked", "answered"}
  /\ Happens("fetchFails")
  /\ snap' = settled(snap)
  /\ UNCHANGED <<server, wire, client>>

(* The user clicks the session in the sidebar.                             *)
selectSession ==
  /\ Happens("click")
  /\ IF client.loaded
     THEN subscribe(client, Cursor(client.lastSeq, client.epoch)) /\ UNCHANGED snap
     ELSE snap.phase = "idle" /\ snap' = request(snap) /\ UNCHANGED <<client, toServer>>
  /\ UNCHANGED <<server, link, live, syncs, toClient>>

-----------------------------------------------------------------------------
(* What goes wrong.                                                        *)

Disconnected ==
  /\ link' = FALSE /\ live' = FALSE
  /\ syncs' = <<>> /\ toServer' = <<>> /\ toClient' = <<>>

drop ==
  /\ link
  /\ Happens("drop")
  /\ Disconnected
  /\ UNCHANGED <<server, client, snap>>

(* The process ends and another begins.  A write under way leaves whole    *)
(* lines and, perhaps, a part of the next; a shutdown may get to write the *)
(* queue as well.                                                          *)
restart ==
  /\ \/ Happens("crash") /\ disk' = appendFile(disk, journal.writing \o journal.pendingLines)
     \/ /\ Happens("crash")
        /\ \E k \in 0..Len(journal.writing) :
              disk' = appendFile(disk, SubSeq(journal.writing, 1, k))
     \/ /\ Happens("tear")
        /\ \E k \in 0..Len(journal.writing) - 1 :
              disk' = [appendFile(disk, SubSeq(journal.writing, 1, k)) EXCEPT !.torn = TRUE]
  /\ journal' = Unopened /\ tail' = <<>> /\ waiting' = <<>>
  /\ Disconnected
  /\ snap' = IF snap.phase = "asked" THEN settled(snap) ELSE snap
  /\ UNCHANGED <<published, epochs, client>>

ServerStep == _getOrCreateSession \/ Written \/ syncSessions
              \/ \E i \in DOMAIN syncs : getBufferedSince(i) \/ readJournal(i)
ClientStep == handleFrame \/ onServerHello \/ getSnapshotState \/ syncSessionFromSnapshot

Next == \/ _onEvent \/ _onVolatile \/ ServerStep \/ ClientStep
        \/ fetchFails \/ selectSession \/ drop \/ restart

(* The event loop runs what is ready, the socket delivers what it has been *)
(* given, a timer reconnects a client.                                     *)
Fairness ==
  /\ WF_vars(_getOrCreateSession) /\ WF_vars(Written) /\ WF_vars(syncSessions)
  /\ WF_vars(\E i \in DOMAIN syncs : getBufferedSince(i) \/ readJournal(i))
  /\ WF_vars(handleFrame) /\ WF_vars(onServerHello)
  /\ WF_vars(getSnapshotState) /\ WF_vars(syncSessionFromSnapshot)

Spec == Init /\ [][Next]_vars /\ Fairness

-----------------------------------------------------------------------------
(* Everything the journal holds of its epoch, on disk and on its way.      *)
Log == LET lines == disk.lines \o journal.writing \o journal.pendingLines
       IN  {l \in Range(lines) : l.kind = "event" /\ l.epoch = journal.epoch}

Quiet == /\ link /\ client.loaded /\ journal.ready /\ snap.phase = "idle"
         /\ toServer = <<>> /\ toClient = <<>> /\ syncs = <<>>

OneEpochOnDisk == \A l \in EventLines(disk) : l.epoch = journal.epoch

(* When nothing is on its way, the client has every event of the log that  *)
(* comes after the position it was last told or has last asked from, by    *)
(* the memory tail, by the file or live (connection.ts:292-350,            *)
(* wsBroadcastService.ts:120-156).                                         *)
SyncLeavesNoGap ==
  Quiet /\ client.base.epoch = journal.epoch /\ OneEpochOnDisk =>
    \A l \in Log : l.seq > client.base.seq => l.ev \in client.has


(* No seq is in the file twice for one epoch and they only grow, whatever  *)
(* a crash leaves of it (sessionEventJournal.ts:82-117, 202-226).           *)
FileIsOrdered ==
  LET f == disk.lines
  IN  \A i, j \in DOMAIN f :
         i < j /\ f[i].kind = "event" /\ f[j].kind = "event" /\ f[i].epoch = f[j].epoch =>
           f[i].seq < f[j].seq

(* However often the socket or the server goes down, a client that has     *)
(* opened the session ends at the server's position, unless the line of    *)
(* that position has not survived (ws.ts:140-150 and 277-285,              *)
(* useKimiWebClient.ts:802-815).                                           *)
LastLineKept == journal.seq > 0 => \E l \in Log : l.seq = journal.seq

ClientRecovers == <>[](client.loaded => link /\ (LastLineKept => client.cursor = Position))
=============================================================================
