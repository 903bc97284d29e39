----------------------------- MODULE RelaySpool -----------------------------
(***************************************************************************)
(* The spool of a relay (internal/relay/spool): a log of segment files     *)
(* with an index in memory.  A message becomes a record in the active      *)
(* segment, its deletion a tombstone in the segment active then; a segment *)
(* with no living record is removed, the others are compacted once their   *)
(* dead bytes outgrow an allowance, and a start of the relay reads the     *)
(* index back from the files.                                              *)
(*                                                                         *)
(* Every call runs under the lock of the spool.  A call is one step, but   *)
(* where a power failure in the middle leaves something else behind: the   *)
(* deletions a call makes and the segments a compaction rewrites are steps *)
(* of their own, between which only the call itself or a failure moves.    *)
(*                                                                         *)
(* The messages are one host's, numbered in the order they were created.   *)
(***************************************************************************)
EXTENDS Integers, FiniteSets, FiniteSetsExt

CONSTANTS Messages,     \* a set of naturals
          Stream,       \* of each message: "result", "report", "delta", "metric"
          MaxSegment,   \* bound: segments ever created
          SegmentBytes, \* a segment of this size takes no more frames
          MaxBytes, ReserveBytes,
          MaxInflight,
          Failures,     \* which of "write", "short", "sync", "roll" can happen
          MaxFailures   \* bound: failures of the disk

RecordBytes == 2
TombstoneBytes == 1
Segments == 1..MaxSegment
None == 0

ASSUME MessagesAssumption == IsFiniteSet(Messages) /\ Messages \subseteq Nat \ {0}
ASSUME StreamAssumption == Stream \in [Messages -> {"result", "report", "delta", "metric"}]
ASSUME SegmentAssumption == MaxSegment \in Nat

VARIABLES
    \* the disk
    files,          \* the segment files
    removed,        \* files removed whose removal the directory has not on disk yet
    frames,         \* of each segment, in order of the file but for the order itself
    loose,          \* frames of the active segment no sync has covered
    torn,           \* segments with a torn frame in the middle
    beyond,         \* of each segment, the frames after a torn one: no walk reaches them
    \* the process
    running,
    active,         \* the segment written to, or None
    jammed,         \* the handle of the active segment is closed
    where,          \* the index: the segment of a record, or None
    count,          \* the living records of a segment, as accounted
    sent,           \* the records sent and not acknowledged
    \* the call that holds the lock
    incoming,       \* the message being appended, or None
    doomed,         \* the records it still has to delete
    moving,         \* the segments a compaction has still to rewrite
    \* history
    taken,          \* the messages ever written
    kept,           \* the records Append answered for, those after a torn frame aside
    failures

disk == <<files, removed, frames, loose, torn, beyond>>
memory == <<running, active, jammed, where, count, sent>>
call == <<incoming, doomed, moving>>
vars == <<disk, memory, call, taken, kept, failures>>

Durable(m) == Stream[m] # "metric"
Priority(m) == CASE Stream[m] = "result" -> 1 [] Stream[m] = "metric" -> 3 [] OTHER -> 2

Frame == {"record", "tombstone"} \X Messages
Record(m) == <<"record", m>>
Tombstone(m) == <<"tombstone", m>>

Bytes(F) == RecordBytes * Cardinality({f \in F : f[1] = "record"})
                + TombstoneBytes * Cardinality({f \in F : f[1] = "tombstone"})

Size(s) == Bytes(frames[s]) + Bytes(beyond[s])
Disk == MapThenSumSet(Size, files)
Index == {m \in Messages : where[m] # None}
LivingIn(s) == {m \in Messages : where[m] = s}
Live == RecordBytes * Cardinality(Index)

(* roomLocked: inventory and metrics stay out of the reserve.               *)
Room(m) ==
    Live + RecordBytes <= IF Priority(m) > 1 THEN MaxBytes - ReserveBytes ELSE MaxBytes

Readable(m) == where[m] \in files /\ Record(m) \in frames[where[m]]

WaitingOf(stream) == {m \in Index \ sent : Stream[m] \in stream}

(* What of the active segment a power failure can take after a sync.        *)
SyncForgotten == loose
Synced == {}

(* The accounts of a segment that gets more living records.                 *)
Counts(s, n) == [count EXCEPT ![s] = @ + n]

Locked == incoming # None \/ doomed # {} \/ moving # {}
Idle == running /\ ~Locked

Allowance == Max({SegmentBytes, MaxBytes \div 4})
Newest == Max(files \union {None})

Init ==
    /\ files = {} /\ removed = {} /\ loose = {} /\ torn = {}
    /\ frames = [s \in Segments |-> {}] /\ beyond = frames
    /\ running = TRUE /\ active = None /\ jammed = FALSE /\ sent = {}
    /\ where = [m \in Messages |-> None] /\ count = [s \in Segments |-> 0]
    /\ incoming = None /\ doomed = {} /\ moving = {}
    /\ taken = {} /\ kept = {} /\ failures = 0

-----------------------------------------------------------------------------
(* The calls.  Each takes the lock and says what it is to write and delete. *)

(* Append: a full report first takes the place of the inventory waiting.    *)
Append(m) ==
    /\ Idle /\ m \notin taken
    /\ incoming' = m
    /\ doomed' = IF Stream[m] = "report" THEN WaitingOf({"report", "delta"}) ELSE {}
    /\ UNCHANGED <<disk, memory, moving, taken, kept, failures>>

(* Ack, AckID and Delete; ForgetUnacknowledged, record by record.           *)
Ack(m) ==
    /\ Idle /\ m \in Index
    /\ doomed' = {m}
    /\ UNCHANGED <<disk, memory, incoming, moving, taken, kept, failures>>

Precedes(m, n) == Priority(m) < Priority(n) \/ (Priority(m) = Priority(n) /\ m < n)

(* The first of the due records there is room for in flight.                *)
Batch(due, room) ==
    {m \in due : Cardinality({n \in due : Precedes(n, m)}) < room}

(* Next: what is past its expiry is cut, what is due is read and marked     *)
(* sent; a record that cannot be read is deleted.                           *)
Next_(expired, late) ==
    /\ Idle /\ Index # {}
    /\ expired \subseteq Index /\ late \subseteq sent \ expired
    /\ LET inflight == (sent \ expired) \ late
           batch == Batch(Index \ (expired \union inflight),
                          MaxInflight - Cardinality(inflight))
       IN /\ sent' = sent \union {m \in batch : Readable(m)}
          /\ doomed' = expired \union {m \in batch : ~Readable(m)}
    /\ UNCHANGED <<disk, running, active, jammed, where, count, incoming, moving,
                   taken, kept, failures>>

MarkSent(m) ==
    /\ Idle /\ m \in Index /\ sent' = sent \union {m}
    /\ UNCHANGED <<disk, running, active, jammed, where, count, call, taken, kept, failures>>

Unsend ==
    /\ Idle /\ sent # {} /\ sent' = {}
    /\ UNCHANGED <<disk, running, active, jammed, where, count, call, taken, kept, failures>>

(* flushLoop.                                                               *)
Flush ==
    /\ Idle /\ loose # {} /\ ~jammed /\ loose' = Synced
    /\ UNCHANGED <<files, removed, frames, torn, beyond, memory, call, taken, kept, failures>>

-----------------------------------------------------------------------------
(* The steps of a call.                                                     *)

ReadyToWrite == incoming # None /\ doomed = {} /\ moving = {}

(* rollLocked: before a frame the active segment has no room for, and at    *)
(* the start of a compaction.                                               *)
NeedsRoll ==
    \/ /\ moving = {}
       /\ doomed # {} \/ (incoming # None /\ Room(incoming))
       /\ active # None => Size(active) >= SegmentBytes
    \/ active \in moving

Roll ==
    /\ running /\ NeedsRoll /\ ~jammed /\ Newest < MaxSegment
    /\ LET s == Newest + 1 IN
        /\ files' = files \union {s} /\ active' = s
        /\ count' = [count EXCEPT ![s] = 0]
    /\ removed' = {} /\ loose' = Synced
    /\ frames' = [t \in Segments |-> IF t \in files THEN frames[t] ELSE {}]
    /\ beyond' = [t \in Segments |-> IF t \in files THEN beyond[t] ELSE {}]
    /\ UNCHANGED <<torn, running, jammed, where, sent, call, taken, kept, failures>>

(* A frame goes to the end of the active segment, and out of the reach of   *)
(* every reader when a torn frame is before it.                             *)
Put(F) ==
    IF active \in torn
    THEN beyond' = [beyond EXCEPT ![active] = @ \union F] /\ UNCHANGED frames
    ELSE frames' = [frames EXCEPT ![active] = @ \union F] /\ UNCHANGED beyond

Written == IF active \in torn THEN {} ELSE {Record(incoming)}

(* writeLocked, and the sync of a durable class.                            *)
Write ==
    /\ running /\ ReadyToWrite /\ Room(incoming) /\ ~NeedsRoll /\ ~jammed
    /\ Put({Record(incoming)})
    /\ where' = [where EXCEPT ![incoming] = active]
    /\ count' = Counts(active, 1)
    /\ taken' = taken \union {incoming} /\ incoming' = None
    /\ IF Durable(incoming)
       THEN \/ /\ loose' = Synced
               /\ kept' = IF active \in torn THEN kept ELSE kept \union {incoming}
               /\ UNCHANGED failures
            \/ /\ "sync" \in Failures /\ failures < MaxFailures
               /\ loose' = loose \union Written
               /\ failures' = failures + 1 /\ UNCHANGED kept
       ELSE loose' = loose \union Written /\ UNCHANGED <<kept, failures>>
    /\ UNCHANGED <<files, removed, torn, running, active, jammed, sent, doomed, moving>>

(* evictOldestMetricLocked: a metric without room sends the oldest ones     *)
(* waiting away, one at a time.                                             *)
Evict ==
    /\ running /\ ReadyToWrite /\ ~Room(incoming) /\ Stream[incoming] = "metric"
    /\ WaitingOf({"metric"}) # {} /\ doomed' = {Min(WaitingOf({"metric"}))}
    /\ UNCHANGED <<disk, memory, incoming, moving, taken, kept, failures>>

(* Append returns ErrExhausted, ErrCritical or the failure of the handle.   *)
Refuse ==
    /\ running /\ ReadyToWrite
    /\ \/ ~Room(incoming) /\ ~(Stream[incoming] = "metric" /\ WaitingOf({"metric"}) # {})
       \/ Room(incoming) /\ jammed
    /\ incoming' = None
    /\ UNCHANGED <<disk, memory, doomed, moving, taken, kept, failures>>

(* The segment the last living record of which goes, unless it is active.   *)
EmptiedEarly(m) == {s \in {where[m]} : count[s] <= 2 /\ s # active}
Emptied(m) == {s \in {where[m]} : count[s] <= 1 /\ s # active}

(* deleteLocked, up to the compaction it may start.                         *)
Delete(m) ==
    /\ running /\ moving = {} /\ m \in doomed /\ ~NeedsRoll /\ ~jammed
    /\ Put({Tombstone(m)})
    /\ loose' = IF active \in torn THEN loose ELSE loose \union {Tombstone(m)}
    /\ where' = [where EXCEPT ![m] = None]
    /\ sent' = sent \ {m} /\ kept' = kept \ {m} /\ doomed' = doomed \ {m}
    /\ count' = [count EXCEPT ![where[m]] = @ - 1]
    /\ files' = files \ Emptied(m) /\ removed' = removed \union Emptied(m)
    /\ moving' = IF Disk' - Live' > Allowance /\ Cardinality(files') >= 2
                 THEN files' ELSE {}
    /\ UNCHANGED <<torn, running, active, jammed, incoming, taken, failures>>

(* compactLocked, one segment, the oldest first: its living records are     *)
(* copied to the active segment ...                                         *)
Copies(S) ==
    /\ Put({Record(m) : m \in S})
    /\ loose' = IF active \in torn THEN loose ELSE loose \union {Record(m) : m \in S}
    /\ where' = [m \in Messages |-> IF m \in S THEN active ELSE where[m]]
    /\ count' = Counts(active, Cardinality(S))

Copy ==
    /\ running /\ moving # {} /\ active \notin moving
    /\ LivingIn(Min(moving)) # {} /\ \A m \in LivingIn(Min(moving)) : Readable(m)
    /\ Copies(LivingIn(Min(moving)))
    /\ UNCHANGED <<files, removed, torn, running, active, jammed, sent, call, taken, kept, failures>>

StillListed == moving
RestOfMoving == moving \ {Min(moving)}

(* ... and once they are synced the file goes.                              *)
Drop ==
    /\ running /\ moving # {} /\ active \notin moving /\ LivingIn(Min(moving)) = {}
    /\ loose' = Synced
    /\ files' = files \ {Min(moving)} /\ removed' = removed \union {Min(moving)}
    /\ moving' = RestOfMoving
    /\ UNCHANGED <<frames, torn, beyond, memory, incoming, doomed, taken, kept, failures>>

-----------------------------------------------------------------------------
(* What a failed write or a closed handle does to the call.                 *)

(* A metric whose room could not be made is refused; a record that could    *)
(* not be deleted stays; a compaction ends where it was.                    *)
GivesUp ==
    /\ IF moving # {} THEN moving' = {} /\ UNCHANGED doomed
       ELSE /\ UNCHANGED moving
            /\ IF doomed = {} THEN UNCHANGED doomed
               ELSE \E m \in doomed : doomed' = doomed \ {m}
    /\ incoming' = IF incoming # None
                      /\ (ReadyToWrite \/ (Stream[incoming] = "metric" /\ ~Room(incoming)))
                   THEN None ELSE incoming
    /\ UNCHANGED <<taken, kept>>

Fails(kind) ==
    /\ kind \in Failures /\ failures < MaxFailures /\ failures' = failures + 1

Writes ==
    /\ running /\ ~NeedsRoll /\ ~jammed
    /\ \/ moving # {} /\ LivingIn(Min(moving)) # {}
       \/ moving = {} /\ doomed # {}
       \/ ReadyToWrite /\ Room(incoming)

(* A write that leaves nothing, or a torn frame at the end of the segment.  *)
WriteFails ==
    /\ Writes /\ GivesUp
    /\ \/ Fails("write") /\ UNCHANGED torn
       \/ Fails("short") /\ torn' = torn \union {active}
    /\ UNCHANGED <<files, removed, frames, loose, beyond, memory>>

(* The active segment is closed and the next one is not created: the spool  *)
(* is left with a closed handle.                                            *)
RollFails ==
    /\ running /\ NeedsRoll /\ ~jammed /\ GivesUp /\ Fails("roll")
    /\ jammed' = (active # None) /\ loose' = {}
    /\ UNCHANGED <<files, removed, frames, torn, beyond, running, active, where, count, sent>>

(* A compaction stops among the records of a segment: at one it cannot      *)
(* read, or at a write or a sync that fails.                                *)
CopyFails ==
    /\ running /\ moving # {} /\ active \notin moving /\ LivingIn(Min(moving)) # {}
    /\ \E S \in SUBSET {m \in LivingIn(Min(moving)) : Readable(m)} :
        /\ Copies(S)
        /\ IF \A m \in LivingIn(Min(moving)) : Readable(m)
           THEN Fails("write") ELSE UNCHANGED failures
    /\ GivesUp
    /\ UNCHANGED <<files, removed, torn, running, active, jammed, sent>>

(* Nothing can be written through a closed handle.                          *)
JammedDelete ==
    /\ running /\ jammed /\ doomed # {} /\ moving = {} /\ GivesUp
    /\ UNCHANGED <<disk, memory, failures>>

-----------------------------------------------------------------------------
(* Restarts.                                                                *)

Stop(lost, back) ==
    /\ files' = files \union back /\ removed' = {}
    /\ frames' = [s \in Segments |->
                    IF s \in files \union back
                    THEN IF s = active THEN frames[s] \ lost ELSE frames[s] ELSE {}]
    /\ loose' = {} /\ torn' = {} /\ beyond' = [s \in Segments |-> {}]
    /\ running' = FALSE /\ active' = None /\ jammed' = FALSE /\ sent' = {}
    /\ count' = [s \in Segments |-> 0]
    /\ incoming' = None /\ doomed' = {} /\ moving' = {}
    /\ UNCHANGED <<where, taken, kept, failures>>

(* A power failure takes frames that were not synced and may bring back     *)
(* files whose removal was not; the torn tails are cut by the next start.   *)
Crash == running /\ \E lost \in SUBSET loose, back \in SUBSET removed : Stop(lost, back)

Close == Idle /\ Stop({}, {})

(* rebuild: every tombstone first, then the records, the copy in the newest *)
(* segment counting; dead segments but the newest are removed.              *)
Buried == {m \in Messages : \E s \in files : Tombstone(m) \in frames[s]}
CopiesOf(m) == {s \in files : Record(m) \in frames[s]}
Rebuilt ==
    [m \in Messages |-> IF m \in Buried \/ CopiesOf(m) = {} THEN None ELSE Max(CopiesOf(m))]

RecountedAtTheFirst ==
    [s \in Segments |-> Cardinality({m \in Messages : Rebuilt[m] # None /\ Min(CopiesOf(m)) = s})]
Recounted == [s \in Segments |-> Cardinality({m \in Messages : Rebuilt[m] = s})]

Open ==
    /\ ~running /\ running' = TRUE
    /\ where' = Rebuilt /\ count' = Recounted /\ active' = Newest
    /\ LET dead == {s \in files : Recounted[s] = 0 /\ s # Newest} IN
        files' = files \ dead /\ removed' = removed \union dead
    /\ UNCHANGED <<frames, loose, torn, beyond, jammed, sent, call, taken, kept, failures>>

Next ==
    \/ \E m \in Messages : Append(m) \/ Ack(m) \/ MarkSent(m) \/ Delete(m)
    \/ \E expired \in SUBSET Index, late \in SUBSET sent : Next_(expired, late)
    \/ Unsend \/ Flush \/ Roll \/ Write \/ Evict \/ Refuse \/ Copy \/ Drop
    \/ WriteFails \/ RollFails \/ CopyFails \/ JammedDelete \/ Crash \/ Close \/ Open

Spec == Init /\ [][Next]_vars
-----------------------------------------------------------------------------
TypeOK ==
    /\ files \subseteq Segments /\ removed \subseteq Segments /\ torn \subseteq Segments
    /\ frames \in [Segments -> SUBSET Frame] /\ beyond \in [Segments -> SUBSET Frame]
    /\ loose \subseteq Frame
    /\ running \in BOOLEAN /\ jammed \in BOOLEAN /\ active \in Segments \union {None}
    /\ where \in [Messages -> Segments \union {None}] /\ count \in [Segments -> Nat]
    /\ sent \subseteq Index /\ incoming \in Messages \union {None}
    /\ doomed \subseteq Index /\ moving \subseteq files
    /\ taken \subseteq Messages /\ kept \subseteq Messages /\ failures \in Nat

(* A record of the index can be read back from the file it names, whatever  *)
(* was rolled, removed, compacted or rebuilt since: only a record written   *)
(* after a torn frame cannot (readLocked, append).                          *)
IndexIsReadable ==
    running => \A m \in Index : Readable(m) \/ Record(m) \in beyond[where[m]]

(* A segment is never accounted fewer living records than it has, so the    *)
(* one removed for having none has none (deleteLocked, compactLocked,       *)
(* rebuild).                                                                *)
SegmentsAreCounted == running => \A s \in files : count[s] >= Cardinality(LivingIn(s))

(* The spool is the queue the relay relies on: what Append answered for is  *)
(* held until it is deleted, over crashes in the middle of any call and the *)
(* rebuilds after them.  A record written after a torn frame is the         *)
(* exception: no walk reaches it, so kept leaves it out (segment.append).   *)
Queue == INSTANCE RelayQueue WITH held <- Index
ImplementsRelayQueue == Queue!QueueSpec
=============================================================================
