-------------------------- MODULE RelaySpoolProofs --------------------------
(***************************************************************************)
(* The spool of a relay keeps what it answered for: RelaySpool implements  *)
(* RelayQueue for any messages, sizes and limits, and whatever fails.      *)
(*                                                                         *)
(* The invariant is Inv.  Most steps touch neither the files nor the index *)
(* (Rests); for them and for each of the others one lemma shows that the   *)
(* step keeps every part of Inv and is a step of the queue.                *)
(***************************************************************************)
EXTENDS RelaySpool, FiniteSetTheorems, NaturalsInduction, TLAPS

(* The type invariant in parts.                                             *)
DiskTypes ==
    /\ files \subseteq Segments /\ removed \subseteq Segments /\ torn \subseteq Segments
    /\ frames \in [Segments -> SUBSET Frame] /\ beyond \in [Segments -> SUBSET Frame]
    /\ loose \subseteq Frame

MemoryTypes ==
    /\ running \in BOOLEAN /\ jammed \in BOOLEAN /\ active \in Segments \union {None}
    /\ where \in [Messages -> Segments \union {None}] /\ count \in [Segments -> Nat]

CallTypes ==
    /\ sent \subseteq Index /\ incoming \in Messages \union {None}
    /\ doomed \subseteq Index /\ moving \subseteq files

PastTypes == taken \subseteq Messages /\ kept \subseteq Messages /\ failures \in Nat

Types == DiskTypes /\ MemoryTypes /\ CallTypes /\ PastTypes

(* The active segment is the newest file, what is not synced is in it, and  *)
(* a compaction writes to a fresh segment and reads all the others.         *)
Shape ==
    /\ running => /\ files = {} => active = None
                  /\ files # {} => active \in files /\ \A s \in files : s <= active
                  /\ loose \subseteq IF active = None THEN {} ELSE frames[active]
                  /\ torn \subseteq 1..active
    /\ ~running => loose = {} /\ torn = {} /\ ~Locked /\ sent = {}
    /\ moving # {} => /\ running /\ files = moving \union {active}
                      /\ active \notin moving => active \notin torn

(* Only what was written is on the disk, and what the spool answers for was *)
(* never deleted.                                                           *)
History ==
    /\ kept \subseteq Index /\ Index \subseteq taken /\ incoming \notin taken
    /\ \A s \in Segments, m \in Messages :
        /\ Record(m) \in frames[s] => m \in taken
        /\ Tombstone(m) \in frames[s] => m \in taken \ kept

(* The index names the newest copy of a record.                             *)
Located ==
    running => \A m \in Index :
        /\ where[m] \in files
        /\ Record(m) \in frames[where[m]] \/ Record(m) \in beyond[where[m]]
        /\ \A s \in files : Record(m) \in frames[s] => s <= where[m]

(* The older copy of a record that a power failure can take.                *)
Shadows(s) == {m \in Index : s # active /\ Record(m) \in loose /\ Record(m) \in frames[s]}

(* What the spool answers for is on the disk, in a frame that was synced.   *)
Safe ==
    \A m \in kept :
        /\ running => Record(m) \in frames[where[m]]
        /\ running /\ Record(m) \in loose => \E s \in files : m \in Shadows(s)
        /\ ~running => \E s \in files : Record(m) \in frames[s]

(* A segment is accounted for its living records and for the older copies   *)
(* that are still needed.                                                   *)
Counted == running => \A s \in files : Cardinality(LivingIn(s) \union Shadows(s)) <= count[s]

Inv == Types /\ Shape /\ History /\ Located /\ Safe /\ Counted

-----------------------------------------------------------------------------
(* The least and the greatest of a set of naturals.                         *)
LEMMA LeastOf ==
  ASSUME NEW S \in SUBSET Nat, S # {}
  PROVE  Min(S) \in S /\ \A y \in S : Min(S) <= y
<1> DEFINE R == OpToRel(<, Nat)
<1>1. \E x \in S : \A y \in S : ~(<<y, x>> \in R)
  <2>1. IsWellFoundedOn(R, Nat)
    BY NatLessThanWellFounded, Zenon
  <2> HIDE DEF R
  <2> QED
    BY <2>1, WFMin, Zenon
<1>2. PICK x \in S : \A y \in S : ~(<<y, x>> \in R)
  BY <1>1, Zenon
<1>3. ASSUME NEW y \in S PROVE x <= y
  <2>1. y < x => <<y, x>> \in R
    BY Zenon DEF OpToRel
  <2> HIDE DEF R
  <2>2. ~(y < x) /\ x \in Nat /\ y \in Nat
    BY <1>2, <2>1, Zenon
  <2> QED
    BY <2>2
<1>4. \E z \in S : \A y \in S : z <= y
  BY <1>3, Zenon
<1> QED
  BY <1>4, Zenon DEF Min

(* The greatest of a bounded set of naturals, and the sizes of sets.         *)
LEMMA GreatestOf ==
  ASSUME NEW n \in Nat, NEW S \in SUBSET (0..n), S # {}
  PROVE  Max(S) \in S /\ \A y \in S : y <= Max(S)
<1> DEFINE T == {k \in 0..n : n - k \in S}
<1>1. T \in SUBSET Nat /\ T # {}
  <2>1. PICK x \in S : TRUE
    BY Zenon
  <2>2. n - x \in 0..n /\ n - (n - x) = x
    BY <2>1
  <2>3. n - x \in T
    BY <2>2, Zenon
  <2>4. T \subseteq Nat
    OBVIOUS
  <2> QED
    BY <2>3, <2>4, Zenon
<1>2. Min(T) \in T /\ \A y \in T : Min(T) <= y
  BY <1>1, LeastOf, Zenon
<1> DEFINE g == n - Min(T)
<1>3. g \in S /\ g \in 0..n
  BY <1>2, Zenon
<1>4. ASSUME NEW y \in S PROVE y <= g
  <2>1. n - y \in T
    OBVIOUS
  <2>2. Min(T) <= n - y
    BY <1>2, <2>1, Zenon
  <2> QED
    BY <1>2, <2>2
<1>5. \E x \in S : \A y \in S : x >= y
  BY <1>3, <1>4, Zenon
<1> QED
  BY <1>5, Zenon DEF Max

(* Sets of messages, with their numbers of elements.                        *)
LEMMA MessageSets ==
  ASSUME NEW S \in SUBSET Messages
  PROVE  IsFiniteSet(S) /\ Cardinality(S) \in Nat
BY MessagesAssumption, FS_Subset, FS_CardinalityType, Zenon

LEMMA Fewer ==
  ASSUME NEW S \in SUBSET Messages, NEW T \in SUBSET S
  PROVE  Cardinality(T) <= Cardinality(S)
BY MessageSets, FS_Subset, Zenon

LEMMA Without ==
  ASSUME NEW S \in SUBSET Messages, NEW m \in S
  PROVE  Cardinality(S \ {m}) = Cardinality(S) - 1 /\ Cardinality(S) >= 1
<1>1. Cardinality(S \ {m}) = Cardinality(S) - 1
  BY MessageSets, FS_RemoveElement, Zenon
<1>2. Cardinality(S \ {m}) \in Nat /\ Cardinality(S) \in Nat
  BY MessageSets, Zenon
<1> QED
  BY <1>1, <1>2

LEMMA Joined ==
  ASSUME NEW S \in SUBSET Messages, NEW T \in SUBSET Messages
  PROVE  Cardinality(S \union T) <= Cardinality(S) + Cardinality(T)
<1>1. IsFiniteSet(S) /\ IsFiniteSet(T) /\ Cardinality(S \cap T) \in Nat
      /\ Cardinality(S) \in Nat /\ Cardinality(T) \in Nat
  BY MessageSets, Zenon
<1>2. Cardinality(S \union T) = Cardinality(S) + Cardinality(T) - Cardinality(S \cap T)
  BY <1>1, FS_Union, Zenon
<1> QED
  BY <1>1, <1>2

(* The last record of a segment is the only one the segment is needed for.  *)
LEMMA OnlyOne ==
  ASSUME NEW S \in SUBSET Messages, NEW m \in S, Cardinality(S) <= 1
  PROVE  S = {m}
<1>1. Cardinality(S \ {m}) = 0
  BY Without, MessageSets
<1>2. S \ {m} = {}
  BY <1>1, MessageSets, FS_EmptySet, Zenon
<1> QED
  BY <1>2, Zenon

LEMMA NoneIsNoSegment == None \notin Segments /\ Segments \subseteq Nat /\ None \in Nat
BY DEF None, Segments

LEMMA FramesDiffer ==
  ASSUME NEW m \in Messages, NEW n \in Messages
  PROVE  /\ Record(m) \in Frame /\ Tombstone(m) \in Frame
         /\ Record(m) # Tombstone(n)
         /\ Record(m) = Record(n) => m = n
         /\ Tombstone(m) = Tombstone(n) => m = n
BY Zenon DEF Record, Tombstone, Frame

LEMMA NoneIsNoMessage == None \notin Messages
BY MessagesAssumption, Zenon DEF None

LEMMA NewestIs ==
  ASSUME DiskTypes
  PROVE  /\ files = {} => Newest = None
         /\ files # {} => Newest \in files
         /\ Newest \in 0..MaxSegment /\ \A s \in files : s <= Newest
<1> DEFINE S == files \union {None}
<1>1. S \in SUBSET (0..MaxSegment) /\ S # {} /\ files \subseteq 1..MaxSegment
  BY SegmentAssumption DEF DiskTypes, Segments, None
<1>2. Max(S) \in S /\ \A y \in S : y <= Max(S)
  BY <1>1, GreatestOf, SegmentAssumption, Zenon
<1>3. Newest = Max(S)
  BY Zenon DEF Newest
<1> HIDE DEF S
<1>4. Newest \in 0..MaxSegment /\ Newest \in S /\ \A y \in S : y <= Newest
  BY <1>1, <1>2, <1>3, Zenon
<1>5. Newest \in files \union {None} /\ \A s \in files : s <= Newest
  BY <1>4, Zenon DEF S
<1>6. ASSUME files # {} PROVE Newest \in files
  <2>1. PICK s \in files : TRUE
    BY <1>6, Zenon
  <2>2. s \in 1..MaxSegment /\ s <= Newest
    BY <1>1, <1>5, Zenon
  <2>3. Newest # 0
    BY <1>4, <2>2, SegmentAssumption
  <2> QED
    BY <1>5, <2>3, Zenon DEF None
<1> QED
  BY <1>4, <1>5, <1>6, Zenon

LEMMA OldestIs ==
  ASSUME DiskTypes, CallTypes, moving # {}
  PROVE  Min(moving) \in moving /\ \A s \in moving : Min(moving) <= s
<1>1. moving \in SUBSET Nat
  BY NoneIsNoSegment, Zenon DEF DiskTypes, CallTypes
<1> QED
  BY <1>1, LeastOf, Zenon

(* A frame is written to a file.                                            *)
LEMMA ThereIsAnActive ==
  ASSUME DiskTypes, MemoryTypes, Shape, running,
         \/ moving = {} /\ ~NeedsRoll /\ (doomed # {} \/ (incoming # None /\ Room(incoming)))
         \/ moving # {} /\ active \notin moving
  PROVE  active \in files /\ active \in Segments
<1>1. CASE moving = {}
  <2>1. active # None
    BY <1>1, Zenon DEF NeedsRoll
  <2> QED
    BY <2>1, Zenon DEF MemoryTypes, Shape
<1>2. CASE moving # {}
  BY <1>2, Zenon DEF DiskTypes, Shape
<1> QED
  BY <1>1, <1>2, Zenon

(* What a step adds to the segments.                                        *)
Adds(F) ==
    \A s \in Segments :
        /\ frames[s] \subseteq frames'[s] /\ frames'[s] \subseteq frames[s] \union F
        /\ beyond[s] \subseteq beyond'[s]
        /\ s # active => frames'[s] = frames[s]

(* Put adds frames to the active segment, or beyond its torn end.            *)
LEMMA PutAdds ==
  ASSUME DiskTypes, active \in Segments, NEW F \in SUBSET Frame, Put(F)
  PROVE  /\ frames' \in [Segments -> SUBSET Frame] /\ beyond' \in [Segments -> SUBSET Frame]
         /\ Adds(F)
         /\ active \in torn => F \subseteq beyond'[active] /\ frames' = frames
         /\ active \notin torn => F \subseteq frames'[active] /\ beyond' = beyond
<1>1. CASE active \in torn
  <2>1. beyond' = [beyond EXCEPT ![active] = @ \union F] /\ frames' = frames
    BY <1>1, Zenon DEF Put
  <2> QED
    BY <1>1, <2>1, Zenon DEF DiskTypes, Adds
<1>2. CASE active \notin torn
  <2>1. frames' = [frames EXCEPT ![active] = @ \union F] /\ beyond' = beyond
    BY <1>2, Zenon DEF Put
  <2> QED
    BY <1>2, <2>1, Zenon DEF DiskTypes, Adds
<1> QED
  BY <1>1, <1>2, Zenon

(* A record that a step does not write again is still where the index says. *)
LEMMA StillLocated ==
  ASSUME DiskTypes, Located, running, NEW F, Adds(F), NEW n \in Index, Record(n) \notin F,
         files' \subseteq files, where[n] \in files'
  PROVE  /\ Record(n) \in frames'[where[n]] \/ Record(n) \in beyond'[where[n]]
         /\ \A s \in files' : Record(n) \in frames'[s] => s <= where[n]
<1>1. files \subseteq Segments
  BY Zenon DEF DiskTypes
<1>2. /\ Record(n) \in frames[where[n]] \/ Record(n) \in beyond[where[n]]
      /\ \A s \in files : Record(n) \in frames[s] => s <= where[n]
  BY Zenon DEF Located
<1> QED
  BY <1>1, <1>2, Zenon DEF Adds

(* A record that was safe from a power failure still is.                    *)
LEMMA StillShadowed ==
  ASSUME DiskTypes, Safe, running, NEW F, Adds(F), active' = active,
         NEW n \in kept, n \in Index', Record(n) \in loose, Record(n) \in loose',
         \A s \in files : n \in Shadows(s) => s \in files'
  PROVE  \E s \in files' : n \in Shadows(s)'
<1>1. PICK s \in files : n \in Shadows(s)
  BY Zenon DEF Safe
<1>2. s \in Segments /\ s # active /\ Record(n) \in frames[s] /\ s \in files'
  BY <1>1, Zenon DEF DiskTypes, Shadows
<1>3. Record(n) \in frames'[s]
  BY <1>2, Zenon DEF Adds
<1>4. n \in Shadows(s)'
  BY <1>2, <1>3, Zenon DEF Shadows
<1> QED
  BY <1>2, <1>4, Zenon

(* The account of a segment that is needed for no more records than before. *)
LEMMA StillCounted ==
  ASSUME MemoryTypes, Counted, running, NEW s \in files, s \in Segments,
         NEW T \in SUBSET (LivingIn(s) \union Shadows(s))
  PROVE  Cardinality(T) <= count[s]
<1> DEFINE H == LivingIn(s) \union Shadows(s)
<1>1. H \in SUBSET Messages /\ T \in SUBSET H
  BY Zenon DEF LivingIn, Shadows, Index
<1>2. Cardinality(H) <= count[s]
  BY Zenon DEF Counted
<1> HIDE DEF H
<1>3. Cardinality(T) <= Cardinality(H)
  BY <1>1, Fewer, Zenon
<1>4. Cardinality(T) \in Nat /\ Cardinality(H) \in Nat /\ count[s] \in Nat
  BY <1>1, MessageSets, Zenon DEF MemoryTypes
<1> QED
  BY <1>2, <1>3, <1>4

(* The account of the active segment, which takes the records of S.         *)
LEMMA CountedAsWritten ==
  ASSUME MemoryTypes, Counted, running, NEW s \in files, s \in Segments, s = active, active' = active,
         NEW S \in SUBSET Messages, LivingIn(s)' \subseteq LivingIn(s) \union S,
         count' = [count EXCEPT ![s] = @ + Cardinality(S)]
  PROVE  Cardinality(LivingIn(s)' \union Shadows(s)') <= count'[s]
<1> DEFINE L == LivingIn(s)
           T == LivingIn(s)' \union Shadows(s)'
<1>1. L \in SUBSET Messages /\ L \union S \in SUBSET Messages
  BY Zenon DEF LivingIn
<1>2. Shadows(s)' = {}
  BY Zenon DEF Shadows
<1>3. T \in SUBSET (L \union S)
  BY <1>2, Zenon
<1>4. Cardinality(L) <= count[s]
  BY StillCounted, Zenon
<1>5. count[s] \in Nat /\ count'[s] = count[s] + Cardinality(S)
  BY Zenon DEF MemoryTypes
<1> HIDE DEF L, T
<1>6. T \in SUBSET Messages
  BY <1>1, <1>3, Zenon
<1>7. /\ Cardinality(T) <= Cardinality(L \union S)
      /\ Cardinality(L \union S) <= Cardinality(L) + Cardinality(S)
  BY <1>1, <1>3, Fewer, Joined, Zenon
<1>8. /\ Cardinality(T) \in Nat /\ Cardinality(L) \in Nat /\ Cardinality(S) \in Nat
      /\ Cardinality(L \union S) \in Nat
  BY <1>1, <1>6, MessageSets, Zenon
<1>9. Cardinality(T) <= count'[s]
  BY <1>4, <1>5, <1>7, <1>8
<1> QED
  BY <1>9, Zenon DEF T

(* What a rebuild finds.                                                    *)
LEMMA RebuildFinds ==
  ASSUME DiskTypes
  PROVE  /\ Rebuilt \in [Messages -> Segments \union {None}]
         /\ Recounted \in [Segments -> Nat]
         /\ \A m \in Messages : Rebuilt[m] = None <=> m \in Buried \/ CopiesOf(m) = {}
         /\ \A m \in Messages : Rebuilt[m] # None =>
                /\ Rebuilt[m] \in files /\ Record(m) \in frames[Rebuilt[m]]
                /\ \A s \in files : Record(m) \in frames[s] => s <= Rebuilt[m]
<1>1. ASSUME NEW m \in Messages, CopiesOf(m) # {}
      PROVE  Max(CopiesOf(m)) \in CopiesOf(m) /\ \A s \in CopiesOf(m) : s <= Max(CopiesOf(m))
  <2>1. CopiesOf(m) \subseteq files /\ files \subseteq 1..MaxSegment
    BY Zenon DEF CopiesOf, DiskTypes, Segments
  <2>2. 1..MaxSegment \subseteq 0..MaxSegment
    BY SegmentAssumption
  <2>3. CopiesOf(m) \in SUBSET (0..MaxSegment)
    BY <2>1, <2>2, Zenon
  <2> QED
    BY <1>1, <2>3, GreatestOf, SegmentAssumption, Zenon
<1>2. ASSUME NEW m \in Messages
      PROVE  CopiesOf(m) \subseteq files /\ \A s \in files : s \in CopiesOf(m) <=> Record(m) \in frames[s]
  BY Zenon DEF CopiesOf
<1>3. files \subseteq Segments
  BY Zenon DEF DiskTypes
<1>4. \A m \in Messages : Rebuilt[m] =
        IF m \in Buried \/ CopiesOf(m) = {} THEN None ELSE Max(CopiesOf(m))
  BY Zenon DEF Rebuilt
<1>5. Rebuilt \in [Messages -> Segments \union {None}]
  <2>1. \A m \in Messages : Rebuilt[m] \in Segments \union {None}
    BY <1>1, <1>2, <1>3, <1>4, Zenon
  <2> QED
    BY <2>1, Zenon DEF Rebuilt
<1>6. Recounted \in [Segments -> Nat]
  <2>1. \A s \in Segments : Cardinality({m \in Messages : Rebuilt[m] = s}) \in Nat
    BY MessageSets, Zenon
  <2> QED
    BY <2>1, Zenon DEF Recounted
<1>7. ASSUME NEW m \in Messages, ~(m \in Buried \/ CopiesOf(m) = {})
      PROVE  /\ Rebuilt[m] \in CopiesOf(m)
             /\ Rebuilt[m] # None
             /\ \A s \in CopiesOf(m) : s <= Rebuilt[m]
  BY <1>1, <1>2, <1>3, <1>4, <1>7, NoneIsNoSegment
<1>8. ASSUME NEW m \in Messages PROVE Rebuilt[m] = None <=> m \in Buried \/ CopiesOf(m) = {}
  BY <1>4, <1>7, Zenon
<1> QED
  BY <1>2, <1>5, <1>6, <1>7, <1>8, Zenon

-----------------------------------------------------------------------------
(* A step that touches neither the files nor the index: most calls, and the *)
(* ends of those that fail.                                                 *)
Rests ==
    /\ running /\ running' /\ jammed' \in BOOLEAN /\ failures' \in Nat
    /\ UNCHANGED <<files, removed, frames, beyond, active, where, count, taken, kept>>
    /\ loose' = loose \/ loose' = {}
    /\ torn' = torn \/ (torn' = torn \union {active} /\ active \in Segments /\ moving' = {})
    /\ sent' \subseteq Index /\ doomed' \subseteq Index /\ (moving' = moving \/ moving' = {})
    /\ incoming' = incoming \/ incoming' = None \/ (incoming' \in Messages /\ incoming' \notin taken)

(* A call that gives up leaves the disk and the index alone.                 *)
LEMMA GivingUp ==
  ASSUME CallTypes, GivesUp
  PROVE  /\ doomed' \subseteq Index /\ (moving' = moving \/ moving' = {})
         /\ incoming' = incoming \/ incoming' = None
         /\ UNCHANGED <<taken, kept>>
         /\ moving # {} => moving' = {}
BY Zenon DEF CallTypes, GivesUp

(* Calls that only begin,                                                    *)
LEMMA CallsRest ==
  ASSUME Types, NEW m \in Messages, Append(m) \/ Ack(m) \/ MarkSent(m)
  PROVE  Rests
<1>1. CASE Append(m)
  <2>1. WaitingOf({"report", "delta"}) \subseteq Index
    BY Zenon DEF WaitingOf
  <2> QED
    BY <1>1, <2>1, Zenon DEF Append, Idle, Rests, Types, MemoryTypes, CallTypes, PastTypes, disk,
           memory
<1>2. CASE Ack(m)
  BY <1>2, Zenon DEF Ack, Idle, Rests, Types, MemoryTypes, CallTypes, PastTypes, disk, memory
<1>3. CASE MarkSent(m)
  BY <1>3, Zenon DEF MarkSent, Idle, Rests, Types, MemoryTypes, CallTypes, PastTypes, disk, call
<1> QED
  BY <1>1, <1>2, <1>3, Zenon

(* the bookkeeping of what was sent,                                         *)
LEMMA SendingRests ==
  ASSUME Types,
         Unsend \/ Flush \/ \E expired \in SUBSET Index, late \in SUBSET sent : Next_(expired, late)
  PROVE  Rests
<1>1. ASSUME NEW expired \in SUBSET Index, NEW late \in SUBSET sent, Next_(expired, late)
      PROVE  Rests
  <2> DEFINE inflight == (sent \ expired) \ late
             batch == Batch(Index \ (expired \union inflight),
                            MaxInflight - Cardinality(inflight))
  <2>1. batch \subseteq Index
    BY Zenon DEF Batch
  <2>2. /\ sent' = sent \union {m \in batch : Readable(m)}
        /\ doomed' = expired \union {m \in batch : ~Readable(m)}
    BY <1>1, Zenon DEF Next_
  <2> HIDE DEF batch
  <2>3. sent' \subseteq Index /\ doomed' \subseteq Index
    BY <2>1, <2>2, Zenon DEF Types, CallTypes
  <2>4. /\ running /\ UNCHANGED <<disk, running, active, jammed, where, count, incoming, moving,
                                  taken, kept, failures>>
    BY <1>1, Zenon DEF Next_, Idle
  <2> QED
    BY <2>3, <2>4, Zenon DEF Rests, Types, MemoryTypes, PastTypes, disk
<1>2. CASE Unsend
  BY <1>2, Zenon DEF Unsend, Idle, Rests, Types, MemoryTypes, CallTypes, PastTypes, disk, call
<1>3. CASE Flush
  BY <1>3, Zenon DEF Flush, Idle, Synced, Rests, Types, MemoryTypes, CallTypes, PastTypes, memory,
         call
<1> QED
  BY <1>1, <1>2, <1>3, Zenon

(* and refusals are at rest.                                                 *)
LEMMA RefusalsRest ==
  ASSUME Types, Shape, Evict \/ Refuse \/ WriteFails \/ RollFails \/ JammedDelete
  PROVE  Rests
<1>1. CASE Evict
  <2>1. WaitingOf({"metric"}) \in SUBSET Nat /\ WaitingOf({"metric"}) \subseteq Index
    BY MessagesAssumption, Zenon DEF WaitingOf, Index
  <2>2. Min(WaitingOf({"metric"})) \in WaitingOf({"metric"})
    BY <1>1, <2>1, LeastOf, Zenon DEF Evict
  <2>3. running /\ doomed' \subseteq Index /\ UNCHANGED <<disk, memory, incoming, moving, taken, kept, failures>>
    BY <1>1, <2>1, <2>2, Zenon DEF Evict
  <2> QED
    BY <2>3, Zenon DEF Rests, Types, MemoryTypes, CallTypes, PastTypes, disk, memory
<1>2. CASE Refuse
  BY <1>2, Zenon DEF Refuse, Rests, Types, MemoryTypes, CallTypes, PastTypes, disk, memory
<1>3. CASE WriteFails
  <2>1. active \in Segments
    BY <1>3, ThereIsAnActive, Zenon DEF WriteFails, Writes, ReadyToWrite, NeedsRoll, Types
  <2>2. /\ running /\ GivesUp /\ failures' = failures + 1
        /\ torn' = torn \/ torn' = torn \union {active}
        /\ UNCHANGED <<files, removed, frames, loose, beyond, memory>>
    BY <1>3, Zenon DEF WriteFails, Writes, Fails
  <2>3. moving' = {}
    BY <2>2, Zenon DEF GivesUp
  <2> QED
    BY <2>1, <2>2, <2>3, GivingUp DEF Rests, Types, MemoryTypes, CallTypes, PastTypes, memory
<1>4. CASE RollFails
  <2>1. /\ running /\ GivesUp /\ failures' = failures + 1 /\ loose' = {} /\ jammed' \in BOOLEAN
        /\ UNCHANGED <<files, removed, frames, torn, beyond, running, active, where, count, sent>>
    BY <1>4, Zenon DEF RollFails, Fails
  <2> QED
    BY <2>1, GivingUp DEF Rests, Types, CallTypes, PastTypes
<1>5. CASE JammedDelete
  <2>1. running /\ GivesUp /\ UNCHANGED <<disk, memory, failures>>
    BY <1>5, Zenon DEF JammedDelete
  <2> QED
    BY <2>1, GivingUp, Zenon DEF Rests, Types, MemoryTypes, CallTypes, PastTypes, disk, memory
<1> QED
  BY <1>1, <1>2, <1>3, <1>4, <1>5, Zenon

(* The index and the records of the segments do not change with it.         *)
LEMMA SameIndex ==
  ASSUME where' = where
  PROVE  Index' = Index /\ \A s : LivingIn(s)' = LivingIn(s)
BY Zenon DEF Index, LivingIn

(* A step at rest keeps the invariant and leaves the queue alone.            *)
LEMMA RestKeeps ==
  ASSUME Inv, Rests
  PROVE  Inv' /\ UNCHANGED Queue!rqVars
<1>1. Index' = Index /\ \A s : LivingIn(s)' = LivingIn(s)
  BY SameIndex, Zenon DEF Rests
<1>2. Types'
  <2>1. DiskTypes' /\ MemoryTypes'
    BY Zenon DEF Rests, Inv, Types, DiskTypes, MemoryTypes
  <2>2. CallTypes' /\ PastTypes'
    BY <1>1, Zenon DEF Rests, Inv, Types, CallTypes, PastTypes
  <2> QED
    BY <2>1, <2>2, Zenon DEF Types
<1>3. Shape'
  <2>1. torn' \subseteq 1..active
    <3>1. active \in Segments => active \in 1..active
      BY DEF Segments
    <3> QED
      BY <3>1, Zenon DEF Rests, Inv, Shape
  <2> QED
    BY <2>1, Zenon DEF Rests, Inv, Shape
<1>4. History'
  BY <1>1, NoneIsNoMessage, Zenon DEF Rests, Inv, Types, PastTypes, History
<1>5. Located'
  BY <1>1, Zenon DEF Rests, Inv, Located
<1>6. Safe'
  <2>1. ASSUME loose' = loose, NEW s PROVE Shadows(s)' = Shadows(s)
    BY <1>1, <2>1, Zenon DEF Rests, Shadows
  <2> QED
    BY <2>1, Zenon DEF Rests, Inv, Safe
<1>7. Counted'
  <2>1. ASSUME NEW s \in files PROVE Cardinality(LivingIn(s)' \union Shadows(s)') <= count[s]
    <3>1. LivingIn(s)' \union Shadows(s)' \subseteq LivingIn(s) \union Shadows(s)
      BY <1>1, Zenon DEF Rests, Shadows
    <3>2. s \in Segments
      BY Zenon DEF Inv, Types, DiskTypes
    <3> QED
      BY <3>1, <3>2, StillCounted, Zenon DEF Rests, Inv, Types
  <2> QED
    BY <2>1, Zenon DEF Rests, Counted
<1>8. UNCHANGED Queue!rqVars
  BY <1>1, Zenon DEF Rests, Queue!rqVars
<1> QED
  BY <1>2, <1>3, <1>4, <1>5, <1>6, <1>7, <1>8, Zenon DEF Inv

(* A roll opens an empty segment, the newest of all.                        *)
LEMMA RollAdds ==
  ASSUME DiskTypes, Roll
  PROVE  /\ frames' \in [Segments -> SUBSET Frame] /\ beyond' \in [Segments -> SUBSET Frame]
         /\ active' \in Segments /\ active' \notin files /\ files' = files \union {active'}
         /\ \A s \in files : s < active'
         /\ frames'[active'] = {}
         /\ \A s \in Segments : frames'[s] \subseteq frames[s]
         /\ \A s \in files : frames'[s] = frames[s] /\ beyond'[s] = beyond[s]
<1>1. Newest \in Nat /\ Newest < MaxSegment /\ \A s \in files : s <= Newest
  BY NewestIs, SegmentAssumption DEF Roll
<1>2. active' = Newest + 1 /\ files' = files \union {active'}
  BY Zenon DEF Roll
<1>3. active' \in Segments
  BY <1>1, <1>2, SegmentAssumption DEF Segments
<1>4. \A s \in files : s < active' /\ s \in Segments
  BY <1>1, <1>2, NoneIsNoSegment DEF DiskTypes
<1>5. active' \notin files
  BY <1>3, <1>4, NoneIsNoSegment
<1>6. /\ frames' = [t \in Segments |-> IF t \in files THEN frames[t] ELSE {}]
      /\ beyond' = [t \in Segments |-> IF t \in files THEN beyond[t] ELSE {}]
  BY Zenon DEF Roll
<1>7. frames' \in [Segments -> SUBSET Frame] /\ beyond' \in [Segments -> SUBSET Frame]
  BY <1>6, Zenon DEF DiskTypes
<1> QED
  BY <1>2, <1>3, <1>4, <1>5, <1>6, <1>7, Zenon

(* What the spool answers for is where the index says.                      *)
LEMMA KeptIsThere ==
  ASSUME History, Located, Safe, running, NEW n \in kept
  PROVE  n \in Index /\ n \in Messages /\ where[n] \in files /\ Record(n) \in frames[where[n]]
BY Zenon DEF History, Located, Safe, Index

(* A new segment is the newest and empty.                                    *)
LEMMA RollKeeps ==
  ASSUME Inv, Roll
  PROVE  Inv' /\ UNCHANGED Queue!rqVars
<1> USE DEF Inv
<1>1. /\ frames' \in [Segments -> SUBSET Frame] /\ beyond' \in [Segments -> SUBSET Frame]
      /\ active' \in Segments /\ active' \notin files /\ files' = files \union {active'}
      /\ \A s \in files : s < active'
      /\ frames'[active'] = {}
      /\ \A s \in Segments : frames'[s] \subseteq frames[s]
      /\ \A s \in files : frames'[s] = frames[s] /\ beyond'[s] = beyond[s]
  BY RollAdds, Zenon DEF Types
<1>2. /\ running /\ running' /\ loose' = {} /\ removed' = {} /\ count' = [count EXCEPT ![active'] = 0]
      /\ UNCHANGED <<torn, jammed, where, sent, incoming, doomed, moving, taken, kept, failures>>
  BY Zenon DEF Roll, Synced, call
<1>3. Index' = Index /\ \A s : LivingIn(s)' = LivingIn(s)
  BY <1>2, SameIndex, Zenon
<1>4. files \subseteq Segments /\ active \in Nat /\ active' \in Nat
  BY <1>1, NoneIsNoSegment, Zenon DEF Types, DiskTypes, MemoryTypes
<1>5. Types'
  <2>1. DiskTypes' /\ MemoryTypes'
    BY <1>1, <1>2, Zenon DEF Types, DiskTypes, MemoryTypes
  <2>2. CallTypes' /\ PastTypes'
    BY <1>1, <1>2, <1>3, Zenon DEF Types, CallTypes, PastTypes
  <2> QED
    BY <2>1, <2>2, Zenon DEF Types
<1>6. Shape'
  <2>1. active < active'
    <3>1. CASE files = {}
      <4>1. active = 0 /\ active' # 0
        BY <1>1, <1>2, <3>1, NoneIsNoSegment DEF Shape, None
      <4> QED
        BY <1>4, <4>1
    <3>2. CASE files # {}
      BY <1>1, <1>2, <3>2, Zenon DEF Shape
    <3> QED
      BY <3>1, <3>2, Zenon
  <2>2. torn \subseteq 1..active' /\ active' \notin torn
    <3>1. torn \subseteq 1..active
      BY <1>2, Zenon DEF Shape
    <3> QED
      BY <1>4, <2>1, <3>1
  <2>3. \A s \in files' : s <= active'
    BY <1>1, <1>4, NoneIsNoSegment
  <2>4. ASSUME moving # {} PROVE files' = moving \union {active'}
    <3>1. files = moving \union {active} /\ active \in moving
      BY <2>4, Zenon DEF Shape, Roll, NeedsRoll
    <3> QED
      BY <1>1, <3>1, Zenon
  <2> QED
    BY <1>1, <1>2, <2>2, <2>3, <2>4 DEF Shape
<1>7. History'
  BY <1>1, <1>2, <1>3, Zenon DEF History
<1>8. Located'
  <2>1. ASSUME NEW n \in Index
        PROVE  /\ where[n] \in files'
               /\ Record(n) \in frames'[where[n]] \/ Record(n) \in beyond'[where[n]]
               /\ \A s \in files' : Record(n) \in frames'[s] => s <= where[n]
    BY <1>1, <1>2, Zenon DEF Located
  <2> QED
    BY <1>2, <1>3, <2>1, Zenon DEF Located
<1>9. Safe'
  <2>1. \A n \in kept : Record(n) \in frames'[where[n]]
    BY <1>1, <1>2, KeptIsThere, Zenon
  <2> QED
    BY <1>2, <2>1, Zenon DEF Safe
<1>10. Counted'
  <2>1. ASSUME NEW s \in files PROVE Cardinality(LivingIn(s)' \union Shadows(s)') <= count'[s]
    <3>1. LivingIn(s)' \union Shadows(s)' \subseteq LivingIn(s) \union Shadows(s)
      BY <1>2, <1>3, Zenon DEF Shadows
    <3>2. s \in Segments /\ count'[s] = count[s]
      BY <1>1, <1>2, <1>4, Zenon DEF Types, MemoryTypes
    <3> QED
      BY <1>2, <3>1, <3>2, StillCounted, Zenon DEF Types
  <2>2. ASSUME NEW s, s = active' PROVE Cardinality(LivingIn(s)' \union Shadows(s)') <= count'[s]
    <3>1. LivingIn(s) = {}
      BY <1>1, <1>2, <2>2, NoneIsNoSegment DEF LivingIn, Located, Index
    <3>2. LivingIn(s)' \union Shadows(s)' = {}
      BY <1>2, <1>3, <3>1, Zenon DEF Shadows
    <3>3. count'[s] = 0
      BY <1>1, <1>2, <2>2, Zenon DEF Types, MemoryTypes
    <3>4. Cardinality({}) = 0
      BY FS_EmptySet, Zenon
    <3> QED
      BY <3>2, <3>3, <3>4
  <2> QED
    BY <1>1, <2>1, <2>2, Zenon DEF Counted
<1>11. UNCHANGED Queue!rqVars
  BY <1>2, <1>3, Zenon DEF Queue!rqVars
<1> QED
  BY <1>5, <1>6, <1>7, <1>8, <1>9, <1>10, <1>11, Zenon

(* A compaction removes a segment only when its copies are synced.           *)
LEMMA DropKeeps ==
  ASSUME Inv, Drop
  PROVE  Inv' /\ UNCHANGED Queue!rqVars
<1> USE DEF Inv
<1>1. /\ running /\ running' /\ loose' = {} /\ moving # {} /\ active \notin moving
      /\ removed' = removed \union {Min(moving)}
      /\ files' = files \ {Min(moving)} /\ moving' = moving \ {Min(moving)} /\ LivingIn(Min(moving)) = {}
      /\ UNCHANGED <<frames, torn, beyond, active, jammed, where, count, sent, incoming, doomed,
                     taken, kept, failures>>
  BY Zenon DEF Drop, Synced, RestOfMoving, memory
<1>2. Min(moving) \in moving /\ Min(moving) \in files /\ Min(moving) # active
  BY <1>1, OldestIs, Zenon DEF Types, CallTypes
<1>3. Index' = Index /\ \A s : LivingIn(s)' = LivingIn(s)
  BY <1>1, SameIndex, Zenon
<1>4. Types'
  <2>1. DiskTypes' /\ MemoryTypes'
    BY <1>1, <1>2, Zenon DEF Types, DiskTypes, MemoryTypes
  <2>2. CallTypes' /\ PastTypes'
    BY <1>1, <1>2, <1>3, Zenon DEF Types, CallTypes, PastTypes
  <2> QED
    BY <2>1, <2>2, Zenon DEF Types
<1>5. Shape'
  <2>1. files = moving \union {active} /\ active \in files
    BY <1>1, Zenon DEF Shape
  <2> QED
    BY <1>1, <1>2, <2>1, Zenon DEF Shape
<1>6. History'
  BY <1>1, <1>3, Zenon DEF History
<1>7. Located'
  <2>1. \A n \in Index : where[n] \in files'
    BY <1>1, Zenon DEF LivingIn, Index, Located
  <2> QED
    BY <1>1, <1>3, <2>1, Zenon DEF Located
<1>8. Safe'
  BY <1>1, Zenon DEF Safe
<1>9. Counted'
  <2>1. ASSUME NEW s \in files' PROVE Cardinality(LivingIn(s)' \union Shadows(s)') <= count[s]
    <3>1. LivingIn(s)' \union Shadows(s)' \subseteq LivingIn(s) \union Shadows(s)
      BY <1>1, <1>3, Zenon DEF Shadows
    <3>2. s \in files /\ s \in Segments
      BY <1>1, Zenon DEF Types, DiskTypes
    <3> QED
      BY <1>1, <3>1, <3>2, StillCounted, Zenon DEF Types
  <2> QED
    BY <1>1, <2>1, Zenon DEF Counted
<1>10. UNCHANGED Queue!rqVars
  BY <1>1, <1>3, Zenon DEF Queue!rqVars
<1> QED
  BY <1>4, <1>5, <1>6, <1>7, <1>8, <1>9, <1>10, Zenon

(* A stop takes at most what was not synced, and brings removed files back. *)
LEMMA StopKeeps ==
  ASSUME Inv, running, NEW lost \in SUBSET loose, NEW back \in SUBSET removed, Stop(lost, back)
  PROVE  Inv' /\ UNCHANGED Queue!rqVars
<1> USE DEF Inv
<1>1. /\ files' = files \union back /\ removed' = {} /\ loose' = {} /\ torn' = {}
      /\ beyond' = [s \in Segments |-> {}] /\ count' = [s \in Segments |-> 0]
      /\ ~running' /\ running' = FALSE /\ active' = None /\ jammed' = FALSE /\ sent' = {}
      /\ incoming' = None /\ doomed' = {} /\ moving' = {} /\ failures' = failures
      /\ UNCHANGED <<where, taken, kept>>
  BY Zenon DEF Stop
<1>2. frames' = [s \in Segments |->
                    IF s \in files \union back
                    THEN IF s = active THEN frames[s] \ lost ELSE frames[s] ELSE {}]
  BY Zenon DEF Stop
<1>3. files \subseteq Segments /\ back \subseteq Segments /\ frames \in [Segments -> SUBSET Frame]
  BY Zenon DEF Types, DiskTypes
<1>4. /\ frames' \in [Segments -> SUBSET Frame]
      /\ \A s \in Segments : frames'[s] \subseteq frames[s]
      /\ \A s \in files : s # active => frames'[s] = frames[s]
      /\ \A s \in files : frames[s] \ lost \subseteq frames'[s]
  BY <1>2, <1>3, Zenon
<1>5. Index' = Index
  BY <1>1, SameIndex, Zenon
<1>6. Types'
  <2>1. DiskTypes' /\ MemoryTypes'
    BY <1>1, <1>3, <1>4, Zenon DEF Types, DiskTypes, MemoryTypes
  <2>2. CallTypes' /\ PastTypes'
    BY <1>1, <1>5 DEF Types, CallTypes, PastTypes
  <2> QED
    BY <2>1, <2>2, Zenon DEF Types
<1>7. Shape'
  BY <1>1, Zenon DEF Shape, Locked
<1>8. History'
  BY <1>1, <1>4, <1>5, NoneIsNoMessage, Zenon DEF History, Types, PastTypes
<1>9. Safe'
  <2>1. ASSUME NEW n \in kept PROVE \E s \in files : Record(n) \in frames'[s]
    <3>1. where[n] \in files /\ Record(n) \in frames[where[n]]
      BY KeptIsThere, Zenon
    <3>2. CASE Record(n) \in loose
      <4>1. PICK s \in files : n \in Shadows(s)
        BY <3>2, Zenon DEF Safe
      <4>2. s # active /\ Record(n) \in frames[s]
        BY <4>1, Zenon DEF Shadows
      <4> QED
        BY <1>4, <4>2, Zenon
    <3>3. CASE Record(n) \notin loose
      BY <1>4, <3>1, <3>3, Zenon
    <3> QED
      BY <3>2, <3>3, Zenon
  <2> QED
    BY <1>1, <2>1, Zenon DEF Safe
<1>10. Located' /\ Counted'
  BY <1>1, Zenon DEF Located, Counted
<1>11. UNCHANGED Queue!rqVars
  BY <1>1, <1>5, Zenon DEF Queue!rqVars
<1> QED
  BY <1>6, <1>7, <1>8, <1>9, <1>10, <1>11, Zenon

(* A rebuild finds what the spool answers for.                               *)
LEMMA OpenKeeps ==
  ASSUME Inv, Open
  PROVE  Inv' /\ Queue!QueueNext
<1> USE DEF Inv
<1>1. /\ ~running /\ running' /\ running' = TRUE /\ where' = Rebuilt /\ count' = Recounted /\ active' = Newest
      /\ files' = files \ {s \in files : Recounted[s] = 0 /\ s # Newest}
      /\ removed' = removed \union {s \in files : Recounted[s] = 0 /\ s # Newest}
      /\ UNCHANGED <<frames, loose, torn, beyond, jammed, sent, incoming, doomed, moving, taken, kept, failures>>
  BY Zenon DEF Open, call
<1>2. loose = {} /\ torn = {} /\ incoming = None /\ doomed = {} /\ moving = {} /\ sent = {}
  BY <1>1, Zenon DEF Shape, Locked
<1>3. /\ Rebuilt \in [Messages -> Segments \union {None}] /\ Recounted \in [Segments -> Nat]
      /\ \A m \in Messages : Rebuilt[m] = None <=> m \in Buried \/ CopiesOf(m) = {}
      /\ \A m \in Messages : Rebuilt[m] # None =>
            /\ Rebuilt[m] \in files /\ Record(m) \in frames[Rebuilt[m]]
            /\ \A s \in files : Record(m) \in frames[s] => s <= Rebuilt[m]
  BY RebuildFinds, Zenon DEF Types
<1>4. files' \subseteq files /\ files \subseteq Segments
  BY <1>1, Zenon DEF Types, DiskTypes
<1>5. /\ files = {} => Newest = None
      /\ files # {} => Newest \in files
      /\ \A s \in files : s <= Newest
  BY NewestIs, Zenon DEF Types
<1>6. \A m \in Messages : m \in Index' <=> Rebuilt[m] # None
  BY <1>1, Zenon DEF Index
<1>7. Index' \subseteq Messages
  BY Zenon DEF Index
<1>8. ASSUME NEW n \in kept PROVE n \in Index' /\ Record(n) \in frames[Rebuilt[n]]
  <2>1. n \in Messages /\ n \notin Buried /\ CopiesOf(n) # {}
    BY <1>1, Zenon DEF Safe, Types, PastTypes, DiskTypes, History, Buried, CopiesOf
  <2> QED
    BY <1>3, <1>6, <2>1, Zenon
<1>9. ASSUME NEW n \in Index' PROVE n \in taken
  BY <1>3, <1>4, <1>6, <1>7, Zenon DEF History
<1>10. Types'
  <2>1. DiskTypes'
    BY <1>1, <1>4, Zenon DEF Types, DiskTypes
  <2>2. MemoryTypes'
    BY <1>1, <1>3, <1>4, <1>5, Zenon DEF Types, MemoryTypes
  <2>3. CallTypes' /\ PastTypes'
    BY <1>1, <1>2, Zenon DEF Types, CallTypes, PastTypes
  <2> QED
    BY <2>1, <2>2, <2>3, Zenon DEF Types
<1>11. Shape'
  <2>1. files # {} => Newest \in files'
    BY <1>1, <1>5, Zenon
  <2> QED
    BY <1>1, <1>2, <1>4, <1>5, <2>1, Zenon DEF Shape
<1>12. History'
  BY <1>1, <1>8, <1>9, Zenon DEF History
<1>13. Located'
  <2>1. ASSUME NEW n \in Index' PROVE Rebuilt[n] \in files'
    <3> DEFINE H == {m \in Messages : Rebuilt[m] = Rebuilt[n]}
    <3>1. n \in H /\ H \in SUBSET Messages
      BY <1>7, Zenon
    <3>2. Cardinality(H) >= 1
      BY <3>1, Without, Zenon
    <3>3. Rebuilt[n] \in files /\ Rebuilt[n] \in Segments
      BY <1>3, <1>4, <1>6, <1>7, Zenon
    <3>4. Recounted[Rebuilt[n]] = Cardinality(H)
      BY <3>3, Zenon DEF Recounted
    <3> HIDE DEF H
    <3> QED
      BY <1>1, <3>2, <3>3, <3>4
  <2> QED
    BY <1>1, <1>3, <1>4, <1>6, <1>7, <2>1, Zenon DEF Located
<1>14. Safe'
  BY <1>1, <1>2, <1>8, Zenon DEF Safe
<1>15. Counted'
  <2>1. ASSUME NEW s \in files' PROVE Cardinality(LivingIn(s)' \union Shadows(s)') <= count'[s]
    <3> DEFINE H == {m \in Messages : Rebuilt[m] = s}
    <3>1. LivingIn(s)' \union Shadows(s)' = H
      BY <1>1, <1>2, Zenon DEF LivingIn, Shadows
    <3>2. count'[s] = Cardinality(H)
      BY <1>1, <1>4, Zenon DEF Recounted
    <3>3. Cardinality(H) \in Nat
      BY MessageSets, Zenon
    <3> HIDE DEF H
    <3> QED
      BY <3>1, <3>2, <3>3
  <2> QED
    BY <2>1, Zenon DEF Counted
<1>16. Queue!QueueNext
  <2>1. kept \subseteq Index' /\ Index' \subseteq taken /\ UNCHANGED <<kept, taken>>
    BY <1>1, <1>8, <1>9, Zenon
  <2>2. Queue!Restart(Index')
    BY <2>1, Zenon DEF Queue!Restart
  <2> QED
    BY <2>1, <2>2, Zenon DEF Queue!QueueNext
<1> QED
  BY <1>10, <1>11, <1>12, <1>13, <1>14, <1>15, <1>16, Zenon

(* A record that was written and synced is answered for.                     *)
LEMMA WriteKeeps ==
  ASSUME Inv, Write
  PROVE  Inv' /\ Queue!QueueNext
<1> USE DEF Inv
<1> DEFINE i == incoming
           F == {Record(incoming)}
<1>1. active \in files /\ active \in Segments /\ i \in Messages /\ i \notin taken
  BY ThereIsAnActive, Zenon DEF Write, ReadyToWrite, Types, CallTypes, History
<1>2. /\ running /\ running' /\ moving = {} /\ doomed = {}
      /\ where' = [where EXCEPT ![i] = active] /\ count' = [count EXCEPT ![active] = @ + 1]
      /\ taken' = taken \union {i} /\ incoming' = None
      /\ UNCHANGED <<files, removed, torn, running, active, jammed, sent, doomed, moving>>
  BY Zenon DEF Write, ReadyToWrite, Counts
<1>3. /\ loose' \subseteq loose \union Written
      /\ kept' = kept \/ (kept' = kept \union {i} /\ active \notin torn /\ loose' = {})
      /\ failures' \in Nat
  BY DEF Write, Synced, Types, PastTypes
<1>4. F \in SUBSET Frame
  BY <1>1, FramesDiffer, Zenon
<1>5. /\ frames' \in [Segments -> SUBSET Frame] /\ beyond' \in [Segments -> SUBSET Frame]
      /\ Adds(F)
      /\ active \in torn => F \subseteq beyond'[active] /\ frames' = frames
      /\ active \notin torn => F \subseteq frames'[active] /\ beyond' = beyond
  BY <1>1, <1>4, PutAdds, Zenon DEF Write, Types
<1>6. Index' = Index \union {i} /\ where'[i] = active /\ \A n \in Messages : n # i => where'[n] = where[n]
  BY <1>1, <1>2, NoneIsNoSegment, Zenon DEF Index, Types, MemoryTypes
<1>7. Index \subseteq taken /\ kept \subseteq Index /\ Index \subseteq Messages /\ files \subseteq Segments
  BY Zenon DEF History, Index, Types, DiskTypes
<1>8. \A n \in Messages : n # i => Record(n) \notin F
  BY <1>1, FramesDiffer, Zenon
<1>9. Types'
  <2>1. DiskTypes'
    BY <1>2, <1>3, <1>4, <1>5, Zenon DEF Types, DiskTypes, Written
  <2>2. MemoryTypes'
    BY <1>1, <1>2 DEF Types, MemoryTypes
  <2>3. CallTypes' /\ PastTypes'
    BY <1>1, <1>2, <1>3, <1>6, Zenon DEF Types, CallTypes, PastTypes
  <2> QED
    BY <2>1, <2>2, <2>3, Zenon DEF Types
<1>10. Shape'
  <2>1. loose \subseteq frames[active]
    BY <1>1, <1>2, NoneIsNoSegment, Zenon DEF Shape
  <2>2. loose' \subseteq frames'[active]
    BY <1>1, <1>3, <1>5, <2>1, Zenon DEF Written, Adds
  <2> QED
    BY <1>1, <1>2, <2>2, NoneIsNoSegment, Zenon DEF Shape
<1>11. History'
  <2>1. ASSUME NEW s \in Segments, NEW m \in Messages
        PROVE  /\ Record(m) \in frames'[s] => m \in taken'
               /\ Tombstone(m) \in frames'[s] => m \in taken \ kept
    <3>1. Tombstone(m) \notin F
      BY <1>1, FramesDiffer, Zenon
    <3> QED
      BY <1>2, <1>5, <1>8, <3>1, Zenon DEF Adds, History
  <2>2. kept' \subseteq Index' /\ Index' \subseteq taken' /\ incoming' \notin taken'
    BY <1>1, <1>2, <1>3, <1>6, <1>7, NoneIsNoMessage, Zenon DEF Types, PastTypes
  <2> QED
    BY <1>1, <1>2, <1>3, <2>1, <2>2, Zenon DEF History
<1>12. Located'
  <2>1. Record(i) \in frames'[active] \/ Record(i) \in beyond'[active]
    BY <1>5, Zenon
  <2>2. \A s \in files : s <= active
    BY <1>1, <1>2, Zenon DEF Shape
  <2>3. ASSUME NEW n \in Index
        PROVE  /\ n # i /\ where[n] \in files /\ where'[n] = where[n]
               /\ Record(n) \in frames'[where[n]] \/ Record(n) \in beyond'[where[n]]
               /\ \A s \in files' : Record(n) \in frames'[s] => s <= where[n]
    <3>1. n # i /\ where[n] \in files /\ where'[n] = where[n] /\ Record(n) \notin F
      BY <1>1, <1>2, <1>6, <1>7, <1>8, Zenon DEF Located
    <3> QED
      BY <1>2, <1>5, <3>1, StillLocated, Zenon DEF Types
  <2> QED
    BY <1>1, <1>2, <1>6, <2>1, <2>2, <2>3 DEF Located
<1>13. Safe'
  <2>1. ASSUME NEW n \in kept
        PROVE  n # i /\ n \in Index' /\ Record(n) \in frames'[where'[n]]
    <3>1. n # i /\ n \in Messages /\ where[n] \in Segments /\ Record(n) \in frames[where[n]]
      BY <1>1, <1>2, <1>7, KeptIsThere, Zenon
    <3> QED
      BY <1>5, <1>6, <1>7, <3>1, Zenon DEF Adds
  <2>2. ASSUME NEW n \in kept, Record(n) \in loose' PROVE \E s \in files' : n \in Shadows(s)'
    <3>1. Record(n) \in loose
      BY <1>3, <1>7, <1>8, <2>1, <2>2, Zenon DEF Written
    <3> QED
      BY <1>2, <1>5, <2>1, <2>2, <3>1, StillShadowed, Zenon DEF Types
  <2>3. i \in kept' => Record(i) \in frames'[where'[i]] /\ loose' = {}
    BY <1>1, <1>3, <1>5, <1>6, <1>7, Zenon
  <2>4. ASSUME NEW n \in kept'
        PROVE  /\ Record(n) \in frames'[where'[n]]
               /\ Record(n) \in loose' => \E s \in files' : n \in Shadows(s)'
    BY <1>3, <2>1, <2>2, <2>3
  <2> QED
    BY <1>2, <2>4, Zenon DEF Safe
<1>14. Counted'
  <2>1. ASSUME NEW s \in files, s # active
        PROVE  Cardinality(LivingIn(s)' \union Shadows(s)') <= count'[s]
    <3>1. s \in Segments /\ frames'[s] = frames[s] /\ Record(i) \notin frames[s]
      BY <1>1, <1>5, <1>7, <2>1, Zenon DEF Adds, History
    <3>2. LivingIn(s)' \subseteq LivingIn(s)
      BY <1>6, <2>1, Zenon DEF LivingIn
    <3>3. Shadows(s)' \subseteq Shadows(s)
      BY <1>2, <1>3, <1>6, <3>1, Zenon DEF Shadows, Written
    <3>4. count'[s] = count[s]
      BY <1>2, <2>1, <3>1, Zenon DEF Types, MemoryTypes
    <3> QED
      BY <1>2, <3>1, <3>2, <3>3, <3>4, StillCounted, Zenon DEF Types
  <2>2. ASSUME NEW s \in files, s = active
        PROVE  Cardinality(LivingIn(s)' \union Shadows(s)') <= count'[s]
    <3>1. LivingIn(s)' \subseteq LivingIn(s) \union {i}
      BY <1>6, Zenon DEF LivingIn
    <3>2. {i} \in SUBSET Messages /\ Cardinality({i}) = 1
      BY <1>1, FS_Singleton, Zenon
    <3>3. count' = [count EXCEPT ![s] = @ + Cardinality({i})]
      BY <1>2, <2>2, <3>2, Zenon
    <3> QED
      BY <1>1, <1>2, <2>2, <3>1, <3>2, <3>3, CountedAsWritten, Zenon DEF Types
  <2> QED
    BY <1>2, <2>1, <2>2, Zenon DEF Counted
<1>15. Queue!QueueNext
  <2>1. Queue!Take(i, TRUE) \/ Queue!Take(i, FALSE)
    BY <1>1, <1>2, <1>3, <1>6, Zenon DEF Queue!Take
  <2> QED
    BY <1>1, <2>1, Zenon DEF Queue!QueueNext
<1> QED
  BY <1>9, <1>10, <1>11, <1>12, <1>13, <1>14, <1>15, Zenon

(* The segment a deletion removes was needed for nothing else.              *)
LEMMA EmptiedIsEmpty ==
  ASSUME MemoryTypes, Counted, running, NEW m \in Index, where[m] \in files, where[m] \in Segments,
         Emptied(m) # {}
  PROVE  LivingIn(where[m]) \union Shadows(where[m]) = {m}
<1> DEFINE H == LivingIn(where[m]) \union Shadows(where[m])
<1>1. m \in H /\ H \in SUBSET Messages
  BY Zenon DEF LivingIn, Shadows, Index
<1>2. count[where[m]] <= 1 /\ Cardinality(H) <= count[where[m]]
  BY Zenon DEF Emptied, Counted
<1>3. Cardinality(H) \in Nat /\ count[where[m]] \in Nat
  BY <1>1, MessageSets, Zenon DEF MemoryTypes
<1> HIDE DEF H
<1>4. Cardinality(H) <= 1
  BY <1>2, <1>3
<1>5. H = {m}
  BY <1>1, <1>4, OnlyOne, Zenon
<1> QED
  BY <1>5, Zenon DEF H

(* A tombstone buries its record only.                                       *)
LEMMA DeleteKeeps ==
  ASSUME Inv, NEW m \in Messages, Delete(m)
  PROVE  Inv' /\ Queue!QueueNext
<1> USE DEF Inv
<1> DEFINE F == {Tombstone(m)}
<1>1. active \in files /\ active \in Segments /\ m \in Index
  BY ThereIsAnActive, Zenon DEF Delete, Types, CallTypes
<1>2. /\ running /\ running' /\ where' = [where EXCEPT ![m] = None]
      /\ sent' = sent \ {m} /\ kept' = kept \ {m} /\ doomed' = doomed \ {m}
      /\ count' = [count EXCEPT ![where[m]] = @ - 1]
      /\ files' = files \ Emptied(m) /\ removed' = removed \union Emptied(m)
      /\ moving' = {} \/ moving' = files'
      /\ UNCHANGED <<torn, running, active, jammed, incoming, taken, failures>>
  BY Zenon DEF Delete
<1>3. loose' = IF active \in torn THEN loose ELSE loose \union F
  BY Zenon DEF Delete
<1>4. F \in SUBSET Frame /\ \A n \in Messages : Record(n) \notin F
  BY FramesDiffer, Zenon
<1>5. /\ frames' \in [Segments -> SUBSET Frame] /\ beyond' \in [Segments -> SUBSET Frame]
      /\ Adds(F)
      /\ active \notin torn => F \subseteq frames'[active]
  BY <1>1, <1>4, PutAdds, Zenon DEF Delete, Types
<1>6. Index' = Index \ {m} /\ \A n \in Messages : n # m => where'[n] = where[n]
  BY <1>2, Zenon DEF Index, Types, MemoryTypes
<1>7. Index \subseteq taken /\ kept \subseteq Index /\ Index \subseteq Messages /\ files \subseteq Segments
  BY Zenon DEF History, Index, Types, DiskTypes
<1>8. where[m] \in files /\ where[m] \in Segments
  BY <1>1, <1>2, <1>7, Zenon DEF Located
<1>9. Emptied(m) \subseteq {where[m]} /\ active \notin Emptied(m)
  BY Zenon DEF Emptied
<1>10. Emptied(m) # {} => LivingIn(where[m]) \union Shadows(where[m]) = {m}
  BY <1>1, <1>2, <1>8, EmptiedIsEmpty, Zenon DEF Types
<1>11. \A n \in Messages : Record(n) \in loose' <=> Record(n) \in loose
  BY <1>3, <1>4, Zenon
<1>12. files' \subseteq files /\ active \in files'
  BY <1>1, <1>2, <1>9, Zenon
<1>13. count[where[m]] \in Nat /\ count[where[m]] >= 1
  <2> DEFINE T == {m}
  <2>1. T \in SUBSET (LivingIn(where[m]) \union Shadows(where[m])) /\ Cardinality(T) = 1
    BY FS_Singleton, Zenon DEF LivingIn
  <2> HIDE DEF T
  <2>2. Cardinality(T) <= count[where[m]]
    BY <1>2, <1>8, <2>1, StillCounted, Zenon DEF Types
  <2> QED
    BY <1>8, <2>1, <2>2, Zenon DEF Types, MemoryTypes
<1>14. Types'
  <2>1. DiskTypes'
    BY <1>2, <1>3, <1>4, <1>5, <1>8, <1>9, <1>12, SMTT(30) DEF Types, DiskTypes
  <2>2. MemoryTypes'
    BY <1>2, <1>8, <1>13 DEF Types, MemoryTypes
  <2>3. CallTypes' /\ PastTypes'
    BY <1>2, <1>6, Zenon DEF Types, CallTypes, PastTypes
  <2> QED
    BY <2>1, <2>2, <2>3, Zenon DEF Types
<1>15. Shape'
  <2>1. loose \subseteq frames[active] /\ active # None /\ \A s \in files' : s <= active
    BY <1>1, <1>2, <1>12, NoneIsNoSegment, Zenon DEF Shape
  <2>2. loose' \subseteq frames'[active]
    BY <1>1, <1>3, <1>5, <2>1, Zenon DEF Adds
  <2> QED
    BY <1>2, <1>12, <2>1, <2>2, Zenon DEF Shape
<1>16. History'
  <2>1. ASSUME NEW s \in Segments, NEW n \in Messages
        PROVE  /\ Record(n) \in frames'[s] => n \in taken
               /\ Tombstone(n) \in frames'[s] => n \in taken \ kept'
    <3>1. Tombstone(n) \in F => n = m
      BY FramesDiffer, Zenon
    <3> QED
      BY <1>1, <1>2, <1>4, <1>5, <1>7, <3>1, Zenon DEF Adds, History
  <2> QED
    BY <1>2, <1>6, <1>7, <2>1, Zenon DEF History
<1>17. Located'
  <2>1. ASSUME NEW n \in Index, n # m
        PROVE  /\ where[n] \in files' /\ where'[n] = where[n]
               /\ Record(n) \in frames'[where[n]] \/ Record(n) \in beyond'[where[n]]
               /\ \A s \in files' : Record(n) \in frames'[s] => s <= where[n]
    <3>1. where[n] \in files /\ where'[n] = where[n] /\ Record(n) \notin F
      BY <1>2, <1>4, <1>6, <1>7, <2>1, Zenon DEF Located
    <3>2. where[n] \in files'
      BY <1>2, <1>7, <1>9, <1>10, <2>1, <3>1, Zenon DEF LivingIn
    <3> QED
      BY <1>2, <1>5, <1>12, <3>1, <3>2, StillLocated DEF Types
  <2> QED
    BY <1>6, <2>1, Zenon DEF Located
<1>18. Safe'
  <2>1. ASSUME NEW n \in kept, n # m PROVE n \in Index' /\ Record(n) \in frames'[where'[n]]
    <3>1. n \in Messages /\ where[n] \in Segments /\ Record(n) \in frames[where[n]]
      BY <1>2, <1>7, KeptIsThere, Zenon
    <3> QED
      BY <1>5, <1>6, <1>7, <2>1, <3>1, Zenon DEF Adds
  <2>2. ASSUME NEW n \in kept, n # m, Record(n) \in loose' PROVE \E s \in files' : n \in Shadows(s)'
    <3>1. \A s \in files : n \in Shadows(s) => s \in files'
      BY <1>2, <1>9, <1>10, <2>2, Zenon
    <3>2. Record(n) \in loose
      BY <1>7, <1>11, <2>2, Zenon
    <3> QED
      BY <1>2, <1>5, <2>1, <2>2, <3>1, <3>2, StillShadowed, Zenon DEF Types
  <2> QED
    BY <1>2, <2>1, <2>2, Zenon DEF Safe
<1>19. Counted'
  <2>1. ASSUME NEW s \in files'
        PROVE  /\ s \in files /\ s \in Segments
               /\ LivingIn(s)' \union Shadows(s)' \subseteq (LivingIn(s) \union Shadows(s)) \ {m}
    <3>1. s \in files /\ s \in Segments
      BY <1>7, <1>12, Zenon
    <3>2. LivingIn(s)' \subseteq LivingIn(s) \ {m}
      BY <1>2, <1>6, <3>1, NoneIsNoSegment, Zenon DEF LivingIn, Types, MemoryTypes
    <3>3. \A n \in Messages : Record(n) \in frames'[s] => Record(n) \in frames[s]
      BY <1>4, <1>5, <3>1, Zenon DEF Adds
    <3>4. Shadows(s)' \subseteq Shadows(s) \ {m}
      BY <1>2, <1>6, <1>7, <1>11, <3>3, Zenon DEF Shadows
    <3> QED
      BY <3>1, <3>2, <3>4, Zenon
  <2>2. ASSUME NEW s \in files', s # where[m]
        PROVE  Cardinality(LivingIn(s)' \union Shadows(s)') <= count'[s]
    <3>1. count'[s] = count[s]
      BY <1>2, <2>1, <2>2, Zenon DEF Types, MemoryTypes
    <3> QED
      BY <1>2, <2>1, <3>1, StillCounted, Zenon DEF Types
  <2>3. ASSUME NEW s \in files', s = where[m]
        PROVE  Cardinality(LivingIn(s)' \union Shadows(s)') <= count'[s]
    <3> DEFINE H == LivingIn(s) \union Shadows(s)
               T == LivingIn(s)' \union Shadows(s)'
    <3>1. H \in SUBSET Messages /\ m \in H /\ T \in SUBSET (H \ {m})
      BY <2>1, <2>3, Zenon DEF LivingIn, Shadows, Index
    <3>2. count[s] \in Nat /\ count'[s] = count[s] - 1
      BY <1>2, <1>13, <2>1, <2>3, Zenon DEF Types, MemoryTypes
    <3>3. Cardinality(H) <= count[s]
      BY <1>2, <2>1, Zenon DEF Counted
    <3> HIDE DEF H, T
    <3>4. H \ {m} \in SUBSET Messages
      BY <3>1, Zenon
    <3>5. Cardinality(T) <= Cardinality(H \ {m}) /\ Cardinality(H \ {m}) = Cardinality(H) - 1
      BY <3>1, <3>4, Fewer, Without, Zenon
    <3>6. Cardinality(T) \in Nat /\ Cardinality(H) \in Nat
      BY <3>1, MessageSets, Zenon
    <3>7. Cardinality(T) <= count'[s]
      BY <3>2, <3>3, <3>5, <3>6
    <3> QED
      BY <3>7, Zenon DEF T
  <2> QED
    BY <2>2, <2>3, Zenon DEF Counted
<1>20. Queue!QueueNext
  <2>1. Queue!Free({m})
    BY <1>2, <1>6, Zenon DEF Queue!Free
  <2> QED
    BY <1>1, <2>1, Zenon DEF Queue!QueueNext
<1> QED
  BY <1>14, <1>15, <1>16, <1>17, <1>18, <1>19, <1>20, Zenon

(* A compaction copies records from the oldest segment to the active one.   *)
LEMMA CopiesKeep ==
  ASSUME Inv, running, moving # {}, active \notin moving,
         NEW S \in SUBSET LivingIn(Min(moving)), Copies(S), Types',
         (moving' = moving \/ moving' = {}), (incoming' = incoming \/ incoming' = None),
         UNCHANGED <<files, removed, torn, running, active, taken, kept>>
  PROVE  Inv' /\ UNCHANGED Queue!rqVars
<1> USE DEF Inv
<1> DEFINE F == {Record(m) : m \in S}
           o == Min(moving)
<1>1. active \in files /\ active \in Segments /\ active \notin torn
  BY ThereIsAnActive, Zenon DEF Shape, Types
<1>2. o \in files /\ o \in Segments /\ o # active /\ \A s \in files : s # active => o <= s
  BY OldestIs, Zenon DEF Types, CallTypes, DiskTypes, Shape
<1>3. S \subseteq Messages /\ \A n \in S : where[n] = o
  BY Zenon DEF LivingIn
<1>4. /\ where' = [m \in Messages |-> IF m \in S THEN active ELSE where[m]]
      /\ count' = [count EXCEPT ![active] = @ + Cardinality(S)]
      /\ loose' = loose \union F
  BY <1>1, Zenon DEF Copies, Counts
<1> HIDE DEF o
<1>5. F \in SUBSET Frame /\ (\A n \in Messages : Record(n) \in F <=> n \in S)
  BY <1>3, FramesDiffer, Zenon
<1>6. \A n \in Messages : Tombstone(n) \notin F
  BY <1>3, FramesDiffer, Zenon
<1>7. Adds(F) /\ F \subseteq frames'[active]
  BY <1>1, <1>5, PutAdds, Zenon DEF Copies, Types
<1> HIDE DEF F
<1>8. Index' = Index /\ S \subseteq Index
  BY <1>1, <1>2, <1>3, <1>4, NoneIsNoSegment, Zenon DEF Index
<1>9. Index \subseteq taken /\ kept \subseteq Index /\ Index \subseteq Messages /\ files \subseteq Segments
  BY Zenon DEF History, Index, Types, DiskTypes
<1>10. Shape'
  <2>1. loose \subseteq frames[active] /\ active # None
    BY <1>1, NoneIsNoSegment, Zenon DEF Shape
  <2>2. loose' \subseteq frames'[active]
    BY <1>1, <1>4, <1>7, <2>1, Zenon DEF Adds
  <2> QED
    BY <2>1, <2>2, Zenon DEF Shape
<1>11. History'
  <2>1. ASSUME NEW s \in Segments, NEW n \in Messages
        PROVE  /\ Record(n) \in frames'[s] => n \in taken
               /\ Tombstone(n) \in frames'[s] => n \in taken \ kept
    BY <1>5, <1>6, <1>7, <1>8, <1>9, Zenon DEF Adds, History
  <2>2. None \notin taken
    BY NoneIsNoMessage, Zenon DEF Types, PastTypes
  <2> QED
    BY <1>8, <2>1, <2>2, Zenon DEF History
<1>12. Located'
  <2>1. ASSUME NEW n \in Index, n \in S
        PROVE  /\ where'[n] = active /\ Record(n) \in frames'[active]
               /\ \A s \in files : s <= active
    BY <1>1, <1>3, <1>4, <1>5, <1>7, <2>1, Zenon DEF Shape
  <2>2. ASSUME NEW n \in Index, n \notin S
        PROVE  /\ where'[n] = where[n] /\ where[n] \in files
               /\ Record(n) \in frames'[where[n]] \/ Record(n) \in beyond'[where[n]]
               /\ \A s \in files' : Record(n) \in frames'[s] => s <= where[n]
    <3>1. where'[n] = where[n] /\ where[n] \in files /\ Record(n) \notin F
      BY <1>4, <1>5, <1>9, <2>2, Zenon DEF Located
    <3> QED
      BY <1>7, <3>1, StillLocated, Zenon DEF Types
  <2> QED
    BY <1>1, <1>8, <2>1, <2>2, Zenon DEF Located
<1>13. Safe'
  <2>1. ASSUME NEW n \in kept
        PROVE  n \in Messages /\ where[n] \in Segments /\ Record(n) \in frames[where[n]]
    BY <1>9, KeptIsThere, Zenon
  <2>2. ASSUME NEW n \in kept PROVE Record(n) \in frames'[where'[n]]
    BY <1>4, <1>5, <1>7, <2>1, Zenon DEF Adds
  <2>3. ASSUME NEW n \in kept, Record(n) \in loose' PROVE \E s \in files' : n \in Shadows(s)'
    <3>1. CASE n \in S
      <4>1. PICK s \in files : s = o
        BY <1>2, Zenon
      <4>2. Record(n) \in frames'[s]
        BY <1>2, <1>3, <1>7, <2>1, <3>1, <4>1, Zenon DEF Adds
      <4>3. n \in Shadows(s)'
        BY <1>2, <1>8, <1>9, <2>3, <4>1, <4>2, Zenon DEF Shadows
      <4> QED
        BY <4>3, Zenon
    <3>2. CASE n \notin S
      <4>1. Record(n) \in loose /\ n \in Index'
        BY <1>4, <1>5, <1>8, <1>9, <2>1, <2>3, <3>2, Zenon
      <4> QED
        BY <1>7, <2>3, <4>1, StillShadowed, Zenon DEF Types
    <3> QED
      BY <3>1, <3>2, Zenon
  <2> QED
    BY <2>2, <2>3, Zenon DEF Safe
<1>14. Counted'
  <2>1. ASSUME NEW s \in files, s # active
        PROVE  Cardinality(LivingIn(s)' \union Shadows(s)') <= count'[s]
    <3>1. s \in Segments /\ frames'[s] = frames[s] /\ o <= s
      BY <1>2, <1>7, <1>9, <2>1, Zenon DEF Adds
    <3>2. LivingIn(s)' \subseteq LivingIn(s)
      BY <1>4, <2>1, Zenon DEF LivingIn
    <3>3. ASSUME NEW n \in Shadows(s)', n \in S PROVE n \in LivingIn(s)
      <4>1. n \in Index /\ Record(n) \in frames[s]
        BY <1>8, <3>1, <3>3, Zenon DEF Shadows
      <4>2. s <= o
        BY <1>3, <3>3, <4>1, Zenon DEF Located
      <4>3. s = o
        BY <1>2, <3>1, <4>2, NoneIsNoSegment
      <4> QED
        BY <1>3, <3>3, <4>3, Zenon DEF LivingIn
    <3>4. ASSUME NEW n \in Shadows(s)', n \notin S PROVE n \in Shadows(s)
      <4>1. n \in Index /\ n \in Messages /\ Record(n) \in frames[s] /\ Record(n) \in loose'
        BY <1>8, <1>9, <3>1, Zenon DEF Shadows
      <4>2. Record(n) \in loose
        BY <1>4, <1>5, <3>4, <4>1, Zenon
      <4> QED
        BY <2>1, <4>1, <4>2, Zenon DEF Shadows
    <3>5. count'[s] = count[s]
      BY <1>4, <2>1, <3>1, Zenon DEF Types, MemoryTypes
    <3>6. LivingIn(s)' \union Shadows(s)' \subseteq LivingIn(s) \union Shadows(s)
      BY <3>2, <3>3, <3>4, Zenon
    <3> QED
      BY <3>1, <3>5, <3>6, StillCounted, Zenon DEF Types
  <2>2. ASSUME NEW s \in files, s = active
        PROVE  Cardinality(LivingIn(s)' \union Shadows(s)') <= count'[s]
    <3>1. LivingIn(s)' \subseteq LivingIn(s) \union S
      BY <1>4, Zenon DEF LivingIn
    <3> QED
      BY <1>1, <1>3, <1>4, <2>2, <3>1, CountedAsWritten, Zenon DEF Types
  <2> QED
    BY <2>1, <2>2, Zenon DEF Counted
<1>15. UNCHANGED Queue!rqVars
  BY <1>8, Zenon DEF Queue!rqVars
<1> QED
  BY <1>10, <1>11, <1>12, <1>13, <1>14, <1>15, Zenon

LEMMA CopiesType ==
  ASSUME Types, Shape, running, moving # {}, active \notin moving,
         NEW S \in SUBSET LivingIn(Min(moving)), Copies(S)
  PROVE  /\ frames' \in [Segments -> SUBSET Frame] /\ beyond' \in [Segments -> SUBSET Frame]
         /\ loose' \subseteq Frame
         /\ where' \in [Messages -> Segments \union {None}] /\ count' \in [Segments -> Nat]
         /\ Index \subseteq Index'
<1>1. active \in Segments
  BY ThereIsAnActive, Zenon DEF Types
<1>2. S \in SUBSET Messages
  BY Zenon DEF LivingIn
<1>3. {Record(m) : m \in S} \in SUBSET Frame
  BY <1>2, FramesDiffer, Zenon
<1>4. Cardinality(S) \in Nat
  BY <1>2, MessageSets, Zenon
<1>5. frames' \in [Segments -> SUBSET Frame] /\ beyond' \in [Segments -> SUBSET Frame]
  BY <1>1, <1>3, PutAdds, Zenon DEF Copies, Types
<1>6. /\ where' = [m \in Messages |-> IF m \in S THEN active ELSE where[m]]
      /\ count' = [count EXCEPT ![active] = @ + Cardinality(S)]
      /\ loose' \subseteq loose \union {Record(m) : m \in S}
  BY Zenon DEF Copies, Counts
<1>7. where' \in [Messages -> Segments \union {None}] /\ count' \in [Segments -> Nat]
  BY <1>1, <1>4, <1>6 DEF Types, MemoryTypes
<1>8. Index \subseteq Index'
  BY <1>1, <1>6, NoneIsNoSegment, Zenon DEF Index
<1> QED
  BY <1>3, <1>5, <1>6, <1>7, <1>8, Zenon DEF Types, DiskTypes

(* A compaction that copies records, to the end or not, loses none.          *)
LEMMA CopyKeeps ==
  ASSUME Inv, Copy \/ CopyFails
  PROVE  Inv' /\ UNCHANGED Queue!rqVars
<1> USE DEF Inv
<1>1. /\ running /\ running' /\ moving # {} /\ active \notin moving
      /\ UNCHANGED <<files, removed, torn, running, active, jammed, sent>>
  BY DEF Copy, CopyFails
<1>2. PICK S \in SUBSET LivingIn(Min(moving)) : Copies(S)
  BY Zenon DEF Copy, CopyFails
<1>3. /\ doomed' \subseteq Index /\ (moving' = moving \/ moving' = {})
      /\ incoming' = incoming \/ incoming' = None
      /\ UNCHANGED <<taken, kept>> /\ failures' \in Nat
  <2>1. CASE Copy
    BY <2>1, Zenon DEF Copy, call, Types, CallTypes, PastTypes
  <2>2. CASE CopyFails
    <3>1. GivesUp /\ (failures' = failures \/ failures' = failures + 1)
      BY <2>2, Zenon DEF CopyFails, Fails
    <3> QED
      BY <3>1, GivingUp DEF Types, PastTypes
  <2> QED
    BY <2>1, <2>2, Zenon
<1>4. Types'
  <2>1. DiskTypes' /\ MemoryTypes' /\ Index \subseteq Index'
    BY <1>1, <1>2, CopiesType, Zenon DEF Types, DiskTypes, MemoryTypes
  <2>2. CallTypes' /\ PastTypes'
    BY <1>1, <1>3, <2>1, Zenon DEF Types, CallTypes, PastTypes
  <2> QED
    BY <2>1, <2>2, Zenon DEF Types
<1> QED
  BY <1>1, <1>2, <1>3, <1>4, CopiesKeep, Zenon

-----------------------------------------------------------------------------
(* Every step keeps the invariant, and is a step of the queue or none of    *)
(* its business.                                                            *)
LEMMA StepKeeps ==
  ASSUME Inv, [Next]_vars
  PROVE  Inv' /\ [Queue!QueueNext]_(Queue!rqVars)
<1> DEFINE Goal == Inv' /\ [Queue!QueueNext]_(Queue!rqVars)
<1>1. CASE Rests \/ Roll \/ Drop \/ Copy \/ CopyFails
  BY <1>1, RestKeeps, RollKeeps, DropKeeps, CopyKeeps, Zenon
<1>2. ASSUME NEW m \in Messages, Append(m) \/ Ack(m) \/ MarkSent(m) PROVE Rests
  BY <1>2, CallsRest, Zenon DEF Inv
<1>3. ASSUME Unsend \/ Flush \/ \E expired \in SUBSET Index, late \in SUBSET sent : Next_(expired, late)
      PROVE  Rests
  BY <1>3, SendingRests, Zenon DEF Inv
<1>4. ASSUME Evict \/ Refuse \/ WriteFails \/ RollFails \/ JammedDelete PROVE Rests
  BY <1>4, RefusalsRest, Zenon DEF Inv
<1>5. CASE Write
  BY <1>5, WriteKeeps, Zenon
<1>6. ASSUME NEW m \in Messages, Delete(m) PROVE Goal
  BY <1>6, DeleteKeeps, Zenon
<1>7. CASE Crash
  BY <1>7, StopKeeps, Zenon DEF Crash
<1>8. CASE Close
  <2>1. running /\ Stop({}, {}) /\ {} \in SUBSET loose /\ {} \in SUBSET removed
    BY <1>8, Zenon DEF Close, Idle
  <2> QED
    BY <2>1, StopKeeps, Zenon
<1>9. CASE Open
  BY <1>9, OpenKeeps, Zenon
<1>10. CASE UNCHANGED vars
  <2>1. Index' = Index /\ \A s : LivingIn(s)' = LivingIn(s) /\ Shadows(s)' = Shadows(s)
    BY <1>10, Zenon DEF vars, disk, memory, Index, LivingIn, Shadows
  <2>2. Types' /\ Shape'
    BY <1>10, <2>1, Zenon DEF vars, disk, memory, call, Inv, Types, DiskTypes, MemoryTypes,
           CallTypes,
       PastTypes, Shape, Locked
  <2>3. History' /\ Located' /\ Safe' /\ Counted'
    BY <1>10, <2>1, Zenon DEF vars, disk, memory, call, Inv, History, Located, Safe, Counted
  <2>4. UNCHANGED Queue!rqVars
    BY <1>10, <2>1, Zenon DEF vars, Queue!rqVars
  <2> QED
    BY <2>2, <2>3, <2>4, Zenon DEF Inv
<1> HIDE DEF Goal
<1>11. Next => Goal
  BY <1>1, <1>2, <1>3, <1>4, <1>5, <1>6, <1>7, <1>8, <1>9, Zenon DEF Next, Goal
<1> QED
  BY <1>10, <1>11, Zenon DEF Goal

(* The inductive invariant holds of every spool.                             *)
LEMMA Invariance == Spec => []Inv
<1>1. Init => Inv
  BY NoneIsNoSegment, MessagesAssumption, Zenon
     DEF Init, Inv, Types, DiskTypes, MemoryTypes, CallTypes, PastTypes,
         Shape, History, Located, Safe, Counted, Index, None
<1>2. Inv /\ [Next]_vars => Inv'
  BY StepKeeps, Zenon
<1> QED
  BY <1>1, <1>2, PTL DEF Spec

(* The segments, the index, the account and the calls under way keep their  *)
(* types: what waits to be sent or deleted is indexed, a compaction moves   *)
(* files that exist, an account never falls below zero (deleteLocked,       *)
(* compactLocked).                                                          *)
THEOREM TypeCorrect == Spec => []TypeOK
<1>1. Inv => TypeOK
  BY Zenon DEF Inv, Types, DiskTypes, MemoryTypes, CallTypes, PastTypes, TypeOK
<1> QED
  BY <1>1, Invariance, PTL

(* What the index names can be read back, over rolls, removals, compactions *)
(* and rebuilds (readLocked, deleteLocked, compactLocked, rebuild).         *)
THEOREM TheIndexIsReadable == Spec => []IndexIsReadable
<1>1. Inv => IndexIsReadable
  BY Zenon DEF Inv, Located, IndexIsReadable, Readable
<1> QED
  BY <1>1, Invariance, PTL

(* The account of a segment never falls below its living records, so none   *)
(* is removed with one of them (deleteLocked, compactLocked, rebuild).      *)
THEOREM NoSegmentIsMiscounted == Spec => []SegmentsAreCounted
<1>1. ASSUME Types, Counted, running, NEW s \in files
      PROVE  count[s] >= Cardinality(LivingIn(s))
  <2>1. s \in Segments
    BY <1>1, Zenon DEF Types, DiskTypes
  <2>2. Cardinality(LivingIn(s)) <= count[s]
    BY <1>1, <2>1, StillCounted, Zenon DEF Types
  <2>3. Cardinality(LivingIn(s)) \in Nat /\ count[s] \in Nat
    BY <1>1, <2>1, MessageSets, Zenon DEF LivingIn, Types, MemoryTypes
  <2> QED
    BY <2>2, <2>3, Zenon
<1>2. Inv => SegmentsAreCounted
  BY <1>1, Zenon DEF Inv, SegmentsAreCounted
<1> QED
  BY <1>2, Invariance, PTL

(* What Append answered for is held until it is deleted: the spool with its *)
(* segments, compactions, failed writes and power failures is the queue of  *)
(* RelayQueue (Append, deleteLocked, compactLocked, rebuild).               *)
THEOREM SpoolIsAQueue == Spec => ImplementsRelayQueue
<1>1. Init => Queue!QueueInit
  BY Zenon DEF Init, Queue!QueueInit, Index
<1>2. Inv /\ [Next]_vars => [Queue!QueueNext]_(Queue!rqVars)
  BY StepKeeps, Zenon
<1> QED
  BY <1>1, <1>2, Invariance, PTL DEF Spec, ImplementsRelayQueue, Queue!QueueSpec
=============================================================================
