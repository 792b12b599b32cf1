------------------------------ MODULE EventLog ------------------------------
(***************************************************************************)
(* One workspace's event log: the ring of slots, the append-only file and  *)
(* the replay of its tail when a process opens it (src/src/event_log.c).   *)
(*                                                                         *)
(* Every operation of this module runs under the log's write lock, so each *)
(* is one action.  What happens after the lock is released, the broadcast  *)
(* to subscribers, is the subject of EventStream.                          *)
(*                                                                         *)
(* An event is reduced to its cursor and its size.  A line of the file is  *)
(* reduced to what the replay can read from it, and a size is counted in   *)
(* units of the replayed tail.                                             *)
(***************************************************************************)
EXTENDS Integers, FiniteSets, Sequences, FiniteSetsExt

CONSTANTS
  Cap,            (* Slots of the ring.                                    *)
  TailSize,       (* Units read back from the end of the file on open.     *)
  Sizes,          (* Sizes an event line may have.                         *)
  SyncEvery,      (* Writes between two fsyncs.                            *)
  Radix,          (* Base in which the file spells numbers.                *)
  MaxEvents       (* Bound: events ever appended.                          *)

ASSUME EventLogAssumption ==
  /\ Cap \in Nat \ {0}
  /\ TailSize \in Nat \ {0}
  /\ Sizes \subseteq Nat \ {0}
  /\ SyncEvery \in Nat \ {0}
  /\ Radix \in Nat \ {0, 1}
  /\ MaxEvents \in Nat

VARIABLES
  up,             (* A process has the log open.                           *)
  fd,             (* The open log has a file to write to.                  *)
  ring,           (* Sequence number in each slot, 0 where it is free.     *)
  head,           (* Next slot to write.                                   *)
  used,           (* Slots in use.                                         *)
  newest,
  oldest,
  generation,
  file,           (* Lines of the file.                                    *)
  length,         (* Length of the file in units.                          *)
  synced,         (* Length known to be on stable storage.                 *)
  unsynced,       (* Writes since the last fsync.                          *)
  issued          (* History: the cursor of every event appended.          *)

memory == <<up, fd, ring, head, used, newest, oldest, generation>>
disk   == <<file, length, synced, unsynced>>
vars   == <<memory, disk, issued>>

Slots == 0 .. Cap - 1

(* seq and gen are what pin_json_find_key and pin_json_parse_int find in   *)
(* the line, 0 for nothing; at is where it starts; closed says whether the *)
(* newline was written.                                                    *)
Line == [seq : Nat, gen : Nat, at : Nat, closed : BOOLEAN]

Cursor == [gen : Nat, seq : Nat]

TypeOK ==
  /\ up \in BOOLEAN /\ fd \in BOOLEAN
  /\ ring \in [Slots -> Nat]
  /\ head \in Slots
  /\ used \in 0 .. Cap
  /\ newest \in Nat /\ oldest \in Nat /\ generation \in Nat
  /\ file \in Seq(Line)
  /\ length \in Nat /\ synced \in Nat
  /\ unsynced \in 0 .. SyncEvery - 1
  /\ issued \in Seq(Cursor)

-----------------------------------------------------------------------------
(* The ring.                                                               *)

EmptyRing == [j \in Slots |-> 0]

NextSlot(h) == (h + 1) % Cap

(* Slot of the i-th oldest event, counting from 0. *)
SlotOf(h, u, i) == (h + Cap - u + i) % Cap

(* An index that forgets the events already in the ring, for comparison. *)
OldestSlotAtHead(h, u) == h % Cap

OldestSlot(h, u) == SlotOf(h, u, 0)

(* A count that keeps growing past the capacity, for comparison. *)
MoreUsedUnbounded(u) == u + 1

MoreUsed(u) == IF u < Cap THEN u + 1 ELSE u

(* Take the next sequence number, put the event in the slot at head and    *)
(* recompute the oldest number still held.                                 *)
PushNew ==
  /\ newest' = newest + 1
  /\ ring' = [ring EXCEPT ![head] = newest + 1]
  /\ head' = NextSlot(head)
  /\ used' = MoreUsed(used)
  /\ oldest' = ring'[OldestSlot(head', used')]

-----------------------------------------------------------------------------
(* The file.                                                               *)

OpenTail == file # <<>> /\ ~file[Len(file)].closed

(* Spellings left when a number is cut short: its proper prefixes.         *)
Prefixes(n) == {p \in 1 .. n : \E k \in 1 .. n : p = n \div Radix ^ k}

(* What a line cut short may still show of the cursor it was to carry: the *)
(* sequence number comes first, then the generation.                       *)
Readable(seq, gen) ==
  {<<s, 0>> : s \in {0, seq} \cup Prefixes(seq)}
    \cup {<<seq, g>> : g \in {gen} \cup Prefixes(gen)}

(* The file after a whole line.  Written after a line that was cut short,  *)
(* it shares that line, which still reads as its first part.               *)
WithLine(seq, gen) ==
  IF OpenTail
    THEN [file EXCEPT ![Len(file)].closed = TRUE]
    ELSE Append(file, [seq |-> seq, gen |-> gen, at |-> length, closed |-> TRUE])

(* The file after a line of which only a first part was written. *)
WithTornLine(f, start, seq, gen) ==
  IF f # <<>> /\ ~f[Len(f)].closed
    THEN {f}
    ELSE {Append(f, [seq |-> r[1], gen |-> r[2], at |-> start, closed |-> FALSE])
            : r \in Readable(seq, gen)}

(* Every SyncEvery-th write is followed by an fsync. *)
CountWrite ==
  IF unsynced + 1 >= SyncEvery
    THEN unsynced' = 0 /\ synced' = length'
    ELSE unsynced' = unsynced + 1 /\ synced' = synced

WriteLine(seq, gen, size) ==
  IF fd
    THEN /\ file' = WithLine(seq, gen)
         /\ length' = length + size
         /\ CountWrite
    ELSE UNCHANGED disk

-----------------------------------------------------------------------------
(* Replay of the file's tail.                                              *)

(* A replay of files that fit the tail only, for comparison. *)
InTailWhole(k) == length <= TailSize

(* When the file is longer than the tail that is read, everything up to    *)
(* the first newline in the tail is skipped: only lines that start after   *)
(* the first unit of the tail are parsed.                                  *)
InTail(k) == length <= TailSize \/ file[k].at > length - TailSize

TailLines == {k \in 1 .. Len(file) : InTail(k)}

(* Lines in which a sequence number is found go to the ring. *)
Replayed == {k \in TailLines : file[k].seq > 0}

(* Line k is the Rank(k)-th line replayed. *)
Rank(k) == Cardinality({i \in Replayed : i <= k})

(* The last Cap replayed lines keep their slot; earlier ones are evicted. *)
KeptInSlot(j) ==
  {k \in Replayed : Rank(k) > Cardinality(Replayed) - Cap /\ (Rank(k) - 1) % Cap = j}

(* The first lines of the tail instead of the last, for comparison. *)
ReplayedRingFirst ==
  [j \in Slots |->
     IF \E k \in Replayed : Rank(k) = j + 1
       THEN file[CHOOSE k \in Replayed : Rank(k) = j + 1].seq ELSE 0]

ReplayedRing ==
  [j \in Slots |->
     IF KeptInSlot(j) = {} THEN 0 ELSE file[CHOOSE k \in KeptInSlot(j) : TRUE].seq]

ReplayedUsed == LET n == Cardinality(Replayed) IN IF n < Cap THEN n ELSE Cap

ReplayedHead == Cardinality(Replayed) % Cap

(* The number before that of the last line, for comparison.                *)
ReplayedNewestBehind == IF Replayed = {} THEN 0 ELSE file[Max(Replayed)].seq - 1

ReplayedNewest == IF Replayed = {} THEN 0 ELSE file[Max(Replayed)].seq

(* A generation that restarts with every process, for comparison. *)
ReplayedGenerationFixed == 1

(* One more than the largest generation found, whether or not the line     *)
(* that carries it also has a sequence number.                             *)
ReplayedGeneration ==
  IF file = <<>> THEN 1 ELSE Max({1} \cup {file[k].gen : k \in TailLines}) + 1

-----------------------------------------------------------------------------
(* Operations.                                                             *)

Freed ==
  /\ up' = FALSE /\ fd' = FALSE
  /\ ring' = EmptyRing /\ head' = 0 /\ used' = 0
  /\ newest' = 0 /\ oldest' = 1 /\ generation' = 0

Init ==
  /\ up = FALSE /\ fd = FALSE
  /\ ring = EmptyRing /\ head = 0 /\ used = 0
  /\ newest = 0 /\ oldest = 1 /\ generation = 0
  /\ file = <<>> /\ length = 0 /\ synced = 0 /\ unsynced = 0
  /\ issued = <<>>

(* pin_event_log_open with a file that can be opened. *)
Open ==
  /\ ~up
  /\ up' = TRUE /\ fd' = TRUE
  /\ ring' = ReplayedRing
  /\ head' = ReplayedHead
  /\ used' = ReplayedUsed
  /\ newest' = ReplayedNewest
  /\ oldest' = IF newest' > 0 THEN ring'[OldestSlot(head', used')] ELSE 1
  /\ generation' = ReplayedGeneration
  /\ unsynced' = 0
  /\ UNCHANGED <<file, length, synced, issued>>

(* pin_event_log_close: the file is synced, the log is freed. *)
Close ==
  /\ up
  /\ Freed
  /\ synced' = IF fd THEN length ELSE synced
  /\ UNCHANGED <<file, length, unsynced, issued>>

(* The process is killed; what it wrote stays in the page cache. *)
Kill ==
  /\ up
  /\ Freed
  /\ UNCHANGED <<disk, issued>>

Issue(gen, seq) == issued' = Append(issued, [gen |-> gen, seq |-> seq])

(* pin_event_log_append, up to the release of the lock. *)
AppendEvent(size) ==
  /\ up
  /\ Len(issued) < MaxEvents
  /\ PushNew
  /\ WriteLine(newest + 1, generation, size)
  /\ Issue(generation, newest + 1)
  /\ UNCHANGED <<up, fd, generation>>

(* pin_event_log_bump_generation: a cursor_reset event of the new          *)
(* generation.                                                             *)
BumpGeneration(size) ==
  /\ up
  /\ Len(issued) < MaxEvents
  /\ generation' = generation + 1
  /\ PushNew
  /\ WriteLine(newest + 1, generation + 1, size)
  /\ Issue(generation + 1, newest + 1)
  /\ UNCHANGED <<up, fd>>

Next ==
  \/ Open
  \/ Close
  \/ Kill
  \/ \E size \in Sizes : AppendEvent(size) \/ BumpGeneration(size)

Spec == Init /\ [][Next]_vars

-----------------------------------------------------------------------------
(* Failures of the file system.                                            *)

(* A write fails after a first part of the line: log_writeln_locked gives  *)
(* up, the event stays in the ring and the write is not counted.           *)
AppendTorn ==
  /\ up /\ fd
  /\ Len(issued) < MaxEvents
  /\ PushNew
  /\ \/ UNCHANGED <<file, length>>
     \/ /\ file' \in WithTornLine(file, length, newest + 1, generation)
        /\ length' = length + 1
  /\ Issue(generation, newest + 1)
  /\ UNCHANGED <<up, fd, generation, synced, unsynced>>

(* The machine stops: lines beyond the last sync may be gone, and the      *)
(* first of them may be cut short.                                         *)
PowerLoss ==
  /\ Freed
  /\ \E k \in 0 .. Len(file) - 1 :
       /\ file[k + 1].at >= synced
       /\ \/ file' = SubSeq(file, 1, k) /\ length' = file[k + 1].at
          \/ /\ file' \in WithTornLine(SubSeq(file, 1, k), file[k + 1].at,
                                       file[k + 1].seq, file[k + 1].gen)
             /\ length' = file[k + 1].at + 1
  /\ synced' = length'
  /\ UNCHANGED <<unsynced, issued>>

(* pin_event_log_open when the file cannot be opened: a log in memory only. *)
OpenWithoutFile ==
  /\ ~up
  /\ up' = TRUE /\ fd' = FALSE
  /\ ring' = EmptyRing /\ head' = 0 /\ used' = 0
  /\ newest' = 0 /\ oldest' = 1 /\ generation' = 1
  /\ unsynced' = 0
  /\ UNCHANGED <<file, length, synced, issued>>

FaultNext == Next \/ AppendTorn \/ PowerLoss \/ OpenWithoutFile

FaultSpec == Init /\ [][FaultNext]_vars

-----------------------------------------------------------------------------
(* Properties.                                                             *)

(* Oldest to newest, the slots in use hold consecutive sequence numbers    *)
(* that end at newest_seq, so the window test and the replay loops of      *)
(* apply_resume agree on which events can be served.  The index            *)
(* arithmetic, the eviction and the replay on open all take part.          *)
WindowConsecutive ==
  up => \A i \in 0 .. used - 1 : ring[SlotOf(head, used, i)] = newest - used + 1 + i

(* No two events of a log ever carry the same generation and sequence      *)
(* number: a cursor handed to a client before a restart cannot name a      *)
(* different event after it (event_log.h:23).                              *)
CursorUnique ==
  \A i, j \in 1 .. Len(issued) : issued[i] = issued[j] => i = j

(* A process that opens the log continues where the last one stopped: the  *)
(* newest sequence number is that of the last event ever appended, and     *)
(* some of the window is back (event_log.h:53).  Each line must fit the    *)
(* tail that is read.                                                      *)
ReopenRestores ==
  up /\ issued # <<>> => newest = issued[Len(issued)].seq /\ used > 0

(* Whatever the file system did to the lines, the cursors of an open log   *)
(* describe its slots: newest_seq is in the slot before head, oldest_seq   *)
(* in the oldest slot, every slot in use holds an event and no other does. *)
CursorsDescribeRing ==
  up => /\ used = Cardinality({j \in Slots : ring[j] > 0})
        /\ used > 0 => /\ ring[SlotOf(head, used, used - 1)] = newest
                       /\ ring[SlotOf(head, used, 0)] = oldest
        /\ used = 0 => newest = 0

(* EventLog implements EventWindow: the window is the ring read from its   *)
(* oldest slot.                                                            *)
RingWindow == [i \in 1 .. used |-> ring[SlotOf(head, used, i - 1)]]

Window == INSTANCE EventWindow WITH window <- RingWindow

WindowSpec == Window!Spec
=============================================================================
