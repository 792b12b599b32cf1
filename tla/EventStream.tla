----------------------------- MODULE EventStream -----------------------------
(***************************************************************************)
(* Fan-out of an open event log: producers that append and broadcast,      *)
(* subscribers that attach with a cursor, are brought up to date and then  *)
(* receive live events (src/src/event_log.c).                              *)
(*                                                                         *)
(* The log is reduced to its window oldest .. newest, which EventLog shows *)
(* the ring to hold.  The steps are those the locks leave: an append under *)
(* the write lock, each send to one subscriber after it, and, on the       *)
(* subscriber's thread, the registration, the reading of the cursors, the  *)
(* replay under the read lock and the serving loop.                        *)
(***************************************************************************)
EXTENDS Integers, FiniteSets, Sequences, SequencesExt

CONSTANTS
  Cap,            (* Slots of the ring.                                    *)
  Producers,      (* Threads that append: readers, tailer, handlers.       *)
  Subscribers,    (* Connections, each of which attaches at most once.     *)
  Published,      (* Events in the log when the behaviour starts.          *)
  MaxEvents,      (* Bound: sequence number of the last append.            *)
  Cursors,        (* Cursors clients name: -1 live only, 0 everything.     *)
  Idle            (* No broadcast in progress.                             *)

(* A broadcast in progress: the event and the subscribers left. *)
Job == [seq : Nat, to : Seq(Subscribers)]

ASSUME EventStreamAssumption ==
  /\ Cap \in Nat \ {0}
  /\ Published \in Nat
  /\ MaxEvents \in Nat
  /\ Cursors \subseteq Int
  /\ Idle \notin Job

VARIABLES
  newest,         (* Sequence number of the last event appended.           *)
  subs,           (* Registered subscribers, in order of registration.     *)
  job,            (* Each producer's broadcast.                            *)
  pc,             (* Where each subscriber's thread is.                    *)
  stale,          (* The subscriber named a generation the log is not in.  *)
  after,          (* The cursor the subscriber resumes from.               *)
  stamp,          (* oldest and newest as apply_resume read them.          *)
  plan,           (* What is left to replay, or the rendered snapshot.     *)
  connected,      (* The client has not closed the connection.             *)
  dead,           (* A write to the subscriber failed.                     *)
  got,            (* Frames the client received.                           *)
  owed            (* History: events the subscriber must receive.          *)

subscriber == <<pc, stale, after, stamp, plan, dead, got, owed>>
vars == <<newest, subs, job, connected, subscriber>>

(* Oldest sequence number in the ring; 1 while there is none. *)
OldestOf(n) == IF n > Cap THEN n - Cap + 1 ELSE 1

oldest == OldestOf(newest)

Stages == {"away", "registered", "resetting", "resuming", "replaying",
           "snapshot", "live", "leaving", "gone"}

(* An event is sent live or replayed; a snapshot covers the events from lo *)
(* to hi; a cursor_reset carries no event.                                 *)
Frame == [kind : {"live", "replay", "snapshot", "reset"}, lo : Nat, hi : Nat]

Reset == [kind |-> "reset", lo |-> 1, hi |-> 0]

EventFrame(kind, seq) == [kind |-> kind, lo |-> seq, hi |-> seq]

Covers(frame, seq) == frame.lo <= seq /\ seq <= frame.hi

TypeOK ==
  /\ newest \in Nat
  /\ subs \in Seq(Subscribers)
  /\ job \in [Producers -> Job \cup {Idle}]
  /\ pc \in [Subscribers -> Stages]
  /\ stale \in [Subscribers -> BOOLEAN]
  /\ after \in [Subscribers -> Int]
  /\ stamp \in [Subscribers -> [oldest : Nat, newest : Nat]]
  /\ plan \in [Subscribers -> [lo : Nat, hi : Nat]]
  /\ connected \in [Subscribers -> BOOLEAN]
  /\ dead \in [Subscribers -> BOOLEAN]
  /\ got \in [Subscribers -> Seq(Frame)]
  /\ owed \in [Subscribers -> SUBSET Nat]

Init ==
  /\ newest = Published
  /\ subs = <<>>
  /\ job = [p \in Producers |-> Idle]
  /\ pc = [s \in Subscribers |-> "away"]
  /\ stale = [s \in Subscribers |-> FALSE]
  /\ after = [s \in Subscribers |-> 0]
  /\ stamp = [s \in Subscribers |-> [oldest |-> 0, newest |-> 0]]
  /\ plan = [s \in Subscribers |-> [lo |-> 1, hi |-> 0]]
  /\ connected = [s \in Subscribers |-> TRUE]
  /\ dead = [s \in Subscribers |-> FALSE]
  /\ got = [s \in Subscribers |-> <<>>]
  /\ owed = [s \in Subscribers |-> {}]

-----------------------------------------------------------------------------
(* sub_send_event: under the subscriber's fd_mu, a frame goes out, or the  *)
(* subscriber is marked dead: its client is gone, or too slow for the      *)
(* timeout of the socket.                                                  *)
Send(s, frame) ==
  \/ /\ connected[s]
     /\ got' = [got EXCEPT ![s] = Append(@, frame)]
     /\ UNCHANGED dead
  \/ /\ dead' = [dead EXCEPT ![s] = TRUE]
     /\ UNCHANGED got

-----------------------------------------------------------------------------
(* Producers.                                                              *)

(* The read lock is held while a subscriber replays. *)
WriteLockFree == \A s \in Subscribers : pc[s] # "replaying"

(* An audience that forgets the subscriber that came last, for comparison. *)
AudienceShort == IF subs = <<>> THEN subs ELSE Front(subs)

(* The subscribers an append will send to: those registered at that time.  *)
Audience == subs

(* pin_event_log_append under the write lock: the event enters the ring    *)
(* and the subscriber list is copied.  An event is owed to every           *)
(* subscriber registered by then.                                          *)
BeginAppend(p) ==
  /\ job[p] = Idle
  /\ newest < MaxEvents
  /\ WriteLockFree
  /\ newest' = newest + 1
  /\ job' = [job EXCEPT ![p] = [seq |-> newest + 1, to |-> Audience]]
  /\ owed' = [s \in Subscribers |->
                IF Contains(subs, s) THEN owed[s] \cup {newest + 1} ELSE owed[s]]
  /\ UNCHANGED <<subs, connected, pc, stale, after, stamp, plan, dead, got>>

(* The broadcast after the lock was released, one subscriber at a time.    *)
(* One marked dead is passed over.                                         *)
SendNext(p) ==
  /\ job[p] # Idle
  /\ job[p].to # <<>>
  /\ LET s == Head(job[p].to) IN
       IF dead[s] THEN UNCHANGED <<dead, got>>
                  ELSE Send(s, EventFrame("live", job[p].seq))
  /\ job' = [job EXCEPT ![p].to = Tail(@)]
  /\ UNCHANGED <<newest, subs, connected, pc, stale, after, stamp, plan, owed>>

EndAppend(p) ==
  /\ job[p] # Idle
  /\ job[p].to = <<>>
  /\ job' = [job EXCEPT ![p] = Idle]
  /\ UNCHANGED <<newest, subs, connected, subscriber>>

-----------------------------------------------------------------------------
(* Subscribers.                                                            *)

Goto(s, stage) == pc' = [pc EXCEPT ![s] = stage]

(* subs_register, with the cursor and generation of the request. *)
Register(s) ==
  /\ pc[s] = "away"
  /\ WriteLockFree
  /\ \E cursor \in Cursors, wrong \in BOOLEAN :
       /\ after' = [after EXCEPT ![s] = cursor]
       /\ stale' = [stale EXCEPT ![s] = wrong]
  /\ subs' = Append(subs, s)
  /\ Goto(s, "registered")
  /\ UNCHANGED <<newest, job, connected, stamp, plan, dead, got, owed>>

(* A resumption that goes straight to the replay, for comparison. *)
StageAfterStampUntold(s) == "resuming"

StageAfterStamp(s) == IF stale[s] THEN "resetting" ELSE "resuming"

(* apply_resume reads the cursors under the read lock and releases it. A   *)
(* stale generation turns the request into one for the whole ring.         *)
Stamp(s) ==
  /\ pc[s] = "registered"
  /\ stamp' = [stamp EXCEPT ![s] = [oldest |-> oldest, newest |-> newest]]
  /\ Goto(s, StageAfterStamp(s))
  /\ UNCHANGED <<newest, subs, job, connected, stale, after, plan, dead, got, owed>>

ResetStale(s) ==
  /\ pc[s] = "resetting"
  /\ Send(s, Reset)
  /\ after' = [after EXCEPT ![s] = 0]
  /\ Goto(s, "resuming")
  /\ UNCHANGED <<newest, subs, job, connected, stale, stamp, plan, owed>>

(* Which way the cursor is served. *)
LiveOnly(s)  == after[s] < 0
Everything(s) == after[s] = 0
Future(s)    == after[s] > stamp[s].newest
InWindow(s)  == after[s] > 0 /\ ~Future(s) /\ after[s] >= stamp[s].oldest
TooOld(s)    == after[s] > 0 /\ ~Future(s) /\ after[s] < stamp[s].oldest

GoLive(s) ==
  /\ pc[s] = "resuming"
  /\ LiveOnly(s)
  /\ Goto(s, "live")
  /\ UNCHANGED <<newest, subs, job, connected, stale, after, stamp, plan, dead, got, owed>>

ResetFuture(s) ==
  /\ pc[s] = "resuming"
  /\ Future(s)
  /\ Send(s, Reset)
  /\ Goto(s, "live")
  /\ UNCHANGED <<newest, subs, job, connected, stale, after, stamp, plan, owed>>

(* A replay that starts one event late, for comparison. *)
ReplayRangeLate(s) ==
  IF Everything(s)
    THEN [lo |-> oldest, hi |-> newest]
    ELSE [lo |-> IF after[s] + 2 > oldest THEN after[s] + 2 ELSE oldest,
          hi |-> stamp[s].newest]

(* The events of the ring a replay under the read lock will send: all of   *)
(* them, or those after the cursor that the stamp knew of.                 *)
ReplayRange(s) ==
  IF Everything(s)
    THEN [lo |-> oldest, hi |-> newest]
    ELSE [lo |-> IF after[s] + 1 > oldest THEN after[s] + 1 ELSE oldest,
          hi |-> stamp[s].newest]

(* What the resumption owes the subscriber: the part of the ring that the  *)
(* replay finds.  Events evicted since the stamp are not part of it.       *)
OwedByReplay(s) ==
  IF Everything(s) THEN oldest .. newest
  ELSE {q \in after[s] + 1 .. stamp[s].newest : q >= oldest}

BeginReplay(s) ==
  /\ pc[s] = "resuming"
  /\ Everything(s) \/ InWindow(s)
  /\ plan' = [plan EXCEPT ![s] = ReplayRange(s)]
  /\ owed' = [owed EXCEPT ![s] = @ \cup OwedByReplay(s)]
  /\ Goto(s, "replaying")
  /\ UNCHANGED <<newest, subs, job, connected, stale, after, stamp, dead, got>>

(* A replay loop that does not move on, for comparison. *)
SlotAfterSame(seq) == seq

(* A loop that runs from the newest slot down, for comparison. *)
SlotAfterBack(seq) == seq - 1

SlotAfter(seq) == seq + 1

ReplayNext(s) ==
  /\ pc[s] = "replaying"
  /\ plan[s].lo <= plan[s].hi
  /\ Send(s, EventFrame("replay", plan[s].lo))
  /\ plan' = [plan EXCEPT ![s].lo = SlotAfter(@)]
  /\ UNCHANGED <<newest, subs, job, connected, pc, stale, after, stamp, owed>>

EndReplay(s) ==
  /\ pc[s] = "replaying"
  /\ plan[s].lo > plan[s].hi
  /\ Goto(s, "live")
  /\ UNCHANGED <<newest, subs, job, connected, stale, after, stamp, plan, dead, got, owed>>

(* The whole ring is rendered under the read lock and sent after it. *)
RenderSnapshot(s) ==
  /\ pc[s] = "resuming"
  /\ TooOld(s)
  /\ plan' = [plan EXCEPT ![s] = [lo |-> oldest, hi |-> newest]]
  /\ owed' = [owed EXCEPT ![s] = @ \cup (oldest .. newest)]
  /\ Goto(s, "snapshot")
  /\ UNCHANGED <<newest, subs, job, connected, stale, after, stamp, dead, got>>

(* The snapshot is written directly: nobody notices when this write fails. *)
SendSnapshot(s) ==
  /\ pc[s] = "snapshot"
  /\ \/ /\ connected[s]
        /\ got' = [got EXCEPT ![s] = Append(@, [kind |-> "snapshot",
                                               lo |-> plan[s].lo, hi |-> plan[s].hi])]
     \/ UNCHANGED got
  /\ Goto(s, "live")
  /\ UNCHANGED <<newest, subs, job, connected, stale, after, stamp, plan, dead, owed>>

(* A loop that relies on failed writes alone, for comparison. *)
MustLeaveIfDead(s) == dead[s]

MustLeave(s) == dead[s] \/ ~connected[s]

(* The serving loop ends when it finds the subscriber dead or its client   *)
(* gone.                                                                   *)
Notice(s) ==
  /\ pc[s] = "live"
  /\ MustLeave(s)
  /\ Goto(s, "leaving")
  /\ UNCHANGED <<newest, subs, job, connected, stale, after, stamp, plan, dead, got, owed>>

(* Unregistration under the write lock: the subscriber is taken out of the *)
(* list, then it is freed.                                                 *)
Unregister(s) ==
  /\ pc[s] = "leaving"
  /\ WriteLockFree
  /\ \E i \in 1 .. Len(subs) : subs[i] = s /\ subs' = RemoveAt(subs, i)
  /\ Goto(s, "gone")
  /\ UNCHANGED <<newest, job, connected, stale, after, stamp, plan, dead, got, owed>>

(* The client closes the connection at any time. *)
Disconnect(s) ==
  /\ connected[s]
  /\ pc[s] \notin {"away", "gone"}
  /\ connected' = [connected EXCEPT ![s] = FALSE]
  /\ UNCHANGED <<newest, subs, job, subscriber>>

-----------------------------------------------------------------------------
Produce(p) == BeginAppend(p) \/ SendNext(p) \/ EndAppend(p)

Resume(s) ==
  \/ Stamp(s) \/ ResetStale(s) \/ GoLive(s) \/ ResetFuture(s)
  \/ BeginReplay(s) \/ ReplayNext(s) \/ EndReplay(s)
  \/ RenderSnapshot(s) \/ SendSnapshot(s)

Leave(s) == Notice(s) \/ Unregister(s)

Next ==
  \/ \E p \in Producers : Produce(p)
  \/ \E s \in Subscribers : Register(s) \/ Resume(s) \/ Leave(s) \/ Disconnect(s)

Spec == Init /\ [][Next]_vars

(* The threads are scheduled, and socket writes end: each has a send       *)
(* timeout (http.c:39).                                                    *)
Fairness ==
  /\ \A p \in Producers : WF_vars(SendNext(p) \/ EndAppend(p))
  /\ \A s \in Subscribers : WF_vars(Resume(s)) /\ WF_vars(Leave(s))

FairSpec == Spec /\ Fairness

-----------------------------------------------------------------------------
(* Properties.                                                             *)

PendingFor(s) == \E p \in Producers : job[p] # Idle /\ Contains(job[p].to, s)

Received(s) == {q \in 1 .. newest : \E i \in 1 .. Len(got[s]) : Covers(got[s][i], q)}

Copies(s, kind, q) == Cardinality({i \in 1 .. Len(got[s]) : got[s][i] = EventFrame(kind, q)})

(* The events of a snapshot whose write failed. *)
SnapshotLost(s) ==
  IF TooOld(s) /\ ~\E i \in 1 .. Len(got[s]) : got[s][i].kind = "snapshot"
    THEN plan[s].lo .. plan[s].hi ELSE {}

(* A connected subscriber that is live and not given up, with no broadcast *)
(* on its way to it, has every event it is owed: those appended since it   *)
(* registered and those its cursor asked for that the replay still found   *)
(* in the ring, save a snapshot whose write failed.  Registration before   *)
(* the stamp is what makes this hold (event_log.c:705).                    *)
NothingMissed ==
  \A s \in Subscribers :
    pc[s] = "live" /\ connected[s] /\ ~dead[s] /\ ~PendingFor(s) =>
      owed[s] \subseteq Received(s) \cup SnapshotLost(s)

(* However the attach interleaves with appends, no event is sent live      *)
(* twice nor replayed twice to a subscriber; it may be sent once each way. *)
AtMostOneCopyEachWay ==
  \A s \in Subscribers, q \in 1 .. newest :
    Copies(s, "live", q) <= 1 /\ Copies(s, "replay", q) <= 1

(* A subscriber with the wrong generation is told before anything is       *)
(* replayed to it, unless its connection is given up anyway, and is never  *)
(* served a snapshot of the sequence it did not know.                      *)
StaleToldFirst ==
  \A s \in Subscribers : stale[s] =>
    \A i \in 1 .. Len(got[s]) :
      /\ got[s][i].kind = "replay" /\ ~dead[s] => \E j \in 1 .. i - 1 : got[s][j] = Reset
      /\ got[s][i].kind # "snapshot"

(* Every event appended reaches every subscriber registered at that time,  *)
(* or that subscriber's client is gone or given up.                        *)
EventuallyDelivered ==
  \A s \in Subscribers, q \in 1 .. MaxEvents :
    (q \in owed[s]) ~>
      (q \in Received(s) \cup SnapshotLost(s) \/ ~connected[s] \/ dead[s])

(* A subscriber whose client is gone, or too slow, is removed from the     *)
(* list.                                                                   *)
EventuallyUnregistered ==
  \A s \in Subscribers : (~connected[s] \/ dead[s]) ~> ~Contains(subs, s)

(* A producer only writes to subscribers that are still registered         *)
(* (event_log.c:31).                                                       *)
BroadcastToRegistered ==
  \A p \in Producers : job[p] # Idle /\ job[p].to # <<>> =>
    LET s == Head(job[p].to) IN dead[s] \/ pc[s] # "gone"
=============================================================================
