-------------------------- MODULE EventStreamProofs --------------------------
(***************************************************************************)
(* Safety of EventStream, for any ring, any producers and subscribers, any *)
(* cursors and any number of events.                                       *)
(*                                                                         *)
(* The argument: an event that is owed to a subscriber is somewhere on its *)
(* way to it until it is received, in a broadcast, in a replay or in a     *)
(* snapshot (OnItsWay); events under way to it live are not yet received   *)
(* live, and those still to be replayed not yet replayed (LiveOnce,        *)
(* ReplayOnce); and a stale subscriber that has passed the reset is served *)
(* everything, so never a snapshot (StaleServed).                          *)
(***************************************************************************)
EXTENDS EventStream, FiniteSetTheorems, SequenceTheorems, TLAPS

(* Windows and cursors stay within what was appended. *)
PlanFits(s) ==
  /\ stamp[s].newest <= newest
  /\ plan[s].lo >= 1 /\ plan[s].hi <= newest
  /\ owed[s] \subseteq 1 .. newest

ListsSound ==
  /\ \A i, j \in 1 .. Len(subs) : subs[i] = subs[j] => i = j
  /\ \A i \in 1 .. Len(subs) : pc[subs[i]] # "away"

JobSound(p) ==
  job[p] # Idle =>
    /\ job[p].seq \in 1 .. newest
    /\ \A i, j \in 1 .. Len(job[p].to) : job[p].to[i] = job[p].to[j] => i = j
    /\ \A o \in Producers : job[o] # Idle /\ job[o].seq = job[p].seq => o = p

Bounds ==
  /\ \A s \in Subscribers : PlanFits(s)
  /\ ListsSound
  /\ \A p \in Producers : JobSound(p)

(* A broadcast of the event still has to come to the subscriber. *)
Coming(s, q) ==
  \E p \in Producers : job[p] # Idle /\ job[p].seq = q /\ Contains(job[p].to, s)

InPlan(s, q) ==
  pc[s] \in {"replaying", "snapshot"} /\ plan[s].lo <= q /\ q <= plan[s].hi

GotIt(s, q) == \E i \in 1 .. Len(got[s]) : Covers(got[s][i], q)

OnItsWay(s) ==
  connected[s] /\ ~dead[s] =>
    \A q \in owed[s] : GotIt(s, q) \/ Coming(s, q) \/ InPlan(s, q) \/ q \in SnapshotLost(s)

Unserved == {"away", "registered", "resetting", "resuming"}

(* What a subscriber has not been sent at its stage. *)
Unsent(s) ==
  /\ pc[s] \in Unserved => plan[s].lo > plan[s].hi
  /\ pc[s] = "snapshot" => TooOld(s)
  /\ pc[s] \in Unserved \cup {"replaying", "snapshot"} =>
       \A i \in 1 .. Len(got[s]) : got[s][i].kind # "snapshot"
  /\ pc[s] = "replaying" => ~TooOld(s)

LiveOnce(s) ==
  \A i \in 1 .. Len(got[s]) : got[s][i].kind = "live" =>
    /\ got[s][i].lo <= newest
    /\ ~Coming(s, got[s][i].lo)
    /\ \A j \in 1 .. Len(got[s]) : got[s][j] = got[s][i] => j = i

ReplayOnce(s) ==
  \A i \in 1 .. Len(got[s]) : got[s][i].kind = "replay" =>
    /\ pc[s] \notin Unserved
    /\ pc[s] = "replaying" => got[s][i].lo < plan[s].lo
    /\ \A j \in 1 .. Len(got[s]) : got[s][j] = got[s][i] => j = i

Told(s) == \E j \in 1 .. Len(got[s]) : got[s][j] = Reset

StaleServed(s) ==
  stale[s] /\ pc[s] \notin {"registered", "resetting"} =>
    /\ after[s] = 0
    /\ dead[s] \/ Told(s)

(* StaleToldFirst, for one subscriber. *)
ToldFirst(s) ==
  stale[s] =>
    \A i \in 1 .. Len(got[s]) :
      /\ got[s][i].kind = "replay" /\ ~dead[s] => \E j \in 1 .. i - 1 : got[s][j] = Reset
      /\ got[s][i].kind # "snapshot"

Serving(s) ==
  /\ Unsent(s)
  /\ OnItsWay(s)
  /\ LiveOnce(s)
  /\ ReplayOnce(s)
  /\ StaleServed(s)
  /\ ToldFirst(s)

Inv == TypeOK /\ Bounds /\ \A s \in Subscribers : Serving(s)

-----------------------------------------------------------------------------
USE EventStreamAssumption

LEMMA Removal ==
  ASSUME NEW S, NEW q \in Seq(S), NEW i \in 1 .. Len(q)
  PROVE  /\ RemoveAt(q, i) \in Seq(S)
         /\ Len(RemoveAt(q, i)) = Len(q) - 1
         /\ \A j \in 1 .. Len(q) - 1 : RemoveAt(q, i)[j] = IF j < i THEN q[j] ELSE q[j + 1]
  <1> DEFINE a == SubSeq(q, 1, i - 1)
             b == SubSeq(q, i + 1, Len(q))
  <1>1. Len(q) \in Nat /\ \A j \in 1 .. Len(q) : q[j] \in S
    OBVIOUS
  <1>2. a \in Seq(S) /\ Len(a) = i - 1 /\ \A j \in 1 .. i - 1 : a[j] = q[j]
    BY <1>1, SubSeqProperties, SMTT(30)
  <1>3. b \in Seq(S) /\ Len(b) = Len(q) - i /\ \A j \in 1 .. Len(q) - i : b[j] = q[i + j]
    BY <1>1, SubSeqProperties, SMTT(30)
  <1> HIDE DEF a, b
  <1>4. /\ a \o b \in Seq(S) /\ Len(a \o b) = Len(a) + Len(b)
        /\ \A j \in 1 .. Len(a) + Len(b) :
             (a \o b)[j] = IF j <= Len(a) THEN a[j] ELSE b[j - Len(a)]
    <2>1. a \in Seq(S) /\ b \in Seq(S)
      BY <1>2, <1>3
    <2> QED BY <2>1, ConcatProperties
  <1>5. RemoveAt(q, i) = a \o b
    BY DEF RemoveAt, a, b
  <1>6. RemoveAt(q, i) \in Seq(S) /\ Len(RemoveAt(q, i)) = Len(q) - 1
    BY <1>1, <1>2, <1>3, <1>4, <1>5
  <1>7. ASSUME NEW j \in 1 .. Len(q) - 1
        PROVE  RemoveAt(q, i)[j] = IF j < i THEN q[j] ELSE q[j + 1]
    <2>1. CASE j < i
      BY <1>1, <1>2, <1>3, <1>4, <1>5, <2>1
    <2>2. CASE j >= i
      <3>1. (a \o b)[j] = b[j - (i - 1)]
        BY <1>1, <1>2, <1>3, <1>4, <2>2
      <3>2. b[j - (i - 1)] = q[i + (j - (i - 1))]
        BY <1>1, <1>3, <2>2
      <3>3. i + (j - (i - 1)) = j + 1
        OBVIOUS
      <3> QED BY <1>5, <2>2, <3>1, <3>2, <3>3
    <2> QED BY <1>1, <2>1, <2>2
  <1> QED BY <1>6, <1>7

LEMMA OldestFits ==
  ASSUME NEW n \in Nat
  PROVE  OldestOf(n) \in Nat /\ OldestOf(n) >= 1
  BY DEF OldestOf

(* The last element of a sequence that grew. *)
LEMMA Grown ==
  ASSUME NEW S, NEW q \in Seq(S), NEW x \in S
  PROVE  /\ Append(q, x) \in Seq(S)
         /\ Len(Append(q, x)) = Len(q) + 1
         /\ Len(q) \in Nat
         /\ Append(q, x)[Len(q) + 1] = x
         /\ \A i \in 1 .. Len(q) : Append(q, x)[i] = q[i]
  OBVIOUS

LEMMA Shrunk ==
  ASSUME NEW S, NEW q \in Seq(S), q # <<>>
  PROVE  /\ Head(q) \in S /\ Head(q) = q[1] /\ Tail(q) \in Seq(S)
         /\ Len(q) \in Nat \ {0} /\ Len(Tail(q)) = Len(q) - 1
         /\ \A i \in 1 .. Len(q) - 1 : Tail(q)[i] = q[i + 1]
  OBVIOUS

LEMMA FrameTypes ==
  ASSUME NEW q \in Nat, NEW kind \in {"live", "replay"}
  PROVE  /\ EventFrame(kind, q) \in Frame
         /\ EventFrame(kind, q).kind = kind /\ EventFrame(kind, q).lo = q
         /\ Covers(EventFrame(kind, q), q)
         /\ Reset \in Frame /\ Reset.kind = "reset"
  BY DEF EventFrame, Frame, Covers, Reset

LEMMA SubscriberTypes ==
  ASSUME TypeOK, NEW s \in Subscribers
  PROVE  /\ pc[s] \in Stages /\ stale[s] \in BOOLEAN /\ after[s] \in Int
         /\ stamp[s].oldest \in Nat /\ stamp[s].newest \in Nat
         /\ plan[s].lo \in Nat /\ plan[s].hi \in Nat
         /\ plan[s] \in [lo : Nat, hi : Nat]
         /\ got[s] \in Seq(Frame) /\ Len(got[s]) \in Nat /\ owed[s] \in SUBSET Nat
         /\ \A i \in 1 .. Len(got[s]) :
              /\ got[s][i] \in Frame
              /\ got[s][i].lo \in Nat /\ got[s][i].hi \in Nat
  <1>1. got[s] \in Seq(Frame)
    BY DEF TypeOK
  <1>2. \A i \in 1 .. Len(got[s]) : got[s][i] \in Frame
    BY <1>1
  <1>3. \A i \in 1 .. Len(got[s]) : got[s][i].lo \in Nat /\ got[s][i].hi \in Nat
    BY <1>2 DEF Frame
  <1>4. stamp[s] \in [oldest : Nat, newest : Nat] /\ plan[s] \in [lo : Nat, hi : Nat]
    BY DEF TypeOK
  <1>5. /\ pc[s] \in Stages /\ stale[s] \in BOOLEAN /\ after[s] \in Int
        /\ owed[s] \in SUBSET Nat
    BY DEF TypeOK
  <1>6. Len(got[s]) \in Nat
    BY <1>1
  <1> QED BY <1>1, <1>2, <1>3, <1>4, <1>5, <1>6

LEMMA JobTypes ==
  ASSUME TypeOK, NEW p \in Producers, job[p] # Idle
  PROVE  job[p] \in Job /\ job[p].seq \in Nat /\ job[p].to \in Seq(Subscribers)
  BY DEF TypeOK, Job

(* What a send does: the frame arrives or the subscriber is given up. *)
LEMMA Sent ==
  ASSUME TypeOK, NEW s \in Subscribers, NEW frame \in Frame, Send(s, frame)
  PROVE  /\ dead' \in [Subscribers -> BOOLEAN] /\ got' \in [Subscribers -> Seq(Frame)]
         /\ \A t \in Subscribers \ {s} : dead'[t] = dead[t] /\ got'[t] = got[t]
         /\ \/ got'[s] = Append(got[s], frame) /\ dead'[s] = dead[s]
            \/ got'[s] = got[s] /\ dead'[s] = TRUE
         /\ dead[s] => dead'[s]
  <1>1. /\ dead \in [Subscribers -> BOOLEAN] /\ got \in [Subscribers -> Seq(Frame)]
        /\ got[s] \in Seq(Frame)
    BY DEF TypeOK
  <1>2. CASE dead' = dead /\ got' = [got EXCEPT ![s] = Append(@, frame)]
    <2>1. Append(got[s], frame) \in Seq(Frame)
      BY <1>1
    <2> HIDE DEF Frame
    <2> QED BY <1>1, <1>2, <2>1
  <1>3. CASE dead' = [dead EXCEPT ![s] = TRUE] /\ got' = got
    BY <1>1, <1>3
  <1> QED BY <1>2, <1>3 DEF Send

-----------------------------------------------------------------------------
(* Types.                                                                  *)

LEMMA TypeInit == Init => TypeOK
  BY DEF Init, TypeOK, Job, Stages

LEMMA ProduceTypes ==
  ASSUME TypeOK, NEW p \in Producers, Produce(p)
  PROVE  TypeOK'
  <1>1. CASE BeginAppend(p)
    <2>1. [seq |-> newest + 1, to |-> Audience] \in Job
      BY DEF TypeOK, Job, Audience
    <2>2. job' \in [Producers -> Job \cup {Idle}]
      BY <1>1, <2>1 DEF BeginAppend, TypeOK
    <2>3. owed' \in [Subscribers -> SUBSET Nat]
      BY <1>1 DEF BeginAppend, TypeOK
    <2> QED BY <1>1, <2>2, <2>3 DEF BeginAppend, TypeOK
  <1>2. CASE SendNext(p)
    <2> DEFINE s == Head(job[p].to)
    <2>1. /\ job[p] \in Job /\ job[p].seq \in Nat
          /\ s \in Subscribers /\ Tail(job[p].to) \in Seq(Subscribers)
      BY <1>2, JobTypes, Shrunk DEF SendNext
    <2>2. job' \in [Producers -> Job \cup {Idle}]
      <3>1. job' = [job EXCEPT ![p].to = Tail(@)]
        BY <1>2 DEF SendNext
      <3>2. [job[p] EXCEPT !.to = Tail(@)] \in Job
        BY <2>1 DEF Job
      <3> QED BY <3>1, <3>2 DEF TypeOK
    <2>3. dead' \in [Subscribers -> BOOLEAN] /\ got' \in [Subscribers -> Seq(Frame)]
      <3>1. CASE dead[s]
        BY <1>2, <3>1 DEF SendNext, TypeOK
      <3>2. CASE ~dead[s]
        BY <1>2, <2>1, <3>2, Sent, FrameTypes DEF SendNext
      <3> QED BY <3>1, <3>2
    <2> QED BY <1>2, <2>2, <2>3 DEF SendNext, TypeOK
  <1>3. CASE EndAppend(p)
    BY <1>3 DEF EndAppend, TypeOK, subscriber
  <1> QED BY <1>1, <1>2, <1>3 DEF Produce

LEMMA GotoTypes ==
  ASSUME TypeOK, NEW s \in Subscribers, NEW stage \in Stages, Goto(s, stage)
  PROVE  /\ pc' \in [Subscribers -> Stages] /\ pc'[s] = stage
         /\ \A t \in Subscribers \ {s} : pc'[t] = pc[t]
  BY DEF TypeOK, Goto

LEMMA ReplayRangeFits ==
  ASSUME TypeOK, NEW s \in Subscribers, Everything(s) \/ InWindow(s)
  PROVE  /\ ReplayRange(s) \in [lo : Nat, hi : Nat]
         /\ ReplayRange(s).lo >= 1
         /\ stamp[s].newest <= newest => ReplayRange(s).hi <= newest
  <1>1. oldest \in Nat /\ oldest >= 1 /\ newest \in Nat
    BY OldestFits DEF TypeOK, oldest
  <1> QED BY <1>1, SubscriberTypes DEF ReplayRange, Everything, InWindow

LEMMA SubscribeTypes ==
  ASSUME TypeOK, NEW s \in Subscribers, Register(s) \/ Resume(s) \/ Leave(s) \/ Disconnect(s)
  PROVE  TypeOK'
  <1>1. CASE Register(s)
    <2>1. pc' \in [Subscribers -> Stages]
      BY <1>1, GotoTypes DEF Register, Stages
    <2>2. subs' \in Seq(Subscribers)
      BY <1>1 DEF Register, TypeOK
    <2>3. after' \in [Subscribers -> Int] /\ stale' \in [Subscribers -> BOOLEAN]
      BY <1>1 DEF Register, TypeOK
    <2> QED BY <1>1, <2>1, <2>2, <2>3 DEF Register, TypeOK
  <1>2. CASE Stamp(s)
    <2>1. pc' \in [Subscribers -> Stages]
      BY <1>2, GotoTypes DEF Stamp, Stages, StageAfterStamp
    <2>2. stamp' \in [Subscribers -> [oldest : Nat, newest : Nat]]
      BY <1>2, OldestFits DEF Stamp, TypeOK, oldest
    <2> QED BY <1>2, <2>1, <2>2 DEF Stamp, TypeOK
  <1>3. CASE ResetStale(s)
    <2>1. pc' \in [Subscribers -> Stages]
      BY <1>3, GotoTypes DEF ResetStale, Stages
    <2>2. dead' \in [Subscribers -> BOOLEAN] /\ got' \in [Subscribers -> Seq(Frame)]
      BY <1>3, Sent, FrameTypes DEF ResetStale
    <2>3. after' \in [Subscribers -> Int]
      BY <1>3 DEF ResetStale, TypeOK
    <2> QED BY <1>3, <2>1, <2>2, <2>3 DEF ResetStale, TypeOK
  <1>4. CASE GoLive(s)
    BY <1>4, GotoTypes DEF GoLive, Stages, TypeOK
  <1>5. CASE ResetFuture(s)
    <2>1. pc' \in [Subscribers -> Stages]
      BY <1>5, GotoTypes DEF ResetFuture, Stages
    <2>2. dead' \in [Subscribers -> BOOLEAN] /\ got' \in [Subscribers -> Seq(Frame)]
      BY <1>5, Sent, FrameTypes DEF ResetFuture
    <2> QED BY <1>5, <2>1, <2>2 DEF ResetFuture, TypeOK
  <1>6. CASE BeginReplay(s)
    <2>1. pc' \in [Subscribers -> Stages]
      BY <1>6, GotoTypes DEF BeginReplay, Stages
    <2>2. plan' \in [Subscribers -> [lo : Nat, hi : Nat]]
      BY <1>6, ReplayRangeFits DEF BeginReplay, TypeOK
    <2>3. OwedByReplay(s) \subseteq Nat
      <3>1. oldest \in Nat
        BY OldestFits DEF TypeOK, oldest
      <3> QED BY <1>6, <3>1, SubscriberTypes
              DEF OwedByReplay, TypeOK, BeginReplay, Everything, InWindow
    <2>4. owed' \in [Subscribers -> SUBSET Nat]
      BY <1>6, <2>3 DEF BeginReplay, TypeOK
    <2> QED BY <1>6, <2>1, <2>2, <2>4 DEF BeginReplay, TypeOK
  <1>7. CASE ReplayNext(s)
    <2>1. plan[s].lo \in Nat
      BY SubscriberTypes
    <2>2. plan' \in [Subscribers -> [lo : Nat, hi : Nat]]
      <3>1. [plan[s] EXCEPT !.lo = plan[s].lo + 1] \in [lo : Nat, hi : Nat]
        BY <2>1, SubscriberTypes
      <3>2. plan' = [plan EXCEPT ![s] = [plan[s] EXCEPT !.lo = plan[s].lo + 1]]
        BY <1>7 DEF ReplayNext, SlotAfter
      <3> QED BY <3>1, <3>2 DEF TypeOK
    <2>3. dead' \in [Subscribers -> BOOLEAN] /\ got' \in [Subscribers -> Seq(Frame)]
      BY <1>7, <2>1, Sent, FrameTypes DEF ReplayNext
    <2> QED BY <1>7, <2>2, <2>3 DEF ReplayNext, TypeOK
  <1>8. CASE EndReplay(s)
    BY <1>8, GotoTypes DEF EndReplay, Stages, TypeOK
  <1>9. CASE RenderSnapshot(s)
    <2>1. pc' \in [Subscribers -> Stages] /\ oldest \in Nat
      BY <1>9, GotoTypes, OldestFits DEF RenderSnapshot, Stages, TypeOK, oldest
    <2>2. plan' \in [Subscribers -> [lo : Nat, hi : Nat]] /\ owed' \in [Subscribers -> SUBSET Nat]
      BY <1>9, <2>1 DEF RenderSnapshot, TypeOK
    <2> QED BY <1>9, <2>1, <2>2 DEF RenderSnapshot, TypeOK
  <1>10. CASE SendSnapshot(s)
    <2> DEFINE frame == [kind |-> "snapshot", lo |-> plan[s].lo, hi |-> plan[s].hi]
    <2>1. pc' \in [Subscribers -> Stages]
      BY <1>10, GotoTypes DEF SendSnapshot, Stages
    <2>2. frame \in Frame
      BY SubscriberTypes DEF Frame
    <2>3. got' \in [Subscribers -> Seq(Frame)]
      <3>1. got' = got \/ got' = [got EXCEPT ![s] = Append(@, frame)]
        BY <1>10 DEF SendSnapshot
      <3>2. Append(got[s], frame) \in Seq(Frame)
        BY <2>2, SubscriberTypes
      <3> HIDE DEF frame
      <3> QED BY <3>1, <3>2 DEF TypeOK
    <2> QED BY <1>10, <2>1, <2>3 DEF SendSnapshot, TypeOK
  <1>11. CASE Notice(s)
    BY <1>11, GotoTypes DEF Notice, Stages, TypeOK
  <1>12. CASE Unregister(s)
    <2>1. pc' \in [Subscribers -> Stages]
      BY <1>12, GotoTypes DEF Unregister, Stages
    <2>2. subs' \in Seq(Subscribers)
      BY <1>12, Removal DEF Unregister, TypeOK
    <2> QED BY <1>12, <2>1, <2>2 DEF Unregister, TypeOK
  <1>13. CASE Disconnect(s)
    BY <1>13 DEF Disconnect, subscriber, TypeOK
  <1> QED BY <1>1, <1>2, <1>3, <1>4, <1>5, <1>6, <1>7, <1>8, <1>9, <1>10, <1>11, <1>12, <1>13
          DEF Resume, Leave

LEMMA TypeNext == TypeOK /\ [Next]_vars => TypeOK'
  <1>1. TypeOK /\ Next => TypeOK'
    BY ProduceTypes, SubscribeTypes DEF Next
  <1>2. TypeOK /\ UNCHANGED vars => TypeOK'
    BY DEF vars, subscriber, TypeOK
  <1> QED BY <1>1, <1>2

-----------------------------------------------------------------------------
(* Bounds.                                                                 *)

LEMMA BoundsInit == Init => Bounds
  BY DEF Init, Bounds, PlanFits, ListsSound, JobSound

LEMMA ProduceBounds ==
  ASSUME TypeOK, Bounds, NEW p \in Producers, Produce(p)
  PROVE  Bounds'
  <1> USE DEF Bounds
  <1>1. CASE BeginAppend(p)
    <2>1. newest \in Nat /\ newest' = newest + 1 /\ subs' = subs /\ pc' = pc
      BY <1>1 DEF BeginAppend, TypeOK
    <2>2. ListsSound'
      BY <2>1 DEF ListsSound
    <2>3. ASSUME NEW s \in Subscribers PROVE PlanFits(s)'
      <3>1. owed'[s] \subseteq owed[s] \cup {newest + 1}
        BY <1>1 DEF BeginAppend
      <3>2. stamp' = stamp /\ plan' = plan
        BY <1>1 DEF BeginAppend
      <3> QED BY <2>1, <3>1, <3>2, SubscriberTypes DEF PlanFits
    <2>4. ASSUME NEW o \in Producers PROVE JobSound(o)'
      <3>1. job'[p] = [seq |-> newest + 1, to |-> subs]
        BY <1>1 DEF BeginAppend, Audience, TypeOK
      <3>2. \A x \in Producers \ {p} : job'[x] = job[x]
        BY <1>1 DEF BeginAppend, TypeOK
      <3>3. \A x \in Producers \ {p} : job[x] # Idle => job[x].seq # newest + 1
        BY <2>1 DEF JobSound
      <3>4. job'[p].seq = newest + 1 /\ job'[p].to = subs
        BY <3>1
      <3>5. CASE o = p
        BY <2>1, <3>2, <3>3, <3>4, <3>5 DEF JobSound, ListsSound
      <3>6. CASE o # p
        BY <2>1, <3>2, <3>3, <3>4, <3>6 DEF JobSound
      <3> QED BY <3>5, <3>6
    <2> QED BY <2>2, <2>3, <2>4
  <1>2. CASE SendNext(p)
    <2>1. UNCHANGED <<newest, subs, pc, stamp, plan, owed>>
      BY <1>2 DEF SendNext
    <2>2. ListsSound' /\ \A s \in Subscribers : PlanFits(s)'
      BY <2>1 DEF ListsSound, PlanFits
    <2>3. job[p] \in Job /\ job[p] # Idle /\ job[p].to \in Seq(Subscribers) /\ job[p].to # <<>>
      BY <1>2, JobTypes DEF SendNext
    <2>4. /\ job'[p].seq = job[p].seq /\ job'[p].to = Tail(job[p].to)
          /\ \A x \in Producers \ {p} : job'[x] = job[x]
      BY <1>2, <2>3 DEF SendNext, TypeOK, Job
    <2>5. ASSUME NEW o \in Producers PROVE JobSound(o)'
      <3>1. CASE o = p
        <4>1. \A i, j \in 1 .. Len(job'[p].to) : job'[p].to[i] = job'[p].to[j] => i = j
          BY <2>3, <2>4, Shrunk DEF JobSound
        <4>2. job[p].seq \in 1 .. newest'
          BY <2>1, <2>3 DEF JobSound
        <4>3. \A x \in Producers \ {p} : ~(job[x] # Idle /\ job[x].seq = job[p].seq)
          BY <2>3 DEF JobSound
        <4>4. \A x \in Producers \ {p} : ~(job'[x] # Idle /\ job'[x].seq = job'[p].seq)
          BY <2>4, <4>3
        <4> QED BY <2>4, <3>1, <4>1, <4>2, <4>4 DEF JobSound
      <3>2. CASE o # p
        <4>1. job'[o] = job[o] /\ newest' = newest
          BY <2>1, <2>4, <3>2
        <4>2. \A x \in Producers : job'[x] # Idle /\ job'[x].seq = job[o].seq =>
                                      job[x] # Idle /\ job[x].seq = job[o].seq
          BY <2>3, <2>4
        <4> QED BY <4>1, <4>2 DEF JobSound
      <3> QED BY <3>1, <3>2
    <2> QED BY <2>2, <2>5
  <1>3. CASE EndAppend(p)
    <2>1. UNCHANGED <<newest, subs, pc, stamp, plan, owed>>
      BY <1>3 DEF EndAppend, subscriber
    <2>2. ListsSound' /\ \A s \in Subscribers : PlanFits(s)'
      BY <2>1 DEF ListsSound, PlanFits
    <2>3. job'[p] = Idle /\ \A x \in Producers \ {p} : job'[x] = job[x]
      BY <1>3 DEF EndAppend, TypeOK
    <2>4. \A o \in Producers : JobSound(o)'
      BY <2>1, <2>3 DEF JobSound
    <2> QED BY <2>2, <2>4
  <1> QED BY <1>1, <1>2, <1>3 DEF Produce

LEMMA SubscribeBounds ==
  ASSUME TypeOK, Bounds, NEW s \in Subscribers,
         Register(s) \/ Resume(s) \/ Leave(s) \/ Disconnect(s)
  PROVE  Bounds'
  <1> USE DEF Bounds
  <1>1. job' = job /\ newest' = newest /\ newest \in Nat
    BY DEF Register, Resume, Leave, Disconnect, Stamp, ResetStale, GoLive, ResetFuture,
           BeginReplay, ReplayNext, EndReplay, RenderSnapshot, SendSnapshot, Notice,
           Unregister, subscriber, TypeOK
  <1>2. \A p \in Producers : JobSound(p)'
    BY <1>1 DEF JobSound
  <1>3. ListsSound'
    <2>1. subs \in Seq(Subscribers) /\ Len(subs) \in Nat
      BY DEF TypeOK
    <2>2. CASE Register(s)
      <3>1. subs' = Append(subs, s) /\ pc[s] = "away"
        BY <2>2 DEF Register
      <3>2. \A t \in Subscribers : pc'[t] = IF t = s THEN "registered" ELSE pc[t]
        BY <2>2 DEF Register, Goto, TypeOK
      <3>3. \A i \in 1 .. Len(subs) : subs[i] \in Subscribers /\ subs[i] # s
        BY <2>1, <3>1 DEF ListsSound
      <3>4. /\ Len(subs') = Len(subs) + 1 /\ subs'[Len(subs) + 1] = s
            /\ \A i \in 1 .. Len(subs) : subs'[i] = subs[i]
        BY <2>1, <3>1, Grown
      <3> QED BY <2>1, <3>2, <3>3, <3>4 DEF ListsSound
    <2>3. CASE Unregister(s)
      <3>1. PICK i \in 1 .. Len(subs) : subs[i] = s /\ subs' = RemoveAt(subs, i)
        BY <2>3 DEF Unregister
      <3>2. /\ Len(subs') = Len(subs) - 1
            /\ \A j \in 1 .. Len(subs) - 1 : subs'[j] = IF j < i THEN subs[j] ELSE subs[j + 1]
        BY <2>1, <3>1, Removal
      <3>3. \A t \in Subscribers : pc'[t] = IF t = s THEN "gone" ELSE pc[t]
        BY <2>3 DEF Unregister, Goto, TypeOK
      <3>4. \A j \in 1 .. Len(subs) : subs[j] \in Subscribers
        BY <2>1
      <3>5. \A j \in 1 .. Len(subs') : pc'[subs'[j]] # "away"
        BY <2>1, <3>2, <3>3, <3>4 DEF ListsSound
      <3>6. ASSUME NEW j \in 1 .. Len(subs'), NEW k \in 1 .. Len(subs'), subs'[j] = subs'[k]
            PROVE  j = k
        <4> DEFINE At(x) == IF x < i THEN x ELSE x + 1
        <4>1. At(j) \in 1 .. Len(subs) /\ At(k) \in 1 .. Len(subs)
          BY <2>1, <3>2
        <4>2. subs[At(j)] = subs[At(k)]
          BY <3>2, <3>6
        <4>3. At(j) = At(k)
          BY <4>1, <4>2 DEF ListsSound
        <4> QED BY <2>1, <3>2, <4>3
      <3> QED BY <3>5, <3>6 DEF ListsSound
    <2>4. CASE Resume(s) \/ Notice(s) \/ Disconnect(s)
      <3>1. subs' = subs
        BY <2>4 DEF Resume, Disconnect, Stamp, ResetStale, GoLive, ResetFuture, BeginReplay,
                    ReplayNext, EndReplay, RenderSnapshot, SendSnapshot, Notice
      <3>2. \A t \in Subscribers : pc'[t] = "away" => pc[t] = "away"
        BY <2>4 DEF Resume, Disconnect, Stamp, ResetStale, GoLive, ResetFuture, BeginReplay,
                    ReplayNext, EndReplay, RenderSnapshot, SendSnapshot, Notice, Goto,
                    StageAfterStamp, subscriber, TypeOK
      <3> QED BY <2>1, <3>1, <3>2 DEF ListsSound
    <2> QED BY <2>2, <2>3, <2>4 DEF Leave
  <1>4. ASSUME NEW t \in Subscribers PROVE PlanFits(t)'
    <2>1. oldest \in Nat /\ oldest >= 1
      BY OldestFits DEF TypeOK, oldest
    <2>2. PlanFits(t) /\ stamp \in [Subscribers -> [oldest : Nat, newest : Nat]]
          /\ plan \in [Subscribers -> [lo : Nat, hi : Nat]] /\ owed \in [Subscribers -> SUBSET Nat]
      BY DEF TypeOK
    <2>3. CASE Stamp(s)
      <3>1. stamp'[t].newest <= newest /\ plan' = plan /\ owed' = owed
        BY <1>1, <2>2, <2>3 DEF Stamp, PlanFits
      <3> QED BY <1>1, <2>2, <3>1 DEF PlanFits
    <2>4. CASE BeginReplay(s)
      <3>1. stamp' = stamp /\ (Everything(s) \/ InWindow(s))
        BY <2>4 DEF BeginReplay
      <3>2. plan'[t] = IF t = s THEN ReplayRange(s) ELSE plan[t]
        BY <2>2, <2>4 DEF BeginReplay
      <3>3. owed'[t] = IF t = s THEN owed[s] \cup OwedByReplay(s) ELSE owed[t]
        BY <2>2, <2>4 DEF BeginReplay
      <3>4. PlanFits(s) /\ stamp[s].newest <= newest
        BY DEF PlanFits
      <3>5. ReplayRange(s).lo >= 1 /\ ReplayRange(s).hi <= newest
        BY <3>1, <3>4, ReplayRangeFits
      <3>6. OwedByReplay(s) \subseteq 1 .. newest
        BY <1>1, <2>1, <3>1, <3>4, SubscriberTypes DEF OwedByReplay, Everything, InWindow
      <3> QED BY <1>1, <2>2, <3>1, <3>2, <3>3, <3>4, <3>5, <3>6 DEF PlanFits
    <2>5. CASE RenderSnapshot(s)
      <3>1. stamp' = stamp
        BY <2>5 DEF RenderSnapshot
      <3>2. plan'[t] = IF t = s THEN [lo |-> oldest, hi |-> newest] ELSE plan[t]
        BY <2>2, <2>5 DEF RenderSnapshot
      <3>3. owed'[t] = IF t = s THEN owed[s] \cup (oldest .. newest) ELSE owed[t]
        BY <2>2, <2>5 DEF RenderSnapshot
      <3>4. oldest .. newest \subseteq 1 .. newest
        BY <1>1, <2>1
      <3> QED BY <1>1, <2>1, <2>2, <3>1, <3>2, <3>3, <3>4 DEF PlanFits
    <2>6. CASE ReplayNext(s)
      <3>1. stamp' = stamp /\ owed' = owed
        BY <2>6 DEF ReplayNext
      <3>2. plan'[t].hi = plan[t].hi /\ plan'[t].lo \in {plan[t].lo, plan[t].lo + 1}
        BY <2>2, <2>6 DEF ReplayNext, SlotAfter
      <3> QED BY <1>1, <2>2, <3>1, <3>2, SubscriberTypes DEF PlanFits
    <2>7. CASE \/ Register(s) \/ ResetStale(s) \/ GoLive(s) \/ ResetFuture(s) \/ EndReplay(s)
               \/ SendSnapshot(s) \/ Leave(s) \/ Disconnect(s)
      <3>1. stamp' = stamp /\ plan' = plan /\ owed' = owed
        BY <2>7 DEF Register, ResetStale, GoLive, ResetFuture, EndReplay, SendSnapshot, Leave,
                    Notice, Unregister, Disconnect, subscriber
      <3> QED BY <1>1, <2>2, <3>1 DEF PlanFits
    <2> QED BY <2>3, <2>4, <2>5, <2>6, <2>7 DEF Resume
  <1> QED BY <1>2, <1>3, <1>4

LEMMA BoundsNext == TypeOK /\ Bounds /\ [Next]_vars => Bounds'
  <1>1. TypeOK /\ Bounds /\ Next => Bounds'
    BY ProduceBounds, SubscribeBounds DEF Next
  <1>2. Bounds /\ UNCHANGED vars => Bounds'
    BY DEF vars, subscriber, Bounds, PlanFits, ListsSound, JobSound
  <1> QED BY <1>1, <1>2

-----------------------------------------------------------------------------
(* What is on its way, and what was served.                                *)

LEMMA ServingInit == Init => \A s \in Subscribers : Serving(s)
  <1> SUFFICES ASSUME Init, NEW s \in Subscribers PROVE Serving(s)
    OBVIOUS
  <1>1. /\ pc[s] = "away" /\ got[s] = <<>> /\ owed[s] = {} /\ stale[s] = FALSE
        /\ plan[s].lo = 1 /\ plan[s].hi = 0
    BY DEF Init
  <1>2. \A i : i \notin 1 .. Len(got[s])
    BY <1>1
  <1> QED BY <1>1, <1>2 DEF Serving, Unsent, OnItsWay, LiveOnce, ReplayOnce, StaleServed,
                            ToldFirst, Unserved

(* A step that leaves a subscriber where it is, and only adds what comes.  *)
LEMMA Steady ==
  ASSUME TypeOK, TypeOK', NEW s \in Subscribers, Serving(s),
         pc'[s] = pc[s], stale'[s] = stale[s], after'[s] = after[s], stamp'[s] = stamp[s],
         plan'[s] = plan[s], got'[s] = got[s],
         connected'[s] => connected[s], dead[s] => dead'[s], newest' >= newest,
         \A q \in Nat : q <= newest /\ Coming(s, q)' => Coming(s, q),
         connected'[s] /\ ~dead'[s] =>
           /\ \A q \in owed[s] : Coming(s, q) => Coming(s, q)'
           /\ \A q \in owed'[s] : q \in owed[s] \/ Coming(s, q)'
  PROVE  Serving(s)'
  <1>1. newest \in Nat /\ newest' \in Nat
    BY DEF TypeOK
  <1>2. TooOld(s)' <=> TooOld(s)
    BY DEF TooOld, Future
  <1>3. SnapshotLost(s)' = SnapshotLost(s)
    BY <1>2 DEF SnapshotLost
  <1>4. Unsent(s)'
    BY <1>2 DEF Serving, Unsent
  <1>5. OnItsWay(s)'
    <2>1. SUFFICES ASSUME connected'[s], ~dead'[s], NEW q \in owed'[s]
                   PROVE  GotIt(s, q)' \/ Coming(s, q)' \/ InPlan(s, q)' \/ q \in SnapshotLost(s)'
      BY DEF OnItsWay
    <2>2. CASE q \in owed[s]
      <3>1. GotIt(s, q) \/ Coming(s, q) \/ InPlan(s, q) \/ q \in SnapshotLost(s)
        BY <2>1, <2>2 DEF Serving, OnItsWay
      <3>2. (GotIt(s, q) => GotIt(s, q)') /\ (InPlan(s, q) => InPlan(s, q)')
        BY DEF GotIt, InPlan
      <3> QED BY <1>3, <2>1, <2>2, <3>1, <3>2
    <2> QED BY <2>1, <2>2
  <1>6. LiveOnce(s)'
    <2>1. SUFFICES ASSUME NEW i \in 1 .. Len(got[s]), got[s][i].kind = "live",
                          NEW q \in Nat, q = got[s][i].lo
                   PROVE  /\ q <= newest'
                          /\ ~Coming(s, q)'
                          /\ \A j \in 1 .. Len(got[s]) : got[s][j] = got[s][i] => j = i
      BY SubscriberTypes DEF LiveOnce, Coming
    <2>2. /\ q <= newest /\ ~Coming(s, q)
          /\ \A j \in 1 .. Len(got[s]) : got[s][j] = got[s][i] => j = i
      BY <2>1 DEF Serving, LiveOnce
    <2> QED BY <1>1, <2>2
  <1>7. ReplayOnce(s)'
    BY DEF Serving, ReplayOnce
  <1>8. StaleServed(s)'
    BY DEF Serving, StaleServed, Told
  <1>9. ToldFirst(s)'
    BY DEF Serving, ToldFirst
  <1> QED BY <1>4, <1>5, <1>6, <1>7, <1>8, <1>9 DEF Serving

LEMMA JobsKept ==
  ASSUME NEW s \in Subscribers, job' = job
  PROVE  \A q : Coming(s, q)' <=> Coming(s, q)
  BY DEF Coming

LEMMA SendKept ==
  ASSUME TypeOK, NEW s \in Subscribers, NEW p \in Producers, SendNext(p)
  PROVE  /\ \A q : Coming(s, q)' => Coming(s, q)
         /\ \A q : Coming(s, q) => Coming(s, q)' \/ (q = job[p].seq /\ s = Head(job[p].to))
  <1>1. job[p] \in Job /\ job[p] # Idle /\ job[p].to \in Seq(Subscribers) /\ job[p].to # <<>>
    BY JobTypes DEF SendNext
  <1>2. /\ job'[p] # Idle /\ job'[p].seq = job[p].seq /\ job'[p].to = Tail(job[p].to)
        /\ \A x \in Producers \ {p} : job'[x] = job[x]
    <2>1. [job[p] EXCEPT !.to = Tail(@)] \in Job
      BY <1>1, Shrunk DEF Job
    <2>2. job' = [job EXCEPT ![p] = [job[p] EXCEPT !.to = Tail(@)]]
      BY DEF SendNext
    <2> QED BY <1>1, <2>1, <2>2 DEF TypeOK, Job
  <1> DEFINE q0 == job[p].to
  <1>3. /\ Head(q0) = q0[1] /\ Len(Tail(q0)) = Len(q0) - 1 /\ Len(q0) \in Nat
        /\ \A i \in 1 .. Len(q0) - 1 : Tail(q0)[i] = q0[i + 1]
    BY <1>1, Shrunk
  <1>4. Contains(Tail(q0), s) => Contains(q0, s)
    BY <1>3 DEF Contains
  <1>5. Contains(q0, s) => Contains(Tail(q0), s) \/ s = Head(q0)
    <2>1. SUFFICES ASSUME NEW i \in 1 .. Len(q0), q0[i] = s, i # 1
                   PROVE  Contains(Tail(q0), s)
      BY <1>3 DEF Contains
    <2>2. i - 1 \in 1 .. Len(q0) - 1 /\ Tail(q0)[i - 1] = q0[i]
      BY <1>3, <2>1
    <2> QED BY <1>3, <2>1, <2>2 DEF Contains
  <1> HIDE DEF q0
  <1>6. job[p].to = q0
    BY DEF q0
  <1>7. \A q : Coming(s, q)' => Coming(s, q)
    BY <1>1, <1>2, <1>4, <1>6 DEF Coming
  <1>8. \A q : Coming(s, q) => Coming(s, q)' \/ (q = job[p].seq /\ s = Head(job[p].to))
    BY <1>1, <1>2, <1>5, <1>6 DEF Coming
  <1> QED BY <1>7, <1>8

LEMMA BeginServes ==
  ASSUME TypeOK, TypeOK', Bounds, NEW p \in Producers, BeginAppend(p),
         NEW s \in Subscribers, Serving(s)
  PROVE  Serving(s)'
  <1>1. /\ UNCHANGED <<subs, connected, pc, stale, after, stamp, plan, dead, got>>
        /\ newest \in Nat /\ newest' = newest + 1 /\ job[p] = Idle
    BY DEF BeginAppend, TypeOK
  <1>2. /\ job'[p].seq = newest + 1 /\ job'[p].to = subs /\ job'[p] # Idle
        /\ \A x \in Producers \ {p} : job'[x] = job[x]
    <2>1. job'[p] = [seq |-> newest + 1, to |-> subs]
      BY DEF BeginAppend, Audience, TypeOK
    <2>2. [seq |-> newest + 1, to |-> subs] \in Job
      <3>1. newest + 1 \in Nat /\ subs \in Seq(Subscribers)
        BY DEF TypeOK
      <3> QED BY <3>1 DEF Job
    <2>3. job'[p] # Idle
      BY <2>1, <2>2, EventStreamAssumption
    <2>4. \A x \in Producers \ {p} : job'[x] = job[x]
      BY DEF BeginAppend, TypeOK
    <2>5. job'[p].seq = newest + 1 /\ job'[p].to = subs
      BY <2>1
    <2> QED BY <2>3, <2>4, <2>5
  <1>3. \A q : Coming(s, q) => Coming(s, q)'
    BY <1>1, <1>2 DEF Coming
  <1>4. \A q \in Nat : q <= newest /\ Coming(s, q)' => Coming(s, q)
    BY <1>1, <1>2 DEF Coming
  <1>5. \A q \in owed'[s] : q \in owed[s] \/ Coming(s, q)'
    <2>1. CASE Contains(subs, s)
      <3>1. owed'[s] = owed[s] \cup {newest + 1}
        BY <2>1 DEF BeginAppend
      <3>2. \A q : q = newest + 1 => Coming(s, q)'
        BY <1>2, <2>1 DEF Coming
      <3> QED BY <3>1, <3>2
    <2>2. CASE ~Contains(subs, s)
      BY <2>2 DEF BeginAppend
    <2> QED BY <2>1, <2>2
  <1> QED BY <1>1, <1>3, <1>4, <1>5, Steady

LEMMA SendServes ==
  ASSUME TypeOK, TypeOK', Bounds, NEW p \in Producers, SendNext(p),
         NEW s \in Subscribers, Serving(s)
  PROVE  Serving(s)'
  <1> DEFINE t == Head(job[p].to)
             seq == job[p].seq
             frame == EventFrame("live", seq)
  <1>1. /\ UNCHANGED <<newest, subs, connected, pc, stale, after, stamp, plan, owed>>
        /\ newest \in Nat
    BY DEF SendNext, TypeOK
  <1>2. /\ job[p] \in Job /\ job[p] # Idle /\ seq \in 1 .. newest
        /\ job[p].to \in Seq(Subscribers) /\ job[p].to # <<>> /\ t \in Subscribers
    BY JobTypes, Shrunk DEF SendNext, Bounds, JobSound
  <1>3. frame \in Frame /\ frame.kind = "live" /\ frame.lo = seq /\ Covers(frame, seq)
    BY <1>2, FrameTypes
  <1>4. /\ \A q : Coming(s, q)' => Coming(s, q)
        /\ \A q : Coming(s, q) => Coming(s, q)' \/ (q = seq /\ s = t)
    BY SendKept
  <1>5. /\ \A u \in Subscribers \ {t} : dead'[u] = dead[u] /\ got'[u] = got[u]
        /\ \/ got'[t] = Append(got[t], frame) /\ dead'[t] = dead[t] /\ ~dead[t]
           \/ got'[t] = got[t] /\ dead'[t] = TRUE
    <2>1. CASE dead[t]
      BY <2>1 DEF SendNext, TypeOK
    <2>2. CASE ~dead[t]
      BY <1>2, <1>3, <2>2, Sent DEF SendNext
    <2> QED BY <2>1, <2>2
  <1> HIDE DEF t, seq, frame
  <1>6. CASE s # t
    <2>1. dead'[s] = dead[s] /\ got'[s] = got[s]
      BY <1>5, <1>6
    <2> QED BY <1>1, <1>4, <1>6, <2>1, Steady
  <1>7. CASE s = t /\ got'[t] = got[t] /\ dead'[t] = TRUE
    BY <1>1, <1>4, <1>7, Steady
  <1>8. CASE s = t /\ got'[t] = Append(got[t], frame) /\ dead'[t] = dead[t] /\ ~dead[t]
    <2> DEFINE n == Len(got[s]) + 1
    <2>1. /\ Len(got'[s]) = n /\ Len(got[s]) \in Nat /\ got'[s][n] = frame
          /\ \A i \in 1 .. Len(got[s]) : got'[s][i] = got[s][i]
      BY <1>3, <1>8, Grown, SubscriberTypes
    <2>2. \A i \in 1 .. n : i = n \/ i \in 1 .. Len(got[s])
      BY <2>1
    <2>3. n \in 1 .. n /\ \A i \in 1 .. Len(got[s]) : i \in 1 .. n /\ i # n
      BY <2>1
    <2>4. \A q : q = seq => ~Coming(s, q)'
      <3>1. ~Contains(Tail(job[p].to), s)
        BY <1>2, <1>8, Shrunk DEF Bounds, JobSound, Contains, t
      <3>2. /\ job'[p].to = Tail(job[p].to)
            /\ \A x \in Producers \ {p} : job'[x] = job[x]
        BY <1>2 DEF SendNext, TypeOK, Job
      <3>3. \A x \in Producers \ {p} : job[x] # Idle => job[x].seq # seq
        BY <1>2 DEF Bounds, JobSound, seq
      <3> QED BY <3>1, <3>2, <3>3 DEF Coming
    <2>5. Coming(s, seq)
      BY <1>2, <1>8, Shrunk DEF Coming, Contains, seq, t
    <2>6. (TooOld(s)' <=> TooOld(s)) /\ Len(got'[s]) = n
      BY <1>1, <2>1 DEF TooOld, Future
    <2>7. SnapshotLost(s)' = SnapshotLost(s)
      BY <1>1, <1>3, <2>1, <2>2, <2>3, <2>6 DEF SnapshotLost
    <2>8. Unsent(s)'
      BY <1>1, <1>3, <2>1, <2>2, <2>6 DEF Serving, Unsent
    <2>9. OnItsWay(s)'
      <3>1. SUFFICES ASSUME connected[s], ~dead[s], NEW q \in owed[s]
                     PROVE  GotIt(s, q)' \/ Coming(s, q)' \/ InPlan(s, q)' \/ q \in SnapshotLost(s)'
        BY <1>1, <1>8 DEF OnItsWay
      <3>2. GotIt(s, q) \/ Coming(s, q) \/ InPlan(s, q) \/ q \in SnapshotLost(s)
        BY <3>1 DEF Serving, OnItsWay
      <3>3. InPlan(s, q) => InPlan(s, q)'
        BY <1>1 DEF InPlan
      <3>4. GotIt(s, q) => GotIt(s, q)'
        BY <2>1, <2>3 DEF GotIt
      <3>5. q = seq => GotIt(s, q)'
        BY <1>3, <2>1, <2>3 DEF GotIt
      <3> QED BY <1>4, <2>7, <3>2, <3>3, <3>4, <3>5
    <2>10. LiveOnce(s)'
      <3>1. \A i \in 1 .. Len(got[s]) : got[s][i] # frame
        BY <1>3, <2>5 DEF Serving, LiveOnce
      <3>2. ASSUME NEW i \in 1 .. n, got'[s][i].kind = "live", NEW q \in Nat, q = got'[s][i].lo
            PROVE  /\ q <= newest'
                   /\ ~Coming(s, q)'
                   /\ \A j \in 1 .. n : got'[s][j] = got'[s][i] => j = i
        <4>1. CASE i = n
          <5>1. got'[s][i] = frame /\ q = seq /\ q <= newest'
            BY <1>1, <1>2, <1>3, <2>1, <3>2, <4>1
          <5>2. ASSUME NEW j \in 1 .. n, got'[s][j] = frame PROVE j = n
            <6>1. j \notin 1 .. Len(got[s])
              BY <2>1, <3>1, <5>2
            <6> QED BY <2>2, <6>1
          <5> QED BY <2>4, <4>1, <5>1, <5>2
        <4>2. CASE i \in 1 .. Len(got[s])
          <5>1. /\ q <= newest /\ ~Coming(s, q)
                /\ \A j \in 1 .. Len(got[s]) : got[s][j] = got[s][i] => j = i
            BY <2>1, <3>2, <4>2 DEF Serving, LiveOnce
          <5>2. \A j \in 1 .. n : got'[s][j] = got'[s][i] => j = i
            BY <2>1, <2>2, <3>1, <4>2, <5>1
          <5> QED BY <1>1, <1>4, <5>1, <5>2
        <4> QED BY <2>2, <4>1, <4>2
      <3>3. \A i \in 1 .. n : got'[s][i].lo \in Nat
        <4>1. frame.lo \in Nat
          BY <1>1, <1>2, <1>3
        <4>2. \A i \in 1 .. Len(got[s]) : got[s][i].lo \in Nat
          BY SubscriberTypes
        <4> QED BY <2>1, <2>2, <4>1, <4>2
      <3> QED BY <2>1, <3>2, <3>3 DEF LiveOnce
    <2>11. ReplayOnce(s)'
      BY <1>1, <1>3, <2>1, <2>2 DEF Serving, ReplayOnce
    <2>12. StaleServed(s)'
      BY <1>1, <1>8, <2>1, <2>3 DEF Serving, StaleServed, Told
    <2>13. ToldFirst(s)'
      <3>1. SUFFICES ASSUME stale[s], NEW i \in 1 .. n
                     PROVE  /\ got'[s][i].kind = "replay" /\ ~dead[s] =>
                                 \E j \in 1 .. i - 1 : got'[s][j] = Reset
                            /\ got'[s][i].kind # "snapshot"
        BY <1>1, <1>8, <2>1 DEF ToldFirst
      <3>2. CASE i = n
        BY <1>3, <2>1, <3>2
      <3>3. CASE i \in 1 .. Len(got[s])
        <4>1. \A j \in 1 .. i - 1 : j \in 1 .. Len(got[s])
          BY <2>1, <3>3
        <4> QED BY <2>1, <3>1, <3>3, <4>1 DEF Serving, ToldFirst
      <3> QED BY <2>2, <3>2, <3>3
    <2> QED BY <2>8, <2>9, <2>10, <2>11, <2>12, <2>13 DEF Serving
  <1> QED BY <1>5, <1>6, <1>7, <1>8

LEMMA EndServes ==
  ASSUME TypeOK, TypeOK', NEW p \in Producers, EndAppend(p),
         NEW s \in Subscribers, Serving(s)
  PROVE  Serving(s)'
  <1>1. UNCHANGED <<newest, subs, connected, pc, stale, after, stamp, plan, dead, got, owed>>
    BY DEF EndAppend, subscriber
  <1>2. \A q : Coming(s, q)' <=> Coming(s, q)
    <2>1. /\ job'[p] = Idle /\ \A x \in Producers \ {p} : job'[x] = job[x]
          /\ job[p].to \in Seq(Subscribers) /\ job[p].to = <<>>
      BY JobTypes DEF EndAppend, TypeOK
    <2>2. ~Contains(job[p].to, s)
      BY <2>1 DEF Contains
    <2> QED BY <2>1, <2>2 DEF Coming
  <1>3. newest' >= newest
    BY <1>1 DEF TypeOK
  <1> QED BY <1>1, <1>2, <1>3, Steady

-----------------------------------------------------------------------------
(* A subscriber's own steps.                                               *)

(* The client received nothing, or one frame of these kinds. *)
Received1(s, kinds) ==
  \/ got'[s] = got[s]
  \/ \E f \in Frame : f.kind \in kinds /\ got'[s] = Append(got[s], f)

AllKinds == {"live", "replay", "snapshot", "reset"}

LEMMA OneMore ==
  ASSUME TypeOK, NEW s \in Subscribers, NEW f \in Frame, got'[s] = Append(got[s], f)
  PROVE  /\ Len(got[s]) \in Nat /\ Len(got'[s]) = Len(got[s]) + 1
         /\ got'[s][Len(got[s]) + 1] = f
         /\ \A i \in 1 .. Len(got[s]) : got'[s][i] = got[s][i] /\ i \in 1 .. Len(got'[s])
         /\ \A i \in 1 .. Len(got'[s]) : i = Len(got[s]) + 1 \/ i \in 1 .. Len(got[s])
         /\ Len(got[s]) + 1 \in 1 .. Len(got'[s])
  <1>1. got[s] \in Seq(Frame) /\ Len(got[s]) \in Nat
    BY SubscriberTypes
  <1>2. /\ Len(got'[s]) = Len(got[s]) + 1 /\ got'[s][Len(got[s]) + 1] = f
        /\ \A i \in 1 .. Len(got[s]) : got'[s][i] = got[s][i]
    BY <1>1, Grown
  <1> QED BY <1>1, <1>2

LEMMA LiveOnceKept ==
  ASSUME TypeOK, NEW s \in Subscribers, LiveOnce(s), job' = job, newest' = newest,
         Received1(s, {"replay", "snapshot", "reset"})
  PROVE  LiveOnce(s)'
  <1>1. CASE got'[s] = got[s]
    BY <1>1 DEF LiveOnce, Coming
  <1>2. CASE got'[s] # got[s]
    <2>1. PICK f \in Frame : f.kind # "live" /\ got'[s] = Append(got[s], f)
      BY <1>2 DEF Received1
    <2>2. SUFFICES ASSUME NEW i \in 1 .. Len(got'[s]), got'[s][i].kind = "live"
                   PROVE  /\ got'[s][i].lo <= newest
                          /\ \A q : q = got'[s][i].lo => ~Coming(s, q)
                          /\ \A j \in 1 .. Len(got'[s]) : got'[s][j] = got'[s][i] => j = i
      BY DEF LiveOnce, Coming
    <2>3. i \in 1 .. Len(got[s]) /\ got'[s][i] = got[s][i]
      BY <2>1, <2>2, OneMore
    <2>4. /\ got[s][i].lo <= newest /\ ~Coming(s, got[s][i].lo)
          /\ \A j \in 1 .. Len(got[s]) : got[s][j] = got[s][i] => j = i
      BY <2>2, <2>3 DEF LiveOnce
    <2>5. \A j \in 1 .. Len(got'[s]) : got'[s][j] = got'[s][i] => j = i
      BY <2>1, <2>2, <2>3, <2>4, OneMore
    <2> QED BY <2>3, <2>4, <2>5
  <1> QED BY <1>1, <1>2

LEMMA ReplayOnceKept ==
  ASSUME TypeOK, NEW s \in Subscribers, ReplayOnce(s),
         Received1(s, {"live", "snapshot", "reset"}),
         pc'[s] \in Unserved => pc[s] \in Unserved,
         pc'[s] = "replaying" => pc[s] \in Unserved
  PROVE  ReplayOnce(s)'
  <1>1. CASE got'[s] = got[s]
    BY <1>1 DEF ReplayOnce
  <1>2. CASE got'[s] # got[s]
    <2>1. PICK f \in Frame : f.kind # "replay" /\ got'[s] = Append(got[s], f)
      BY <1>2 DEF Received1
    <2>2. SUFFICES ASSUME NEW i \in 1 .. Len(got'[s]), got'[s][i].kind = "replay"
                   PROVE  /\ pc'[s] \notin Unserved
                          /\ pc'[s] = "replaying" => got'[s][i].lo < plan'[s].lo
                          /\ \A j \in 1 .. Len(got'[s]) : got'[s][j] = got'[s][i] => j = i
      BY DEF ReplayOnce, Unserved
    <2>3. i \in 1 .. Len(got[s]) /\ got'[s][i] = got[s][i]
      BY <2>1, <2>2, OneMore
    <2>4. /\ pc[s] \notin Unserved
          /\ \A j \in 1 .. Len(got[s]) : got[s][j] = got[s][i] => j = i
      BY <2>2, <2>3 DEF ReplayOnce
    <2>5. \A j \in 1 .. Len(got'[s]) : got'[s][j] = got'[s][i] => j = i
      BY <2>1, <2>2, <2>3, <2>4, OneMore
    <2> QED BY <2>4, <2>5
  <1> QED BY <1>1, <1>2

LEMMA ToldFirstKept ==
  ASSUME TypeOK, NEW s \in Subscribers, ToldFirst(s), Received1(s, {"live", "reset"}),
         stale'[s] = stale[s], dead[s] => dead'[s]
  PROVE  ToldFirst(s)'
  <1>1. CASE got'[s] = got[s]
    BY <1>1 DEF ToldFirst
  <1>2. CASE got'[s] # got[s]
    <2>1. PICK f \in Frame :
            f.kind \notin {"replay", "snapshot"} /\ got'[s] = Append(got[s], f)
      BY <1>2 DEF Received1
    <2>2. SUFFICES ASSUME stale[s], NEW i \in 1 .. Len(got'[s])
                   PROVE  /\ got'[s][i].kind = "replay" /\ ~dead[s] =>
                               \E j \in 1 .. i - 1 : got'[s][j] = Reset
                          /\ got'[s][i].kind # "snapshot"
      BY DEF ToldFirst
    <2>3. CASE i = Len(got[s]) + 1
      BY <2>1, <2>3, OneMore
    <2>4. CASE i \in 1 .. Len(got[s])
      <3>1. \A j \in 1 .. i - 1 : j \in 1 .. Len(got[s]) /\ got'[s][j] = got[s][j]
        BY <2>1, <2>4, OneMore
      <3>2. got'[s][i] = got[s][i]
        BY <2>1, <2>4, OneMore
      <3> QED BY <2>2, <2>4, <3>1, <3>2 DEF ToldFirst
    <2> QED BY <2>1, <2>3, <2>4, OneMore
  <1> QED BY <1>1, <1>2

LEMMA OnItsWayKept ==
  ASSUME TypeOK, NEW s \in Subscribers, OnItsWay(s), Received1(s, AllKinds),
         connected'[s] => connected[s], dead[s] => dead'[s], job' = job,
         \A q \in owed'[s] : q \in owed[s] \/ InPlan(s, q)',
         \A q \in owed[s] : InPlan(s, q) \/ q \in SnapshotLost(s) =>
           InPlan(s, q)' \/ q \in SnapshotLost(s)' \/ GotIt(s, q)'
  PROVE  OnItsWay(s)'
  <1>1. SUFFICES ASSUME connected[s], ~dead[s], NEW q \in owed[s]
                 PROVE  GotIt(s, q)' \/ Coming(s, q)' \/ InPlan(s, q)' \/ q \in SnapshotLost(s)'
    BY DEF OnItsWay
  <1>2. GotIt(s, q) => GotIt(s, q)'
    <2>1. CASE got'[s] = got[s]
      BY <2>1 DEF GotIt
    <2>2. CASE got'[s] # got[s]
      <3>1. PICK f \in Frame : got'[s] = Append(got[s], f)
        BY <2>2 DEF Received1
      <3> QED BY <3>1, OneMore DEF GotIt
    <2> QED BY <2>1, <2>2
  <1>3. Coming(s, q)' <=> Coming(s, q)
    BY JobsKept
  <1> QED BY <1>1, <1>2, <1>3 DEF OnItsWay

LEMMA ToldKept ==
  ASSUME TypeOK, NEW s \in Subscribers, Received1(s, AllKinds), Told(s)
  PROVE  Told(s)'
  <1>1. CASE got'[s] = got[s]
    BY <1>1 DEF Told
  <1>2. CASE got'[s] # got[s]
    <2>1. PICK f \in Frame : got'[s] = Append(got[s], f)
      BY <1>2 DEF Received1
    <2> QED BY <2>1, OneMore DEF Told
  <1> QED BY <1>1, <1>2

(* Until it is served, a subscriber has nothing planned. *)
LEMMA NothingPlanned ==
  ASSUME TypeOK, NEW s \in Subscribers, plan[s].lo > plan[s].hi
  PROVE  SnapshotLost(s) = {} /\ \A q \in Nat : ~InPlan(s, q)
  BY SubscriberTypes DEF SnapshotLost, InPlan

LEMMA ResetFrame == Reset \in Frame /\ Reset.kind = "reset"
  BY DEF Reset, Frame

(* The steps before anything is served, and the step past a future cursor. *)
LEMMA WaitingServes ==
  ASSUME TypeOK, NEW s \in Subscribers, Serving(s),
         Register(s) \/ Stamp(s) \/ ResetStale(s) \/ GoLive(s) \/ ResetFuture(s)
  PROVE  Serving(s)'
  <1>1. /\ UNCHANGED <<newest, job, connected, plan, owed>>
        /\ pc[s] \in Unserved /\ pc'[s] \in Unserved \cup {"live"}
        /\ pc[s] = "away" => pc'[s] = "registered"
    BY DEF Register, Stamp, ResetStale, GoLive, ResetFuture, Goto, StageAfterStamp, Unserved,
           TypeOK
  <1>2. Received1(s, {"reset"}) /\ (dead[s] => dead'[s])
    <2>1. CASE Register(s) \/ Stamp(s) \/ GoLive(s)
      BY <2>1 DEF Register, Stamp, GoLive, Received1
    <2>2. CASE ResetStale(s) \/ ResetFuture(s)
      BY <2>2, ResetFrame, Sent DEF ResetStale, ResetFuture, Received1
    <2> QED BY <2>1, <2>2
  <1>3. /\ Received1(s, AllKinds) /\ Received1(s, {"live", "reset"})
        /\ Received1(s, {"live", "snapshot", "reset"})
        /\ Received1(s, {"replay", "snapshot", "reset"})
    BY <1>2 DEF Received1, AllKinds
  <1>4. /\ plan[s].lo > plan[s].hi
        /\ \A i \in 1 .. Len(got[s]) : got[s][i].kind # "snapshot" /\ got[s][i].kind # "replay"
    BY <1>1 DEF Serving, Unsent, ReplayOnce
  <1>5. Unsent(s)'
    <2>1. \A i \in 1 .. Len(got'[s]) : got'[s][i].kind # "snapshot"
      <3>1. CASE got'[s] = got[s]
        BY <1>4, <3>1
      <3>2. CASE got'[s] # got[s]
        <4>1. PICK f \in Frame : f.kind = "reset" /\ got'[s] = Append(got[s], f)
          BY <1>2, <3>2 DEF Received1
        <4> QED BY <1>4, <4>1, OneMore
      <3> QED BY <3>1, <3>2
    <2> QED BY <1>1, <1>4, <2>1 DEF Unsent, Unserved
  <1>6. OnItsWay(s)'
    <2>1. \A q \in owed[s] : ~InPlan(s, q) /\ q \notin SnapshotLost(s)
      BY <1>4, NothingPlanned, SubscriberTypes
    <2> QED BY <1>1, <1>2, <1>3, <2>1, OnItsWayKept DEF Serving
  <1>7. LiveOnce(s)'
    BY <1>1, <1>3, LiveOnceKept DEF Serving
  <1>8. ReplayOnce(s)'
    BY <1>1, <1>3, ReplayOnceKept DEF Serving, Unserved
  <1>9. StaleServed(s)' /\ ToldFirst(s)'
    <2>1. CASE Register(s)
      <3>1. pc'[s] = "registered" /\ got' = got
        BY <2>1 DEF Register, Goto, TypeOK
      <3> QED BY <1>4, <3>1 DEF StaleServed, ToldFirst
    <2>2. CASE Stamp(s)
      <3>1. stale' = stale /\ pc'[s] = (IF stale[s] THEN "resetting" ELSE "resuming")
        BY <2>2 DEF Stamp, Goto, StageAfterStamp, TypeOK
      <3> QED BY <1>2, <1>3, <3>1, ToldFirstKept DEF Serving, StaleServed
    <2>3. CASE ResetStale(s)
      <3>1. stale' = stale /\ after'[s] = 0
        BY <2>3 DEF ResetStale, TypeOK
      <3>2. dead'[s] \/ Told(s)'
        <4>1. dead'[s] = TRUE \/ got'[s] = Append(got[s], Reset)
          BY <2>3, ResetFrame, Sent DEF ResetStale
        <4>2. got'[s] = Append(got[s], Reset) => Told(s)'
          BY ResetFrame, OneMore DEF Told
        <4> QED BY <4>1, <4>2
      <3> QED BY <1>2, <1>3, <3>1, <3>2, ToldFirstKept DEF Serving, StaleServed
    <2>4. CASE GoLive(s) \/ ResetFuture(s)
      <3>1. stale' = stale /\ after' = after /\ pc[s] = "resuming"
        BY <2>4 DEF GoLive, ResetFuture
      <3> QED BY <1>2, <1>3, <3>1, ToldFirstKept, ToldKept DEF Serving, StaleServed
    <2> QED BY <2>1, <2>2, <2>3, <2>4
  <1> QED BY <1>5, <1>6, <1>7, <1>8, <1>9 DEF Serving

(* The steps in which the client receives nothing and which end a stage.   *)
LEMMA PassingServes ==
  ASSUME TypeOK, NEW s \in Subscribers, Serving(s), EndReplay(s) \/ Leave(s)
  PROVE  Serving(s)'
  <1>1. /\ UNCHANGED <<newest, job, connected, stale, after, stamp, plan, dead, got, owed>>
        /\ pc[s] \in {"replaying", "live", "leaving"} /\ pc'[s] \in {"live", "leaving", "gone"}
        /\ pc[s] = "replaying" => plan[s].lo > plan[s].hi
    BY DEF EndReplay, Leave, Notice, Unregister, Goto, TypeOK
  <1>2. /\ Received1(s, AllKinds) /\ Received1(s, {"live", "reset"})
        /\ Received1(s, {"live", "snapshot", "reset"})
        /\ Received1(s, {"replay", "snapshot", "reset"})
    BY <1>1 DEF Received1
  <1>3. Unsent(s)'
    BY <1>1 DEF Unsent, Unserved
  <1>4. \A q \in Nat : ~InPlan(s, q)
    BY <1>1, NothingPlanned DEF InPlan
  <1>5. SnapshotLost(s)' = SnapshotLost(s)
    BY <1>1 DEF SnapshotLost, TooOld, Future
  <1>6. OnItsWay(s)'
    BY <1>1, <1>2, <1>4, <1>5, SubscriberTypes, OnItsWayKept DEF Serving
  <1>7. LiveOnce(s)'
    BY <1>1, <1>2, LiveOnceKept DEF Serving
  <1>8. ReplayOnce(s)'
    BY <1>1, <1>2, ReplayOnceKept DEF Serving, Unserved
  <1>9. ToldFirst(s)'
    BY <1>1, <1>2, ToldFirstKept DEF Serving
  <1>10. StaleServed(s)'
    BY <1>1 DEF Serving, StaleServed, Told
  <1> QED BY <1>3, <1>6, <1>7, <1>8, <1>9, <1>10 DEF Serving

LEMMA BeginReplayServes ==
  ASSUME TypeOK, NEW s \in Subscribers, Serving(s), BeginReplay(s)
  PROVE  Serving(s)'
  <1>1. /\ UNCHANGED <<newest, job, connected, stale, after, stamp, dead, got>>
        /\ pc[s] = "resuming" /\ pc'[s] = "replaying"
        /\ plan'[s] = ReplayRange(s) /\ owed'[s] = owed[s] \cup OwedByReplay(s)
        /\ Everything(s) \/ InWindow(s)
    BY DEF BeginReplay, Goto, TypeOK
  <1>2. /\ Received1(s, AllKinds) /\ Received1(s, {"live", "reset"})
        /\ Received1(s, {"live", "snapshot", "reset"})
        /\ Received1(s, {"replay", "snapshot", "reset"})
    BY <1>1 DEF Received1
  <1>3. plan[s].lo > plan[s].hi
    BY <1>1 DEF Serving, Unsent, Unserved
  <1>4. Unsent(s)'
    <2>1. ~TooOld(s)'
      BY <1>1, SubscriberTypes DEF TooOld, Future, Everything, InWindow
    <2> QED BY <1>1, <2>1 DEF Serving, Unsent, Unserved
  <1>5. OnItsWay(s)'
    <2>1. \A q \in owed[s] : ~InPlan(s, q) /\ q \notin SnapshotLost(s)
      BY <1>3, NothingPlanned, SubscriberTypes
    <2>2. oldest \in Nat /\ newest \in Nat
      BY OldestFits DEF TypeOK, oldest
    <2>3. \A q \in OwedByReplay(s) : ReplayRange(s).lo <= q /\ q <= ReplayRange(s).hi
      BY <2>2, SubscriberTypes DEF OwedByReplay, ReplayRange
    <2>4. \A q \in owed'[s] : q \in owed[s] \/ InPlan(s, q)'
      BY <1>1, <2>3 DEF InPlan
    <2> QED BY <1>1, <1>2, <2>1, <2>4, OnItsWayKept DEF Serving
  <1>6. LiveOnce(s)'
    BY <1>1, <1>2, LiveOnceKept DEF Serving
  <1>7. ReplayOnce(s)'
    BY <1>1, <1>2, ReplayOnceKept DEF Serving, Unserved
  <1>8. ToldFirst(s)'
    BY <1>1, <1>2, ToldFirstKept DEF Serving
  <1>9. StaleServed(s)'
    BY <1>1 DEF Serving, StaleServed, Told
  <1> QED BY <1>4, <1>5, <1>6, <1>7, <1>8, <1>9 DEF Serving

LEMMA ReplayNextServes ==
  ASSUME TypeOK, NEW s \in Subscribers, Serving(s), ReplayNext(s)
  PROVE  Serving(s)'
  <1> DEFINE lo == plan[s].lo
             frame == EventFrame("replay", lo)
  <1>1. /\ UNCHANGED <<newest, job, connected, pc, stale, after, stamp, owed>>
        /\ pc[s] = "replaying" /\ plan'[s].lo = lo + 1 /\ plan'[s].hi = plan[s].hi
    BY SubscriberTypes DEF ReplayNext, SlotAfter, TypeOK
  <1>2. /\ frame \in Frame /\ frame.kind = "replay" /\ frame.lo = lo /\ Covers(frame, lo)
        /\ lo \in Nat
    BY FrameTypes, SubscriberTypes
  <1>3. /\ \/ got'[s] = Append(got[s], frame) /\ dead'[s] = dead[s]
           \/ got'[s] = got[s] /\ dead'[s] = TRUE
        /\ dead[s] => dead'[s]
    BY <1>2, Sent DEF ReplayNext
  <1> HIDE DEF frame, lo
  <1>4. Received1(s, AllKinds) /\ Received1(s, {"replay", "snapshot", "reset"})
    BY <1>2, <1>3 DEF Received1, AllKinds
  <1>5. ~TooOld(s) /\ ~TooOld(s)'
    BY <1>1 DEF Serving, Unsent, TooOld, Future
  <1>6. Unsent(s)'
    <2>1. \A i \in 1 .. Len(got'[s]) : got'[s][i].kind # "snapshot"
      <3>1. \A i \in 1 .. Len(got[s]) : got[s][i].kind # "snapshot"
        BY <1>1 DEF Serving, Unsent
      <3> QED BY <1>2, <1>3, <3>1, OneMore
    <2> QED BY <1>1, <1>5, <2>1 DEF Unsent, Unserved
  <1>7. OnItsWay(s)'
    <2>1. CASE got'[s] = Append(got[s], frame)
      <3>1. ASSUME NEW q \in owed[s], InPlan(s, q)
            PROVE  InPlan(s, q)' \/ GotIt(s, q)'
        <4>1. CASE q = lo
          BY <1>2, <2>1, <4>1, OneMore DEF GotIt
        <4>2. CASE q # lo
          <5>1. q \in Nat
            BY SubscriberTypes
          <5> QED BY <1>1, <1>2, <3>1, <4>2, <5>1, SubscriberTypes DEF InPlan, lo
        <4> QED BY <4>1, <4>2
      <3>2. SnapshotLost(s) = {}
        BY <1>5 DEF SnapshotLost
      <3> QED BY <1>1, <1>3, <1>4, <3>1, <3>2, OnItsWayKept DEF Serving
    <2>2. CASE dead'[s]
      BY <2>2 DEF OnItsWay
    <2> QED BY <1>3, <2>1, <2>2
  <1>8. LiveOnce(s)'
    BY <1>1, <1>4, LiveOnceKept DEF Serving
  <1>9. ReplayOnce(s)'
    <2>1. \A i \in 1 .. Len(got[s]) : got[s][i].kind = "replay" =>
             /\ got[s][i].lo < lo
             /\ \A j \in 1 .. Len(got[s]) : got[s][j] = got[s][i] => j = i
      BY <1>1 DEF Serving, ReplayOnce, lo
    <2>2. \A i \in 1 .. Len(got[s]) : got[s][i].lo \in Nat
      BY SubscriberTypes
    <2>3. CASE got'[s] = got[s]
      BY <1>1, <1>2, <2>1, <2>2, <2>3 DEF ReplayOnce, Unserved
    <2>4. CASE got'[s] = Append(got[s], frame)
      <3>1. \A i \in 1 .. Len(got[s]) : got[s][i] # frame
        BY <1>2, <2>1, <2>2
      <3>2. SUFFICES ASSUME NEW i \in 1 .. Len(got'[s]), got'[s][i].kind = "replay"
                     PROVE  /\ got'[s][i].lo < lo + 1
                            /\ \A j \in 1 .. Len(got'[s]) : got'[s][j] = got'[s][i] => j = i
        BY <1>1 DEF ReplayOnce, Unserved
      <3>3. CASE i = Len(got[s]) + 1
        BY <1>2, <2>4, <3>1, <3>3, OneMore
      <3>4. CASE i \in 1 .. Len(got[s])
        <4>1. got'[s][i] = got[s][i]
          BY <1>2, <2>4, <3>4, OneMore
        <4>2. got[s][i].lo < lo + 1
          BY <1>2, <2>1, <2>2, <3>2, <3>4, <4>1
        <4>3. \A j \in 1 .. Len(got'[s]) : got'[s][j] = got'[s][i] => j = i
          BY <1>2, <2>1, <2>4, <3>1, <3>2, <3>4, <4>1, OneMore
        <4> QED BY <4>1, <4>2, <4>3
      <3> QED BY <1>2, <2>4, <3>3, <3>4, OneMore
    <2> QED BY <1>3, <2>3, <2>4
  <1>10. StaleServed(s)'
    BY <1>1, <1>3, <1>4, ToldKept DEF Serving, StaleServed
  <1>11. ToldFirst(s)'
    <2>1. SUFFICES ASSUME stale[s], NEW i \in 1 .. Len(got'[s])
                   PROVE  /\ got'[s][i].kind = "replay" /\ ~dead'[s] =>
                               \E j \in 1 .. i - 1 : got'[s][j] = Reset
                          /\ got'[s][i].kind # "snapshot"
      BY <1>1 DEF ToldFirst
    <2>2. CASE got'[s] = got[s]
      BY <1>3, <2>1, <2>2 DEF Serving, ToldFirst
    <2>3. CASE got'[s] = Append(got[s], frame)
      <3>1. CASE i = Len(got[s]) + 1
        <4>1. dead[s] \/ Told(s)
          BY <1>1, <2>1 DEF Serving, StaleServed
        <4>2. Told(s) => \E j \in 1 .. i - 1 : got'[s][j] = Reset
          BY <1>2, <2>3, <3>1, OneMore DEF Told
        <4> QED BY <1>2, <1>3, <2>3, <3>1, <4>1, <4>2, OneMore
      <3>2. CASE i \in 1 .. Len(got[s])
        <4>1. \A j \in 1 .. i - 1 : j \in 1 .. Len(got[s]) /\ got'[s][j] = got[s][j]
          BY <1>2, <2>3, <3>2, OneMore
        <4>2. got'[s][i] = got[s][i]
          BY <1>2, <2>3, <3>2, OneMore
        <4> QED BY <1>3, <2>1, <3>2, <4>1, <4>2 DEF Serving, ToldFirst
      <3> QED BY <1>2, <2>3, <3>1, <3>2, OneMore
    <2> QED BY <1>3, <2>2, <2>3
  <1> QED BY <1>6, <1>7, <1>8, <1>9, <1>10, <1>11 DEF Serving

LEMMA RenderServes ==
  ASSUME TypeOK, NEW s \in Subscribers, Serving(s), RenderSnapshot(s)
  PROVE  Serving(s)'
  <1>1. /\ UNCHANGED <<newest, job, connected, stale, after, stamp, dead, got>>
        /\ pc[s] = "resuming" /\ pc'[s] = "snapshot" /\ TooOld(s)
        /\ plan'[s].lo = oldest /\ plan'[s].hi = newest
        /\ owed'[s] = owed[s] \cup (oldest .. newest)
    BY DEF RenderSnapshot, Goto, TypeOK
  <1>2. /\ Received1(s, AllKinds) /\ Received1(s, {"live", "reset"})
        /\ Received1(s, {"live", "snapshot", "reset"})
        /\ Received1(s, {"replay", "snapshot", "reset"})
    BY <1>1 DEF Received1
  <1>3. plan[s].lo > plan[s].hi
    BY <1>1 DEF Serving, Unsent, Unserved
  <1>4. Unsent(s)'
    BY <1>1 DEF Serving, Unsent, Unserved, TooOld, Future
  <1>5. OnItsWay(s)'
    <2>1. \A q \in owed[s] : ~InPlan(s, q) /\ q \notin SnapshotLost(s)
      BY <1>3, NothingPlanned, SubscriberTypes
    <2>2. oldest \in Nat /\ newest \in Nat
      BY OldestFits DEF TypeOK, oldest
    <2>3. \A q \in owed'[s] : q \in owed[s] \/ InPlan(s, q)'
      BY <1>1, <2>2 DEF InPlan
    <2> QED BY <1>1, <1>2, <2>1, <2>3, OnItsWayKept DEF Serving
  <1>6. LiveOnce(s)'
    BY <1>1, <1>2, LiveOnceKept DEF Serving
  <1>7. ReplayOnce(s)'
    BY <1>1, <1>2, ReplayOnceKept DEF Serving, Unserved
  <1>8. ToldFirst(s)'
    BY <1>1, <1>2, ToldFirstKept DEF Serving
  <1>9. StaleServed(s)'
    BY <1>1 DEF Serving, StaleServed, Told
  <1> QED BY <1>4, <1>5, <1>6, <1>7, <1>8, <1>9 DEF Serving

LEMMA SendSnapshotServes ==
  ASSUME TypeOK, NEW s \in Subscribers, Serving(s), SendSnapshot(s)
  PROVE  Serving(s)'
  <1> DEFINE frame == [kind |-> "snapshot", lo |-> plan[s].lo, hi |-> plan[s].hi]
  <1>1. /\ UNCHANGED <<newest, job, connected, stale, after, stamp, plan, dead, owed>>
        /\ pc[s] = "snapshot" /\ pc'[s] = "live"
        /\ got'[s] = got[s] \/ got'[s] = Append(got[s], frame)
    BY DEF SendSnapshot, Goto, TypeOK
  <1>2. /\ frame \in Frame /\ frame.kind = "snapshot"
        /\ frame.lo = plan[s].lo /\ frame.hi = plan[s].hi
    BY SubscriberTypes DEF Frame
  <1> HIDE DEF frame
  <1>3. /\ Received1(s, AllKinds) /\ Received1(s, {"live", "snapshot", "reset"})
        /\ Received1(s, {"replay", "snapshot", "reset"})
    BY <1>1, <1>2 DEF Received1, AllKinds
  <1>4. TooOld(s) /\ \A i \in 1 .. Len(got[s]) : got[s][i].kind # "snapshot"
    BY <1>1 DEF Serving, Unsent
  <1>5. ~stale[s]
    BY <1>1, <1>4 DEF Serving, StaleServed, TooOld
  <1>6. Unsent(s)'
    BY <1>1 DEF Unsent, Unserved
  <1>7. OnItsWay(s)'
    <2>1. ASSUME NEW q \in owed[s], InPlan(s, q) \/ q \in SnapshotLost(s)
          PROVE  q \in SnapshotLost(s)' \/ GotIt(s, q)'
      <3>1. plan[s].lo <= q /\ q <= plan[s].hi /\ q \in plan[s].lo .. plan[s].hi
        BY <2>1, SubscriberTypes DEF InPlan, SnapshotLost
      <3>2. CASE got'[s] = got[s]
        BY <1>1, <1>4, <3>1, <3>2 DEF SnapshotLost, TooOld, Future
      <3>3. CASE got'[s] = Append(got[s], frame)
        BY <1>2, <3>1, <3>3, OneMore DEF GotIt, Covers
      <3> QED BY <1>1, <3>2, <3>3
    <2> QED BY <1>1, <1>3, <2>1, OnItsWayKept DEF Serving
  <1>8. LiveOnce(s)'
    BY <1>1, <1>3, LiveOnceKept DEF Serving
  <1>9. ReplayOnce(s)'
    BY <1>1, <1>3, ReplayOnceKept DEF Serving, Unserved
  <1>10. ToldFirst(s)' /\ StaleServed(s)'
    BY <1>1, <1>5 DEF ToldFirst, StaleServed
  <1> QED BY <1>6, <1>7, <1>8, <1>9, <1>10 DEF Serving

(* A subscriber's step as the other subscribers see it. *)
LEMMA OthersServe ==
  ASSUME TypeOK, TypeOK', NEW s \in Subscribers, NEW t \in Subscribers, Serving(t),
         \/ s # t /\ (Register(s) \/ Resume(s) \/ Leave(s))
         \/ Disconnect(s)
  PROVE  Serving(t)'
  <1>1. CASE Disconnect(s)
    <2>1. UNCHANGED <<newest, subs, job, pc, stale, after, stamp, plan, dead, got, owed>>
      BY <1>1 DEF Disconnect, subscriber
    <2>2. connected'[t] => connected[t]
      BY <1>1 DEF Disconnect, TypeOK
    <2>3. newest \in Nat
      BY DEF TypeOK
    <2> QED BY <2>1, <2>2, <2>3, JobsKept, Steady
  <1>2. CASE s # t /\ (Register(s) \/ Resume(s) \/ Leave(s))
    <2>1. newest' = newest /\ job' = job /\ connected' = connected /\ newest \in Nat
      BY <1>2 DEF Register, Resume, Leave, Stamp, ResetStale, GoLive, ResetFuture, BeginReplay,
                  ReplayNext, EndReplay, RenderSnapshot, SendSnapshot, Notice, Unregister, TypeOK
    <2>2. pc'[t] = pc[t]
      BY <1>2 DEF Register, Resume, Leave, Stamp, ResetStale, GoLive, ResetFuture, BeginReplay,
                  ReplayNext, EndReplay, RenderSnapshot, SendSnapshot, Notice, Unregister, TypeOK,
                  Goto
    <2>3. /\ stale'[t] = stale[t] /\ after'[t] = after[t] /\ stamp'[t] = stamp[t]
          /\ plan'[t] = plan[t] /\ owed'[t] = owed[t]
      BY <1>2 DEF Register, Resume, Leave, Stamp, ResetStale, GoLive, ResetFuture, BeginReplay,
                  ReplayNext, EndReplay, RenderSnapshot, SendSnapshot, Notice, Unregister, TypeOK
    <2>4. got'[t] = got[t] /\ dead'[t] = dead[t]
      <3>1. CASE \/ Register(s) \/ Stamp(s) \/ GoLive(s) \/ BeginReplay(s) \/ EndReplay(s)
                 \/ RenderSnapshot(s) \/ SendSnapshot(s) \/ Leave(s)
        BY <1>2, <3>1 DEF Register, Leave, Stamp, GoLive, BeginReplay, EndReplay, RenderSnapshot,
                          SendSnapshot, Notice, Unregister, TypeOK
      <3>2. CASE ResetStale(s) \/ ResetFuture(s)
        BY <1>2, <3>2, ResetFrame, Sent DEF ResetStale, ResetFuture
      <3>3. CASE ReplayNext(s)
        <4>1. EventFrame("replay", plan[s].lo) \in Frame
          BY FrameTypes, SubscriberTypes
        <4> QED BY <1>2, <3>3, <4>1, Sent DEF ReplayNext
      <3> QED BY <1>2, <3>1, <3>2, <3>3 DEF Resume
    <2> QED BY <2>1, <2>2, <2>3, <2>4, JobsKept, Steady
  <1> QED BY <1>1, <1>2

LEMMA ServingNext ==
  ASSUME TypeOK, Bounds, \A t \in Subscribers : Serving(t), [Next]_vars, NEW s \in Subscribers
  PROVE  Serving(s)'
  <1> USE TypeNext
  <1>1. CASE \E p \in Producers : Produce(p)
    BY <1>1, BeginServes, SendServes, EndServes DEF Produce
  <1>2. CASE \E t \in Subscribers : Register(t) \/ Resume(t) \/ Leave(t) \/ Disconnect(t)
    <2>1. PICK t \in Subscribers : Register(t) \/ Resume(t) \/ Leave(t) \/ Disconnect(t)
      BY <1>2
    <2>2. CASE s # t \/ Disconnect(t)
      BY <2>1, <2>2, OthersServe
    <2>3. CASE s = t /\ ~Disconnect(t)
      BY <2>1, <2>3, WaitingServes, PassingServes, BeginReplayServes, ReplayNextServes,
         RenderServes, SendSnapshotServes DEF Resume
    <2> QED BY <2>2, <2>3
  <1>3. CASE UNCHANGED vars
    <2>1. UNCHANGED <<newest, job, connected, pc, stale, after, stamp, plan, dead, got, owed>>
      BY <1>3 DEF vars, subscriber
    <2>2. TypeOK' /\ newest \in Nat
      BY TypeNext DEF TypeOK
    <2> QED BY <2>1, <2>2, JobsKept, Steady
  <1> QED BY <1>1, <1>2, <1>3 DEF Next

-----------------------------------------------------------------------------
(* The theorems.                                                           *)

LEMMA Invariance == Spec => []Inv
  <1>1. Init => Inv
    BY TypeInit, BoundsInit, ServingInit DEF Inv
  <1>2. Inv /\ [Next]_vars => Inv'
    BY TypeNext, BoundsNext, ServingNext DEF Inv
  <1> QED BY <1>1, <1>2, PTL DEF Spec

(* Every value the fan-out keeps has its type: the subscriber list that is *)
(* linked and unlinked under the lock, the copies the producers walk       *)
(* after it, the windows and the frames.                                   *)
THEOREM TypesKept == Spec => []TypeOK
  <1>1. Inv => TypeOK
    BY DEF Inv
  <1> QED BY <1>1, Invariance, PTL

(* A subscriber that is live, connected and not given up, with nothing     *)
(* still being broadcast to it, has received every event it is owed, save  *)
(* those of a snapshot whose write failed: registering before the cursors  *)
(* are read leaves no gap between the replay and the live events.          *)
THEOREM NoGap == Spec => []NothingMissed
  <1>1. Inv => NothingMissed
    <2>1. SUFFICES ASSUME Inv, NEW s \in Subscribers, pc[s] = "live", connected[s], ~dead[s],
                          ~PendingFor(s), NEW q \in owed[s]
                   PROVE  q \in Received(s) \cup SnapshotLost(s)
      BY DEF NothingMissed
    <2>2. GotIt(s, q) \/ Coming(s, q) \/ InPlan(s, q) \/ q \in SnapshotLost(s)
      BY <2>1 DEF Inv, Serving, OnItsWay
    <2>3. ~Coming(s, q) /\ ~InPlan(s, q)
      BY <2>1 DEF Coming, PendingFor, InPlan
    <2>4. q \in 1 .. newest
      BY <2>1 DEF Inv, Bounds, PlanFits
    <2> QED BY <2>2, <2>3, <2>4 DEF GotIt, Received
  <1> QED BY <1>1, Invariance, PTL

(* However a resumption interleaves with appends, and whatever producers   *)
(* run at once, no event is sent live twice, nor replayed twice, to one    *)
(* subscriber.                                                             *)
THEOREM NoSecondCopy == Spec => []AtMostOneCopyEachWay
  <1>1. Inv => AtMostOneCopyEachWay
    <2>1. SUFFICES ASSUME Inv, NEW s \in Subscribers, NEW q \in 1 .. newest,
                          NEW kind \in {"live", "replay"}
                   PROVE  Copies(s, kind, q) <= 1
      BY DEF AtMostOneCopyEachWay
    <2> DEFINE frame == EventFrame(kind, q)
               at == {i \in 1 .. Len(got[s]) : got[s][i] = frame}
    <2>2. frame.kind = kind
      BY DEF EventFrame
    <2> HIDE DEF frame
    <2>3. \A i, j \in at : i = j
      BY <2>1, <2>2 DEF Inv, Serving, LiveOnce, ReplayOnce
    <2>4. CASE at = {}
      BY <2>4, FS_EmptySet DEF Copies, frame
    <2>5. CASE at # {}
      <3>1. PICK i \in at : TRUE
        BY <2>5
      <3>2. at = {i}
        BY <2>3, <3>1
      <3>3. Cardinality(at) = 1
        BY <3>2, FS_Singleton
      <3> QED BY <3>3 DEF Copies, frame
    <2> QED BY <2>4, <2>5
  <1> QED BY <1>1, Invariance, PTL

(* A subscriber that resumes with the wrong generation is told to forget   *)
(* its cursor before anything is replayed to it, and never gets a snapshot *)
(* in the place of that.                                                   *)
THEOREM StaleIsTold == Spec => []StaleToldFirst
  <1>1. Inv => StaleToldFirst
    BY DEF Inv, Serving, ToldFirst, StaleToldFirst
  <1> QED BY <1>1, Invariance, PTL

=============================================================================
