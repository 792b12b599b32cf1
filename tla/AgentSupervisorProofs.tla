------------------------ MODULE AgentSupervisorProofs ------------------------
(***************************************************************************)
(* What holds of AgentSupervisor for any number of workspaces, callers,    *)
(* spawns and calls, and, but for LogsStayRight, also when readers are     *)
(* late.                                                                   *)
(*                                                                         *)
(* Type correctness.  TypeOK alone is not inductive: a step reads the      *)
(* workspace of a call, the child a reader was given, the prompt a child   *)
(* works on.  Presence says that they are there when a step needs them.    *)
(*                                                                         *)
(* Safety.  The stages of a call between taking and releasing api_mu       *)
(* belong to one caller at a time (Locking), so the child, its descriptors *)
(* and the binding only change together (Binding), what was staged for the *)
(* next prompt is accounted for (Staging), and the state shown follows the *)
(* child (Showing).                                                        *)
(*                                                                         *)
(* The logs.  The turn of an answer_end is claimed when a reader lowers    *)
(* the state from busy, and the argument follows a claim from the reader   *)
(* through the emission to the log: no two of them are ever for the same   *)
(* turn (Claims).  That a log only holds its own conversation needs        *)
(* readers that are gone two seconds after their child.  Then a reader     *)
(* that still runs belongs to the last child, and the binding stays with   *)
(* that child's workspace for as long as one does (Tied, Settled).         *)
(*                                                                         *)
(* The agent.  A prompt is newer than all that were given before while it  *)
(* is being written (Ordered); with Inv, every step is one of BoundAgent   *)
(* or a stutter.                                                           *)
(***************************************************************************)
EXTENDS AgentSupervisor, FiniteSetTheorems, TLAPS

(* A value is there when a step relies on it. *)
CallsPlaced ==
  \A c \in Callers : call[c].at # "idle" => call[c].ws \in Workspaces

ProcessPlaced(p, k, forked) ==
  /\ p.at = "none" <=> k > forked
  /\ p.at # "none" => p.ws \in Workspaces
  /\ p.at = "none" => p.given = <<>>
  /\ p.at = "working" => p.took \in 1 .. Len(p.given)

ChildrenPlaced == \A k \in Spawns : ProcessPlaced(child[k], k, spawns)

FieldsPlaced ==
  /\ pid <= spawns
  /\ spawns > 0 => active \in Workspaces
  /\ \A f \in {"in", "out", "err"} : fd[f] <= spawns

ReaderPlaced(p, forked) ==
  /\ p.at # "off" => forked > 0
  /\ p.at = "read" => p.from \in 1 .. forked
  /\ p.at \in {"ended", "diffing"} => p.ws \in Workspaces

ReadersPlaced == \A r \in Readers : ReaderPlaced(reader[r], spawns)

Presence == CallsPlaced /\ ChildrenPlaced /\ FieldsPlaced /\ ReadersPlaced

TypeInv == TypeOK /\ Presence

-----------------------------------------------------------------------------
USE AgentSupervisorAssumption

LEMMA NoneApart == None \notin Workspaces /\ None \notin Callers /\ None \notin Nat
  OBVIOUS

LEMMA TypeInvInit == Init => TypeInv
  <1> SUFFICES ASSUME Init PROVE TypeInv
    OBVIOUS
  <1>1. TypeOK
    <2>1. child \in [Spawns -> Process]
      BY DEF Init, Process, Context, Prompt
    <2>2. log \in [Workspaces -> Seq(Event)]
      <3>1. \A w \in Workspaces : Restored(w) \in Event
        BY DEF Restored, Notice, Event, Kinds
      <3> QED BY <3>1 DEF Init
    <2>3. reader \in [Readers -> ReaderRecord]
      BY DEF Init, ReaderRecord
    <2>4. call \in [Callers -> CallRecord]
      BY DEF Init, CallRecord
    <2>5. em \in [Threads -> Emission \cup {None}]
      BY DEF Init
    <2>6. /\ api \in Callers \cup {None} /\ calls \in 0 .. MaxCalls /\ state \in States
          /\ active \in Workspaces \cup {None} /\ bindGen \in Nat
          /\ pid \in 0 .. MaxSpawns /\ spawns \in 0 .. MaxSpawns
          /\ pending \in Context \cup {None} /\ turn \in Nat
      BY DEF Init, States
    <2>7. /\ fd \in [{"in", "out", "err"} -> 0 .. MaxSpawns]
          /\ running \in [Streams -> BOOLEAN]
          /\ baseline \in [Workspaces -> Nat]
          /\ era \in [Workspaces -> Nat]
      BY DEF Init
    <2> QED BY <2>1, <2>2, <2>3, <2>4, <2>5, <2>6, <2>7 DEF TypeOK
  <1>2. Presence
    BY DEF Init, Presence, CallsPlaced, ChildrenPlaced, ProcessPlaced, FieldsPlaced, ReadersPlaced, ReaderPlaced, Spawns
  <1> QED BY <1>1, <1>2 DEF TypeInv

LEMMA NoticeType ==
  ASSUME NEW kind \in Kinds, NEW w \in Workspaces, NEW t \in Nat, NEW saw \in Nat
  PROVE  Notice(kind, w, t, saw) \in Event
  BY DEF Notice, Event

LEMMA SnappedType ==
  ASSUME NEW w \in Workspaces \cup {None}, NEW gen \in Nat, NEW e,
         w # None => e \in Event
  PROVE  Snapped(e, w, gen) \in Emission \cup {None}
  BY NoneApart DEF Snapped, Emission

LEMMA StartEmitType ==
  ASSUME TypeOK, NEW t \in Threads, NEW e, active # None => e \in Event, StartEmit(t, e)
  PROVE  em' \in [Threads -> Emission \cup {None}]
  <1>1. Snapped(e, active, bindGen) \in Emission \cup {None}
    BY SnappedType DEF TypeOK
  <1> QED BY <1>1 DEF StartEmit, TypeOK

LEMMA ContextType ==
  ASSUME TypeOK, NEW w \in Workspaces
  PROVE  ContextOf(w) \in Context \cup {None}
  BY DEF ContextOf, Context, TypeOK

(* Moving a call to another stage keeps calls typed and placed. *)
LEMMA GotoTypes ==
  ASSUME TypeInv, NEW c \in Callers, NEW w \in Workspaces \cup {None}, NEW stage,
         stage \in {"idle", "activate", "reap", "close", "drain", "bind", "write",
                   "wipe", "return"},
         stage # "idle" => w \in Workspaces,
         Goto(c, stage, w)
  PROVE  call' \in [Callers -> CallRecord] /\ CallsPlaced'
  <1>1. call \in [Callers -> CallRecord] /\ CallsPlaced
    BY DEF TypeInv, TypeOK, Presence
  <1>2. call' = [call EXCEPT ![c].at = stage, ![c].ws = w]
    BY DEF Goto
  <1>3. ASSUME NEW d \in Callers PROVE call'[d] \in CallRecord
    <2>1. call[d] \in CallRecord
      BY <1>1
    <2>2. CASE d = c
      <3>1. call'[d] = [call[d] EXCEPT !.at = stage, !.ws = w]
        BY <1>1, <1>2, <2>2
      <3> QED BY <2>1, <3>1 DEF CallRecord
    <2>3. CASE d # c
      BY <1>1, <1>2, <2>1, <2>3
    <2> QED BY <2>2, <2>3
  <1>4. call' \in [Callers -> CallRecord]
    BY <1>1, <1>2, <1>3
  <1>5. CallsPlaced'
    BY <1>1, <1>2 DEF CallsPlaced, CallRecord
  <1> QED BY <1>4, <1>5

LEMMA GoOnTypes ==
  ASSUME TypeInv, NEW c \in Callers, NEW stage, call[c].at # "idle",
         stage \in {"activate", "reap", "close", "drain", "bind", "write", "wipe", "return"},
         GoOn(c, stage)
  PROVE  call' \in [Callers -> CallRecord] /\ CallsPlaced'
  <1>1. call[c].ws \in Workspaces
    BY DEF TypeInv, Presence, CallsPlaced
  <1> QED BY <1>1, GotoTypes DEF GoOn

(* A call that has not spawned, and changed no child, keeps the rest. *)
LEMMA SamePlaces ==
  ASSUME Presence, UNCHANGED <<active, spawns, child, reader>>, pid' \in {0, pid},
         fd' = fd \/ (\A f \in {"in", "out", "err"} : fd'[f] \in {0, fd[f]}),
         spawns \in Nat
  PROVE  ChildrenPlaced' /\ FieldsPlaced' /\ ReadersPlaced'
  BY DEF Presence, ChildrenPlaced, ProcessPlaced, FieldsPlaced, ReadersPlaced, ReaderPlaced, Spawns

LEMMA ArriveType ==
  ASSUME TypeInv, NEW c, NEW op, Arrive(c, op)
  PROVE  calls' \in 0 .. MaxCalls
  <1>1. calls \in 0 .. MaxCalls /\ calls < MaxCalls /\ calls' = calls + 1
    BY DEF TypeInv, TypeOK, Arrive
  <1> QED BY <1>1

LEMMA DetachType ==
  ASSUME TypeInv, Detach
  PROVE  /\ state' \in States
         /\ fd' \in [{"in", "out", "err"} -> 0 .. MaxSpawns]
         /\ \A f \in {"in", "out", "err"} : fd'[f] \in {0, fd[f]}
  <1>1. fd \in [{"in", "out", "err"} -> 0 .. MaxSpawns]
    BY DEF TypeInv, TypeOK
  <1> QED BY <1>1 DEF Detach, States

(* The first half of a switch, of a request or after a reset. *)
LEMMA SwitchTypes ==
  ASSUME TypeInv, NEW c \in Callers, NEW w \in Workspaces, SwitchTo(c, w),
         calls' \in 0 .. MaxCalls
  PROVE  TypeInv'
  <1>1. call' \in [Callers -> CallRecord] /\ CallsPlaced'
    <2>1. Goto(c, "reap", w) \/ Goto(c, "bind", w)
      BY DEF SwitchTo
    <2> QED BY <2>1, GotoTypes
  <1>2. /\ state' \in States
        /\ fd' \in [{"in", "out", "err"} -> 0 .. MaxSpawns]
        /\ fd' = fd \/ (\A f \in {"in", "out", "err"} : fd'[f] \in {0, fd[f]})
    BY DEF SwitchTo, Detach, States, TypeInv, TypeOK
  <1>3. TypeOK'
    BY <1>1, <1>2 DEF SwitchTo, Enter, logVars, turnVars, TypeInv, TypeOK
  <1>4. ChildrenPlaced' /\ FieldsPlaced' /\ ReadersPlaced'
    BY <1>2, SamePlaces DEF SwitchTo, TypeInv, TypeOK
  <1> QED BY <1>1, <1>3, <1>4 DEF TypeInv, Presence

LEMMA ResetTypes ==
  ASSUME TypeInv, NEW c \in Callers, ResetStart(c)
  PROVE  TypeInv'
  <1>1. PICK w \in Workspaces :
          IF OnActive(w)
            THEN /\ Enter(c)
                 /\ Detach
                 /\ call' = [call EXCEPT ![c].at = "reap", ![c].ws = w, ![c].again = TRUE]
            ELSE /\ api = None
                 /\ Goto(c, "wipe", w)
                 /\ UNCHANGED <<api, state, fd>>
    BY DEF ResetStart
  <1>2. call' \in [Callers -> CallRecord] /\ CallsPlaced'
    <2>1. CASE OnActive(w)
      <3>1. call \in [Callers -> CallRecord] /\ CallsPlaced
        BY DEF TypeInv, TypeOK, Presence
      <3>2. call' = [call EXCEPT ![c].at = "reap", ![c].ws = w, ![c].again = TRUE]
        BY <1>1, <2>1
      <3>3. \A d \in Callers : call'[d] \in CallRecord
        <4>1. [call[c] EXCEPT !.at = "reap", !.ws = w, !.again = TRUE] \in CallRecord
          BY <3>1 DEF CallRecord
        <4>2. call'[c] = [call[c] EXCEPT !.at = "reap", !.ws = w, !.again = TRUE]
          BY <3>1, <3>2
        <4>3. \A d \in Callers \ {c} : call'[d] = call[d]
          BY <3>1, <3>2
        <4> QED BY <3>1, <4>1, <4>2, <4>3
      <3>4. CallsPlaced'
        BY <3>1, <3>2 DEF CallsPlaced, CallRecord
      <3> QED BY <3>1, <3>2, <3>3, <3>4
    <2>2. CASE ~OnActive(w)
      BY <1>1, <2>2, GotoTypes
    <2> QED BY <2>1, <2>2
  <1>3. /\ state' \in States
        /\ fd' \in [{"in", "out", "err"} -> 0 .. MaxSpawns]
        /\ fd' = fd \/ (\A f \in {"in", "out", "err"} : fd'[f] \in {0, fd[f]})
    <2>1. CASE OnActive(w)
      BY <1>1, <2>1, DetachType
    <2>2. CASE ~OnActive(w)
      BY <1>1, <2>2 DEF TypeInv, TypeOK
    <2> QED BY <2>1, <2>2
  <1>4. api' \in Callers \cup {None} /\ calls' \in 0 .. MaxCalls
    <2>1. calls' \in 0 .. MaxCalls
      BY ArriveType DEF ResetStart
    <2>2. api' \in Callers \cup {None}
      BY <1>1 DEF Enter, TypeInv, TypeOK
    <2> QED BY <2>1, <2>2
  <1>5. UNCHANGED <<active, bindGen, pid, spawns, running, turnVars, child, reader, em, logVars>>
    BY DEF ResetStart
  <1>6. TypeOK'
    BY <1>2, <1>3, <1>4, <1>5 DEF turnVars, logVars, TypeInv, TypeOK
  <1>7. ChildrenPlaced' /\ FieldsPlaced' /\ ReadersPlaced'
    BY <1>3, <1>5, SamePlaces DEF TypeInv, TypeOK
  <1> QED BY <1>2, <1>6, <1>7 DEF TypeInv, Presence

LEMMA SubmitTypes ==
  ASSUME TypeInv, NEW c \in Callers, Submit(c)
  PROVE  TypeInv'
  <1>1. PICK w \in Workspaces :
          /\ MaySubmit(w)
          /\ call' = [call EXCEPT ![c].at = "write", ![c].ws = w, ![c].resumed = pending]
    BY DEF Submit
  <1>2. active \in Workspaces
    BY <1>1 DEF MaySubmit, OnActive
  <1>3. call' \in [Callers -> CallRecord] /\ CallsPlaced'
    <2>1. call \in [Callers -> CallRecord] /\ CallsPlaced /\ pending \in Context \cup {None}
      BY DEF TypeInv, TypeOK, Presence
    <2>2. \A d \in Callers : call'[d] \in CallRecord
      <3>1. call[c] \in CallRecord /\ pending \in Context \cup {None}
        BY <2>1
      <3>2. [call[c] EXCEPT !.at = "write", !.ws = w, !.resumed = pending] \in CallRecord
        BY <3>1 DEF CallRecord
      <3>3. call'[c] = [call[c] EXCEPT !.at = "write", !.ws = w, !.resumed = pending]
        BY <1>1, <2>1
      <3>4. \A d \in Callers \ {c} : call'[d] = call[d]
        BY <1>1, <2>1
      <3> QED BY <2>1, <3>2, <3>3, <3>4
    <2>3. CallsPlaced'
      BY <1>1, <2>1 DEF CallsPlaced, CallRecord
    <2> QED BY <1>1, <2>1, <2>2, <2>3
  <1>4. em' \in [Threads -> Emission \cup {None}]
    <2>1. Notice("user", active, turn + 1, 0) \in Event
      <3>1. turn + 1 \in Nat /\ 0 \in Nat
        BY DEF TypeInv, TypeOK
      <3>2. "user" \in Kinds
        BY DEF Kinds
      <3> QED BY <1>2, <3>1, <3>2, NoticeType, Zenon
    <2> QED BY <2>1, StartEmitType DEF Submit, Threads, TypeInv
  <1>5. /\ api' \in Callers \cup {None} /\ calls' \in 0 .. MaxCalls /\ state' \in States
        /\ turn' \in Nat /\ pending' \in Context \cup {None}
        /\ baseline' \in [Workspaces -> Nat]
    <2>1. calls' \in 0 .. MaxCalls
      BY ArriveType DEF Submit
    <2>2. /\ turn \in Nat /\ baseline \in [Workspaces -> Nat]
          /\ turn' = turn + 1 /\ baseline' = [baseline EXCEPT ![active] = turn + 1]
      BY DEF Submit, TypeInv, TypeOK
    <2>3. api' = c /\ state' = "busy" /\ pending' = None
      BY DEF Submit, Enter
    <2>4. turn' \in Nat
      BY <2>2
    <2>5. baseline' \in [Workspaces -> Nat]
      <3>1. turn + 1 \in Nat
        BY <2>2
      <3>2. baseline \in [Workspaces -> Nat] /\ baseline' = [baseline EXCEPT ![active] = turn + 1]
        BY <2>2
      <3> QED BY <3>1, <3>2, Zenon
    <2> QED BY <2>1, <2>3, <2>4, <2>5 DEF States
  <1>6. UNCHANGED <<bindVars, running, child, reader, logVars>>
    BY DEF Submit
  <1>7. TypeOK'
    BY <1>3, <1>4, <1>5, <1>6 DEF bindVars, logVars, TypeInv, TypeOK
  <1>8. ChildrenPlaced' /\ FieldsPlaced' /\ ReadersPlaced'
    BY <1>6, SamePlaces DEF bindVars, TypeInv, TypeOK
  <1> QED BY <1>3, <1>7, <1>8 DEF TypeInv, Presence

LEMMA AbortTypes ==
  ASSUME TypeInv, NEW c \in Callers, Abort(c)
  PROVE  TypeInv'
  <1>1. active \in Workspaces
    BY DEF Abort, TypeInv, TypeOK, Presence, FieldsPlaced
  <1>2. call' \in [Callers -> CallRecord] /\ CallsPlaced'
    BY <1>1, GotoTypes DEF Abort
  <1>3. em' \in [Threads -> Emission \cup {None}]
    <2>1. Notice("agent.aborted", active, turn, 0) \in Event
      <3>1. turn \in Nat /\ 0 \in Nat
        BY DEF TypeInv, TypeOK
      <3>2. "agent.aborted" \in Kinds
        BY DEF Kinds
      <3> QED BY <1>1, <3>1, <3>2, NoticeType, Zenon
    <2> QED BY <2>1, StartEmitType DEF Abort, Threads, TypeInv
  <1>4. api' \in Callers \cup {None} /\ calls' \in 0 .. MaxCalls /\ state' \in States
    BY DEF Abort, Arrive, Enter, States, TypeInv, TypeOK
  <1>5. UNCHANGED <<bindVars, running, turnVars, child, reader, logVars>>
    BY DEF Abort
  <1>6. TypeOK'
    BY <1>2, <1>3, <1>4, <1>5 DEF bindVars, turnVars, logVars, TypeInv, TypeOK
  <1>7. ChildrenPlaced' /\ FieldsPlaced' /\ ReadersPlaced'
    BY <1>5, SamePlaces DEF bindVars, TypeInv, TypeOK
  <1> QED BY <1>2, <1>6, <1>7 DEF TypeInv, Presence

LEMMA BeginTypes ==
  ASSUME TypeInv, NEW c \in Callers, Begin(c)
  PROVE  TypeInv'
  <1>1. CASE Activate(c)
    <2>1. calls' \in 0 .. MaxCalls
      BY <1>1, ArriveType DEF Activate
    <2>2. PICK w \in Workspaces : SwitchTo(c, w)
      BY <1>1 DEF Activate
    <2> QED BY <2>1, <2>2, SwitchTypes
  <1> QED BY <1>1, ResetTypes, SubmitTypes, AbortTypes DEF Begin

(* Replacing one process by another that is placed as well. *)
LEMMA ChildTypes ==
  ASSUME TypeInv, NEW k \in Nat, NEW p, child' = [child EXCEPT ![k] = p],
         k \in Spawns => p \in Process,
         k \in Spawns => ProcessPlaced(p, k, spawns'),
         spawns' = spawns \/ (k = spawns + 1 /\ spawns' = k)
  PROVE  child' \in [Spawns -> Process] /\ ChildrenPlaced'
  <1>1. child \in [Spawns -> Process] /\ spawns \in Nat /\ ChildrenPlaced
    BY DEF TypeInv, TypeOK, Presence
  <1>2. child' \in [Spawns -> Process]
    <2>1. child \in [Spawns -> Process] /\ child' = [child EXCEPT ![k] = p]
          /\ (k \in Spawns => p \in Process)
      BY <1>1
    <2> QED BY <2>1, Zenon
  <1>3. ASSUME NEW i \in Spawns
        PROVE  child'[i] = IF i = k THEN p ELSE child[i]
    BY <1>1, <1>3
  <1>4. ASSUME NEW i \in Spawns, i # k
        PROVE  i > spawns' <=> i > spawns
    BY <1>1, <1>4 DEF Spawns
  <1>5. ASSUME NEW i \in Spawns
        PROVE  ProcessPlaced(child'[i], i, spawns')
    <2>1. CASE i = k
      BY <1>3, <1>5, <2>1
    <2>2. CASE i # k
      <3>1. child'[i] = child[i]
        BY <1>3, <1>5, <2>2
      <3>2. ProcessPlaced(child[i], i, spawns)
        BY <1>1, <1>5 DEF ChildrenPlaced
      <3>3. ProcessPlaced(child[i], i, spawns')
        BY <1>4, <1>5, <2>2, <3>2 DEF ProcessPlaced
      <3> QED BY <3>1, <3>3
    <2> QED BY <2>1, <2>2
  <1>6. ChildrenPlaced'
    BY <1>5, Zenon DEF ChildrenPlaced
  <1> QED BY <1>2, <1>6

LEMMA ReapTypes ==
  ASSUME TypeInv, NEW c \in Callers, Reap(c)
  PROVE  TypeInv'
  <1>1. call' \in [Callers -> CallRecord] /\ CallsPlaced'
    BY GoOnTypes DEF Reap, At
  <1>2. child' \in [Spawns -> Process] /\ ChildrenPlaced'
    <2>1. child \in [Spawns -> Process] /\ pid \in Nat /\ pid <= spawns /\ ChildrenPlaced
          /\ spawns \in Nat
      BY DEF TypeInv, TypeOK, Presence, FieldsPlaced
    <2> DEFINE p == [child[pid] EXCEPT !.at = "exited"]
    <2>2. pid \in Spawns => /\ p \in Process /\ p.at = "exited"
                           /\ p.ws = child[pid].ws /\ child[pid].at # "none"
      <3> SUFFICES ASSUME pid \in Spawns
                   PROVE  /\ p \in Process /\ p.at = "exited"
                          /\ p.ws = child[pid].ws /\ child[pid].at # "none"
        OBVIOUS
      <3>1. child[pid] \in Process
        BY <2>1
      <3>2. p \in Process /\ p.at = "exited" /\ p.ws = child[pid].ws
        BY <3>1 DEF Process
      <3>3. child[pid].at # "none"
        BY <2>1 DEF ChildrenPlaced, ProcessPlaced
      <3> QED BY <3>2, <3>3
    <2>3. child' = [child EXCEPT ![pid] = p] /\ spawns' = spawns
      BY DEF Reap, bindVars
    <2>4. pid \in Spawns => ProcessPlaced(p, pid, spawns')
      <3>1. pid \in Spawns => child[pid].ws \in Workspaces
        BY <2>1, <2>2 DEF ChildrenPlaced, ProcessPlaced
      <3> HIDE DEF p
      <3> QED BY <2>1, <2>2, <2>3, <3>1 DEF ProcessPlaced
    <2> HIDE DEF p
    <2> QED BY <2>1, <2>2, <2>3, <2>4, ChildTypes
  <1>3. TypeOK'
    BY <1>1, <1>2 DEF Reap, bindVars, turnVars, logVars, TypeInv, TypeOK
  <1>4. FieldsPlaced' /\ ReadersPlaced'
    BY DEF Reap, bindVars, TypeInv, Presence, FieldsPlaced, ReadersPlaced, ReaderPlaced
  <1> QED BY <1>1, <1>2, <1>3, <1>4 DEF TypeInv, Presence

LEMMA CloseIoTypes ==
  ASSUME TypeInv, NEW c \in Callers, CloseIo(c)
  PROVE  TypeInv'
  <1>1. call' \in [Callers -> CallRecord] /\ CallsPlaced'
    BY GoOnTypes DEF CloseIo, At
  <1>2. /\ fd' \in [{"in", "out", "err"} -> 0 .. MaxSpawns]
        /\ \A f \in {"in", "out", "err"} : fd'[f] \in {0, fd[f]}
    BY DEF CloseIo, TypeInv, TypeOK
  <1>3. TypeOK'
    BY <1>1, <1>2 DEF CloseIo, turnVars, logVars, TypeInv, TypeOK
  <1>4. ChildrenPlaced' /\ FieldsPlaced' /\ ReadersPlaced'
    BY <1>2, SamePlaces DEF CloseIo, TypeInv, TypeOK
  <1> QED BY <1>1, <1>3, <1>4 DEF TypeInv, Presence

(* Steps that move the call and touch neither the child nor the binding. *)
LEMMA DrainedTypes ==
  ASSUME TypeInv, NEW c \in Callers, Drained(c)
  PROVE  TypeInv'
  <1>1. call' \in [Callers -> CallRecord] /\ CallsPlaced'
    BY GoOnTypes DEF Drained, At
  <1>2. TypeOK'
    BY <1>1 DEF Drained, bindVars, turnVars, logVars, TypeInv, TypeOK
  <1>3. ChildrenPlaced' /\ FieldsPlaced' /\ ReadersPlaced'
    BY SamePlaces DEF Drained, bindVars, TypeInv, TypeOK
  <1> QED BY <1>1, <1>2, <1>3 DEF TypeInv, Presence

LEMMA LeaveTypes ==
  ASSUME TypeInv, NEW c \in Callers, AlreadyActive(c) \/ Return(c)
  PROVE  TypeInv'
  <1>1. call' \in [Callers -> CallRecord] /\ CallsPlaced'
    BY GotoTypes DEF AlreadyActive, Return
  <1>2. TypeOK'
    BY <1>1 DEF AlreadyActive, Return, bindVars, turnVars, logVars, TypeInv, TypeOK
  <1>3. ChildrenPlaced' /\ FieldsPlaced' /\ ReadersPlaced'
    BY SamePlaces DEF AlreadyActive, Return, bindVars, TypeInv, TypeOK
  <1> QED BY <1>1, <1>2, <1>3 DEF TypeInv, Presence

LEMMA WipeTypes ==
  ASSUME TypeInv, NEW c \in Callers, Wipe(c)
  PROVE  TypeInv'
  <1>1. call' \in [Callers -> CallRecord] /\ CallsPlaced'
    <2>1. call \in [Callers -> CallRecord] /\ CallsPlaced
      BY DEF TypeInv, TypeOK, Presence
    <2> DEFINE r == IF call[c].again
                      THEN [call[c] EXCEPT !.at = "activate", !.again = FALSE]
                      ELSE [call[c] EXCEPT !.at = "idle", !.ws = None]
    <2>2. r \in CallRecord /\ (r.at # "idle" => r.ws = call[c].ws)
      <3>1. call[c] \in CallRecord
        BY <2>1
      <3>2. CASE call[c].again
        BY <3>1, <3>2 DEF CallRecord
      <3>3. CASE ~call[c].again
        BY <3>1, <3>3 DEF CallRecord
      <3> QED BY <3>2, <3>3
    <2>3. call' = [call EXCEPT ![c] = r] /\ call[c].at = "wipe"
      BY DEF Wipe, At
    <2> HIDE DEF r
    <2>4. call[c].ws \in Workspaces
      BY <2>1, <2>3 DEF CallsPlaced
    <2>5. call'[c] = r /\ \A d \in Callers \ {c} : call'[d] = call[d]
      BY <2>1, <2>3
    <2>6. CallsPlaced'
      BY <2>1, <2>2, <2>4, <2>5 DEF CallsPlaced
    <2>7. call' \in [Callers -> CallRecord]
      BY <2>1, <2>2, <2>3, Zenon
    <2> QED BY <2>6, <2>7
  <1>2. log' \in [Workspaces -> Seq(Event)]
    <2>1. log \in [Workspaces -> Seq(Event)] /\ log' = [log EXCEPT ![call[c].ws] = <<>>]
      BY DEF Wipe, TypeInv, TypeOK
    <2>2. <<>> \in Seq(Event)
      OBVIOUS
    <2> QED BY <2>1, <2>2, Zenon
  <1>3. era' \in [Workspaces -> Nat]
    <2>1. era \in [Workspaces -> Nat]
          /\ era' = [era EXCEPT ![call[c].ws] = era[call[c].ws] + 1]
      BY DEF Wipe, TypeInv, TypeOK
    <2>2. call[c].ws \in Workspaces
      BY DEF Wipe, At, TypeInv, Presence, CallsPlaced
    <2>3. era[call[c].ws] + 1 \in Nat
      BY <2>1, <2>2
    <2> QED BY <2>1, <2>3, Zenon
  <1>4. TypeOK'
    BY <1>1, <1>2, <1>3 DEF Wipe, bindVars, turnVars, TypeInv, TypeOK
  <1>5. ChildrenPlaced' /\ FieldsPlaced' /\ ReadersPlaced'
    BY SamePlaces DEF Wipe, bindVars, TypeInv, TypeOK
  <1> QED BY <1>1, <1>4, <1>5 DEF TypeInv, Presence

LEMMA BindFailsTypes ==
  ASSUME TypeInv, NEW c \in Callers, BindFails(c)
  PROVE  TypeInv'
  <1>1. call' \in [Callers -> CallRecord] /\ CallsPlaced' /\ call[c].ws \in Workspaces
    BY GoOnTypes DEF BindFails, At, TypeInv, Presence, CallsPlaced
  <1>2. active' \in Workspaces /\ bindGen' \in Nat /\ state' \in States
    BY <1>1 DEF BindFails, BindTo, States, TypeInv, TypeOK
  <1>3. TypeOK'
    BY <1>1, <1>2 DEF BindFails, turnVars, logVars, TypeInv, TypeOK
  <1>4. ChildrenPlaced' /\ FieldsPlaced' /\ ReadersPlaced'
    BY <1>2 DEF BindFails, TypeInv, Presence, ChildrenPlaced, ProcessPlaced, FieldsPlaced, ReadersPlaced, ReaderPlaced
  <1> QED BY <1>1, <1>3, <1>4 DEF TypeInv, Presence

LEMMA WritePromptTypes ==
  ASSUME TypeInv, NEW c \in Callers, WritePrompt(c)
  PROVE  TypeInv'
  <1>1. /\ call \in [Callers -> CallRecord] /\ CallsPlaced
        /\ child \in [Spawns -> Process] /\ ChildrenPlaced
        /\ turn \in Nat /\ spawns \in Nat
        /\ fd \in [{"in", "out", "err"} -> 0 .. MaxSpawns]
        /\ fd["in"] <= spawns
    BY DEF TypeInv, TypeOK, Presence, FieldsPlaced
  <1>2. call' \in [Callers -> CallRecord] /\ CallsPlaced'
    <2> DEFINE q == [call[c] EXCEPT !.at = "return", !.resumed = None]
    <2>1. q \in CallRecord /\ q.ws = call[c].ws
      <3>1. call[c] \in CallRecord
        BY <1>1
      <3> QED BY <3>1 DEF CallRecord
    <2>2. call' = [call EXCEPT ![c] = q] /\ call[c].at = "write"
      BY DEF WritePrompt, At
    <2> HIDE DEF q
    <2>3. call' \in [Callers -> CallRecord]
      BY <1>1, <2>1, <2>2, Zenon
    <2>4. call[c].ws \in Workspaces
      BY <1>1, <2>2 DEF CallsPlaced
    <2>5. CallsPlaced'
      BY <1>1, <2>1, <2>2, <2>4 DEF CallsPlaced
    <2> QED BY <2>3, <2>5
  <1>3. /\ em' \in [Threads -> Emission \cup {None}]
        /\ state' \in States
    <2>1. CASE child[fd["in"]].at # "exited"
      BY <2>1 DEF WritePrompt, TypeInv, TypeOK
    <2>2. CASE child[fd["in"]].at = "exited"
      <3>1. active # None => active \in Workspaces
        BY DEF TypeInv, TypeOK
      <3>2. active # None => Notice("error", active, turn, 0) \in Event
        BY <1>1, <3>1, NoticeType DEF Kinds
      <3>3. StartEmit(c, Notice("error", active, turn, 0)) /\ state' = "dead"
        BY <2>2 DEF WritePrompt
      <3> QED BY <3>2, <3>3, StartEmitType DEF Threads, TypeInv, States
    <2> QED BY <2>1, <2>2
  <1>4. child' \in [Spawns -> Process] /\ ChildrenPlaced'
    <2>1. CASE child[fd["in"]].at # "exited"
      <3> DEFINE k == fd["in"]
                 prompt == [ws |-> call[c].ws, turn |-> turn, resumed |-> call[c].resumed]
                 p == [child[k] EXCEPT !.given = Append(@, prompt)]
      <3>1. child' = [child EXCEPT ![k] = p] /\ spawns' = spawns /\ k \in Nat
        BY <1>1, <2>1 DEF WritePrompt, bindVars
      <3>2. prompt \in Prompt
        <4>1. call[c].ws \in Workspaces /\ call[c].resumed \in Context \cup {None}
          BY <1>1 DEF CallsPlaced, CallRecord, WritePrompt, At
        <4> QED BY <1>1, <4>1 DEF Prompt
      <3>3. ASSUME k \in Spawns
            PROVE  p \in Process /\ ProcessPlaced(p, k, spawns')
        <4> HIDE DEF prompt
        <4>1. child[k] \in Process /\ child[k].given \in Seq(Prompt) /\ child[k].took \in Nat
          BY <1>1, <3>3 DEF Process
        <4>2. Append(child[k].given, prompt) \in Seq(Prompt)
              /\ Len(Append(child[k].given, prompt)) = Len(child[k].given) + 1
              /\ Len(child[k].given) \in Nat
          BY <3>2, <4>1
        <4>3. /\ p.at = child[k].at /\ p.ws = child[k].ws /\ p.took = child[k].took
              /\ p.given = Append(child[k].given, prompt)
          BY <4>1 DEF Process
        <4>4. p \in Process
          BY <4>1, <4>2 DEF Process
        <4>5. child[k].at # "none"
          BY <1>1, <3>3 DEF ChildrenPlaced, ProcessPlaced
        <4>6. /\ child[k].ws \in Workspaces
              /\ child[k].at = "working" => child[k].took \in 1 .. Len(child[k].given)
          BY <1>1, <3>3, <4>5 DEF ChildrenPlaced, ProcessPlaced
        <4>7. ~ (k > spawns')
          BY <1>1, <3>1
        <4>8. child[k].at = "working" => child[k].took \in 1 .. Len(Append(child[k].given, prompt))
          BY <4>1, <4>2, <4>6
        <4> HIDE DEF p
        <4> QED BY <4>3, <4>4, <4>5, <4>6, <4>7, <4>8 DEF ProcessPlaced
      <3> HIDE DEF p, k
      <3> QED BY <3>1, <3>3, ChildTypes
    <2>2. CASE child[fd["in"]].at = "exited"
      <3>1. child' = child /\ spawns' = spawns
        BY <2>2 DEF WritePrompt, bindVars
      <3> QED BY <1>1, <3>1 DEF ChildrenPlaced, ProcessPlaced
    <2> QED BY <2>1, <2>2
  <1>5. TypeOK'
    BY <1>2, <1>3, <1>4 DEF WritePrompt, bindVars, turnVars, logVars, TypeInv, TypeOK
  <1>6. FieldsPlaced' /\ ReadersPlaced'
    BY DEF WritePrompt, bindVars, TypeInv, Presence, FieldsPlaced, ReadersPlaced, ReaderPlaced
  <1> QED BY <1>2, <1>4, <1>5, <1>6 DEF TypeInv, Presence

LEMMA BindTypes ==
  ASSUME TypeInv, NEW c \in Callers, Bind(c)
  PROVE  TypeInv'
  <1> DEFINE w == call[c].ws
             k == spawns + 1
  <1>1. call' \in [Callers -> CallRecord] /\ CallsPlaced' /\ w \in Workspaces
    BY GoOnTypes DEF Bind, At, TypeInv, Presence, CallsPlaced
  <1>2. /\ spawns \in Nat /\ spawns < MaxSpawns /\ spawns' = k /\ pid' = k
        /\ fd \in [{"in", "out", "err"} -> 0 .. MaxSpawns]
        /\ fd' = [f \in DOMAIN fd |-> k]
        /\ active' = w /\ bindGen \in Nat /\ bindGen' = bindGen + 1
        /\ turn \in Nat /\ state' = "ready"
    BY DEF Bind, BindTo, TypeInv, TypeOK
  <1>3. ContextOf(w) \in Context \cup {None}
    BY <1>1, ContextType DEF TypeInv
  <1>4. child' \in [Spawns -> Process] /\ ChildrenPlaced'
    <2> DEFINE p == [child[k] EXCEPT !.at = "booting", !.ws = w, !.context = ContextOf(w)]
    <2>1. k \in Nat /\ k \in Spawns
      BY <1>2 DEF Spawns
    <2>2. child \in [Spawns -> Process] /\ child[k] \in Process
      BY <2>1 DEF TypeInv, TypeOK
    <2>5. child' = [child EXCEPT ![k].at = "booting", ![k].ws = w,
                                 ![k].context = ContextOf(w)]
      BY DEF Bind
    <2>6. child' = [child EXCEPT ![k] = p]
      BY <2>1, <2>2, <2>5
    <2>3. p \in Process /\ p.at = "booting" /\ p.ws = w
      BY <1>1, <1>3, <2>2 DEF Process
    <2>4. ~ (k > spawns')
      BY <1>2
    <2>7. ProcessPlaced(p, k, spawns')
      <3> HIDE DEF p, k, w
      <3> QED BY <1>1, <2>3, <2>4 DEF ProcessPlaced
    <2>8. spawns' = spawns \/ (k = spawns + 1 /\ spawns' = k)
      BY <1>2
    <2> HIDE DEF p, k
    <2> QED BY <2>1, <2>3, <2>6, <2>7, <2>8, ChildTypes
  <1>5. reader' \in [Readers -> ReaderRecord] /\ ReadersPlaced'
    <2>1. reader \in [Readers -> ReaderRecord] /\ ReadersPlaced
      BY DEF TypeInv, TypeOK, Presence
    <2>2. reader' = [r \in Readers |->
                       IF r[2] = k THEN [reader[r] EXCEPT !.at = "load"] ELSE reader[r]]
      BY DEF Bind
    <2>3. ASSUME NEW r \in Readers
          PROVE  /\ [reader[r] EXCEPT !.at = "load"] \in ReaderRecord
                 /\ [reader[r] EXCEPT !.at = "load"].at = "load"
      BY <2>1 DEF ReaderRecord
    <2>4. reader' \in [Readers -> ReaderRecord]
      BY <2>1, <2>2, <2>3
    <2>5. ReadersPlaced'
      BY <1>2, <2>1, <2>2, <2>3 DEF ReadersPlaced, ReaderPlaced
    <2> QED BY <2>4, <2>5
  <1>6. em' \in [Threads -> Emission \cup {None}]
    <2>1. Notice("agent.state", w, turn, 0) \in Event
      BY <1>1, <1>2, NoticeType DEF Kinds
    <2>2. Snapped(Notice("agent.state", w, turn, 0), w, bindGen + 1) \in Emission \cup {None}
      BY <1>1, <1>2, <2>1, SnappedType
    <2>3. em' = [em EXCEPT ![c] = Snapped(Notice("agent.state", w, turn, 0), w, bindGen + 1)]
      BY DEF Bind
    <2>4. em \in [Threads -> Emission \cup {None}]
      BY DEF TypeInv, TypeOK
    <2> QED BY <2>2, <2>3, <2>4, Zenon
  <1>7. /\ spawns' \in 0 .. MaxSpawns /\ pid' \in 0 .. MaxSpawns
        /\ fd' \in [{"in", "out", "err"} -> 0 .. MaxSpawns]
        /\ state' \in States
    BY <1>2 DEF States
  <1>8. /\ running' \in [Streams -> BOOLEAN] /\ pending' \in Context \cup {None}
        /\ UNCHANGED <<api, calls, turn, baseline, logVars>>
    BY <1>3 DEF Bind
  <1>9. TypeOK'
    <2>1. active' \in Workspaces \cup {None} /\ bindGen' \in Nat
      BY <1>1, <1>2
    <2>2. /\ api' \in Callers \cup {None} /\ calls' \in 0 .. MaxCalls
          /\ turn' \in Nat /\ baseline' \in [Workspaces -> Nat]
          /\ log' \in [Workspaces -> Seq(Event)] /\ era' \in [Workspaces -> Nat]
      BY <1>8 DEF logVars, TypeInv, TypeOK
    <2> QED BY <1>1, <1>4, <1>5, <1>6, <1>7, <1>8, <2>1, <2>2, Zenon DEF TypeOK
  <1>10. FieldsPlaced'
    BY <1>1, <1>2 DEF FieldsPlaced
  <1> QED BY <1>1, <1>4, <1>5, <1>9, <1>10 DEF TypeInv, Presence

LEMMA ProceedTypes ==
  ASSUME TypeInv, NEW c \in Callers, Proceed(c)
  PROVE  TypeInv'
  <1>1. CASE Reactivate(c)
    <2>1. call[c].ws \in Workspaces /\ calls' \in 0 .. MaxCalls /\ SwitchTo(c, call[c].ws)
      BY <1>1 DEF Reactivate, At, TypeInv, TypeOK, Presence, CallsPlaced
    <2> QED BY <2>1, SwitchTypes
  <1> QED BY <1>1, LeaveTypes, ReapTypes, CloseIoTypes, DrainedTypes, WipeTypes, BindTypes,
             BindFailsTypes, WritePromptTypes DEF Proceed

(* Emissions and readers leave the binding and the calls alone. *)
LEMMA EmitTypes ==
  ASSUME TypeInv, NEW t \in Threads, Emit(t)
  PROVE  TypeInv'
  <1>1. /\ em \in [Threads -> Emission \cup {None}]
        /\ log \in [Workspaces -> Seq(Event)] /\ era \in [Workspaces -> Nat]
    BY DEF TypeInv, TypeOK
  <1>2. em[t] \in Emission
    BY <1>1 DEF Emit, CheckEmit, AppendEmit
  <1>3. em[t].event \in Event /\ em[t].ws \in Workspaces
    BY <1>2 DEF Emission
  <1>4. em' \in [Threads -> Emission \cup {None}]
    <2>1. CASE CheckEmit(t)
      <3> DEFINE e == [em[t] EXCEPT !.log = era[em[t].ws]]
      <3>1. e \in Emission
        BY <1>1, <1>2, <1>3 DEF Emission
      <3>2. em' = [em EXCEPT ![t] = IF StillBound(em[t]) THEN e ELSE None]
        BY <2>1 DEF CheckEmit
      <3> HIDE DEF e
      <3>3. (IF StillBound(em[t]) THEN e ELSE None) \in Emission \cup {None}
        BY <3>1
      <3> QED BY <1>1, <3>2, <3>3, Zenon
    <2>2. CASE AppendEmit(t)
      BY <1>1, <2>2, Zenon DEF AppendEmit
    <2> QED BY <2>1, <2>2 DEF Emit
  <1>5. log' \in [Workspaces -> Seq(Event)]
    <2>1. CASE CheckEmit(t)
      BY <1>1, <2>1 DEF CheckEmit, logVars
    <2>2. CASE AppendEmit(t)
      <3> DEFINE w == em[t].ws
                 l == Append(log[w], em[t].event)
      <3>1. log' = log \/ log' = [log EXCEPT ![w] = l]
        BY <2>2 DEF AppendEmit
      <3>2. log[w] \in Seq(Event)
        BY <1>1, <1>3
      <3>3. l \in Seq(Event)
        BY <1>3, <3>2
      <3> HIDE DEF l, w
      <3> QED BY <1>1, <3>1, <3>3, Zenon
    <2> QED BY <2>1, <2>2 DEF Emit
  <1>6. UNCHANGED <<callVars, state, bindVars, running, turnVars, child, reader, era>>
    BY DEF Emit, CheckEmit, AppendEmit, logVars
  <1>7. TypeOK'
    BY <1>4, <1>5, <1>6 DEF callVars, bindVars, turnVars, TypeInv, TypeOK
  <1>8. Presence'
    BY <1>6 DEF callVars, bindVars, TypeInv, Presence, CallsPlaced, ChildrenPlaced,
               ProcessPlaced, FieldsPlaced, ReadersPlaced, ReaderPlaced
  <1> QED BY <1>7, <1>8 DEF TypeInv

(* A step of a reader that only moves the reader itself. *)
LEMMA ReaderTypes ==
  ASSUME TypeInv, NEW r \in Readers, NEW p, reader' = [reader EXCEPT ![r] = p],
         p \in ReaderRecord, ReaderPlaced(p, spawns), spawns' = spawns
  PROVE  reader' \in [Readers -> ReaderRecord] /\ ReadersPlaced'
  <1>1. reader \in [Readers -> ReaderRecord] /\ ReadersPlaced
    BY DEF TypeInv, TypeOK, Presence
  <1>2. reader' \in [Readers -> ReaderRecord]
    BY <1>1, Zenon
  <1>3. ASSUME NEW q \in Readers
        PROVE  ReaderPlaced(reader'[q], spawns')
    <2>1. reader'[q] = IF q = r THEN p ELSE reader[q]
      BY <1>1, <1>3
    <2>2. ReaderPlaced(reader[q], spawns)
      BY <1>1, <1>3 DEF ReadersPlaced
    <2> QED BY <2>1, <2>2
  <1>4. ReadersPlaced'
    BY <1>3, Zenon DEF ReadersPlaced
  <1> QED BY <1>2, <1>4

LEMMA StepTypes ==
  ASSUME TypeInv, NEW r \in Readers, NEW stage, Step(r, stage), reader[r].at # "off",
         stage \in {"load", "emitting", "ending", "done"}, spawns' = spawns
  PROVE  reader' \in [Readers -> ReaderRecord] /\ ReadersPlaced'
  <1> DEFINE p == [reader[r] EXCEPT !.at = stage]
  <1>1. reader[r] \in ReaderRecord /\ spawns > 0
    BY DEF TypeInv, TypeOK, Presence, ReadersPlaced, ReaderPlaced
  <1>2. p \in ReaderRecord /\ p.at = stage
    BY <1>1 DEF ReaderRecord
  <1>3. reader' = [reader EXCEPT ![r] = p]
    BY DEF Step
  <1> HIDE DEF p
  <1>4. ReaderPlaced(p, spawns)
    BY <1>1, <1>2 DEF ReaderPlaced
  <1> QED BY <1>2, <1>3, <1>4, ReaderTypes

LEMMA LoadTypes ==
  ASSUME TypeInv, NEW r \in Readers, Load(r)
  PROVE  reader' \in [Readers -> ReaderRecord] /\ ReadersPlaced'
  <1> DEFINE k == fd[r[1]]
             p == [reader[r] EXCEPT !.at = "read", !.from = k]
  <1>1. reader \in [Readers -> ReaderRecord] /\ reader[r] \in ReaderRecord
        /\ spawns \in Nat
    BY DEF TypeInv, TypeOK
  <1>2. k \in 0 .. MaxSpawns /\ k \in 1 .. spawns
    <2>1. r[1] \in {"in", "out", "err"}
      BY DEF Readers, Streams
    <2>2. k \in 0 .. MaxSpawns /\ k <= spawns /\ k # 0
      BY <2>1 DEF Load, TypeInv, TypeOK, Presence, FieldsPlaced
    <2> QED BY <1>1, <2>2
  <1> HIDE DEF k
  <1>3. p \in ReaderRecord /\ p.at = "read" /\ p.from = k
    BY <1>1, <1>2 DEF ReaderRecord
  <1>4. reader' = [reader EXCEPT ![r] = p]
    <2>1. reader' = [reader EXCEPT ![r].at = "read", ![r].from = k]
      BY DEF Load, k
    <2> QED BY <1>1, <2>1
  <1> HIDE DEF p
  <1>5. ReaderPlaced(p, spawns)
    BY <1>1, <1>2, <1>3 DEF ReaderPlaced
  <1>6. spawns' = spawns
    BY DEF Load, bindVars
  <1> QED BY <1>3, <1>4, <1>5, <1>6, ReaderTypes

(* Taking the head of a pipe, or moving the child along. *)
LEMMA KeepsPlace ==
  ASSUME TypeInv, NEW k \in Spawns, NEW p \in Process,
         child' = [child EXCEPT ![k] = p], spawns' = spawns, child[k].at # "none",
         p.at \in {child[k].at, "exited", "waiting"}, p.ws = child[k].ws,
         p.given = child[k].given, p.took = child[k].took
  PROVE  child' \in [Spawns -> Process] /\ ChildrenPlaced'
  <1>1. ProcessPlaced(child[k], k, spawns) /\ k \in Nat
    BY DEF TypeInv, Presence, ChildrenPlaced, Spawns
  <1>2. ProcessPlaced(p, k, spawns')
    BY <1>1 DEF ProcessPlaced
  <1> QED BY <1>1, <1>2, ChildTypes

(* What a reader finds in the pipe it reads from. *)
LEMMA PipeTypes ==
  ASSUME TypeInv, NEW r \in Readers, Reading(r, "read")
  PROVE  LET k == reader[r].from IN
           /\ k \in Spawns /\ child[k] \in Process
           /\ child[k].at # "none" /\ child[k].ws \in Workspaces
  <1> DEFINE k == reader[r].from
  <1>1. k \in 1 .. spawns /\ spawns \in 0 .. MaxSpawns
    BY DEF Reading, TypeInv, TypeOK, Presence, ReadersPlaced, ReaderPlaced
  <1>2. k \in Spawns /\ ~ (k > spawns)
    BY <1>1 DEF Spawns
  <1>3. child[k] \in Process /\ ProcessPlaced(child[k], k, spawns)
    BY <1>2 DEF TypeInv, TypeOK, Presence, ChildrenPlaced
  <1> QED BY <1>2, <1>3 DEF ProcessPlaced

LEMMA ReadOutTypes ==
  ASSUME TypeInv, NEW r \in Readers, ReadOut(r)
  PROVE  TypeInv'
  <1> DEFINE k == reader[r].from
             p == [child[k] EXCEPT !.out = Tail(@)]
  <1>1. k \in Spawns /\ child[k] \in Process /\ child[k].at # "none" /\ child[k].ws \in Workspaces
    BY PipeTypes DEF ReadOut
  <1>2. child[k].out \in Seq(Nat) /\ child[k].out # <<>>
    BY <1>1 DEF ReadOut, Process
  <1>3. Head(child[k].out) \in Nat /\ Tail(child[k].out) \in Seq(Nat)
    BY <1>2, SMTT(30)
  <1>4. child' \in [Spawns -> Process] /\ ChildrenPlaced'
    <2>1. p \in Process /\ p.at = child[k].at /\ p.ws = child[k].ws
          /\ p.given = child[k].given /\ p.took = child[k].took
      BY <1>1, <1>3 DEF Process
    <2>2. child' = [child EXCEPT ![k] = p] /\ spawns' = spawns
      BY DEF ReadOut, bindVars
    <2> HIDE DEF p, k
    <2> QED BY <1>1, <2>1, <2>2, KeepsPlace
  <1>5. em' \in [Threads -> Emission \cup {None}]
    <2>1. Notice("answer", child[k].ws, Head(child[k].out), 0) \in Event
      BY <1>1, <1>3, NoticeType DEF Kinds
    <2>2. StartEmit(r, Notice("answer", child[k].ws, Head(child[k].out), 0))
      BY DEF ReadOut
    <2> QED BY <2>1, <2>2, StartEmitType DEF Threads, TypeInv
  <1>6. reader' \in [Readers -> ReaderRecord] /\ ReadersPlaced'
    BY StepTypes DEF ReadOut, Reading, bindVars
  <1>7. UNCHANGED <<callVars, state, bindVars, running, turnVars, logVars>>
    BY DEF ReadOut
  <1>8. TypeOK'
    BY <1>4, <1>5, <1>6, <1>7 DEF callVars, bindVars, turnVars, logVars, TypeInv, TypeOK
  <1>9. CallsPlaced' /\ FieldsPlaced'
    BY <1>7 DEF callVars, bindVars, TypeInv, Presence, CallsPlaced, FieldsPlaced
  <1> QED BY <1>4, <1>6, <1>8, <1>9 DEF TypeInv, Presence

LEMMA ReadErrTypes ==
  ASSUME TypeInv, NEW r \in Readers, ReadErr(r)
  PROVE  TypeInv'
  <1> DEFINE k == reader[r].from
             p == [child[k] EXCEPT !.err = Tail(@)]
  <1>1. k \in Spawns /\ child[k] \in Process /\ child[k].at # "none" /\ child[k].ws \in Workspaces
    BY PipeTypes DEF ReadErr
  <1>2. child[k].err \in Seq(Nat) /\ child[k].err # <<>>
    <2>1. child[k].err \in Seq(Nat)
      BY <1>1 DEF Process
    <2>2. child[k].err # <<>>
      BY DEF ReadErr
    <2> QED BY <2>1, <2>2
  <1>3. Head(child[k].err) \in Nat /\ Tail(child[k].err) \in Seq(Nat)
    BY <1>2
  <1>4. child' \in [Spawns -> Process] /\ ChildrenPlaced'
    <2>1. p \in Process /\ p.at = child[k].at /\ p.ws = child[k].ws
          /\ p.given = child[k].given /\ p.took = child[k].took
      BY <1>1, <1>3 DEF Process
    <2>2. child' = [child EXCEPT ![k] = p] /\ spawns' = spawns
      BY DEF ReadErr, bindVars
    <2> HIDE DEF p, k
    <2> QED BY <1>1, <2>1, <2>2, KeepsPlace
  <1>5. reader' \in [Readers -> ReaderRecord] /\ ReadersPlaced' /\ state' \in States
    <2>1. CASE EndsTurn
      <3> DEFINE q == [reader[r] EXCEPT !.at = "ended", !.turn = turn,
                                        !.saw = Head(child[k].err), !.ws = child[k].ws]
      <3>1. /\ reader \in [Readers -> ReaderRecord] /\ reader[r] \in ReaderRecord
            /\ turn \in Nat /\ spawns > 0
        BY DEF TypeInv, TypeOK, Presence, ReadersPlaced, ReaderPlaced, ReadErr, Reading
      <3>2. q \in ReaderRecord /\ q.at = "ended" /\ q.ws = child[k].ws
        BY <1>1, <1>3, <3>1 DEF ReaderRecord
      <3>3. /\ state' = "ready"
            /\ reader' = [reader EXCEPT ![r].at = "ended", ![r].turn = turn,
                             ![r].saw = Head(child[k].err), ![r].ws = child[k].ws]
        BY <2>1 DEF ReadErr
      <3>4. reader' = [reader EXCEPT ![r] = q]
        BY <3>1, <3>3
      <3> HIDE DEF q
      <3>5. ReaderPlaced(q, spawns)
        BY <1>1, <3>1, <3>2 DEF ReaderPlaced
      <3>6. spawns' = spawns
        BY DEF ReadErr, bindVars
      <3> QED BY <3>2, <3>3, <3>4, <3>5, <3>6, ReaderTypes DEF States
    <2>2. CASE ~EndsTurn
      <3>1. Step(r, "load") /\ state' = state /\ spawns' = spawns
        BY <2>2 DEF ReadErr, bindVars
      <3> QED BY <3>1, StepTypes DEF ReadErr, Reading, TypeInv, TypeOK
    <2> QED BY <2>1, <2>2
  <1>6. UNCHANGED <<callVars, bindVars, running, turnVars, em, logVars>>
    BY DEF ReadErr
  <1>7. TypeOK'
    BY <1>4, <1>5, <1>6 DEF callVars, bindVars, turnVars, logVars, TypeInv, TypeOK
  <1>8. CallsPlaced' /\ FieldsPlaced'
    BY <1>6 DEF callVars, bindVars, TypeInv, Presence, CallsPlaced, FieldsPlaced
  <1> QED BY <1>4, <1>5, <1>7, <1>8 DEF TypeInv, Presence

LEMMA StartDiffTypes ==
  ASSUME TypeInv, NEW r \in Readers, StartDiff(r)
  PROVE  reader' \in [Readers -> ReaderRecord] /\ ReadersPlaced'
  <1> DEFINE p == [reader[r] EXCEPT !.at = "diffing", !.ws = active]
  <1>1. reader \in [Readers -> ReaderRecord] /\ reader[r] \in ReaderRecord
        /\ spawns > 0 /\ active \in Workspaces
    BY DEF StartDiff, Reading, TypeInv, TypeOK, Presence, ReadersPlaced, ReaderPlaced, FieldsPlaced
  <1>2. p \in ReaderRecord /\ p.at = "diffing" /\ p.ws = active
    BY <1>1 DEF ReaderRecord
  <1>3. reader' = [reader EXCEPT ![r].at = "diffing", ![r].ws = active] /\ spawns' = spawns
    BY DEF StartDiff, bindVars
  <1>4. reader' = [reader EXCEPT ![r] = p]
    BY <1>1, <1>3
  <1> HIDE DEF p
  <1>5. ReaderPlaced(p, spawns)
    BY <1>1, <1>2 DEF ReaderPlaced
  <1> QED BY <1>2, <1>3, <1>4, <1>5, ReaderTypes

LEMMA TurnEndTypes ==
  ASSUME TypeInv, NEW r \in Readers, EmitTurnEnd(r) \/ EmitDiff(r)
  PROVE  /\ em' \in [Threads -> Emission \cup {None}]
         /\ reader' \in [Readers -> ReaderRecord] /\ ReadersPlaced'
  <1>1. reader[r].ws \in Workspaces
    BY DEF EmitTurnEnd, EmitDiff, Reading, TypeInv, Presence, ReadersPlaced, ReaderPlaced
  <1>2. reader[r].turn \in Nat /\ reader[r].saw \in Nat
    <2>1. reader[r] \in ReaderRecord
      BY DEF TypeInv, TypeOK
    <2> QED BY <2>1 DEF ReaderRecord
  <1>3. em' \in [Threads -> Emission \cup {None}]
    <2>1. CASE EmitTurnEnd(r)
      <3>1. Notice("answer_end", reader[r].ws, reader[r].turn, reader[r].saw) \in Event
        BY <1>1, <1>2, NoticeType DEF Kinds
      <3> QED BY <2>1, <3>1, StartEmitType DEF EmitTurnEnd, Threads, TypeInv
    <2>2. CASE EmitDiff(r)
      <3>1. baseline[reader[r].ws] \in Nat
        BY <1>1 DEF TypeInv, TypeOK
      <3>2. Notice("turn_diff", reader[r].ws, reader[r].turn, baseline[reader[r].ws]) \in Event
        BY <1>1, <1>2, <3>1, NoticeType DEF Kinds
      <3>3. UNCHANGED em \/ StartEmit(r, Notice("turn_diff", reader[r].ws, reader[r].turn,
                                                baseline[reader[r].ws]))
        BY <2>2 DEF EmitDiff
      <3>4. em \in [Threads -> Emission \cup {None}]
        BY DEF TypeInv, TypeOK
      <3> QED BY <3>2, <3>3, <3>4, StartEmitType DEF Threads, TypeInv
    <2> QED BY <2>1, <2>2
  <1>4. \E stage \in {"ending", "emitting"} : Step(r, stage)
    BY DEF EmitTurnEnd, EmitDiff
  <1>5. reader[r].at # "off" /\ spawns' = spawns
    BY DEF EmitTurnEnd, EmitDiff, Reading, bindVars
  <1> QED BY <1>3, <1>4, <1>5, StepTypes

LEMMA ReadTypes ==
  ASSUME TypeInv, NEW r \in Readers, Read(r)
  PROVE  TypeInv'
  <1>1. CASE Load(r) \/ StartDiff(r) \/ Resume(r)
    <2>1. reader' \in [Readers -> ReaderRecord] /\ ReadersPlaced'
      BY <1>1, LoadTypes, StartDiffTypes, StepTypes DEF Resume, Reading, bindVars
    <2>2. UNCHANGED <<callVars, state, bindVars, running, turnVars, child, em, logVars>>
      BY <1>1 DEF Load, StartDiff, Resume
    <2>3. TypeOK'
      BY <2>1, <2>2 DEF callVars, bindVars, turnVars, logVars, TypeInv, TypeOK
    <2>4. CallsPlaced' /\ FieldsPlaced' /\ ChildrenPlaced'
      BY <2>2 DEF callVars, bindVars, TypeInv, Presence, CallsPlaced, FieldsPlaced, ChildrenPlaced
    <2> QED BY <2>1, <2>3, <2>4 DEF TypeInv, Presence
  <1>2. CASE EmitTurnEnd(r) \/ EmitDiff(r)
    <2>1. UNCHANGED <<callVars, state, bindVars, running, turnVars, child, logVars>>
      BY <1>2 DEF EmitTurnEnd, EmitDiff
    <2>2. TypeOK'
      BY <1>2, <2>1, TurnEndTypes DEF callVars, bindVars, turnVars, logVars, TypeInv, TypeOK
    <2>3. CallsPlaced' /\ FieldsPlaced' /\ ChildrenPlaced'
      BY <2>1 DEF callVars, bindVars, TypeInv, Presence, CallsPlaced, FieldsPlaced, ChildrenPlaced
    <2> QED BY <1>2, <2>2, <2>3, TurnEndTypes DEF TypeInv, Presence
  <1>3. CASE ReaderEnds(r)
    <2>1. reader' \in [Readers -> ReaderRecord] /\ ReadersPlaced'
      BY <1>3, StepTypes DEF ReaderEnds, PipeOver, Reading, bindVars
    <2>2. UNCHANGED <<callVars, state, bindVars, turnVars, child, em, logVars>>
      BY <1>3 DEF ReaderEnds
    <2>3. running' \in [Streams -> BOOLEAN]
      BY <1>3 DEF ReaderEnds, FlagsAfter, TypeInv, TypeOK
    <2>4. TypeOK'
      BY <2>1, <2>2, <2>3 DEF callVars, bindVars, turnVars, logVars, TypeInv, TypeOK
    <2>5. CallsPlaced' /\ FieldsPlaced' /\ ChildrenPlaced'
      BY <2>2 DEF callVars, bindVars, TypeInv, Presence, CallsPlaced, FieldsPlaced, ChildrenPlaced
    <2> QED BY <2>1, <2>4, <2>5 DEF TypeInv, Presence
  <1> QED BY <1>1, <1>2, <1>3, ReadOutTypes, ReadErrTypes DEF Read

LEMMA RunTypes ==
  ASSUME TypeInv, NEW k \in Spawns, Run(k)
  PROVE  TypeInv'
  <1>1. /\ child \in [Spawns -> Process] /\ child[k] \in Process
        /\ child[k].given \in Seq(Prompt) /\ child[k].took \in Nat
        /\ child[k].out \in Seq(Nat) /\ child[k].err \in Seq(Nat)
        /\ ProcessPlaced(child[k], k, spawns)
    BY DEF TypeInv, TypeOK, Presence, ChildrenPlaced, Process
  <1>2. UNCHANGED <<callVars, state, bindVars, running, turnVars, reader, em, logVars>>
    BY DEF Run, Boot, TakePrompt, Say, Finish, Exit, ProcessOnly
  <1>3. spawns' = spawns /\ child[k].at # "none" /\ k \in Nat
    BY <1>2 DEF bindVars, Run, Boot, TakePrompt, Say, Finish, Exit, Alive, Spawns
  <1>4. child[k].at = "working" => Current(k) \in Nat
    <2>1. ASSUME child[k].at = "working" PROVE child[k].given[child[k].took] \in Prompt
      BY <1>1, <2>1 DEF ProcessPlaced
    <2> QED BY <2>1 DEF Current, Prompt
  <1>5. /\ Append(child[k].err, 0) \in Seq(Nat)
        /\ child[k].took + 1 \in Nat
        /\ child[k].at = "working" => /\ Append(child[k].err, Current(k)) \in Seq(Nat)
                                     /\ Append(child[k].out, Current(k)) \in Seq(Nat)
    BY <1>1, <1>4
  <1>6. child' \in [Spawns -> Process] /\ ChildrenPlaced'
    <2>1. CASE Boot(k)
      <3> DEFINE p == [child[k] EXCEPT !.at = "waiting", !.err = Append(@, 0)]
      <3>1. p \in Process /\ p.at = "waiting" /\ p.ws = child[k].ws
            /\ p.given = child[k].given /\ p.took = child[k].took
        BY <1>1, <1>5 DEF Process
      <3>2. child' = [child EXCEPT ![k].at = "waiting", ![k].err = Append(@, 0)]
        BY <2>1 DEF Boot
      <3>3. child' = [child EXCEPT ![k] = p]
        BY <1>1, <3>2
      <3> HIDE DEF p
      <3> QED BY <1>3, <3>1, <3>3, KeepsPlace
    <2>2. CASE TakePrompt(k)
      <3> DEFINE p == [child[k] EXCEPT !.at = "working", !.took = @ + 1, !.said = FALSE]
      <3>1. p \in Process /\ p.at = "working" /\ p.ws = child[k].ws
            /\ p.given = child[k].given /\ p.took = child[k].took + 1
        BY <1>1, <1>5 DEF Process
      <3>2. child' = [child EXCEPT ![k].at = "working", ![k].took = @ + 1, ![k].said = FALSE]
            /\ child[k].took < Len(child[k].given)
        BY <2>2 DEF TakePrompt
      <3>3. child' = [child EXCEPT ![k] = p]
        BY <1>1, <3>2
      <3>4. p.took \in 1 .. Len(p.given)
        <4> HIDE DEF p
        <4>1. Len(child[k].given) \in Nat
          BY <1>1
        <4> QED BY <1>1, <3>1, <3>2, <4>1
      <3> HIDE DEF p
      <3>5. ProcessPlaced(p, k, spawns')
        BY <1>1, <1>3, <3>1, <3>4 DEF ProcessPlaced
      <3> QED BY <1>3, <3>1, <3>3, <3>5, ChildTypes
    <2>3. CASE Say(k)
      <3> DEFINE p == [child[k] EXCEPT !.said = TRUE, !.out = Append(@, Current(k))]
      <3>1. p \in Process /\ p.at = child[k].at /\ p.ws = child[k].ws
            /\ p.given = child[k].given /\ p.took = child[k].took
        <4>1. child[k].at = "working"
          BY <2>3 DEF Say
        <4> QED BY <1>1, <1>5, <4>1 DEF Process
      <3>2. child' = [child EXCEPT ![k].said = TRUE, ![k].out = Append(@, Current(k))]
        BY <2>3 DEF Say
      <3>3. child' = [child EXCEPT ![k] = p]
        BY <1>1, <3>2
      <3> HIDE DEF p
      <3> QED BY <1>3, <3>1, <3>3, KeepsPlace
    <2>4. CASE Finish(k)
      <3> DEFINE p == [child[k] EXCEPT !.at = "waiting", !.err = Append(@, Current(k))]
      <3>1. p \in Process /\ p.at = "waiting" /\ p.ws = child[k].ws
            /\ p.given = child[k].given /\ p.took = child[k].took
        <4>1. child[k].at = "working"
          BY <2>4 DEF Finish
        <4> QED BY <1>1, <1>5, <4>1 DEF Process
      <3>2. child' = [child EXCEPT ![k].at = "waiting", ![k].err = Append(@, Current(k))]
        BY <2>4 DEF Finish
      <3>3. child' = [child EXCEPT ![k] = p]
        BY <1>1, <3>2
      <3> HIDE DEF p
      <3> QED BY <1>3, <3>1, <3>3, KeepsPlace
    <2>5. CASE Exit(k)
      <3> DEFINE p == [child[k] EXCEPT !.at = "exited"]
      <3>1. p \in Process /\ p.at = "exited" /\ p.ws = child[k].ws
            /\ p.given = child[k].given /\ p.took = child[k].took
        BY <1>1 DEF Process
      <3>2. child' = [child EXCEPT ![k] = p]
        BY <2>5 DEF Exit
      <3> HIDE DEF p
      <3> QED BY <1>3, <3>1, <3>2, KeepsPlace
    <2> QED BY <2>1, <2>2, <2>3, <2>4, <2>5 DEF Run
  <1>7. TypeOK'
    BY <1>2, <1>6 DEF callVars, bindVars, turnVars, logVars, TypeInv, TypeOK
  <1>8. CallsPlaced' /\ FieldsPlaced' /\ ReadersPlaced'
    BY <1>2 DEF callVars, bindVars, TypeInv, Presence, CallsPlaced, FieldsPlaced, ReadersPlaced
  <1> QED BY <1>6, <1>7, <1>8 DEF TypeInv, Presence

LEMMA TypeInvNext == TypeInv /\ [Next]_vars => TypeInv'
  <1> SUFFICES ASSUME TypeInv, [Next]_vars PROVE TypeInv'
    OBVIOUS
  <1>1. CASE Next
    BY <1>1, BeginTypes, ProceedTypes, ReadTypes, EmitTypes, RunTypes DEF Next
  <1>2. CASE UNCHANGED vars
    BY <1>2 DEF vars, callVars, bindVars, turnVars, logVars, TypeInv, TypeOK, Presence,
               CallsPlaced, ChildrenPlaced, FieldsPlaced, ReadersPlaced
  <1> QED BY <1>1, <1>2

(* Every variable keeps its type in every run: a step always finds the     *)
(* workspace, child or reader it works on.                                 *)
THEOREM TypeCorrect == Spec => []TypeOK
  <1>1. TypeInv => TypeOK
    BY DEF TypeInv
  <1> QED BY <1>1, TypeInvInit, TypeInvNext, PTL DEF Spec

-----------------------------------------------------------------------------
(* Safety.                                                                 *)

(* Stages in which a caller holds api_mu. *)
HeldStages == {"reap", "close", "drain", "bind", "write", "return"}

Locking == \A c \in Callers : call[c].at \in HeldStages <=> api = c

(* What the pid field says of processes and descriptors, by stage. *)
BoundChild ==
  pid # 0 => pid = spawns /\ child[pid].ws = active /\ fd["out"] = pid /\ fd["err"] = pid

OnlyChild == \A k \in Spawns : Alive(k) => k = pid

CallsBound ==
  \A c \in Callers :
    /\ call[c].at \in {"reap", "close"} => pid # 0
    /\ call[c].at = "close" => child[pid].at = "exited"
    /\ call[c].at \in {"drain", "bind"} => pid = 0
    /\ call[c].at = "write" => pid # 0 /\ fd["in"] = pid /\ call[c].ws = active
    /\ call[c].at = "return" /\ pid # 0 => fd["in"] = pid

InputBound == pid # 0 /\ api = None => fd["in"] = pid

Binding == BoundChild /\ OnlyChild /\ CallsBound /\ InputBound

(* The context a child has still to be given. *)
Owed == IF child[pid].given = <<>> THEN child[pid].context ELSE None

Staging ==
  pid # 0 /\ child[pid].at # "exited" =>
    /\ (\A c \in Callers : call[c].at # "write") => pending = Owed
    /\ \A c \in Callers : call[c].at = "write" => pending = None /\ call[c].resumed = Owed

Switching(r) ==
  r.at \in {"reap", "close", "drain", "bind", "activate"} \/ (r.at = "wipe" /\ r.again)

Showing ==
  /\ state \in {"ready", "busy"} => pid # 0
  /\ state = "idle" => pid = 0
  /\ \A c \in Callers :
       /\ call[c].at \in {"reap", "close", "drain"} => state = "draining"
       /\ call[c].at \in {"write", "return"} => state # "draining"
  /\ state = "draining" =>
       /\ api = None => pid = 0
       /\ \E c \in Callers : Switching(call[c])

Inv == TypeInv /\ Locking /\ Binding /\ Staging /\ Showing /\ PromptsInPlace

-----------------------------------------------------------------------------
LEMMA InvInit == Init => Inv
  <1> SUFFICES ASSUME Init PROVE Inv
    OBVIOUS
  <1>1. TypeInv
    BY TypeInvInit
  <1>2. Locking
    BY NoneApart DEF Init, Locking, HeldStages
  <1>3. Binding
    BY DEF Init, Binding, BoundChild, OnlyChild, CallsBound, InputBound, Alive
  <1>4. Staging /\ Showing
    BY DEF Init, Staging, Showing
  <1>5. PromptsInPlace
    BY DEF Init, PromptsInPlace
  <1> QED BY <1>1, <1>2, <1>3, <1>4, <1>5 DEF Inv

LEMMA GotoMoves ==
  ASSUME TypeInv, NEW c \in Callers, NEW stage, NEW w, Goto(c, stage, w)
  PROVE  /\ call'[c].at = stage /\ call'[c].ws = w
         /\ call'[c].again = call[c].again /\ call'[c].resumed = call[c].resumed
         /\ \A d \in Callers \ {c} : call'[d] = call[d]
  <1>1. call \in [Callers -> CallRecord] /\ call[c] \in CallRecord
    BY DEF TypeInv, TypeOK
  <1>2. call' = [call EXCEPT ![c].at = stage, ![c].ws = w]
    BY DEF Goto
  <1> QED BY <1>1, <1>2 DEF CallRecord

(* Steps of readers, emissions and the child itself leave calls and        *)
(* binding alone; a child keeps its workspace and prompts and does not     *)
(* come back to life; a turn in flight may end.                            *)
LEMMA QuietStep ==
  ASSUME Inv, UNCHANGED <<callVars, bindVars, pending>>,
         state' = state \/ (state = "busy" /\ state' = "ready"),
         \A k \in Spawns :
           /\ child'[k].ws = child[k].ws /\ child'[k].context = child[k].context
           /\ child'[k].given = child[k].given
           /\ child[k].at = "exited" => child'[k].at = "exited"
           /\ child[k].at = "none" => child'[k].at = "none"
  PROVE  Locking' /\ Binding' /\ Staging' /\ Showing' /\ PromptsInPlace'
  <1>1. /\ UNCHANGED <<api, call, active, pid, spawns, fd, pending>>
        /\ pid # 0 => pid \in Spawns
    BY DEF callVars, bindVars, Inv, TypeInv, TypeOK, Spawns
  <1>2. Locking'
    BY <1>1 DEF Inv, Locking
  <1>3. Binding'
    <2>1. BoundChild' /\ InputBound'
      BY <1>1 DEF Inv, Binding, BoundChild, InputBound
    <2>2. OnlyChild'
      BY <1>1 DEF Inv, Binding, OnlyChild, Alive
    <2>3. CallsBound'
      BY <1>1 DEF Inv, Binding, CallsBound
    <2> QED BY <2>1, <2>2, <2>3 DEF Binding
  <1>4. Staging'
    BY <1>1 DEF Inv, Staging, Owed
  <1>5. Showing'
    BY <1>1 DEF Inv, Showing, Switching
  <1>6. PromptsInPlace'
    BY <1>1 DEF Inv, PromptsInPlace
  <1> QED BY <1>2, <1>3, <1>4, <1>5, <1>6

LEMMA RunSafe ==
  ASSUME Inv, NEW k \in Spawns, Run(k)
  PROVE  Inv'
  <1>1. TypeInv'
    BY RunTypes DEF Inv
  <1>2. UNCHANGED <<callVars, bindVars, pending>> /\ state' = state
    BY DEF Run, Boot, TakePrompt, Say, Finish, Exit, ProcessOnly, turnVars
  <1>3. ASSUME NEW i \in Spawns
        PROVE  /\ child'[i].ws = child[i].ws /\ child'[i].context = child[i].context
               /\ child'[i].given = child[i].given
               /\ child[i].at = "exited" => child'[i].at = "exited"
               /\ child[i].at = "none" => child'[i].at = "none"
    <2>1. child \in [Spawns -> Process] /\ child[i] \in Process
      BY DEF Inv, TypeInv, TypeOK
    <2>2. CASE Boot(k)
      BY <2>1, <2>2 DEF Boot, Process
    <2>3. CASE TakePrompt(k)
      BY <2>1, <2>3 DEF TakePrompt, Process
    <2>4. CASE Say(k)
      BY <2>1, <2>4 DEF Say, Process
    <2>5. CASE Finish(k)
      BY <2>1, <2>5 DEF Finish, Process
    <2>6. CASE Exit(k)
      BY <2>1, <2>6 DEF Exit, Alive, Process
    <2> QED BY <2>2, <2>3, <2>4, <2>5, <2>6 DEF Run
  <1> QED BY <1>1, <1>2, <1>3, QuietStep DEF Inv

LEMMA EmitSafe ==
  ASSUME Inv, NEW t \in Threads, Emit(t)
  PROVE  Inv'
  <1>1. TypeInv'
    BY EmitTypes DEF Inv
  <1>2. UNCHANGED <<callVars, bindVars, pending>> /\ state' = state /\ child' = child
    BY DEF Emit, CheckEmit, AppendEmit, turnVars
  <1> QED BY <1>1, <1>2, QuietStep DEF Inv

LEMMA ReadSafe ==
  ASSUME Inv, NEW r \in Readers, Read(r)
  PROVE  Inv'
  <1>1. TypeInv'
    BY ReadTypes DEF Inv
  <1>2. UNCHANGED <<callVars, bindVars, pending>>
    BY DEF Read, Load, ReadOut, ReadErr, EmitTurnEnd, StartDiff, EmitDiff, Resume, ReaderEnds,
           turnVars
  <1>3. state' = state \/ (state = "busy" /\ state' = "ready")
    BY DEF Read, Load, ReadOut, ReadErr, EndsTurn, EmitTurnEnd, StartDiff, EmitDiff, Resume,
           ReaderEnds
  <1>4. ASSUME NEW i \in Spawns
        PROVE  /\ child'[i].ws = child[i].ws /\ child'[i].context = child[i].context
               /\ child'[i].given = child[i].given /\ child'[i].at = child[i].at
    <2>1. child \in [Spawns -> Process] /\ child[i] \in Process
      BY DEF Inv, TypeInv, TypeOK
    <2>2. CASE ReadOut(r) \/ ReadErr(r)
      <3>1. \/ child' = [child EXCEPT ![reader[r].from].out = Tail(@)]
            \/ child' = [child EXCEPT ![reader[r].from].err = Tail(@)]
        BY <2>2 DEF ReadOut, ReadErr
      <3>2. CASE child' = [child EXCEPT ![reader[r].from].out = Tail(@)]
        BY <2>1, <3>2 DEF Process
      <3>3. CASE child' = [child EXCEPT ![reader[r].from].err = Tail(@)]
        BY <2>1, <3>3 DEF Process
      <3> QED BY <3>1, <3>2, <3>3
    <2>3. CASE ~ (ReadOut(r) \/ ReadErr(r))
      BY <2>3 DEF Read, Load, EmitTurnEnd, StartDiff, EmitDiff, Resume, ReaderEnds
    <2> QED BY <2>2, <2>3
  <1> QED BY <1>1, <1>2, <1>3, <1>4, QuietStep DEF Inv

(* A caller that holds api_mu is the only one in the held stages. *)
LEMMA OthersOut ==
  ASSUME Inv, NEW c \in Callers, NEW d \in Callers \ {c}, api = c \/ api = None
  PROVE  call[d].at \notin HeldStages
  BY NoneApart DEF Inv, Locking

(* Reap, CloseIo and Drained: the old child goes. *)
LEMMA ReapSafe ==
  ASSUME Inv, NEW c \in Callers, Reap(c)
  PROVE  Inv'
  <1>1. TypeInv'
    BY ReapTypes DEF Inv
  <1>2. api = c /\ call[c].at = "reap" /\ pid # 0
    BY DEF Reap, At, Inv, Locking, HeldStages, Binding, CallsBound
  <1>3. /\ call'[c].at = "close" /\ call'[c].ws = call[c].ws
        /\ \A d \in Callers \ {c} : call'[d] = call[d]
    BY GotoMoves DEF Reap, GoOn, Inv
  <1>4. UNCHANGED <<api, state, active, pid, spawns, fd, pending>>
    BY DEF Reap, bindVars, turnVars
  <1>5. /\ pid \in Spawns /\ child'[pid].at = "exited" /\ child'[pid].ws = child[pid].ws
        /\ child'[pid].given = child[pid].given /\ child'[pid].context = child[pid].context
        /\ \A k \in Spawns \ {pid} : child'[k] = child[k]
    <2>1. child \in [Spawns -> Process] /\ pid \in Spawns
      BY <1>2 DEF Inv, TypeInv, TypeOK, Spawns
    <2>2. child[pid] \in Process /\ child' = [child EXCEPT ![pid].at = "exited"]
      BY <2>1 DEF Reap
    <2> QED BY <2>1, <2>2 DEF Process
  <1>6. Locking'
    BY <1>2, <1>3, <1>4, OthersOut DEF Inv, Locking, HeldStages
  <1>7. Binding'
    <2>1. BoundChild'
      BY <1>2, <1>4, <1>5 DEF Inv, Binding, BoundChild
    <2>2. InputBound'
      BY <1>2, <1>4, NoneApart DEF InputBound
    <2>3. OnlyChild'
      BY <1>4, <1>5 DEF Inv, Binding, OnlyChild, Alive
    <2>4. CallsBound'
      BY <1>2, <1>3, <1>4, <1>5, OthersOut DEF Inv, Binding, CallsBound, HeldStages
    <2> QED BY <2>1, <2>2, <2>3, <2>4 DEF Binding
  <1>8. Staging'
    BY <1>4, <1>5 DEF Staging
  <1>9. Showing'
    BY <1>2, <1>3, <1>4, NoneApart DEF Inv, Showing, Switching
  <1>10. PromptsInPlace'
    BY <1>5 DEF Inv, PromptsInPlace
  <1> QED BY <1>1, <1>6, <1>7, <1>8, <1>9, <1>10 DEF Inv

LEMMA CloseIoSafe ==
  ASSUME Inv, NEW c \in Callers, CloseIo(c)
  PROVE  Inv'
  <1>1. TypeInv'
    BY CloseIoTypes DEF Inv
  <1>2. api = c /\ call[c].at = "close" /\ child[pid].at = "exited"
    BY DEF CloseIo, At, Inv, Locking, HeldStages, Binding, CallsBound
  <1>3. /\ call'[c].at = "drain" /\ call'[c].ws = call[c].ws
        /\ \A d \in Callers \ {c} : call'[d] = call[d]
    BY GotoMoves DEF CloseIo, GoOn, Inv
  <1>4. UNCHANGED <<api, state, active, spawns, child>> /\ pid' = 0
    BY DEF CloseIo
  <1>5. Locking'
    BY <1>2, <1>3, <1>4, OthersOut DEF Inv, Locking, HeldStages
  <1>6. Binding'
    <2>1. BoundChild' /\ InputBound'
      BY <1>4 DEF BoundChild, InputBound
    <2>2. OnlyChild'
      BY <1>2, <1>4 DEF Inv, Binding, OnlyChild, Alive
    <2>3. CallsBound'
      BY <1>2, <1>3, <1>4, OthersOut DEF CallsBound, HeldStages
    <2> QED BY <2>1, <2>2, <2>3 DEF Binding
  <1>7. Staging'
    BY <1>4 DEF Staging
  <1>8. Showing'
    BY <1>2, <1>3, <1>4 DEF Inv, Showing, Switching
  <1>9. PromptsInPlace'
    BY <1>4 DEF Inv, PromptsInPlace
  <1> QED BY <1>1, <1>5, <1>6, <1>7, <1>8, <1>9 DEF Inv

LEMMA DrainedSafe ==
  ASSUME Inv, NEW c \in Callers, Drained(c)
  PROVE  Inv'
  <1>1. TypeInv'
    BY DrainedTypes DEF Inv
  <1>2. api = c /\ call[c].at = "drain" /\ pid = 0
    BY DEF Drained, At, Inv, Locking, HeldStages, Binding, CallsBound
  <1>3. /\ \/ call[c].again /\ call'[c].at = "wipe" /\ api' = None
           \/ ~call[c].again /\ call'[c].at = "bind" /\ api' = api
        /\ call'[c].again = call[c].again
        /\ \A d \in Callers \ {c} : call'[d] = call[d]
    BY GotoMoves DEF Drained, GoOn, Inv
  <1>4. UNCHANGED <<state, active, pid, spawns, fd, child>>
    BY DEF Drained, bindVars
  <1>5. Locking'
    BY <1>2, <1>3, OthersOut, NoneApart DEF Inv, Locking, HeldStages
  <1>6. Binding'
    <2>1. BoundChild' /\ InputBound'
      BY <1>2, <1>4 DEF BoundChild, InputBound
    <2>2. OnlyChild'
      BY <1>4 DEF Inv, Binding, OnlyChild, Alive
    <2>3. CallsBound'
      BY <1>2, <1>3, <1>4, OthersOut DEF CallsBound, HeldStages
    <2> QED BY <2>1, <2>2, <2>3 DEF Binding
  <1>7. Staging'
    BY <1>2, <1>4 DEF Staging
  <1>8. Showing'
    BY <1>2, <1>3, <1>4 DEF Inv, Showing, Switching
  <1>9. PromptsInPlace'
    BY <1>4 DEF Inv, PromptsInPlace
  <1> QED BY <1>1, <1>5, <1>6, <1>7, <1>8, <1>9 DEF Inv

(* The first half of a switch or of the reset of the active workspace: the *)
(* caller takes api_mu and, if there is a child, lets go of its stdin.     *)
LEMMA EnterSafe ==
  ASSUME Inv, NEW c \in Callers, api = None, api' = c,
         \/ pid # 0 /\ Detach /\ call'[c].at = "reap"
         \/ pid = 0 /\ UNCHANGED <<state, fd>> /\ call'[c].at = "bind",
         \A d \in Callers \ {c} : call'[d] = call[d],
         UNCHANGED <<active, pid, spawns, pending, child>>
  PROVE  Locking' /\ Binding' /\ Staging' /\ Showing' /\ PromptsInPlace'
  <1>1. Locking'
    BY OthersOut, NoneApart DEF Inv, Locking, HeldStages
  <1>2. fd'["out"] = fd["out"] /\ fd'["err"] = fd["err"]
    <2>1. fd \in [{"in", "out", "err"} -> 0 .. MaxSpawns]
      BY DEF Inv, TypeInv, TypeOK
    <2> QED BY <2>1 DEF Detach
  <1>3. Binding'
    <2>1. BoundChild' /\ InputBound'
      BY <1>2, NoneApart DEF Inv, Binding, BoundChild, InputBound
    <2>2. OnlyChild'
      BY DEF Inv, Binding, OnlyChild, Alive
    <2>3. CallsBound'
      BY OthersOut DEF CallsBound, HeldStages
    <2> QED BY <2>1, <2>2, <2>3 DEF Binding
  <1>4. Staging'
    <2>1. call[c].at # "write" /\ call'[c].at # "write"
      BY NoneApart DEF Inv, Locking, HeldStages
    <2> QED BY <2>1 DEF Inv, Staging, Owed
  <1>5. Showing'
    <2>1. \A d \in Callers \ {c} : call'[d].at \notin HeldStages
      BY OthersOut
    <2>2. CASE pid # 0
      BY <2>1, <2>2, NoneApart DEF Detach, Showing, Switching, HeldStages
    <2>3. CASE pid = 0
      BY <2>1, <2>3, NoneApart DEF Inv, Showing, Switching, HeldStages
    <2> QED BY <2>2, <2>3
  <1>6. PromptsInPlace'
    BY DEF Inv, PromptsInPlace
  <1> QED BY <1>1, <1>3, <1>4, <1>5, <1>6

LEMMA SwitchSafe ==
  ASSUME Inv, NEW c \in Callers, NEW w \in Workspaces, SwitchTo(c, w),
         calls' \in 0 .. MaxCalls
  PROVE  Inv'
  <1>1. TypeInv' /\ pid \in Nat
    <2>1. TypeInv'
      BY SwitchTypes DEF Inv
    <2>2. pid \in 0 .. MaxSpawns
      BY DEF Inv, TypeInv, TypeOK
    <2> QED BY <2>1, <2>2
  <1>2. api = None /\ api' = c
    BY DEF SwitchTo, Enter
  <1>3. UNCHANGED <<active, pid, spawns, pending, child>>
    BY DEF SwitchTo, turnVars
  <1>4. \/ pid # 0 /\ Detach /\ Goto(c, "reap", w)
        \/ pid = 0 /\ UNCHANGED <<state, fd>> /\ Goto(c, "bind", w)
    BY <1>1 DEF SwitchTo, MustKill
  <1>5. /\ \/ pid # 0 /\ Detach /\ call'[c].at = "reap"
           \/ pid = 0 /\ UNCHANGED <<state, fd>> /\ call'[c].at = "bind"
        /\ \A d \in Callers \ {c} : call'[d] = call[d]
    BY <1>4, GotoMoves DEF Inv
  <1> QED BY <1>1, <1>2, <1>3, <1>5, EnterSafe DEF Inv

(* A step that only moves a call between stages without api_mu, or that    *)
(* gives api_mu back.                                                      *)
LEMMA LeaveSafe ==
  ASSUME Inv, NEW c \in Callers,
         \/ api' = api /\ call[c].at \notin HeldStages
         \/ api' = None /\ call[c].at = "return",
         call'[c].at \notin HeldStages,
         Switching(call[c]) => Switching(call'[c]) \/ state # "draining",
         \A d \in Callers \ {c} : call'[d] = call[d],
         UNCHANGED <<state, active, pid, spawns, fd, pending, child>>
  PROVE  Locking' /\ Binding' /\ Staging' /\ Showing' /\ PromptsInPlace'
  <1>1. Locking'
    BY NoneApart DEF Inv, Locking, HeldStages
  <1>2. Binding'
    <2>1. BoundChild'
      BY DEF Inv, Binding, BoundChild
    <2>2. InputBound'
      <3>1. CASE api' = api
        BY <3>1 DEF Inv, Binding, InputBound
      <3>2. CASE call[c].at = "return"
        BY <3>2 DEF Inv, Binding, CallsBound, InputBound
      <3> QED BY <3>1, <3>2
    <2>3. OnlyChild'
      BY DEF Inv, Binding, OnlyChild, Alive
    <2>4. CallsBound'
      BY DEF Inv, Binding, CallsBound, HeldStages
    <2> QED BY <2>1, <2>2, <2>3, <2>4 DEF Binding
  <1>3. Staging'
    BY DEF Inv, Staging, Owed, HeldStages
  <1>4. Showing'
    BY DEF Inv, Showing, Switching, HeldStages
  <1>5. PromptsInPlace'
    BY DEF Inv, PromptsInPlace
  <1> QED BY <1>1, <1>2, <1>3, <1>4, <1>5

LEMMA LeavesSafe ==
  ASSUME Inv, NEW c \in Callers, AlreadyActive(c) \/ Return(c)
  PROVE  Inv'
  <1>1. TypeInv'
    BY LeaveTypes DEF Inv
  <1>2. call'[c].at = "idle" /\ \A d \in Callers \ {c} : call'[d] = call[d]
    BY GotoMoves DEF AlreadyActive, Return, Inv
  <1>3. UNCHANGED <<state, active, pid, spawns, fd, pending, child>>
    BY DEF AlreadyActive, Return, bindVars, turnVars
  <1>4. \/ api' = api /\ call[c].at = "activate"
        \/ api' = None /\ call[c].at = "return"
    BY DEF AlreadyActive, Return, At
  <1>5. Switching(call[c]) => state # "draining"
    BY DEF AlreadyActive, Return, OnActive, At, Switching, Inv, Showing
  <1> QED BY <1>1, <1>2, <1>3, <1>4, <1>5, LeaveSafe DEF Inv, HeldStages

LEMMA WipeSafe ==
  ASSUME Inv, NEW c \in Callers, Wipe(c)
  PROVE  Inv'
  <1>1. TypeInv'
    BY WipeTypes DEF Inv
  <1>2. call[c] \in CallRecord /\ call \in [Callers -> CallRecord] /\ call[c].at = "wipe"
    BY DEF Wipe, At, Inv, TypeInv, TypeOK
  <1>3. /\ IF call[c].again THEN call'[c].at = "activate" ELSE call'[c].at = "idle"
        /\ \A d \in Callers \ {c} : call'[d] = call[d]
    BY <1>2 DEF Wipe, CallRecord
  <1>4. UNCHANGED <<api, state, active, pid, spawns, fd, pending, child>>
    BY DEF Wipe, bindVars, turnVars
  <1> QED BY <1>1, <1>2, <1>3, <1>4, LeaveSafe DEF Inv, HeldStages, Switching

LEMMA ResetSafe ==
  ASSUME Inv, NEW c \in Callers, ResetStart(c)
  PROVE  Inv'
  <1>1. TypeInv'
    BY ResetTypes DEF Inv
  <1>2. PICK w \in Workspaces :
          IF OnActive(w)
            THEN /\ Enter(c)
                 /\ Detach
                 /\ call' = [call EXCEPT ![c].at = "reap", ![c].ws = w, ![c].again = TRUE]
            ELSE /\ api = None
                 /\ Goto(c, "wipe", w)
                 /\ UNCHANGED <<api, state, fd>>
    BY DEF ResetStart
  <1>3. UNCHANGED <<active, pid, spawns, pending, child>> /\ call[c].at = "idle"
    BY DEF ResetStart, Arrive, At, turnVars
  <1>4. CASE OnActive(w)
    <2>1. api = None /\ api' = c /\ Detach /\ pid # 0
      BY <1>2, <1>4 DEF Enter, OnActive
    <2>2. call'[c].at = "reap" /\ \A d \in Callers \ {c} : call'[d] = call[d]
      <3>1. call \in [Callers -> CallRecord] /\ call[c] \in CallRecord
        BY DEF Inv, TypeInv, TypeOK
      <3> QED BY <1>2, <1>4, <3>1 DEF CallRecord
    <2> QED BY <1>1, <1>3, <2>1, <2>2, EnterSafe DEF Inv
  <1>5. CASE ~OnActive(w)
    <2>1. call'[c].at = "wipe" /\ \A d \in Callers \ {c} : call'[d] = call[d]
      BY <1>2, <1>5, GotoMoves DEF Inv
    <2>2. UNCHANGED <<api, state, fd>>
      BY <1>2, <1>5
    <2> QED BY <1>1, <1>3, <2>1, <2>2, LeaveSafe DEF Inv, HeldStages, Switching
  <1> QED BY <1>4, <1>5

LEMMA AbortSafe ==
  ASSUME Inv, NEW c \in Callers, Abort(c)
  PROVE  Inv'
  <1>1. TypeInv'
    BY AbortTypes DEF Inv
  <1>2. /\ call'[c].at = "return" /\ \A d \in Callers \ {c} : call'[d] = call[d]
        /\ call[c].at = "idle"
    BY GotoMoves DEF Abort, Arrive, At, Inv
  <1>3. /\ api = None /\ api' = c /\ pid # 0 /\ state' = "ready"
        /\ UNCHANGED <<active, pid, spawns, fd, pending, child>>
    BY DEF Abort, Enter, bindVars, turnVars
  <1>4. \A d \in Callers \ {c} : call'[d].at \notin HeldStages
    BY <1>2, <1>3, OthersOut
  <1>5. Locking'
    BY <1>2, <1>3, <1>4, NoneApart DEF Locking, HeldStages
  <1>6. Binding'
    <2>1. BoundChild' /\ InputBound'
      BY <1>3, NoneApart DEF Inv, Binding, BoundChild, InputBound
    <2>2. OnlyChild'
      BY <1>3 DEF Inv, Binding, OnlyChild, Alive
    <2>3. CallsBound'
      BY <1>2, <1>3, <1>4 DEF Inv, Binding, InputBound, CallsBound, HeldStages
    <2> QED BY <2>1, <2>2, <2>3 DEF Binding
  <1>7. Staging'
    BY <1>2, <1>3 DEF Inv, Staging, Owed
  <1>8. Showing'
    BY <1>2, <1>3, <1>4 DEF Showing, HeldStages
  <1>9. PromptsInPlace'
    BY <1>3 DEF Inv, PromptsInPlace
  <1> QED BY <1>1, <1>5, <1>6, <1>7, <1>8, <1>9 DEF Inv

LEMMA SubmitSafe ==
  ASSUME Inv, NEW c \in Callers, Submit(c)
  PROVE  Inv'
  <1>1. TypeInv'
    BY SubmitTypes DEF Inv
  <1>2. PICK w \in Workspaces :
          /\ MaySubmit(w)
          /\ call' = [call EXCEPT ![c].at = "write", ![c].ws = w, ![c].resumed = pending]
    BY DEF Submit
  <1>3. /\ call'[c].at = "write" /\ call'[c].ws = w /\ call'[c].resumed = pending
        /\ \A d \in Callers \ {c} : call'[d] = call[d]
    <2>1. call \in [Callers -> CallRecord] /\ call[c] \in CallRecord
      BY DEF Inv, TypeInv, TypeOK
    <2> QED BY <1>2, <2>1 DEF CallRecord
  <1>4. /\ api = None /\ api' = c /\ state' = "busy" /\ pending' = None
        /\ UNCHANGED <<active, pid, spawns, fd, child>>
    BY DEF Submit, Enter, bindVars
  <1>5. w = active /\ pid # 0
    BY <1>2 DEF MaySubmit, OnActive
  <1>6. \A d \in Callers \ {c} : call'[d].at \notin HeldStages
    BY <1>3, <1>4, OthersOut
  <1>7. Locking'
    BY <1>3, <1>4, <1>6, NoneApart DEF Locking, HeldStages
  <1>8. Binding'
    <2>1. BoundChild' /\ InputBound'
      BY <1>4, NoneApart DEF Inv, Binding, BoundChild, InputBound
    <2>2. OnlyChild'
      BY <1>4 DEF Inv, Binding, OnlyChild, Alive
    <2>3. CallsBound'
      BY <1>3, <1>4, <1>5, <1>6 DEF Inv, Binding, InputBound, CallsBound, HeldStages
    <2> QED BY <2>1, <2>2, <2>3 DEF Binding
  <1>9. Staging'
    <2>1. \A d \in Callers : call[d].at # "write"
      BY <1>4, NoneApart DEF Inv, Locking, HeldStages
    <2> QED BY <1>3, <1>4, <1>6, <2>1 DEF Inv, Staging, Owed, HeldStages
  <1>10. Showing'
    BY <1>3, <1>4, <1>5, <1>6 DEF Showing, HeldStages
  <1>11. PromptsInPlace'
    BY <1>4 DEF Inv, PromptsInPlace
  <1> QED BY <1>1, <1>7, <1>8, <1>9, <1>10, <1>11 DEF Inv

LEMMA BindFailsSafe ==
  ASSUME Inv, NEW c \in Callers, BindFails(c)
  PROVE  Inv'
  <1>1. TypeInv'
    BY BindFailsTypes DEF Inv
  <1>2. /\ call[c].at = "bind" /\ call'[c].at = "return"
        /\ \A d \in Callers \ {c} : call'[d] = call[d]
    BY GotoMoves DEF BindFails, GoOn, At, Inv
  <1>3. /\ api = c /\ api' = c /\ pid = 0 /\ state' = "dead"
        /\ UNCHANGED <<pid, spawns, fd, child>>
    BY <1>2 DEF BindFails, Inv, Locking, HeldStages, Binding, CallsBound
  <1>4. \A d \in Callers \ {c} : call'[d].at \notin HeldStages
    BY <1>2, <1>3, OthersOut
  <1>5. Locking'
    BY <1>2, <1>3, <1>4 DEF Locking, HeldStages
  <1>6. Binding'
    <2>1. BoundChild' /\ InputBound'
      BY <1>3 DEF BoundChild, InputBound
    <2>2. OnlyChild'
      BY <1>3 DEF Inv, Binding, OnlyChild, Alive
    <2>3. CallsBound'
      BY <1>2, <1>3, <1>4 DEF CallsBound, HeldStages
    <2> QED BY <2>1, <2>2, <2>3 DEF Binding
  <1>7. Staging'
    BY <1>3 DEF Staging
  <1>8. Showing'
    BY <1>2, <1>3, <1>4 DEF Showing, HeldStages
  <1>9. PromptsInPlace'
    BY <1>3 DEF Inv, PromptsInPlace
  <1> QED BY <1>1, <1>5, <1>6, <1>7, <1>8, <1>9 DEF Inv

LEMMA BindSafe ==
  ASSUME Inv, NEW c \in Callers, Bind(c)
  PROVE  Inv'
  <1> DEFINE w == call[c].ws
             k == spawns + 1
  <1>1. TypeInv'
    BY BindTypes DEF Inv
  <1>2. /\ call[c].at = "bind" /\ call'[c].at = "return"
        /\ \A d \in Callers \ {c} : call'[d] = call[d]
    BY GotoMoves DEF Bind, GoOn, At, Inv
  <1>3. /\ api = c /\ api' = c /\ pid = 0
    BY <1>2 DEF Bind, Inv, Locking, HeldStages, Binding, CallsBound
  <1>4. /\ spawns' = k /\ pid' = k /\ active' = w /\ state' = "ready"
        /\ pending' = ContextOf(w)
    BY DEF Bind, BindTo
  <1>5. k \in Spawns /\ k # 0 /\ k > spawns
    <2>1. spawns \in 0 .. MaxSpawns /\ spawns < MaxSpawns
      BY DEF Bind, Inv, TypeInv, TypeOK
    <2> QED BY <2>1 DEF Spawns
  <1>6. fd' = [f \in {"in", "out", "err"} |-> k]
    BY DEF Bind, Inv, TypeInv, TypeOK
  <1>7. child[k].given = <<>>
    BY <1>5 DEF Inv, TypeInv, Presence, ChildrenPlaced, ProcessPlaced
  <1>8. /\ child'[k].at = "booting" /\ child'[k].ws = w
        /\ child'[k].context = ContextOf(w) /\ child'[k].given = <<>>
        /\ \A i \in Spawns \ {k} : child'[i] = child[i]
    <2>1. child \in [Spawns -> Process] /\ child[k] \in Process
      BY <1>5 DEF Inv, TypeInv, TypeOK
    <2>2. child' = [child EXCEPT ![k].at = "booting", ![k].ws = w,
                                 ![k].context = ContextOf(w)]
      BY DEF Bind
    <2> HIDE DEF k, w
    <2> QED BY <1>5, <1>7, <2>1, <2>2 DEF Process
  <1> HIDE DEF k, w
  <1>9. \A d \in Callers \ {c} : call'[d].at \notin HeldStages
    BY <1>2, <1>3, OthersOut
  <1>10. Locking'
    BY <1>2, <1>3, <1>9 DEF Locking, HeldStages
  <1>11. Binding'
    <2>1. BoundChild' /\ InputBound'
      BY <1>3, <1>4, <1>6, <1>8, NoneApart DEF BoundChild, InputBound
    <2>2. OnlyChild'
      <3>1. ASSUME NEW i \in Spawns PROVE ~ Alive(i)
        BY <1>3 DEF Inv, Binding, OnlyChild, Spawns
      <3> QED BY <1>4, <1>8, <3>1 DEF OnlyChild, Alive
    <2>3. CallsBound'
      BY <1>2, <1>4, <1>6, <1>9 DEF CallsBound, HeldStages
    <2> QED BY <2>1, <2>2, <2>3 DEF Binding
  <1>12. Staging'
    BY <1>2, <1>4, <1>8, <1>9 DEF Staging, Owed, HeldStages
  <1>13. Showing'
    BY <1>2, <1>4, <1>5, <1>9 DEF Showing, HeldStages
  <1>14. PromptsInPlace'
    <2>1. ASSUME NEW i \in Spawns, i # k, NEW j \in 1 .. Len(child'[i].given)
          PROVE  /\ child'[i].given[j].ws = child'[i].ws
                 /\ child'[i].given[j].resumed = IF j = 1 THEN child'[i].context ELSE None
      BY <1>8, <2>1 DEF Inv, PromptsInPlace
    <2>2. 1 .. Len(child'[k].given) = {}
      BY <1>8
    <2> QED BY <2>1, <2>2 DEF PromptsInPlace
  <1> QED BY <1>1, <1>10, <1>11, <1>12, <1>13, <1>14 DEF Inv

LEMMA WritePromptSafe ==
  ASSUME Inv, NEW c \in Callers, WritePrompt(c)
  PROVE  Inv'
  <1>1. TypeInv'
    BY WritePromptTypes DEF Inv
  <1>2. /\ call[c].at = "write" /\ call'[c].at = "return"
        /\ \A d \in Callers \ {c} : call'[d] = call[d]
    <2>1. call \in [Callers -> CallRecord] /\ call[c] \in CallRecord
      BY DEF Inv, TypeInv, TypeOK
    <2>2. call' = [call EXCEPT ![c].at = "return", ![c].resumed = None] /\ At(c, "write")
      BY DEF WritePrompt
    <2> QED BY <2>1, <2>2 DEF CallRecord, At
  <1>3. /\ api = c /\ api' = c /\ pid # 0 /\ fd["in"] = pid /\ call[c].ws = active
        /\ state # "draining"
    BY <1>2 DEF WritePrompt, Inv, Locking, HeldStages, Binding, CallsBound, Showing
  <1>4. UNCHANGED <<active, pid, spawns, fd, pending>> /\ pid \in Spawns
    BY <1>3 DEF WritePrompt, bindVars, turnVars, Inv, TypeInv, TypeOK, Spawns
  <1>5. state' = state \/ state' = "dead"
    BY DEF WritePrompt
  <1>6. \A d \in Callers \ {c} : call'[d].at \notin HeldStages
    BY <1>2, <1>3, OthersOut
  <1>7. Locking'
    BY <1>2, <1>3, <1>6 DEF Locking, HeldStages
  <1>8. Showing'
    BY <1>2, <1>3, <1>4, <1>5, <1>6 DEF Inv, Showing, HeldStages
  <1>9. CallsBound' /\ InputBound'
    BY <1>2, <1>3, <1>4, <1>6, NoneApart DEF CallsBound, InputBound, HeldStages
  <1>10. CASE child[pid].at = "exited"
    <2>1. child' = child
      BY <1>3, <1>10 DEF WritePrompt
    <2>2. BoundChild' /\ OnlyChild'
      BY <1>4, <2>1 DEF Inv, Binding, BoundChild, OnlyChild, Alive
    <2>3. Staging'
      BY <1>4, <1>10, <2>1 DEF Staging
    <2>4. PromptsInPlace'
      BY <2>1 DEF Inv, PromptsInPlace
    <2> QED BY <1>1, <1>7, <1>8, <1>9, <2>2, <2>3, <2>4 DEF Inv, Binding
  <1>11. CASE child[pid].at # "exited"
    <2> DEFINE prompt == [ws |-> call[c].ws, turn |-> turn, resumed |-> call[c].resumed]
               given == child[pid].given
    <2>1. /\ child'[pid].given = Append(given, prompt) /\ child'[pid].at = child[pid].at
          /\ child'[pid].ws = child[pid].ws /\ child'[pid].context = child[pid].context
          /\ \A i \in Spawns \ {pid} : child'[i] = child[i]
      <3>1. child \in [Spawns -> Process] /\ child[pid] \in Process
        BY <1>4 DEF Inv, TypeInv, TypeOK
      <3>2. child' = [child EXCEPT ![pid].given = Append(@, prompt)]
        BY <1>3, <1>11 DEF WritePrompt
      <3> HIDE DEF prompt
      <3> QED BY <1>4, <3>1, <3>2 DEF Process
    <2>2. pending = None /\ call[c].resumed = Owed
      BY <1>2, <1>3, <1>11 DEF Inv, Staging
    <2>3. given \in Seq(Prompt)
      <3>1. child[pid] \in Process
        BY <1>4 DEF Inv, TypeInv, TypeOK
      <3> QED BY <3>1 DEF Process
    <2>4. child[pid].ws = active
      BY <1>3 DEF Inv, Binding, BoundChild
    <2>5. prompt.ws = child[pid].ws /\ prompt.resumed = IF given = <<>> THEN child[pid].context ELSE None
      BY <1>3, <2>2, <2>4 DEF Owed
    <2> HIDE DEF prompt, given
    <2>6. /\ Len(given) \in Nat /\ Len(Append(given, prompt)) = Len(given) + 1
          /\ Append(given, prompt)[Len(given) + 1] = prompt
          /\ \A i \in 1 .. Len(given) : Append(given, prompt)[i] = given[i]
          /\ given = <<>> <=> Len(given) = 0
      <3>1. prompt \in Prompt
        <4>1. call[c] \in CallRecord /\ call[c].ws \in Workspaces /\ turn \in Nat
          BY <1>2 DEF Inv, TypeInv, TypeOK, Presence, CallsPlaced
        <4> QED BY <4>1 DEF prompt, Prompt, CallRecord
      <3> QED BY <2>3, <3>1
    <2>7. BoundChild' /\ OnlyChild'
      BY <1>4, <2>1 DEF Inv, Binding, BoundChild, OnlyChild, Alive
    <2>8. Staging'
      <3>1. Owed' = None
        <4>1. child'[pid].given = Append(given, prompt) /\ pid' = pid
          BY <1>4, <2>1
        <4>2. Append(given, prompt) # <<>>
          BY <2>6
        <4> QED BY <4>1, <4>2 DEF Owed
      <3> QED BY <1>2, <1>4, <1>6, <2>2, <3>1 DEF Staging, HeldStages
    <2>9. PromptsInPlace'
      <3>1. ASSUME NEW i \in Spawns, i # pid, NEW j \in 1 .. Len(child'[i].given)
            PROVE  /\ child'[i].given[j].ws = child'[i].ws
                   /\ child'[i].given[j].resumed = IF j = 1 THEN child'[i].context ELSE None
        BY <2>1, <3>1 DEF Inv, PromptsInPlace
      <3>2. ASSUME NEW j \in 1 .. Len(child'[pid].given)
            PROVE  /\ child'[pid].given[j].ws = child'[pid].ws
                   /\ child'[pid].given[j].resumed = IF j = 1 THEN child'[pid].context ELSE None
        <4>1. CASE j = Len(given) + 1
          <5>1. child'[pid].given[j] = prompt
            BY <2>1, <2>6, <4>1
          <5>2. given = <<>> <=> j = 1
            BY <2>6, <4>1
          <5> QED BY <2>1, <2>5, <5>1, <5>2
        <4>2. CASE j # Len(given) + 1
          <5>1. j \in 1 .. Len(given)
            BY <2>1, <2>6, <3>2, <4>2
          <5>2. child'[pid].given[j] = child[pid].given[j]
            BY <2>1, <2>6, <5>1 DEF given
          <5>3. /\ child[pid].given[j].ws = child[pid].ws
                /\ child[pid].given[j].resumed = IF j = 1 THEN child[pid].context ELSE None
            BY <1>4, <5>1 DEF given, Inv, PromptsInPlace
          <5> QED BY <2>1, <5>2, <5>3
        <4> QED BY <4>1, <4>2
      <3> QED BY <3>1, <3>2 DEF PromptsInPlace
    <2> QED BY <1>1, <1>7, <1>8, <1>9, <2>7, <2>8, <2>9 DEF Inv, Binding
  <1> QED BY <1>10, <1>11

LEMMA CallSafe ==
  ASSUME Inv, NEW c \in Callers, Begin(c) \/ Proceed(c)
  PROVE  Inv'
  <1>1. CASE Activate(c)
    <2>1. calls' \in 0 .. MaxCalls
      BY <1>1, ArriveType DEF Activate, Inv
    <2>2. PICK w \in Workspaces : SwitchTo(c, w)
      BY <1>1 DEF Activate
    <2> QED BY <2>1, <2>2, SwitchSafe
  <1>2. CASE Reactivate(c)
    <2>1. call[c].ws \in Workspaces /\ calls' \in 0 .. MaxCalls /\ SwitchTo(c, call[c].ws)
      BY <1>2 DEF Reactivate, At, Inv, TypeInv, TypeOK, Presence, CallsPlaced
    <2> QED BY <2>1, SwitchSafe
  <1> QED BY <1>1, <1>2, ResetSafe, SubmitSafe, AbortSafe, LeavesSafe, ReapSafe, CloseIoSafe,
             DrainedSafe, WipeSafe, BindSafe, BindFailsSafe, WritePromptSafe
          DEF Begin, Proceed

LEMMA InvNext == Inv /\ [Next]_vars => Inv'
  <1> SUFFICES ASSUME Inv, [Next]_vars PROVE Inv'
    OBVIOUS
  <1>1. CASE Next
    BY <1>1, CallSafe, ReadSafe, EmitSafe, RunSafe DEF Next
  <1>2. CASE UNCHANGED vars
    <2>1. TypeInv'
      BY <1>2, TypeInvNext DEF Inv
    <2>2. UNCHANGED <<callVars, bindVars, pending, state, child>>
      BY <1>2 DEF vars, turnVars
    <2> QED BY <2>1, <2>2, QuietStep DEF Inv
  <1> QED BY <1>1, <1>2

(* The invariant that carries the four theorems below. *)
THEOREM InvAlways == Spec => []Inv
  BY InvInit, InvNext, PTL DEF Spec

(* The child the supervisor drives always runs in the active workspace,    *)
(* its descriptors are the ones in use and no other process is alive.      *)
THEOREM BindingCorrect == Spec => []BindingMatchesChild
  <1>1. Inv => BindingMatchesChild
    BY DEF Inv, Binding, BoundChild, OnlyChild, BindingMatchesChild
  <1> QED BY <1>1, InvAlways, PTL

(* At most one ds4-agent process is ever alive. *)
OneChild == Cardinality({k \in Spawns : Alive(k)}) <= 1

(* However calls, crashes and failed spawns interleave, at most one        *)
(* ds4-agent process is ever alive (agent.h:15).                           *)
THEOREM OneChildAlways == Spec => []OneChild
  <1>1. Inv => OneChild
    <2> SUFFICES ASSUME Inv PROVE OneChild
      OBVIOUS
    <2> DEFINE A == {k \in Spawns : Alive(k)}
    <2>1. A \subseteq {pid}
      BY DEF Inv, Binding, OnlyChild
    <2>2. IsFiniteSet({pid}) /\ Cardinality({pid}) = 1
      BY FS_Singleton
    <2>3. Cardinality(A) <= 1
      BY <2>1, <2>2, FS_Subset
    <2> QED BY <2>3 DEF OneChild
  <1> QED BY <1>1, InvAlways, PTL

(* Every prompt reaches a child of the workspace it was typed for, and     *)
(* each child is given its workspace's transcript once, with its first     *)
(* prompt.                                                                 *)
THEOREM PromptsAlwaysInPlace == Spec => []PromptsInPlace
  <1>1. Inv => PromptsInPlace
    BY DEF Inv
  <1> QED BY <1>1, InvAlways, PTL

(* The state shown by the supervisor never promises a child that is not    *)
(* there, and draining always has a call that will end it.                 *)
THEOREM StateAlwaysTells == Spec => []StateTellsChild
  <1>1. Inv => StateTellsChild
    BY DEF Inv, Showing, Switching, StateTellsChild, At
  <1> QED BY <1>1, InvAlways, PTL

-----------------------------------------------------------------------------
(* What the logs hold.                                                     *)

IsEnd(e) == e.kind = "answer_end"

(* A reader has ended a turn and not begun to say so; an emission says so. *)
Claims(r) == reader[r].at = "ended"

Says(t) == em[t] # None /\ IsEnd(em[t].event)

Said(n) == \E w \in Workspaces : \E i \in 1 .. Len(log[w]) : IsEnd(log[w][i]) /\ log[w][i].turn = n

(* A turn that may have ended: not the one in flight, nor one to come. *)
Past(n) == n <= turn /\ (state = "busy" => n < turn)

ClaimsApart ==
  \A r \in Readers : Claims(r) =>
    /\ Past(reader[r].turn)
    /\ ~Said(reader[r].turn)
    /\ \A q \in Readers : Claims(q) /\ reader[q].turn = reader[r].turn => q = r
    /\ \A t \in Threads : Says(t) => em[t].event.turn # reader[r].turn

SayingsApart ==
  \A t \in Threads : Says(t) =>
    /\ Past(em[t].event.turn)
    /\ ~Said(em[t].event.turn)
    /\ \A u \in Threads : Says(u) /\ em[u].event.turn = em[t].event.turn => u = t

SaidPast ==
  \A w \in Workspaces : \A i \in 1 .. Len(log[w]) :
    IsEnd(log[w][i]) => Past(log[w][i].turn)

Ends == ClaimsApart /\ SayingsApart /\ SaidPast /\ TurnEndsOnce

-----------------------------------------------------------------------------
(* A reader that runs, and what ties it to the binding. *)
Going(r) == reader[r].at \notin {"off", "done"}

TiedReader(r) ==
  /\ running[r[1]]
  /\ r[2] = spawns
  /\ child[spawns].ws = active
  /\ fd[r[1]] \in {0, spawns}
  /\ reader[r].at = "read" => reader[r].from = spawns
  /\ reader[r].at \in {"ended", "diffing"} => reader[r].ws = active

Tied == \A r \in Readers : Going(r) => TiedReader(r)

(* Without a child, and nobody waiting for its readers, none runs. *)
Settled ==
  pid = 0 /\ (\A c \in Callers : call[c].at # "drain") => \A r \in Readers : ~Going(r)

(* An emission goes to the log of the workspace it is about. *)
Addressed == \A t \in Threads : em[t] # None => em[t].event.about = em[t].ws

Placing == Tied /\ Settled /\ Addressed /\ RightLog

-----------------------------------------------------------------------------
(* No turn ends twice.                                                     *)

LEMMA EndsInit == Init => Ends
  <1> SUFFICES ASSUME Init PROVE Ends
    OBVIOUS
  <1>1. \A r \in Readers : ~Claims(r)
    BY DEF Init, Claims
  <1>2. \A t \in Threads : ~Says(t)
    BY DEF Init, Says
  <1>3. \A w \in Workspaces : \A i \in 1 .. Len(log[w]) : ~IsEnd(log[w][i])
    BY DEF Init, Restored, Notice, IsEnd
  <1> QED BY <1>1, <1>2, <1>3 DEF Ends, ClaimsApart, SayingsApart, SaidPast, TurnEndsOnce, IsEnd

(* What a step may do to turn and state: a turn that has ended stays so.   *)
TurnGoesOn ==
  \/ turn' = turn /\ (state' = "busy" => state = "busy")
  \/ turn' = turn + 1

LEMMA PastStays ==
  ASSUME TypeInv, TurnGoesOn, NEW n \in Nat, Past(n)
  PROVE  Past(n)'
  <1>1. turn \in Nat
    BY DEF TypeInv, TypeOK
  <1> QED BY <1>1 DEF TurnGoesOn, Past

LEMMA ClaimType ==
  ASSUME TypeInv, NEW r \in Readers
  PROVE  reader[r] \in ReaderRecord /\ reader[r].turn \in Nat
  BY DEF TypeInv, TypeOK, ReaderRecord

LEMMA SayingType ==
  ASSUME TypeInv, NEW t \in Threads, em[t] # None
  PROVE  em[t] \in Emission /\ em[t].event \in Event /\ em[t].event.turn \in Nat
  BY DEF TypeInv, TypeOK, Emission, Event

LEMMA SaidType ==
  ASSUME TypeInv, NEW w \in Workspaces, NEW i \in 1 .. Len(log[w])
  PROVE  log[w][i] \in Event /\ log[w][i].turn \in Nat
  <1>1. log[w] \in Seq(Event)
    BY DEF TypeInv, TypeOK
  <1>2. log[w][i] \in Event
    BY <1>1
  <1> QED BY <1>2 DEF Event

(* Steps that neither claim a turn nor say that one ended. *)
LEMMA EndsStay ==
  ASSUME TypeInv, Ends, TurnGoesOn,
         \A r \in Readers : Claims(r)' => Claims(r) /\ reader'[r].turn = reader[r].turn,
         \A t \in Threads : Says(t)' => Says(t) /\ em'[t].event.turn = em[t].event.turn,
         \A w \in Workspaces : log'[w] = log[w] \/ log'[w] = <<>>
  PROVE  Ends'
  <1>1. ASSUME NEW n, Said(n)' PROVE Said(n)
    BY <1>1 DEF Said
  <1>2. ClaimsApart'
    <2> SUFFICES ASSUME NEW r \in Readers, Claims(r)'
                 PROVE  /\ Past(reader[r].turn)'
                        /\ ~Said(reader[r].turn)'
                        /\ \A q \in Readers :
                             Claims(q)' /\ reader'[q].turn = reader'[r].turn => q = r
                        /\ \A t \in Threads : Says(t)' => em'[t].event.turn # reader'[r].turn
      BY DEF ClaimsApart
    <2>1. Claims(r) /\ reader'[r].turn = reader[r].turn /\ reader[r].turn \in Nat
      BY ClaimType
    <2>2. /\ Past(reader[r].turn) /\ ~Said(reader[r].turn)
          /\ \A q \in Readers : Claims(q) /\ reader[q].turn = reader[r].turn => q = r
          /\ \A t \in Threads : Says(t) => em[t].event.turn # reader[r].turn
      BY <2>1 DEF Ends, ClaimsApart
    <2>3. Past(reader[r].turn)' /\ ~Said(reader[r].turn)'
      BY <1>1, <2>1, <2>2, PastStays DEF Past, Said
    <2> QED BY <2>1, <2>2, <2>3
  <1>3. SayingsApart'
    <2> SUFFICES ASSUME NEW t \in Threads, Says(t)'
                 PROVE  /\ Past(em[t].event.turn)'
                        /\ ~Said(em[t].event.turn)'
                        /\ \A u \in Threads :
                             Says(u)' /\ em'[u].event.turn = em'[t].event.turn => u = t
      BY DEF SayingsApart
    <2>1. Says(t) /\ em'[t].event.turn = em[t].event.turn /\ em[t].event.turn \in Nat
      BY SayingType DEF Says
    <2>2. /\ Past(em[t].event.turn) /\ ~Said(em[t].event.turn)
          /\ \A u \in Threads : Says(u) /\ em[u].event.turn = em[t].event.turn => u = t
      BY <2>1 DEF Ends, SayingsApart
    <2>3. Past(em[t].event.turn)' /\ ~Said(em[t].event.turn)'
      BY <1>1, <2>1, <2>2, PastStays DEF Past, Said
    <2> QED BY <2>1, <2>2, <2>3
  <1>4. SaidPast'
    <2> SUFFICES ASSUME NEW w \in Workspaces, NEW i \in 1 .. Len(log'[w]), IsEnd(log'[w][i])
                 PROVE  Past(log[w][i].turn)'
      BY DEF SaidPast, IsEnd
    <2>1. log'[w] = log[w]
      OBVIOUS
    <2>2. Past(log[w][i].turn) /\ log[w][i].turn \in Nat
      BY <2>1, SaidType DEF Ends, SaidPast
    <2> QED BY <2>1, <2>2, PastStays DEF Past
  <1>5. TurnEndsOnce'
    BY DEF Ends, TurnEndsOnce
  <1> QED BY <1>2, <1>3, <1>4, <1>5 DEF Ends

(* A thread that starts an emission says that a turn ended only if that    *)
(* is what the event is.                                                   *)
LEMMA OtherNews ==
  ASSUME TypeInv, NEW t \in Threads, NEW e, ~IsEnd(e), NEW ws, NEW gen,
         em' = [em EXCEPT ![t] = Snapped(e, ws, gen)]
  PROVE  \A u \in Threads : Says(u)' => Says(u) /\ em'[u].event.turn = em[u].event.turn
  <1>1. em \in [Threads -> Emission \cup {None}]
    BY DEF TypeInv, TypeOK
  <1>2. ~Says(t)'
    BY <1>1 DEF Says, Snapped
  <1> QED BY <1>1, <1>2 DEF Says

LEMMA ClaimsMove ==
  ASSUME TypeInv, NEW r \in Readers, reader'[r].at # "ended",
         \A q \in Readers \ {r} : reader'[q] = reader[q]
  PROVE  \A q \in Readers : Claims(q)' => Claims(q) /\ reader'[q].turn = reader[q].turn
  BY DEF Claims

LEMMA BeginEnds ==
  ASSUME TypeInv, Ends, NEW c \in Callers, Begin(c)
  PROVE  Ends'
  <1>1. c \in Threads /\ reader' = reader /\ log' = log
    BY DEF Begin, Activate, SwitchTo, ResetStart, Submit, Abort, logVars, Threads
  <1>2. TurnGoesOn
    BY DEF Begin, Activate, SwitchTo, Detach, ResetStart, Submit, Abort, turnVars, TurnGoesOn
  <1>3. \A u \in Threads : Says(u)' => Says(u) /\ em'[u].event.turn = em[u].event.turn
    <2>1. CASE em' = em
      BY <2>1 DEF Says
    <2>2. CASE Submit(c)
      BY <1>1, <2>2, OtherNews DEF Submit, StartEmit, Notice, IsEnd
    <2>3. CASE Abort(c)
      BY <1>1, <2>3, OtherNews DEF Abort, StartEmit, Notice, IsEnd
    <2> QED BY <2>1, <2>2, <2>3 DEF Begin, Activate, SwitchTo, ResetStart
  <1> QED BY <1>1, <1>2, <1>3, EndsStay DEF Claims

LEMMA ProceedEnds ==
  ASSUME TypeInv, Ends, NEW c \in Callers, Proceed(c)
  PROVE  Ends'
  <1>1. c \in Threads
    BY DEF Threads
  <1>2. TurnGoesOn
    BY DEF Proceed, Reactivate, SwitchTo, Detach, AlreadyActive, Reap, CloseIo, Drained, Wipe,
           Bind, BindFails, WritePrompt, Return, turnVars, TurnGoesOn
  <1>3. \A w \in Workspaces : log'[w] = log[w] \/ log'[w] = <<>>
    <2>1. CASE Wipe(c)
      <3>1. log \in [Workspaces -> Seq(Event)]
        BY DEF TypeInv, TypeOK
      <3> QED BY <2>1, <3>1 DEF Wipe
    <2> QED BY <2>1 DEF Proceed, Reactivate, SwitchTo, AlreadyActive, Reap, CloseIo, Drained,
                        Bind, BindFails, WritePrompt, Return, logVars
  <1>4. \A q \in Readers : Claims(q)' => Claims(q) /\ reader'[q].turn = reader[q].turn
    <2>1. CASE Bind(c)
      <3>1. reader' = [r \in Readers |-> IF r[2] = spawns + 1
                         THEN [reader[r] EXCEPT !.at = "load"] ELSE reader[r]]
        BY <2>1 DEF Bind
      <3>2. \A q \in Readers : reader[q] \in ReaderRecord
        BY ClaimType
      <3> QED BY <3>1, <3>2 DEF Claims, ReaderRecord
    <2>2. CASE reader' = reader
      BY <2>2 DEF Claims
    <2> QED BY <2>1, <2>2 DEF Proceed, Reactivate, SwitchTo, AlreadyActive, Reap, CloseIo,
                              Drained, Wipe, BindFails, WritePrompt, Return
  <1>5. \A u \in Threads : Says(u)' => Says(u) /\ em'[u].event.turn = em[u].event.turn
    <2>1. CASE Bind(c)
      BY <1>1, <2>1, OtherNews DEF Bind, Notice, IsEnd
    <2>2. CASE em' = em
      BY <2>2 DEF Says
    <2>3. CASE WritePrompt(c)
      BY <1>1, <2>2, <2>3, OtherNews DEF WritePrompt, StartEmit, Notice, IsEnd
    <2> QED BY <2>1, <2>2, <2>3 DEF Proceed, Reactivate, SwitchTo, AlreadyActive, Reap, CloseIo,
                                    Drained, Wipe, BindFails, Return
  <1> QED BY <1>2, <1>3, <1>4, <1>5, EndsStay

LEMMA RunEnds ==
  ASSUME TypeInv, Ends, NEW k \in Spawns, Run(k)
  PROVE  Ends'
  <1>1. UNCHANGED <<turn, state, reader, em, log>>
    BY DEF Run, Boot, TakePrompt, Say, Finish, Exit, ProcessOnly, turnVars, logVars
  <1> QED BY <1>1, EndsStay DEF TurnGoesOn, Claims, Says

(* A marker ends the turn in flight: no earlier turn is as late.           *)
LEMMA ReadErrEnds ==
  ASSUME TypeInv, Ends, NEW r \in Readers, ReadErr(r)
  PROVE  Ends'
  <1> DEFINE k == reader[r].from
  <1>1. reader \in [Readers -> ReaderRecord] /\ turn \in Nat
    BY DEF TypeInv, TypeOK
  <1>2. UNCHANGED <<turn, em, log>>
    BY DEF ReadErr, turnVars, logVars
  <1>3. CASE ~EndsTurn
    <2>1. state' = state /\ reader' = [reader EXCEPT ![r].at = "load"]
      BY <1>3 DEF ReadErr, Step
    <2>2. \A q \in Readers : Claims(q)' => Claims(q) /\ reader'[q].turn = reader[q].turn
      BY <1>1, <2>1, ClaimsMove DEF ReaderRecord
    <2> QED BY <1>2, <2>1, <2>2, EndsStay DEF TurnGoesOn, Says
  <1>4. CASE EndsTurn
    <2>1. state = "busy" /\ state' = "ready"
      BY <1>4 DEF ReadErr, EndsTurn
    <2>2. /\ Claims(r)' /\ reader'[r].turn = turn
          /\ \A q \in Readers \ {r} : reader'[q] = reader[q]
      <3>1. reader' = [reader EXCEPT ![r].at = "ended", ![r].turn = turn,
                         ![r].saw = Head(child[k].err), ![r].ws = child[k].ws]
        BY <1>4 DEF ReadErr
      <3> QED BY <1>1, <3>1 DEF ReaderRecord, Claims
    <2>3. ASSUME NEW n \in Nat, Past(n) PROVE Past(n)' /\ n # turn
      BY <1>1, <1>2, <2>1, <2>3 DEF Past
    <2>4. \A n : Said(n)' <=> Said(n)
      BY <1>2 DEF Said
    <2>5. ~Said(turn)
      <3> SUFFICES ASSUME NEW w \in Workspaces, NEW i \in 1 .. Len(log[w]), IsEnd(log[w][i])
                   PROVE  log[w][i].turn # turn
        BY DEF Said
      <3> QED BY <2>3, SaidType DEF Ends, SaidPast
    <2>6. \A t \in Threads : Says(t) =>
            em[t].event.turn # turn /\ em[t].event.turn \in Nat /\ Past(em[t].event.turn)'
      <3> SUFFICES ASSUME NEW t \in Threads, Says(t)
                   PROVE  em[t].event.turn # turn /\ em[t].event.turn \in Nat
                            /\ Past(em[t].event.turn)'
        OBVIOUS
      <3>1. Past(em[t].event.turn) /\ em[t].event.turn \in Nat
        BY SayingType DEF Ends, SayingsApart, Says
      <3> QED BY <1>2, <2>3, <3>1 DEF Past
    <2>7. \A q \in Readers \ {r} : Claims(q) =>
            reader[q].turn # turn /\ reader[q].turn \in Nat /\ Past(reader[q].turn)'
      <3> SUFFICES ASSUME NEW q \in Readers \ {r}, Claims(q)
                   PROVE  reader[q].turn # turn /\ reader[q].turn \in Nat /\ Past(reader[q].turn)'
        OBVIOUS
      <3>1. Past(reader[q].turn) /\ reader[q].turn \in Nat
        BY ClaimType DEF Ends, ClaimsApart
      <3> QED BY <2>2, <2>3, <3>1 DEF Past
    <2>8. ClaimsApart'
      <3>1. /\ Past(reader[r].turn)' /\ ~Said(reader[r].turn)'
            /\ \A q \in Readers : Claims(q)' /\ reader'[q].turn = reader'[r].turn => q = r
            /\ \A t \in Threads : Says(t)' => em'[t].event.turn # reader'[r].turn
        BY <1>1, <1>2, <2>1, <2>2, <2>5, <2>6, <2>7 DEF Past, Said, Says, Claims
      <3>2. ASSUME NEW q \in Readers \ {r}, Claims(q)'
            PROVE  /\ Past(reader[q].turn)' /\ ~Said(reader[q].turn)'
                   /\ \A p \in Readers : Claims(p)' /\ reader'[p].turn = reader'[q].turn => p = q
                   /\ \A t \in Threads : Says(t)' => em'[t].event.turn # reader'[q].turn
        <4>1. Claims(q) /\ reader'[q] = reader[q]
          BY <2>2, <3>2 DEF Claims
        <4>2. Past(reader[q].turn)' /\ reader[q].turn # turn
          BY <2>7, <4>1
        <4>3. /\ ~Said(reader[q].turn)
              /\ \A p \in Readers : Claims(p) /\ reader[p].turn = reader[q].turn => p = q
              /\ \A t \in Threads : Says(t) => em[t].event.turn # reader[q].turn
          BY <4>1 DEF Ends, ClaimsApart
        <4> QED BY <1>2, <2>2, <4>1, <4>2, <4>3 DEF Said, Says, Claims
      <3> QED BY <3>1, <3>2 DEF ClaimsApart
    <2>9. SayingsApart'
      <3> SUFFICES ASSUME NEW t \in Threads, Says(t)
                   PROVE  /\ Past(em[t].event.turn)' /\ ~Said(em[t].event.turn)
                          /\ \A u \in Threads : Says(u) /\ em[u].event.turn = em[t].event.turn => u = t
        BY <1>2 DEF SayingsApart, Says, Said
      <3> QED BY <2>6 DEF Ends, SayingsApart
    <2>10. SaidPast'
      <3> SUFFICES ASSUME NEW w \in Workspaces, NEW i \in 1 .. Len(log[w]), IsEnd(log[w][i])
                   PROVE  Past(log[w][i].turn)'
        BY <1>2 DEF SaidPast, Past
      <3>1. Past(log[w][i].turn) /\ log[w][i].turn \in Nat
        BY SaidType DEF Ends, SaidPast
      <3> QED BY <1>2, <2>3, <3>1 DEF Past
    <2>11. TurnEndsOnce'
      BY <1>2 DEF Ends, TurnEndsOnce
    <2> QED BY <2>8, <2>9, <2>10, <2>11 DEF Ends
  <1> QED BY <1>3, <1>4

(* The claim passes from the reader to its emission. *)
LEMMA EmitTurnEndEnds ==
  ASSUME TypeInv, Ends, NEW r \in Readers, EmitTurnEnd(r)
  PROVE  Ends'
  <1> DEFINE e == Notice("answer_end", reader[r].ws, reader[r].turn, reader[r].saw)
  <1>1. r \in Threads /\ reader \in [Readers -> ReaderRecord]
        /\ em \in [Threads -> Emission \cup {None}]
    BY DEF TypeInv, TypeOK, Threads
  <1>2. UNCHANGED <<turn, state, log>>
    BY DEF EmitTurnEnd, turnVars, logVars
  <1>3. Claims(r) /\ ~Claims(r)' /\ \A q \in Readers \ {r} : reader'[q] = reader[q]
    BY <1>1 DEF EmitTurnEnd, Reading, Step, Claims, ReaderRecord
  <1>4. /\ \A t \in Threads \ {r} : em'[t] = em[t]
        /\ Says(r)' => em'[r].event.turn = reader[r].turn
    <2>1. em' = [em EXCEPT ![r] = Snapped(e, active, bindGen)]
      BY DEF EmitTurnEnd, StartEmit
    <2>2. em'[r] # None => em'[r].event.turn = reader[r].turn
      BY <1>1, <2>1 DEF Snapped, Notice
    <2> QED BY <1>1, <2>1, <2>2 DEF Says
  <1>5. /\ Past(reader[r].turn) /\ ~Said(reader[r].turn)
        /\ \A q \in Readers : Claims(q) /\ reader[q].turn = reader[r].turn => q = r
        /\ \A t \in Threads : Says(t) => em[t].event.turn # reader[r].turn
    BY <1>3 DEF Ends, ClaimsApart
  <1>6. ClaimsApart'
    <2> SUFFICES ASSUME NEW q \in Readers, Claims(q)'
                 PROVE  /\ Past(reader'[q].turn) /\ ~Said(reader'[q].turn)
                        /\ \A p \in Readers :
                             Claims(p)' /\ reader'[p].turn = reader'[q].turn => p = q
                        /\ \A t \in Threads : Says(t)' => em'[t].event.turn # reader'[q].turn
      BY <1>2 DEF ClaimsApart, Past, Said
    <2>1. q # r /\ reader'[q] = reader[q] /\ Claims(q)
      BY <1>3 DEF Claims
    <2>2. /\ Past(reader[q].turn) /\ ~Said(reader[q].turn)
          /\ \A p \in Readers : Claims(p) /\ reader[p].turn = reader[q].turn => p = q
          /\ \A t \in Threads : Says(t) => em[t].event.turn # reader[q].turn
      BY <2>1 DEF Ends, ClaimsApart
    <2> QED BY <1>3, <1>4, <1>5, <2>1, <2>2 DEF Claims, Says
  <1>7. SayingsApart'
    <2> SUFFICES ASSUME NEW t \in Threads, Says(t)'
                 PROVE  /\ Past(em'[t].event.turn) /\ ~Said(em'[t].event.turn)
                        /\ \A u \in Threads :
                             Says(u)' /\ em'[u].event.turn = em'[t].event.turn => u = t
      BY <1>2 DEF SayingsApart, Past, Said
    <2>1. CASE t = r
      BY <1>4, <1>5, <2>1 DEF Says
    <2>2. CASE t # r
      <3>1. Says(t) /\ em'[t] = em[t]
        BY <1>4, <2>2 DEF Says
      <3>2. /\ Past(em[t].event.turn) /\ ~Said(em[t].event.turn)
            /\ \A u \in Threads : Says(u) /\ em[u].event.turn = em[t].event.turn => u = t
        BY <3>1 DEF Ends, SayingsApart
      <3> QED BY <1>4, <1>5, <2>2, <3>1, <3>2 DEF Says
    <2> QED BY <2>1, <2>2
  <1>8. SaidPast' /\ TurnEndsOnce'
    BY <1>2 DEF Ends, SaidPast, Past, TurnEndsOnce
  <1> QED BY <1>6, <1>7, <1>8 DEF Ends

LEMMA ReadEnds ==
  ASSUME TypeInv, Ends, NEW r \in Readers, Read(r)
  PROVE  Ends'
  <1>1. r \in Threads /\ reader \in [Readers -> ReaderRecord]
    BY DEF TypeInv, TypeOK, Threads
  <1>2. CASE Load(r) \/ StartDiff(r) \/ Resume(r) \/ ReaderEnds(r)
    <2>1. UNCHANGED <<turn, state, em, log>>
      BY <1>2 DEF Load, StartDiff, Resume, ReaderEnds, turnVars, logVars
    <2>2. reader'[r].at # "ended" /\ \A q \in Readers \ {r} : reader'[q] = reader[q]
      BY <1>1, <1>2 DEF Load, StartDiff, Resume, ReaderEnds, Step, ReaderRecord
    <2> QED BY <2>1, <2>2, ClaimsMove, EndsStay DEF TurnGoesOn, Says
  <1>3. CASE ReadOut(r) \/ EmitDiff(r)
    <2>1. UNCHANGED <<turn, state, log>>
      BY <1>3 DEF ReadOut, EmitDiff, turnVars, logVars
    <2>2. reader'[r].at # "ended" /\ \A q \in Readers \ {r} : reader'[q] = reader[q]
      BY <1>1, <1>3 DEF ReadOut, EmitDiff, Step, ReaderRecord
    <2>3. \A u \in Threads : Says(u)' => Says(u) /\ em'[u].event.turn = em[u].event.turn
      <3>1. CASE em' = em
        BY <3>1 DEF Says
      <3>2. CASE ReadOut(r)
        BY <1>1, <3>2, OtherNews DEF ReadOut, StartEmit, Notice, IsEnd
      <3>3. CASE EmitDiff(r)
        BY <1>1, <3>1, <3>3, OtherNews DEF EmitDiff, StartEmit, Notice, IsEnd
      <3> QED BY <1>3, <3>2, <3>3
    <2> QED BY <2>1, <2>2, <2>3, ClaimsMove, EndsStay DEF TurnGoesOn
  <1> QED BY <1>2, <1>3, ReadErrEnds, EmitTurnEndEnds DEF Read

LEMMA CheckEmitEnds ==
  ASSUME TypeInv, Ends, NEW t \in Threads, CheckEmit(t)
  PROVE  Ends'
  <1>1. UNCHANGED <<turn, state, reader, log>> /\ em[t] # None
    BY DEF CheckEmit, turnVars, logVars
  <1>2. em \in [Threads -> Emission \cup {None}] /\ em[t] \in Emission
    BY <1>1 DEF TypeInv, TypeOK
  <1>3. /\ \A u \in Threads \ {t} : em'[u] = em[u]
        /\ em'[t] = None \/ em'[t].event = em[t].event
    BY <1>2 DEF CheckEmit, Emission
  <1>4. \A u \in Threads : Says(u)' => Says(u) /\ em'[u].event.turn = em[u].event.turn
    BY <1>1, <1>3 DEF Says
  <1> QED BY <1>1, <1>4, EndsStay DEF TurnGoesOn, Claims

(* The claim passes from the emission to the log. *)
LEMMA AppendEmitEnds ==
  ASSUME TypeInv, Ends, NEW t \in Threads, AppendEmit(t)
  PROVE  Ends'
  <1> DEFINE e == em[t].event
             x == em[t].ws
  <1>1. UNCHANGED <<turn, state, reader>> /\ em[t] # None
    BY DEF AppendEmit, turnVars
  <1>2. /\ em \in [Threads -> Emission \cup {None}] /\ log \in [Workspaces -> Seq(Event)]
        /\ e \in Event /\ x \in Workspaces
    BY <1>1 DEF TypeInv, TypeOK, Emission
  <1>3. ~Says(t)' /\ \A u \in Threads \ {t} : em'[u] = em[u]
    BY <1>2 DEF AppendEmit, Says
  <1>4. \A u \in Threads : Says(u)' => Says(u) /\ em'[u].event.turn = em[u].event.turn
    BY <1>3 DEF Says
  <1>5. CASE log' = log
    BY <1>1, <1>4, <1>5, EndsStay DEF TurnGoesOn, Claims
  <1>6. CASE log' # log
    <2>1. log' = [log EXCEPT ![x] = Append(@, e)]
      BY <1>6 DEF AppendEmit
    <2>2. /\ Len(log[x]) \in Nat /\ Len(log'[x]) = Len(log[x]) + 1
          /\ log'[x][Len(log[x]) + 1] = e
          /\ \A i \in 1 .. Len(log[x]) : log'[x][i] = log[x][i]
          /\ \A w \in Workspaces \ {x} : log'[w] = log[w]
      <3>1. log[x] \in Seq(Event) /\ log'[x] = Append(log[x], e)
        BY <1>2, <2>1
      <3> HIDE DEF e, x
      <3>2. \A w \in Workspaces \ {x} : log'[w] = log[w]
        BY <1>2, <2>1
      <3> QED BY <1>2, <3>1, <3>2
    <2>3. IsEnd(e) => /\ Past(e.turn) /\ ~Said(e.turn)
                      /\ \A u \in Threads \ {t} : Says(u) => em[u].event.turn # e.turn
                      /\ \A r \in Readers : Claims(r) => reader[r].turn # e.turn
      BY <1>1 DEF Ends, SayingsApart, ClaimsApart, Says
    <2> HIDE DEF e, x
    <2>4. ASSUME NEW w \in Workspaces, NEW i \in 1 .. Len(log'[w])
          PROVE  \/ i \in 1 .. Len(log[w]) /\ log'[w][i] = log[w][i]
                 \/ w = x /\ i = Len(log[x]) + 1 /\ log'[w][i] = e
      BY <2>2
    <2>5. ASSUME NEW n, Said(n)' PROVE Said(n) \/ (IsEnd(e) /\ n = e.turn)
      <3>1. PICK w \in Workspaces : \E i \in 1 .. Len(log'[w]) :
              IsEnd(log'[w][i]) /\ log'[w][i].turn = n
        BY <2>5 DEF Said, IsEnd
      <3>2. PICK i \in 1 .. Len(log'[w]) : IsEnd(log'[w][i]) /\ log'[w][i].turn = n
        BY <3>1
      <3> QED BY <2>4, <3>2 DEF Said
    <2>6. ClaimsApart'
      <3> SUFFICES ASSUME NEW r \in Readers, Claims(r)
                   PROVE  /\ Past(reader[r].turn) /\ ~Said(reader[r].turn)'
                          /\ \A q \in Readers : Claims(q) /\ reader[q].turn = reader[r].turn => q = r
                          /\ \A u \in Threads : Says(u)' => em'[u].event.turn # reader[r].turn
        BY <1>1 DEF ClaimsApart, Claims, Past
      <3>1. /\ Past(reader[r].turn) /\ ~Said(reader[r].turn)
            /\ \A q \in Readers : Claims(q) /\ reader[q].turn = reader[r].turn => q = r
            /\ \A u \in Threads : Says(u) => em[u].event.turn # reader[r].turn
        BY DEF Ends, ClaimsApart
      <3>2. ~Said(reader[r].turn)'
        BY <1>1, <2>3, <2>5, <3>1
      <3> QED BY <1>4, <3>1, <3>2
    <2>7. SayingsApart'
      <3> SUFFICES ASSUME NEW u \in Threads, Says(u)'
                   PROVE  /\ Past(em[u].event.turn)' /\ ~Said(em[u].event.turn)'
                          /\ \A v \in Threads : Says(v)' /\ em'[v].event.turn = em'[u].event.turn => v = u
        BY DEF SayingsApart
      <3>1. u # t /\ Says(u) /\ em'[u] = em[u]
        BY <1>3 DEF Says
      <3>2. /\ Past(em[u].event.turn) /\ ~Said(em[u].event.turn)
            /\ \A v \in Threads : Says(v) /\ em[v].event.turn = em[u].event.turn => v = u
        BY <3>1 DEF Ends, SayingsApart
      <3>3. ~Said(em[u].event.turn)'
        <4>1. ~(IsEnd(e) /\ em[u].event.turn = e.turn)
          BY <2>3, <3>1
        <4> QED BY <2>5, <3>1, <3>2, <4>1 DEF Said
      <3>4. Past(em[u].event.turn)'
        BY <1>1, <3>1, <3>2 DEF Past
      <3> QED BY <1>4, <3>1, <3>2, <3>3, <3>4
    <2>8. SaidPast'
      <3> SUFFICES ASSUME NEW w \in Workspaces, NEW i \in 1 .. Len(log'[w]), IsEnd(log'[w][i])
                   PROVE  Past(log'[w][i].turn)
        BY <1>1 DEF SaidPast, Past, IsEnd
      <3> QED BY <2>3, <2>4 DEF Ends, SaidPast
    <2>9. TurnEndsOnce'
      <3> SUFFICES ASSUME NEW w \in Workspaces,
                          NEW i \in 1 .. Len(log'[w]), NEW j \in 1 .. Len(log'[w]),
                          IsEnd(log'[w][i]), IsEnd(log'[w][j]),
                          log'[w][i].turn = log'[w][j].turn
                   PROVE  i = j
        BY DEF TurnEndsOnce, IsEnd
      <3>1. CASE i \in 1 .. Len(log[w]) /\ j \in 1 .. Len(log[w])
        BY <2>2, <2>4, <3>1, SMTT(30) DEF Ends, TurnEndsOnce, IsEnd
      <3>2. CASE i \in 1 .. Len(log[w]) /\ j \notin 1 .. Len(log[w])
        <4>1. log'[w][j] = e /\ log'[w][i] = log[w][i]
          BY <2>2, <2>4, <3>2
        <4> QED BY <2>3, <3>2, <4>1 DEF Said
      <3>3. CASE i \notin 1 .. Len(log[w]) /\ j \in 1 .. Len(log[w])
        <4>1. log'[w][i] = e /\ log'[w][j] = log[w][j]
          BY <2>2, <2>4, <3>3
        <4> QED BY <2>3, <3>3, <4>1 DEF Said
      <3>4. CASE i \notin 1 .. Len(log[w]) /\ j \notin 1 .. Len(log[w])
        BY <2>4, <3>4
      <3> QED BY <3>1, <3>2, <3>3, <3>4
    <2> QED BY <2>6, <2>7, <2>8, <2>9 DEF Ends
  <1> QED BY <1>5, <1>6

LEMMA EndsNext == TypeInv /\ Ends /\ [Next]_vars => Ends'
  <1> SUFFICES ASSUME TypeInv, Ends, [Next]_vars PROVE Ends'
    OBVIOUS
  <1>1. CASE UNCHANGED vars
    <2>1. UNCHANGED <<turn, state, reader, em, log>>
      BY <1>1 DEF vars, turnVars, logVars
    <2> QED BY <2>1, EndsStay DEF TurnGoesOn, Claims, Says
  <1> QED BY <1>1, BeginEnds, ProceedEnds, ReadEnds, CheckEmitEnds, AppendEmitEnds, RunEnds
          DEF Next, Emit

(* However the markers of children, aborts, later prompts, restarts and    *)
(* late readers cross, no log ever has two ends of the same turn.          *)
THEOREM TurnsEndOnce == Spec => []TurnEndsOnce
  <1>1. Spec => [](TypeInv /\ Ends)
    BY TypeInvInit, TypeInvNext, EndsInit, EndsNext, PTL DEF Spec
  <1>2. Ends => TurnEndsOnce
    BY DEF Ends
  <1> QED BY <1>1, <1>2, PTL

-----------------------------------------------------------------------------
(* A log only holds its own conversation.                                  *)

LEMMA PlacingInit == Init => Placing
  <1> SUFFICES ASSUME Init PROVE Placing
    OBVIOUS
  <1>1. Tied /\ Settled
    BY DEF Init, Tied, Settled, Going
  <1>2. Addressed
    BY DEF Init, Addressed
  <1>3. RightLog
    BY DEF Init, RightLog, Restored, Notice
  <1> QED BY <1>1, <1>2, <1>3 DEF Placing

LEMMA NewsAddressed ==
  ASSUME TypeInv, Addressed, NEW t \in Threads, NEW e, NEW ws, NEW gen,
         ws # None => e.about = ws,
         em' = [em EXCEPT ![t] = Snapped(e, ws, gen)]
  PROVE  Addressed'
  <1>1. em \in [Threads -> Emission \cup {None}]
    BY DEF TypeInv, TypeOK
  <1>2. em'[t] # None => em'[t].event.about = em'[t].ws
    BY <1>1 DEF Snapped
  <1> QED BY <1>1, <1>2 DEF Addressed

(* A step of a call that leaves the child and the binding alone. *)
LEMMA CallTied ==
  ASSUME TypeInv, Tied, Settled, NEW c \in Callers, call[c].at # "drain",
         \A d \in Callers \ {c} : call'[d] = call[d],
         UNCHANGED <<reader, running, active, spawns, pid>>,
         \A s \in Streams : fd'[s] \in {0, fd[s]},
         \A k \in Spawns : child'[k].ws = child[k].ws
  PROVE  Tied' /\ Settled'
  <1>1. Settled'
    BY DEF Settled, Going
  <1>2. Tied'
    <2> SUFFICES ASSUME NEW r \in Readers, Going(r)
                 PROVE  TiedReader(r)'
      BY DEF Tied, Going
    <2>1. TiedReader(r)
      BY DEF Tied
    <2>2. spawns \in Spawns /\ r[1] \in Streams
      BY <2>1 DEF TiedReader, Readers, Spawns
    <2> QED BY <2>1, <2>2 DEF TiedReader
  <1> QED BY <1>1, <1>2

LEMMA DetachTied ==
  ASSUME TypeInv, Detach
  PROVE  \A s \in Streams : fd'[s] = fd[s]
  <1>1. fd \in [{"in", "out", "err"} -> 0 .. MaxSpawns]
    BY DEF TypeInv, TypeOK
  <1> QED BY <1>1 DEF Detach, Streams

LEMMA SwitchTied ==
  ASSUME TypeInv, Placing, NEW c \in Callers, NEW w, call[c].at # "drain", SwitchTo(c, w)
  PROVE  Tied' /\ Settled'
  <1>1. \A d \in Callers \ {c} : call'[d] = call[d]
    BY GotoMoves DEF SwitchTo
  <1>2. \A s \in Streams : fd'[s] \in {0, fd[s]}
    BY DetachTied DEF SwitchTo
  <1> QED BY <1>1, <1>2, CallTied DEF SwitchTo, Placing

LEMMA BeginTied ==
  ASSUME TypeInv, Placing, NEW c \in Callers, Begin(c)
  PROVE  Tied' /\ Settled'
  <1>1. call \in [Callers -> CallRecord] /\ call[c].at = "idle"
    BY DEF Begin, Activate, ResetStart, Submit, Abort, Arrive, At, TypeInv, TypeOK
  <1>2. CASE Activate(c)
    BY <1>1, <1>2, SwitchTied DEF Activate
  <1>3. CASE ResetStart(c)
    <2>1. \A d \in Callers \ {c} : call'[d] = call[d]
      BY <1>1, <1>3 DEF ResetStart, Goto
    <2>2. \A s \in Streams : fd'[s] \in {0, fd[s]}
      BY <1>3, DetachTied DEF ResetStart
    <2> QED BY <1>1, <1>3, <2>1, <2>2, CallTied DEF ResetStart, Placing
  <1>4. CASE Submit(c) \/ Abort(c)
    <2>1. \A d \in Callers \ {c} : call'[d] = call[d]
      BY <1>1, <1>4 DEF Submit, Abort, Goto
    <2>2. UNCHANGED <<reader, running, active, spawns, pid, fd, child>>
      BY <1>4 DEF Submit, Abort, bindVars
    <2> QED BY <1>1, <2>1, <2>2, CallTied DEF Placing
  <1> QED BY <1>2, <1>3, <1>4 DEF Begin

(* The stages of a call that do not touch child or binding, or that are    *)
(* before the end of the child.                                            *)
LEMMA StageTied ==
  ASSUME TypeInv, Placing, NEW c \in Callers,
         AlreadyActive(c) \/ Reap(c) \/ Wipe(c) \/ WritePrompt(c) \/ Return(c)
  PROVE  Tied' /\ Settled'
  <1>1. call \in [Callers -> CallRecord] /\ child \in [Spawns -> Process]
    BY DEF TypeInv, TypeOK
  <1>2. call[c].at # "drain" /\ \A d \in Callers \ {c} : call'[d] = call[d]
    BY <1>1 DEF AlreadyActive, Reap, Wipe, WritePrompt, Return, At, Goto, GoOn
  <1>3. UNCHANGED <<reader, running, active, spawns, pid, fd>>
    BY DEF AlreadyActive, Reap, Wipe, WritePrompt, Return, bindVars
  <1>4. \A k \in Spawns : child'[k].ws = child[k].ws
    <2>1. CASE child' = child
      BY <2>1
    <2>2. CASE Reap(c)
      BY <1>1, <2>2 DEF Reap, Process
    <2>3. CASE WritePrompt(c)
      <3> DEFINE i == fd["in"]
                 x == Append(child[i].given,
                             [ws |-> call[c].ws, turn |-> turn, resumed |-> call[c].resumed])
      <3>1. child' = child \/ child' = [child EXCEPT ![i].given = x]
        BY <2>3 DEF WritePrompt
      <3> HIDE DEF i, x
      <3> SUFFICES ASSUME NEW k \in Spawns PROVE child'[k].ws = child[k].ws
        OBVIOUS
      <3>2. child[k] \in Process
        BY <1>1
      <3>3. child' = [child EXCEPT ![i].given = x] => child'[k].ws = child[k].ws
        BY <1>1, <3>2 DEF Process
      <3> QED BY <3>1, <3>3
    <2> QED BY <2>1, <2>2, <2>3 DEF AlreadyActive, Wipe, Return
  <1> QED BY <1>2, <1>3, <1>4, CallTied DEF Placing

LEMMA CloseIoTied ==
  ASSUME Inv, Placing, NEW c \in Callers, CloseIo(c)
  PROVE  Tied' /\ Settled'
  <1>1. call'[c].at = "drain"
    BY GotoMoves DEF CloseIo, GoOn, Inv
  <1>2. Settled'
    BY <1>1 DEF Settled
  <1>3. Tied'
    <2> SUFFICES ASSUME NEW r \in Readers, Going(r)
                 PROVE  TiedReader(r)'
      BY DEF Tied, Going, CloseIo
    <2>1. r[1] \in DOMAIN fd /\ UNCHANGED <<running, spawns, child, active, reader>>
      BY DEF CloseIo, Inv, TypeInv, TypeOK, Readers, Streams
    <2>2. fd'[r[1]] = 0
      BY <2>1 DEF CloseIo
    <2> QED BY <2>1, <2>2 DEF Placing, Tied, TiedReader
  <1> QED BY <1>2, <1>3

(* Both flags are down: no reader is left. *)
LEMMA DrainedTied ==
  ASSUME ~ReadersLate, Inv, Placing, NEW c \in Callers, Drained(c)
  PROVE  Tied' /\ Settled'
  <1>1. reader' = reader /\ ~running["out"] /\ ~running["err"]
    BY DEF Drained, ReadersGone
  <1>2. \A r \in Readers : ~Going(r)
    BY <1>1 DEF Placing, Tied, TiedReader, Readers, Streams
  <1> QED BY <1>1, <1>2 DEF Tied, Settled, Going

(* At the binding the readers of the last child are gone. *)
LEMMA NoneGoing ==
  ASSUME Inv, Placing, NEW c \in Callers, At(c, "bind")
  PROVE  pid = 0 /\ \A r \in Readers : ~Going(r)
  <1>1. api = c /\ pid = 0
    BY DEF At, Inv, Locking, HeldStages, Binding, CallsBound
  <1>2. \A d \in Callers : call[d].at # "drain"
    BY <1>1, OthersOut DEF At, HeldStages
  <1> QED BY <1>1, <1>2 DEF Placing, Settled

LEMMA BindTied ==
  ASSUME Inv, Placing, NEW c \in Callers, Bind(c)
  PROVE  Tied' /\ Settled'
  <1> DEFINE w == call[c].ws
             k == spawns + 1
  <1>1. \A r \in Readers : ~Going(r)
    BY NoneGoing DEF Bind
  <1>2. k \in Spawns /\ k # 0
    <2>1. spawns \in 0 .. MaxSpawns /\ spawns < MaxSpawns
      BY DEF Bind, Inv, TypeInv, TypeOK
    <2> QED BY <2>1 DEF Spawns
  <1>3. spawns' = k /\ pid' = k /\ active' = w
    BY DEF Bind, BindTo
  <1>4. child'[k].ws = w
    <2>1. child \in [Spawns -> Process] /\ child[k] \in Process
      BY <1>2 DEF Inv, TypeInv, TypeOK
    <2>2. child' = [child EXCEPT ![k].at = "booting", ![k].ws = w,
                                 ![k].context = ContextOf(w)]
      BY DEF Bind
    <2> HIDE DEF k, w
    <2> QED BY <1>2, <2>1, <2>2 DEF Process
  <1>5. \A s \in Streams : running'[s] /\ fd'[s] = k
    <2>1. fd \in [{"in", "out", "err"} -> 0 .. MaxSpawns]
      BY DEF Inv, TypeInv, TypeOK
    <2> QED BY <2>1 DEF Bind, Streams
  <1>6. ASSUME NEW r \in Readers, Going(r)' PROVE r[2] = k /\ reader'[r].at = "load"
    <2>1. reader' = [q \in Readers |-> IF q[2] = k
                       THEN [reader[q] EXCEPT !.at = "load"] ELSE reader[q]]
      BY DEF Bind
    <2>2. reader[r] \in ReaderRecord
      BY DEF Inv, TypeInv, TypeOK
    <2>3. reader'[r] = IF r[2] = k THEN [reader[r] EXCEPT !.at = "load"] ELSE reader[r]
      BY <2>1
    <2> HIDE DEF k
    <2> QED BY <1>1, <1>6, <2>2, <2>3 DEF Going, ReaderRecord
  <1>7. Settled'
    BY <1>2, <1>3 DEF Settled
  <1>8. Tied'
    <2> SUFFICES ASSUME NEW r \in Readers, Going(r)' PROVE TiedReader(r)'
      BY DEF Tied
    <2>1. r[1] \in Streams
      BY DEF Readers
    <2> HIDE DEF k, w
    <2> QED BY <1>3, <1>4, <1>5, <1>6, <2>1 DEF TiedReader
  <1> QED BY <1>7, <1>8

LEMMA BindFailsTied ==
  ASSUME Inv, Placing, NEW c \in Callers, BindFails(c)
  PROVE  Tied' /\ Settled'
  <1>1. \A r \in Readers : ~Going(r)
    BY NoneGoing DEF BindFails
  <1>2. reader' = reader
    BY DEF BindFails
  <1> QED BY <1>1, <1>2 DEF Tied, Settled, Going

LEMMA ProceedTied ==
  ASSUME ~ReadersLate, Inv, Placing, NEW c \in Callers, Proceed(c)
  PROVE  Tied' /\ Settled'
  <1>1. CASE Reactivate(c)
    BY <1>1, SwitchTied DEF Reactivate, At, Inv
  <1> QED BY <1>1, StageTied, CloseIoTied, DrainedTied, BindTied, BindFailsTied DEF Proceed, Inv

(* While a reader runs, it reads the child of the binding. *)
LEMMA ReadTied ==
  ASSUME TypeInv, Placing, NEW r \in Readers, Read(r)
  PROVE  Tied' /\ Settled'
  <1>1. reader \in [Readers -> ReaderRecord] /\ child \in [Spawns -> Process]
        /\ running \in [Streams -> BOOLEAN]
    BY DEF TypeInv, TypeOK
  <1>2. Going(r) /\ TiedReader(r)
    BY DEF Read, Load, ReadOut, ReadErr, EmitTurnEnd, StartDiff, EmitDiff, Resume, ReaderEnds,
           PipeOver, Reading, Going, Placing, Tied
  <1>3. spawns \in Spawns
    BY <1>2 DEF TiedReader, Readers
  <1>4. UNCHANGED <<call, active, pid, spawns, fd>>
    BY DEF Read, Load, ReadOut, ReadErr, EmitTurnEnd, StartDiff, EmitDiff, Resume, ReaderEnds,
           callVars, bindVars
  <1>5. child'[spawns].ws = child[spawns].ws
    <2>1. \/ child' = child
          \/ child' = [child EXCEPT ![reader[r].from].out = Tail(@)]
          \/ child' = [child EXCEPT ![reader[r].from].err = Tail(@)]
      BY DEF Read, Load, ReadOut, ReadErr, EmitTurnEnd, StartDiff, EmitDiff, Resume, ReaderEnds
    <2>2. CASE child' = [child EXCEPT ![reader[r].from].out = Tail(@)]
      BY <1>1, <1>3, <2>2 DEF Process
    <2>3. CASE child' = [child EXCEPT ![reader[r].from].err = Tail(@)]
      BY <1>1, <1>3, <2>3 DEF Process
    <2> QED BY <2>1, <2>2, <2>3
  <1>6. /\ \A q \in Readers \ {r} : reader'[q] = reader[q]
        /\ reader'[r].at # "done" => running' = running
    BY <1>1 DEF Read, Load, ReadOut, ReadErr, EmitTurnEnd, StartDiff, EmitDiff, Resume,
                ReaderEnds, Step, ReaderRecord
  <1>7. /\ reader'[r].at = "read" => reader'[r].from = spawns
        /\ reader'[r].at \in {"ended", "diffing"} => reader'[r].ws = active
    <2>1. CASE Load(r)
      BY <1>1, <1>2, <2>1 DEF Load, TiedReader, ReaderRecord
    <2>2. CASE ReadErr(r)
      <3>1. CASE EndsTurn
        <4>1. reader' = [reader EXCEPT ![r].at = "ended", ![r].turn = turn,
                           ![r].saw = Head(child[reader[r].from].err),
                           ![r].ws = child[reader[r].from].ws]
          BY <2>2, <3>1 DEF ReadErr
        <4>2. reader[r].from = spawns /\ child[spawns].ws = active
          BY <1>2, <2>2 DEF ReadErr, Reading, TiedReader
        <4> QED BY <1>1, <4>1, <4>2 DEF ReaderRecord
      <3>2. CASE ~EndsTurn
        BY <1>1, <2>2, <3>2 DEF ReadErr, Step, ReaderRecord
      <3> QED BY <3>1, <3>2
    <2>3. CASE StartDiff(r)
      BY <1>1, <2>3 DEF StartDiff, ReaderRecord
    <2>4. CASE ReadOut(r) \/ EmitTurnEnd(r) \/ EmitDiff(r) \/ Resume(r) \/ ReaderEnds(r)
      BY <1>1, <2>4 DEF ReadOut, EmitTurnEnd, EmitDiff, Resume, ReaderEnds, Step, ReaderRecord
    <2> QED BY <2>1, <2>2, <2>3, <2>4 DEF Read
  <1>8. Settled'
    <2>1. ~ (pid = 0 /\ \A c \in Callers : call[c].at # "drain")
      BY <1>2 DEF Placing, Settled
    <2> QED BY <1>4, <2>1 DEF Settled
  <1>9. Tied'
    <2> SUFFICES ASSUME NEW q \in Readers, Going(q)' PROVE TiedReader(q)'
      BY DEF Tied
    <2>1. CASE q = r
      <3>1. running' = running
        BY <1>6, <2>1 DEF Going
      <3> QED BY <1>2, <1>4, <1>5, <1>7, <2>1, <3>1 DEF TiedReader
    <2>2. CASE q # r
      <3>1. reader'[q] = reader[q] /\ TiedReader(q)
        BY <1>6, <2>2 DEF Going, Placing, Tied
      <3>2. q[1] # r[1]
        BY <1>2, <2>2, <3>1 DEF TiedReader, Readers
      <3>3. running'[q[1]] = running[q[1]]
        <4>1. CASE ReaderEnds(r)
          BY <1>1, <3>2, <4>1 DEF ReaderEnds, FlagsAfter, Readers
        <4>2. CASE ~ReaderEnds(r)
          BY <4>2 DEF Read, Load, ReadOut, ReadErr, EmitTurnEnd, StartDiff, EmitDiff, Resume
        <4> QED BY <4>1, <4>2
      <3> QED BY <1>4, <1>5, <3>1, <3>3 DEF TiedReader
    <2> QED BY <2>1, <2>2
  <1> QED BY <1>8, <1>9

LEMMA RunTied ==
  ASSUME Inv, Placing, NEW k \in Spawns, Run(k)
  PROVE  Tied' /\ Settled'
  <1>1. UNCHANGED <<reader, running, call, active, pid, spawns, fd>>
    BY DEF Run, Boot, TakePrompt, Say, Finish, Exit, ProcessOnly, callVars, bindVars
  <1>2. ASSUME NEW i \in Spawns PROVE child'[i].ws = child[i].ws
    <2>1. child \in [Spawns -> Process] /\ child[i] \in Process
      BY DEF Inv, TypeInv, TypeOK
    <2>2. CASE Boot(k)
      BY <2>1, <2>2 DEF Boot, Process
    <2>3. CASE TakePrompt(k)
      BY <2>1, <2>3 DEF TakePrompt, Process
    <2>4. CASE Say(k)
      BY <2>1, <2>4 DEF Say, Process
    <2>5. CASE Finish(k)
      BY <2>1, <2>5 DEF Finish, Process
    <2>6. CASE Exit(k)
      BY <2>1, <2>6 DEF Exit, Process
    <2> QED BY <2>2, <2>3, <2>4, <2>5, <2>6 DEF Run
  <1>3. ASSUME NEW r \in Readers, Going(r) PROVE spawns \in Spawns
    BY <1>3 DEF Placing, Tied, TiedReader, Readers
  <1>4. Tied'
    <2> SUFFICES ASSUME NEW r \in Readers, Going(r)' PROVE TiedReader(r)'
      BY DEF Tied
    <2>1. Going(r) /\ TiedReader(r)
      BY <1>1 DEF Going, Placing, Tied
    <2>2. child'[spawns].ws = child[spawns].ws
      BY <1>2, <1>3, <2>1
    <2> QED BY <1>1, <2>1, <2>2 DEF TiedReader
  <1>5. Settled'
    BY <1>1 DEF Placing, Settled, Going
  <1> QED BY <1>4, <1>5

(* Every emission a step starts is about the workspace it will go to. *)
LEMMA AddressedNext ==
  ASSUME TypeInv, Placing, Next
  PROVE  Addressed'
  <1> USE DEF Placing
  <1>1. CASE em' = em
    BY <1>1 DEF Addressed
  <1>2. ASSUME NEW c \in Callers, Begin(c) \/ Proceed(c)
        PROVE  Addressed'
    <2>1. c \in Threads
      BY DEF Threads
    <2>2. CASE Submit(c)
      BY <2>1, <2>2, NewsAddressed DEF Submit, StartEmit, Notice
    <2>3. CASE Abort(c)
      BY <2>1, <2>3, NewsAddressed DEF Abort, StartEmit, Notice
    <2>4. CASE Bind(c)
      <3> DEFINE w == call[c].ws
                 e == Notice("agent.state", w, turn, 0)
      <3>1. em' = [em EXCEPT ![c] = Snapped(e, w, bindGen + 1)]
        BY <2>4 DEF Bind
      <3>2. e.about = w
        BY DEF Notice
      <3> HIDE DEF w, e
      <3> QED BY <2>1, <3>1, <3>2, NewsAddressed
    <2>5. CASE WritePrompt(c)
      BY <1>1, <2>1, <2>5, NewsAddressed DEF WritePrompt, StartEmit, Notice
    <2> QED BY <1>1, <1>2, <2>2, <2>3, <2>4, <2>5
            DEF Begin, Activate, SwitchTo, ResetStart, Proceed, Reactivate, AlreadyActive, Reap,
                CloseIo, Drained, Wipe, BindFails, Return
  <1>3. ASSUME NEW r \in Readers, Read(r)
        PROVE  Addressed'
    <2>1. r \in Threads
      BY DEF Threads
    <2>2. TiedReader(r)
      BY <1>3 DEF Read, Load, ReadOut, ReadErr, EmitTurnEnd, StartDiff, EmitDiff, Resume,
                  ReaderEnds, PipeOver, Reading, Going, Tied
    <2>3. CASE ReadOut(r)
      <3>1. child[reader[r].from].ws = active
        BY <2>2, <2>3 DEF ReadOut, Reading, TiedReader
      <3> QED BY <2>1, <2>3, <3>1, NewsAddressed DEF ReadOut, StartEmit, Notice
    <2>4. CASE EmitTurnEnd(r)
      <3>1. reader[r].ws = active
        BY <2>2, <2>4 DEF EmitTurnEnd, Reading, TiedReader
      <3> QED BY <2>1, <2>4, <3>1, NewsAddressed DEF EmitTurnEnd, StartEmit, Notice
    <2>5. CASE EmitDiff(r)
      <3>1. reader[r].ws = active
        BY <2>2, <2>5 DEF EmitDiff, Reading, TiedReader
      <3> QED BY <1>1, <2>1, <2>5, <3>1, NewsAddressed DEF EmitDiff, StartEmit, Notice
    <2> QED BY <1>1, <1>3, <2>3, <2>4, <2>5
            DEF Read, Load, ReadErr, StartDiff, Resume, ReaderEnds
  <1>4. ASSUME NEW t \in Threads, Emit(t)
        PROVE  Addressed'
    <2>1. em \in [Threads -> Emission \cup {None}] /\ em[t] # None /\ em[t] \in Emission
      BY <1>4 DEF Emit, CheckEmit, AppendEmit, TypeInv, TypeOK
    <2>2. /\ \A u \in Threads \ {t} : em'[u] = em[u]
          /\ em'[t] # None => em'[t].event = em[t].event /\ em'[t].ws = em[t].ws
      BY <1>4, <2>1 DEF Emit, CheckEmit, AppendEmit, Emission
    <2> QED BY <2>1, <2>2 DEF Addressed
  <1>5. ASSUME NEW k \in Spawns, Run(k)
        PROVE  Addressed'
    BY <1>1, <1>5 DEF Run, Boot, TakePrompt, Say, Finish, Exit, ProcessOnly
  <1> QED BY <1>2, <1>3, <1>4, <1>5 DEF Next

LEMMA RightLogNext ==
  ASSUME TypeInv, Placing, Next
  PROVE  RightLog'
  <1> USE DEF Placing
  <1>1. log \in [Workspaces -> Seq(Event)]
    BY DEF TypeInv, TypeOK
  <1>2. CASE log' = log
    BY <1>2 DEF RightLog
  <1>3. ASSUME NEW c \in Callers, Wipe(c)
        PROVE  RightLog'
    <2>1. \A w \in Workspaces : log'[w] = log[w] \/ log'[w] = <<>>
      BY <1>1, <1>3 DEF Wipe
    <2> QED BY <2>1 DEF RightLog
  <1>4. ASSUME NEW t \in Threads, AppendEmit(t)
        PROVE  RightLog'
    <2> DEFINE e == em[t].event
               x == em[t].ws
    <2>1. e \in Event /\ x \in Workspaces /\ e.about = x
      BY <1>4 DEF AppendEmit, TypeInv, TypeOK, Emission, Addressed
    <2>2. log' = log \/ log' = [log EXCEPT ![x] = Append(@, e)]
      BY <1>4 DEF AppendEmit
    <2> HIDE DEF e, x
    <2>3. CASE log' = [log EXCEPT ![x] = Append(@, e)]
      <3> SUFFICES ASSUME NEW w \in Workspaces, NEW i \in 1 .. Len(log'[w])
                   PROVE  log'[w][i].about = w
        BY DEF RightLog
      <3>1. CASE w # x
        BY <1>1, <2>3, <3>1 DEF RightLog
      <3>2. CASE w = x
        <4>1. log[x] \in Seq(Event) /\ log'[x] = Append(log[x], e)
          BY <1>1, <2>1, <2>3
        <4>2. (i \in 1 .. Len(log[x]) /\ log'[x][i] = log[x][i]) \/ log'[x][i] = e
          <5>1. Len(log[x]) \in Nat /\ Len(log'[x]) = Len(log[x]) + 1
            BY <2>1, <4>1
          <5>2. CASE i = Len(log[x]) + 1
            BY <2>1, <4>1, <5>1, <5>2
          <5>3. CASE i # Len(log[x]) + 1
            <6>1. i \in 1 .. Len(log[x])
              BY <3>2, <5>1, <5>3
            <6> QED BY <2>1, <4>1, <6>1
          <5> QED BY <5>2, <5>3
        <4> QED BY <2>1, <3>2, <4>2 DEF RightLog
      <3> QED BY <3>1, <3>2
    <2> QED BY <1>2, <2>2, <2>3
  <1>5. ASSUME NEW c \in Callers, Begin(c) PROVE log' = log
    BY <1>5 DEF Begin, Activate, SwitchTo, ResetStart, Submit, Abort, logVars
  <1>6. ASSUME NEW c \in Callers, Proceed(c) PROVE log' = log \/ Wipe(c)
    <2>1. CASE Bind(c) \/ BindFails(c)
      BY <2>1 DEF Bind, BindFails, logVars
    <2>2. CASE Reactivate(c) \/ AlreadyActive(c)
      BY <2>2 DEF Reactivate, SwitchTo, AlreadyActive, logVars
    <2>4. CASE Reap(c) \/ CloseIo(c) \/ Drained(c)
      BY <2>4 DEF Reap, CloseIo, Drained, logVars
    <2>3. CASE WritePrompt(c) \/ Return(c)
      BY <2>3 DEF WritePrompt, Return, logVars
    <2> QED BY <1>6, <2>1, <2>2, <2>3, <2>4 DEF Proceed
  <1>7. ASSUME NEW r \in Readers, Read(r) PROVE log' = log
    BY <1>7 DEF Read, Load, ReadOut, ReadErr, EmitTurnEnd, StartDiff, EmitDiff, Resume, ReaderEnds,
                logVars
  <1>8. ASSUME NEW t \in Threads, Emit(t) PROVE log' = log \/ AppendEmit(t)
    BY <1>8 DEF Emit, CheckEmit, logVars
  <1>9. ASSUME NEW k \in Spawns, Run(k) PROVE log' = log
    BY <1>9 DEF Run, Boot, TakePrompt, Say, Finish, Exit, ProcessOnly, logVars
  <1> QED BY <1>2, <1>3, <1>4, <1>5, <1>6, <1>7, <1>8, <1>9 DEF Next

LEMMA PlacingNext ==
  ASSUME ~ReadersLate, Inv, Placing, [Next]_vars
  PROVE  Placing'
  <1>1. CASE UNCHANGED vars
    BY <1>1 DEF vars, callVars, bindVars, logVars, Placing, Tied, TiedReader, Settled, Going,
                Addressed, RightLog
  <1>2. CASE Next
    <2>1. Tied' /\ Settled'
      <3>1. ASSUME NEW t \in Threads, Emit(t)
            PROVE  Tied' /\ Settled'
        BY <3>1 DEF Emit, CheckEmit, AppendEmit, callVars, bindVars, Placing, Tied, TiedReader,
                    Settled, Going
      <3> QED BY <1>2, <3>1, BeginTied, ProceedTied, ReadTied, RunTied DEF Next, Inv
    <2>2. Addressed' /\ RightLog'
      BY <1>2, AddressedNext, RightLogNext DEF Inv
    <2> QED BY <2>1, <2>2 DEF Placing
  <1> QED BY <1>1, <1>2

(* When readers are gone two seconds after their child, a log only ever    *)
(* holds the conversation of its own workspace, however the agent is       *)
(* switched, reset, aborted and restarted under its reader threads.        *)
THEOREM LogsStayRight ==
  ASSUME ~ReadersLate
  PROVE  Spec => []RightLog
  <1>1. Inv /\ Placing /\ [Next]_vars => Placing'
    BY PlacingNext
  <1>2. Spec => []Placing
    BY <1>1, InvAlways, PlacingInit, PTL DEF Spec
  <1>3. Placing => RightLog
    BY DEF Placing
  <1> QED BY <1>2, <1>3, PTL

-----------------------------------------------------------------------------
(* The agent as its callers see it.                                        *)

(* Every prompt these processes were given belongs to a turn before n. *)
Before(processes, n) ==
  \A k \in Spawns : \A i \in 1 .. Len(processes[k].given) : processes[k].given[i].turn < n

(* A turn has one prompt: while it is being written, it is newer than all  *)
(* that were given.                                                        *)
Ordered ==
  /\ turn <= calls
  /\ Before(child, turn + 1)
  /\ \A c \in Callers : call[c].at = "write" => turn >= 1 /\ Before(child, turn)

SameGiven == \A k \in Spawns : child'[k].given = child[k].given

SameStages == \A k \in Spawns : child'[k].at = child[k].at

LEMMA OrderedInit == Init => Ordered
  BY DEF Init, Ordered, Before

LEMMA BeforeStays ==
  ASSUME SameGiven, NEW n
  PROVE  Before(child', n) <=> Before(child, n)
  BY DEF Before, SameGiven

LEMMA BeforeLater ==
  ASSUME TypeInv, NEW n \in Nat, Before(child, n)
  PROVE  Before(child, n + 1)
  <1> SUFFICES ASSUME NEW k \in Spawns, NEW i \in 1 .. Len(child[k].given)
               PROVE  child[k].given[i].turn < n + 1
    BY DEF Before
  <1>1. child[k].given \in Seq(Prompt)
    BY DEF TypeInv, TypeOK, Process
  <1>2. child[k].given[i] \in Prompt
    BY <1>1
  <1>3. child[k].given[i].turn \in Nat
    BY <1>2 DEF Prompt
  <1> QED BY <1>3 DEF Before

(* Most steps give no prompt and begin no turn. *)
LEMMA OrderedStays ==
  ASSUME Inv, Ordered, SameGiven, turn' = turn, calls' = calls \/ calls' = calls + 1,
         \A c \in Callers : call'[c].at = "write" => call[c].at = "write"
  PROVE  Ordered'
  <1>1. turn \in Nat /\ calls \in Nat
    BY DEF Inv, TypeInv, TypeOK
  <1>2. turn' <= calls'
    BY <1>1 DEF Ordered
  <1>3. Before(child', turn' + 1)
    BY BeforeStays DEF Ordered
  <1>4. ASSUME NEW c \in Callers, call'[c].at = "write" PROVE turn' >= 1 /\ Before(child', turn')
    BY <1>4, BeforeStays DEF Ordered
  <1> QED BY <1>2, <1>3, <1>4 DEF Ordered

LEMMA ToldElim ==
  ASSUME NEW x
  PROVE  x \in Told <=>
           \E k \in Spawns : \E i \in 1 .. Len(child[k].given) :
             x = [to |-> k, ws |-> child[k].given[i].ws, turn |-> child[k].given[i].turn]
  BY DEF Told

LEMMA ToldElimNext ==
  ASSUME NEW x
  PROVE  x \in Told' <=>
           \E k \in Spawns : \E i \in 1 .. Len(child'[k].given) :
             x = [to |-> k, ws |-> child'[k].given[i].ws, turn |-> child'[k].given[i].turn]
  BY DEF Told

LEMMA ToldStays ==
  ASSUME SameGiven
  PROVE  Told' = Told
  <1> SUFFICES ASSUME NEW x PROVE x \in Told' <=> x \in Told
    OBVIOUS
  <1> QED BY ToldElim, ToldElimNext DEF SameGiven

LEMMA TurnsTold ==
  ASSUME NEW n, Before(child, n), NEW p \in Told
  PROVE  p.turn < n
  <1>1. PICK k \in Spawns : \E i \in 1 .. Len(child[k].given) :
          p = [to |-> k, ws |-> child[k].given[i].ws, turn |-> child[k].given[i].turn]
    BY ToldElim
  <1> QED BY <1>1 DEF Before

LEMMA SubmitOrdered ==
  ASSUME Inv, Ordered, NEW c \in Callers, Submit(c)
  PROVE  Ordered'
  <1> DEFINE n == turn + 1
  <1>1. turn \in Nat /\ calls \in Nat /\ calls' = calls + 1 /\ turn' = n
    BY DEF Submit, Arrive, Inv, TypeInv, TypeOK
  <1>2. n \in Nat /\ n >= 1 /\ n <= calls'
    BY <1>1 DEF Ordered
  <1>3. Before(child, n)
    BY DEF Ordered
  <1> HIDE DEF n
  <1>4. Before(child, n + 1)
    BY <1>2, <1>3, BeforeLater DEF Inv
  <1>5. child' = child
    BY DEF Submit
  <1> QED BY <1>1, <1>2, <1>3, <1>4, <1>5 DEF Ordered

LEMMA BindGivesNone ==
  ASSUME Inv, NEW c \in Callers, Bind(c)
  PROVE  SameGiven
  <1> DEFINE k == spawns + 1
             w == call[c].ws
             x == ContextOf(w)
  <1>1. child \in [Spawns -> Process]
    BY DEF Inv, TypeInv, TypeOK
  <1>2. child' = [child EXCEPT ![k].at = "booting", ![k].ws = w, ![k].context = x]
    BY DEF Bind
  <1> HIDE DEF k, w, x
  <1>3. ASSUME NEW i \in Spawns PROVE child'[i].given = child[i].given
    BY <1>1, <1>2 DEF Process
  <1> QED BY <1>3 DEF SameGiven

LEMMA BeginOrdered ==
  ASSUME Inv, Ordered, NEW c \in Callers, Begin(c)
  PROVE  Ordered'
  <1>1. CASE ~ Submit(c)
    <2>1. calls' = calls + 1
      BY DEF Begin, Activate, ResetStart, Submit, Abort, Arrive
    <2>2. SameGiven /\ turn' = turn
      BY <1>1 DEF SameGiven, Begin, Activate, SwitchTo, ResetStart, Abort, turnVars
    <2>3. \/ \E stage \in {"reap", "bind", "wipe", "return"} : \E w : Goto(c, stage, w)
          \/ \E w \in Workspaces :
               call' = [call EXCEPT ![c].at = "reap", ![c].ws = w, ![c].again = TRUE]
      BY <1>1 DEF Begin, Activate, SwitchTo, ResetStart, Abort
    <2>4. call \in [Callers -> CallRecord]
      BY DEF Inv, TypeInv, TypeOK
    <2>5. ASSUME NEW d \in Callers, call'[d].at = "write" PROVE call[d].at = "write"
      <3>1. call'[c].at \in {"reap", "bind", "wipe", "return"}
            /\ \A e \in Callers \ {c} : call'[e] = call[e]
        <4>1. CASE \E w \in Workspaces :
                call' = [call EXCEPT ![c].at = "reap", ![c].ws = w, ![c].again = TRUE]
          BY <2>4, <4>1 DEF CallRecord
        <4>2. CASE \E stage \in {"reap", "bind", "wipe", "return"} : \E w : Goto(c, stage, w)
          BY <4>2, GotoMoves DEF Inv
        <4> QED BY <2>3, <4>1, <4>2
      <3> QED BY <2>5, <3>1
    <2> QED BY <2>1, <2>2, <2>5, OrderedStays
  <1> QED BY <1>1, SubmitOrdered

(* The calls go on: only the write gives a prompt. *)
LEMMA ProceedOrdered ==
  ASSUME Inv, Ordered, NEW c \in Callers, Proceed(c), ~ WritePrompt(c)
  PROVE  Ordered'
  <1>1. calls' = calls /\ turn' = turn
    BY DEF Proceed, Reactivate, SwitchTo, AlreadyActive, Reap, CloseIo, Drained, Wipe, Bind,
           BindFails, Return, turnVars, callVars
  <1>2. SameGiven
    <2>1. CASE Reap(c)
      BY <2>1 DEF Reap, SameGiven, Inv, TypeInv, TypeOK, Process
    <2>2. CASE Bind(c)
      BY <2>2, BindGivesNone
    <2> QED BY <2>1, <2>2 DEF SameGiven, Proceed, Reactivate, SwitchTo, AlreadyActive, CloseIo,
                              Drained, Wipe, BindFails, Return
  <1>3. call \in [Callers -> CallRecord]
    BY DEF Inv, TypeInv, TypeOK
  <1>4. ASSUME NEW d \in Callers, call'[d].at = "write" PROVE call[d].at = "write"
    <2>1. CASE Wipe(c)
      BY <1>3, <1>4, <2>1 DEF Wipe, CallRecord
    <2>2. CASE \E stage \in {"reap", "bind", "wipe", "return", "idle", "close", "drain"} : \E w :
                 Goto(c, stage, w)
      BY <1>3, <1>4, <2>2 DEF Goto, CallRecord
    <2> QED BY <2>1, <2>2 DEF Proceed, Reactivate, SwitchTo, AlreadyActive, Reap, CloseIo, Drained,
                              Bind, BindFails, Return, GoOn
  <1> QED BY <1>1, <1>2, <1>4, OrderedStays

(* What the write does: one prompt more for the child of the active        *)
(* workspace, or nothing that the child sees.                              *)
LEMMA WriteGives ==
  ASSUME Inv, NEW c \in Callers, WritePrompt(c)
  PROVE  /\ api = c /\ call[c].at = "write" /\ pid \in Spawns
         /\ UNCHANGED <<api, active, turn, calls>> /\ SameStages
         /\ call'[c].at = "return" /\ \A d \in Callers \ {c} : call'[d] = call[d]
         /\ \/ SameGiven
            \/ /\ Alive(pid)
               /\ \A k \in Spawns \ {pid} : child'[k].given = child[k].given
               /\ child'[pid].given = Append(child[pid].given,
                    [ws |-> active, turn |-> turn, resumed |-> call[c].resumed])
  <1>1. call \in [Callers -> CallRecord] /\ child \in [Spawns -> Process]
    BY DEF Inv, TypeInv, TypeOK
  <1>2. call[c].at = "write" /\ UNCHANGED <<api, active, turn, calls>>
    BY DEF WritePrompt, At, bindVars, turnVars
  <1>3. api = c /\ pid # 0 /\ fd["in"] = pid /\ call[c].ws = active
    BY <1>2 DEF Inv, Locking, HeldStages, Binding, CallsBound
  <1>4. pid \in Spawns
    BY <1>3 DEF Inv, TypeInv, TypeOK, Spawns
  <1>5. call'[c].at = "return" /\ \A d \in Callers \ {c} : call'[d] = call[d]
    BY <1>1 DEF WritePrompt, CallRecord
  <1>6. CASE child[pid].at = "exited"
    <2>1. child' = child
      BY <1>3, <1>6 DEF WritePrompt
    <2> QED BY <1>2, <1>3, <1>4, <1>5, <2>1 DEF SameGiven, SameStages
  <1>7. CASE child[pid].at # "exited"
    <2> DEFINE p == [ws |-> active, turn |-> turn, resumed |-> call[c].resumed]
    <2>1. child' = [child EXCEPT ![pid].given = Append(@, p)]
      BY <1>3, <1>7 DEF WritePrompt
    <2> HIDE DEF p
    <2>2. child'[pid].given = Append(child[pid].given, p)
      BY <1>1, <1>4, <2>1 DEF Process
    <2>3. \A k \in Spawns \ {pid} : child'[k].given = child[k].given
      BY <1>1, <2>1
    <2>4. SameStages
      BY <1>1, <1>4, <2>1 DEF SameStages, Process
    <2>5. Alive(pid)
      <3>1. spawns \in Nat /\ pid <= spawns /\ pid \in Nat
        BY <1>4 DEF Inv, TypeInv, TypeOK, Presence, FieldsPlaced, Spawns
      <3>2. child[pid].at = "none" <=> pid > spawns
        BY <1>4 DEF Inv, TypeInv, Presence, ChildrenPlaced, ProcessPlaced
      <3> QED BY <1>7, <3>1, <3>2 DEF Alive
    <2> QED BY <1>2, <1>3, <1>4, <1>5, <2>2, <2>3, <2>4, <2>5 DEF p
  <1> QED BY <1>6, <1>7

(* A prompt appended is the last, the ones before it stay where they are. *)
LEMMA GivenGrows ==
  ASSUME Inv, NEW k \in Spawns, NEW p \in Prompt, NEW s, s = Append(child[k].given, p)
  PROVE  /\ Len(child[k].given) \in Nat /\ Len(s) = Len(child[k].given) + 1
         /\ s[Len(s)] = p
         /\ \A i \in 1 .. Len(child[k].given) : s[i] = child[k].given[i]
  <1>1. child[k].given \in Seq(Prompt)
    BY DEF Inv, TypeInv, TypeOK, Process
  <1> QED BY <1>1

LEMMA PromptMade ==
  ASSUME Inv, NEW c \in Callers, call[c].at = "write"
  PROVE  [ws |-> active, turn |-> turn, resumed |-> call[c].resumed] \in Prompt
  <1>1. call[c] \in CallRecord /\ call[c].ws \in Workspaces /\ turn \in Nat
    BY DEF Inv, TypeInv, TypeOK, Presence, CallsPlaced
  <1>2. call[c].ws = active
    BY DEF Inv, Binding, CallsBound
  <1> QED BY <1>1, <1>2 DEF Prompt, CallRecord

LEMMA WriteOrdered ==
  ASSUME Inv, Ordered, NEW c \in Callers, WritePrompt(c)
  PROVE  Ordered'
  <1>1. CASE SameGiven
    BY <1>1, WriteGives, OrderedStays
  <1>2. CASE ~ SameGiven
    <2> DEFINE p == [ws |-> active, turn |-> turn, resumed |-> call[c].resumed]
    <2>1. /\ call[c].at = "write" /\ api = c /\ pid \in Spawns
          /\ UNCHANGED <<turn, calls>>
          /\ call'[c].at = "return" /\ \A d \in Callers \ {c} : call'[d] = call[d]
          /\ \A k \in Spawns \ {pid} : child'[k].given = child[k].given
          /\ child'[pid].given = Append(child[pid].given, p)
      BY <1>2, WriteGives
    <2>2. p \in Prompt /\ p.turn = turn
      BY <2>1, PromptMade
    <2> HIDE DEF p
    <2>3. turn \in Nat
      BY DEF Inv, TypeInv, TypeOK
    <2>4. /\ Len(child[pid].given) \in Nat
          /\ Len(child'[pid].given) = Len(child[pid].given) + 1
          /\ child'[pid].given[Len(child'[pid].given)] = p
          /\ \A i \in 1 .. Len(child[pid].given) : child'[pid].given[i] = child[pid].given[i]
      BY <2>1, <2>2, GivenGrows
    <2>5. ASSUME NEW k \in Spawns, NEW i \in 1 .. Len(child'[k].given)
          PROVE  child'[k].given[i].turn < turn + 1
      <3>1. CASE k # pid
        BY <2>1, <2>5, <3>1 DEF Ordered, Before
      <3>2. CASE k = pid /\ i = Len(child'[pid].given)
        BY <2>2, <2>3, <2>4, <3>2
      <3>3. CASE k = pid /\ i # Len(child'[pid].given)
        <4>1. i \in 1 .. Len(child[pid].given)
          BY <2>4, <2>5, <3>3
        <4> QED BY <2>1, <2>4, <3>3, <4>1 DEF Ordered, Before
      <3> QED BY <3>1, <3>2, <3>3
    <2>6. \A d \in Callers : call'[d].at # "write"
      BY <2>1, OthersOut DEF HeldStages
    <2> QED BY <2>1, <2>5, <2>6 DEF Ordered, Before
  <1> QED BY <1>1, <1>2

(* Readers, emissions and the processes themselves leave the calls alone   *)
(* and give no prompts; only a process that runs can change its stage, and *)
(* none comes back to life.                                                *)
LEMMA ReadMild ==
  ASSUME Inv, NEW r \in Readers, Read(r)
  PROVE  SameGiven /\ SameStages /\ UNCHANGED <<api, call, calls, active, turn>>
  <1>1. UNCHANGED <<api, call, calls, active, turn>>
    BY DEF Read, Load, ReadOut, ReadErr, EmitTurnEnd, StartDiff, EmitDiff, Resume, ReaderEnds,
           callVars, bindVars, turnVars
  <1>2. child \in [Spawns -> Process]
    BY DEF Inv, TypeInv, TypeOK
  <1>3. CASE child' = [child EXCEPT ![reader[r].from].out = Tail(@)]
    <2>1. ASSUME NEW k \in Spawns
          PROVE  child'[k].given = child[k].given /\ child'[k].at = child[k].at
      BY <1>2, <1>3 DEF Process
    <2> QED BY <1>1, <2>1 DEF SameGiven, SameStages
  <1>4. CASE child' = [child EXCEPT ![reader[r].from].err = Tail(@)]
    <2>1. ASSUME NEW k \in Spawns
          PROVE  child'[k].given = child[k].given /\ child'[k].at = child[k].at
      BY <1>2, <1>4 DEF Process
    <2> QED BY <1>1, <2>1 DEF SameGiven, SameStages
  <1>5. CASE child' = child
    BY <1>1, <1>5 DEF SameGiven, SameStages
  <1> QED BY <1>3, <1>4, <1>5
          DEF Read, Load, ReadOut, ReadErr, EmitTurnEnd, StartDiff, EmitDiff, Resume, ReaderEnds

LEMMA RunMild ==
  ASSUME Inv, NEW j \in Spawns, Run(j)
  PROVE  /\ SameGiven /\ UNCHANGED <<api, call, calls, active, turn>>
         /\ \A k \in Spawns \ {j} : child'[k].at = child[k].at
         /\ child[j].at \notin {"none", "exited"}
  <1>1. UNCHANGED <<api, call, calls, active, turn>>
    BY DEF Run, Boot, TakePrompt, Say, Finish, Exit, ProcessOnly, callVars, bindVars, turnVars
  <1>2. child \in [Spawns -> Process]
    BY DEF Inv, TypeInv, TypeOK
  <1>3. child[j].at \notin {"none", "exited"}
    BY DEF Run, Boot, TakePrompt, Say, Finish, Exit, Alive
  <1>4. ASSUME NEW k \in Spawns
        PROVE  child'[k].given = child[k].given /\ (k # j => child'[k].at = child[k].at)
    <2>1. child[k] \in Process
      BY <1>2
    <2>2. CASE Boot(j)
      BY <1>2, <2>1, <2>2 DEF Boot, Process
    <2>3. CASE TakePrompt(j)
      BY <1>2, <2>1, <2>3 DEF TakePrompt, Process
    <2>4. CASE Say(j)
      BY <1>2, <2>1, <2>4 DEF Say, Process
    <2>5. CASE Finish(j)
      BY <1>2, <2>1, <2>5 DEF Finish, Process
    <2>6. CASE Exit(j)
      BY <1>2, <2>1, <2>6 DEF Exit, Process
    <2> QED BY <2>2, <2>3, <2>4, <2>5, <2>6 DEF Run
  <1> QED BY <1>1, <1>3, <1>4 DEF SameGiven

LEMMA EmitMild ==
  ASSUME NEW t \in Threads, Emit(t)
  PROVE  SameGiven /\ SameStages /\ UNCHANGED <<api, call, calls, active, turn>>
  BY DEF Emit, CheckEmit, AppendEmit, SameGiven, SameStages, callVars, bindVars, turnVars

LEMMA OrderedNext == Inv /\ Ordered /\ [Next]_vars => Ordered'
  <1> SUFFICES ASSUME Inv, Ordered, [Next]_vars PROVE Ordered'
    OBVIOUS
  <1>1. CASE UNCHANGED vars
    BY <1>1 DEF vars, callVars, turnVars, Ordered
  <1>2. ASSUME NEW c \in Callers, Begin(c) \/ Proceed(c) PROVE Ordered'
    BY <1>2, BeginOrdered, ProceedOrdered, WriteOrdered
  <1>3. ASSUME NEW r \in Readers, Read(r) PROVE Ordered'
    BY <1>3, ReadMild, OrderedStays
  <1>4. ASSUME NEW t \in Threads, Emit(t) PROVE Ordered'
    BY <1>4, EmitMild, OrderedStays
  <1>5. ASSUME NEW j \in Spawns, Run(j) PROVE Ordered'
    BY <1>5, RunMild, OrderedStays
  <1> QED BY <1>1, <1>2, <1>3, <1>4, <1>5 DEF Next

-----------------------------------------------------------------------------
(* Every step is one of the agent or a stutter.                            *)

AgentStep == [Agent!Next]_(Agent!agentVars)

(* A step that gives no prompt, starts and ends no process: at most        *)
(* api_mu changes hands.                                                   *)
LEMMA HandsOver ==
  ASSUME SameGiven, SameStages, active' = active, NEW c \in Callers,
         api' = api \/ (api = None /\ api' = c) \/ (api = c /\ api' = None)
  PROVE  AgentStep
  <1>1. Told' = Told
    BY ToldStays
  <1>2. {k \in Spawns : Alive(k)}' = {k \in Spawns : Alive(k)}
    BY DEF SameStages, Alive
  <1>3. CASE api' = api
    BY <1>1, <1>2, <1>3 DEF AgentStep, Agent!agentVars
  <1>4. CASE api = None /\ api' = c
    <2>1. Agent!Take(c)
      BY <1>1, <1>2, <1>4 DEF Agent!Take
    <2> QED BY <2>1 DEF AgentStep, Agent!Next
  <1>5. CASE api = c /\ api' = None
    <2>1. Agent!Give(c)
      BY <1>1, <1>2, <1>5 DEF Agent!Give
    <2> QED BY <2>1 DEF AgentStep, Agent!Next
  <1> QED BY <1>3, <1>4, <1>5

(* A step that changes one process, and not back to life. *)
LEMMA MayDie ==
  ASSUME SameGiven, UNCHANGED <<api, active>>, NEW j \in Spawns,
         \A k \in Spawns \ {j} : child'[k].at = child[k].at,
         child[j].at \in {"none", "exited"} => child'[j].at \in {"none", "exited"}
  PROVE  AgentStep
  <1> DEFINE L == {k \in Spawns : Alive(k)}
  <1>1. Told' = Told
    BY ToldStays
  <1>2. L' = L \/ (j \in L /\ L' = L \ {j})
    BY DEF Alive
  <1>3. CASE L' = L
    BY <1>1, <1>3 DEF AgentStep, Agent!agentVars
  <1>4. CASE j \in L /\ L' = L \ {j}
    <2>1. Agent!Die(j)
      BY <1>1, <1>4 DEF Agent!Die
    <2> QED BY <2>1 DEF AgentStep, Agent!Next
  <1> QED BY <1>2, <1>3, <1>4

LEMMA NoneLives ==
  ASSUME Inv, pid = 0
  PROVE  {k \in Spawns : Alive(k)} = {}
  BY DEF Inv, Binding, OnlyChild, Spawns

LEMMA BeginStep ==
  ASSUME Inv, NEW c \in Callers, Begin(c)
  PROVE  AgentStep
  <1>1. SameGiven /\ SameStages
    BY DEF SameGiven, SameStages, Begin, Activate, SwitchTo, ResetStart, Submit, Abort
  <1>2. active' = active
    BY DEF Begin, Activate, SwitchTo, ResetStart, Submit, Abort, bindVars
  <1>3. api' = api \/ (api = None /\ api' = c)
    BY DEF Begin, Activate, SwitchTo, ResetStart, Submit, Abort, Enter
  <1> QED BY <1>1, <1>2, <1>3, HandsOver

LEMMA BindStep ==
  ASSUME Inv, NEW c \in Callers, Bind(c) \/ BindFails(c)
  PROVE  AgentStep
  <1> DEFINE w == call[c].ws
             L == {k \in Spawns : Alive(k)}
  <1>1. call[c].at = "bind" /\ active' = w /\ api' = api
    BY DEF Bind, BindFails, BindTo, At
  <1>2. w \in Workspaces
    BY <1>1 DEF Inv, TypeInv, Presence, CallsPlaced
  <1>3. api = c /\ L = {}
    BY <1>1, NoneLives DEF Inv, Locking, HeldStages, Binding, CallsBound
  <1>4. SameGiven
    <2>1. CASE Bind(c)
      BY <2>1, BindGivesNone
    <2>2. CASE BindFails(c)
      BY <2>2 DEF BindFails, SameGiven
    <2> QED BY <2>1, <2>2
  <1>5. Told' = Told
    BY <1>4, ToldStays
  <1>6. L' = {} \/ \E k \in Spawns : Agent!Unused(k) /\ L' = {k}
    <2>1. CASE BindFails(c)
      BY <1>3, <2>1 DEF BindFails, Alive
    <2>2. CASE Bind(c)
      <3> DEFINE k == spawns + 1
      <3>1. k \in Spawns /\ k > spawns
        <4>1. spawns \in 0 .. MaxSpawns /\ spawns < MaxSpawns
          BY <2>2 DEF Bind, Inv, TypeInv, TypeOK
        <4>2. MaxSpawns \in Nat
          OBVIOUS
        <4> HIDE DEF L, w
        <4> QED BY <4>1, <4>2 DEF Spawns
      <3>2. child[k].given = <<>>
        BY <3>1 DEF Inv, TypeInv, Presence, ChildrenPlaced, ProcessPlaced
      <3>3. child'[k].at = "booting" /\ \A i \in Spawns \ {k} : child'[i] = child[i]
        <4>1. child \in [Spawns -> Process] /\ child[k] \in Process
          BY <3>1 DEF Inv, TypeInv, TypeOK
        <4>2. child' = [child EXCEPT ![k].at = "booting", ![k].ws = w,
                                     ![k].context = ContextOf(w)]
          BY <2>2 DEF Bind
        <4> HIDE DEF k, w
        <4> QED BY <3>1, <4>1, <4>2 DEF Process
      <3> HIDE DEF k
      <3>4. L' = {k}
        BY <1>3, <3>1, <3>3 DEF Alive
      <3>5. Agent!Unused(k)
        <4>1. ASSUME NEW p \in Told PROVE p.to # k
          <5>1. PICK j \in Spawns : \E i \in 1 .. Len(child[j].given) :
                  p = [to |-> j, ws |-> child[j].given[i].ws, turn |-> child[j].given[i].turn]
            BY ToldElim
          <5> QED BY <3>2, <5>1
        <4> QED BY <4>1 DEF Agent!Unused
      <3> QED BY <3>1, <3>4, <3>5
    <2> QED BY <2>1, <2>2
  <1> HIDE DEF w
  <1>7. Agent!Bind(c, w)
    BY <1>1, <1>3, <1>5, <1>6 DEF Agent!Bind
  <1> QED BY <1>2, <1>7 DEF AgentStep, Agent!Next

LEMMA WriteStep ==
  ASSUME Inv, Ordered, NEW c \in Callers, WritePrompt(c)
  PROVE  AgentStep
  <1>1. CASE SameGiven
    BY <1>1, WriteGives, HandsOver
  <1>2. CASE ~ SameGiven
    <2> DEFINE p == [ws |-> active, turn |-> turn, resumed |-> call[c].resumed]
               L == {k \in Spawns : Alive(k)}
               new == [to |-> pid, ws |-> active, turn |-> turn]
    <2>1. /\ call[c].at = "write" /\ api = c /\ pid \in Spawns /\ Alive(pid)
          /\ UNCHANGED <<api, active>> /\ SameStages
          /\ \A k \in Spawns \ {pid} : child'[k].given = child[k].given
          /\ child'[pid].given = Append(child[pid].given, p)
      BY <1>2, WriteGives
    <2>2. p \in Prompt /\ p.turn = turn /\ p.ws = active
      BY <2>1, PromptMade
    <2> HIDE DEF p
    <2>3. /\ Len(child[pid].given) \in Nat
          /\ Len(child'[pid].given) = Len(child[pid].given) + 1
          /\ child'[pid].given[Len(child'[pid].given)] = p
          /\ \A i \in 1 .. Len(child[pid].given) : child'[pid].given[i] = child[pid].given[i]
      BY <2>1, <2>2, GivenGrows
    <2>4. L' = L /\ pid \in L
      BY <2>1 DEF SameStages, Alive
    <2>5. turn \in 1 .. MaxCalls /\ \A q \in Told : q.turn < turn
      <3>1. turn \in Nat /\ calls \in 0 .. MaxCalls /\ turn <= calls /\ turn >= 1
        BY <2>1 DEF Inv, TypeInv, TypeOK, Ordered
      <3>2. Before(child, turn)
        BY <2>1 DEF Ordered
      <3>3. turn \in 1 .. MaxCalls
        <4>1. MaxCalls \in Nat
          OBVIOUS
        <4> HIDE DEF L, new
        <4> QED BY <3>1, <4>1
      <3>4. ASSUME NEW q \in Told PROVE q.turn < turn
        BY <3>2, TurnsTold
      <3> QED BY <3>3, <3>4
    <2>6. Told' = Told \cup {new}
      <3> SUFFICES ASSUME NEW x PROVE x \in Told' <=> x \in Told \/ x = new
        OBVIOUS
      <3>1. ASSUME x \in Told PROVE x \in Told'
        <4>1. PICK k \in Spawns : \E i \in 1 .. Len(child[k].given) :
                x = [to |-> k, ws |-> child[k].given[i].ws, turn |-> child[k].given[i].turn]
          BY <3>1, ToldElim
        <4>2. PICK i \in 1 .. Len(child[k].given) :
                x = [to |-> k, ws |-> child[k].given[i].ws, turn |-> child[k].given[i].turn]
          BY <4>1
        <4>3. i \in 1 .. Len(child'[k].given) /\ child'[k].given[i] = child[k].given[i]
          <5>1. CASE k = pid
            BY <2>3, <5>1
          <5>2. CASE k # pid
            BY <2>1, <5>2
          <5> QED BY <5>1, <5>2
        <4> QED BY <4>2, <4>3, ToldElimNext
      <3>2. ASSUME x = new PROVE x \in Told'
        <4> DEFINE i == Len(child'[pid].given)
        <4>1. i \in 1 .. Len(child'[pid].given)
          BY <2>3
        <4>2. x = [to |-> pid, ws |-> child'[pid].given[i].ws, turn |-> child'[pid].given[i].turn]
          BY <2>2, <2>3, <3>2
        <4> QED BY <2>1, <4>1, <4>2, ToldElimNext
      <3>3. ASSUME x \in Told' PROVE x \in Told \/ x = new
        <4>1. PICK k \in Spawns : \E i \in 1 .. Len(child'[k].given) :
                x = [to |-> k, ws |-> child'[k].given[i].ws, turn |-> child'[k].given[i].turn]
          BY <3>3, ToldElimNext
        <4>2. PICK i \in 1 .. Len(child'[k].given) :
                x = [to |-> k, ws |-> child'[k].given[i].ws, turn |-> child'[k].given[i].turn]
          BY <4>1
        <4>3. CASE k = pid /\ i = Len(child'[pid].given)
          BY <2>2, <2>3, <4>2, <4>3
        <4>4. CASE ~ (k = pid /\ i = Len(child'[pid].given))
          <5>1. i \in 1 .. Len(child[k].given) /\ child'[k].given[i] = child[k].given[i]
            <6>1. CASE k = pid
              BY <2>3, <4>4, <6>1
            <6>2. CASE k # pid
              BY <2>1, <6>2
            <6> QED BY <6>1, <6>2
          <5> QED BY <4>2, <5>1, ToldElim
        <4> QED BY <4>3, <4>4
      <3> QED BY <3>1, <3>2, <3>3
    <2>7. Agent!Tell(c, turn)
      BY <2>1, <2>4, <2>5, <2>6 DEF Agent!Tell
    <2> QED BY <2>5, <2>7 DEF AgentStep, Agent!Next
  <1> QED BY <1>1, <1>2

LEMMA ProceedStep ==
  ASSUME Inv, Ordered, NEW c \in Callers, Proceed(c)
  PROVE  AgentStep
  <1>1. CASE Reap(c)
    <2>1. child \in [Spawns -> Process] /\ UNCHANGED <<api, active>>
      BY <1>1 DEF Reap, bindVars, Inv, TypeInv, TypeOK
    <2>2. pid \in Spawns
      BY <1>1 DEF Reap, At, Inv, TypeInv, TypeOK, Spawns, Binding, CallsBound
    <2>3. child' = [child EXCEPT ![pid].at = "exited"]
      BY <1>1 DEF Reap
    <2>4. /\ SameGiven /\ child'[pid].at = "exited"
          /\ \A k \in Spawns \ {pid} : child'[k].at = child[k].at
      BY <2>1, <2>2, <2>3 DEF SameGiven, Process
    <2> QED BY <2>1, <2>2, <2>4, MayDie
  <1>2. CASE Reactivate(c) \/ AlreadyActive(c) \/ CloseIo(c) \/ Drained(c) \/ Wipe(c) \/ Return(c)
    <2>1. SameGiven /\ SameStages /\ active' = active
      BY <1>2 DEF SameGiven, SameStages, Reactivate, SwitchTo, AlreadyActive, CloseIo, Drained,
                  Wipe, Return, bindVars
    <2>2. api' = api \/ (api = None /\ api' = c) \/ (api = c /\ api' = None)
      BY <1>2 DEF Reactivate, SwitchTo, Enter, AlreadyActive, CloseIo, Drained, Wipe, Return, At,
                  Inv, Locking, HeldStages
    <2> QED BY <2>1, <2>2, HandsOver
  <1> QED BY <1>1, <1>2, BindStep, WriteStep DEF Proceed

LEMMA NextStep == Inv /\ Ordered /\ [Next]_vars => AgentStep
  <1> SUFFICES ASSUME Inv, Ordered, [Next]_vars PROVE AgentStep
    OBVIOUS
  <1>1. CASE UNCHANGED vars
    <2>1. UNCHANGED <<api, active, child>>
      BY <1>1 DEF vars, callVars, bindVars
    <2>2. Told' = Told /\ {k \in Spawns : Alive(k)}' = {k \in Spawns : Alive(k)}
      BY <2>1, ToldStays DEF SameGiven, Alive
    <2> QED BY <2>1, <2>2 DEF AgentStep, Agent!agentVars
  <1>2. ASSUME NEW c \in Callers, Begin(c) \/ Proceed(c) PROVE AgentStep
    BY <1>2, BeginStep, ProceedStep
  <1>3. ASSUME SameGiven, SameStages, UNCHANGED <<api, active>> PROVE AgentStep
    <2>1. Told' = Told /\ {k \in Spawns : Alive(k)}' = {k \in Spawns : Alive(k)}
      BY <1>3, ToldStays DEF SameStages, Alive
    <2> QED BY <1>3, <2>1 DEF AgentStep, Agent!agentVars
  <1>4. ASSUME NEW r \in Readers, Read(r) PROVE AgentStep
    BY <1>3, <1>4, ReadMild
  <1>5. ASSUME NEW t \in Threads, Emit(t) PROVE AgentStep
    BY <1>3, <1>5, EmitMild
  <1>6. ASSUME NEW j \in Spawns, Run(j) PROVE AgentStep
    BY <1>6, RunMild, MayDie
  <1> QED BY <1>1, <1>2, <1>4, <1>5, <1>6 DEF Next

(* The supervisor is one agent with one process at most: it is bound anew  *)
(* only when no process is left, and each prompt is given once, in the     *)
(* order of the turns, to the process of the workspace it is then bound    *)
(* to; however calls, crashes, failed spawns and readers interleave.       *)
THEOREM Refinement == Spec => KeepsAgent
  <1>1. Init => Agent!Init
    <2> SUFFICES ASSUME Init PROVE Agent!Init
      OBVIOUS
    <2>1. {k \in Spawns : Alive(k)} = {}
      BY DEF Init, Alive
    <2>2. Told = {}
      <3>1. ASSUME NEW x \in Told PROVE FALSE
        BY ToldElim DEF Init
      <3> QED BY <3>1
    <2> QED BY <2>1, <2>2 DEF Init, Agent!Init
  <1>2. Inv /\ Ordered /\ [Next]_vars => [Agent!Next]_(Agent!agentVars)
    BY NextStep DEF AgentStep
  <1>3. Spec => []Ordered
    BY OrderedInit, OrderedNext, InvAlways, PTL DEF Spec
  <1> QED BY <1>1, <1>2, <1>3, InvAlways, PTL DEF Spec, KeepsAgent, Agent!Spec

=============================================================================
