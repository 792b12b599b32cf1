----------------------------- MODULE ServerProofs -----------------------------
(***************************************************************************)
(* Proofs about Server, for any number of workspaces, connections, requests*)
(* and handles.  The invariant says of each stage of a handler which       *)
(* request it belongs to, whether the thread holds api_mu there, and which *)
(* workspace it relies on.                                                 *)
(***************************************************************************)
EXTENDS Server, TLAPS

(* The requests that come to each stage. *)
RequestFits(s) ==
  /\ s.at = "dispatch" => s.op \in Operations /\ s.ws \in Ids
  /\ s.at \in {"activate", "kill", "bind"} => s.op = "activate"
  /\ s.at \in {"input", "submit", "write"} => s.op = "input"
  /\ s.at \in {"abort", "reset", "revert"} => s.op = s.at
  /\ s.at = "next" => s.op = "dashboard"
  /\ s.at = "reap" => s.op = "reset"
  /\ s.at = "wipe" => s.op \in {"reset", "activate"}

(* A prompt on its way to the child. *)
Submitting(s) == s.op = "input" /\ s.at \in {"find", "open", "use", "write"}

ThreadFits(t, s) ==
  /\ RequestFits(s)
  /\ s.at \in {"kill", "bind"} => s.ws \in used
  /\ s.at \in {"kill", "bind", "reap"} => apiMu = t
  /\ Submitting(s) => apiMu = t /\ bound = s.ws

ThreadsFit == \A t \in Threads : ThreadFits(t, thread[t])

BoundUsed == bound \in used \cup {None}

Inv == TypeOK /\ ThreadsFit /\ BoundUsed /\ ActiveAgrees /\ OneHandlePerLog

-----------------------------------------------------------------------------
USE ServerAssumption

LEMMA NoneApart == None \notin Ids /\ None \notin Threads
  BY DEF Threads

(* A thread goes to a stage and the others stay where they are. *)
Moved(t, stage, op, ws) ==
  /\ thread' \in [Threads -> ThreadState]
  /\ \A u \in Threads \ {t} : thread'[u] = thread[u]
  /\ thread'[t].at = stage /\ thread'[t].op = op /\ thread'[t].ws = ws

LEMMA StateFacts ==
  ASSUME TypeOK, NEW t \in Threads
  PROVE  /\ thread[t] \in ThreadState
         /\ thread[t].at \in Stages /\ thread[t].op \in Operations \cup {None}
         /\ thread[t].ws \in Ids \cup {None} /\ thread[t].log \in 0 .. MaxLogs
         /\ thread[t].todo \in SUBSET Ids
  <1>1. thread[t] \in ThreadState
    BY DEF TypeOK
  <1> QED BY <1>1 DEF ThreadState

LEMMA RestingState == Resting \in ThreadState
  <1>1. "idle" \in Stages /\ 0 \in 0 .. MaxLogs
    BY DEF Stages
  <1> QED BY <1>1 DEF Resting, ThreadState

(* One thread is given a new state. *)
LEMMA PutFacts ==
  ASSUME TypeOK, NEW t \in Threads, NEW s \in ThreadState, thread' = [thread EXCEPT ![t] = s]
  PROVE  Moved(t, s.at, s.op, s.ws)
  BY DEF TypeOK, Moved

LEMMA GotoFacts ==
  ASSUME TypeOK, NEW t \in Threads, NEW stage \in Stages, Goto(t, stage)
  PROVE  Moved(t, stage, thread[t].op, IF stage = "done" THEN None ELSE thread[t].ws)
  <1> USE StateFacts
  <1>1. CASE stage = "done"
    <2> DEFINE s == [Resting EXCEPT !.at = stage, !.op = thread[t].op]
    <2>1. s \in ThreadState /\ s.at = stage /\ s.op = thread[t].op /\ s.ws = None
      BY RestingState DEF ThreadState, Resting
    <2>2. thread' = [thread EXCEPT ![t] = s]
      BY <1>1 DEF Goto, Op
    <2> HIDE DEF s
    <2> QED BY <1>1, <2>1, <2>2 DEF TypeOK, Moved
  <1>2. CASE stage # "done"
    <2> DEFINE s == [thread[t] EXCEPT !.at = stage, !.log = 0]
    <2>1. 0 \in 0 .. MaxLogs
      OBVIOUS
    <2>2. s \in ThreadState /\ s.at = stage /\ s.op = thread[t].op /\ s.ws = thread[t].ws
      BY <2>1 DEF ThreadState
    <2>3. thread' = [thread EXCEPT ![t] = s]
      BY <1>2 DEF Goto, TypeOK
    <2> HIDE DEF s
    <2> QED BY <1>2, <2>2, <2>3 DEF TypeOK, Moved
  <1> QED BY <1>1, <1>2

(* What the steps have in common: a thread moves to a stage it fits, and   *)
(* api_mu and the workspace the agent is bound to change only under it.    *)
LEMMA InvNext ==
  ASSUME Inv, NEW t \in Threads, NEW stage, NEW op, NEW ws,
         Moved(t, stage, op, ws), ThreadFits(t, thread[t])',
         used \subseteq used', apiMu' \in Threads \cup {None},
         apiMu' = apiMu \/ apiMu \in {None, t}, bound' = bound \/ apiMu = t,
         known' \subseteq used', used' \subseteq Ids,
         chosen' \in Ids \cup {None}, log' \in [Ids -> 0 .. MaxLogs],
         logs' \in 0 .. MaxLogs, live' \subseteq 1 .. logs',
         alive' \in BOOLEAN, requests' \in 0 .. MaxRequests,
         BoundUsed', ActiveAgrees', OneHandlePerLog'
  PROVE  Inv'
  <1>1. ThreadsFit'
    <2> SUFFICES ASSUME NEW u \in Threads PROVE ThreadFits(u, thread[u])'
      BY DEF ThreadsFit
    <2>1. CASE u = t
      BY <2>1
    <2>2. CASE u # t
      <3>1. thread'[u] = thread[u] /\ ThreadFits(u, thread[u])
        BY <2>2 DEF Moved, Inv, ThreadsFit
      <3>2. apiMu = u => apiMu' = u /\ bound' = bound
        BY <2>2, NoneApart
      <3> QED BY <3>1, <3>2 DEF ThreadFits
    <2> QED BY <2>1, <2>2
  <1>2. TypeOK'
    <2>1. \A u \in Threads : thread[u]'.at \in {"kill", "bind", "reap", "write"} => apiMu' = u
      BY <1>1 DEF ThreadsFit, ThreadFits, RequestFits, Submitting
    <2>2. bound' \in Ids \cup {None}
      BY DEF BoundUsed
    <2> QED BY <2>1, <2>2 DEF TypeOK, Moved
  <1> QED BY <1>1, <1>2 DEF Inv

(* A step that leaves the store as it is. *)
LEMMA QuietNext ==
  ASSUME Inv, NEW t \in Threads, NEW stage, NEW op, NEW ws,
         Moved(t, stage, op, ws), ThreadFits(t, thread[t])',
         UNCHANGED <<storeVars, bound>>, apiMu' \in Threads \cup {None},
         apiMu' = apiMu \/ apiMu \in {None, t},
         alive' \in BOOLEAN, requests' \in 0 .. MaxRequests
  PROVE  Inv'
  <1>1. UNCHANGED <<known, used, chosen, log, logs, live, bound>>
    BY DEF storeVars
  <1>2. BoundUsed' /\ ActiveAgrees' /\ OneHandlePerLog'
    BY <1>1 DEF Inv, BoundUsed, ActiveAgrees, OneHandlePerLog
  <1>3. TypeOK
    BY DEF Inv
  <1> QED BY <1>1, <1>2, <1>3, InvNext DEF TypeOK

LEMMA InvInit == Init => Inv
  <1> SUFFICES ASSUME Init PROVE Inv
    OBVIOUS
  <1>1. \A t \in Threads : thread[t] \in ThreadState /\ thread[t].at \in {"boot", "idle"}
                           /\ thread[t].op = None
    BY RestingState DEF Init, ThreadState, Resting, Stages
  <1>2. TypeOK
    <2>1. 0 \in 0 .. MaxLogs /\ 0 \in 0 .. MaxRequests
      OBVIOUS
    <2>2. thread \in [Threads -> ThreadState]
      BY <1>1 DEF Init
    <2> QED BY <1>1, <2>1, <2>2 DEF Init, TypeOK
  <1>3. ThreadsFit
    BY <1>1 DEF ThreadsFit, ThreadFits, RequestFits, Submitting
  <1>4. BoundUsed /\ ActiveAgrees /\ OneHandlePerLog
    <2>1. bound = None /\ known \subseteq Ids /\ live = {} /\ \A w \in Ids : log[w] = 0
      BY DEF Init
    <2> QED BY <2>1, NoneApart DEF BoundUsed, ActiveAgrees, OneHandlePerLog
  <1> QED BY <1>2, <1>3, <1>4 DEF Inv

-----------------------------------------------------------------------------
(* The steps of a handler.                                                 *)

LEMMA InvFacts ==
  ASSUME Inv, NEW t \in Threads
  PROVE  /\ TypeOK /\ ThreadFits(t, thread[t]) /\ RequestFits(thread[t])
         /\ apiMu \in Threads \cup {None} /\ alive \in BOOLEAN /\ requests \in 0 .. MaxRequests
         /\ known \subseteq used /\ used \subseteq Ids
         /\ BoundUsed /\ ActiveAgrees /\ OneHandlePerLog
  BY DEF Inv, TypeOK, ThreadsFit, ThreadFits

(* A step that only goes to another stage it fits. *)
LEMMA OnlyGoto ==
  ASSUME Inv, NEW t \in Threads, NEW stage \in Stages, Goto(t, stage),
         ThreadFits(t, thread[t])', UNCHANGED <<storeVars, apiMu, agentVars, requests>>
  PROVE  Inv'
  <1>1. Moved(t, stage, thread[t].op, IF stage = "done" THEN None ELSE thread[t].ws)
    BY InvFacts, GotoFacts
  <1>2. UNCHANGED <<bound, alive>>
    BY DEF agentVars
  <1> QED BY <1>1, <1>2, InvFacts, QuietNext

LEMMA DispatchInv == ASSUME Inv, NEW t \in Threads, Dispatch(t) PROVE Inv'
  <1> DEFINE stage == IF Ws(t) \in known \/ Op(t) = "delete" THEN FirstStage(Op(t)) ELSE "done"
  <1>1. thread[t].at = "dispatch" /\ thread[t].op \in Operations
    BY InvFacts DEF Dispatch, At, RequestFits
  <1>2. thread[t].op \in {"activate", "input", "abort", "reset", "delete", "events", "revert"}
    BY <1>1 DEF Dispatch, Op, Operations
  <1>3. stage \in Stages
    BY <1>2 DEF Stages, FirstStage, Op
  <1>4. Goto(t, stage)
    BY DEF Dispatch
  <1>5. thread'[t].at = stage /\ thread'[t].op = thread[t].op
    BY <1>3, <1>4, InvFacts, GotoFacts DEF Moved
  <1>6. ThreadFits(t, thread[t])'
    <2>1. CASE stage = "done"
      BY <2>1, <1>5 DEF ThreadFits, RequestFits, Submitting
    <2>2. CASE stage = FirstStage(thread[t].op)
      BY <2>2, <1>2, <1>5 DEF ThreadFits, RequestFits, Submitting, FirstStage
    <2> QED BY <2>1, <2>2 DEF Op
  <1> HIDE DEF stage
  <1> QED BY <1>3, <1>4, <1>6, OnlyGoto DEF Dispatch

(* Where a thread goes with its log, or without it. *)
LEMMA AfterLogFits ==
  ASSUME Inv, NEW t \in Threads, thread[t].at \in {"find", "open", "use"}
  PROVE  /\ AfterLog(t) \in Stages
         /\ Goto(t, AfterLog(t)) /\ UNCHANGED <<apiMu, bound>> => ThreadFits(t, thread[t])'
  <1>1. AfterLog(t) \in {"write", "next", "done"} /\ AfterLog(t) \in Stages
    BY DEF AfterLog, Stages
  <1>2. AfterLog(t) = "write" => Submitting(thread[t])
    BY DEF AfterLog, Op, Submitting
  <1>3. AfterLog(t) = "write" => thread[t].op = "input"
    BY DEF AfterLog, Op
  <1>4. AfterLog(t) = "next" => thread[t].op = "dashboard"
    BY DEF AfterLog, Op
  <1>5. ASSUME Goto(t, AfterLog(t)), UNCHANGED <<apiMu, bound>> PROVE ThreadFits(t, thread[t])'
    <2>1. thread'[t].at = AfterLog(t) /\ thread'[t].op = thread[t].op
          /\ (AfterLog(t) # "done" => thread'[t].ws = thread[t].ws)
      BY <1>1, <1>5, InvFacts, GotoFacts DEF Moved
    <2>2. Submitting(thread[t]) => apiMu = t /\ bound = thread[t].ws
      BY InvFacts DEF ThreadFits
    <2> QED BY <1>1, <1>2, <1>3, <1>4, <1>5, <2>1, <2>2
            DEF ThreadFits, RequestFits, Submitting
  <1> QED BY <1>1, <1>5

LEMMA UseLogInv == ASSUME Inv, NEW t \in Threads, UseLog(t) PROVE Inv'
  <1>1. thread[t].at = "use" /\ Goto(t, AfterLog(t))
        /\ UNCHANGED <<storeVars, apiMu, agentVars, requests>>
    BY DEF UseLog, At
  <1>2. UNCHANGED <<apiMu, bound>>
    BY <1>1 DEF agentVars
  <1> QED BY <1>1, <1>2, AfterLogFits, OnlyGoto

LEMMA FindLogInv == ASSUME Inv, NEW t \in Threads, FindLog(t) PROVE Inv'
  <1>1. thread[t].at = "find" /\ UNCHANGED <<storeVars, apiMu, agentVars, requests>>
    BY DEF FindLog, At
  <1>2. UNCHANGED <<apiMu, bound, alive>>
    BY <1>1 DEF agentVars
  <1>3. CASE Ws(t) \notin known
    BY <1>1, <1>2, <1>3, AfterLogFits, OnlyGoto DEF FindLog
  <1>4. CASE Ws(t) \in known /\ log[Ws(t)] = 0
    <2>1. "open" \in Stages /\ Goto(t, "open")
      BY <1>4 DEF FindLog, Stages
    <2>2. thread'[t].at = "open" /\ thread'[t].op = thread[t].op /\ thread'[t].ws = thread[t].ws
      BY <2>1, InvFacts, GotoFacts DEF Moved
    <2>3. ThreadFits(t, thread[t])'
      BY <1>1, <1>2, <2>2, InvFacts DEF ThreadFits, RequestFits, Submitting
    <2> QED BY <1>1, <2>1, <2>3, OnlyGoto
  <1>5. CASE Ws(t) \in known /\ log[Ws(t)] # 0
    <2> DEFINE s == [thread[t] EXCEPT !.at = "use", !.log = log[Ws(t)]]
    <2>1. thread' = [thread EXCEPT ![t] = s]
      BY <1>5, InvFacts DEF FindLog, TypeOK
    <2>2. log[Ws(t)] \in 0 .. MaxLogs /\ "use" \in Stages
      BY <1>5, InvFacts DEF TypeOK, Stages
    <2>3. s \in ThreadState /\ s.at = "use" /\ s.op = thread[t].op /\ s.ws = thread[t].ws
      BY <2>2, InvFacts, StateFacts DEF ThreadState
    <2> HIDE DEF s
    <2>4. Moved(t, "use", thread[t].op, thread[t].ws)
      BY <2>1, <2>3, InvFacts, PutFacts
    <2>5. ThreadFits(t, thread[t])'
      BY <1>1, <1>2, <2>4, InvFacts DEF ThreadFits, RequestFits, Submitting, Moved
    <2> QED BY <1>1, <1>2, <2>4, <2>5, InvFacts, QuietNext
  <1> QED BY <1>3, <1>4, <1>5

(* open_event_log_locked, and the closing of a record's handle. *)
LEMMA OpenOnceFacts ==
  ASSUME Inv, NEW w \in known, OpenOnce(w), UNCHANGED known
  PROVE  /\ log' \in [Ids -> 0 .. MaxLogs] /\ logs' \in 0 .. MaxLogs
         /\ live' \subseteq 1 .. logs' /\ OneHandlePerLog'
  <1> USE DEF Inv, TypeOK
  <1>1. CASE log[w] # 0
    <2>1. UNCHANGED <<log, logs, live, known>>
      BY <1>1 DEF OpenOnce
    <2>2. OneHandlePerLog'
      BY <2>1 DEF OneHandlePerLog
    <2> QED BY <2>1, <2>2
  <1>2. CASE log[w] = 0
    <2>1. logs' = logs + 1 /\ live' = live \cup {logs + 1} /\ logs + 1 \in 1 .. MaxLogs
      BY <1>2 DEF OpenOnce
    <2>2. log' = [log EXCEPT ![w] = logs + 1] /\ w \in Ids
      BY <1>2 DEF OpenOnce
    <2>3. \A v \in Ids : log[v] # 0 => log[v] \in live
      BY DEF OneHandlePerLog
    <2>4. log' \in [Ids -> 0 .. MaxLogs] /\ live' \subseteq 1 .. logs'
      BY <2>1, <2>2
    <2>5. log'[w] = logs + 1 /\ \A v \in Ids \ {w} : log'[v] = log[v]
      BY <2>2
    <2>6. live' = {log'[v] : v \in Ids} \ {0}
      <3>1. live = {log[v] : v \in Ids} \ {0}
        BY DEF OneHandlePerLog
      <3>2. {log'[v] : v \in Ids} = {log[v] : v \in Ids \ {w}} \cup {logs + 1}
        BY <2>2, <2>5
      <3>3. {log[v] : v \in Ids} = {log[v] : v \in Ids \ {w}} \cup {0}
        BY <1>2, <2>2
      <3> QED BY <2>1, <3>1, <3>2, <3>3
    <2>7. \A v \in Ids : log'[v] # 0 => v \in known'
      BY <2>5 DEF OneHandlePerLog
    <2>8. \A u, v \in Ids : log'[u] # 0 /\ log'[u] = log'[v] => u = v
      BY <2>1, <2>3, <2>5 DEF OneHandlePerLog
    <2>9. OneHandlePerLog'
      BY <2>6, <2>7, <2>8 DEF OneHandlePerLog
    <2>10. logs' \in 0 .. MaxLogs
      BY <2>1
    <2> QED BY <2>4, <2>9, <2>10
  <1> QED BY <1>1, <1>2

LEMMA CloseLogFacts ==
  ASSUME Inv, NEW w \in Ids, CloseLog(w), UNCHANGED logs,
         known' = known \/ known' = known \ {w}
  PROVE  /\ log' \in [Ids -> 0 .. MaxLogs] /\ live' \subseteq 1 .. logs' /\ OneHandlePerLog'
  <1> USE DEF Inv, TypeOK
  <1>1. log' = [log EXCEPT ![w] = 0] /\ live' = live \ {log[w]}
    BY DEF CloseLog
  <1>2. log'[w] = 0 /\ \A v \in Ids \ {w} : log'[v] = log[v]
    BY <1>1
  <1>3. log' \in [Ids -> 0 .. MaxLogs] /\ live' \subseteq 1 .. logs'
    <2>1. 0 \in 0 .. MaxLogs
      OBVIOUS
    <2> QED BY <1>1, <2>1
  <1>4. \A v \in Ids \ {w} : log[v] # 0 => log[v] # log[w]
    BY DEF OneHandlePerLog
  <1>5. live' = {log'[v] : v \in Ids} \ {0}
    <2>1. live = {log[v] : v \in Ids} \ {0}
      BY DEF OneHandlePerLog
    <2>2. {log'[v] : v \in Ids} = {log[v] : v \in Ids \ {w}} \cup {0}
      BY <1>2
    <2> QED BY <1>1, <1>4, <2>1, <2>2
  <1>6. \A v \in Ids : log'[v] # 0 => v \in known'
    BY <1>2 DEF OneHandlePerLog
  <1>7. \A u, v \in Ids : log'[u] # 0 /\ log'[u] = log'[v] => u = v
    BY <1>2 DEF OneHandlePerLog
  <1> QED BY <1>3, <1>5, <1>6, <1>7 DEF OneHandlePerLog

LEMMA OpenLogInv == ASSUME Inv, NEW t \in Threads, OpenLog(t) PROVE Inv'
  <1>1. thread[t].at = "open" /\ UNCHANGED <<known, used, chosen, apiMu, agentVars, requests>>
    BY DEF OpenLog, At
  <1>2. UNCHANGED <<apiMu, bound, alive, known, used, chosen, requests>>
    BY <1>1 DEF agentVars
  <1>3. CASE Ws(t) \in known
    <2>1. OpenOnce(Ws(t)) /\ thread' = [thread EXCEPT ![t].at = "use", ![t].log = log'[Ws(t)]]
      BY <1>3 DEF OpenLog
    <2>2. /\ log' \in [Ids -> 0 .. MaxLogs] /\ logs' \in 0 .. MaxLogs
          /\ live' \subseteq 1 .. logs' /\ OneHandlePerLog'
      BY <1>2, <1>3, <2>1, OpenOnceFacts
    <2> DEFINE s == [thread[t] EXCEPT !.at = "use", !.log = log'[Ws(t)]]
    <2>3. thread' = [thread EXCEPT ![t] = s]
      BY <2>1, InvFacts DEF TypeOK
    <2>4. log'[Ws(t)] \in 0 .. MaxLogs /\ "use" \in Stages
      BY <1>3, <2>2, InvFacts DEF Stages
    <2>5. s \in ThreadState /\ s.at = "use" /\ s.op = thread[t].op /\ s.ws = thread[t].ws
      BY <2>4, InvFacts, StateFacts DEF ThreadState
    <2> HIDE DEF s
    <2>6. Moved(t, "use", thread[t].op, thread[t].ws)
      BY <2>3, <2>5, InvFacts DEF TypeOK, Moved
    <2>7. ThreadFits(t, thread[t])'
      BY <1>1, <1>2, <2>6, InvFacts DEF ThreadFits, RequestFits, Submitting, Moved
    <2>8. BoundUsed' /\ ActiveAgrees'
      BY <1>2, InvFacts DEF BoundUsed, ActiveAgrees
    <2> QED BY <1>2, <2>2, <2>6, <2>7, <2>8, InvFacts, InvNext DEF TypeOK
  <1>4. CASE Ws(t) \notin known
    <2>1. Goto(t, AfterLog(t)) /\ UNCHANGED <<log, logs, live>>
      BY <1>4 DEF OpenLog
    <2> QED BY <1>1, <1>2, <2>1, AfterLogFits, OnlyGoto DEF storeVars
  <1> QED BY <1>3, <1>4

LEMMA CreateWsInv == ASSUME Inv, NEW t \in Threads, CreateWs(t) PROVE Inv'
  <1>1. /\ Goto(t, "done") /\ "done" \in Stages
        /\ UNCHANGED <<chosen, log, logs, live, apiMu, bound, alive, requests>>
    BY DEF CreateWs, agentVars, Stages
  <1>2. Moved(t, "done", thread[t].op, None)
    BY <1>1, InvFacts, GotoFacts
  <1>3. ThreadFits(t, thread[t])'
    BY <1>2 DEF Moved, ThreadFits, RequestFits, Submitting
  <1>4. /\ used \subseteq used' /\ known \subseteq known' /\ known' \subseteq used'
        /\ bound \in known' => bound \in known
        /\ used' \subseteq Ids
    <2>1. Ws(t) \in Ids
      BY InvFacts DEF CreateWs, RequestFits, At, Ws
    <2>2. CASE Ws(t) \in used
      BY <2>2, InvFacts DEF CreateWs
    <2>3. CASE Ws(t) \notin used
      <3>1. known' = known \cup {Ws(t)} /\ used' = used \cup {Ws(t)}
        BY <2>3 DEF CreateWs
      <3>2. bound # Ws(t)
        BY <2>1, <2>3, InvFacts, NoneApart DEF BoundUsed
      <3> QED BY <2>1, <3>1, <3>2, InvFacts
    <2> QED BY <2>2, <2>3
  <1>6. BoundUsed' /\ ActiveAgrees' /\ OneHandlePerLog'
    BY <1>1, <1>4, InvFacts DEF BoundUsed, ActiveAgrees, OneHandlePerLog
  <1> QED BY <1>1, <1>2, <1>3, <1>4, <1>6, InvFacts, InvNext DEF TypeOK

LEMMA DeleteWsInv == ASSUME Inv, NEW t \in Threads, DeleteWs(t) PROVE Inv'
  <1>1. /\ Goto(t, "done") /\ "done" \in Stages
        /\ UNCHANGED <<used, chosen, logs, apiMu, bound, alive, requests>>
    BY DEF DeleteWs, agentVars, Stages
  <1>2. Moved(t, "done", thread[t].op, None)
    BY <1>1, InvFacts, GotoFacts
  <1>3. ThreadFits(t, thread[t])'
    BY <1>2 DEF Moved, ThreadFits, RequestFits, Submitting
  <1>4. CASE MayDelete(Ws(t))
    <2>1. known' = known \ {Ws(t)} /\ CloseLog(Ws(t)) /\ Ws(t) \in Ids
      BY <1>4, InvFacts DEF DeleteWs, MayDelete
    <2>2. log' \in [Ids -> 0 .. MaxLogs] /\ live' \subseteq 1 .. logs' /\ OneHandlePerLog'
      BY <1>1, <2>1, CloseLogFacts
    <2>3. BoundUsed' /\ ActiveAgrees'
      BY <1>1, <2>1, InvFacts DEF BoundUsed, ActiveAgrees
    <2> QED BY <1>1, <1>2, <1>3, <2>1, <2>2, <2>3, InvFacts, InvNext DEF TypeOK
  <1>5. CASE ~MayDelete(Ws(t))
    <2>1. UNCHANGED <<known, log, live>>
      BY <1>5 DEF DeleteWs
    <2> QED BY <1>1, <1>2, <1>3, <2>1, InvFacts, QuietNext DEF storeVars
  <1> QED BY <1>4, <1>5

LEMMA RevertInv == ASSUME Inv, NEW t \in Threads, Revert(t) PROVE Inv'
  <1>1. thread[t].op = "revert" /\ UNCHANGED <<storeVars, apiMu, agentVars, requests>>
    BY InvFacts DEF Revert, At, RequestFits
  <1>2. PICK next \in {"find", "done"} : Goto(t, next)
    BY DEF Revert
  <1>3. next \in Stages
    BY DEF Stages
  <1>4. ThreadFits(t, thread[t])'
    BY <1>1, <1>2, <1>3, InvFacts, GotoFacts DEF Moved, ThreadFits, RequestFits, Submitting
  <1> QED BY <1>1, <1>2, <1>3, <1>4, OnlyGoto

LEMMA DashboardInv == ASSUME Inv, NEW t \in Threads, Dashboard(t) PROVE Inv'
  <1> DEFINE s == [thread[t] EXCEPT !.at = "next", !.todo = known]
  <1>1. /\ thread[t].op = "dashboard"
        /\ UNCHANGED <<storeVars, apiMu, agentVars, bound, alive, requests>>
    BY DEF Dashboard, Op, agentVars
  <1>2. thread' = [thread EXCEPT ![t] = s]
    BY InvFacts DEF Dashboard, TypeOK
  <1>3. s \in ThreadState /\ s.at = "next" /\ s.op = thread[t].op /\ s.ws = thread[t].ws
    <2>1. "next" \in Stages /\ known \in SUBSET Ids
      BY InvFacts DEF Stages
    <2> QED BY <2>1, InvFacts, StateFacts DEF ThreadState
  <1> HIDE DEF s
  <1>4. Moved(t, "next", thread[t].op, thread[t].ws)
    BY <1>2, <1>3, InvFacts, PutFacts
  <1>5. ThreadFits(t, thread[t])'
    BY <1>1, <1>4 DEF Moved, ThreadFits, RequestFits, Submitting
  <1> QED BY <1>1, <1>4, <1>5, InvFacts, QuietNext

LEMMA NextRowInv == ASSUME Inv, NEW t \in Threads, NextRow(t) PROVE Inv'
  <1>1. /\ thread[t].at = "next" /\ thread[t].op = "dashboard"
        /\ UNCHANGED <<storeVars, apiMu, agentVars, bound, alive, requests>>
    BY InvFacts DEF NextRow, At, RequestFits, agentVars
  <1>2. CASE thread[t].todo = {}
    <2>1. Goto(t, "done") /\ "done" \in Stages
      BY <1>2 DEF NextRow, Stages
    <2>2. ThreadFits(t, thread[t])'
      BY <2>1, InvFacts, GotoFacts DEF Moved, ThreadFits, RequestFits, Submitting
    <2> QED BY <1>1, <2>1, <2>2, OnlyGoto
  <1>3. CASE thread[t].todo # {}
    <2> DEFINE w == CHOOSE v \in thread[t].todo : TRUE
               s == [thread[t] EXCEPT !.at = "find", !.ws = w, !.todo = @ \ {w}]
    <2>1. thread' = [thread EXCEPT ![t] = s]
      BY <1>3, InvFacts DEF NextRow, TypeOK
    <2>2. w \in Ids
      BY <1>3, InvFacts, StateFacts
    <2> HIDE DEF w
    <2>3. s \in ThreadState /\ s.at = "find" /\ s.op = thread[t].op /\ s.ws = w
      <3>1. "find" \in Stages /\ thread[t].todo \ {w} \in SUBSET Ids
        BY InvFacts, StateFacts DEF Stages
      <3> QED BY <2>2, <3>1, InvFacts, StateFacts DEF ThreadState
    <2> HIDE DEF s
    <2>4. Moved(t, "find", thread[t].op, w)
      BY <2>1, <2>3, InvFacts, PutFacts
    <2>5. ThreadFits(t, thread[t])'
      BY <1>1, <2>4 DEF Moved, ThreadFits, RequestFits, Submitting
    <2> QED BY <1>1, <2>4, <2>5, InvFacts, QuietNext
  <1> QED BY <1>2, <1>3

(* A step that leaves the store alone and takes, keeps or gives back       *)
(* api_mu as it goes to another stage it fits.                             *)
LEMMA LockedGoto ==
  ASSUME Inv, NEW t \in Threads, NEW stage \in Stages, Goto(t, stage),
         ThreadFits(t, thread[t])', UNCHANGED <<storeVars, bound, requests>>,
         apiMu' \in Threads \cup {None}, apiMu' = apiMu \/ apiMu \in {None, t},
         alive' \in BOOLEAN
  PROVE  Inv'
  <1>1. Moved(t, stage, thread[t].op, IF stage = "done" THEN None ELSE thread[t].ws)
    BY InvFacts, GotoFacts
  <1> QED BY <1>1, InvFacts, QuietNext

LEMMA RefuseInv ==
  ASSUME Inv, NEW t \in Threads, apiMu = None, Refuse(t),
         UNCHANGED <<storeVars, agentVars, requests>>
  PROVE  Inv'
  <1>1. Goto(t, "done") /\ "done" \in Stages /\ apiMu' = None /\ UNCHANGED <<bound, alive>>
    BY DEF Refuse, Stages, agentVars
  <1>2. ThreadFits(t, thread[t])'
    BY <1>1, InvFacts, GotoFacts DEF Moved, ThreadFits, RequestFits, Submitting
  <1> QED BY <1>1, <1>2, InvFacts, LockedGoto

LEMMA ActivateInv == ASSUME Inv, NEW t \in Threads, Activate(t) PROVE Inv'
  <1>1. thread[t].op = "activate" /\ UNCHANGED <<storeVars, agentVars, bound, alive, requests>>
    BY InvFacts DEF Activate, At, RequestFits, agentVars
  <1>2. CASE Ws(t) \notin known \/ OnIt(Ws(t))
    BY <1>1, <1>2, RefuseInv DEF Activate
  <1>3. CASE Ws(t) \in known /\ ~OnIt(Ws(t))
    <2> DEFINE stage == IF alive THEN "kill" ELSE "bind"
    <2>1. stage \in {"kill", "bind"} /\ stage \in Stages
      BY DEF Stages
    <2>2. Goto(t, stage) /\ apiMu = None /\ apiMu' = t
      BY <1>3 DEF Activate, Lock
    <2> HIDE DEF stage
    <2>3. Moved(t, stage, thread[t].op, thread[t].ws)
      BY <2>1, <2>2, InvFacts, GotoFacts
    <2>4. thread[t].ws \in used' /\ UNCHANGED used
      BY <1>1, <1>3, InvFacts DEF Ws, storeVars
    <2>5. ThreadFits(t, thread[t])'
      BY <1>1, <2>1, <2>2, <2>3, <2>4 DEF Moved, ThreadFits, RequestFits, Submitting
    <2> QED BY <1>1, <2>1, <2>2, <2>5, InvFacts, LockedGoto
  <1> QED BY <1>2, <1>3

LEMMA KillInv == ASSUME Inv, NEW t \in Threads, Kill(t) PROVE Inv'
  <1>1. /\ Goto(t, "bind") /\ "bind" \in Stages /\ alive' \in BOOLEAN
        /\ UNCHANGED <<storeVars, used, apiMu, bound, requests>>
    BY DEF Kill, Stages, storeVars
  <1>2. thread[t].op = "activate" /\ apiMu = t /\ thread[t].ws \in used
    BY InvFacts DEF Kill, At, ThreadFits, RequestFits
  <1>3. ThreadFits(t, thread[t])'
    BY <1>1, <1>2, InvFacts, GotoFacts DEF Moved, ThreadFits, RequestFits, Submitting
  <1> QED BY <1>1, <1>3, InvFacts, LockedGoto

LEMMA BindInv == ASSUME Inv, NEW t \in Threads, Bind(t) PROVE Inv'
  <1>1. thread[t].op = "activate" /\ apiMu = t /\ thread[t].ws \in used
    BY InvFacts DEF Bind, At, ThreadFits, RequestFits
  <1>2. bound' = thread[t].ws /\ UNCHANGED <<known, used, log, logs, live, apiMu, requests>>
    BY DEF Bind, Ws
  <1>3. PICK ok \in BOOLEAN :
          alive' = ok /\ Choose(Ws(t), ok) /\ Goto(t, IF ok THEN "find" ELSE "done")
    BY DEF Bind
  <1> DEFINE stage == IF ok THEN "find" ELSE "done"
  <1>4. stage \in {"find", "done"} /\ stage \in Stages /\ Goto(t, stage)
    BY <1>3 DEF Stages
  <1> HIDE DEF stage
  <1>5. Moved(t, stage, thread[t].op, IF stage = "done" THEN None ELSE thread[t].ws)
    BY <1>4, InvFacts, GotoFacts
  <1>6. ThreadFits(t, thread[t])'
    BY <1>1, <1>4, <1>5 DEF Moved, ThreadFits, RequestFits, Submitting
  <1>7. chosen' \in Ids \cup {None} /\ BoundUsed' /\ ActiveAgrees'
    BY <1>1, <1>2, <1>3, InvFacts DEF Choose, Ws, TypeOK, BoundUsed, ActiveAgrees
  <1>8. OneHandlePerLog'
    BY <1>2, InvFacts DEF OneHandlePerLog
  <1> QED BY <1>1, <1>2, <1>3, <1>5, <1>6, <1>7, <1>8, InvFacts, InvNext DEF TypeOK

LEMMA InputInv == ASSUME Inv, NEW t \in Threads, Input(t) PROVE Inv'
  <1> DEFINE stage == IF chosen = Ws(t) THEN "submit" ELSE "done"
  <1>1. thread[t].op = "input" /\ UNCHANGED <<storeVars, apiMu, agentVars, requests>>
    BY InvFacts DEF Input, At, RequestFits
  <1>2. stage \in {"submit", "done"} /\ stage \in Stages /\ Goto(t, stage)
    BY DEF Input, Stages
  <1> HIDE DEF stage
  <1>3. ThreadFits(t, thread[t])'
    BY <1>1, <1>2, InvFacts, GotoFacts DEF Moved, ThreadFits, RequestFits, Submitting
  <1> QED BY <1>1, <1>2, <1>3, OnlyGoto

LEMMA SubmitInv == ASSUME Inv, NEW t \in Threads, Submit(t) PROVE Inv'
  <1>1. thread[t].op = "input" /\ UNCHANGED <<storeVars, agentVars, bound, alive, requests>>
    BY InvFacts DEF Submit, At, RequestFits, agentVars
  <1>2. CASE MaySubmit(Ws(t)) /\ Lock(t) /\ Goto(t, "find")
    <2>1. bound = thread[t].ws /\ apiMu = None /\ apiMu' = t
      BY <1>2 DEF MaySubmit, OnIt, Lock, Ws
    <2>2. "find" \in Stages
      BY DEF Stages
    <2>3. ThreadFits(t, thread[t])'
      BY <1>1, <1>2, <2>1, <2>2, InvFacts, GotoFacts
         DEF Moved, ThreadFits, RequestFits, Submitting
    <2> QED BY <1>1, <1>2, <2>1, <2>2, <2>3, InvFacts, LockedGoto
  <1>3. CASE apiMu = None /\ Refuse(t)
    BY <1>1, <1>3, RefuseInv
  <1> QED BY <1>2, <1>3 DEF Submit

LEMMA WriteInv == ASSUME Inv, NEW t \in Threads, Write(t) PROVE Inv'
  <1>1. /\ Goto(t, "done") /\ "done" \in Stages
        /\ UNCHANGED <<storeVars, apiMu, agentVars, requests>>
    BY DEF Write, Stages
  <1>2. ThreadFits(t, thread[t])'
    BY <1>1, InvFacts, GotoFacts DEF Moved, ThreadFits, RequestFits, Submitting
  <1> QED BY <1>1, <1>2, OnlyGoto

LEMMA AbortInv == ASSUME Inv, NEW t \in Threads, Abort(t) PROVE Inv'
  <1>1. thread[t].op = "abort" /\ UNCHANGED <<storeVars, agentVars, bound, alive, requests>>
    BY InvFacts DEF Abort, At, RequestFits, agentVars
  <1>2. CASE alive
    <2> DEFINE s == [thread[t] EXCEPT !.at = "find", !.ws = bound]
    <2>1. thread' = [thread EXCEPT ![t] = s] /\ apiMu = None /\ apiMu' = t
      BY <1>2, InvFacts DEF Abort, Lock, TypeOK
    <2>2. s \in ThreadState /\ s.at = "find" /\ s.op = thread[t].op /\ s.ws = bound
      <3>1. "find" \in Stages /\ bound \in Ids \cup {None}
        BY InvFacts DEF Stages, TypeOK
      <3> QED BY <3>1, InvFacts, StateFacts DEF ThreadState
    <2> HIDE DEF s
    <2>3. Moved(t, "find", thread[t].op, bound)
      BY <2>1, <2>2, InvFacts, PutFacts
    <2>4. ThreadFits(t, thread[t])'
      BY <1>1, <2>3 DEF Moved, ThreadFits, RequestFits, Submitting
    <2> QED BY <1>1, <2>1, <2>3, <2>4, InvFacts, QuietNext
  <1>3. CASE ~alive
    BY <1>1, <1>3, RefuseInv DEF Abort
  <1> QED BY <1>2, <1>3

LEMMA ResetInv == ASSUME Inv, NEW t \in Threads, Reset(t) PROVE Inv'
  <1>1. thread[t].op = "reset" /\ UNCHANGED <<storeVars, agentVars, bound, alive, requests>>
    BY InvFacts DEF Reset, At, RequestFits, agentVars
  <1>2. CASE OnIt(Ws(t))
    <2>1. Goto(t, "reap") /\ "reap" \in Stages /\ apiMu = None /\ apiMu' = t
      BY <1>2 DEF Reset, Lock, Stages
    <2>2. ThreadFits(t, thread[t])'
      BY <1>1, <2>1, InvFacts, GotoFacts DEF Moved, ThreadFits, RequestFits, Submitting
    <2> QED BY <1>1, <2>1, <2>2, InvFacts, LockedGoto
  <1>3. CASE ~OnIt(Ws(t))
    <2> DEFINE s == [thread[t] EXCEPT !.at = "wipe"]
    <2>1. thread' = [thread EXCEPT ![t] = s] /\ apiMu = None /\ apiMu' = None
      BY <1>3, InvFacts DEF Reset, TypeOK
    <2>2. s \in ThreadState /\ s.at = "wipe" /\ s.op = thread[t].op /\ s.ws = thread[t].ws
      <3>1. "wipe" \in Stages
        BY DEF Stages
      <3> QED BY <3>1, InvFacts, StateFacts DEF ThreadState
    <2> HIDE DEF s
    <2>3. Moved(t, "wipe", thread[t].op, thread[t].ws)
      BY <2>1, <2>2, InvFacts, PutFacts
    <2>4. ThreadFits(t, thread[t])'
      BY <1>1, <2>3 DEF Moved, ThreadFits, RequestFits, Submitting
    <2> QED BY <1>1, <2>1, <2>3, <2>4, InvFacts, QuietNext
  <1> QED BY <1>2, <1>3

LEMMA ReapInv == ASSUME Inv, NEW t \in Threads, Reap(t) PROVE Inv'
  <1> DEFINE s == [thread[t] EXCEPT !.at = "wipe", !.op = "activate"]
  <1>1. apiMu = t /\ apiMu' = None
    BY InvFacts DEF Reap, At, ThreadFits
  <1>2. alive' \in BOOLEAN /\ UNCHANGED <<storeVars, bound, requests>>
    BY DEF Reap
  <1>3. thread' = [thread EXCEPT ![t] = s]
    BY InvFacts DEF Reap, TypeOK
  <1>4. s \in ThreadState /\ s.at = "wipe" /\ s.op = "activate" /\ s.ws = thread[t].ws
    <2>1. "wipe" \in Stages /\ "activate" \in Operations
      BY DEF Stages, Operations
    <2> QED BY <2>1, InvFacts, StateFacts DEF ThreadState
  <1> HIDE DEF s
  <1>5. Moved(t, "wipe", "activate", thread[t].ws)
    BY <1>3, <1>4, InvFacts, PutFacts
  <1>6. ThreadFits(t, thread[t])'
    BY <1>5 DEF Moved, ThreadFits, RequestFits, Submitting
  <1> QED BY <1>1, <1>2, <1>5, <1>6, InvFacts, QuietNext

LEMMA WipeInv == ASSUME Inv, NEW t \in Threads, Wipe(t) PROVE Inv'
  <1> DEFINE stage == IF Ws(t) \in known /\ Op(t) = "activate" THEN "activate" ELSE "done"
  <1>1. UNCHANGED <<known, used, chosen, logs, apiMu, agentVars, bound, alive, requests>>
    BY DEF Wipe, agentVars
  <1>2. stage \in {"activate", "done"} /\ stage \in Stages /\ Goto(t, stage)
        /\ (stage = "activate" => thread[t].op = "activate")
    BY DEF Wipe, Stages, Op
  <1> HIDE DEF stage
  <1>3. Moved(t, stage, thread[t].op, IF stage = "done" THEN None ELSE thread[t].ws)
    BY <1>2, InvFacts, GotoFacts
  <1>4. ThreadFits(t, thread[t])'
    BY <1>2, <1>3 DEF Moved, ThreadFits, RequestFits, Submitting
  <1>5. CASE Ws(t) \in known
    <2>1. CloseLog(Ws(t)) /\ Ws(t) \in Ids
      BY <1>5, InvFacts DEF Wipe
    <2>2. log' \in [Ids -> 0 .. MaxLogs] /\ live' \subseteq 1 .. logs' /\ OneHandlePerLog'
      BY <1>1, <2>1, CloseLogFacts
    <2>3. BoundUsed' /\ ActiveAgrees'
      BY <1>1, InvFacts DEF BoundUsed, ActiveAgrees
    <2> QED BY <1>1, <1>3, <1>4, <2>2, <2>3, InvFacts, InvNext DEF TypeOK
  <1>6. CASE Ws(t) \notin known
    <2>1. UNCHANGED <<log, live>>
      BY <1>6 DEF Wipe
    <2> QED BY <1>1, <1>3, <1>4, <2>1, InvFacts, QuietNext DEF storeVars
  <1> QED BY <1>5, <1>6

LEMMA DoneInv == ASSUME Inv, NEW t \in Threads, Done(t) PROVE Inv'
  <1>1. /\ thread' = [thread EXCEPT ![t] = Resting]
        /\ UNCHANGED <<storeVars, agentVars, bound, alive, requests>>
    BY DEF Done, agentVars
  <1>2. apiMu' \in {None, apiMu} /\ (apiMu' # apiMu => apiMu = t)
    BY DEF Done, Holds
  <1>3. Moved(t, "idle", None, None)
    BY <1>1, InvFacts, RestingState, PutFacts DEF Resting
  <1>4. ThreadFits(t, thread[t])'
    BY <1>3 DEF Moved, ThreadFits, RequestFits, Submitting
  <1> QED BY <1>1, <1>2, <1>3, <1>4, InvFacts, QuietNext

LEMMA AcceptInv == ASSUME Inv, NEW t \in Threads, Accept(t) PROVE Inv'
  <1>1. PICK op \in Operations, w \in Ids :
          thread' = [thread EXCEPT ![t] = [Resting EXCEPT !.at = "dispatch", !.op = op, !.ws = w]]
    BY DEF Accept
  <1> DEFINE s == [Resting EXCEPT !.at = "dispatch", !.op = op, !.ws = w]
  <1>2. s \in ThreadState /\ s.at = "dispatch" /\ s.op = op /\ s.ws = w
    BY RestingState DEF ThreadState, Resting, Stages
  <1>3. thread' = [thread EXCEPT ![t] = s]
    BY <1>1
  <1> HIDE DEF s
  <1>4. Moved(t, "dispatch", op, w)
    BY <1>2, <1>3, InvFacts, PutFacts
  <1>5. ThreadFits(t, thread[t])'
    BY <1>4 DEF Moved, ThreadFits, RequestFits, Submitting
  <1>6. requests' \in 0 .. MaxRequests
    BY InvFacts DEF Accept
  <1>7. UNCHANGED <<storeVars, apiMu, bound, alive>>
    BY DEF Accept, agentVars
  <1> QED BY <1>4, <1>5, <1>6, <1>7, InvFacts, QuietNext

LEMMA BootInv == ASSUME Inv, Boot PROVE Inv'
  <1>1. Main \in Threads /\ UNCHANGED <<chosen, log, logs, live, apiMu, bound, alive, requests>>
    BY DEF Boot, Threads, agentVars
  <1> DEFINE going(w) == [Resting EXCEPT !.at = "activate", !.op = "activate", !.ws = w]
  <1>2. ASSUME NEW w \in Ids
        PROVE  /\ going(w) \in ThreadState /\ going(w).at = "activate"
               /\ going(w).op = "activate" /\ going(w).ws = w
    BY RestingState DEF ThreadState, Resting, Stages, Operations
  <1>3. ASSUME NEW w \in Ids, w \in known \/ w \notin used,
               known' = known \cup {w}, used' = used \cup {w},
               thread' = [thread EXCEPT ![Main] = going(w)]
        PROVE  Inv'
    <2>1. Moved(Main, "activate", "activate", w)
      BY <1>1, <1>2, <1>3, InvFacts DEF TypeOK, Moved
    <2>2. ThreadFits(Main, thread[Main])'
      BY <2>1 DEF Moved, ThreadFits, RequestFits, Submitting
    <2>3. bound \in known' => bound \in known
      BY <1>1, <1>3, InvFacts, NoneApart DEF BoundUsed
    <2>4. BoundUsed' /\ ActiveAgrees'
      BY <1>1, <1>3, <2>3, InvFacts DEF BoundUsed, ActiveAgrees
    <2>5. OneHandlePerLog'
      BY <1>1, <1>3, InvFacts DEF OneHandlePerLog
    <2>6. known' \subseteq used' /\ used' \subseteq Ids /\ used \subseteq used'
      BY <1>1, <1>3, InvFacts
    <2> QED BY <1>1, <2>1, <2>2, <2>4, <2>5, <2>6, InvFacts, InvNext DEF TypeOK
  <1>4. ASSUME UNCHANGED <<known, used>>, NEW w \in Ids,
               thread' = [thread EXCEPT ![Main] = going(w)]
        PROVE  Inv'
    <2>1. Moved(Main, "activate", "activate", w)
      BY <1>1, <1>2, <1>4, InvFacts DEF TypeOK, Moved
    <2>2. ThreadFits(Main, thread[Main])'
      BY <2>1 DEF Moved, ThreadFits, RequestFits, Submitting
    <2> QED BY <1>1, <1>4, <2>1, <2>2, InvFacts, QuietNext DEF storeVars
  <1>5. ASSUME UNCHANGED <<known, used>>, thread' = [thread EXCEPT ![Main] = Resting]
        PROVE  Inv'
    <2>1. Moved(Main, "idle", None, None)
      BY <1>1, <1>5, InvFacts, RestingState, PutFacts DEF Resting
    <2>2. ThreadFits(Main, thread[Main])'
      BY <2>1 DEF Moved, ThreadFits, RequestFits, Submitting
    <2> QED BY <1>1, <1>5, <2>1, <2>2, InvFacts, QuietNext DEF storeVars
  <1>6. chosen \in Ids \cup {None}
    BY <1>1, InvFacts DEF TypeOK
  <1> HIDE DEF going
  <1>7. CASE \E w \in Ids :
               /\ w \in known \/ w \notin used
               /\ known' = known \cup {w} /\ used' = used \cup {w}
               /\ thread' = [thread EXCEPT ![Main] = going(w)]
    BY <1>3, <1>7
  <1>8. CASE /\ thread' = [thread EXCEPT ![Main] =
                  IF chosen = None THEN Resting ELSE going(chosen)]
             /\ UNCHANGED <<known, used>>
    <2>1. CASE chosen = None
      BY <1>5, <1>8, <2>1
    <2>2. CASE chosen # None
      <3>1. PICK w \in Ids : w = chosen
        BY <1>6, <2>2
      <3>2. thread' = [thread EXCEPT ![Main] = going(w)]
        BY <1>8, <2>2, <3>1
      <3> QED BY <1>4, <1>8, <3>2
    <2> QED BY <2>1, <2>2
  <1> QED BY <1>7, <1>8 DEF Boot, going

LEMMA NextInv == Inv /\ [Next]_vars => Inv'
  <1> SUFFICES ASSUME Inv, [Next]_vars PROVE Inv'
    OBVIOUS
  <1>1. CASE UNCHANGED vars
    BY <1>1 DEF vars, storeVars, agentVars, Inv, TypeOK, ThreadsFit, ThreadFits, RequestFits,
                Submitting, BoundUsed, ActiveAgrees, OneHandlePerLog
  <1>2. CASE Boot
    BY <1>2, BootInv
  <1>3. ASSUME NEW t \in Threads, Accept(t) \/ Step(t) PROVE Inv'
    BY <1>3, AcceptInv, DispatchInv, FindLogInv, OpenLogInv, UseLogInv, CreateWsInv, DeleteWsInv,
       RevertInv, DashboardInv, NextRowInv, ActivateInv, KillInv, BindInv, InputInv, SubmitInv,
       WriteInv, AbortInv, ResetInv, ReapInv, WipeInv, DoneInv DEF Step
  <1> QED BY <1>1, <1>2, <1>3 DEF Next

-----------------------------------------------------------------------------
(* Theorems.                                                               *)

LEMMA Invariant == Spec => []Inv
  BY InvInit, NextInv, PTL DEF Spec

(* Types, and that a call keeps api_mu until it has killed, spawned,       *)
(* reaped or written.                                                      *)
THEOREM TypeCorrect == Spec => []TypeOK
  <1>1. Inv => TypeOK
    BY DEF Inv
  <1> QED BY Invariant, <1>1, PTL

(* The agent and the store never name two different workspaces as active.  *)
THEOREM AgentAndStoreAgree == Spec => []ActiveAgrees
  <1>1. Inv => ActiveAgrees
    BY DEF Inv
  <1> QED BY Invariant, <1>1, PTL

(* pin_agent_submit repeats, under api_mu, the check handle_input made     *)
(* without it: a prompt reaches the child of its own workspace.            *)
THEOREM PromptsDelivered == Spec => []PromptsReachTheirWorkspace
  <1>1. ASSUME Inv, NEW t \in Threads, At(t, "write") PROVE Holds(t) /\ bound = Ws(t)
    BY <1>1, InvFacts DEF At, ThreadFits, RequestFits, Submitting, Holds, Ws
  <1>2. Inv => PromptsReachTheirWorkspace
    BY <1>1 DEF PromptsReachTheirWorkspace
  <1> QED BY Invariant, <1>2, PTL

(* pin_workspace_store_event_log looks again under the write lock: no log  *)
(* is open twice, and none is left open by a delete or a reset.            *)
THEOREM HandlesAreUnique == Spec => []OneHandlePerLog
  <1>1. Inv => OneHandlePerLog
    BY DEF Inv
  <1> QED BY Invariant, <1>1, PTL

(* pin_workspace_store_delete only asks whether the store has the workspace*)
(* as its active one, and that is enough to keep the agent's.              *)
THEOREM AgentStaysPlaced == Spec => BoundIsKept
  <1> DEFINE keeps == ActiveAgrees' /\ ((bound \in known) => (bound \in known'))
  <1>1. Inv /\ [Next]_vars => [keeps]_vars
    <2> SUFFICES ASSUME Inv, [Next]_vars, bound \in known, ~UNCHANGED vars PROVE bound \in known'
      BY NextInv DEF Inv
    <2>1. ASSUME NEW t \in Threads, DeleteWs(t) PROVE bound \in known'
      <3>1. bound = chosen
        BY InvFacts, <2>1 DEF ActiveAgrees
      <3> QED BY <2>1, <3>1 DEF DeleteWs, MayDelete
    <2>2. CASE Boot
      BY <2>2 DEF Boot
    <2>3. ASSUME NEW t \in Threads, CreateWs(t) PROVE bound \in known'
      BY <2>3 DEF CreateWs
    <2>4. ASSUME NEW t \in Threads, Accept(t) \/ Step(t), ~DeleteWs(t), ~CreateWs(t)
          PROVE  UNCHANGED known
      BY <2>4 DEF Accept, Step, Dispatch, FindLog, OpenLog, UseLog, Revert, Dashboard, NextRow,
                  Activate, Kill, Bind, Input, Submit, Write, Abort, Reset, Reap, Wipe, Done,
                  storeVars
    <2> QED BY <2>1, <2>2, <2>3, <2>4 DEF Next
  <1> QED BY Invariant, <1>1, PTL DEF Spec, BoundIsKept
=============================================================================
