-------------------------------- MODULE Server --------------------------------
(***************************************************************************)
(* The HTTP server: one detached thread per connection, each running one   *)
(* handler against the workspace store and the agent they all share        *)
(* (src/src/handlers.c, src/src/pinback.c), and what the handlers call in  *)
(* src/src/workspace.c and src/src/agent.c as far as threads see it.       *)
(*                                                                         *)
(* A step is what a thread does under one lock.  The store's operations    *)
(* are one step each: WorkspaceStore has what happens inside them.  The    *)
(* agent is reduced to the workspace it is bound to and whether it has a   *)
(* child, its pipes and reader threads are in AgentSupervisor.  An event   *)
(* log is a handle, with an identity of its own every time it is opened;   *)
(* what is done through it is in EventLog and EventStream.                 *)
(*                                                                         *)
(* Requests that only read the store or the agent under one lock           *)
(* (/api/runtime, /readyz, /metrics, static files, GET of a workspace or   *)
(* of the list) change nothing and are left out.                           *)
(***************************************************************************)
EXTENDS Naturals, FiniteSets

CONSTANTS
  Ids,            (* Workspace ids, never used twice.                      *)
  Conns,          (* Connection threads.                                   *)
  Main,           (* The thread that boots and accepts.                    *)
  None,
  MaxRequests,    (* Bound: connections ever accepted.                     *)
  MaxLogs         (* Bound: handles ever opened.                           *)

ASSUME ServerAssumption ==
  /\ None \notin Ids \cup Conns \cup {Main}
  /\ Main \notin Conns
  /\ MaxRequests \in Nat /\ MaxLogs \in Nat

VARIABLES
  known,          (* Ids with a record.                                    *)
  used,           (* Ids ever given out.                                   *)
  chosen,         (* active_id of the store.                               *)
  log,            (* The handle each record has, 0 for none.               *)
  logs,           (* Handles ever opened.                                  *)
  live,           (* Handles not freed yet.                                *)
  apiMu,          (* Thread that holds api_mu.                             *)
  bound,          (* active_id of the agent.                               *)
  alive,          (* child_pid > 0.                                        *)
  thread,         (* What each thread is doing.                            *)
  requests        (* Connections accepted so far.                          *)

storeVars == <<known, used, chosen, log, logs, live>>
agentVars == <<bound, alive>>
vars == <<storeVars, apiMu, agentVars, thread, requests>>

Threads == Conns \cup {Main}

Operations == {"activate", "input", "abort", "reset", "delete", "events", "revert",
               "dashboard", "create"}

(* Where a thread is.  find, open and use are the three steps of anything  *)
(* done with an event log.                                                 *)
Stages == {"idle", "boot", "dispatch", "activate", "kill", "bind", "input", "submit",
           "write", "abort", "reset", "reap", "wipe", "delete", "revert", "dashboard",
           "next", "find", "open", "use", "done"}

(* ws: the workspace it works on.  log: the handle it works with.  todo:   *)
(* the rows of the dashboard that are left.                                *)
ThreadState == [at : Stages, op : Operations \cup {None}, ws : Ids \cup {None},
                log : 0 .. MaxLogs, todo : SUBSET Ids]

Resting == [at |-> "idle", op |-> None, ws |-> None, log |-> 0, todo |-> {}]

TypeOK ==
  /\ known \subseteq used /\ used \subseteq Ids
  /\ chosen \in Ids \cup {None} /\ bound \in Ids \cup {None}
  /\ log \in [Ids -> 0 .. MaxLogs]
  /\ logs \in 0 .. MaxLogs /\ live \subseteq 1 .. logs
  /\ apiMu \in Threads \cup {None}
  /\ alive \in BOOLEAN
  /\ thread \in [Threads -> ThreadState]
  /\ requests \in 0 .. MaxRequests
  /\ \A t \in Threads : thread[t].at \in {"kill", "bind", "reap", "write"} => apiMu = t

(* The store was opened: its catalog may hold anything an earlier process  *)
(* left, of which WorkspaceStore shows that the active workspace exists.   *)
Init ==
  /\ known \in SUBSET Ids
  /\ used = known
  /\ chosen \in known \cup {None}
  /\ log = [w \in Ids |-> 0]
  /\ logs = 0 /\ live = {}
  /\ apiMu = None
  /\ bound = None /\ alive = FALSE
  /\ thread = [t \in Threads |-> IF t = Main THEN [Resting EXCEPT !.at = "boot"] ELSE Resting]
  /\ requests = 0

-----------------------------------------------------------------------------
(* Threads.                                                                *)

At(t, stage) == thread[t].at = stage
Ws(t) == thread[t].ws
Op(t) == thread[t].op

(* A thread that is done remembers no more than what it was asked for. *)
Goto(t, stage) ==
  thread' = [thread EXCEPT ![t] = IF stage = "done"
               THEN [Resting EXCEPT !.at = stage, !.op = Op(t)]
               ELSE [@ EXCEPT !.at = stage, !.log = 0]]

Lock(t) == apiMu = None /\ apiMu' = t

Holds(t) == apiMu = t

(* api_mu given back by a call that was refused with nothing done.         *)
Refuse(t) == apiMu' = None /\ Goto(t, "done")

(* An abort that keeps api_mu, for comparison. *)
DoneKeeping(t) ==
  /\ At(t, "done")
  /\ apiMu' = IF Holds(t) /\ Op(t) # "abort" THEN None ELSE apiMu
  /\ thread' = [thread EXCEPT ![t] = Resting]
  /\ UNCHANGED <<storeVars, agentVars, requests>>

(* The reply is written, the connection closed, the thread ends; the main  *)
(* thread goes on to accept connections.  A call gives api_mu back as it   *)
(* returns.                                                                *)
Done(t) ==
  /\ At(t, "done")
  /\ apiMu' = IF Holds(t) THEN None ELSE apiMu
  /\ thread' = [thread EXCEPT ![t] = Resting]
  /\ UNCHANGED <<storeVars, agentVars, requests>>

(* main, before it listens: the workspace named on the command line, found *)
(* by its path or created, or the one that was active.                     *)
Boot ==
  /\ At(Main, "boot")
  /\ \/ \E w \in Ids :
          /\ w \in known \/ w \notin used
          /\ known' = known \cup {w} /\ used' = used \cup {w}
          /\ thread' = [thread EXCEPT ![Main] =
               [Resting EXCEPT !.at = "activate", !.op = "activate", !.ws = w]]
     \/ /\ thread' = [thread EXCEPT ![Main] =
             IF chosen = None THEN Resting
             ELSE [Resting EXCEPT !.at = "activate", !.op = "activate", !.ws = chosen]]
        /\ UNCHANGED <<known, used>>
  /\ UNCHANGED <<chosen, log, logs, live, apiMu, agentVars, requests>>

(* The accept loop: a connection and a thread for it.  The id is whatever  *)
(* the client puts in the path.                                            *)
Accept(t) ==
  /\ At(Main, "idle")
  /\ t \in Conns /\ At(t, "idle")
  /\ requests < MaxRequests
  /\ requests' = requests + 1
  /\ \E op \in Operations, w \in Ids :
       thread' = [thread EXCEPT ![t] = [Resting EXCEPT !.at = "dispatch", !.op = op, !.ws = w]]
  /\ UNCHANGED <<storeVars, apiMu, agentVars>>

FirstStage(op) == IF op = "events" THEN "find" ELSE op

(* handle_ws_dispatch: the workspace is looked up, except for a DELETE.    *)
Dispatch(t) ==
  /\ At(t, "dispatch")
  /\ Op(t) \notin {"create", "dashboard"}
  /\ Goto(t, IF Ws(t) \in known \/ Op(t) = "delete" THEN FirstStage(Op(t)) ELSE "done")
  /\ UNCHANGED <<storeVars, apiMu, agentVars, requests>>

-----------------------------------------------------------------------------
(* Event logs: pin_workspace_store_event_log, and what its callers do with *)
(* the handle it returns.                                                  *)

AfterLog(t) ==
  CASE Op(t) = "input"     -> "write"
    [] Op(t) = "dashboard" -> "next"
    [] OTHER               -> "done"

(* The look under the read lock. *)
FindLog(t) ==
  /\ At(t, "find")
  /\ IF Ws(t) \notin known THEN Goto(t, AfterLog(t))
     ELSE IF log[Ws(t)] = 0 THEN Goto(t, "open")
     ELSE thread' = [thread EXCEPT ![t].at = "use", ![t].log = log[Ws(t)]]
  /\ UNCHANGED <<storeVars, apiMu, agentVars, requests>>

(* An open that trusts the look under the read lock, for comparison. *)
OpenUnchecked(w) ==
  /\ logs < MaxLogs
  /\ logs' = logs + 1 /\ live' = live \cup {logs + 1} /\ log' = [log EXCEPT ![w] = logs + 1]

(* open_event_log_locked *)
OpenOnce(w) ==
  IF log[w] # 0 THEN UNCHANGED <<log, logs, live>>
  ELSE /\ logs < MaxLogs
       /\ logs' = logs + 1 /\ live' = live \cup {logs + 1} /\ log' = [log EXCEPT ![w] = logs + 1]

(* The second look and the open, under the write lock. *)
OpenLog(t) ==
  /\ At(t, "open")
  /\ IF Ws(t) \in known
       THEN /\ OpenOnce(Ws(t))
            /\ thread' = [thread EXCEPT ![t].at = "use", ![t].log = log'[Ws(t)]]
       ELSE /\ Goto(t, AfterLog(t))
            /\ UNCHANGED <<log, logs, live>>
  /\ UNCHANGED <<known, used, chosen, apiMu, agentVars, requests>>

(* An append, a preview, or the whole life of a subscriber. *)
UseLog(t) ==
  /\ At(t, "use")
  /\ Goto(t, AfterLog(t))
  /\ UNCHANGED <<storeVars, apiMu, agentVars, requests>>

(* The close of the handle a record has, if it has one. *)
CloseLog(w) == live' = live \ {log[w]} /\ log' = [log EXCEPT ![w] = 0]

-----------------------------------------------------------------------------
(* Handlers of the store.                                                  *)

(* POST /api/w: pin_workspace_store_create. *)
CreateWs(t) ==
  /\ At(t, "dispatch") /\ Op(t) = "create"
  /\ IF Ws(t) \in used THEN UNCHANGED <<known, used>>
     ELSE known' = known \cup {Ws(t)} /\ used' = used \cup {Ws(t)}
  /\ Goto(t, "done")
  /\ UNCHANGED <<chosen, log, logs, live, apiMu, agentVars, requests>>

(* What pin_workspace_store_delete asks.  It knows nothing of the agent. *)
MayDelete(w) == w \in known /\ w # chosen

DeleteWs(t) ==
  /\ At(t, "delete")
  /\ IF MayDelete(Ws(t)) THEN known' = known \ {Ws(t)} /\ CloseLog(Ws(t))
     ELSE UNCHANGED <<known, log, live>>
  /\ Goto(t, "done")
  /\ UNCHANGED <<used, chosen, logs, apiMu, agentVars, requests>>

(* POST .../revert: the record again, the patch outside every lock, which  *)
(* may fail, and then an event.                                            *)
Revert(t) ==
  /\ At(t, "revert")
  /\ \E next \in IF Ws(t) \in known THEN {"find", "done"} ELSE {"done"} : Goto(t, next)
  /\ UNCHANGED <<storeVars, apiMu, agentVars, requests>>

(* GET /api/dashboard: the list, then each log in turn, without the lock. *)
Dashboard(t) ==
  /\ At(t, "dispatch") /\ Op(t) = "dashboard"
  /\ thread' = [thread EXCEPT ![t].at = "next", ![t].todo = known]
  /\ UNCHANGED <<storeVars, apiMu, agentVars, requests>>

NextRow(t) ==
  /\ At(t, "next")
  /\ IF thread[t].todo = {} THEN Goto(t, "done")
     ELSE LET w == CHOOSE v \in thread[t].todo : TRUE IN
            thread' = [thread EXCEPT ![t].at = "find", ![t].ws = w, ![t].todo = @ \ {w}]
  /\ UNCHANGED <<storeVars, apiMu, agentVars, requests>>

-----------------------------------------------------------------------------
(* Handlers of the agent.                                                  *)

OnIt(w) == alive /\ bound = w

(* An activation that does not serialise with the other calls, for         *)
(* comparison.                                                             *)
ActivateUnlocked(t) ==
  /\ At(t, "activate")
  /\ Goto(t, IF Ws(t) \notin known \/ OnIt(Ws(t)) THEN "done"
             ELSE IF alive THEN "kill" ELSE "bind")
  /\ UNCHANGED <<storeVars, apiMu, agentVars, requests>>

(* pin_agent_activate up to the kill. *)
Activate(t) ==
  /\ At(t, "activate")
  /\ IF Ws(t) \notin known \/ OnIt(Ws(t))
       THEN apiMu = None /\ Refuse(t)
       ELSE Lock(t) /\ Goto(t, IF alive THEN "kill" ELSE "bind")
  /\ UNCHANGED <<storeVars, agentVars, requests>>

Kill(t) ==
  /\ At(t, "kill")
  /\ alive' = FALSE
  /\ Goto(t, "bind")
  /\ UNCHANGED <<storeVars, apiMu, bound, requests>>

(* The store told only if the child runs, for comparison. *)
ChooseIfSpawned(w, ok) == chosen' = IF w \in known /\ ok THEN w ELSE chosen

(* pin_workspace_store_set_active, its result ignored. *)
Choose(w, ok) == chosen' = IF w \in known THEN w ELSE chosen

(* Bind and spawn, under mu; the state is announced if there is a child. *)
Bind(t) ==
  /\ At(t, "bind")
  /\ bound' = Ws(t)
  /\ \E ok \in BOOLEAN :
       /\ alive' = ok
       /\ Choose(Ws(t), ok)
       /\ Goto(t, IF ok THEN "find" ELSE "done")
  /\ UNCHANGED <<known, used, log, logs, live, apiMu, requests>>

(* POST .../input: is it the active workspace, by what the store says. *)
Input(t) ==
  /\ At(t, "input")
  /\ Goto(t, IF chosen = Ws(t) THEN "submit" ELSE "done")
  /\ UNCHANGED <<storeVars, apiMu, agentVars, requests>>

(* A submit that leaves the workspace to the handler, for comparison. *)
MaySubmitAny(w) == alive

MaySubmit(w) == OnIt(w)

(* pin_agent_submit: is it the workspace the agent is bound to, and then   *)
(* the event.  A busy agent refuses too.                                   *)
Submit(t) ==
  /\ At(t, "submit")
  /\ \/ MaySubmit(Ws(t)) /\ Lock(t) /\ Goto(t, "find")
     \/ apiMu = None /\ Refuse(t)
  /\ UNCHANGED <<storeVars, agentVars, requests>>

(* The write to the child's stdin. *)
Write(t) ==
  /\ At(t, "write")
  /\ Goto(t, "done")
  /\ UNCHANGED <<storeVars, apiMu, agentVars, requests>>

(* pin_agent_abort, which announces it in the workspace it is bound to. *)
Abort(t) ==
  /\ At(t, "abort")
  /\ IF alive THEN Lock(t) /\ thread' = [thread EXCEPT ![t].at = "find", ![t].ws = bound]
     ELSE apiMu = None /\ Refuse(t)
  /\ UNCHANGED <<storeVars, agentVars, requests>>

(* pin_agent_reset: the child of that workspace is killed, and api_mu      *)
(* given back.                                                             *)
Reset(t) ==
  /\ At(t, "reset")
  /\ IF OnIt(Ws(t)) THEN Lock(t) /\ Goto(t, "reap")
     ELSE apiMu = None /\ apiMu' = None /\ thread' = [thread EXCEPT ![t].at = "wipe"]
  /\ UNCHANGED <<storeVars, agentVars, requests>>

Reap(t) ==
  /\ At(t, "reap")
  /\ alive' = FALSE
  /\ apiMu' = None
  /\ thread' = [thread EXCEPT ![t].at = "wipe", ![t].op = "activate"]
  /\ UNCHANGED <<storeVars, bound, requests>>

(* pin_workspace_store_reset; after a kill, the activation. *)
Wipe(t) ==
  /\ At(t, "wipe")
  /\ IF Ws(t) \in known THEN CloseLog(Ws(t)) ELSE UNCHANGED <<log, live>>
  /\ Goto(t, IF Ws(t) \in known /\ Op(t) = "activate" THEN "activate" ELSE "done")
  /\ UNCHANGED <<known, used, chosen, logs, apiMu, agentVars, requests>>

Step(t) ==
  \/ Dispatch(t) \/ FindLog(t) \/ OpenLog(t) \/ UseLog(t)
  \/ CreateWs(t) \/ DeleteWs(t) \/ Revert(t) \/ Dashboard(t) \/ NextRow(t)
  \/ Activate(t) \/ Kill(t) \/ Bind(t) \/ Input(t) \/ Submit(t) \/ Write(t) \/ Abort(t)
  \/ Reset(t) \/ Reap(t) \/ Wipe(t) \/ Done(t)

Next == Boot \/ \E t \in Threads : Accept(t) \/ Step(t)

Spec == Init /\ [][Next]_vars

(* Threads go on.  The mutex is not fair, but only so many calls can pass  *)
(* one that waits, of those that are accepted.                             *)
FairSpec == Spec /\ WF_vars(Boot) /\ \A t \in Threads : WF_vars(Step(t))

-----------------------------------------------------------------------------
(* Properties.                                                             *)

(* The agent and the store name the same active workspace, as long as the  *)
(* agent's exists: both are set by the same step under mu, but a delete    *)
(* only asks the store and takes neither api_mu nor mu.                    *)
ActiveAgrees == bound \in known => bound = chosen

(* No step parts them, or deletes the workspace the agent is bound to: it  *)
(* works in one that is there and is shown active, unless that was gone    *)
(* before the activation came to bind it.                                  *)
BoundIsKept == [][ActiveAgrees' /\ ((bound \in known) => (bound \in known'))]_vars

(* A prompt is written to the child of the workspace in its request, though*)
(* the handler's own check is made before api_mu is taken.                 *)
PromptsReachTheirWorkspace ==
  \A t \in Threads : At(t, "write") => Holds(t) /\ bound = Ws(t)

(* The handles that are open are those of the records: two threads that    *)
(* both find a log closed do not open it twice, and none is left behind by *)
(* a delete or a reset.                                                    *)
OneHandlePerLog ==
  /\ live = {log[w] : w \in Ids} \ {0}
  /\ \A w \in Ids : log[w] # 0 => w \in known
  /\ \A v, w \in Ids : log[v] # 0 /\ log[v] = log[w] => v = w

(* Every request is answered, whatever the others do: no path keeps api_mu.*)
EveryRequestAnswered == \A t \in Threads : ~At(t, "idle") ~> At(t, "idle")

(* What src/src/workspace.h says of a handle: valid until the store is     *)
(* closed.                                                                 *)
HandlesStayValid == \A t \in Threads : At(t, "use") => thread[t].log \in live
=============================================================================
