--------------------------- MODULE AgentSupervisor ---------------------------
(***************************************************************************)
(* The supervisor of the one ds4-agent child, driven over plain pipes      *)
(* (src/src/agent.c, kv_resume off): activate, submit, abort and reset,    *)
(* the two reader threads of each spawn and the child process.             *)
(*                                                                         *)
(* A step is what a thread does between two points where another thread or *)
(* the child can act.  api_mu is held over several steps, mu within one.   *)
(* Calls that are refused change nothing and are left out.                 *)
(*                                                                         *)
(* A prompt is reduced to its turn and workspace, an event to what it is   *)
(* about, a pipe to the prompts, prose and markers in it, a snapshot of a  *)
(* workspace to the turn it was taken for.                                 *)
(***************************************************************************)
EXTENDS Naturals, FiniteSets, Sequences

CONSTANTS
  Workspaces,
  Callers,        (* HTTP threads.                                         *)
  None,
  Operations,     (* The calls that arrive.                                *)
  MaxSpawns,      (* Bound: children ever forked.                          *)
  MaxCalls,       (* Bound: calls ever made.                               *)
  ReadersLate     (* A reader may still be busy two seconds after the      *)
                  (* child exited, when wait_reader_threads gives up.      *)

ASSUME AgentSupervisorAssumption ==
  /\ None \notin Workspaces \cup Callers \cup Nat
  /\ Operations \subseteq {"activate", "submit", "abort", "reset"}
  /\ MaxSpawns \in Nat \ {0}
  /\ MaxCalls \in Nat
  /\ ReadersLate \in BOOLEAN

Spawns  == 1 .. MaxSpawns
Streams == {"out", "err"}
Readers == Streams \X Spawns
Threads == Callers \cup Readers

VARIABLES
  api,            (* Caller that holds api_mu.                             *)
  call,           (* The call each caller is in.                           *)
  calls,          (* Calls made so far.                                    *)
  state,
  active,         (* active_id.                                            *)
  bindGen,        (* bind_gen.                                             *)
  pid,            (* Spawn child_pid names, 0 for none.                    *)
  spawns,         (* Children forked so far.                               *)
  fd,             (* Spawn each of the pipe fields belongs to, 0 for -1.   *)
  running,        (* reader_running and err_running.                       *)
  pending,        (* pending_resume: whose log it was rendered from.       *)
  turn,           (* turns_total.                                          *)
  baseline,       (* Turn each workspace's snapshot was last taken for.    *)
  child,          (* Processes, by spawn.                                  *)
  reader,         (* Reader threads, by stream and spawn.                  *)
  em,             (* The event each thread is emitting.                    *)
  log,            (* Events in each workspace's log.                       *)
  era             (* Times each workspace's log was freed and emptied.     *)

callVars   == <<api, call, calls>>
bindVars   == <<active, bindGen, pid, spawns, fd>>
turnVars   == <<pending, turn, baseline>>
logVars    == <<log, era>>
vars == <<callVars, state, bindVars, running, turnVars, child, reader, em, logVars>>

States == {"idle", "ready", "busy", "draining", "dead"}

Kinds == {"user", "answer", "answer_end", "turn_diff",
          "agent.state", "agent.aborted", "error"}

(* about: workspace whose conversation the event belongs to.  saw: for an  *)
(* answer_end the turn of the marker that caused it, for a turn_diff the   *)
(* turn of the snapshot it was made against.                               *)
Event == [kind : Kinds, about : Workspaces, turn : Nat, saw : Nat]

(* An emission in progress: the binding snapshot it was resolved with and, *)
(* once that was checked again, the era of the log it will be appended to. *)
Emission == [event : Event, ws : Workspaces, gen : Nat, log : Nat \cup {None}]

Context == [ws : Workspaces, era : Nat]

Prompt == [ws : Workspaces, turn : Nat, resumed : Context \cup {None}]

Process == [at : {"none", "booting", "waiting", "working", "exited"},
            ws : Workspaces \cup {None}, context : Context \cup {None},
            given : Seq(Prompt), took : Nat, said : BOOLEAN,
            out : Seq(Nat), err : Seq(Nat)]

CallRecord ==
  [at : {"idle", "activate", "reap", "close", "drain", "bind", "write", "wipe", "return"},
   ws : Workspaces \cup {None}, again : BOOLEAN, resumed : Context \cup {None}]

ReaderRecord ==
  [at : {"off", "load", "read", "emitting", "ended", "ending", "diffing", "done"},
   from : 0 .. MaxSpawns, turn : Nat, saw : Nat, ws : Workspaces \cup {None}]

TypeOK ==
  /\ api \in Callers \cup {None}
  /\ call \in [Callers -> CallRecord]
  /\ calls \in 0 .. MaxCalls
  /\ state \in States
  /\ active \in Workspaces \cup {None}
  /\ bindGen \in Nat
  /\ pid \in 0 .. MaxSpawns /\ spawns \in 0 .. MaxSpawns
  /\ fd \in [{"in", "out", "err"} -> 0 .. MaxSpawns]
  /\ running \in [Streams -> BOOLEAN]
  /\ pending \in Context \cup {None}
  /\ turn \in Nat
  /\ baseline \in [Workspaces -> Nat]
  /\ child \in [Spawns -> Process]
  /\ reader \in [Readers -> ReaderRecord]
  /\ em \in [Threads -> Emission \cup {None}]
  /\ log \in [Workspaces -> Seq(Event)]
  /\ era \in [Workspaces -> Nat]

(* Turn and workspace the wrong way round, for comparison. *)
NoticeSwapped(kind, w, t, saw) == [kind |-> kind, about |-> t, turn |-> w, saw |-> saw]

Notice(kind, w, t, saw) == [kind |-> kind, about |-> w, turn |-> t, saw |-> saw]

(* The logs are new, or read back from disk with a conversation of an      *)
(* earlier process.                                                        *)
Restored(w) == Notice("user", w, 0, 0)

Init ==
  /\ api = None
  /\ call = [c \in Callers |-> [at |-> "idle", ws |-> None, again |-> FALSE,
                                resumed |-> None]]
  /\ calls = 0
  /\ state = "idle"
  /\ active = None /\ bindGen = 0
  /\ pid = 0 /\ spawns = 0
  /\ fd = [f \in {"in", "out", "err"} |-> 0]
  /\ running = [s \in Streams |-> FALSE]
  /\ pending = None
  /\ turn = 0
  /\ baseline = [w \in Workspaces |-> 0]
  /\ child = [k \in Spawns |->
       [at |-> "none", ws |-> None, context |-> None, given |-> <<>>, took |-> 0,
        said |-> FALSE, out |-> <<>>, err |-> <<>>]]
  /\ reader = [r \in Readers |->
       [at |-> "off", from |-> 0, turn |-> 0, saw |-> 0, ws |-> None]]
  /\ em = [t \in Threads |-> None]
  /\ \E restored \in BOOLEAN :
       log = [w \in Workspaces |-> IF restored THEN <<Restored(w)>> ELSE <<>>]
  /\ era = [w \in Workspaces |-> 0]

-----------------------------------------------------------------------------
(* Emission: emit_event and emit_event_snap.                               *)

(* The first step, the snapshot of the binding.  Nothing is emitted when   *)
(* no workspace was ever bound.                                            *)
Snapped(event, ws, gen) ==
  IF ws = None THEN None
  ELSE [event |-> event, ws |-> ws, gen |-> gen, log |-> None]

StartEmit(t, event) == em' = [em EXCEPT ![t] = Snapped(event, active, bindGen)]

StillBound(e) == e.gen = bindGen /\ e.ws = active

(* The log is resolved and the binding checked again; a stale event is     *)
(* dropped.  bind_gen only grows: a check that holds also held when the    *)
(* log was resolved, so the two are one step.                              *)
CheckEmit(t) ==
  /\ em[t] # None
  /\ em[t].log = None
  /\ em' = [em EXCEPT ![t] = IF StillBound(em[t])
                               THEN [em[t] EXCEPT !.log = era[em[t].ws]]
                               ELSE None]
  /\ UNCHANGED <<callVars, state, bindVars, running, turnVars, child, reader, logVars>>

(* The append.  If the log was freed since it was resolved, what is        *)
(* written goes nowhere.                                                   *)
AppendEmit(t) ==
  /\ em[t] # None
  /\ em[t].log # None
  /\ LET w == em[t].ws IN
       log' = IF em[t].log = era[w]
                THEN [log EXCEPT ![w] = Append(@, em[t].event)] ELSE log
  /\ em' = [em EXCEPT ![t] = None]
  /\ UNCHANGED <<callVars, state, bindVars, running, turnVars, child, reader, era>>

Emit(t) == CheckEmit(t) \/ AppendEmit(t)

-----------------------------------------------------------------------------
(* Calls.                                                                  *)

At(c, stage) == call[c].at = stage

Goto(c, stage, w) == call' = [call EXCEPT ![c].at = stage, ![c].ws = w]

GoOn(c, stage) == Goto(c, stage, call[c].ws)

Enter(c) == api = None /\ api' = c

Return(c) ==
  /\ At(c, "return")
  /\ em[c] = None
  /\ Goto(c, "idle", None)
  /\ api' = None
  /\ UNCHANGED <<calls, state, bindVars, running, turnVars, child, reader, em, logVars>>

(* A call arrives and gets api_mu at once: while it waits for it, it does  *)
(* nothing.                                                                *)
Arrive(c, op) ==
  /\ At(c, "idle")
  /\ op \in Operations
  /\ calls < MaxCalls
  /\ calls' = calls + 1

OnActive(w) == pid > 0 /\ active = w

(* A submit that trusts the handler's check of the workspace, for          *)
(* comparison.                                                             *)
MaySubmitAnywhere(w) == pid > 0 /\ state # "busy"

MaySubmit(w) == OnActive(w) /\ state # "busy"

(* A detachment that leaves the state as it was, for comparison. *)
DetachQuiet == UNCHANGED state /\ fd' = [fd EXCEPT !["in"] = 0]

(* kill_child, first part: stdin is detached and SIGTERM sent. *)
Detach == state' = "draining" /\ fd' = [fd EXCEPT !["in"] = 0]

(* A switch that only kills a child with a turn in flight, for comparison. *)
MustKillBusy == pid > 0 /\ state = "busy"

(* A child of another workspace has to go first. *)
MustKill == pid > 0

(* pin_agent_activate up to the kill. *)
SwitchTo(c, w) ==
  /\ ~OnActive(w)
  /\ Enter(c)
  /\ IF MustKill
       THEN Detach /\ Goto(c, "reap", w)
       ELSE UNCHANGED <<state, fd>> /\ Goto(c, "bind", w)
  /\ UNCHANGED <<active, bindGen, pid, spawns, running, turnVars, child, reader,
                 em, logVars>>

Activate(c) == Arrive(c, "activate") /\ \E w \in Workspaces : SwitchTo(c, w)

(* The activation that ends a reset.                                       *)
Reactivate(c) == At(c, "activate") /\ SwitchTo(c, call[c].ws) /\ UNCHANGED calls

(* The activation after a reset finds that another call came first. *)
AlreadyActive(c) ==
  /\ At(c, "activate")
  /\ api = None
  /\ OnActive(call[c].ws)
  /\ Goto(c, "idle", None)
  /\ UNCHANGED <<api, calls, state, bindVars, running, turnVars, child, reader, em, logVars>>

(* pin_agent_reset up to the kill.  Nothing is killed when the workspace   *)
(* is not the active one, and api_mu is released again.                    *)
ResetStart(c) ==
  \E w \in Workspaces :
    /\ Arrive(c, "reset")
    /\ IF OnActive(w)
         THEN /\ Enter(c)
              /\ Detach
              /\ call' = [call EXCEPT ![c].at = "reap", ![c].ws = w, ![c].again = TRUE]
         ELSE /\ api = None
              /\ Goto(c, "wipe", w)
              /\ UNCHANGED <<api, state, fd>>
    /\ UNCHANGED <<active, bindGen, pid, spawns, running, turnVars, child, reader,
                   em, logVars>>

(* waitpid returns, after SIGKILL if need be. *)
Reap(c) ==
  /\ At(c, "reap")
  /\ child' = [child EXCEPT ![pid].at = "exited"]
  /\ GoOn(c, "close")
  /\ UNCHANGED <<api, calls, state, bindVars, running, turnVars, reader, em, logVars>>

(* child_pid is cleared and the pipes are closed under mu. *)
CloseIo(c) ==
  /\ At(c, "close")
  /\ pid' = 0
  /\ fd' = [f \in DOMAIN fd |-> 0]
  /\ GoOn(c, "drain")
  /\ UNCHANGED <<api, calls, state, active, bindGen, spawns, running, turnVars,
                 child, reader, em, logVars>>

(* A wait that looks at stdout alone, for comparison. *)
ReadersGoneOut == ~running["out"] \/ ReadersLate

(* wait_reader_threads: both flags are down, or two seconds have passed.   *)
ReadersGone == (~running["out"] /\ ~running["err"]) \/ ReadersLate

(* Where a call goes once the child is gone: a reset releases api_mu       *)
(* before it wipes the log.                                                *)
Drained(c) ==
  /\ At(c, "drain")
  /\ ReadersGone
  /\ IF call[c].again THEN GoOn(c, "wipe") /\ api' = None
                      ELSE GoOn(c, "bind") /\ UNCHANGED api
  /\ UNCHANGED <<calls, state, bindVars, running, turnVars, child, reader, em, logVars>>

(* pin_workspace_store_reset, without api_mu: the log is freed and emptied.*)
(* A reset that killed the child goes on to activate.                      *)
Wipe(c) ==
  /\ At(c, "wipe")
  /\ LET w == call[c].ws IN
       /\ log' = [log EXCEPT ![w] = <<>>]
       /\ era' = [era EXCEPT ![w] = @ + 1]
  /\ call' = [call EXCEPT ![c] = IF call[c].again
                 THEN [@ EXCEPT !.at = "activate", !.again = FALSE]
                 ELSE [@ EXCEPT !.at = "idle", !.ws = None]]
  /\ UNCHANGED <<api, calls, state, bindVars, running, turnVars, child, reader, em>>

Conversation == {"user", "answer"}

(* build_pending_resume: a transcript of the workspace's log, if it has a  *)
(* conversation.                                                           *)
ContextOf(w) ==
  IF \E i \in 1 .. Len(log[w]) : log[w][i].kind \in Conversation
    THEN [ws |-> w, era |-> era[w]] ELSE None

(* A binding that keeps the workspace it has, for comparison. *)
BindToFirst(w) == active' = (IF active = None THEN w ELSE active) /\ bindGen' = bindGen + 1

BindTo(w) == active' = w /\ bindGen' = bindGen + 1

(* The second half of pin_agent_activate: bind and spawn under mu, stage   *)
(* the transcript, announce the state.                                     *)
Bind(c) ==
  /\ At(c, "bind")
  /\ spawns < MaxSpawns
  /\ LET w == call[c].ws
         k == spawns + 1 IN
       /\ BindTo(w)
       /\ spawns' = k
       /\ pid' = k
       /\ fd' = [f \in DOMAIN fd |-> k]
       /\ running' = [s \in Streams |-> TRUE]
       /\ reader' = [r \in Readers |->
                       IF r[2] = k THEN [reader[r] EXCEPT !.at = "load"] ELSE reader[r]]
       /\ pending' = ContextOf(w)
       /\ child' = [child EXCEPT ![k].at = "booting", ![k].ws = w,
                                 ![k].context = ContextOf(w)]
       /\ em' = [em EXCEPT ![c] = Snapped(Notice("agent.state", w, turn, 0), w, bindGen + 1)]
  /\ state' = "ready"
  /\ GoOn(c, "return")
  /\ UNCHANGED <<api, calls, turn, baseline, logVars>>

(* pipe or fork fails: the binding stays, without a child. *)
BindFails(c) ==
  /\ At(c, "bind")
  /\ BindTo(call[c].ws)
  /\ state' = "dead"
  /\ GoOn(c, "return")
  /\ UNCHANGED <<api, calls, pid, spawns, fd, running, turnVars, child, reader, em, logVars>>

(* pin_agent_submit under mu: the turn begins, its snapshot is taken, the  *)
(* staged transcript is taken over and the prompt is announced.            *)
Submit(c) ==
  \E w \in Workspaces :
    /\ Arrive(c, "submit")
    /\ MaySubmit(w)
    /\ Enter(c)
    /\ state' = "busy"
    /\ turn' = turn + 1
    /\ baseline' = [baseline EXCEPT ![active] = turn + 1]
    /\ call' = [call EXCEPT ![c].at = "write", ![c].ws = w, ![c].resumed = pending]
    /\ pending' = None
    /\ StartEmit(c, Notice("user", active, turn + 1, 0))
    /\ UNCHANGED <<bindVars, running, child, reader, logVars>>

(* The write to the child's stdin.  It fails when the child is gone. *)
WritePrompt(c) ==
  /\ At(c, "write")
  /\ em[c] = None
  /\ LET k == fd["in"] IN
       IF child[k].at # "exited"
         THEN /\ child' = [child EXCEPT ![k].given = Append(@,
                             [ws |-> call[c].ws, turn |-> turn, resumed |-> call[c].resumed])]
              /\ UNCHANGED <<state, em>>
         ELSE /\ state' = "dead"
              /\ StartEmit(c, Notice("error", active, turn, 0))
              /\ UNCHANGED child
  /\ call' = [call EXCEPT ![c].at = "return", ![c].resumed = None]
  /\ UNCHANGED <<api, calls, bindVars, running, turnVars, reader, logVars>>

(* pin_agent_abort: SIGINT; the supervisor is ready whatever it was. *)
Abort(c) ==
  /\ Arrive(c, "abort")
  /\ pid > 0
  /\ Enter(c)
  /\ state' = "ready"
  /\ StartEmit(c, Notice("agent.aborted", active, turn, 0))
  /\ Goto(c, "return", active)
  /\ UNCHANGED <<bindVars, running, turnVars, child, reader, logVars>>

Begin(c) == Activate(c) \/ ResetStart(c) \/ Submit(c) \/ Abort(c)

Proceed(c) ==
  \/ Reactivate(c) \/ AlreadyActive(c) \/ Reap(c) \/ CloseIo(c) \/ Drained(c)
  \/ Wipe(c) \/ Bind(c) \/ BindFails(c) \/ WritePrompt(c) \/ Return(c)

-----------------------------------------------------------------------------
(* Reader threads.                                                         *)

Reading(r, stage) == reader[r].at = stage

Step(r, stage) == reader' = [reader EXCEPT ![r].at = stage]

(* The loop reads the pipe field anew every time.  A field already closed  *)
(* ends the loop.                                                          *)
Load(r) ==
  /\ Reading(r, "load")
  /\ fd[r[1]] # 0
  /\ reader' = [reader EXCEPT ![r].at = "read", ![r].from = fd[r[1]]]
  /\ UNCHANGED <<callVars, state, bindVars, running, turnVars, child, em, logVars>>

(* stdout_reader: a line of prose becomes an answer, whatever the state.   *)
ReadOut(r) ==
  /\ Reading(r, "read")
  /\ r[1] = "out"
  /\ LET k == reader[r].from IN
       /\ child[k].out # <<>>
       /\ child' = [child EXCEPT ![k].out = Tail(@)]
       /\ StartEmit(r, Notice("answer", child[k].ws, Head(child[k].out), 0))
  /\ Step(r, "emitting")
  /\ UNCHANGED <<callVars, state, bindVars, running, turnVars, logVars>>

(* A marker that ends a turn whatever the state, for comparison. *)
EndsTurnAlways == TRUE

(* classifier_signal_turn_end ends a turn only when one is in flight. *)
EndsTurn == state = "busy"

(* stderr_reader: an idle marker ends the turn in flight, if there is one. *)
ReadErr(r) ==
  /\ Reading(r, "read")
  /\ r[1] = "err"
  /\ LET k == reader[r].from IN
       /\ child[k].err # <<>>
       /\ child' = [child EXCEPT ![k].err = Tail(@)]
       /\ IF EndsTurn
            THEN /\ state' = "ready"
                 /\ reader' = [reader EXCEPT ![r].at = "ended", ![r].turn = turn,
                                 ![r].saw = Head(child[k].err), ![r].ws = child[k].ws]
            ELSE /\ Step(r, "load")
                 /\ UNCHANGED state
  /\ UNCHANGED <<callVars, bindVars, running, turnVars, em, logVars>>

EmitTurnEnd(r) ==
  /\ Reading(r, "ended")
  /\ StartEmit(r, Notice("answer_end", reader[r].ws, reader[r].turn, reader[r].saw))
  /\ Step(r, "ending")
  /\ UNCHANGED <<callVars, state, bindVars, running, turnVars, child, logVars>>

(* agent_emit_turn_changes: the workspace to compare is taken from the     *)
(* binding of now ...                                                      *)
StartDiff(r) ==
  /\ Reading(r, "ending")
  /\ em[r] = None
  /\ reader' = [reader EXCEPT ![r].at = "diffing", ![r].ws = active]
  /\ UNCHANGED <<callVars, state, bindVars, running, turnVars, child, em, logVars>>

(* ... its files are compared with its last snapshot, and changes, if      *)
(* there are any, are emitted under a binding of their own.                *)
EmitDiff(r) ==
  /\ Reading(r, "diffing")
  /\ \/ StartEmit(r, Notice("turn_diff", reader[r].ws, reader[r].turn,
                            baseline[reader[r].ws]))
     \/ UNCHANGED em
  /\ Step(r, "emitting")
  /\ UNCHANGED <<callVars, state, bindVars, running, turnVars, child, logVars>>

Resume(r) ==
  /\ Reading(r, "emitting")
  /\ em[r] = None
  /\ Step(r, "load")
  /\ UNCHANGED <<callVars, state, bindVars, running, turnVars, child, em, logVars>>

(* The pipe is at its end, or its descriptor was closed. *)
PipeOver(r) ==
  \/ Reading(r, "load") /\ fd[r[1]] = 0
  \/ /\ Reading(r, "read")
     /\ LET k == reader[r].from IN
          \/ fd[r[1]] # k
          \/ child[k].at = "exited" /\ (IF r[1] = "out" THEN child[k].out ELSE child[k].err) = <<>>

(* A reader that leaves without lowering its flag, for comparison. *)
FlagsAfterLeft(s) == running

FlagsAfter(s) == [running EXCEPT ![s] = FALSE]

(* The thread leaves and lowers the flag of its stream.  The state and the *)
(* child are left as they are.                                             *)
ReaderEnds(r) ==
  /\ PipeOver(r)
  /\ Step(r, "done")
  /\ running' = FlagsAfter(r[1])
  /\ UNCHANGED <<callVars, state, bindVars, turnVars, child, em, logVars>>

Read(r) ==
  \/ Load(r) \/ ReadOut(r) \/ ReadErr(r) \/ EmitTurnEnd(r) \/ StartDiff(r)
  \/ EmitDiff(r) \/ Resume(r) \/ ReaderEnds(r)

-----------------------------------------------------------------------------
(* The ds4-agent process: external, as far as the supervisor relies on it. *)

Alive(k) == child[k].at \notin {"none", "exited"}

ProcessOnly == UNCHANGED <<callVars, state, bindVars, running, turnVars, reader, em, logVars>>

(* It writes an idle marker when it has booted ... *)
Boot(k) ==
  /\ child[k].at = "booting"
  /\ child' = [child EXCEPT ![k].at = "waiting", ![k].err = Append(@, 0)]
  /\ ProcessOnly

TakePrompt(k) ==
  /\ child[k].at = "waiting"
  /\ child[k].took < Len(child[k].given)
  /\ child' = [child EXCEPT ![k].at = "working", ![k].took = @ + 1, ![k].said = FALSE]
  /\ ProcessOnly

Current(k) == child[k].given[child[k].took].turn

Say(k) ==
  /\ child[k].at = "working"
  /\ ~child[k].said
  /\ child' = [child EXCEPT ![k].said = TRUE, ![k].out = Append(@, Current(k))]
  /\ ProcessOnly

(* ... and one after each turn. *)
Finish(k) ==
  /\ child[k].at = "working"
  /\ child' = [child EXCEPT ![k].at = "waiting", ![k].err = Append(@, Current(k))]
  /\ ProcessOnly

(* It may exit at any time. *)
Exit(k) ==
  /\ Alive(k)
  /\ child' = [child EXCEPT ![k].at = "exited"]
  /\ ProcessOnly

Run(k) == Boot(k) \/ TakePrompt(k) \/ Say(k) \/ Finish(k) \/ Exit(k)

-----------------------------------------------------------------------------
Next ==
  \/ \E c \in Callers : Begin(c) \/ Proceed(c)
  \/ \E r \in Readers : Read(r)
  \/ \E t \in Threads : Emit(t)
  \/ \E k \in Spawns : Run(k)

Spec == Init /\ [][Next]_vars

(* Threads are scheduled; nothing is asked of the child. *)
Fairness ==
  /\ \A c \in Callers : WF_vars(Proceed(c))
  /\ \A r \in Readers : WF_vars(Read(r))
  /\ \A t \in Threads : WF_vars(Emit(t))

FairSpec == Spec /\ Fairness

-----------------------------------------------------------------------------
(* Properties.                                                             *)

(* The prompts each child was ever given. *)
Told ==
  UNION {{[to |-> k, ws |-> child[k].given[i].ws, turn |-> child[k].given[i].turn] :
            i \in 1 .. Len(child[k].given)} : k \in Spawns}

Agent == INSTANCE BoundAgent WITH
  Processes <- Spawns, Turns <- 1 .. MaxCalls,
  owner <- api, bound <- active, living <- {k \in Spawns : Alive(k)}, told <- Told

(* The supervisor is one agent with one process at most (agent.h:15),      *)
(* however calls, crashes and failed spawns interleave: it is bound anew   *)
(* only when no process is left, and each prompt is given once, in order,  *)
(* to the process of the workspace it is then bound to.                    *)
KeepsAgent == Agent!Spec

(* The child the supervisor drives runs in the active workspace, the       *)
(* descriptors are its own, and no other process is left running.          *)
BindingMatchesChild ==
  /\ pid # 0 => child[pid].ws = active /\ fd["out"] = pid /\ fd["err"] = pid
  /\ \A k \in Spawns : Alive(k) => k = pid

(* A prompt only ever reaches a child of the workspace it was typed for,   *)
(* and each child is given its workspace's transcript with its first       *)
(* prompt and never again.                                                 *)
PromptsInPlace ==
  \A k \in Spawns : \A i \in 1 .. Len(child[k].given) :
    LET p == child[k].given[i] IN
      /\ p.ws = child[k].ws
      /\ p.resumed = IF i = 1 THEN child[k].context ELSE None

(* Ready and busy are only shown while there is a child to drive, and      *)
(* draining only while some call is switching or resetting.                *)
StateTellsChild ==
  /\ state \in {"ready", "busy"} => pid # 0
  /\ state = "draining" => \E c \in Callers : ~At(c, "idle")
  /\ state = "idle" => pid = 0

(* A log only holds the conversation of its own workspace, also while the  *)
(* agent is switched under its reader threads (CONCURRENCY.md, "Workspace  *)
(* binding").                                                              *)
RightLog ==
  \A w \in Workspaces : \A i \in 1 .. Len(log[w]) : log[w][i].about = w

(* No turn is ended twice: the markers of a child and an abort or a later  *)
(* prompt may cross, but each turn has one answer_end at most.             *)
TurnEndsOnce ==
  \A w \in Workspaces : \A i, j \in 1 .. Len(log[w]) :
    /\ log[w][i].kind = "answer_end" /\ log[w][j].kind = "answer_end"
    /\ log[w][i].turn = log[w][j].turn
    => i = j

(* Every call returns: no switch, reset or submit waits for ever for a     *)
(* reader, a child or another call.                                        *)
CallsReturn == \A c \in Callers : ~At(c, "idle") ~> At(c, "idle")

(* A child that crashed is noticed: the supervisor shows dead, or goes on  *)
(* to another child (agent.h:48).                                          *)
CrashNoticed ==
  \A k \in Spawns : (pid = k /\ child[k].at = "exited") ~> (pid # k \/ state = "dead")
=============================================================================
