------------------------------ MODULE KvSession ------------------------------
(***************************************************************************)
(* The KV transport of the agent (cfg.kv_resume in src/src/agent.c): the   *)
(* child runs as a terminal program, a workspace left behind is saved with *)
(* /save, a workspace come back to is restored with /switch, turn ends are *)
(* read from the status footer of the screen and the text of the answers   *)
(* from the trace file the child writes.                                   *)
(*                                                                         *)
(* The calls of the agent exclude one another (api_mu), so one call is     *)
(* under way at a time and `call' is its program counter; AgentSupervisor  *)
(* has what callers do to one another, failed spawns and children that     *)
(* die.  What a conversation holds is the set of the turns in it.          *)
(*                                                                         *)
(* The child is external: it is modelled as docs/architecture/             *)
(* transport-findings.md and tests/support/fake-kv-ds4-agent.c have it.    *)
(* It prints an idle footer before it has read its system prompt, which    *)
(* replaces whatever it had restored before, obeys one line at a time, and *)
(* writes what it saves to a cache that all workspaces share.              *)
(***************************************************************************)
EXTENDS Naturals, Sequences, FiniteSets

CONSTANTS
  Workspaces,
  None,
  MaxSpawns,      (* Bound: children ever started.                         *)
  MaxTurns,       (* Bound: prompts ever submitted.                        *)
  FaultSets       (* The sets of faults a behaviour may meet: "wait" (a    *)
                  (* deadline passes with something still to wait for),    *)
                  (* "clock" (a save in the same second as the one before),*)
                  (* "tail" (the trace reader sees the flag after the      *)
                  (* kill), "stop" (the server stops and starts again).    *)

ASSUME KvAssumption ==
  /\ None \notin Workspaces
  /\ MaxSpawns \in Nat /\ MaxTurns \in Nat
  /\ FaultSets \subseteq SUBSET {"wait", "clock", "tail", "stop"}

VARIABLES
  faults,         (* The faults of this behaviour.                         *)
  call,           (* The call under way: where it is, and its copy of      *)
                  (* meta.session_sha.                                     *)
  bound,          (* active_id                                             *)
  state,          (* state, of which only these matter here.               *)
  saw,            (* saw_turn_activity                                     *)
  booted,         (* booted                                                *)
  restored,       (* switch_restored                                       *)
  captured,       (* captured_sha, 0 if empty.                             *)
  footer,         (* What pin_vterm_status reads on the screen.            *)
  pending,        (* The turns in pending_resume.                          *)
  running,        (* trace_running                                         *)
  tails,          (* The trace readers that have not returned.             *)
  child,          (* The child, its stdin and its conversation.            *)
  out,            (* Its stdout, not read yet.                             *)
  session,        (* session_sha of each workspace, 0 if none.             *)
  cache,          (* The cache: file n is the session saved as n.          *)
  clock,          (* time(), in seconds.                                   *)
  asked,          (* The turns in the log of each workspace.               *)
  answered,       (* The answers in the log of each workspace.             *)
  turn            (* The last turn submitted.                              *)

screenVars == <<saw, booted, restored, captured, footer>>
tailVars == <<running, tails>>
diskVars == <<session, cache, clock>>
logVars == <<asked, answered>>
vars == <<faults, call, bound, state, screenVars, pending, tailVars, child, out, diskVars, logVars,
          turn>>

Turns == 1 .. MaxTurns
Shas == 0 .. MaxSpawns
NoChild == [at |-> "none", ws |-> None, knows |-> {}, inbox |-> <<>>, doing |-> 0, n |-> 0]
Line(cmd, sha, new, with) == [cmd |-> cmd, sha |-> sha, turn |-> new, with |-> with]
Shown(what) == [shows |-> what, sha |-> 0]
Ack(what, sha) == [shows |-> what, sha |-> sha]
At(stage) == call.at = stage
Alive == child.at # "none"

(* A line the child is sent, what it prints, a file of the cache, a trace  *)
(* reader, the child, the call.                                            *)
LineType == [cmd : {"save", "switch", "prompt"}, sha : Shas, turn : 0 .. MaxTurns,
             with : SUBSET Turns]

ShownType == [shows : {"idle", "busy", "echo", "saved", "history"}, sha : Shas]

FileType == [ws : Workspaces, knows : SUBSET Turns, time : 0 .. MaxSpawns]

TailType == [n : 1 .. MaxSpawns, left : SUBSET Turns, held : SUBSET Turns]

ChildType == [at : {"none", "start", "shown", "prefill", "free", "work"},
              ws : Workspaces \cup {None}, knows : SUBSET Turns, inbox : Seq(LineType),
              doing : 0 .. MaxTurns, n : 0 .. MaxSpawns]

CallType == [at : {"idle", "save", "capture", "kill", "wipe", "bind", "boot", "prefill",
                   "switch"},
             ws : Workspaces \cup {None}, sha : Shas, since : 0 .. MaxSpawns,
             busy : BOOLEAN, then : {"save", "wipe"}]

TypeOK ==
  /\ faults \in FaultSets
  /\ call \in CallType
  /\ bound \in Workspaces \cup {None}
  /\ state \in {"idle", "draining", "spawning", "ready", "busy"}
  /\ saw \in BOOLEAN /\ booted \in BOOLEAN /\ restored \in BOOLEAN /\ running \in BOOLEAN
  /\ captured \in Shas /\ footer \in {"", "idle", "busy"}
  /\ pending \subseteq Turns
  /\ tails \subseteq TailType
  /\ child \in ChildType
  /\ out \in Seq(ShownType)
  /\ session \in [Workspaces -> Shas]
  /\ cache \in Seq(FileType)
  /\ clock \in 0 .. MaxSpawns
  /\ asked \in [Workspaces -> SUBSET Turns] /\ answered \in [Workspaces -> SUBSET Turns]
  /\ turn \in 0 .. MaxTurns
  /\ state = "busy" => Alive

Resting == [at |-> "idle", ws |-> None, sha |-> 0, since |-> 0, busy |-> FALSE,
            then |-> "save"]

Init ==
  /\ faults \in FaultSets
  /\ call = Resting /\ bound = None /\ state = "idle"
  /\ saw = FALSE /\ booted = FALSE /\ restored = FALSE /\ captured = 0 /\ footer = ""
  /\ pending = {} /\ running = FALSE /\ tails = {}
  /\ child = NoChild /\ out = <<>>
  /\ session = [w \in Workspaces |-> 0] /\ cache = <<>> /\ clock = 0
  /\ asked = [w \in Workspaces |-> {}] /\ answered = [w \in Workspaces |-> {}]
  /\ turn = 0

-----------------------------------------------------------------------------
(* Calls.                                                                  *)

Send(line) == child' = [child EXCEPT !.inbox = Append(@, line)]

(* Whether a wait may end without what it waits for.  Deadlines are long:  *)
(* unless the child is slow, they pass only when it has nothing to say.    *)
ChildIsQuiet == out = <<>> /\ child.at \in {"none", "free"} /\ child.inbox = <<>>
(* A deadline that nobody set, for comparison. *)
DeadlineNever(met) == "wait" \in faults

DeadlineMayPass(met) == "wait" \in faults \/ (ChildIsQuiet /\ ~met)

(* An activation that forgets DRAINING, for comparison. *)
ActivateStillBusy(w) ==
  /\ At("idle") /\ ~(Alive /\ bound = w) /\ child.n < MaxSpawns
  /\ call' = [Resting EXCEPT !.at = IF Alive THEN "save" ELSE "bind", !.ws = w,
                             !.sha = session[w]]
  /\ UNCHANGED <<bound, state, screenVars, pending, tailVars, child, out, diskVars, logVars,
                 turn>>

(* pin_agent_activate of another workspace, up to the save. *)
Activate(w) ==
  /\ At("idle")
  /\ ~(Alive /\ bound = w)
  /\ child.n < MaxSpawns
  /\ call' = [Resting EXCEPT !.at = IF Alive THEN "save" ELSE "bind", !.ws = w,
                             !.sha = session[w]]
  /\ state' = IF Alive THEN "draining" ELSE state
  /\ UNCHANGED <<bound, screenVars, pending, tailVars, child, out, diskVars, logVars, turn>>

(* kv_save_and_capture, up to the write of /save.  Its wait for the end of *)
(* a turn sees "draining" and returns at once.  The second it starts in is *)
(* a new one, unless it comes right after the save before.                 *)
Save ==
  /\ At("save")
  /\ captured' = 0
  /\ clock < MaxSpawns
  /\ clock' \in IF "clock" \in faults THEN {clock, clock + 1} ELSE {clock + 1}
  /\ call' = [call EXCEPT !.at = "capture", !.since = clock']
  /\ Send(Line("save", 0, 0, {}))
  /\ UNCHANGED <<bound, state, saw, booted, restored, footer, pending, tailVars, out, session,
                 cache, logVars, turn>>

(* newest_saved_session without a lower bound on its time, for comparison. *)
NewestOfAll(since) ==
  {n \in 1 .. Len(cache) : \A k \in 1 .. Len(cache) : cache[k].time <= cache[n].time}

(* newest_saved_session: any of the newest, those that are not older than  *)
(* the save.                                                               *)
NewestSaved(since) ==
  {n \in 1 .. Len(cache) :
     /\ cache[n].time >= since
     /\ \A k \in 1 .. Len(cache) : cache[k].time <= cache[n].time}

(* A round of the poll that finds a file, or else an acknowledgement.      *)
Capture ==
  /\ At("capture")
  /\ \E sha \in IF NewestSaved(call.since) # {} THEN NewestSaved(call.since)
                ELSE {captured} \ {0} :
       session' = [session EXCEPT ![bound] = sha]
  /\ call' = [call EXCEPT !.at = "kill"]
  /\ UNCHANGED <<bound, state, screenVars, pending, tailVars, child, out, cache, clock,
                 logVars, turn>>

(* The poll ends with nothing: the workspace keeps the session it had.     *)
CaptureTimesOut ==
  /\ At("capture") /\ DeadlineMayPass(NewestSaved(call.since) # {} \/ captured # 0)
  /\ call' = [call EXCEPT !.at = "kill"]
  /\ UNCHANGED <<bound, state, screenVars, pending, tailVars, child, out, diskVars, logVars,
                 turn>>

(* kill_child: the trace reader is told to stop, the child goes with what  *)
(* it had not read, and what it had printed is read without effect.        *)
Kill ==
  /\ At("kill")
  /\ running' = FALSE
  /\ child' = [NoChild EXCEPT !.n = child.n]
  /\ out' = <<>>
  /\ call' = [call EXCEPT !.at = IF call.then = "wipe" THEN "wipe" ELSE "bind"]
  /\ UNCHANGED <<bound, state, screenVars, pending, tails, diskVars, logVars, turn>>

(* Nothing waits for the trace reader: trace_running is already 0 when     *)
(* wait_reader_threads looks at it.  The time the child takes to die is    *)
(* what lets it see the flag first.                                        *)
TailsGone == "tail" \in faults \/ tails = {}

(* A reset of the store that leaves the session, for comparison. *)
EraseLog(w) ==
  asked' = [asked EXCEPT ![w] = {}] /\ answered' = [answered EXCEPT ![w] = {}]
  /\ UNCHANGED session

(* pin_workspace_store_reset *)
Erase(w) ==
  /\ asked' = [asked EXCEPT ![w] = {}] /\ answered' = [answered EXCEPT ![w] = {}]
  /\ session' = [session EXCEPT ![w] = 0]

(* pin_agent_reset: without a child the log goes and nothing else happens. *)
ResetOther(w) ==
  /\ At("idle") /\ ~(Alive /\ bound = w)
  /\ asked[w] # {} \/ answered[w] # {}
  /\ Erase(w)
  /\ UNCHANGED <<call, bound, state, screenVars, pending, tailVars, child, out, cache, clock,
                 turn>>

Reset(w) ==
  /\ At("idle") /\ Alive /\ bound = w
  /\ child.n < MaxSpawns
  /\ call' = [Resting EXCEPT !.at = "kill", !.ws = w, !.then = "wipe"]
  /\ state' = "draining"
  /\ UNCHANGED <<bound, screenVars, pending, tailVars, child, out, diskVars, logVars, turn>>

(* After the kill, and then the activation of the same workspace. *)
Wipe ==
  /\ At("wipe")
  /\ TailsGone
  /\ Erase(call.ws)
  /\ call' = [call EXCEPT !.at = "bind", !.sha = session'[call.ws]]
  /\ UNCHANGED <<bound, state, screenVars, pending, tailVars, child, out, cache, clock, turn>>

(* build_pending_resume, then READY. *)
Prefill(w) == pending' = asked[w] /\ state' = "ready" /\ call' = Resting

(* Bind and spawn, in one hold of mu.  With no session to restore, the     *)
(* activation ends in the same hold.                                       *)
Bind ==
  /\ At("bind")
  /\ TailsGone
  /\ bound' = call.ws
  /\ child' = [NoChild EXCEPT !.at = "start", !.ws = call.ws, !.n = child.n + 1]
  /\ footer' = "" /\ saw' = FALSE /\ booted' = FALSE
  /\ running' = TRUE
  /\ tails' = tails \cup {[n |-> child.n + 1, left |-> {}, held |-> {}]}
  /\ IF call.sha # 0
       THEN /\ call' = [call EXCEPT !.at = "boot"]
            /\ state' = "spawning"
            /\ UNCHANGED pending
       ELSE Prefill(call.ws)
  /\ UNCHANGED <<restored, captured, out, diskVars, logVars, turn>>

(* kv_wait_boot_locked, to its end. *)
Boot ==
  /\ At("boot")
  /\ booted \/ DeadlineMayPass(FALSE)
  /\ call' = [call EXCEPT !.at = "prefill"]
  /\ UNCHANGED <<bound, state, screenVars, pending, tailVars, child, out, diskVars, logVars,
                 turn>>

(* kv_wait_prefill_idle_locked: it looks at the footer when it is woken.   *)
LookBusy ==
  /\ At("prefill") /\ ~call.busy /\ footer # "idle"
  /\ call' = [call EXCEPT !.busy = TRUE]
  /\ UNCHANGED <<bound, state, screenVars, pending, tailVars, child, out, diskVars, logVars,
                 turn>>

(* A wait that ends at the first idle footer, for comparison. *)
IdleSeen == footer = "idle"

PrefillDone == call.busy /\ footer = "idle"

(* The wait for the prefill ends, and /switch is written. *)
Switch ==
  /\ At("prefill")
  /\ PrefillDone \/ DeadlineMayPass(FALSE)
  /\ restored' = FALSE
  /\ Send(Line("switch", call.sha, 0, {}))
  /\ call' = [call EXCEPT !.at = "switch"]
  /\ UNCHANGED <<bound, state, saw, booted, captured, footer, pending, tailVars, out, diskVars,
                 logVars, turn>>

(* kv_wait_switch_locked ends: the session is there, or else the           *)
(* transcript goes in front of the next prompt.                            *)
Switched ==
  /\ At("switch")
  /\ \/ restored /\ pending' = {} /\ state' = "ready" /\ call' = Resting
     \/ ~restored /\ DeadlineMayPass(FALSE) /\ Prefill(bound)
  /\ UNCHANGED <<bound, screenVars, tailVars, child, out, diskVars, logVars, turn>>

(* pin_agent_submit *)
Submit ==
  /\ At("idle") /\ Alive /\ state # "busy"
  /\ turn < MaxTurns
  /\ turn' = turn + 1
  /\ state' = "busy"
  /\ asked' = [asked EXCEPT ![bound] = @ \cup {turn'}]
  /\ Send(Line("prompt", 0, turn', pending))
  /\ pending' = {}
  /\ UNCHANGED <<call, bound, screenVars, tailVars, out, diskVars, answered>>

(* main ends: pin_agent_free kills the child, and saves nothing.  The next *)
(* process finds the logs, the sessions and the cache.                     *)
Restart ==
  /\ "stop" \in faults
  /\ At("idle") /\ Alive
  /\ child' = [NoChild EXCEPT !.n = child.n]
  /\ out' = <<>>
  /\ bound' = None /\ state' = "idle"
  /\ saw' = FALSE /\ booted' = FALSE /\ restored' = FALSE /\ captured' = 0 /\ footer' = ""
  /\ pending' = {} /\ running' = FALSE /\ tails' = {}
  /\ UNCHANGED <<call, diskVars, logVars, turn>>

-----------------------------------------------------------------------------
(* Reader threads.                                                         *)

ShowsIn(chunk, what) == \E i \in 1 .. Len(chunk) : chunk[i].shows = what

LastOf(chunk, whats, none) ==
  LET is == {i \in 1 .. Len(chunk) : chunk[i].shows \in whats}
  IN  IF is = {} THEN none ELSE chunk[CHOOSE i \in is : \A k \in is : k <= i]

(* tui_process of what one read returns, any number of repaints.  The      *)
(* footer is looked at once, after them.                                   *)
Read(k) ==
  LET chunk == SubSeq(out, 1, k)
      busy == footer' = "busy"
      ends == ~busy /\ saw /\ state = "busy"
  IN  /\ footer' = LastOf(chunk, {"idle", "busy"}, Shown(footer)).shows
      /\ captured' = LastOf(chunk, {"saved", "history"}, Ack("saved", captured)).sha
      /\ restored' = (restored \/ ShowsIn(chunk, "history"))
      /\ booted' = (booted \/ footer' = "idle")
      /\ saw' = ((saw \/ busy) /\ ~ends)
      /\ state' = IF ends THEN "ready" ELSE state
      /\ out' = SubSeq(out, k + 1, Len(out))
      /\ UNCHANGED <<call, bound, pending, tailVars, child, diskVars, logVars, turn>>

ReadOutput == \E k \in 1 .. Len(out) : Read(k)

(* A reader that goes by the workspace being activated, for comparison. *)
EmitToTarget(turns) ==
  answered' = [answered EXCEPT ![IF At("idle") THEN bound ELSE call.ws] = @ \cup turns]

(* trace_reader_fn: emit_event appends to the log of the workspace bound   *)
(* when it is called.                                                      *)
Emit(turns) == answered' = [answered EXCEPT ![bound] = @ \cup turns]

Tailed(t, new) == tails' = (tails \ {t}) \cup {new}

TailReads(t) ==
  /\ running /\ t.left # {}
  /\ Tailed(t, [t EXCEPT !.left = {}, !.held = @ \cup t.left])
  /\ UNCHANGED <<call, bound, state, screenVars, pending, running, child, out, diskVars,
                 logVars, turn>>

TailFlushes(t) ==
  /\ running /\ t.held # {}
  /\ Emit(t.held)
  /\ Tailed(t, [t EXCEPT !.held = {}])
  /\ UNCHANGED <<call, bound, state, screenVars, pending, running, child, out, diskVars,
                 asked, turn>>

(* It sees the flag: what it holds is emitted, what it has not read is not.*)
TailStops(t) ==
  /\ ~running
  /\ Emit(t.held)
  /\ tails' = tails \ {t}
  /\ UNCHANGED <<call, bound, state, screenVars, pending, running, child, out, diskVars,
                 asked, turn>>

-----------------------------------------------------------------------------
(* The child.                                                              *)

Says(new) == out' = out \o new

(* It shows its prompt, then reads its system prompt, then is ready.       *)
ChildBoots ==
  /\ \/ /\ child.at = "start" /\ Says(<<Shown("idle")>>)
        /\ child' = [child EXCEPT !.at = "shown"]
     \/ /\ child.at = "shown" /\ Says(<<Shown("busy")>>)
        /\ child' = [child EXCEPT !.at = "prefill"]
     \/ /\ child.at = "prefill" /\ Says(<<Shown("idle")>>)
        /\ child' = [child EXCEPT !.at = "free", !.knows = {}]
  /\ UNCHANGED <<call, bound, state, screenVars, pending, tailVars, diskVars, logVars, turn>>

ChildObeys ==
  /\ child.at \in {"shown", "free"} /\ child.inbox # <<>>
  /\ LET line == Head(child.inbox)
         rest == [child EXCEPT !.inbox = Tail(@)]
     IN  \/ /\ line.cmd = "save"
            /\ cache' = Append(cache, [ws |-> child.ws, knows |-> child.knows, time |-> clock])
            /\ Says(<<Shown("busy"), Ack("saved", Len(cache')), Shown("idle")>>)
            /\ child' = rest
         \/ /\ line.cmd = "switch"
            /\ Says(<<Shown("busy"), Ack("history", line.sha), Shown("idle")>>)
            /\ child' = [rest EXCEPT !.knows = cache[line.sha].knows]
            /\ UNCHANGED cache
         \/ /\ line.cmd = "prompt" /\ child.at = "free"
            /\ Says(<<Shown("echo"), Shown("busy")>>)
            /\ child' = [rest EXCEPT !.at = "work", !.doing = line.turn,
                                     !.knows = @ \cup line.with \cup {line.turn}]
            /\ UNCHANGED cache
  /\ UNCHANGED <<call, bound, state, screenVars, pending, tailVars, session, clock, logVars,
                 turn>>

(* The answer is in the trace, and the footer is idle again. *)
ChildAnswers ==
  /\ child.at = "work"
  /\ \E t \in tails :
       t.n = child.n /\ Tailed(t, [t EXCEPT !.left = @ \cup {child.doing}])
  /\ Says(<<Shown("idle")>>)
  /\ child' = [child EXCEPT !.at = "free", !.doing = 0]
  /\ UNCHANGED <<call, bound, state, screenVars, pending, running, diskVars, logVars, turn>>

-----------------------------------------------------------------------------

Client ==
  /\ \/ \E w \in Workspaces : Activate(w) \/ Reset(w) \/ ResetOther(w)
     \/ Submit
     \/ Restart
  /\ UNCHANGED faults

Call ==
  /\ \/ Save \/ Capture \/ CaptureTimesOut \/ Kill \/ Wipe \/ Bind
     \/ Boot \/ LookBusy \/ Switch \/ Switched
  /\ UNCHANGED faults

Reader == ReadOutput /\ UNCHANGED faults

Tailers ==
  /\ \E t \in tails : TailReads(t) \/ TailFlushes(t) \/ TailStops(t)
  /\ UNCHANGED faults

Child ==
  /\ ChildBoots \/ ChildObeys \/ ChildAnswers
  /\ UNCHANGED faults

Next == Client \/ Call \/ Reader \/ Tailers \/ Child

Spec == Init /\ [][Next]_vars

(* Deadlines pass, so every wait of a call ends; threads and the child run.*)
FairSpec ==
  Spec /\ WF_vars(Call) /\ WF_vars(Reader) /\ WF_vars(Tailers) /\ WF_vars(Child)

-----------------------------------------------------------------------------
(* Properties.                                                             *)

(* The session recorded for a workspace is a conversation of that          *)
(* workspace ("the session a just-issued /save wrote", src/src/agent.c).   *)
SavedByItself == \A w \in Workspaces : session[w] # 0 => cache[session[w]].ws = w

(* It is, although the save takes the newest file of a cache that all      *)
(* workspaces share and late acknowledgements of other commands are taken  *)
(* for its own, unless two saves fall in one second.                       *)
SessionsAreOwn == "clock" \notin faults => SavedByItself

(* What a child knows, or is about to be told, was said in its workspace   *)
(* since the last reset: no other workspace's turns and none of those      *)
(* erased, whatever else goes wrong.                                       *)
OnlyItsConversation ==
  "clock" \notin faults /\ Alive =>
    /\ child.knows \subseteq asked[child.ws]
    /\ At("idle") => pending \subseteq asked[child.ws]
    /\ \A i \in 1 .. Len(child.inbox) : child.inbox[i].with \subseteq asked[child.ws]

(* A child that starts on a prompt knows all the conversation that the log *)
(* of its workspace has before it ("continuity holds even when the fast    *)
(* path misses", docs/architecture/transport-findings.md).                 *)
Continuity ==
  child.at = "work" => {t \in asked[child.ws] : t <= child.doing} \subseteq child.knows

(* It does when nothing is late and the server stays up: by /save and      *)
(* /switch or by the transcript, whichever way the activation went.        *)
NothingForgotten == faults = {} => Continuity

(* The answers in a log are those to its own prompts, though the trace     *)
(* reader outlives the kill, if it sees the flag before the kill is over.  *)
AnswersAreOwn ==
  "tail" \notin faults => \A w \in Workspaces : answered[w] \subseteq asked[w]

(* A call that began returns, whatever the child does or fails to do.      *)
CallsReturn == ~At("idle") ~> At("idle")
=============================================================================
