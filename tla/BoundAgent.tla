----------------------------- MODULE BoundAgent -----------------------------
(***************************************************************************)
(* What the callers of the agent supervisor rely on: one agent, worked on  *)
(* by one caller at a time, bound to one workspace, with at most one       *)
(* process behind it.  The binding only changes while no process lives,    *)
(* and every prompt goes to the living process, in the bound workspace,    *)
(* once and in the order of the turns.                                     *)
(***************************************************************************)
EXTENDS Naturals

CONSTANTS Callers, Workspaces, Processes, Turns, None

VARIABLES
  owner,          (* The caller that works on the agent.                   *)
  bound,          (* The workspace it is bound to.                         *)
  living,         (* The processes that live.                              *)
  told            (* The prompts that were ever given to a process.        *)

agentVars == <<owner, bound, living, told>>

Init == owner = None /\ bound = None /\ living = {} /\ told = {}

Take(c) == owner = None /\ owner' = c /\ UNCHANGED <<bound, living, told>>

Give(c) == owner = c /\ owner' = None /\ UNCHANGED <<bound, living, told>>

Unused(k) == \A p \in told : p.to # k

(* The agent is bound to a workspace, with a new process or, when none can *)
(* be started, without one.                                                *)
Bind(c, w) ==
  /\ owner = c
  /\ living = {}
  /\ bound' = w
  /\ living' = {} \/ \E k \in Processes : Unused(k) /\ living' = {k}
  /\ UNCHANGED <<owner, told>>

Tell(c, n) ==
  /\ owner = c
  /\ \A p \in told : p.turn < n
  /\ \E k \in living : told' = told \cup {[to |-> k, ws |-> bound, turn |-> n]}
  /\ UNCHANGED <<owner, bound, living>>

(* A process may die at any time, killed or not. *)
Die(k) == k \in living /\ living' = living \ {k} /\ UNCHANGED <<owner, bound, told>>

Next ==
  \/ \E c \in Callers :
       \/ Take(c) \/ Give(c)
       \/ \E w \in Workspaces : Bind(c, w)
       \/ \E n \in Turns : Tell(c, n)
  \/ \E k \in Processes : Die(k)

Spec == Init /\ [][Next]_agentVars
=============================================================================
