--------------------------- MODULE KvSessionProofs ---------------------------
(***************************************************************************)
(* Safety of KvSession, for any workspaces, any number of children and of  *)
(* turns, and any set of faults.                                           *)
(*                                                                         *)
(* The argument: one call at a time decides which child there is (Stages); *)
(* a child gets at most one /save, so there are fewer files in the cache   *)
(* than children started (Saves); and whatever names a file of the cache - *)
(* a workspace's record, the call under way, a line the child has not read *)
(* yet, an acknowledgement the server has not read yet, the directory scan *)
(* itself - names one of the workspace it is used for, saved since its     *)
(* last reset (Sources).                                                   *)
(*                                                                         *)
(* That nothing is forgotten when nothing is late and the server stays up  *)
(* needs a second invariant (Memory, at the end of the module).            *)
(***************************************************************************)
EXTENDS KvSession, SequenceTheorems, NaturalsInduction, WellFoundedInduction, TLAPS

(* File n of the cache is a conversation of w, of turns w still has. *)
Own(n, w) ==
  n \in 1 .. Len(cache) /\ cache[n].ws = w /\ cache[n].knows \subseteq asked[w]

(* Which child there is at each stage of a call. *)
Stages ==
  /\ Alive => bound \in Workspaces /\ child.ws = bound
  /\ ~Alive => out = <<>>
  /\ call.at \in {"save", "capture", "kill", "boot", "prefill", "switch"} => Alive
  /\ call.at \in {"wipe", "bind"} => ~Alive
  /\ IF At("idle") THEN call = Resting ELSE call.ws \in Workspaces /\ state # "busy"
  /\ call.at \in {"boot", "prefill", "switch"} => bound = call.ws
  /\ call.at \in {"save", "capture", "kill", "wipe", "bind"} => child.n < MaxSpawns
  /\ Alive => child.n # 0

Saves ==
  /\ Len(cache) <= child.n
  /\ Alive /\ call.at \notin {"capture", "kill"} => Len(cache) < child.n
  /\ \A i \in 1 .. Len(child.inbox) : child.inbox[i].cmd = "save" =>
       /\ i = Len(child.inbox)
       /\ call.at \in {"capture", "kill"}
       /\ Len(cache) < child.n

(* Prompts on their way to the child, and the one it works on, are in the  *)
(* log of its workspace.                                                   *)
Prompted ==
  Alive =>
    /\ \A i \in 1 .. Len(child.inbox) :
         child.inbox[i].cmd = "prompt" => child.inbox[i].turn \in asked[bound]
    /\ child.at = "work" => child.doing \in asked[bound]

(* What names a file of the cache names one there is. *)
Named ==
  /\ \A w \in Workspaces : session[w] <= Len(cache)
  /\ call.sha <= Len(cache) /\ captured <= Len(cache)
  /\ call.at \in {"boot", "prefill", "switch"} => call.sha # 0
  /\ \A i \in 1 .. Len(child.inbox) :
       child.inbox[i].cmd = "switch" => child.inbox[i].sha \in 1 .. Len(cache)
  /\ \A i \in 1 .. Len(out) :
       out[i].shows \in {"saved", "history"} => out[i].sha \in 1 .. Len(cache)

(* And one of the workspace it is used for. *)
Sources ==
  /\ \A w \in Workspaces : session[w] # 0 => Own(session[w], w)
  /\ call.sha # 0 => Own(call.sha, call.ws)
  /\ \A n \in 1 .. Len(cache) : cache[n].time <= clock
  /\ Alive =>
       /\ \A i \in 1 .. Len(child.inbox) :
            child.inbox[i].cmd = "switch" => Own(child.inbox[i].sha, bound)
       /\ \A i \in 1 .. Len(out) :
            out[i].shows \in {"saved", "history"} => Own(out[i].sha, bound)
  /\ At("capture") =>
       /\ captured # 0 => Own(captured, bound)
       /\ \A n \in 1 .. Len(cache) : cache[n].time >= call.since => Own(n, bound)

(* What the child knows and is to be told. *)
Known ==
  Alive =>
    /\ child.knows \subseteq asked[bound]
    /\ At("idle") => pending \subseteq asked[bound]
    /\ \A i \in 1 .. Len(child.inbox) : child.inbox[i].with \subseteq asked[bound]

Conversations == "clock" \notin faults => Sources /\ Known

(* The trace readers there are read what was answered in the workspace.    *)
Traced ==
  "tail" \notin faults =>
    /\ \A w \in Workspaces : answered[w] \subseteq asked[w]
    /\ \A t \in tails : t.left \cup t.held \subseteq asked[bound]
    /\ tails # {} => bound \in Workspaces
    /\ At("idle") /\ ~Alive => tails = {}

Inv == TypeOK /\ Stages /\ Saves /\ Named /\ Prompted /\ Conversations /\ Traced

-----------------------------------------------------------------------------
USE KvAssumption

(* Well-founded order on Nat without an operator as a parameter: the least *)
(* element of a set, and the greatest of a bounded one.                    *)
LEMMA Least ==
  ASSUME NEW T \in SUBSET Nat, T # {}
  PROVE  \E x \in T : \A y \in T : x <= y
  <1> DEFINE R == OpToRel(<, Nat)
  <1>1. IsWellFoundedOn(R, Nat)
    BY NatLessThanWellFounded
  <1>2. \A x, y \in Nat : y < x => <<y, x>> \in R
    BY DEF OpToRel
  <1> HIDE DEF R
  <1>3. PICK x \in T : \A y \in T : ~(<<y, x>> \in R)
    BY <1>1, WFMin
  <1>4. \A y \in T : ~(y < x)
    BY <1>2, <1>3
  <1> QED BY <1>4

LEMMA Greatest ==
  ASSUME NEW n \in Nat, NEW T \in SUBSET (0 .. n), T # {}
  PROVE  \E x \in T : \A y \in T : y <= x
  <1> DEFINE U == {n - x : x \in T}
  <1>1. U \in SUBSET Nat
    OBVIOUS
  <1>2. U # {}
    <2>1. PICK x \in T : TRUE
      OBVIOUS
    <2>2. n - x \in U
      OBVIOUS
    <2> QED BY <2>2
  <1>3. PICK x \in U : \A y \in U : x <= y
    BY <1>1, <1>2, Least
  <1>4. PICK z \in T : x = n - z
    BY <1>3
  <1>5. \A y \in T : n - y \in U /\ n - y >= x
    BY <1>3
  <1>6. \A y \in T : y \in Int /\ y <= z
    BY <1>4, <1>5
  <1> QED BY <1>6

LEMMA ChildTypes ==
  ASSUME child \in ChildType
  PROVE  /\ child.at \in {"none", "start", "shown", "prefill", "free", "work"}
         /\ child.ws \in Workspaces \cup {None} /\ child.knows \in SUBSET Turns
         /\ child.inbox \in Seq(LineType) /\ child.doing \in 0 .. MaxTurns
         /\ child.n \in 0 .. MaxSpawns
  BY DEF ChildType

LEMMA CallTypes ==
  ASSUME call \in CallType
  PROVE  /\ call.at \in {"idle", "save", "capture", "kill", "wipe", "bind", "boot", "prefill",
                         "switch"}
         /\ call.ws \in Workspaces \cup {None} /\ call.sha \in Shas
         /\ call.since \in 0 .. MaxSpawns /\ call.busy \in BOOLEAN
         /\ call.then \in {"save", "wipe"}
  BY DEF CallType

LEMMA LineTypes ==
  ASSUME NEW l \in LineType
  PROVE  /\ l.cmd \in {"save", "switch", "prompt"} /\ l.sha \in Shas
         /\ l.turn \in 0 .. MaxTurns /\ l.with \in SUBSET Turns
  BY DEF LineType

LEMMA Small ==
  /\ 0 \in Shas /\ 0 \in 0 .. MaxSpawns /\ 0 \in 0 .. MaxTurns
  /\ Resting \in CallType
  /\ NoChild \in ChildType /\ \A n \in 0 .. MaxSpawns : [NoChild EXCEPT !.n = n] \in ChildType
  /\ Line("save", 0, 0, {}) \in LineType
  /\ \A n \in Shas : Line("switch", n, 0, {}) \in LineType
  /\ \A n \in Turns, with \in SUBSET Turns : Line("prompt", 0, n, with) \in LineType
  <1>1. 0 \in Shas /\ 0 \in 0 .. MaxSpawns /\ 0 \in 0 .. MaxTurns
    BY DEF Shas
  <1>2. Resting \in CallType
    BY <1>1 DEF Resting, CallType
  <1>3. NoChild \in ChildType
    <2>1. <<>> \in Seq(LineType)
      OBVIOUS
    <2> QED BY <1>1, <2>1 DEF NoChild, ChildType
  <1>7. \A n \in 0 .. MaxSpawns : [NoChild EXCEPT !.n = n] \in ChildType
    BY <1>3 DEF ChildType
  <1>4. \A n \in Shas : Line("switch", n, 0, {}) \in LineType
    BY <1>1 DEF Line, LineType
  <1>5. Line("save", 0, 0, {}) \in LineType
    BY <1>1 DEF Line, LineType
  <1>6. \A n \in Turns, with \in SUBSET Turns : Line("prompt", 0, n, with) \in LineType
    BY <1>1 DEF Line, LineType, Turns
  <1> QED BY <1>1, <1>2, <1>3, <1>4, <1>5, <1>6, <1>7

LEMMA TypeInit == Init => TypeOK
  <1> SUFFICES ASSUME Init PROVE TypeOK
    OBVIOUS
  <1>1. child \in ChildType
    BY Small DEF Init
  <1>2. 0 \in Shas /\ 0 \in 0 .. MaxSpawns /\ 0 \in 0 .. MaxTurns /\ Resting \in CallType
    BY Small
  <1>3. <<>> \in Seq(ShownType) /\ <<>> \in Seq(FileType)
    OBVIOUS
  <1>4. /\ session \in [Workspaces -> Shas]
        /\ asked \in [Workspaces -> SUBSET Turns] /\ answered \in [Workspaces -> SUBSET Turns]
    BY <1>2 DEF Init
  <1> QED BY <1>1, <1>2, <1>3, <1>4 DEF Init, TypeOK

(* A line goes out: what else the child has stays. *)
LEMMA LineSent ==
  ASSUME child \in ChildType, NEW l \in LineType, Send(l)
  PROVE  /\ child' \in ChildType
         /\ child'.at = child.at /\ child'.ws = child.ws /\ child'.knows = child.knows
         /\ child'.doing = child.doing /\ child'.n = child.n
         /\ child'.inbox = Append(child.inbox, l)
         /\ Len(child'.inbox) = Len(child.inbox) + 1 /\ Len(child.inbox) \in Nat
         /\ child'.inbox[Len(child.inbox) + 1] = l
         /\ \A i \in 1 .. Len(child.inbox) : child'.inbox[i] = child.inbox[i]
         /\ \A i \in 1 .. Len(child'.inbox) : i = Len(child.inbox) + 1 \/ i \in 1 .. Len(child.inbox)
  <1> DEFINE box == Append(child.inbox, l)
  <1>1. child' = [child EXCEPT !.inbox = box]
    BY DEF Send
  <1>2. child.inbox \in Seq(LineType)
    BY ChildTypes
  <1>3. /\ box \in Seq(LineType) /\ Len(box) = Len(child.inbox) + 1 /\ Len(child.inbox) \in Nat
        /\ box[Len(child.inbox) + 1] = l
        /\ \A i \in 1 .. Len(child.inbox) : box[i] = child.inbox[i]
    BY <1>2, AppendProperties
  <1> HIDE DEF box
  <1>4. child'.inbox = box /\ child' \in ChildType
    BY <1>1, <1>3 DEF ChildType
  <1>5. /\ child'.at = child.at /\ child'.ws = child.ws /\ child'.knows = child.knows
        /\ child'.doing = child.doing /\ child'.n = child.n
    BY <1>1 DEF ChildType
  <1> QED BY <1>3, <1>4, <1>5 DEF box

LEMMA ClientTypes ==
  ASSUME TypeOK, Stages,
         \/ \E w \in Workspaces : Activate(w) \/ Reset(w) \/ ResetOther(w)
         \/ Submit
         \/ Restart,
         UNCHANGED faults
  PROVE  TypeOK'
  <1> USE DEF diskVars, logVars, screenVars, tailVars
  <1>1. ASSUME NEW w \in Workspaces, Activate(w) PROVE TypeOK'
    <2>1. session[w] \in Shas
      BY DEF TypeOK
    <2>2. call' = [Resting EXCEPT !.at = IF Alive THEN "save" ELSE "bind", !.ws = w,
                                  !.sha = session[w]]
      BY <1>1 DEF Activate
    <2>3. call' \in CallType
      BY <2>1, <2>2, Small DEF CallType
    <2> QED BY <1>1, <2>3 DEF Activate, Alive, TypeOK
  <1>2. ASSUME NEW w \in Workspaces, Reset(w) PROVE TypeOK'
    <2>1. call' = [Resting EXCEPT !.at = "kill", !.ws = w, !.then = "wipe"]
      BY <1>2 DEF Reset
    <2>2. call' \in CallType
      BY <2>1, Small DEF CallType
    <2> QED BY <1>2, <2>2 DEF Reset, Alive, TypeOK
  <1>3. ASSUME NEW w \in Workspaces, ResetOther(w) PROVE TypeOK'
    <2>1. /\ asked' = [asked EXCEPT ![w] = {}] /\ answered' = [answered EXCEPT ![w] = {}]
          /\ session' = [session EXCEPT ![w] = 0]
      BY <1>3 DEF ResetOther, Erase
    <2>2. /\ asked' \in [Workspaces -> SUBSET Turns] /\ answered' \in [Workspaces -> SUBSET Turns]
          /\ session' \in [Workspaces -> Shas]
      BY <2>1, Small DEF TypeOK
    <2> QED BY <1>3, <2>2 DEF ResetOther, Alive, TypeOK
  <1>4. CASE Submit
    <2>1. turn' \in 0 .. MaxTurns /\ turn' \in Turns
      <3>1. turn' = turn + 1 /\ turn < MaxTurns
        BY <1>4 DEF Submit
      <3>2. turn \in 0 .. MaxTurns
        BY DEF TypeOK
      <3> QED BY <3>1, <3>2 DEF Turns
    <2>2. asked' \in [Workspaces -> SUBSET Turns]
      <3>1. asked' = [asked EXCEPT ![bound] = @ \cup {turn'}]
        BY <1>4 DEF Submit
      <3> QED BY <2>1, <3>1 DEF TypeOK
    <2>3. Line("prompt", 0, turn', pending) \in LineType
      BY <2>1, Small DEF TypeOK
    <2>4. child' \in ChildType /\ child'.at = child.at
      BY <1>4, <2>3, LineSent DEF Submit, TypeOK
    <2> QED BY <1>4, <2>1, <2>2, <2>4 DEF Submit, Alive, TypeOK
  <1>5. CASE Restart
    <2>1. child' = [NoChild EXCEPT !.n = child.n]
      BY <1>5 DEF Restart
    <2>2. child' \in ChildType
      BY <2>1, ChildTypes, Small DEF TypeOK
    <2>3. 0 \in Shas /\ <<>> \in Seq(ShownType)
      BY Small
    <2> QED BY <1>5, <2>2, <2>3 DEF Restart, TypeOK
  <1> QED BY <1>1, <1>2, <1>3, <1>4, <1>5

LEMMA CallTypesKept ==
  ASSUME TypeOK, Stages, Saves,
         \/ Save \/ Capture \/ CaptureTimesOut \/ Kill \/ Wipe \/ Bind
         \/ Boot \/ LookBusy \/ Switch \/ Switched,
         UNCHANGED faults
  PROVE  TypeOK'
  <1> USE DEF diskVars, logVars, screenVars, tailVars
  <1>0. call \in CallType /\ child \in ChildType /\ 0 \in Shas
    BY Small DEF TypeOK
  <1>1. CASE Save
    <2>1. clock' \in 0 .. MaxSpawns
      <3>1. clock \in 0 .. MaxSpawns /\ clock < MaxSpawns /\ clock' \in {clock, clock + 1}
        BY <1>1 DEF Save, TypeOK
      <3> QED BY <3>1
    <2>2. call' \in CallType
      <3>1. call' = [call EXCEPT !.at = "capture", !.since = clock']
        BY <1>1 DEF Save
      <3> QED BY <1>0, <2>1, <3>1 DEF CallType
    <2>3. child' \in ChildType /\ child'.at = child.at
      BY <1>0, <1>1, Small, LineSent DEF Save
    <2> QED BY <1>0, <1>1, <2>1, <2>2, <2>3, ZenonT(30) DEF Save, Alive, TypeOK
  <1>2. CASE Capture
    <2>1. call' \in CallType
      <3>1. call' = [call EXCEPT !.at = "kill"]
        BY <1>2 DEF Capture
      <3> QED BY <1>0, <3>1 DEF CallType
    <2>2. session' \in [Workspaces -> Shas]
      <3>1. PICK sha \in (IF NewestSaved(call.since) # {} THEN NewestSaved(call.since)
                          ELSE {captured} \ {0}) :
                   session' = [session EXCEPT ![bound] = sha]
        BY <1>2 DEF Capture
      <3>2. NewestSaved(call.since) \subseteq 1 .. Len(cache)
        BY DEF NewestSaved
      <3>3. Len(cache) \in Nat /\ Len(cache) <= MaxSpawns
        <4>1. cache \in Seq(FileType) /\ Len(cache) <= child.n /\ child.n \in 0 .. MaxSpawns
          BY <1>0, ChildTypes DEF TypeOK, Saves
        <4> QED BY <4>1
      <3>4. captured \in Shas /\ session \in [Workspaces -> Shas]
        BY DEF TypeOK
      <3>5. sha \in Shas
        BY <3>1, <3>2, <3>3, <3>4 DEF Shas
      <3> QED BY <3>1, <3>4, <3>5
    <2> QED BY <1>2, <2>1, <2>2 DEF Capture, Alive, TypeOK
  <1>3. CASE CaptureTimesOut
    <2>1. call' \in CallType
      <3>1. call' = [call EXCEPT !.at = "kill"]
        BY <1>3 DEF CaptureTimesOut
      <3> QED BY <1>0, <3>1 DEF CallType
    <2> QED BY <1>3, <2>1, ZenonT(30) DEF CaptureTimesOut, Alive, TypeOK
  <1>4. CASE Kill
    <2>1. call' \in CallType
      <3>1. call' = [call EXCEPT !.at = IF call.then = "wipe" THEN "wipe" ELSE "bind"]
        BY <1>4 DEF Kill
      <3> QED BY <1>0, <3>1 DEF CallType
    <2>2. child' \in ChildType /\ <<>> \in Seq(ShownType)
      BY <1>0, <1>4, ChildTypes, Small DEF Kill
    <2>3. state # "busy"
      BY <1>4 DEF Kill, At, Stages
    <2> QED BY <1>4, <2>1, <2>2, <2>3 DEF Kill, TypeOK
  <1>5. CASE Wipe
    <2>1. /\ asked' = [asked EXCEPT ![call.ws] = {}] /\ answered' = [answered EXCEPT ![call.ws] = {}]
          /\ session' = [session EXCEPT ![call.ws] = 0]
      BY <1>5 DEF Wipe, Erase
    <2>2. /\ asked' \in [Workspaces -> SUBSET Turns] /\ answered' \in [Workspaces -> SUBSET Turns]
          /\ session' \in [Workspaces -> Shas]
      BY <1>0, <2>1 DEF TypeOK
    <2>3. call' \in CallType
      <3>1. call.ws \in Workspaces
        BY <1>5 DEF Wipe, At, Stages
      <3>2. session'[call.ws] \in Shas
        BY <2>2, <3>1
      <3>3. call' = [call EXCEPT !.at = "bind", !.sha = session'[call.ws]]
        BY <1>5 DEF Wipe
      <3> QED BY <1>0, <3>2, <3>3 DEF CallType
    <2> QED BY <1>5, <2>2, <2>3 DEF Wipe, Alive, TypeOK
  <1>6. CASE Bind
    <2>1. call.ws \in Workspaces /\ child.n < MaxSpawns /\ child.n \in 0 .. MaxSpawns /\ ~Alive
      BY <1>0, <1>6, ChildTypes DEF Bind, At, Stages
    <2>2. child.n + 1 \in 1 .. MaxSpawns /\ child.n + 1 \in 0 .. MaxSpawns
      BY <2>1
    <2>3. child' \in ChildType /\ child'.at # "none"
      <3>1. child' = [[NoChild EXCEPT !.n = child.n + 1] EXCEPT !.at = "start", !.ws = call.ws]
        BY <1>6 DEF Bind, NoChild
      <3>2. [NoChild EXCEPT !.n = child.n + 1] \in ChildType
        BY <2>2, Small
      <3> QED BY <2>1, <3>1, <3>2 DEF ChildType
    <2>4. tails' \subseteq TailType
      <3>1. [n |-> child.n + 1, left |-> {}, held |-> {}] \in TailType
        BY <2>2 DEF TailType
      <3> QED BY <1>6, <3>1 DEF Bind, TypeOK
    <2>5. call' \in CallType /\ pending' \subseteq Turns /\ state' \in {"spawning", "ready"}
      <3>1. CASE call.sha # 0
        <4>1. call' = [call EXCEPT !.at = "boot"] /\ pending' = pending /\ state' = "spawning"
          BY <1>6, <3>1 DEF Bind
        <4>2. call' \in CallType
          BY <1>0, <4>1 DEF CallType
        <4> QED BY <4>1, <4>2 DEF TypeOK
      <3>2. CASE call.sha = 0
        <4>1. call' = Resting /\ pending' = asked[call.ws] /\ state' = "ready"
          BY <1>6, <3>2 DEF Bind, Prefill
        <4> QED BY <2>1, <4>1, Small DEF TypeOK
      <3> QED BY <3>1, <3>2
    <2> QED BY <1>6, <2>1, <2>3, <2>4, <2>5 DEF Bind, TypeOK
  <1>7. CASE Boot
    <2>1. call' \in CallType
      <3>1. call' = [call EXCEPT !.at = "prefill"]
        BY <1>7 DEF Boot
      <3> QED BY <1>0, <3>1 DEF CallType
    <2> QED BY <1>7, <2>1, ZenonT(30) DEF Boot, Alive, TypeOK
  <1>8. CASE LookBusy
    <2>1. call' \in CallType
      <3>1. call' = [call EXCEPT !.busy = TRUE]
        BY <1>8 DEF LookBusy
      <3> QED BY <1>0, <3>1 DEF CallType
    <2> QED BY <1>8, <2>1 DEF LookBusy, Alive, TypeOK
  <1>9. CASE Switch
    <2>1. call' \in CallType
      <3>1. call' = [call EXCEPT !.at = "switch"]
        BY <1>9 DEF Switch
      <3> QED BY <1>0, <3>1 DEF CallType
    <2>2. child' \in ChildType /\ child'.at = child.at
      BY <1>0, <1>9, CallTypes, Small, LineSent DEF Switch
    <2> QED BY <1>9, <2>1, <2>2 DEF Switch, Alive, TypeOK
  <1>10. CASE Switched
    <2>1. /\ call' = Resting /\ state' = "ready"
          /\ pending' = {} \/ pending' = asked[bound]
      BY <1>10 DEF Switched, Prefill
    <2>2. bound \in Workspaces
      BY <1>10 DEF Switched, At, Stages
    <2>3. pending' \subseteq Turns /\ call' \in CallType
      BY <2>1, <2>2, Small DEF TypeOK
    <2> QED BY <1>10, <2>1, <2>3 DEF Switched, TypeOK
  <1> QED BY <1>1, <1>2, <1>3, <1>4, <1>5, <1>6, <1>7, <1>8, <1>9, <1>10

-----------------------------------------------------------------------------
(* What one read finds.                                                    *)

(* LastOf is one of the elements it chooses from, or the default. *)
LEMMA LastFound ==
  ASSUME NEW S, NEW chunk \in Seq(S), NEW whats, NEW none
  PROVE  \/ LastOf(chunk, whats, none) = none
         \/ \E i \in 1 .. Len(chunk) :
              chunk[i].shows \in whats /\ LastOf(chunk, whats, none) = chunk[i]
  <1> DEFINE is == {i \in 1 .. Len(chunk) : chunk[i].shows \in whats}
             last == CHOOSE i \in is : \A k \in is : k <= i
  <1>1. CASE is = {}
    BY <1>1 DEF LastOf
  <1>2. CASE is # {}
    <2>1. is \in SUBSET (0 .. Len(chunk)) /\ Len(chunk) \in Nat
      OBVIOUS
    <2>2. \E i \in is : \A k \in is : k <= i
      BY <1>2, <2>1, Greatest
    <2>3. last \in is
      BY <2>2
    <2>4. LastOf(chunk, whats, none) = chunk[last]
      BY <1>2 DEF LastOf
    <2> QED BY <2>3, <2>4
  <1> QED BY <1>1, <1>2

LEMMA Chunk ==
  ASSUME out \in Seq(ShownType), NEW k \in 1 .. Len(out)
  PROVE  /\ SubSeq(out, 1, k) \in Seq(ShownType)
         /\ Len(SubSeq(out, 1, k)) = k
         /\ \A i \in 1 .. k : SubSeq(out, 1, k)[i] = out[i] /\ i \in 1 .. Len(out)
         /\ SubSeq(out, k + 1, Len(out)) \in Seq(ShownType)
         /\ Len(SubSeq(out, k + 1, Len(out))) = Len(out) - k
         /\ \A i \in 1 .. Len(out) - k :
              SubSeq(out, k + 1, Len(out))[i] = out[k + i] /\ k + i \in 1 .. Len(out)
  <1>1. Len(out) \in Nat /\ \A i \in 1 .. Len(out) : out[i] \in ShownType
    OBVIOUS
  <1>2. /\ SubSeq(out, 1, k) \in Seq(ShownType) /\ Len(SubSeq(out, 1, k)) = k
        /\ \A i \in 1 .. k : SubSeq(out, 1, k)[i] = out[i]
    BY <1>1, SubSeqProperties
  <1>3. /\ SubSeq(out, k + 1, Len(out)) \in Seq(ShownType)
        /\ Len(SubSeq(out, k + 1, Len(out))) = Len(out) - k
    <2>1. k + 1 \in Int /\ \A i \in k + 1 .. Len(out) : out[i] \in ShownType
      BY <1>1
    <2> QED BY <1>1, <2>1, SubSeqProperties
  <1>4. ASSUME NEW i \in 1 .. Len(out) - k
        PROVE  SubSeq(out, k + 1, Len(out))[i] = out[k + i] /\ k + i \in 1 .. Len(out)
    <2>1. k + 1 \in Int /\ \A j \in k + 1 .. Len(out) : out[j] \in ShownType
      BY <1>1
    <2>2. \A j \in 1 .. Len(out) - (k + 1) + 1 : SubSeq(out, k + 1, Len(out))[j] = out[(k + 1) + j - 1]
      BY <1>1, <2>1, SubSeqProperties
    <2>3. i \in 1 .. Len(out) - (k + 1) + 1 /\ (k + 1) + i - 1 = k + i
      BY <1>1
    <2> QED BY <1>1, <2>2, <2>3
  <1> QED BY <1>1, <1>2, <1>3, <1>4

(* What the reader makes of what it reads. *)
LEMMA ReadFinds ==
  ASSUME TypeOK, NEW k \in 1 .. Len(out), Read(k)
  PROVE  /\ footer' \in {"", "idle", "busy"}
         /\ \/ captured' = captured
            \/ \E i \in 1 .. Len(out) :
                 out[i].shows \in {"saved", "history"} /\ captured' = out[i].sha
         /\ out' \in Seq(ShownType)
         /\ \A i \in 1 .. Len(out') : \E j \in 1 .. Len(out) : out'[i] = out[j]
         /\ state' = state \/ (state = "busy" /\ state' = "ready")
         /\ UNCHANGED <<call, bound, pending, tailVars, child, diskVars, logVars, turn>>
  <1> DEFINE chunk == SubSeq(out, 1, k)
  <1>1. out \in Seq(ShownType) /\ Len(out) \in Nat
    <2>1. out \in Seq(ShownType)
      BY DEF TypeOK
    <2> QED BY <2>1
  <1>2. /\ chunk \in Seq(ShownType) /\ Len(chunk) = k
        /\ \A i \in 1 .. k : chunk[i] = out[i] /\ i \in 1 .. Len(out)
    BY <1>1, Chunk
  <1>3. /\ footer' = LastOf(chunk, {"idle", "busy"}, Shown(footer)).shows
        /\ captured' = LastOf(chunk, {"saved", "history"}, Ack("saved", captured)).sha
        /\ out' = SubSeq(out, k + 1, Len(out))
        /\ state' = state \/ (state = "busy" /\ state' = "ready")
        /\ UNCHANGED <<call, bound, pending, tailVars, child, diskVars, logVars, turn>>
    BY DEF Read
  <1> HIDE DEF chunk
  <1>4. footer' \in {"", "idle", "busy"}
    <2>1. Shown(footer).shows \in {"", "idle", "busy"}
      BY DEF Shown, TypeOK
    <2>2. \/ LastOf(chunk, {"idle", "busy"}, Shown(footer)) = Shown(footer)
          \/ \E i \in 1 .. Len(chunk) :
               /\ chunk[i].shows \in {"idle", "busy"}
               /\ LastOf(chunk, {"idle", "busy"}, Shown(footer)) = chunk[i]
      BY <1>2, LastFound
    <2> QED BY <1>3, <2>1, <2>2
  <1>5. \/ captured' = captured
        \/ \E i \in 1 .. Len(out) :
             out[i].shows \in {"saved", "history"} /\ captured' = out[i].sha
    <2>1. Ack("saved", captured).sha = captured
      BY DEF Ack
    <2>2. \/ LastOf(chunk, {"saved", "history"}, Ack("saved", captured)) = Ack("saved", captured)
          \/ \E i \in 1 .. Len(chunk) :
               /\ chunk[i].shows \in {"saved", "history"}
               /\ LastOf(chunk, {"saved", "history"}, Ack("saved", captured)) = chunk[i]
      BY <1>2, LastFound
    <2> QED BY <1>2, <1>3, <2>1, <2>2
  <1>6. /\ out' \in Seq(ShownType)
        /\ \A i \in 1 .. Len(out') : \E j \in 1 .. Len(out) : out'[i] = out[j]
    BY <1>1, <1>3, Chunk
  <1> QED BY <1>3, <1>4, <1>5, <1>6

(* What the child prints. *)
LEMMA Said ==
  ASSUME out \in Seq(ShownType), NEW new \in Seq(ShownType), out' = out \o new
  PROVE  /\ out' \in Seq(ShownType)
         /\ \A i \in 1 .. Len(out') : \/ \E j \in 1 .. Len(out) : out'[i] = out[j]
                                      \/ \E j \in 1 .. Len(new) : out'[i] = new[j]
  <1>1. Len(out) \in Nat /\ Len(new) \in Nat
    OBVIOUS
  <1>2. /\ out \o new \in Seq(ShownType) /\ Len(out \o new) = Len(out) + Len(new)
        /\ \A i \in 1 .. Len(out) + Len(new) : (out \o new)[i] =
             IF i <= Len(out) THEN out[i] ELSE new[i - Len(out)]
    BY ConcatProperties
  <1>3. ASSUME NEW i \in 1 .. Len(out')
        PROVE  \/ \E j \in 1 .. Len(out) : out'[i] = out[j]
               \/ \E j \in 1 .. Len(new) : out'[i] = new[j]
    <2>1. CASE i <= Len(out)
      BY <1>1, <1>2, <2>1
    <2>2. CASE ~(i <= Len(out))
      <3>1. i - Len(out) \in 1 .. Len(new) /\ out'[i] = new[i - Len(out)]
        BY <1>1, <1>2, <2>2
      <3> QED BY <3>1
    <2> QED BY <2>1, <2>2
  <1> QED BY <1>2, <1>3

-----------------------------------------------------------------------------
(* Types of what the threads and the child do.                             *)

LEMMA ReaderTypes ==
  ASSUME TypeOK, ReadOutput, UNCHANGED faults
  PROVE  TypeOK'
  <1>1. PICK k \in 1 .. Len(out) : Read(k)
    BY DEF ReadOutput
  <1>2. /\ footer' \in {"", "idle", "busy"} /\ out' \in Seq(ShownType)
        /\ state' = state \/ (state = "busy" /\ state' = "ready")
        /\ UNCHANGED <<call, bound, pending, tailVars, child, diskVars, logVars, turn>>
    BY <1>1, ReadFinds
  <1>3. captured' \in Shas
    <2>1. out \in Seq(ShownType) /\ captured \in Shas
      BY DEF TypeOK
    <2>2. \A i \in 1 .. Len(out) : out[i].sha \in Shas
      <3>1. \A i \in 1 .. Len(out) : out[i] \in ShownType
        BY <2>1
      <3> QED BY <3>1 DEF ShownType
    <2>3. \/ captured' = captured
          \/ \E i \in 1 .. Len(out) : captured' = out[i].sha
      BY <1>1, ReadFinds
    <2> QED BY <2>1, <2>2, <2>3
  <1>4. saw' \in BOOLEAN /\ booted' \in BOOLEAN /\ restored' \in BOOLEAN
    BY <1>1 DEF Read, TypeOK
  <1> QED BY <1>2, <1>3, <1>4 DEF tailVars, diskVars, logVars, Alive, TypeOK

LEMMA TailTypes ==
  ASSUME TypeOK, NEW t \in tails, TailReads(t) \/ TailFlushes(t) \/ TailStops(t), UNCHANGED faults
  PROVE  /\ TypeOK'
         /\ UNCHANGED <<call, bound, state, screenVars, pending, running, child, out, diskVars,
                        asked, turn>>
  <1> USE DEF diskVars, logVars, screenVars, tailVars
  <1>1. t \in TailType /\ t.left \in SUBSET Turns /\ t.held \in SUBSET Turns
    BY DEF TypeOK, TailType
  <1>2. answered' \in [Workspaces -> SUBSET Turns]
    <2>1. Emit(t.held) => answered' \in [Workspaces -> SUBSET Turns]
      <3>1. answered \in [Workspaces -> SUBSET Turns]
        BY DEF TypeOK
      <3>2. \A w \in Workspaces : answered[w] \cup t.held \in SUBSET Turns
        BY <1>1, <3>1
      <3> QED BY <3>1, <3>2 DEF Emit
    <2>2. answered' = answered \/ Emit(t.held)
      BY DEF TailReads, TailFlushes, TailStops
    <2> QED BY <2>1, <2>2 DEF TypeOK
  <1>3. tails' \subseteq TailType
    <2>1. /\ [t EXCEPT !.left = {}, !.held = t.held \cup t.left] \in TailType
          /\ [t EXCEPT !.held = {}] \in TailType
      BY <1>1 DEF TailType
    <2> QED BY <2>1 DEF TailReads, TailFlushes, TailStops, Tailed, TypeOK
  <1>4. UNCHANGED <<call, bound, state, screenVars, pending, running, child, out, diskVars,
                    asked, turn>>
    BY DEF TailReads, TailFlushes, TailStops
  <1>5. TypeOK'
    <2>1. UNCHANGED <<saw, booted, restored, captured, footer, session, cache, clock, faults>>
      BY <1>4
    <2> QED BY <1>2, <1>3, <1>4, <2>1, ZenonT(30) DEF TypeOK, Alive
  <1> QED BY <1>4, <1>5

LEMMA ShownTypes ==
  /\ \A what \in {"idle", "busy", "echo"} : Shown(what) \in ShownType /\ Shown(what).shows = what
  /\ \A what \in {"saved", "history"}, n \in Shas :
       /\ Ack(what, n) \in ShownType /\ Ack(what, n).sha = n
       /\ Ack(what, n).shows = what
  BY Small DEF Shown, Ack, ShownType

(* The three ways the child obeys a line. *)
Saving ==
  /\ Head(child.inbox).cmd = "save"
  /\ cache' = Append(cache, [ws |-> child.ws, knows |-> child.knows, time |-> clock])
  /\ Says(<<Shown("busy"), Ack("saved", Len(cache')), Shown("idle")>>)
  /\ child' = [child EXCEPT !.inbox = Tail(@)]

Switching ==
  LET line == Head(child.inbox) IN
    /\ line.cmd = "switch"
    /\ Says(<<Shown("busy"), Ack("history", line.sha), Shown("idle")>>)
    /\ child' = [child EXCEPT !.inbox = Tail(@), !.knows = cache[line.sha].knows]
    /\ UNCHANGED cache

Prompting ==
  LET line == Head(child.inbox) IN
    /\ line.cmd = "prompt" /\ child.at = "free"
    /\ Says(<<Shown("echo"), Shown("busy")>>)
    /\ child' = [child EXCEPT !.inbox = Tail(@), !.at = "work", !.doing = line.turn,
                              !.knows = @ \cup line.with \cup {line.turn}]
    /\ UNCHANGED cache

LEMMA Obeys ==
  ASSUME child \in ChildType, ChildObeys
  PROVE  /\ child.at \in {"shown", "free"} /\ child.inbox # <<>>
         /\ Saving \/ Switching \/ Prompting
         /\ UNCHANGED <<call, bound, state, screenVars, pending, tailVars, session, clock, logVars,
                        turn>>
  <1>1. /\ child.at \in {"shown", "free"} /\ child.inbox # <<>>
        /\ UNCHANGED <<call, bound, state, screenVars, pending, tailVars, session, clock, logVars,
                       turn>>
    BY DEF ChildObeys
  <1>2. Saving \/ Switching \/ Prompting
    BY DEF ChildObeys, Saving, Switching, Prompting, ChildType
  <1> QED BY <1>1, <1>2

(* The line the child obeys is the first, and the others stay in order. *)
LEMMA FirstLine ==
  ASSUME child \in ChildType, child.inbox # <<>>
  PROVE  /\ Head(child.inbox) \in LineType /\ Head(child.inbox) = child.inbox[1]
         /\ Len(child.inbox) \in Nat /\ 1 \in 1 .. Len(child.inbox)
         /\ Tail(child.inbox) \in Seq(LineType)
         /\ Len(Tail(child.inbox)) = Len(child.inbox) - 1
         /\ \A i \in 1 .. Len(Tail(child.inbox)) :
              Tail(child.inbox)[i] = child.inbox[i + 1] /\ i + 1 \in 1 .. Len(child.inbox)
  <1>1. child.inbox \in Seq(LineType)
    BY ChildTypes
  <1>2. /\ Head(child.inbox) \in LineType /\ Tail(child.inbox) \in Seq(LineType)
        /\ Len(Tail(child.inbox)) = Len(child.inbox) - 1
        /\ \A i \in 1 .. Len(Tail(child.inbox)) : Tail(child.inbox)[i] = child.inbox[i + 1]
    BY <1>1, HeadTailProperties
  <1>3. Head(child.inbox) = child.inbox[1] /\ Len(child.inbox) \in Nat /\ Len(child.inbox) # 0
    BY <1>1
  <1> QED BY <1>2, <1>3

LEMMA ChildTypesKept ==
  ASSUME TypeOK, Stages, Saves, Named, Prompted,
         ChildBoots \/ ChildObeys \/ ChildAnswers, UNCHANGED faults
  PROVE  TypeOK'
  <1> USE DEF diskVars, logVars, screenVars, tailVars
  <1>0. /\ child \in ChildType /\ out \in Seq(ShownType) /\ cache \in Seq(FileType)
        /\ Len(cache) \in Nat /\ clock \in 0 .. MaxSpawns
    <2>1. /\ child \in ChildType /\ out \in Seq(ShownType) /\ cache \in Seq(FileType)
          /\ clock \in 0 .. MaxSpawns
      BY DEF TypeOK
    <2> QED BY <2>1
  <1>1. \A what \in {"idle", "busy"} : <<Shown(what)>> \in Seq(ShownType)
    BY ShownTypes
  <1>2. CASE ChildBoots
    <2>1. out' \in Seq(ShownType)
      <3>1. out' = out \o <<Shown("idle")>> \/ out' = out \o <<Shown("busy")>>
        BY <1>2 DEF ChildBoots, Says
      <3> QED BY <1>0, <1>1, <3>1, Said
    <2>2. child' \in ChildType /\ child'.at # "none"
      <3>1. \/ child' = [child EXCEPT !.at = "shown"] \/ child' = [child EXCEPT !.at = "prefill"]
            \/ child' = [child EXCEPT !.at = "free", !.knows = {}]
        BY <1>2 DEF ChildBoots
      <3>2. /\ [child EXCEPT !.at = "shown"] \in ChildType
            /\ [child EXCEPT !.at = "prefill"] \in ChildType
            /\ [child EXCEPT !.at = "free", !.knows = {}] \in ChildType
        BY <1>0 DEF ChildType
      <3>3. /\ [child EXCEPT !.at = "shown"].at = "shown"
            /\ [child EXCEPT !.at = "prefill"].at = "prefill"
            /\ [child EXCEPT !.at = "free", !.knows = {}].at = "free"
        BY <1>0 DEF ChildType
      <3> QED BY <3>1, <3>2, <3>3
    <2> QED BY <1>2, <2>1, <2>2 DEF ChildBoots, Alive, TypeOK
  <1>3. CASE ChildObeys
    <2>0. /\ UNCHANGED <<call, bound, state, screenVars, pending, tailVars, session, clock, logVars,
                         turn>>
          /\ Alive /\ child.inbox # <<>> /\ (Saving \/ Switching \/ Prompting)
      BY <1>0, <1>3, Obeys DEF Alive
    <2> DEFINE line == Head(child.inbox)
               rest == Tail(child.inbox)
    <2>1. line \in LineType /\ rest \in Seq(LineType) /\ line = child.inbox[1]
          /\ 1 \in 1 .. Len(child.inbox)
      BY <1>0, <2>0, FirstLine
    <2>2. line.sha \in Shas /\ line.turn \in 0 .. MaxTurns /\ line.with \in SUBSET Turns
      BY <2>1, LineTypes
    <2> HIDE DEF line, rest
    <2>3. CASE Saving
      <3>1. Len(cache) < child.n /\ child.n \in 0 .. MaxSpawns /\ child.ws \in Workspaces
        BY <1>0, <2>0, <2>1, <2>3, ChildTypes DEF Saving, Saves, Stages, line
      <3>2. [ws |-> child.ws, knows |-> child.knows, time |-> clock] \in FileType
        BY <1>0, <3>1, ChildTypes DEF FileType
      <3>3. cache' \in Seq(FileType) /\ Len(cache') = Len(cache) + 1
        BY <1>0, <2>3, <3>2, AppendProperties DEF Saving
      <3>4. Len(cache') \in Shas
        BY <1>0, <3>1, <3>3 DEF Shas
      <3>5. <<Shown("busy"), Ack("saved", Len(cache')), Shown("idle")>> \in Seq(ShownType)
        BY <3>4, ShownTypes
      <3>6. out' \in Seq(ShownType)
        BY <1>0, <2>3, <3>5, Said DEF Saving, Says
      <3>7. child' \in ChildType /\ child'.at = child.at
        <4>1. child' = [child EXCEPT !.inbox = rest]
          BY <2>3 DEF Saving, rest
        <4> QED BY <1>0, <2>1, <4>1 DEF ChildType
      <3> QED BY <2>0, <3>3, <3>6, <3>7 DEF Alive, TypeOK
    <2>4. CASE Switching
      <3>1. line.sha \in 1 .. Len(cache)
        BY <2>1, <2>4 DEF Switching, Named, line
      <3>2. cache[line.sha].knows \in SUBSET Turns
        <4>1. cache[line.sha] \in FileType
          BY <1>0, <3>1
        <4> QED BY <4>1 DEF FileType
      <3>3. <<Shown("busy"), Ack("history", line.sha), Shown("idle")>> \in Seq(ShownType)
        BY <2>2, ShownTypes
      <3>4. out' \in Seq(ShownType)
        BY <1>0, <2>4, <3>3, Said DEF Switching, Says, line
      <3>5. child' \in ChildType /\ child'.at = child.at
        <4>1. child' = [child EXCEPT !.inbox = rest, !.knows = cache[line.sha].knows]
          BY <2>4 DEF Switching, rest, line
        <4> QED BY <1>0, <2>1, <3>2, <4>1 DEF ChildType
      <3> QED BY <2>0, <2>4, <3>4, <3>5 DEF Switching, Alive, TypeOK
    <2>5. CASE Prompting
      <3>1. <<Shown("echo"), Shown("busy")>> \in Seq(ShownType)
        BY ShownTypes
      <3>2. out' \in Seq(ShownType)
        BY <1>0, <2>5, <3>1, Said DEF Prompting, Says
      <3>3. line.turn \in Turns
        <4>1. line.turn \in asked[bound] /\ bound \in Workspaces
          BY <2>0, <2>1, <2>5 DEF Prompting, Prompted, Stages, line
        <4> QED BY <4>1 DEF TypeOK
      <3>4. child' \in ChildType /\ child'.at # "none"
        <4>1. child' = [child EXCEPT !.inbox = rest, !.at = "work", !.doing = line.turn,
                                     !.knows = @ \cup line.with \cup {line.turn}]
          BY <2>5 DEF Prompting, rest, line
        <4>2. child.knows \cup line.with \cup {line.turn} \in SUBSET Turns
          BY <1>0, <2>2, <3>3, ChildTypes
        <4>3. line.turn \in 0 .. MaxTurns
          BY <2>2
        <4> QED BY <1>0, <2>1, <4>1, <4>2, <4>3 DEF ChildType
      <3>5. UNCHANGED <<call, bound, state, screenVars, pending, tailVars, diskVars, logVars, turn>>
        <4>1. cache' = cache
          BY <2>5 DEF Prompting
        <4> QED BY <2>0, <4>1
      <3> QED BY <2>0, <3>2, <3>4, <3>5 DEF Alive, TypeOK
    <2> QED BY <2>0, <2>3, <2>4, <2>5
  <1>4. CASE ChildAnswers
    <2>1. out' \in Seq(ShownType)
      BY <1>0, <1>1, <1>4, Said DEF ChildAnswers, Says
    <2>2. child' \in ChildType /\ child'.at # "none"
      <3>1. child' = [child EXCEPT !.at = "free", !.doing = 0]
        BY <1>4 DEF ChildAnswers
      <3> QED BY <1>0, <3>1, Small DEF ChildType
    <2>3. tails' \subseteq TailType
      <3>1. PICK t \in tails : tails' = (tails \ {t}) \cup {[t EXCEPT !.left = @ \cup {child.doing}]}
        BY <1>4 DEF ChildAnswers, Tailed
      <3>2. child.doing \in Turns
        <4>1. child.doing \in asked[bound] /\ bound \in Workspaces
          BY <1>4 DEF ChildAnswers, Prompted, Stages, Alive
        <4> QED BY <4>1 DEF TypeOK
      <3>3. tails \subseteq TailType
        BY DEF TypeOK
      <3>4. [t EXCEPT !.left = t.left \cup {child.doing}] \in TailType
        <4>1. t \in TailType /\ t.left \cup {child.doing} \in SUBSET Turns
          BY <3>2, <3>3 DEF TailType
        <4> QED BY <4>1 DEF TailType
      <3> QED BY <3>1, <3>3, <3>4
    <2> QED BY <1>4, <2>1, <2>2, <2>3 DEF ChildAnswers, Alive, TypeOK
  <1> QED BY <1>2, <1>3, <1>4

LEMMA TypeNext == ASSUME Inv, [Next]_vars PROVE TypeOK'
  <1> USE DEF Inv
  <1>1. CASE Client
    BY <1>1, ClientTypes DEF Client
  <1>2. CASE Call
    BY <1>2, CallTypesKept DEF Call
  <1>3. CASE Reader
    BY <1>3, ReaderTypes DEF Reader
  <1>4. CASE Tailers
    BY <1>4, TailTypes DEF Tailers
  <1>5. CASE Child
    BY <1>5, ChildTypesKept DEF Child
  <1>6. CASE UNCHANGED vars
    BY <1>6, ZenonT(30) DEF vars, screenVars, tailVars, diskVars, logVars, TypeOK, Alive
  <1> QED BY <1>1, <1>2, <1>3, <1>4, <1>5, <1>6 DEF Next

-----------------------------------------------------------------------------
(* The rest of the invariant, an action at a time.                         *)

LEMMA Numbers ==
  ASSUME TypeOK
  PROVE  /\ Len(cache) \in Nat /\ Len(out) \in Nat /\ Len(child.inbox) \in Nat
         /\ child.n \in Nat /\ captured \in Nat /\ call.sha \in Nat
         /\ clock \in Nat /\ call.since \in Nat
         /\ session \in [Workspaces -> Nat] /\ turn \in Nat
         /\ child.inbox \in Seq(LineType)
  <1>1. /\ child \in ChildType /\ call \in CallType /\ cache \in Seq(FileType)
        /\ out \in Seq(ShownType) /\ captured \in Shas /\ clock \in 0 .. MaxSpawns
        /\ session \in [Workspaces -> Shas] /\ turn \in 0 .. MaxTurns
    BY DEF TypeOK
  <1>2. child.inbox \in Seq(LineType) /\ child.n \in Nat
    BY <1>1, ChildTypes
  <1>3. call.sha \in Nat /\ call.since \in Nat
    BY <1>1, CallTypes DEF Shas
  <1>4. Len(cache) \in Nat /\ Len(out) \in Nat /\ Len(child.inbox) \in Nat
    BY <1>1, <1>2
  <1> QED BY <1>1, <1>2, <1>3, <1>4 DEF Shas

(* The call goes on, and nothing else happens but the state. *)
LEMMA CallMoves ==
  ASSUME Inv,
         UNCHANGED <<faults, bound, child, out, session, cache, clock, captured, pending,
                     tails, asked, answered>>,
         call'.at # "idle",
         Alive /\ call'.at \notin {"capture", "kill"} => Len(cache) < child.n,
         call.at \in {"capture", "kill"} => call'.at \in {"capture", "kill"},
         call'.at \in {"boot", "prefill", "switch"} => call'.sha # 0,
         call'.at # "capture",
         \/ call'.sha = call.sha /\ call'.ws = call.ws
         \/ call'.sha = 0
         \/ call'.ws \in Workspaces /\ call'.sha = session[call'.ws]
  PROVE  Saves' /\ Named' /\ Prompted' /\ Conversations' /\ Traced'
  <1>1. Saves'
    BY DEF Inv, Saves, Alive
  <1>2. Named'
    BY Numbers DEF Inv, Named
  <1>3. Prompted'
    BY DEF Inv, Prompted, Alive
  <1>4. ASSUME "clock" \notin faults PROVE Sources' /\ Known'
    <2>1. Sources /\ Known
      BY <1>4 DEF Inv, Conversations
    <2>2. (call.sha # 0 => Own(call.sha, call.ws))'
      BY <2>1 DEF Sources, Own
    <2>3. Sources'
      BY <2>1, <2>2 DEF Sources, Own, Alive, At
    <2> QED BY <2>1, <2>3 DEF Known, Alive, At
  <1>5. Traced'
    BY DEF Inv, Traced, Alive, At
  <1> QED BY <1>1, <1>2, <1>3, <1>4, <1>5 DEF Conversations

LEMMA InvActivate ==
  ASSUME Inv, TypeOK', NEW w \in Workspaces, Activate(w), UNCHANGED faults
  PROVE  Inv'
  <1> USE DEF diskVars, logVars, screenVars, tailVars
  <1>1. /\ At("idle") /\ child.n < MaxSpawns
        /\ call'.at = (IF Alive THEN "save" ELSE "bind") /\ call'.ws = w
        /\ call'.sha = session[w]
        /\ state' = (IF Alive THEN "draining" ELSE state)
        /\ UNCHANGED <<bound, screenVars, pending, tailVars, child, out, diskVars, logVars, turn>>
    BY DEF Activate, Resting
  <1>2. Stages'
    BY <1>1 DEF Inv, TypeOK, Stages, Alive, At
  <1>3. Saves' /\ Named' /\ Prompted' /\ Conversations' /\ Traced'
    <2>1. Alive => Len(cache) < child.n
      BY <1>1 DEF Inv, Saves, At
    <2> QED BY <1>1, <2>1, CallMoves DEF At, Alive
  <1> QED BY <1>2, <1>3 DEF Inv

LEMMA InvReset ==
  ASSUME Inv, TypeOK', NEW w \in Workspaces, Reset(w), UNCHANGED faults
  PROVE  Inv'
  <1> USE DEF diskVars, logVars, screenVars, tailVars
  <1>1. /\ At("idle") /\ child.n < MaxSpawns /\ Alive
        /\ call'.at = "kill" /\ call'.ws = w /\ call'.sha = 0
        /\ state' = "draining"
        /\ UNCHANGED <<bound, screenVars, pending, tailVars, child, out, diskVars, logVars, turn>>
    BY DEF Reset, Resting
  <1>2. Stages'
    BY <1>1 DEF Inv, Stages, Alive, At
  <1>3. Saves' /\ Named' /\ Prompted' /\ Conversations' /\ Traced'
    BY <1>1, CallMoves DEF At
  <1> QED BY <1>2, <1>3 DEF Inv

(* The four steps of a call that only wait. *)
LEMMA InvWaits ==
  ASSUME Inv, TypeOK', CaptureTimesOut \/ Boot \/ LookBusy, UNCHANGED faults
  PROVE  Inv'
  <1> USE DEF diskVars, logVars, screenVars, tailVars
  <1>0. call \in CallType
    BY DEF Inv, TypeOK
  <1>1. /\ call'.ws = call.ws /\ call'.sha = call.sha
        /\ UNCHANGED <<bound, state, screenVars, pending, tailVars, child, out, diskVars, logVars,
                       turn>>
    BY <1>0 DEF CaptureTimesOut, Boot, LookBusy, CallType
  <1>2. \/ call.at = "capture" /\ call'.at = "kill"
        \/ call.at = "boot" /\ call'.at = "prefill"
        \/ call.at = "prefill" /\ call'.at = "prefill"
    BY <1>0 DEF CaptureTimesOut, Boot, LookBusy, CallType, At
  <1>3. Stages'
    BY <1>1, <1>2 DEF Inv, Stages, Alive, At
  <1>4. Alive /\ call'.at \notin {"capture", "kill"} => Len(cache) < child.n
    BY <1>2 DEF Inv, Saves
  <1>5. call'.at \in {"boot", "prefill", "switch"} => call'.sha # 0
    BY <1>1, <1>2 DEF Inv, Named
  <1>6. Saves' /\ Named' /\ Prompted' /\ Conversations' /\ Traced'
    BY <1>1, <1>2, <1>4, <1>5, CallMoves
  <1> QED BY <1>3, <1>6 DEF Inv

(* A log is erased with the record of its session, unless a child has it. *)
LEMMA Erased ==
  ASSUME TypeOK, NEW w \in Workspaces, Erase(w)
  PROVE  /\ asked'[w] = {} /\ answered'[w] = {} /\ session'[w] = 0
         /\ \A v \in Workspaces \ {w} : /\ asked'[v] = asked[v] /\ answered'[v] = answered[v]
                                        /\ session'[v] = session[v]
  BY DEF Erase, TypeOK

LEMMA InvResetOther ==
  ASSUME Inv, TypeOK', NEW w \in Workspaces, ResetOther(w), UNCHANGED faults
  PROVE  Inv'
  <1> USE DEF diskVars, logVars, screenVars, tailVars
  <1>0. TypeOK /\ Stages /\ Saves /\ Named /\ Prompted /\ Conversations /\ Traced
    BY DEF Inv
  <1>1. /\ At("idle") /\ ~(Alive /\ bound = w)
        /\ UNCHANGED <<call, bound, state, screenVars, pending, tailVars, child, out, cache, clock,
                       turn>>
    BY DEF ResetOther
  <1>2. /\ asked'[w] = {} /\ answered'[w] = {} /\ session'[w] = 0
        /\ \A v \in Workspaces \ {w} : /\ asked'[v] = asked[v] /\ answered'[v] = answered[v]
                                       /\ session'[v] = session[v]
    BY <1>0, Erased DEF ResetOther
  <1>3. Stages' /\ Saves'
    BY <1>0, <1>1 DEF Stages, Saves, Alive, At
  <1>4. Named'
    BY <1>0, <1>1, <1>2, Numbers DEF Named
  <1>5. Alive => bound \in Workspaces \ {w} /\ asked'[bound] = asked[bound]
    BY <1>0, <1>1, <1>2 DEF Stages
  <1>6. Prompted'
    BY <1>0, <1>1, <1>5 DEF Prompted, Alive
  <1>7. ASSUME "clock" \notin faults PROVE Sources' /\ Known'
    <2>1. Sources /\ Known
      BY <1>0, <1>7 DEF Conversations
    <2>2. \A n \in Nat, v \in Workspaces \ {w} : Own(n, v) => Own(n, v)'
      BY <1>1, <1>2 DEF Own
    <2>3. (\A v \in Workspaces : session[v] # 0 => Own(session[v], v))'
      <3>1. ASSUME NEW v \in Workspaces, session'[v] # 0 PROVE Own(session[v], v)'
        <4>1. v \in Workspaces \ {w} /\ session'[v] = session[v] /\ asked'[v] = asked[v]
          BY <1>2, <3>1
        <4>2. Own(session[v], v)
          BY <2>1, <3>1, <4>1 DEF Sources
        <4> QED BY <1>1, <4>1, <4>2 DEF Own
      <3> QED BY <3>1
    <2>4. call'.sha = 0
      BY <1>0, <1>1 DEF Stages, Resting
    <2>5. Alive =>
            /\ (\A i \in 1 .. Len(child.inbox) :
                  child.inbox[i].cmd = "switch" => Own(child.inbox[i].sha, bound))'
            /\ (\A i \in 1 .. Len(out) :
                  out[i].shows \in {"saved", "history"} => Own(out[i].sha, bound))'
      BY <1>1, <1>5, <2>1 DEF Sources, Own
    <2>6. Sources'
      BY <1>1, <2>1, <2>3, <2>4, <2>5 DEF Sources, Alive, At
    <2>7. Known'
      BY <1>1, <1>5, <2>1 DEF Known, Alive, At
    <2> QED BY <2>6, <2>7
  <1>8. Traced'
    <2>1. ASSUME "tail" \notin faults
          PROVE  /\ (\A v \in Workspaces : answered[v] \subseteq asked[v])'
                 /\ (\A t \in tails : t.left \cup t.held \subseteq asked[bound])'
                 /\ tails' # {} => bound' \in Workspaces
                 /\ (At("idle") /\ ~Alive => tails = {})'
      <3>1. \A v \in Workspaces : answered'[v] \subseteq asked'[v]
        BY <1>0, <1>2, <2>1 DEF Traced
      <3>2. tails = {} \/ Alive
        BY <1>0, <1>1, <2>1 DEF Traced
      <3> QED BY <1>0, <1>1, <1>5, <2>1, <3>1, <3>2 DEF Traced, Alive, At
    <2> QED BY <1>1, <2>1 DEF Traced
  <1> QED BY <1>3, <1>4, <1>6, <1>7, <1>8 DEF Inv, Conversations

LEMMA InvSubmit ==
  ASSUME Inv, TypeOK', Submit, UNCHANGED faults
  PROVE  Inv'
  <1> USE DEF diskVars, logVars, screenVars, tailVars
  <1>0. TypeOK /\ Stages /\ Saves /\ Named /\ Prompted /\ Conversations /\ Traced
    BY DEF Inv
  <1> DEFINE line == Line("prompt", 0, turn', pending)
  <1>1. /\ At("idle") /\ Alive /\ bound \in Workspaces /\ call = Resting
        /\ Send(line)
        /\ asked' = [asked EXCEPT ![bound] = @ \cup {turn'}]
        /\ pending' = {}
        /\ UNCHANGED <<call, bound, screenVars, tailVars, out, diskVars, answered>>
    BY <1>0 DEF Submit, Stages
  <1>2. line \in LineType
    <2>1. turn' \in Turns
      BY Numbers, <1>0 DEF Submit, Turns
    <2> QED BY <1>0, <2>1, Small DEF TypeOK
  <1>3. line.cmd = "prompt" /\ line.turn = turn' /\ line.with = pending
    BY DEF Line
  <1> HIDE DEF line
  <1>4. child \in ChildType
    BY <1>0 DEF TypeOK
  <1>5. /\ child'.at = child.at /\ child'.ws = child.ws /\ child'.knows = child.knows
        /\ child'.doing = child.doing /\ child'.n = child.n
        /\ Len(child.inbox) \in Nat
        /\ child'.inbox[Len(child.inbox) + 1] = line
        /\ \A i \in 1 .. Len(child.inbox) : child'.inbox[i] = child.inbox[i]
        /\ \A i \in 1 .. Len(child'.inbox) : i = Len(child.inbox) + 1 \/ i \in 1 .. Len(child.inbox)
    BY <1>1, <1>2, <1>4, LineSent
  <1>6. /\ \A v \in Workspaces : asked[v] \subseteq asked'[v]
        /\ turn' \in asked'[bound]
    BY <1>0, <1>1 DEF TypeOK
  <1>7. Alive'
    BY <1>1, <1>5 DEF Alive
  <1>8. Stages'
    BY <1>0, <1>1, <1>5, <1>7 DEF Stages, Alive, At
  <1>9. Saves'
    <2>1. ASSUME NEW i \in 1 .. Len(child'.inbox) PROVE child'.inbox[i].cmd # "save"
      <3>1. CASE i = Len(child.inbox) + 1
        BY <1>3, <1>5, <3>1
      <3>2. CASE i \in 1 .. Len(child.inbox)
        <4>1. child.inbox[i].cmd # "save"
          BY <1>0, <1>1, <3>2 DEF Saves, At
        <4> QED BY <1>5, <3>2, <4>1
      <3> QED BY <1>5, <3>1, <3>2
    <2> QED BY <1>0, <1>1, <1>5, <2>1 DEF Saves, Alive, At
  <1>10. Named'
    BY <1>0, <1>1, <1>3, <1>5 DEF Named
  <1>11. Prompted'
    BY <1>0, <1>1, <1>3, <1>5, <1>6 DEF Prompted
  <1>12. ASSUME "clock" \notin faults PROVE Sources' /\ Known'
    <2>1. Sources /\ Known
      BY <1>0, <1>12 DEF Conversations
    <2>2. \A n \in Nat, v \in Workspaces : Own(n, v) => Own(n, v)'
      BY <1>1, <1>6 DEF Own
    <2>3. (\A v \in Workspaces : session[v] # 0 => Own(session[v], v))'
      BY <1>0, <1>1, <2>1, <2>2, Numbers DEF Sources
    <2>4. /\ (\A i \in 1 .. Len(child.inbox) :
                  child.inbox[i].cmd = "switch" => Own(child.inbox[i].sha, bound))'
          /\ (\A i \in 1 .. Len(out) :
                  out[i].shows \in {"saved", "history"} => Own(out[i].sha, bound))'
      <3>1. ASSUME NEW n, Own(n, bound) PROVE Own(n, bound)'
        BY <1>1, <1>6, <3>1 DEF Own
      <3>2. /\ \A i \in 1 .. Len(child.inbox) :
                  child.inbox[i].cmd = "switch" => Own(child.inbox[i].sha, bound)
            /\ \A i \in 1 .. Len(out) :
                  out[i].shows \in {"saved", "history"} => Own(out[i].sha, bound)
        BY <1>1, <2>1 DEF Sources
      <3>3. ASSUME NEW i \in 1 .. Len(child'.inbox), child'.inbox[i].cmd = "switch"
            PROVE  Own(child.inbox[i].sha, bound)'
        <4>1. i \in 1 .. Len(child.inbox) /\ child'.inbox[i] = child.inbox[i]
          BY <1>3, <1>5, <3>3
        <4> QED BY <3>1, <3>2, <3>3, <4>1
      <3> QED BY <1>1, <3>1, <3>2, <3>3
    <2>5. Sources'
      BY <1>1, <2>1, <2>3, <2>4 DEF Sources, Resting, At
    <2>6. Known'
      BY <1>1, <1>3, <1>5, <1>6, <2>1 DEF Known, At
    <2> QED BY <2>5, <2>6
  <1>13. Traced'
    BY <1>0, <1>1, <1>6, <1>7 DEF Traced
  <1> QED BY <1>8, <1>9, <1>10, <1>11, <1>12, <1>13 DEF Inv, Conversations

(* Without a child there is nothing on the way to it or from it. *)
LEMMA NoneLeft ==
  ASSUME child' = [NoChild EXCEPT !.n = child.n], out' = <<>>
  PROVE  ~Alive' /\ child'.n = child.n /\ Len(child'.inbox) = 0 /\ Len(out') = 0
  BY DEF NoChild, Alive

LEMMA InvRestart ==
  ASSUME Inv, TypeOK', Restart, UNCHANGED faults
  PROVE  Inv'
  <1> USE DEF diskVars, logVars, screenVars, tailVars
  <1>0. TypeOK /\ Stages /\ Saves /\ Named /\ Prompted /\ Conversations /\ Traced
    BY DEF Inv
  <1>1. /\ At("idle") /\ call = Resting
        /\ out' = <<>> /\ captured' = 0 /\ tails' = {}
        /\ UNCHANGED <<call, diskVars, logVars, turn>>
    BY <1>0 DEF Restart, Stages
  <1>2. ~Alive' /\ child'.n = child.n /\ Len(child'.inbox) = 0 /\ Len(out') = 0
    BY NoneLeft DEF Restart
  <1>3. Stages'
    BY <1>0, <1>1, <1>2 DEF Stages, At
  <1>4. Saves'
    BY <1>0, <1>1, <1>2 DEF Saves
  <1>5. Named'
    BY <1>0, <1>1, <1>2, Numbers DEF Named
  <1>6. Prompted'
    BY <1>2 DEF Prompted
  <1>7. ASSUME "clock" \notin faults PROVE Sources' /\ Known'
    <2>1. Sources
      BY <1>0, <1>7 DEF Conversations
    <2>2. Sources'
      BY <1>1, <1>2, <2>1 DEF Sources, Own, At, Resting
    <2> QED BY <1>2, <2>2 DEF Known
  <1>8. Traced'
    BY <1>0, <1>1 DEF Traced
  <1> QED BY <1>3, <1>4, <1>5, <1>6, <1>7, <1>8 DEF Inv, Conversations

LEMMA InvSave ==
  ASSUME Inv, TypeOK', Save, UNCHANGED faults
  PROVE  Inv'
  <1> USE DEF diskVars, logVars, screenVars, tailVars
  <1>0. TypeOK /\ Stages /\ Saves /\ Named /\ Prompted /\ Conversations /\ Traced
    BY DEF Inv
  <1> DEFINE line == Line("save", 0, 0, {})
  <1>1. /\ At("save") /\ Alive /\ Send(line)
        /\ captured' = 0 /\ clock' \in {clock, clock + 1}
        /\ "clock" \notin faults => clock' = clock + 1
        /\ UNCHANGED <<bound, state, pending, tailVars, out, session, cache, logVars, turn>>
    BY <1>0 DEF Save, Stages, At
  <1>2. line \in LineType
    BY Small
  <1>3. line.cmd = "save" /\ line.with = {}
    BY DEF Line
  <1> HIDE DEF line
  <1>4. child \in ChildType /\ call \in CallType
    BY <1>0 DEF TypeOK
  <1>5. /\ child'.at = child.at /\ child'.ws = child.ws /\ child'.knows = child.knows
        /\ child'.doing = child.doing /\ child'.n = child.n
        /\ Len(child.inbox) \in Nat /\ Len(child'.inbox) = Len(child.inbox) + 1
        /\ child'.inbox[Len(child.inbox) + 1] = line
        /\ \A i \in 1 .. Len(child.inbox) : child'.inbox[i] = child.inbox[i]
        /\ \A i \in 1 .. Len(child'.inbox) : i = Len(child.inbox) + 1 \/ i \in 1 .. Len(child.inbox)
    BY <1>1, <1>2, <1>4, LineSent
  <1>6. /\ call'.at = "capture" /\ call'.since = clock' /\ call'.sha = call.sha
        /\ call'.ws = call.ws
    BY <1>4 DEF Save, CallType
  <1>7. Stages'
    BY <1>0, <1>1, <1>5, <1>6 DEF Stages, Alive, At
  <1>8. Saves'
    <2>1. Len(cache) < child.n
      BY <1>0, <1>1 DEF Saves, At
    <2>2. \A i \in 1 .. Len(child'.inbox) :
            child'.inbox[i].cmd = "save" => i = Len(child'.inbox)
      BY <1>0, <1>1, <1>5 DEF Saves, At
    <2> QED BY <1>0, <1>1, <1>5, <1>6, <2>1, <2>2 DEF Saves
  <1>9. Named'
    <2>1. \A i \in 1 .. Len(child'.inbox) :
            child'.inbox[i].cmd = "switch" => child'.inbox[i].sha \in 1 .. Len(cache)
      BY <1>0, <1>3, <1>5 DEF Named
    <2>2. 0 <= Len(cache)
      BY <1>0, Numbers
    <2> QED BY <1>0, <1>1, <1>6, <2>1, <2>2 DEF Named
  <1>10. Prompted'
    BY <1>0, <1>1, <1>3, <1>5 DEF Prompted
  <1>11. ASSUME "clock" \notin faults PROVE Sources' /\ Known'
    <2>1. Sources /\ Known
      BY <1>0, <1>11 DEF Conversations
    <2>2. clock \in Nat /\ clock' = clock + 1 /\ \A n \in 1 .. Len(cache) : cache[n].time \in Nat
      <3>1. cache \in Seq(FileType)
        BY <1>0 DEF TypeOK
      <3>2. \A n \in 1 .. Len(cache) : cache[n] \in FileType
        BY <3>1
      <3> QED BY <1>0, <1>1, <1>11, <3>2, Numbers DEF FileType
    <2>3. /\ \A n \in 1 .. Len(cache) : cache[n].time <= clock'
          /\ \A n \in 1 .. Len(cache) : ~(cache[n].time >= clock')
      BY <2>1, <2>2 DEF Sources
    <2>4. ASSUME NEW i \in 1 .. Len(child'.inbox), child'.inbox[i].cmd = "switch"
          PROVE  Own(child.inbox[i].sha, bound)'
      <3>1. i \in 1 .. Len(child.inbox) /\ child'.inbox[i] = child.inbox[i]
        BY <1>3, <1>5, <2>4
      <3>2. Own(child.inbox[i].sha, bound)
        BY <1>1, <2>1, <2>4, <3>1 DEF Sources
      <3>3. UNCHANGED <<cache, asked, bound>>
        BY <1>1
      <3> QED BY <3>1, <3>2, <3>3 DEF Own
    <2>5. Sources'
      <3>1. \A w \in Workspaces : session'[w] # 0 => Own(session[w], w)'
        BY <1>1, <2>1 DEF Sources, Own
      <3>2. call'.sha # 0 => Own(call.sha, call.ws)'
        BY <1>1, <1>6, <2>1 DEF Sources, Own
      <3>3. \A n \in 1 .. Len(cache') : cache'[n].time <= clock'
        BY <1>1, <2>3
      <3>4. Alive /\ \A i \in 1 .. Len(out') :
                        out'[i].shows \in {"saved", "history"} => Own(out[i].sha, bound)'
        BY <1>1, <2>1 DEF Sources, Own
      <3>5. captured' = 0 /\ \A n \in 1 .. Len(cache') : ~(cache'[n].time >= call'.since)
        BY <1>1, <1>6, <2>3
      <3> QED BY <2>4, <3>1, <3>2, <3>3, <3>4, <3>5 DEF Sources
    <2>6. Known'
      BY <1>1, <1>3, <1>5, <1>6, <2>1 DEF Known, At
    <2> QED BY <2>5, <2>6
  <1>12. Traced'
    BY <1>0, <1>1, <1>6 DEF Traced, At
  <1> QED BY <1>7, <1>8, <1>9, <1>10, <1>11, <1>12 DEF Inv, Conversations

LEMMA InvCapture ==
  ASSUME Inv, TypeOK', Capture, UNCHANGED faults
  PROVE  Inv'
  <1> USE DEF diskVars, logVars, screenVars, tailVars
  <1>0. TypeOK /\ Stages /\ Saves /\ Named /\ Prompted /\ Conversations /\ Traced
    BY DEF Inv
  <1>1. PICK sha \in (IF NewestSaved(call.since) # {} THEN NewestSaved(call.since)
                      ELSE {captured} \ {0}) :
               session' = [session EXCEPT ![bound] = sha]
    BY DEF Capture
  <1>2. /\ At("capture") /\ Alive /\ bound \in Workspaces
        /\ UNCHANGED <<bound, state, screenVars, pending, tailVars, child, out, cache, clock,
                       logVars, turn>>
    BY <1>0 DEF Capture, Stages, At
  <1>3. call'.at = "kill" /\ call'.sha = call.sha /\ call'.ws = call.ws
    <2>1. call \in CallType
      BY <1>0 DEF TypeOK
    <2> QED BY <2>1 DEF Capture, CallType
  <1>4. session'[bound] = sha /\ \A v \in Workspaces \ {bound} : session'[v] = session[v]
    BY <1>0, <1>1, <1>2 DEF TypeOK
  <1>5. \/ sha \in 1 .. Len(cache) /\ cache[sha].time >= call.since
        \/ sha = captured /\ captured # 0
    BY <1>1 DEF NewestSaved
  <1>6. Stages'
    BY <1>0, <1>2, <1>3 DEF Stages, Alive, At
  <1>7. Saves'
    BY <1>0, <1>2, <1>3 DEF Saves, Alive, At
  <1>8. Named'
    <2>1. sha <= Len(cache)
      BY <1>0, <1>5 DEF Named
    <2>2. \A v \in Workspaces : session'[v] <= Len(cache)
      BY <1>0, <1>4, <2>1 DEF Named
    <2> QED BY <1>0, <1>2, <1>3, <2>2 DEF Named
  <1>9. Prompted'
    BY <1>0, <1>2 DEF Prompted, Alive
  <1>10. ASSUME "clock" \notin faults PROVE Sources' /\ Known'
    <2>1. Sources /\ Known
      BY <1>0, <1>10 DEF Conversations
    <2>2. Own(sha, bound)
      BY <1>2, <1>5, <2>1 DEF Sources
    <2>3. (\A v \in Workspaces : session[v] # 0 => Own(session[v], v))'
      BY <1>2, <1>4, <2>1, <2>2 DEF Sources, Own
    <2>4. Sources'
      BY <1>2, <1>3, <2>1, <2>3 DEF Sources, Own, Alive, At
    <2> QED BY <1>2, <1>3, <2>1, <2>4 DEF Known, Alive, At
  <1>11. Traced'
    BY <1>0, <1>2, <1>3 DEF Traced, At
  <1> QED BY <1>6, <1>7, <1>8, <1>9, <1>10, <1>11 DEF Inv, Conversations

LEMMA InvKill ==
  ASSUME Inv, TypeOK', Kill, UNCHANGED faults
  PROVE  Inv'
  <1> USE DEF diskVars, logVars, screenVars, tailVars
  <1>0. TypeOK /\ Stages /\ Saves /\ Named /\ Prompted /\ Conversations /\ Traced
    BY DEF Inv
  <1>1. /\ call.at = "kill" /\ out' = <<>>
        /\ UNCHANGED <<bound, state, screenVars, pending, tails, diskVars, logVars, turn>>
    BY DEF Kill, At
  <1>2. ~Alive' /\ child'.n = child.n /\ Len(child'.inbox) = 0 /\ Len(out') = 0
    BY NoneLeft DEF Kill
  <1>3. call'.at \in {"wipe", "bind"} /\ call'.sha = call.sha /\ call'.ws = call.ws
    <2>1. call \in CallType
      BY <1>0 DEF TypeOK
    <2> QED BY <2>1 DEF Kill, CallType
  <1>4. Stages'
    BY <1>0, <1>1, <1>2, <1>3 DEF Stages, At
  <1>5. Saves'
    BY <1>0, <1>1, <1>2 DEF Saves
  <1>6. Named'
    BY <1>0, <1>1, <1>2, <1>3 DEF Named
  <1>7. Prompted'
    BY <1>2 DEF Prompted
  <1>8. ASSUME "clock" \notin faults PROVE Sources' /\ Known'
    <2>1. Sources
      BY <1>0, <1>8 DEF Conversations
    <2>2. Sources'
      BY <1>1, <1>2, <1>3, <2>1 DEF Sources, Own, At
    <2> QED BY <1>2, <2>2 DEF Known
  <1>9. Traced'
    BY <1>0, <1>1, <1>3 DEF Traced, At
  <1> QED BY <1>4, <1>5, <1>6, <1>7, <1>8, <1>9 DEF Inv, Conversations

LEMMA InvWipe ==
  ASSUME Inv, TypeOK', Wipe, UNCHANGED faults
  PROVE  Inv'
  <1> USE DEF diskVars, logVars, screenVars, tailVars
  <1>0. TypeOK /\ Stages /\ Saves /\ Named /\ Prompted /\ Conversations /\ Traced
    BY DEF Inv
  <1> DEFINE w == call.ws
  <1>1. /\ call.at = "wipe" /\ TailsGone /\ ~Alive /\ w \in Workspaces /\ Erase(w)
        /\ UNCHANGED <<bound, state, screenVars, pending, tailVars, child, out, cache, clock, turn>>
    BY <1>0 DEF Wipe, Stages, At
  <1>2. call \in CallType /\ call' = [call EXCEPT !.at = "bind", !.sha = session'[call.ws]]
    BY <1>0 DEF Wipe, TypeOK
  <1> HIDE DEF w
  <1>3. /\ asked'[w] = {} /\ answered'[w] = {} /\ session'[w] = 0
        /\ \A v \in Workspaces \ {w} : /\ asked'[v] = asked[v] /\ answered'[v] = answered[v]
                                       /\ session'[v] = session[v]
    BY <1>0, <1>1, Erased
  <1>4. call'.at = "bind" /\ call'.sha = 0 /\ call'.ws = call.ws
    BY <1>2, <1>3 DEF CallType, w
  <1>5. Stages' /\ Saves'
    BY <1>0, <1>1, <1>4 DEF Stages, Saves, Alive, At
  <1>6. Named'
    <2>1. \A v \in Workspaces : session'[v] <= Len(cache)
      BY <1>0, <1>3, Numbers DEF Named
    <2> QED BY <1>0, <1>1, <1>4, <2>1, Numbers DEF Named
  <1>7. Prompted'
    BY <1>1 DEF Prompted, Alive
  <1>8. ASSUME "clock" \notin faults PROVE Sources' /\ Known'
    <2>1. Sources
      BY <1>0, <1>8 DEF Conversations
    <2>2. (\A v \in Workspaces : session[v] # 0 => Own(session[v], v))'
      <3>1. ASSUME NEW v \in Workspaces, session'[v] # 0 PROVE Own(session[v], v)'
        <4>1. v \in Workspaces \ {w} /\ session'[v] = session[v] /\ asked'[v] = asked[v]
          BY <1>3, <3>1
        <4>2. Own(session[v], v)
          BY <2>1, <3>1, <4>1 DEF Sources
        <4> QED BY <1>1, <4>1, <4>2 DEF Own
      <3> QED BY <3>1
    <2>3. Sources'
      BY <1>1, <1>4, <2>1, <2>2 DEF Sources, Alive, At
    <2> QED BY <1>1, <2>3 DEF Known, Alive
  <1>9. Traced'
    <2>1. ASSUME "tail" \notin faults
          PROVE  /\ \A v \in Workspaces : answered'[v] \subseteq asked'[v]
                 /\ tails' = {}
      BY <1>0, <1>1, <1>3, <2>1 DEF Traced, TailsGone
    <2> QED BY <2>1 DEF Traced
  <1> QED BY <1>5, <1>6, <1>7, <1>8, <1>9 DEF Inv, Conversations

LEMMA InvBind ==
  ASSUME Inv, TypeOK', Bind, UNCHANGED faults
  PROVE  Inv'
  <1> USE DEF diskVars, logVars, screenVars, tailVars
  <1>0. TypeOK /\ Stages /\ Saves /\ Named /\ Prompted /\ Conversations /\ Traced
    BY DEF Inv
  <1>1. /\ call.at = "bind" /\ TailsGone /\ ~Alive /\ call.ws \in Workspaces /\ out = <<>>
        /\ bound' = call.ws
        /\ tails' = tails \cup {[n |-> child.n + 1, left |-> {}, held |-> {}]}
        /\ UNCHANGED <<restored, captured, out, diskVars, logVars, turn>>
    BY <1>0 DEF Bind, Stages, At
  <1>2. /\ child'.at = "start" /\ child'.ws = call.ws /\ child'.n = child.n + 1
        /\ child'.knows = {} /\ Len(child'.inbox) = 0 /\ Len(out') = 0
    BY <1>1 DEF Bind, NoChild
  <1>3. \/ call'.at = "boot" /\ call'.sha = call.sha /\ call'.ws = call.ws
           /\ call.sha # 0 /\ state' = "spawning"
        \/ call' = Resting /\ pending' = asked[call.ws] /\ state' = "ready"
    <2>1. call \in CallType
      BY <1>0 DEF TypeOK
    <2>2. CASE call.sha # 0
      <3>1. call' = [call EXCEPT !.at = "boot"] /\ state' = "spawning"
        BY <2>2 DEF Bind
      <3>2. call'.at = "boot" /\ call'.sha = call.sha /\ call'.ws = call.ws
        BY <2>1, <3>1 DEF CallType
      <3> QED BY <2>2, <3>1, <3>2
    <2>3. CASE call.sha = 0
      BY <2>3 DEF Bind, Prefill
    <2> QED BY <2>2, <2>3
  <1>4. Alive' /\ child.n \in Nat /\ child'.n # 0
    BY <1>0, <1>2, Numbers DEF Alive
  <1>5. Stages'
    BY <1>1, <1>2, <1>3, <1>4 DEF Stages, At, Resting
  <1>6. Saves'
    BY <1>0, <1>1, <1>2, <1>4, Numbers DEF Saves
  <1>7. Named'
    <2>1. call'.sha <= Len(cache) /\ (call'.at \in {"boot", "prefill", "switch"} => call'.sha # 0)
      BY <1>0, <1>3, Numbers DEF Named, Resting
    <2> QED BY <1>0, <1>1, <1>2, <2>1 DEF Named
  <1>8. Prompted'
    BY <1>2 DEF Prompted
  <1>9. ASSUME "clock" \notin faults PROVE Sources' /\ Known'
    <2>1. Sources
      BY <1>0, <1>9 DEF Conversations
    <2>2. (call.sha # 0 => Own(call.sha, call.ws))'
      BY <1>1, <1>3, <2>1 DEF Sources, Own, Resting
    <2>3. ~At("capture")'
      BY <1>3 DEF At, Resting
    <2>4. Sources'
      BY <1>1, <1>2, <2>1, <2>2, <2>3 DEF Sources, Own
    <2>5. Known'
      BY <1>1, <1>2, <1>3 DEF Known, At
    <2> QED BY <2>4, <2>5
  <1>10. Traced'
    <2>1. ASSUME "tail" \notin faults
          PROVE  /\ \A v \in Workspaces : answered'[v] \subseteq asked'[v]
                 /\ \A t \in tails' : t.left \cup t.held = {}
      BY <1>0, <1>1, <2>1 DEF Traced, TailsGone
    <2> QED BY <1>1, <1>4, <2>1 DEF Traced
  <1> QED BY <1>5, <1>6, <1>7, <1>8, <1>9, <1>10 DEF Inv, Conversations

LEMMA InvSwitch ==
  ASSUME Inv, TypeOK', Switch, UNCHANGED faults
  PROVE  Inv'
  <1> USE DEF diskVars, logVars, screenVars, tailVars
  <1>0. TypeOK /\ Stages /\ Saves /\ Named /\ Prompted /\ Conversations /\ Traced
    BY DEF Inv
  <1> DEFINE line == Line("switch", call.sha, 0, {})
  <1>1. /\ call.at = "prefill" /\ Alive /\ bound = call.ws /\ Send(line)
        /\ UNCHANGED <<bound, state, captured, pending, tailVars, out, diskVars, logVars, turn>>
    BY <1>0 DEF Switch, Stages, At
  <1>2. child \in ChildType /\ call \in CallType
    BY <1>0 DEF TypeOK
  <1>3. line \in LineType
    BY <1>2, CallTypes, Small
  <1>4. line.cmd = "switch" /\ line.sha = call.sha /\ line.with = {}
    BY DEF Line
  <1> HIDE DEF line
  <1>5. /\ child'.at = child.at /\ child'.ws = child.ws /\ child'.knows = child.knows
        /\ child'.doing = child.doing /\ child'.n = child.n
        /\ Len(child.inbox) \in Nat
        /\ child'.inbox[Len(child.inbox) + 1] = line
        /\ \A i \in 1 .. Len(child.inbox) : child'.inbox[i] = child.inbox[i]
        /\ \A i \in 1 .. Len(child'.inbox) : i = Len(child.inbox) + 1 \/ i \in 1 .. Len(child.inbox)
    BY <1>1, <1>2, <1>3, LineSent
  <1>6. call'.at = "switch" /\ call'.sha = call.sha /\ call'.ws = call.ws
    BY <1>2 DEF Switch, CallType
  <1>7. Stages'
    BY <1>0, <1>1, <1>5, <1>6 DEF Stages, Alive, At
  <1>8. Saves'
    <2>1. Len(cache) < child.n
      BY <1>0, <1>1 DEF Saves
    <2>2. \A i \in 1 .. Len(child'.inbox) : child'.inbox[i].cmd # "save"
      BY <1>0, <1>1, <1>4, <1>5 DEF Saves
    <2> QED BY <1>0, <1>1, <1>5, <2>1, <2>2 DEF Saves
  <1>9. Named'
    <2>1. call.sha \in 1 .. Len(cache)
      BY <1>0, <1>1, Numbers DEF Named
    <2>2. \A i \in 1 .. Len(child'.inbox) :
            child'.inbox[i].cmd = "switch" => child'.inbox[i].sha \in 1 .. Len(cache)
      BY <1>0, <1>4, <1>5, <2>1 DEF Named
    <2> QED BY <1>0, <1>1, <1>6, <2>1, <2>2 DEF Named
  <1>10. Prompted'
    BY <1>0, <1>1, <1>4, <1>5 DEF Prompted
  <1>11. ASSUME "clock" \notin faults PROVE Sources' /\ Known'
    <2>1. Sources /\ Known
      BY <1>0, <1>11 DEF Conversations
    <2>2. Own(call.sha, bound)
      BY <1>0, <1>1, <2>1 DEF Sources, Named
    <2>3. (\A i \in 1 .. Len(child.inbox) :
                  child.inbox[i].cmd = "switch" => Own(child.inbox[i].sha, bound))'
      <3>1. \A i \in 1 .. Len(child.inbox) :
              child.inbox[i].cmd = "switch" => Own(child.inbox[i].sha, bound)
        BY <1>1, <2>1 DEF Sources
      <3>2. \A i \in 1 .. Len(child'.inbox) :
              child'.inbox[i].cmd = "switch" => Own(child'.inbox[i].sha, bound)
        BY <1>4, <1>5, <2>2, <3>1
      <3> QED BY <1>1, <3>2 DEF Own
    <2>4. Sources'
      BY <1>1, <1>6, <2>1, <2>3 DEF Sources, Own, At
    <2>5. Known'
      BY <1>1, <1>4, <1>5, <1>6, <2>1 DEF Known, At
    <2> QED BY <2>4, <2>5
  <1>12. Traced'
    BY <1>0, <1>1, <1>6 DEF Traced, At
  <1> QED BY <1>7, <1>8, <1>9, <1>10, <1>11, <1>12 DEF Inv, Conversations

LEMMA InvSwitched ==
  ASSUME Inv, TypeOK', Switched, UNCHANGED faults
  PROVE  Inv'
  <1> USE DEF diskVars, logVars, screenVars, tailVars
  <1>0. TypeOK /\ Stages /\ Saves /\ Named /\ Prompted /\ Conversations /\ Traced
    BY DEF Inv
  <1>1. /\ call.at = "switch" /\ Alive /\ bound \in Workspaces
        /\ call' = Resting /\ state' = "ready" /\ pending' \subseteq asked[bound]
        /\ UNCHANGED <<bound, screenVars, tailVars, child, out, diskVars, logVars, turn>>
    BY <1>0 DEF Switched, Prefill, Stages, At
  <1>2. Stages'
    BY <1>0, <1>1 DEF Stages, Alive, At, Resting
  <1>3. Saves'
    BY <1>0, <1>1 DEF Saves, Alive
  <1>4. Named'
    BY <1>0, <1>1, Numbers DEF Named, Resting
  <1>5. Prompted'
    BY <1>0, <1>1 DEF Prompted, Alive
  <1>6. ASSUME "clock" \notin faults PROVE Sources' /\ Known'
    <2>1. Sources /\ Known
      BY <1>0, <1>6 DEF Conversations
    <2>2. Sources'
      BY <1>1, <2>1 DEF Sources, Own, Alive, At, Resting
    <2>3. Known'
      BY <1>1, <2>1 DEF Known, Alive
    <2> QED BY <2>2, <2>3
  <1>7. Traced'
    BY <1>0, <1>1 DEF Traced, Alive
  <1> QED BY <1>2, <1>3, <1>4, <1>5, <1>6, <1>7 DEF Inv, Conversations

LEMMA InvRead ==
  ASSUME Inv, TypeOK', ReadOutput, UNCHANGED faults
  PROVE  Inv'
  <1> USE DEF diskVars, logVars, tailVars
  <1>0. TypeOK /\ Stages /\ Saves /\ Named /\ Prompted /\ Conversations /\ Traced
    BY DEF Inv
  <1>1. PICK k \in 1 .. Len(out) : Read(k)
    BY DEF ReadOutput
  <1>2. /\ \/ captured' = captured
           \/ \E i \in 1 .. Len(out) :
                out[i].shows \in {"saved", "history"} /\ captured' = out[i].sha
        /\ \A i \in 1 .. Len(out') : \E j \in 1 .. Len(out) : out'[i] = out[j]
        /\ state' = state \/ (state = "busy" /\ state' = "ready")
        /\ UNCHANGED <<call, bound, pending, tailVars, child, diskVars, logVars, turn>>
    BY <1>0, <1>1, ReadFinds
  <1>3. Alive
    <2>1. out # <<>>
      BY <1>1
    <2> QED BY <1>0, <2>1 DEF Stages
  <1>4. Stages'
    BY <1>0, <1>2, <1>3 DEF Stages, Alive, At
  <1>5. Saves'
    BY <1>0, <1>2 DEF Saves, Alive
  <1>6. Named'
    <2>1. captured' <= Len(cache)
      BY <1>0, <1>2, Numbers DEF Named
    <2>2. \A i \in 1 .. Len(out') :
            out'[i].shows \in {"saved", "history"} => out'[i].sha \in 1 .. Len(cache)
      BY <1>0, <1>2 DEF Named
    <2> QED BY <1>0, <1>2, <2>1, <2>2 DEF Named
  <1>7. Prompted'
    BY <1>0, <1>2 DEF Prompted, Alive
  <1>8. ASSUME "clock" \notin faults PROVE Sources' /\ Known'
    <2>1. Sources /\ Known
      BY <1>0, <1>8 DEF Conversations
    <2>2. \A i \in 1 .. Len(out) :
            out[i].shows \in {"saved", "history"} => Own(out[i].sha, bound)
      BY <1>3, <2>1 DEF Sources
    <2>3. (\A i \in 1 .. Len(out) :
            out[i].shows \in {"saved", "history"} => Own(out[i].sha, bound))'
      BY <1>2, <2>2 DEF Own
    <2>4. At("capture") /\ captured' # 0 => Own(captured, bound)'
      BY <1>2, <2>1, <2>2 DEF Sources, Own
    <2>5. Sources'
      BY <1>2, <1>3, <2>1, <2>3, <2>4 DEF Sources, Own, Alive, At
    <2>6. Known'
      BY <1>2, <2>1 DEF Known, Alive, At
    <2> QED BY <2>5, <2>6
  <1>9. Traced'
    BY <1>0, <1>2 DEF Traced, Alive, At
  <1> QED BY <1>4, <1>5, <1>6, <1>7, <1>8, <1>9 DEF Inv, Conversations

LEMMA InvTails ==
  ASSUME Inv, TypeOK', NEW t \in tails, TailReads(t) \/ TailFlushes(t) \/ TailStops(t),
         UNCHANGED faults
  PROVE  Inv'
  <1> USE DEF diskVars, logVars, screenVars, tailVars
  <1>0. TypeOK /\ Stages /\ Saves /\ Named /\ Prompted /\ Conversations /\ Traced
    BY DEF Inv
  <1>1. UNCHANGED <<call, bound, state, screenVars, pending, running, child, out, diskVars,
                    asked, turn>>
    BY DEF TailReads, TailFlushes, TailStops
  <1>2. Stages' /\ Saves' /\ Named' /\ Prompted'
    BY <1>0, <1>1 DEF Stages, Saves, Named, Prompted, Alive, At
  <1>3. Conversations'
    BY <1>0, <1>1 DEF Conversations, Sources, Known, Own, Alive, At
  <1>4. ASSUME "tail" \notin faults
        PROVE  /\ \A w \in Workspaces : answered'[w] \subseteq asked[w]
               /\ \A s \in tails' : s.left \cup s.held \subseteq asked[bound]
    <2>1. /\ \A w \in Workspaces : answered[w] \subseteq asked[w]
          /\ \A s \in tails : s.left \cup s.held \subseteq asked[bound]
          /\ bound \in Workspaces
      BY <1>0, <1>4 DEF Traced
    <2>2. t \in TailType /\ answered \in [Workspaces -> SUBSET Turns]
      BY <1>0 DEF TypeOK
    <2>3. answered' = answered \/ answered' = [answered EXCEPT ![bound] = @ \cup t.held]
      BY DEF TailReads, TailFlushes, TailStops, Emit
    <2>4. \A w \in Workspaces : answered'[w] \subseteq asked[w]
      BY <2>1, <2>2, <2>3
    <2>5. ASSUME NEW s \in tails', s \notin tails
          PROVE  s.left \cup s.held \subseteq t.left \cup t.held
      <3>1. \/ s = [t EXCEPT !.left = {}, !.held = @ \cup t.left]
            \/ s = [t EXCEPT !.held = {}]
        BY <2>5 DEF TailReads, TailFlushes, TailStops, Tailed
      <3>2. /\ [t EXCEPT !.left = {}, !.held = @ \cup t.left].left = {}
            /\ [t EXCEPT !.left = {}, !.held = @ \cup t.left].held = t.held \cup t.left
            /\ [t EXCEPT !.held = {}].left = t.left /\ [t EXCEPT !.held = {}].held = {}
        BY <2>2 DEF TailType
      <3> QED BY <3>1, <3>2
    <2> QED BY <2>1, <2>4, <2>5
  <1>5. tails' # {} => tails # {}
    OBVIOUS
  <1>6. Traced'
    BY <1>0, <1>1, <1>4, <1>5 DEF Traced, Alive, At, TailReads, TailFlushes, TailStops
  <1> QED BY <1>2, <1>3, <1>6 DEF Inv

LEMMA InvChildBoots ==
  ASSUME Inv, TypeOK', ChildBoots, UNCHANGED faults
  PROVE  Inv'
  <1> USE DEF diskVars, logVars, screenVars, tailVars
  <1>0. TypeOK /\ Stages /\ Saves /\ Named /\ Prompted /\ Conversations /\ Traced
    BY DEF Inv
  <1>1. child \in ChildType /\ out \in Seq(ShownType)
    BY <1>0 DEF TypeOK
  <1>2. /\ Alive /\ UNCHANGED <<call, bound, state, pending, tailVars, diskVars, logVars, turn>>
        /\ captured' = captured
    BY DEF ChildBoots, Alive
  <1>3. /\ child'.at \in {"shown", "prefill", "free"} /\ child'.knows \in {child.knows, {}}
        /\ child'.ws = child.ws /\ child'.n = child.n
        /\ child'.inbox = child.inbox /\ child'.doing = child.doing
    <2>1. \/ child' = [child EXCEPT !.at = "shown"] \/ child' = [child EXCEPT !.at = "prefill"]
          \/ child' = [child EXCEPT !.at = "free", !.knows = {}]
      BY DEF ChildBoots
    <2>2. CASE child' = [child EXCEPT !.at = "shown"]
      BY <1>1, <2>2 DEF ChildType
    <2>3. CASE child' = [child EXCEPT !.at = "prefill"]
      BY <1>1, <2>3 DEF ChildType
    <2>4. CASE child' = [child EXCEPT !.at = "free", !.knows = {}]
      BY <1>1, <2>4 DEF ChildType
    <2> QED BY <2>1, <2>2, <2>3, <2>4
  <1>4. \A i \in 1 .. Len(out') :
          \/ \E j \in 1 .. Len(out) : out'[i] = out[j]
          \/ out'[i].shows \in {"idle", "busy"}
    <2>1. PICK what \in {"idle", "busy"} : out' = out \o <<Shown(what)>>
      BY DEF ChildBoots, Says
    <2>2. <<Shown(what)>> \in Seq(ShownType)
      BY ShownTypes
    <2>3. \A j \in 1 .. Len(<<Shown(what)>>) : <<Shown(what)>>[j].shows \in {"idle", "busy"}
      BY ShownTypes
    <2> QED BY <1>1, <2>1, <2>2, <2>3, Said
  <1>5. Alive'
    BY <1>3 DEF Alive
  <1>6. Stages'
    BY <1>0, <1>2, <1>3, <1>5 DEF Stages, At
  <1>7. Saves'
    BY <1>0, <1>2, <1>3 DEF Saves
  <1>8. Named'
    <2>1. \A i \in 1 .. Len(out') :
            out'[i].shows \in {"saved", "history"} => out'[i].sha \in 1 .. Len(cache)
      BY <1>0, <1>4 DEF Named
    <2> QED BY <1>0, <1>2, <1>3, <2>1 DEF Named
  <1>9. Prompted'
    BY <1>0, <1>2, <1>3 DEF Prompted
  <1>10. ASSUME "clock" \notin faults PROVE Sources' /\ Known'
    <2>1. Sources /\ Known
      BY <1>0, <1>10 DEF Conversations
    <2>2. \A i \in 1 .. Len(out') :
            out'[i].shows \in {"saved", "history"} => Own(out'[i].sha, bound)
      BY <1>2, <1>4, <2>1 DEF Sources
    <2>3. Sources'
      BY <1>2, <1>3, <2>1, <2>2 DEF Sources, Own, At
    <2>4. Known'
      BY <1>2, <1>3, <2>1 DEF Known, At
    <2> QED BY <2>3, <2>4
  <1>11. Traced'
    BY <1>0, <1>2, <1>5 DEF Traced, At
  <1> QED BY <1>6, <1>7, <1>8, <1>9, <1>10, <1>11 DEF Inv, Conversations

LEMMA InvChildAnswers ==
  ASSUME Inv, TypeOK', ChildAnswers, UNCHANGED faults
  PROVE  Inv'
  <1> USE DEF diskVars, logVars, screenVars, tailVars
  <1>0. TypeOK /\ Stages /\ Saves /\ Named /\ Prompted /\ Conversations /\ Traced
    BY DEF Inv
  <1>1. child \in ChildType /\ out \in Seq(ShownType)
    BY <1>0 DEF TypeOK
  <1>2. /\ Alive /\ child.at = "work"
        /\ UNCHANGED <<call, bound, state, pending, running, diskVars, logVars, turn>>
        /\ captured' = captured
    BY DEF ChildAnswers, Alive
  <1>3. /\ child'.at = "free" /\ child'.knows = child.knows
        /\ child'.ws = child.ws /\ child'.n = child.n /\ child'.inbox = child.inbox
    <2>1. child' = [child EXCEPT !.at = "free", !.doing = 0]
      BY DEF ChildAnswers
    <2> QED BY <1>1, <2>1 DEF ChildType
  <1>4. \A i \in 1 .. Len(out') :
          \/ \E j \in 1 .. Len(out) : out'[i] = out[j]
          \/ out'[i].shows = "idle"
    <2>1. out' = out \o <<Shown("idle")>>
      BY DEF ChildAnswers, Says
    <2>2. <<Shown("idle")>> \in Seq(ShownType)
      BY ShownTypes
    <2>3. \A j \in 1 .. Len(<<Shown("idle")>>) : <<Shown("idle")>>[j].shows = "idle"
      BY ShownTypes
    <2> QED BY <1>1, <2>1, <2>2, <2>3, Said
  <1>5. Alive'
    BY <1>3 DEF Alive
  <1>6. Stages'
    BY <1>0, <1>2, <1>3, <1>5 DEF Stages, At
  <1>7. Saves'
    BY <1>0, <1>2, <1>3 DEF Saves, Alive
  <1>8. Named'
    <2>1. \A i \in 1 .. Len(out') :
            out'[i].shows \in {"saved", "history"} => out'[i].sha \in 1 .. Len(cache)
      BY <1>0, <1>4 DEF Named
    <2> QED BY <1>0, <1>2, <1>3, <2>1 DEF Named
  <1>9. Prompted'
    BY <1>0, <1>2, <1>3 DEF Prompted
  <1>10. ASSUME "clock" \notin faults PROVE Sources' /\ Known'
    <2>1. Sources /\ Known
      BY <1>0, <1>10 DEF Conversations
    <2>2. \A i \in 1 .. Len(out') :
            out'[i].shows \in {"saved", "history"} => Own(out'[i].sha, bound)
      BY <1>2, <1>4, <2>1 DEF Sources
    <2>3. Sources'
      BY <1>2, <1>3, <2>1, <2>2 DEF Sources, Own, At
    <2>4. Known'
      BY <1>2, <1>3, <2>1 DEF Known, At
    <2> QED BY <2>3, <2>4
  <1>11. Traced'
    <2>1. child.doing \in asked[bound] /\ bound \in Workspaces
      BY <1>0, <1>2 DEF Prompted, Stages
    <2>2. PICK t \in tails : tails' = (tails \ {t}) \cup {[t EXCEPT !.left = @ \cup {child.doing}]}
      BY DEF ChildAnswers, Tailed
    <2>3. /\ [t EXCEPT !.left = @ \cup {child.doing}].left = t.left \cup {child.doing}
          /\ [t EXCEPT !.left = @ \cup {child.doing}].held = t.held
      <3>1. t \in TailType
        BY <1>0 DEF TypeOK
      <3> QED BY <3>1 DEF TailType
    <2>4. ASSUME "tail" \notin faults
          PROVE  \A s \in tails' : s.left \cup s.held \subseteq asked[bound]
      BY <1>0, <2>1, <2>2, <2>3, <2>4 DEF Traced
    <2> QED BY <1>0, <1>2, <1>5, <2>1, <2>4 DEF Traced
  <1> QED BY <1>6, <1>7, <1>8, <1>9, <1>10, <1>11 DEF Inv, Conversations

(* A line is obeyed: the lines left are lines there were, in order. *)
LEMMA Obeyed ==
  ASSUME Inv, ChildObeys, child'.inbox = Tail(child.inbox)
  PROVE  /\ Head(child.inbox) = child.inbox[1] /\ 1 \in 1 .. Len(child.inbox)
         /\ Len(child.inbox) \in Nat /\ Len(child'.inbox) = Len(child.inbox) - 1
         /\ \A i \in 1 .. Len(child'.inbox) :
              child'.inbox[i] = child.inbox[i + 1] /\ i + 1 \in 1 .. Len(child.inbox)
  <1>1. child \in ChildType
    BY DEF Inv, TypeOK
  <1>2. child.inbox # <<>>
    BY <1>1, Obeys
  <1> QED BY <1>1, <1>2, FirstLine

LEMMA InvSaving ==
  ASSUME Inv, TypeOK', ChildObeys, Saving, UNCHANGED faults
  PROVE  Inv'
  <1> USE DEF diskVars, logVars, screenVars, tailVars
  <1>0. TypeOK /\ Stages /\ Saves /\ Named /\ Prompted /\ Conversations /\ Traced
    BY DEF Inv
  <1>1. child \in ChildType /\ out \in Seq(ShownType) /\ cache \in Seq(FileType)
    BY <1>0 DEF TypeOK
  <1>2. /\ Alive /\ captured' = captured
        /\ UNCHANGED <<call, bound, state, pending, tailVars, session, clock, logVars, turn>>
    BY <1>1, Obeys DEF Alive
  <1>3. /\ child'.inbox = Tail(child.inbox) /\ child'.at = child.at /\ child'.ws = child.ws
        /\ child'.knows = child.knows /\ child'.doing = child.doing /\ child'.n = child.n
    BY <1>1 DEF Saving, ChildType
  <1>4. /\ child.inbox[1].cmd = "save" /\ 1 \in 1 .. Len(child.inbox)
        /\ Len(child.inbox) \in Nat /\ Len(child'.inbox) = Len(child.inbox) - 1
    BY <1>3, Obeyed DEF Saving
  <1>5. /\ call.at \in {"capture", "kill"} /\ Len(cache) < child.n /\ Len(child.inbox) = 1
        /\ Len(child'.inbox) = 0
    <2>1. 1 = Len(child.inbox) /\ call.at \in {"capture", "kill"} /\ Len(cache) < child.n
      BY <1>0, <1>4 DEF Saves
    <2> QED BY <1>4, <2>1
  <1> DEFINE file == [ws |-> child.ws, knows |-> child.knows, time |-> clock]
             new == Len(cache) + 1
  <1>6. file \in FileType
    <2>1. child.ws \in Workspaces
      BY <1>0, <1>2 DEF Stages
    <2> QED BY <1>0, <1>1, <2>1, ChildTypes DEF FileType, TypeOK
  <1>7. /\ Len(cache) \in Nat /\ Len(cache') = new /\ cache'[new] = file
        /\ \A n \in 1 .. Len(cache) : cache'[n] = cache[n]
    BY <1>0, <1>1, <1>6, AppendProperties, Numbers DEF Saving
  <1>8. /\ file.ws = child.ws /\ file.knows = child.knows /\ file.time = clock
        /\ child.ws = bound
    BY <1>0, <1>2 DEF Stages
  <1> HIDE DEF file
  <1>9. \A i \in 1 .. Len(out') :
          \/ \E j \in 1 .. Len(out) : out'[i] = out[j]
          \/ out'[i].shows \in {"saved", "history"} => out'[i].sha = new
    <2> DEFINE said == <<Shown("busy"), Ack("saved", Len(cache')), Shown("idle")>>
    <2>1. new \in Shas
      <3>1. child.n \in 0 .. MaxSpawns
        BY <1>1, ChildTypes
      <3> QED BY <1>5, <1>7, <3>1 DEF Shas
    <2>2. said \in Seq(ShownType)
      BY <1>7, <2>1, ShownTypes
    <2>3. \A j \in 1 .. Len(said) : said[j].shows \in {"saved", "history"} => said[j].sha = new
      BY <1>7, <2>1, ShownTypes
    <2>4. out' = out \o said
      BY DEF Saving, Says
    <2> HIDE DEF said
    <2> QED BY <1>1, <2>2, <2>3, <2>4, Said
  <1>10. Stages'
    BY <1>0, <1>2, <1>3 DEF Stages, Alive, At
  <1>11. Saves'
    <2>1. \A i \in 1 .. Len(child'.inbox) : child'.inbox[i].cmd # "save"
      <3>1. Len(child'.inbox) = 0
        BY <1>4, <1>5
      <3> QED BY <3>1
    <2>2. Len(cache') <= child'.n /\ call'.at \in {"capture", "kill"}
      <3>1. call' = call /\ child'.n = child.n
        BY <1>2, <1>3
      <3>2. PICK k \in Nat : k = Len(cache)
        BY <1>1
      <3>3. PICK m \in Nat : m = child.n
        BY <1>0, Numbers
      <3>4. k < m => k + 1 <= m
        OBVIOUS
      <3> QED BY <1>5, <1>7, <3>1, <3>2, <3>3, <3>4
    <2> QED BY <2>1, <2>2 DEF Saves
  <1>12. Named'
    <2>1. \A i \in 1 .. Len(out') :
            out'[i].shows \in {"saved", "history"} => out'[i].sha \in 1 .. new
      <3>1. \A i \in 1 .. Len(out) :
              out[i].shows \in {"saved", "history"} => out[i].sha \in 1 .. new
        BY <1>0, <1>7 DEF Named
      <3> QED BY <1>7, <1>9, <3>1
    <2>2. (\A w \in Workspaces : session[w] <= new) /\ call.sha <= new /\ captured <= new
      BY <1>0, <1>7, Numbers DEF Named
    <2>3. call.at \notin {"boot", "prefill", "switch"}
      BY <1>5
    <2> QED BY <1>2, <1>5, <1>7, <2>1, <2>2, <2>3 DEF Named
  <1>13. Prompted'
    BY <1>0, <1>2, <1>3, <1>5 DEF Prompted
  <1>14. ASSUME "clock" \notin faults PROVE Sources' /\ Known'
    <2>1. Sources /\ Known
      BY <1>0, <1>14 DEF Conversations
    <2>2. ASSUME NEW n, NEW v, Own(n, v) PROVE Own(n, v)'
      BY <1>2, <1>7, <2>2 DEF Own
    <2>3. ASSUME NEW n, n = new PROVE Own(n, bound)'
      BY <1>2, <1>7, <1>8, <2>1, <2>3 DEF Own, Known
    <2>4. (\A v \in Workspaces : session[v] # 0 => Own(session[v], v))'
      BY <1>2, <2>1, <2>2 DEF Sources
    <2>5. (call.sha # 0 => Own(call.sha, call.ws))'
      BY <1>2, <2>1, <2>2 DEF Sources
    <2>6. \A n \in 1 .. Len(cache') : cache'[n].time <= clock
      BY <1>0, <1>7, <1>8, <2>1, Numbers DEF Sources
    <2>7. (\A i \in 1 .. Len(out) :
             out[i].shows \in {"saved", "history"} => Own(out[i].sha, bound))'
      <3>1. \A i \in 1 .. Len(out) :
              out[i].shows \in {"saved", "history"} => Own(out[i].sha, bound)
        BY <1>2, <2>1 DEF Sources
      <3> QED BY <1>2, <1>9, <2>2, <2>3, <3>1
    <2>8. At("capture") =>
            /\ captured # 0 => Own(captured, bound)'
            /\ \A n \in 1 .. new : cache'[n].time >= call.since => Own(n, bound)'
      <3>1. ASSUME At("capture"), captured # 0 PROVE Own(captured, bound)'
        BY <1>2, <2>1, <2>2, <3>1 DEF Sources
      <3>2. ASSUME At("capture"), NEW n \in 1 .. new, cache'[n].time >= call.since
            PROVE  Own(n, bound)'
        <4>1. CASE n \in 1 .. Len(cache)
          <5>1. Own(n, bound)
            BY <1>7, <2>1, <3>2, <4>1 DEF Sources
          <5> QED BY <1>2, <2>2, <5>1
        <4>2. CASE n = new
          BY <2>3, <4>2
        <4> QED BY <1>7, <4>1, <4>2
      <3> QED BY <3>1, <3>2
    <2>9. Sources'
      BY <1>2, <1>5, <1>7, <2>4, <2>5, <2>6, <2>7, <2>8 DEF Sources, At
    <2>10. Known'
      BY <1>2, <1>3, <1>5, <2>1 DEF Known, At
    <2> QED BY <2>9, <2>10
  <1>15. Traced'
    BY <1>0, <1>2, <1>3 DEF Traced, Alive, At
  <1> QED BY <1>10, <1>11, <1>12, <1>13, <1>14, <1>15 DEF Inv, Conversations

LEMMA InvSwitching ==
  ASSUME Inv, TypeOK', ChildObeys, Switching, UNCHANGED faults
  PROVE  Inv'
  <1> USE DEF diskVars, logVars, screenVars, tailVars
  <1>0. TypeOK /\ Stages /\ Saves /\ Named /\ Prompted /\ Conversations /\ Traced
    BY DEF Inv
  <1>1. child \in ChildType /\ out \in Seq(ShownType)
    BY <1>0 DEF TypeOK
  <1>2. /\ Alive /\ captured' = captured
        /\ UNCHANGED <<call, bound, state, pending, tailVars, diskVars, logVars, turn>>
    BY <1>1, Obeys DEF Alive, Switching
  <1> DEFINE sha == Head(child.inbox).sha
  <1>3. /\ child'.inbox = Tail(child.inbox) /\ child'.at = child.at /\ child'.ws = child.ws
        /\ child'.knows = cache[sha].knows
        /\ child'.doing = child.doing /\ child'.n = child.n
    BY <1>1 DEF Switching, ChildType
  <1>4. /\ Head(child.inbox) = child.inbox[1] /\ 1 \in 1 .. Len(child.inbox)
        /\ Len(child.inbox) \in Nat /\ Len(child'.inbox) = Len(child.inbox) - 1
        /\ \A i \in 1 .. Len(child'.inbox) :
             child'.inbox[i] = child.inbox[i + 1] /\ i + 1 \in 1 .. Len(child.inbox)
    BY <1>3, Obeyed
  <1>5. child.inbox[1].cmd = "switch" /\ sha \in 1 .. Len(cache)
    BY <1>0, <1>4 DEF Switching, Named
  <1>6. \A i \in 1 .. Len(out') :
          \/ \E j \in 1 .. Len(out) : out'[i] = out[j]
          \/ out'[i].shows \in {"saved", "history"} => out'[i].sha = sha
    <2> DEFINE said == <<Shown("busy"), Ack("history", sha), Shown("idle")>>
    <2>1. sha \in Shas
      BY <1>1, <1>2, FirstLine, LineTypes, Obeys
    <2> HIDE DEF sha
    <2>2. said \in Seq(ShownType)
      BY <2>1, ShownTypes
    <2>3. \A j \in 1 .. Len(said) : said[j].shows \in {"saved", "history"} => said[j].sha = sha
      BY <2>1, ShownTypes
    <2>4. out' = out \o said
      BY DEF Switching, Says, sha
    <2> HIDE DEF said
    <2> QED BY <1>1, <2>2, <2>3, <2>4, Said
  <1> HIDE DEF sha
  <1>7. Stages'
    BY <1>0, <1>2, <1>3 DEF Stages, Alive, At
  <1>8. Saves'
    BY <1>0, <1>2, <1>3, <1>4 DEF Saves, Alive
  <1>9. Named'
    <2>1. \A i \in 1 .. Len(out') :
            out'[i].shows \in {"saved", "history"} => out'[i].sha \in 1 .. Len(cache)
      BY <1>0, <1>5, <1>6 DEF Named
    <2>2. \A i \in 1 .. Len(child'.inbox) :
            child'.inbox[i].cmd = "switch" => child'.inbox[i].sha \in 1 .. Len(cache)
      BY <1>0, <1>4 DEF Named
    <2> QED BY <1>0, <1>2, <2>1, <2>2 DEF Named
  <1>10. Prompted'
    BY <1>0, <1>2, <1>3, <1>4 DEF Prompted
  <1>11. ASSUME "clock" \notin faults PROVE Sources' /\ Known'
    <2>1. Sources /\ Known
      BY <1>0, <1>11 DEF Conversations
    <2>2. \A i \in 1 .. Len(child.inbox) :
            child.inbox[i].cmd = "switch" => Own(child.inbox[i].sha, bound)
      BY <1>2, <2>1 DEF Sources
    <2>3. Own(sha, bound)
      BY <1>4, <1>5, <2>2 DEF sha
    <2>4. \A i \in 1 .. Len(child'.inbox) :
            child'.inbox[i].cmd = "switch" => Own(child'.inbox[i].sha, bound)
      BY <1>4, <2>2
    <2>5. \A i \in 1 .. Len(out') :
            out'[i].shows \in {"saved", "history"} => Own(out'[i].sha, bound)
      <3>1. \A i \in 1 .. Len(out) :
              out[i].shows \in {"saved", "history"} => Own(out[i].sha, bound)
        BY <1>2, <2>1 DEF Sources
      <3> QED BY <1>6, <2>3, <3>1
    <2>6. Sources'
      BY <1>2, <2>1, <2>4, <2>5 DEF Sources, Own, At
    <2>7. child'.knows \subseteq asked[bound]
      BY <1>3, <2>3 DEF Own
    <2>8. Known'
      BY <1>2, <1>4, <2>1, <2>7 DEF Known, At
    <2> QED BY <2>6, <2>8
  <1>12. Traced'
    BY <1>0, <1>2, <1>3 DEF Traced, Alive, At
  <1> QED BY <1>7, <1>8, <1>9, <1>10, <1>11, <1>12 DEF Inv, Conversations

LEMMA InvPrompting ==
  ASSUME Inv, TypeOK', ChildObeys, Prompting, UNCHANGED faults
  PROVE  Inv'
  <1> USE DEF diskVars, logVars, screenVars, tailVars
  <1>0. TypeOK /\ Stages /\ Saves /\ Named /\ Prompted /\ Conversations /\ Traced
    BY DEF Inv
  <1>1. child \in ChildType /\ out \in Seq(ShownType)
    BY <1>0 DEF TypeOK
  <1>2. /\ Alive /\ captured' = captured
        /\ UNCHANGED <<call, bound, state, pending, tailVars, diskVars, logVars, turn>>
    BY <1>1, Obeys DEF Alive, Prompting
  <1> DEFINE line == Head(child.inbox)
  <1>3. /\ child'.inbox = Tail(child.inbox) /\ child'.at = "work" /\ child'.ws = child.ws
        /\ child'.knows = child.knows \cup line.with \cup {line.turn}
        /\ child'.doing = line.turn /\ child'.n = child.n
    BY <1>1 DEF Prompting, ChildType
  <1>4. /\ line = child.inbox[1] /\ 1 \in 1 .. Len(child.inbox)
        /\ Len(child.inbox) \in Nat /\ Len(child'.inbox) = Len(child.inbox) - 1
        /\ \A i \in 1 .. Len(child'.inbox) :
             child'.inbox[i] = child.inbox[i + 1] /\ i + 1 \in 1 .. Len(child.inbox)
    BY <1>3, Obeyed
  <1>5. line.cmd = "prompt" /\ line.turn \in asked[bound]
    BY <1>0, <1>2, <1>4 DEF Prompting, Prompted
  <1> HIDE DEF line
  <1>6. \A i \in 1 .. Len(out') :
          \/ \E j \in 1 .. Len(out) : out'[i] = out[j]
          \/ out'[i].shows \in {"echo", "busy"}
    <2> DEFINE said == <<Shown("echo"), Shown("busy")>>
    <2>1. said \in Seq(ShownType)
      BY ShownTypes
    <2>2. \A j \in 1 .. Len(said) : said[j].shows \in {"echo", "busy"}
      BY ShownTypes
    <2>3. out' = out \o said
      BY DEF Prompting, Says
    <2> HIDE DEF said
    <2>4. \A i \in 1 .. Len(out') : \/ \E j \in 1 .. Len(out) : out'[i] = out[j]
                                    \/ \E j \in 1 .. Len(said) : out'[i] = said[j]
      BY <1>1, <2>1, <2>3, Said
    <2> TAKE i \in 1 .. Len(out')
    <2>5. ASSUME NEW j \in 1 .. Len(said), out'[i] = said[j] PROVE out'[i].shows \in {"echo", "busy"}
      BY <2>2, <2>5
    <2> QED BY <2>4, <2>5
  <1>7. Alive'
    BY <1>3 DEF Alive
  <1>8. Stages'
    BY <1>0, <1>2, <1>3, <1>7 DEF Stages, At
  <1>9. Saves'
    BY <1>0, <1>2, <1>3, <1>4 DEF Saves
  <1>10. Named'
    <2>1. \A i \in 1 .. Len(out') :
            out'[i].shows \in {"saved", "history"} => out'[i].sha \in 1 .. Len(cache)
      BY <1>0, <1>6 DEF Named
    <2>2. ASSUME NEW i \in 1 .. Len(child'.inbox), child'.inbox[i].cmd = "switch"
          PROVE  child'.inbox[i].sha \in 1 .. Len(cache)
      <3>1. child'.inbox[i] = child.inbox[i + 1] /\ i + 1 \in 1 .. Len(child.inbox)
        BY <1>4
      <3> QED BY <1>0, <2>2, <3>1 DEF Named
    <2> QED BY <1>0, <1>2, <2>1, <2>2 DEF Named
  <1>11. Prompted'
    BY <1>0, <1>2, <1>3, <1>4, <1>5 DEF Prompted
  <1>12. ASSUME "clock" \notin faults PROVE Sources' /\ Known'
    <2>1. Sources /\ Known
      BY <1>0, <1>12 DEF Conversations
    <2>2. \A i \in 1 .. Len(child'.inbox) :
            child'.inbox[i].cmd = "switch" => Own(child'.inbox[i].sha, bound)
      BY <1>2, <1>4, <2>1 DEF Sources
    <2>3. \A i \in 1 .. Len(out') :
            out'[i].shows \in {"saved", "history"} => Own(out'[i].sha, bound)
      BY <1>2, <1>6, <2>1 DEF Sources
    <2>4. Sources'
      BY <1>2, <2>1, <2>2, <2>3 DEF Sources, Own, At
    <2>5. child'.knows \subseteq asked[bound]
      BY <1>2, <1>3, <1>4, <1>5, <2>1 DEF Known
    <2>6. Known'
      BY <1>2, <1>4, <2>1, <2>5 DEF Known, At
    <2> QED BY <2>4, <2>6
  <1>13. Traced'
    BY <1>0, <1>2, <1>7 DEF Traced, At
  <1> QED BY <1>8, <1>9, <1>10, <1>11, <1>12, <1>13 DEF Inv, Conversations

-----------------------------------------------------------------------------
(* The theorems.                                                           *)

LEMMA InvInit == Init => Inv
  <1> SUFFICES ASSUME Init PROVE Inv
    OBVIOUS
  <1>1. TypeOK
    BY TypeInit
  <1>2. /\ ~Alive /\ Len(child.inbox) = 0 /\ child.n = 0 /\ call = Resting /\ call.at = "idle"
        /\ call.sha = 0 /\ out = <<>> /\ Len(out) = 0 /\ Len(cache) = 0 /\ captured = 0
        /\ \A w \in Workspaces : session[w] = 0 /\ answered[w] = {}
        /\ tails = {} /\ state = "idle"
    BY DEF Init, NoChild, Resting, Alive
  <1>3. Stages /\ Saves /\ Named /\ Prompted
    BY <1>2 DEF Stages, Saves, Named, Prompted, At
  <1>4. Conversations
    BY <1>2 DEF Conversations, Sources, Known, At
  <1>5. Traced
    BY <1>2 DEF Traced
  <1> QED BY <1>1, <1>3, <1>4, <1>5 DEF Inv

LEMMA InvNext == ASSUME Inv, [Next]_vars PROVE Inv'
  <1>0. TypeOK'
    BY TypeNext
  <1>1. CASE Client
    BY <1>0, <1>1, InvActivate, InvReset, InvResetOther, InvSubmit, InvRestart DEF Client
  <1>2. CASE Call
    BY <1>0, <1>2, InvSave, InvCapture, InvWaits, InvKill, InvWipe, InvBind, InvSwitch, InvSwitched
    DEF Call
  <1>3. CASE Reader
    BY <1>0, <1>3, InvRead DEF Reader
  <1>4. CASE Tailers
    BY <1>0, <1>4, InvTails DEF Tailers
  <1>5. CASE Child
    <2>1. child \in ChildType
      BY DEF Inv, TypeOK
    <2>2. ChildObeys => Saving \/ Switching \/ Prompting
      BY <2>1, Obeys
    <2> QED BY <1>0, <1>5, <2>2, InvChildBoots, InvSaving, InvSwitching, InvPrompting,
               InvChildAnswers DEF Child
  <1>6. CASE UNCHANGED vars
    BY <1>0, <1>6 DEF vars, screenVars, tailVars, diskVars, logVars, Inv, Stages, Saves, Named,
                      Prompted, Conversations, Sources, Known, Traced, Own, Alive, At
  <1> QED BY <1>1, <1>2, <1>3, <1>4, <1>5, <1>6 DEF Next

LEMMA InvAlways == Spec => []Inv
  <1>1. Init => Inv
    BY InvInit
  <1>2. Inv /\ [Next]_vars => Inv'
    BY InvNext
  <1> QED BY <1>1, <1>2, PTL DEF Spec

(* Every variable keeps its type, and only a child that runs is busy.      *)
THEOREM TypesKept == Spec => []TypeOK
  <1>1. Inv => TypeOK
    BY DEF Inv
  <1> QED BY <1>1, InvAlways, PTL

(* The session recorded for a workspace is one of its own conversations,   *)
(* though kv_save_and_capture takes the newest file of a shared cache and  *)
(* takes late acknowledgements for its own, if no two saves share a second.*)
THEOREM SessionsStayOwn == Spec => []SessionsAreOwn
  <1>1. Inv => SessionsAreOwn
    BY DEF Inv, Conversations, Sources, Own, SessionsAreOwn, SavedByItself
  <1> QED BY <1>1, InvAlways, PTL

(* A child knows, and is told, only what was said in its workspace since   *)
(* the last pin_agent_reset of it, whichever way it was activated.         *)
THEOREM ConversationsStayApart == Spec => []OnlyItsConversation
  <1>1. Inv => OnlyItsConversation
    BY DEF Inv, Conversations, Known, Stages, OnlyItsConversation
  <1> QED BY <1>1, InvAlways, PTL

(* The answers in a log answer prompts of that log, though nothing waits   *)
(* for the trace reader of the child killed, if it sees the flag in time.  *)
THEOREM AnswersStayOwn == Spec => []AnswersAreOwn
  <1>1. Inv => AnswersAreOwn
    BY DEF Inv, Traced, AnswersAreOwn
  <1> QED BY <1>1, InvAlways, PTL

-----------------------------------------------------------------------------
(* Nothing is forgotten.  With nothing late and the server up, no deadline *)
(* passes while the child still has something to say, so each step of the  *)
(* way from one child to the next is taken for the right reason: what a    *)
(* workspace was left with is in a file that has all its turns, the record *)
(* of the workspace names that file, /switch is sent to a child that has   *)
(* read its system prompt, and the activation returns when it has obeyed.  *)

(* The file on record of w has all of its turns. *)
Stored(w) == IF session[w] = 0 THEN asked[w] = {} ELSE asked[w] \subseteq cache[session[w]].knows

(* Or w is with the child, and not left or not wiped yet. *)
Inhabited(w) ==
  /\ w = bound
  /\ \/ Alive /\ call.at \in {"idle", "save", "capture"}
     \/ call.then = "wipe" /\ call.at \in {"kill", "wipe"}

Kept == \A w \in Workspaces : Stored(w) \/ Inhabited(w)

(* The call has the session of the workspace it activates, which is not    *)
(* the one it saves.                                                       *)
Linked ==
  /\ call.at \in {"save", "capture"} => call.then = "save"
  /\ call.at \in {"kill", "wipe"} /\ call.then = "wipe" => call.ws = bound
  /\ call.at \in {"save", "capture", "kill"} /\ call.then = "save" =>
       call.ws # bound /\ call.sha = session[call.ws]
  /\ call.at \in {"bind", "boot", "prefill", "switch"} => call.sha = session[call.ws]
  /\ call.busy => call.at \in {"prefill", "switch"}

IsPrompt(i) == child.inbox[i].cmd = "prompt"

(* A child past its activation knows every turn of its workspace, or has   *)
(* the prompt in front of it, in the order they were asked.                *)
Queued ==
  Alive =>
    /\ child.at \in {"start", "shown", "prefill"} => child.knows = {}
    /\ child.at = "work" => child.doing <= turn
    /\ \A i \in 1 .. Len(child.inbox) : IsPrompt(i) =>
         /\ child.inbox[i].turn <= turn
         /\ child.at = "work" => child.doing < child.inbox[i].turn
         /\ \A j \in 1 .. Len(child.inbox) :
              j < i /\ IsPrompt(j) => child.inbox[j].turn < child.inbox[i].turn
    /\ call.at \in {"idle", "save", "capture", "kill"} =>
         /\ \A t \in asked[bound] : \/ t \in child.knows
                                    \/ \E i \in 1 .. Len(child.inbox) :
                                         IsPrompt(i) /\ child.inbox[i].turn = t
         /\ \A i \in 1 .. Len(child.inbox) : child.inbox[i].cmd # "switch"

(* A child that boots prints three footers; how many by now, and read.     *)
BootShows(n) == IF n = 2 THEN "busy" ELSE "idle"

Printed == IF child.at = "start" THEN 0 ELSE IF child.at = "shown" THEN 1
           ELSE IF child.at = "prefill" THEN 2 ELSE 3

Booting ==
  call.at \in {"boot", "prefill"} =>
    /\ child.inbox = <<>> /\ child.at # "work"
    /\ Len(out) <= Printed
    /\ \A i \in 1 .. Len(out) : out[i].shows = BootShows(Printed - Len(out) + i)
    /\ footer = IF Len(out) = Printed THEN "" ELSE BootShows(Printed - Len(out))
    /\ booted \/ At("prefill") => Len(out) < Printed
    /\ call.busy => Len(out) + 1 < Printed

IsAck(i) == out[i].shows \in {"saved", "history"}

(* The one acknowledgement there is after /switch is that of /switch. *)
Restoring ==
  At("switch") =>
    /\ child.at = "free"
    /\ \A i, j \in 1 .. Len(out) : IsAck(i) /\ IsAck(j) => i = j
    /\ \/ /\ Len(child.inbox) = 1 /\ child.inbox[1] = Line("switch", call.sha, 0, {})
          /\ ~restored /\ \A i \in 1 .. Len(out) : ~IsAck(i)
       \/ /\ child.inbox = <<>>
          /\ child.knows = cache[call.sha].knows
          /\ ~restored => \E i \in 1 .. Len(out) : out[i].shows = "history"
          /\ restored => \A i \in 1 .. Len(out) : ~IsAck(i)

(* The save of this call is in the cache, or else still to be obeyed, and  *)
(* no acknowledgement is taken for its own.                                *)
SavedNow == \E n \in 1 .. Len(cache) : cache[n].time >= call.since

Capturing ==
  /\ call.at \in {"idle", "save"} => \A i \in 1 .. Len(out) : ~IsAck(i)
  /\ At("capture") =>
       /\ call.since = clock
       /\ SavedNow \/ /\ \E i \in 1 .. Len(child.inbox) : child.inbox[i].cmd = "save"
                      /\ captured = 0 /\ \A i \in 1 .. Len(out) : ~IsAck(i)
       /\ \A n \in 1 .. Len(cache) : cache[n].time >= call.since => asked[bound] \subseteq cache[n].knows

Memory == Kept /\ Linked /\ Queued /\ Booting /\ Restoring /\ Capturing

Remembered == faults = {} => Memory

LEMMA MemoryInit == Init => Memory
  <1> SUFFICES ASSUME Init PROVE Memory
    OBVIOUS
  <1>1. /\ ~Alive /\ call.at = "idle" /\ call.busy = FALSE /\ out = <<>> /\ Len(out) = 0
        /\ \A w \in Workspaces : session[w] = 0 /\ asked[w] = {}
    BY DEF Init, NoChild, Resting, Alive
  <1>2. Kept
    BY <1>1 DEF Kept, Stored
  <1>3. Linked /\ Queued /\ Booting /\ Restoring /\ Capturing
    BY <1>1 DEF Linked, Queued, Booting, Restoring, Capturing, At
  <1> QED BY <1>2, <1>3 DEF Memory

LEMMA Flags ==
  ASSUME Inv
  PROVE  /\ booted \in BOOLEAN /\ restored \in BOOLEAN /\ call.busy \in BOOLEAN
         /\ child.doing \in Nat /\ \A i \in 1 .. Len(child.inbox) : child.inbox[i].turn \in Nat
  <1>1. booted \in BOOLEAN /\ restored \in BOOLEAN /\ call \in CallType /\ child \in ChildType
    BY DEF Inv, TypeOK
  <1>2. child.inbox \in Seq(LineType) /\ child.doing \in 0 .. MaxTurns
    BY <1>1, ChildTypes
  <1>3. \A i \in 1 .. Len(child.inbox) : child.inbox[i] \in LineType
    BY <1>2
  <1>4. \A i \in 1 .. Len(child.inbox) : child.inbox[i].turn \in 0 .. MaxTurns
    BY <1>3, LineTypes
  <1>5. call.busy \in BOOLEAN
    BY <1>1, CallTypes
  <1> QED BY <1>1, <1>2, <1>4, <1>5

(* What a step that leaves the child alone must show of the call. *)
LEMMA CallRemembers ==
  ASSUME Inv, Memory, Kept', Linked',
         UNCHANGED <<child, out, bound, session, cache, clock, asked, turn, captured, footer, booted,
                     restored>>,
         call'.at \in {"idle", "save", "capture", "kill"} =>
           call.at \in {"idle", "save", "capture", "kill"} \/ ~Alive,
         call'.at \in {"idle", "save"} => call.at \in {"idle", "save"} \/ ~Alive,
         call'.at # "capture", call'.at # "switch",
         call'.at \in {"boot", "prefill"} => call.at \in {"boot", "prefill"},
         At("prefill")' /\ ~At("prefill") => Len(out) < Printed,
         call'.busy /\ ~call.busy => Len(out) + 1 < Printed
  PROVE  Memory'
  <1> USE DEF Memory
  <1>1. Queued'
    BY DEF Queued, Alive, IsPrompt
  <1>2. Booting'
    BY DEF Booting, Printed, At
  <1>3. Restoring'
    BY DEF Restoring, At
  <1>4. Capturing'
    <2>1. ~Alive => Len(out) = 0
      BY DEF Inv, Stages
    <2> QED BY <2>1 DEF Capturing, IsAck, At
  <1> QED BY <1>1, <1>2, <1>3, <1>4

LEMMA MemoryActivate ==
  ASSUME Inv, Memory, NEW w \in Workspaces, Activate(w)
  PROVE  Memory'
  <1> USE DEF diskVars, logVars, screenVars, tailVars
  <1>1. /\ At("idle") /\ ~(Alive /\ bound = w)
        /\ call'.at = (IF Alive THEN "save" ELSE "bind") /\ call'.ws = w
        /\ call'.sha = session[w] /\ call'.busy = FALSE /\ call'.then = "save"
        /\ UNCHANGED <<bound, screenVars, pending, tailVars, child, out, diskVars, logVars, turn>>
    BY DEF Activate, Resting
  <1>2. Kept'
    BY <1>1 DEF Memory, Kept, Stored, Inhabited, Alive, At, Inv, Stages, Resting
  <1>3. Linked'
    BY <1>1 DEF Linked
  <1> QED BY <1>1, <1>2, <1>3, CallRemembers DEF At

LEMMA MemoryReset ==
  ASSUME Inv, Memory, NEW w \in Workspaces, Reset(w)
  PROVE  Memory'
  <1> USE DEF diskVars, logVars, screenVars, tailVars
  <1>1. /\ At("idle") /\ Alive /\ bound = w
        /\ call'.at = "kill" /\ call'.ws = w /\ call'.busy = FALSE /\ call'.then = "wipe"
        /\ UNCHANGED <<bound, screenVars, pending, tailVars, child, out, diskVars, logVars, turn>>
    BY DEF Reset, Resting
  <1>2. Kept'
    BY <1>1 DEF Memory, Kept, Stored, Inhabited, Alive, At
  <1>3. Linked'
    BY <1>1 DEF Linked
  <1> QED BY <1>1, <1>2, <1>3, CallRemembers DEF At

(* A deadline passes only when the child has said all it had to say. *)
LEMMA Deadlines ==
  ASSUME Inv, Memory, faults = {}, Alive, NEW met, DeadlineMayPass(met)
  PROVE  child.at = "free" /\ Len(out) = 0 /\ child.inbox = <<>> /\ Len(child.inbox) = 0 /\ ~met
  BY DEF DeadlineMayPass, ChildIsQuiet, Alive

(* A file as late as the save is the newest, since it has the time it is. *)
LEMMA SavedIsNewest ==
  ASSUME Inv, Memory, faults = {}, At("capture"),
         NEW n \in 1 .. Len(cache), cache[n].time >= call.since
  PROVE  n \in NewestSaved(call.since)
  <1>1. call.since = clock /\ "clock" \notin faults
    BY DEF Memory, Capturing
  <1>2. \A k \in 1 .. Len(cache) : cache[k].time <= clock
    BY <1>1 DEF Inv, Conversations, Sources
  <1>3. \A k \in 1 .. Len(cache) : cache[k].time \in Nat /\ clock \in Nat
    <2>1. cache \in Seq(FileType)
      BY DEF Inv, TypeOK
    <2>2. \A k \in 1 .. Len(cache) : cache[k] \in FileType
      BY <2>1
    <2>3. clock \in Nat
      BY Numbers DEF Inv
    <2> QED BY <2>2, <2>3 DEF FileType
  <1> QED BY <1>1, <1>2, <1>3 DEF NewestSaved

(* The poll for the save never gives up. *)
LEMMA NoCaptureTimesOut ==
  ASSUME Inv, Memory, faults = {} PROVE ~CaptureTimesOut
  <1> SUFFICES ASSUME CaptureTimesOut PROVE FALSE
    OBVIOUS
  <1> DEFINE met == NewestSaved(call.since) # {} \/ captured # 0
  <1>1. /\ At("capture") /\ DeadlineMayPass(met) /\ Alive
    BY DEF CaptureTimesOut, Inv, Stages, At
  <1>2. Len(child.inbox) = 0 /\ NewestSaved(call.since) = {}
    BY <1>1, Deadlines
  <1>3. PICK n \in 1 .. Len(cache) : cache[n].time >= call.since
    BY <1>1, <1>2 DEF Memory, Capturing, SavedNow
  <1>4. n \in NewestSaved(call.since)
    BY <1>1, <1>3, SavedIsNewest
  <1> QED BY <1>2, <1>4

LEMMA MemoryBoots ==
  ASSUME Inv, Memory, faults = {}, Boot \/ LookBusy
  PROVE  Memory'
  <1> USE DEF diskVars, logVars, screenVars, tailVars
  <1>0. call \in CallType
    BY DEF Inv, TypeOK
  <1>1. /\ call'.ws = call.ws /\ call'.sha = call.sha /\ call'.then = call.then
        /\ call.at \in {"boot", "prefill"} /\ call'.at = "prefill"
        /\ UNCHANGED <<bound, state, screenVars, pending, tailVars, child, out, diskVars, logVars,
                       turn>>
    BY <1>0 DEF Boot, LookBusy, CallType, At
  <1>2. Kept'
    BY <1>1 DEF Memory, Kept, Stored, Inhabited
  <1>3. Linked'
    BY <1>1 DEF Memory, Linked
  <1>4. Len(out) \in Nat /\ Alive /\ Printed \in Nat
    BY <1>1, Numbers DEF Inv, Stages, Printed
  <1>5. At("boot") => Len(out) < Printed
    <2>1. CASE Boot /\ booted
      BY <1>1, <2>1 DEF Memory, Booting
    <2>2. CASE Boot /\ ~booted
      <3>1. child.at = "free" /\ Len(out) = 0
        BY <1>4, <2>2, Deadlines DEF Boot
      <3> QED BY <3>1 DEF Printed
    <2> QED BY <2>1, <2>2 DEF LookBusy, At
  <1>6. call'.busy /\ ~call.busy => Len(out) + 1 < Printed
    <2>1. Boot => call'.busy = call.busy
      BY <1>0 DEF Boot, CallType
    <2>2. CASE LookBusy
      <3>1. At("prefill") /\ footer # "idle"
        BY <2>2 DEF LookBusy
      <3>2. Len(out) < Printed /\ footer = BootShows(Printed - Len(out))
        <4>1. Booting /\ call.at = "prefill" /\ At("prefill")
          BY <3>1 DEF Memory, At
        <4>2. Len(out) < Printed
          BY <4>1, Flags DEF Booting
        <4>3. Len(out) # Printed
          BY <1>4, <4>2
        <4> QED BY <4>1, <4>2, <4>3 DEF Booting
      <3>3. Printed - Len(out) = 2
        BY <1>4, <3>1, <3>2 DEF BootShows
      <3> QED BY <1>4, <3>2, <3>3
    <2> QED BY <2>1, <2>2
  <1>7. At("prefill")' /\ ~At("prefill") => Len(out) < Printed
    BY <1>1, <1>5 DEF At
  <1> QED BY <1>1, <1>2, <1>3, <1>6, <1>7, CallRemembers DEF At

LEMMA MemoryResetOther ==
  ASSUME Inv, Memory, NEW w \in Workspaces, ResetOther(w)
  PROVE  Memory'
  <1> USE DEF diskVars, logVars, screenVars, tailVars
  <1>1. /\ At("idle") /\ ~(Alive /\ bound = w) /\ call = Resting
        /\ UNCHANGED <<call, bound, state, screenVars, pending, tailVars, child, out, cache, clock,
                       turn>>
    BY DEF ResetOther, Inv, Stages
  <1>2. /\ asked'[w] = {} /\ session'[w] = 0
        /\ \A v \in Workspaces \ {w} : asked'[v] = asked[v] /\ session'[v] = session[v]
    BY Erased DEF ResetOther, Inv
  <1>3. Kept'
    BY <1>1, <1>2 DEF Memory, Kept, Stored, Inhabited, Alive
  <1>4. Linked'
    BY <1>1 DEF Linked, Resting, At
  <1>5. Alive => asked'[bound] = asked[bound]
    BY <1>1, <1>2 DEF Inv, Stages
  <1>6. Queued'
    BY <1>1, <1>5 DEF Memory, Queued, Alive, IsPrompt
  <1>7. Booting' /\ Restoring' /\ Capturing'
    BY <1>1 DEF Memory, Booting, Restoring, Capturing, IsAck, At
  <1> QED BY <1>3, <1>4, <1>6, <1>7 DEF Memory

LEMMA MemorySubmit ==
  ASSUME Inv, Memory, Submit
  PROVE  Memory'
  <1> USE DEF diskVars, logVars, screenVars, tailVars
  <1> DEFINE line == Line("prompt", 0, turn', pending)
  <1>n. PICK n \in Nat : n = Len(child.inbox)
    BY Numbers DEF Inv
  <1>l. PICK last : last = turn'
    OBVIOUS
  <1>0. child \in ChildType /\ asked \in [Workspaces -> SUBSET Turns] /\ turn \in 0 .. MaxTurns
    BY DEF Inv, TypeOK
  <1>1. /\ At("idle") /\ Alive /\ bound \in Workspaces /\ call = Resting
        /\ Send(line) /\ last = turn + 1 /\ turn \in Nat /\ turn < MaxTurns
        /\ asked' = [asked EXCEPT ![bound] = @ \cup {last}]
        /\ UNCHANGED <<call, bound, screenVars, tailVars, out, diskVars, answered>>
    BY <1>l, <1>0 DEF Submit, Inv, Stages
  <1>2. line \in LineType
    <2>1. last \in Turns
      <3>1. last = turn + 1 /\ turn \in Nat /\ turn < MaxTurns
        BY <1>1
      <3> QED BY <3>1 DEF Turns
    <2>2. pending \in SUBSET Turns
      BY DEF Inv, TypeOK
    <2> QED BY <1>l, <2>1, <2>2, Small
  <1>3. line.cmd = "prompt" /\ line.turn = last
    BY <1>l DEF Line
  <1> HIDE DEF line
  <1>4. /\ child'.at = child.at /\ child'.knows = child.knows /\ child'.doing = child.doing
        /\ Len(child'.inbox) = n + 1
        /\ child'.inbox[n + 1] = line
        /\ \A i \in 1 .. n : child'.inbox[i] = child.inbox[i]
        /\ \A i \in 1 .. Len(child'.inbox) : i = n + 1 \/ i \in 1 .. n
    BY <1>n, <1>0, <1>1, <1>2, LineSent
  <1>5. /\ asked'[bound] = asked[bound] \cup {last}
        /\ \A v \in Workspaces \ {bound} : asked'[v] = asked[v]
    BY <1>0, <1>1
  <1>6. Kept'
    <2>1. Inhabited(bound)'
      BY <1>1, <1>4 DEF Inhabited, Alive, At
    <2>2. \A v \in Workspaces \ {bound} : Stored(v)'
      BY <1>1, <1>5 DEF Memory, Kept, Stored, Inhabited
    <2> QED BY <1>1, <2>1, <2>2 DEF Kept
  <1>7. Linked'
    BY <1>1 DEF Linked, Resting
  <1>8. Queued'
    <2>1. /\ child.at \in {"start", "shown", "prefill"} => child.knows = {}
          /\ child.at = "work" => child.doing <= turn
          /\ \A i \in 1 .. n : IsPrompt(i) =>
               /\ child.inbox[i].turn <= turn /\ child.inbox[i].turn \in Nat
               /\ child.at = "work" => child.doing < child.inbox[i].turn
               /\ \A j \in 1 .. n : j < i /\ IsPrompt(j) => child.inbox[j].turn < child.inbox[i].turn
      BY <1>n, <1>1, Flags DEF Memory, Queued
    <2>2. /\ \A t \in asked[bound] : \/ t \in child.knows
                                     \/ \E i \in 1 .. n : IsPrompt(i) /\ child.inbox[i].turn = t
          /\ \A i \in 1 .. n : child.inbox[i].cmd # "switch"
      BY <1>n, <1>1 DEF Memory, Queued, At
    <2>3. \A i \in 1 .. n : IsPrompt(i)' <=> IsPrompt(i)
      BY <1>4 DEF IsPrompt
    <2>4. IsPrompt(n + 1)' /\ child'.inbox[n + 1].turn = last
      BY <1>3, <1>4 DEF IsPrompt
    <2>5. last = turn' /\ last > turn /\ last \in Nat
      BY <1>1, <1>l
    <2>6. ASSUME NEW i \in 1 .. Len(child'.inbox), IsPrompt(i)'
          PROVE  /\ child'.inbox[i].turn <= last
                 /\ child'.at = "work" => child'.doing < child'.inbox[i].turn
                 /\ \A j \in 1 .. Len(child'.inbox) :
                      j < i /\ IsPrompt(j)' => child'.inbox[j].turn < child'.inbox[i].turn
      <3>1. CASE i = n + 1
        <4>1. \A j \in 1 .. Len(child'.inbox) : j < i => j \in 1 .. n
          BY <1>4, <3>1
        <4>2. child'.inbox[i].turn = last
          BY <2>4, <3>1
        <4>3. child'.at = "work" => child'.doing < last
          BY <1>1, <1>4, <2>1, <2>5, Flags
        <4>4. ASSUME NEW j \in 1 .. Len(child'.inbox), j < i, IsPrompt(j)'
              PROVE  child'.inbox[j].turn < last
          <5>1. /\ j \in 1 .. n /\ child'.inbox[j] = child.inbox[j]
                /\ child.inbox[j].turn <= turn /\ child.inbox[j].turn \in Nat
            BY <1>4, <2>1, <2>3, <4>1, <4>4
          <5> QED BY <1>1, <2>5, <5>1
        <4> QED BY <2>5, <4>2, <4>3, <4>4
      <3>2. CASE i \in 1 .. n
        <4>1. \A j \in 1 .. Len(child'.inbox) : j < i => j \in 1 .. n
          BY <1>4, <3>2
        <4>2. IsPrompt(i) /\ child'.inbox[i] = child.inbox[i]
          BY <1>4, <2>3, <2>6, <3>2
        <4>3. /\ child.inbox[i].turn <= last
              /\ child'.at = "work" => child'.doing < child.inbox[i].turn
          BY <1>1, <1>4, <2>1, <2>5, <3>2, <4>2
        <4>4. \A j \in 1 .. Len(child'.inbox) :
                j < i /\ IsPrompt(j)' => child'.inbox[j].turn < child.inbox[i].turn
          BY <1>4, <2>1, <2>3, <3>2, <4>1, <4>2
        <4> QED BY <4>2, <4>3, <4>4
      <3> QED BY <1>4, <3>1, <3>2
    <2>7. ASSUME NEW t \in asked'[bound]
          PROVE  \/ t \in child.knows
                 \/ \E i \in 1 .. Len(child'.inbox) : IsPrompt(i)' /\ child'.inbox[i].turn = t
      <3>1. CASE t = last
        BY <1>4, <2>4, <3>1
      <3>2. CASE t \in asked[bound]
        <4>1. \A i \in 1 .. n : i \in 1 .. Len(child'.inbox)
          BY <1>4
        <4> QED BY <1>4, <2>2, <2>3, <3>2, <4>1
      <3> QED BY <1>5, <3>1, <3>2
    <2>8. \A i \in 1 .. Len(child'.inbox) : child'.inbox[i].cmd # "switch"
      BY <1>3, <1>4, <2>2
    <2>9. child'.at = "work" => child'.doing <= last
      BY <1>1, <1>4, <2>1, <2>5, Flags
    <2> QED BY <1>1, <1>4, <2>1, <2>5, <2>6, <2>7, <2>8, <2>9 DEF Queued
  <1>9. Booting' /\ Restoring' /\ Capturing'
    BY <1>1 DEF Memory, Booting, Restoring, Capturing, IsAck, At
  <1> QED BY <1>6, <1>7, <1>8, <1>9 DEF Memory

LEMMA MemorySave ==
  ASSUME Inv, Memory, faults = {}, Save
  PROVE  Memory'
  <1> USE DEF diskVars, logVars, screenVars, tailVars
  <1> DEFINE line == Line("save", 0, 0, {})
  <1>n. PICK n \in Nat : n = Len(child.inbox)
    BY Numbers DEF Inv
  <1>l. PICK now : now = clock'
    OBVIOUS
  <1>0. child \in ChildType /\ call \in CallType
    BY DEF Inv, TypeOK
  <1>1. /\ At("save") /\ Alive /\ Send(line)
        /\ captured' = 0 /\ now = clock + 1 /\ clock \in Nat
        /\ UNCHANGED <<bound, state, saw, booted, restored, footer, pending, tailVars, out, session,
                       cache, logVars, turn>>
    BY <1>l, Numbers DEF Save, Inv, Stages, At
  <1>2. line \in LineType /\ line.cmd = "save"
    BY Small DEF Line
  <1> HIDE DEF line
  <1>3. /\ child'.at = child.at /\ child'.knows = child.knows /\ child'.doing = child.doing
        /\ Len(child'.inbox) = n + 1
        /\ child'.inbox[n + 1] = line
        /\ \A i \in 1 .. n : child'.inbox[i] = child.inbox[i]
        /\ \A i \in 1 .. Len(child'.inbox) : i = n + 1 \/ i \in 1 .. n
    BY <1>n, <1>0, <1>1, <1>2, LineSent
  <1>4. /\ call'.at = "capture" /\ call'.since = now /\ call'.sha = call.sha
        /\ call'.ws = call.ws /\ call'.then = call.then /\ call'.busy = call.busy
    BY <1>l, <1>0 DEF Save, CallType
  <1>5. Kept'
    BY <1>1, <1>3, <1>4 DEF Memory, Kept, Stored, Inhabited, Alive, At
  <1>6. Linked'
    BY <1>1, <1>4 DEF Memory, Linked, At
  <1>7. Queued'
    <2>1. \A i \in 1 .. Len(child'.inbox) :
            /\ IsPrompt(i)' => i \in 1 .. n /\ IsPrompt(i)
            /\ child'.inbox[i].cmd # "switch"
      <3>1. \A i \in 1 .. n : child.inbox[i].cmd # "switch"
        BY <1>n, <1>1 DEF Memory, Queued, At
      <3> QED BY <1>2, <1>3, <3>1 DEF IsPrompt
    <2>2. \A i \in 1 .. n : i \in 1 .. Len(child'.inbox) /\ (IsPrompt(i) => IsPrompt(i)')
      BY <1>3 DEF IsPrompt
    <2>3. \A t \in asked[bound] : \/ t \in child.knows
                                   \/ \E i \in 1 .. n : IsPrompt(i) /\ child.inbox[i].turn = t
      BY <1>n, <1>1 DEF Memory, Queued, At
    <2>4. \A t \in asked[bound] : \/ t \in child.knows
                                   \/ \E i \in 1 .. Len(child'.inbox) :
                                        IsPrompt(i)' /\ child'.inbox[i].turn = t
      BY <1>3, <2>2, <2>3
    <2>5. \A i \in 1 .. n : IsPrompt(i) =>
            /\ child.inbox[i].turn <= turn
            /\ child.at = "work" => child.doing < child.inbox[i].turn
            /\ \A j \in 1 .. n : j < i /\ IsPrompt(j) => child.inbox[j].turn < child.inbox[i].turn
      BY <1>n, <1>1 DEF Memory, Queued
    <2>6. /\ child.at \in {"start", "shown", "prefill"} => child.knows = {}
          /\ child.at = "work" => child.doing <= turn
      BY <1>1 DEF Memory, Queued
    <2> QED BY <1>1, <1>3, <2>1, <2>4, <2>5, <2>6 DEF Queued
  <1>8. Booting' /\ Restoring'
    BY <1>4 DEF Booting, Restoring, At
  <1>9. Capturing'
    <2>1. Sources
      BY DEF Inv, Conversations
    <2>2. \A k \in 1 .. Len(cache) : ~(cache[k].time >= now)
      <3>1. cache \in Seq(FileType)
        BY DEF Inv, TypeOK
      <3>2. \A k \in 1 .. Len(cache) : cache[k] \in FileType
        BY <3>1
      <3>3. \A k \in 1 .. Len(cache) : cache[k].time \in Nat
        BY <3>2 DEF FileType
      <3> QED BY <1>1, <2>1, <3>3 DEF Sources
    <2>3. \E i \in 1 .. Len(child'.inbox) : child'.inbox[i].cmd = "save"
      BY <1>2, <1>3
    <2>4. \A i \in 1 .. Len(out) : ~IsAck(i)
      BY <1>1 DEF Memory, Capturing, At
    <2> QED BY <1>l, <1>1, <1>4, <2>2, <2>3, <2>4 DEF Capturing, SavedNow, IsAck, At
  <1> QED BY <1>5, <1>6, <1>7, <1>8, <1>9 DEF Memory

LEMMA MemoryCapture ==
  ASSUME Inv, Memory, faults = {}, Capture
  PROVE  Memory'
  <1> USE DEF diskVars, logVars, screenVars, tailVars
  <1>1. PICK sha \in (IF NewestSaved(call.since) # {} THEN NewestSaved(call.since)
                      ELSE {captured} \ {0}) :
               session' = [session EXCEPT ![bound] = sha]
    BY DEF Capture
  <1>2. /\ At("capture") /\ Alive /\ bound \in Workspaces
        /\ UNCHANGED <<bound, state, screenVars, pending, tailVars, child, out, cache, clock,
                       logVars, turn>>
    BY DEF Inv, Capture, Stages, At
  <1>3. /\ call'.at = "kill" /\ call'.sha = call.sha /\ call'.ws = call.ws
        /\ call'.then = call.then /\ call'.busy = call.busy
    <2>1. call \in CallType
      BY DEF Inv, TypeOK
    <2> QED BY <2>1 DEF Capture, CallType
  <1>4. session'[bound] = sha /\ \A v \in Workspaces \ {bound} : session'[v] = session[v]
    BY <1>1, <1>2 DEF Inv, TypeOK
  <1>5. sha \in 1 .. Len(cache) /\ cache[sha].time >= call.since
    <2>1. CASE NewestSaved(call.since) # {}
      BY <1>1, <2>1 DEF NewestSaved
    <2>2. CASE NewestSaved(call.since) = {}
      <3>1. captured # 0
        BY <1>1, <2>2
      <3>2. PICK n \in 1 .. Len(cache) : cache[n].time >= call.since
        BY <1>2, <3>1 DEF Memory, Capturing, SavedNow
      <3>3. n \in NewestSaved(call.since)
        BY <1>2, <3>2, SavedIsNewest
      <3> QED BY <2>2, <3>3
    <2> QED BY <2>1, <2>2
  <1>6. Stored(bound)'
    <2>1. asked[bound] \subseteq cache[sha].knows
      BY <1>2, <1>5 DEF Memory, Capturing
    <2>2. sha # 0
      BY <1>5
    <2> QED BY <1>2, <1>4, <2>1, <2>2 DEF Stored
  <1>7. Kept'
    <2>1. ASSUME NEW v \in Workspaces \ {bound} PROVE Stored(v)'
      BY <1>2, <1>4 DEF Memory, Kept, Stored, Inhabited
    <2> QED BY <1>2, <1>6, <2>1 DEF Kept
  <1>8. Linked'
    <2>1. call.then = "save" /\ call.ws # bound /\ call.sha = session[call.ws]
      BY <1>2 DEF Memory, Linked, At
    <2>2. call.ws \in Workspaces
      BY <1>2 DEF Inv, Stages, At
    <2> QED BY <1>2, <1>3, <1>4, <2>1, <2>2 DEF Memory, Linked, At
  <1>9. Queued'
    BY <1>2, <1>3 DEF Memory, Queued, Alive, IsPrompt, At
  <1>10. Booting' /\ Restoring' /\ Capturing'
    BY <1>3 DEF Booting, Restoring, Capturing, At
  <1> QED BY <1>7, <1>8, <1>9, <1>10 DEF Memory

LEMMA MemoryKill ==
  ASSUME Inv, Memory, Kill
  PROVE  Memory'
  <1> USE DEF diskVars, logVars, screenVars, tailVars
  <1>1. /\ call.at = "kill" /\ out' = <<>>
        /\ UNCHANGED <<bound, state, screenVars, pending, tails, diskVars, logVars, turn>>
    BY DEF Kill, At
  <1>2. ~Alive'
    BY NoneLeft DEF Kill
  <1>3. /\ call'.at = IF call.then = "wipe" THEN "wipe" ELSE "bind"
        /\ call'.sha = call.sha /\ call'.ws = call.ws /\ call'.then = call.then
        /\ call'.busy = call.busy /\ call.then \in {"save", "wipe"}
    <2>1. call \in CallType
      BY DEF Inv, TypeOK
    <2> QED BY <2>1 DEF Kill, CallType
  <1>4. Kept'
    BY <1>1, <1>3 DEF Memory, Kept, Stored, Inhabited
  <1>5. Linked'
    BY <1>1, <1>3 DEF Memory, Linked
  <1>6. Queued' /\ Booting' /\ Restoring' /\ Capturing'
    BY <1>2, <1>3 DEF Queued, Booting, Restoring, Capturing, At
  <1> QED BY <1>4, <1>5, <1>6 DEF Memory

LEMMA MemoryWipe ==
  ASSUME Inv, Memory, Wipe
  PROVE  Memory'
  <1> USE DEF diskVars, logVars, screenVars, tailVars
  <1>1. /\ call.at = "wipe" /\ ~Alive /\ call.ws \in Workspaces /\ Erase(call.ws)
        /\ UNCHANGED <<bound, state, screenVars, pending, tailVars, child, out, cache, clock, turn>>
    BY DEF Wipe, Inv, Stages, At
  <1>2. call \in CallType /\ call' = [call EXCEPT !.at = "bind", !.sha = session'[call.ws]]
    BY DEF Wipe, Inv, TypeOK
  <1>3. /\ asked'[call.ws] = {} /\ session'[call.ws] = 0
        /\ \A v \in Workspaces \ {call.ws} : asked'[v] = asked[v] /\ session'[v] = session[v]
    BY <1>1, Erased DEF Inv
  <1>4. /\ call'.at = "bind" /\ call'.sha = session'[call.ws] /\ call'.ws = call.ws
        /\ call'.then = call.then /\ call'.busy = call.busy
    BY <1>2 DEF CallType
  <1>5. Kept'
    <2>1. ASSUME NEW v \in Workspaces PROVE Stored(v)'
      <3>1. CASE v = call.ws
        BY <1>3, <3>1 DEF Stored
      <3>2. CASE v # call.ws
        BY <1>1, <1>3, <3>2 DEF Memory, Kept, Stored, Inhabited, Linked
      <3> QED BY <3>1, <3>2
    <2> QED BY <2>1 DEF Kept
  <1>6. Linked'
    BY <1>1, <1>4 DEF Memory, Linked
  <1>7. Queued' /\ Booting' /\ Restoring' /\ Capturing'
    BY <1>1, <1>4 DEF Queued, Booting, Restoring, Capturing, Alive, At
  <1> QED BY <1>5, <1>6, <1>7 DEF Memory

LEMMA MemoryBind ==
  ASSUME Inv, Memory, Bind
  PROVE  Memory'
  <1> USE DEF diskVars, logVars, screenVars, tailVars
  <1>1. /\ call.at = "bind" /\ ~Alive /\ call.ws \in Workspaces /\ out = <<>> /\ ~call.busy
        /\ bound' = call.ws /\ footer' = "" /\ booted' = FALSE
        /\ UNCHANGED <<restored, captured, out, diskVars, logVars, turn>>
    BY DEF Bind, Memory, Linked, Inv, Stages, At
  <1>2. /\ child'.at = "start" /\ child'.ws = call.ws
        /\ child'.knows = {} /\ child'.inbox = <<>> /\ Len(child'.inbox) = 0
    BY <1>1 DEF Bind, NoChild
  <1>3. Stored(call.ws) /\ call.sha = session[call.ws]
    BY <1>1 DEF Memory, Kept, Linked, Inhabited
  <1>4. \/ /\ call'.at = "boot" /\ call'.sha = call.sha /\ call'.ws = call.ws
           /\ call'.then = call.then /\ call'.busy = call.busy
        \/ call'.at = "idle" /\ call'.busy = FALSE /\ asked[call.ws] = {}
    <2>1. call \in CallType
      BY DEF Inv, TypeOK
    <2>2. CASE call.sha # 0
      <3>1. call' = [call EXCEPT !.at = "boot"]
        BY <2>2 DEF Bind
      <3> QED BY <2>1, <3>1 DEF CallType
    <2>3. CASE call.sha = 0
      <3>1. call' = Resting
        BY <2>3 DEF Bind, Prefill
      <3>2. asked[call.ws] = {}
        BY <1>3, <2>3 DEF Stored
      <3> QED BY <3>1, <3>2 DEF Resting
    <2> QED BY <2>2, <2>3
  <1>5. Alive'
    BY <1>2 DEF Alive
  <1>6. Kept'
    BY <1>1 DEF Memory, Kept, Stored, Inhabited
  <1>7. Linked'
    BY <1>1, <1>3, <1>4 DEF Linked
  <1>8. Queued'
    <2>1. \A i \in 1 .. Len(child'.inbox) : FALSE
      BY <1>2
    <2>2. call'.at \in {"idle", "save", "capture", "kill"} => asked'[bound'] = {}
      BY <1>1, <1>4
    <2> QED BY <1>2, <2>1, <2>2 DEF Queued
  <1>9. Booting'
    <2>1. Len(out') = 0 /\ Printed' = 0
      BY <1>1, <1>2 DEF Printed
    <2>2. (\A i \in 1 .. Len(out') : FALSE) /\ Len(out') <= Printed'
      BY <2>1
    <2>3. ~booted' /\ ~call'.busy /\ call'.at # "prefill"
      BY <1>1, <1>4
    <2> QED BY <1>1, <1>2, <2>1, <2>2, <2>3 DEF Booting, At
  <1>10. Restoring' /\ Capturing'
    <2>1. Len(out') = 0
      BY <1>1
    <2>2. \A i \in 1 .. Len(out') : FALSE
      BY <2>1
    <2> QED BY <1>4, <2>2 DEF Restoring, Capturing, At
  <1> QED BY <1>6, <1>7, <1>8, <1>9, <1>10 DEF Memory

(* /switch goes to a child that has read its system prompt. *)
LEMMA MemorySwitch ==
  ASSUME Inv, Memory, faults = {}, Switch
  PROVE  Memory'
  <1> USE DEF diskVars, logVars, screenVars, tailVars
  <1> DEFINE line == Line("switch", call.sha, 0, {})
  <1>1. /\ call.at = "prefill" /\ At("prefill") /\ Alive /\ bound = call.ws /\ Send(line)
        /\ restored' = FALSE /\ (PrefillDone \/ DeadlineMayPass(FALSE))
        /\ UNCHANGED <<bound, state, captured, pending, tailVars, out, diskVars, logVars, turn>>
    BY DEF Switch, Inv, Stages, At
  <1>2. child \in ChildType /\ call \in CallType
    BY DEF Inv, TypeOK
  <1>3. child.at = "free" /\ Len(out) = 0 /\ child.inbox = <<>> /\ Len(child.inbox) = 0
    <2>1. Booting
      BY DEF Memory
    <2>2. child.inbox = <<>> /\ Len(child.inbox) = 0
      BY <1>1, <2>1 DEF Booting
    <2>3. CASE PrefillDone
      <3>1. Len(out) \in Nat /\ Printed \in {0, 1, 2, 3}
        BY Numbers DEF Inv, Printed
      <3>2. call.busy /\ footer = "idle"
        BY <2>3 DEF PrefillDone
      <3>3. Len(out) + 1 < Printed
        BY <1>1, <2>1, <3>2 DEF Booting
      <3>4. Len(out) # Printed
        BY <3>1, <3>3
      <3>5. footer = BootShows(Printed - Len(out))
        BY <1>1, <2>1, <3>4 DEF Booting
      <3>6. Printed - Len(out) # 2
        BY <3>2, <3>5 DEF BootShows
      <3>7. Printed = 3 /\ Len(out) = 0
        BY <3>1, <3>3, <3>6
      <3>8. child.at = "free"
        <4>1. child.at \in {"start", "shown", "prefill", "free"}
          BY <1>1, <1>2, <2>1, ChildTypes DEF Booting, Alive
        <4> QED BY <3>7, <4>1 DEF Printed
      <3> QED BY <2>2, <3>7, <3>8
    <2>4. CASE DeadlineMayPass(FALSE)
      BY <1>1, <2>4, Deadlines
    <2> QED BY <1>1, <2>3, <2>4
  <1>4. line \in LineType
    BY <1>2, CallTypes, Small
  <1>5. line.cmd = "switch"
    BY DEF Line
  <1> HIDE DEF line
  <1>6. /\ child'.at = child.at /\ child'.knows = child.knows
        /\ Len(child'.inbox) = 1 /\ child'.inbox[1] = line
        /\ \A i \in 1 .. Len(child'.inbox) : i = 1
    BY <1>1, <1>2, <1>3, <1>4, LineSent
  <1>7. /\ call'.at = "switch" /\ call'.sha = call.sha /\ call'.ws = call.ws
        /\ call'.then = call.then
    BY <1>2 DEF Switch, CallType
  <1>8. Kept'
    BY <1>1, <1>7 DEF Memory, Kept, Stored, Inhabited
  <1>9. Linked'
    BY <1>1, <1>7 DEF Memory, Linked
  <1>10. Queued'
    BY <1>3, <1>5, <1>6, <1>7 DEF Queued, IsPrompt
  <1>11. Booting' /\ Capturing'
    BY <1>7 DEF Booting, Capturing, At
  <1>12. Restoring'
    <2>1. \A i \in 1 .. Len(out') : FALSE
      BY <1>1, <1>3
    <2>2. child'.inbox[1] = Line("switch", call'.sha, 0, {})
      BY <1>6, <1>7 DEF line
    <2>3. ~restored' /\ child'.at = "free" /\ Len(child'.inbox) = 1
      BY <1>1, <1>3, <1>6
    <2> QED BY <2>1, <2>2, <2>3 DEF Restoring
  <1> QED BY <1>8, <1>9, <1>10, <1>11, <1>12 DEF Memory

(* The wait ends because the child has obeyed. *)
LEMMA MemorySwitched ==
  ASSUME Inv, Memory, faults = {}, Switched
  PROVE  Memory'
  <1> USE DEF diskVars, logVars, screenVars, tailVars
  <1>1. /\ call.at = "switch" /\ Alive /\ bound \in Workspaces /\ bound = call.ws
        /\ call' = Resting
        /\ UNCHANGED <<bound, screenVars, tailVars, child, out, diskVars, logVars, turn>>
    BY DEF Switched, Prefill, Inv, Stages, At
  <1>2. Restoring
    BY DEF Memory
  <1>3. restored /\ child.inbox = <<>> /\ Len(child.inbox) = 0
    <2>1. CASE restored
      BY <1>1, <1>2, <2>1 DEF Restoring, At
    <2>2. CASE ~restored
      <3>1. Len(out) = 0 /\ Len(child.inbox) = 0
        BY <1>1, <2>2, Deadlines DEF Switched
      <3> QED BY <1>1, <1>2, <2>2, <3>1 DEF Restoring, At
    <2> QED BY <2>1, <2>2
  <1>4. /\ child.at = "free" /\ child.knows = cache[call.sha].knows
        /\ \A i \in 1 .. Len(out) : ~IsAck(i)
    BY <1>1, <1>2, <1>3 DEF Restoring, At
  <1>5. asked[bound] \subseteq child.knows
    <2>1. Stored(bound) /\ call.sha = session[bound] /\ call.sha # 0
      BY <1>1 DEF Memory, Kept, Linked, Inhabited, Inv, Named
    <2> QED BY <1>4, <2>1 DEF Stored
  <1>6. Kept'
    BY <1>1 DEF Memory, Kept, Stored, Inhabited
  <1>7. Linked'
    BY <1>1 DEF Linked, Resting
  <1>8. Queued'
    BY <1>1, <1>3, <1>4, <1>5 DEF Queued
  <1>9. Booting' /\ Restoring' /\ Capturing'
    BY <1>1, <1>4 DEF Booting, Restoring, Capturing, IsAck, Resting, At
  <1> QED BY <1>6, <1>7, <1>8, <1>9 DEF Memory

LEMMA NothingMoves ==
  ASSUME Memory,
         UNCHANGED <<call, bound, booted, restored, captured, footer, child, out, session, cache,
                     clock, asked, turn>>
  PROVE  Memory'
  <1> USE DEF Memory
  <1>1. Kept' /\ Linked'
    BY DEF Kept, Stored, Inhabited, Linked, Alive
  <1>2. Queued'
    BY DEF Queued, IsPrompt, Alive
  <1>3. Booting' /\ Restoring'
    BY DEF Booting, Restoring, Printed, IsAck, At
  <1>4. Capturing'
    BY DEF Capturing, SavedNow, IsAck, At
  <1> QED BY <1>1, <1>2, <1>3, <1>4

LEMMA MemoryTails ==
  ASSUME Memory, NEW t \in tails, TailReads(t) \/ TailFlushes(t) \/ TailStops(t)
  PROVE  Memory'
  <1> USE DEF diskVars, logVars, screenVars, tailVars
  <1>1. UNCHANGED <<call, bound, state, screenVars, pending, running, child, out, diskVars,
                    asked, turn>>
    BY DEF TailReads, TailFlushes, TailStops
  <1> QED BY <1>1, NothingMoves

LEMMA MemoryStutters == ASSUME Memory, UNCHANGED vars PROVE Memory'
  BY NothingMoves DEF vars, diskVars, logVars, screenVars

(* What a read makes of the repaints in it, in particular of the last one. *)
LEMMA LastIs ==
  ASSUME NEW S, NEW chunk \in Seq(S), NEW whats, NEW none,
         chunk # <<>>, chunk[Len(chunk)].shows \in whats
  PROVE  LastOf(chunk, whats, none) = chunk[Len(chunk)]
  <1> DEFINE is == {i \in 1 .. Len(chunk) : chunk[i].shows \in whats}
             last == CHOOSE i \in is : \A k \in is : k <= i
  <1>1. Len(chunk) \in Nat /\ Len(chunk) \in is /\ \A k \in is : k <= Len(chunk)
    OBVIOUS
  <1>2. last \in is /\ \A k \in is : k <= last
    BY <1>1
  <1>3. last = Len(chunk)
    BY <1>1, <1>2
  <1>4. is # {}
    BY <1>1
  <1>5. LastOf(chunk, whats, none) = chunk[last]
    BY <1>4 DEF LastOf
  <1> QED BY <1>3, <1>5

LEMMA ReadShows ==
  ASSUME TypeOK, NEW k \in 1 .. Len(out), Read(k)
  PROVE  /\ out[k].shows \in {"idle", "busy"} => footer' = out[k].shows
         /\ Len(out') = Len(out) - k
         /\ \A i \in 1 .. Len(out') : out'[i] = out[k + i] /\ k + i \in 1 .. Len(out)
         /\ restored' = (restored \/ \E i \in 1 .. k : out[i].shows = "history")
         /\ (\A i \in 1 .. Len(out) : ~IsAck(i)) => captured' = captured
         /\ \A i \in 1 .. k : i \in 1 .. Len(out)
         /\ UNCHANGED <<call, bound, pending, tailVars, child, diskVars, logVars, turn>>
  <1> DEFINE chunk == SubSeq(out, 1, k)
  <1>1. out \in Seq(ShownType) /\ Len(out) \in Nat
    <2>1. out \in Seq(ShownType)
      BY DEF TypeOK
    <2> QED BY <2>1
  <1>2. /\ chunk \in Seq(ShownType) /\ Len(chunk) = k
        /\ \A i \in 1 .. k : chunk[i] = out[i] /\ i \in 1 .. Len(out)
    BY <1>1, Chunk
  <1>3. /\ footer' = LastOf(chunk, {"idle", "busy"}, Shown(footer)).shows
        /\ captured' = LastOf(chunk, {"saved", "history"}, Ack("saved", captured)).sha
        /\ restored' = (restored \/ ShowsIn(chunk, "history"))
        /\ out' = SubSeq(out, k + 1, Len(out))
        /\ UNCHANGED <<call, bound, pending, tailVars, child, diskVars, logVars, turn>>
    BY DEF Read
  <1> HIDE DEF chunk
  <1>4. ASSUME out[k].shows \in {"idle", "busy"} PROVE footer' = out[k].shows
    <2>1. chunk[Len(chunk)] = out[k] /\ chunk # <<>>
      BY <1>2
    <2>2. LastOf(chunk, {"idle", "busy"}, Shown(footer)) = chunk[Len(chunk)]
      BY <1>2, <1>4, <2>1, LastIs
    <2> QED BY <1>3, <2>1, <2>2
  <1>5. ASSUME \A i \in 1 .. Len(out) : ~IsAck(i) PROVE captured' = captured
    <2>1. \A i \in 1 .. Len(chunk) : ~(chunk[i].shows \in {"saved", "history"})
      BY <1>2, <1>5 DEF IsAck
    <2>2. LastOf(chunk, {"saved", "history"}, Ack("saved", captured)) = Ack("saved", captured)
      BY <1>2, <2>1, LastFound
    <2> QED BY <1>3, <2>2 DEF Ack
  <1>6. ShowsIn(chunk, "history") <=> \E i \in 1 .. k : out[i].shows = "history"
    BY <1>2 DEF ShowsIn
  <1>7. /\ Len(out') = Len(out) - k
        /\ \A i \in 1 .. Len(out') : out'[i] = out[k + i] /\ k + i \in 1 .. Len(out)
    BY <1>1, <1>3, Chunk
  <1> QED BY <1>2, <1>3, <1>4, <1>5, <1>6, <1>7

LEMMA MemoryRead ==
  ASSUME Inv, Memory, ReadOutput
  PROVE  Memory'
  <1> USE DEF diskVars, logVars, tailVars
  <1>1. PICK k \in 1 .. Len(out) : Read(k)
    BY DEF ReadOutput
  <1> DEFINE L == Len(out)
             M == Len(out')
  <1>2. /\ out[k].shows \in {"idle", "busy"} => footer' = out[k].shows
        /\ M = L - k /\ L \in Nat /\ k \in Nat /\ k >= 1 /\ k <= L /\ M \in Nat /\ M < L
        /\ \A i \in 1 .. M : out'[i] = out[k + i] /\ k + i \in 1 .. L
        /\ restored' = (restored \/ \E i \in 1 .. k : out[i].shows = "history")
        /\ (\A i \in 1 .. L : ~IsAck(i)) => captured' = captured
        /\ \A i \in 1 .. k : i \in 1 .. L
        /\ UNCHANGED <<call, bound, pending, tailVars, child, diskVars, logVars, turn>>
    <2>1. TypeOK /\ L \in Nat /\ k \in Nat /\ k >= 1 /\ k <= L
      BY Numbers DEF Inv
    <2>2. M = L - k
      BY <1>1, <2>1, ReadShows
    <2>3. M \in Nat /\ M < L
      BY <2>1, <2>2
    <2> QED BY <1>1, <2>1, <2>2, <2>3, ReadShows
  <1> HIDE DEF L, M
  <1>3. Kept' /\ Linked' /\ Queued'
    BY <1>2 DEF Memory, Kept, Stored, Inhabited, Linked, Queued, IsPrompt, Alive
  <1>4. Booting'
    <2> SUFFICES ASSUME call.at \in {"boot", "prefill"} PROVE Booting'
      BY <1>2 DEF Booting
    <2> DEFINE P == Printed
    <2>1. P \in Nat /\ P = Printed'
      BY <1>2 DEF Printed
    <2>2. /\ child.inbox = <<>> /\ child.at # "work" /\ L <= P
          /\ \A i \in 1 .. L : out[i].shows = BootShows(P - L + i)
          /\ call.busy => L + 1 < P
      BY DEF Memory, Booting, L
    <2> HIDE DEF P
    <2>3. \A i \in 1 .. M : out'[i].shows = BootShows(P - M + i)
      <3> TAKE i \in 1 .. M
      <3>1. out'[i] = out[k + i] /\ k + i \in 1 .. L
        BY <1>2
      <3>2. P - L + (k + i) = P - M + i
        BY <1>2, <2>1
      <3> QED BY <2>2, <3>1, <3>2
    <2>4. footer' = BootShows(P - M) /\ M # P /\ M <= P /\ M < P
      <3>1. k \in 1 .. L /\ P - L + k = P - M /\ M < P
        BY <1>2, <2>1, <2>2
      <3>2. out[k].shows = BootShows(P - M)
        BY <2>2, <3>1
      <3>3. out[k].shows \in {"idle", "busy"}
        BY <3>2 DEF BootShows
      <3>4. M # P /\ M <= P
        BY <1>2, <2>1, <3>1
      <3> QED BY <1>2, <3>1, <3>2, <3>3, <3>4
    <2>5. call'.busy => M + 1 < P
      BY <1>2, <2>1, <2>2
    <2> QED BY <1>2, <2>1, <2>2, <2>3, <2>4, <2>5 DEF Booting, M
  <1>5. Restoring'
    <2> SUFFICES ASSUME At("switch") PROVE Restoring'
      BY <1>2 DEF Restoring, At
    <2>1. /\ child.at = "free"
          /\ \A i, j \in 1 .. L : IsAck(i) /\ IsAck(j) => i = j
      BY DEF Memory, Restoring, L
    <2>2. \A i \in 1 .. M : k + i \in 1 .. L /\ (IsAck(i)' <=> IsAck(k + i))
      BY <1>2 DEF IsAck
    <2>3. \A i, j \in 1 .. M : IsAck(i)' /\ IsAck(j)' => i = j
      <3> SUFFICES ASSUME NEW i \in 1 .. M, NEW j \in 1 .. M, IsAck(i)', IsAck(j)'
                   PROVE  i = j
        OBVIOUS
      <3>1. k + i = k + j
        BY <2>1, <2>2
      <3> QED BY <1>2, <3>1
    <2>4. CASE /\ Len(child.inbox) = 1 /\ child.inbox[1] = Line("switch", call.sha, 0, {})
               /\ ~restored /\ \A i \in 1 .. L : ~IsAck(i)
      <3>1. (\A i \in 1 .. M : ~IsAck(i)') /\ ~restored'
        BY <1>2, <2>2, <2>4 DEF IsAck
      <3> QED BY <1>2, <2>1, <2>3, <2>4, <3>1 DEF Restoring, M
    <2>5. CASE /\ child.inbox = <<>> /\ child.knows = cache[call.sha].knows
               /\ ~restored => \E i \in 1 .. L : out[i].shows = "history"
               /\ restored => \A i \in 1 .. L : ~IsAck(i)
      <3>1. /\ ~restored' => \E i \in 1 .. M : out'[i].shows = "history"
            /\ restored' => \A i \in 1 .. M : ~IsAck(i)'
        <4>1. CASE restored
          BY <1>2, <2>2, <2>5, <4>1
        <4>2. CASE ~restored
          <5>1. PICK h \in 1 .. L : out[h].shows = "history"
            BY <2>5, <4>2
          <5>2. \A j \in 1 .. L : IsAck(j) => j = h
            BY <2>1, <5>1 DEF IsAck
          <5>3. CASE h <= k
            <6>1. restored'
              <7>1. h \in 1 .. k
                BY <1>2, <5>3
              <7> QED BY <1>2, <5>1, <7>1
            <6>2. \A i \in 1 .. M : k + i # h
              BY <1>2, <5>3
            <6> QED BY <2>2, <5>2, <6>1, <6>2
          <5>4. CASE ~(h <= k)
            <6>1. h - k \in 1 .. M /\ k + (h - k) = h
              BY <1>2, <5>4
            <6>2. out'[h - k].shows = "history"
              BY <1>2, <5>1, <6>1
            <6>3. ~restored'
              <7>1. ASSUME NEW i \in 1 .. k, out[i].shows = "history" PROVE FALSE
                <8>1. i \in 1 .. L /\ IsAck(i)
                  BY <1>2, <7>1 DEF IsAck
                <8>2. i = h
                  BY <5>2, <8>1
                <8> QED BY <1>2, <5>4, <8>2
              <7> QED BY <1>2, <4>2, <7>1
            <6> QED BY <6>1, <6>2, <6>3
          <5> QED BY <5>3, <5>4
        <4> QED BY <4>1, <4>2
      <3> QED BY <1>2, <2>1, <2>3, <2>5, <3>1 DEF Restoring, M
    <2> QED BY <2>4, <2>5 DEF Memory, Restoring, L
  <1>6. Capturing'
    <2>1. (\A i \in 1 .. L : ~IsAck(i)) => (\A i \in 1 .. M : ~IsAck(i)') /\ captured' = captured
      BY <1>2 DEF IsAck
    <2> QED BY <1>2, <2>1 DEF Memory, Capturing, SavedNow, At, L, M
  <1> QED BY <1>3, <1>4, <1>5, <1>6 DEF Memory

(* Where what the child prints goes. *)
LEMMA SaidWhere ==
  ASSUME out \in Seq(ShownType), NEW new \in Seq(ShownType), out' = out \o new
  PROVE  /\ Len(out) \in Nat /\ Len(new) \in Nat /\ Len(out') = Len(out) + Len(new)
         /\ \A i \in 1 .. Len(out) : out'[i] = out[i] /\ i \in 1 .. Len(out')
         /\ \A i \in 1 .. Len(new) : out'[Len(out) + i] = new[i] /\ Len(out) + i \in 1 .. Len(out')
         /\ \A i \in 1 .. Len(out') :
              i \in 1 .. Len(out) \/ \E j \in 1 .. Len(new) : i = Len(out) + j
  <1>1. Len(out) \in Nat /\ Len(new) \in Nat
    OBVIOUS
  <1>2. /\ Len(out \o new) = Len(out) + Len(new)
        /\ \A i \in 1 .. Len(out) + Len(new) : (out \o new)[i] =
             IF i <= Len(out) THEN out[i] ELSE new[i - Len(out)]
    BY ConcatProperties
  <1>3. \A i \in 1 .. Len(new) : out'[Len(out) + i] = new[i] /\ Len(out) + i \in 1 .. Len(out')
    <2> TAKE i \in 1 .. Len(new)
    <2>1. /\ Len(out) + i \in 1 .. Len(out) + Len(new) /\ ~(Len(out) + i <= Len(out))
          /\ (Len(out) + i) - Len(out) = i
      BY <1>1
    <2> QED BY <1>2, <2>1
  <1>4. \A i \in 1 .. Len(out) : out'[i] = out[i] /\ i \in 1 .. Len(out')
    BY <1>1, <1>2
  <1>5. ASSUME NEW i \in 1 .. Len(out')
        PROVE  i \in 1 .. Len(out) \/ \E j \in 1 .. Len(new) : i = Len(out) + j
    <2>1. i \in Nat /\ i >= 1 /\ i <= Len(out) + Len(new)
      BY <1>1, <1>2
    <2>2. CASE i <= Len(out)
      BY <1>1, <2>1, <2>2
    <2>3. CASE ~(i <= Len(out))
      <3>1. i - Len(out) \in 1 .. Len(new) /\ i = Len(out) + (i - Len(out))
        BY <1>1, <2>1, <2>3
      <3> QED BY <3>1
    <2> QED BY <2>2, <2>3
  <1> QED BY <1>1, <1>2, <1>3, <1>4, <1>5

LEMMA MemoryChildBoots ==
  ASSUME Inv, Memory, ChildBoots
  PROVE  Memory'
  <1> USE DEF diskVars, logVars, screenVars, tailVars
  <1>1. child \in ChildType /\ out \in Seq(ShownType)
    BY DEF Inv, TypeOK
  <1>2. /\ Alive /\ child.at \in {"start", "shown", "prefill"} /\ Printed \in {0, 1, 2}
        /\ UNCHANGED <<call, bound, state, pending, tailVars, screenVars, diskVars, logVars, turn>>
    BY DEF ChildBoots, Alive, Printed
  <1>3. child.knows = {}
    BY <1>2 DEF Memory, Queued
  <1>4. /\ child'.at \in {"shown", "prefill", "free"} /\ child'.knows = {}
        /\ child'.inbox = child.inbox
        /\ out' = out \o <<Shown(BootShows(Printed + 1))>>
    <2>1. CASE child.at = "start"
      <3>1. child' = [child EXCEPT !.at = "shown"] /\ out' = out \o <<Shown("idle")>>
        BY <2>1 DEF ChildBoots, Says
      <3>2. BootShows(Printed + 1) = "idle"
        BY <2>1 DEF BootShows, Printed
      <3> QED BY <1>1, <1>3, <3>1, <3>2 DEF ChildType
    <2>2. CASE child.at = "shown"
      <3>1. child' = [child EXCEPT !.at = "prefill"] /\ out' = out \o <<Shown("busy")>>
        BY <2>2 DEF ChildBoots, Says
      <3>2. BootShows(Printed + 1) = "busy"
        BY <2>2 DEF BootShows, Printed
      <3> QED BY <1>1, <1>3, <3>1, <3>2 DEF ChildType
    <2>3. CASE child.at = "prefill"
      <3>1. child' = [child EXCEPT !.at = "free", !.knows = {}] /\ out' = out \o <<Shown("idle")>>
        BY <2>3 DEF ChildBoots, Says
      <3>2. BootShows(Printed + 1) = "idle"
        BY <2>3 DEF BootShows, Printed
      <3> QED BY <1>1, <3>1, <3>2 DEF ChildType
    <2> QED BY <1>2, <2>1, <2>2, <2>3
  <1>5. Printed' = Printed + 1
    <2>1. \/ child.at = "start" /\ child' = [child EXCEPT !.at = "shown"]
          \/ child.at = "shown" /\ child' = [child EXCEPT !.at = "prefill"]
          \/ child.at = "prefill" /\ child' = [child EXCEPT !.at = "free", !.knows = {}]
      BY DEF ChildBoots
    <2>2. \/ child.at = "start" /\ child'.at = "shown"
          \/ child.at = "shown" /\ child'.at = "prefill"
          \/ child.at = "prefill" /\ child'.at = "free"
      <3>1. CASE child.at = "start" /\ child' = [child EXCEPT !.at = "shown"]
        BY <1>1, <3>1 DEF ChildType
      <3>2. CASE child.at = "shown" /\ child' = [child EXCEPT !.at = "prefill"]
        BY <1>1, <3>2 DEF ChildType
      <3>3. CASE child.at = "prefill" /\ child' = [child EXCEPT !.at = "free", !.knows = {}]
        BY <1>1, <3>3 DEF ChildType
      <3> QED BY <2>1, <3>1, <3>2, <3>3
    <2> QED BY <2>2 DEF Printed
  <1> DEFINE what == BootShows(Printed + 1)
             L == Len(out)
  <1>6. /\ L \in Nat /\ Len(out') = L + 1
        /\ out'[L + 1].shows = what /\ what \in {"idle", "busy"}
        /\ \A i \in 1 .. L : out'[i] = out[i] /\ i \in 1 .. Len(out')
        /\ \A i \in 1 .. Len(out') : i \in 1 .. L \/ i = L + 1
    <2>1. what \in {"idle", "busy"}
      BY DEF BootShows
    <2>2. <<Shown(what)>> \in Seq(ShownType) /\ <<Shown(what)>>[1].shows = what
      BY <2>1, ShownTypes
    <2>3. Len(<<Shown(what)>>) = 1 /\ \A j \in 1 .. 1 : j = 1
      OBVIOUS
    <2> HIDE DEF what
    <2> QED BY <1>1, <1>4, <2>1, <2>2, <2>3, SaidWhere DEF what
  <1> HIDE DEF what, L
  <1>7. Kept' /\ Linked'
    BY <1>2, <1>4 DEF Memory, Kept, Stored, Inhabited, Linked, Alive
  <1>8. Queued'
    BY <1>2, <1>3, <1>4 DEF Memory, Queued, IsPrompt
  <1>9. Booting'
    <2> SUFFICES ASSUME call.at \in {"boot", "prefill"} PROVE Booting'
      BY <1>2 DEF Booting
    <2>0. PICK P \in Nat : P = Printed
      BY <1>2
    <2>1. /\ child.inbox = <<>> /\ L <= P
          /\ \A i \in 1 .. L : out[i].shows = BootShows(P - L + i)
          /\ footer = IF L = P THEN "" ELSE BootShows(P - L)
          /\ booted \/ At("prefill") => L < P
          /\ call.busy => L + 1 < P
      BY <2>0 DEF Memory, Booting, L
    <2>2. P + 1 - (L + 1) = P - L
      BY <1>6, <2>0
    <2>3. \A i \in 1 .. L + 1 : out'[i].shows = BootShows(P - L + i)
      <3> TAKE i \in 1 .. L + 1
      <3>1. CASE i = L + 1
        <4>1. P - L + i = P + 1
          BY <1>6, <2>0, <3>1
        <4> QED BY <1>6, <2>0, <3>1, <4>1 DEF what
      <3>2. CASE i # L + 1
        BY <1>6, <2>1, <3>2
      <3> QED BY <3>1, <3>2
    <2>4. Printed' = P + 1 /\ Len(out') = L + 1 /\ L \in Nat
      BY <1>5, <1>6, <2>0
    <2>5. /\ Len(out') <= Printed'
          /\ \A i \in 1 .. Len(out') : out'[i].shows = BootShows(Printed' - Len(out') + i)
      <3>0. L <= P
        BY <2>1
      <3>1. L + 1 <= P + 1
        BY <2>4, <3>0
      <3>2. \A i \in 1 .. L + 1 : P + 1 - (L + 1) + i = P - L + i
        BY <2>4
      <3> QED BY <2>3, <2>4, <3>1, <3>2
    <2>6. footer' = IF Len(out') = Printed' THEN "" ELSE BootShows(Printed' - Len(out'))
      <3>1. Len(out') = Printed' <=> L = P
        BY <2>4
      <3>2. Printed' - Len(out') = P - L
        BY <2>2, <2>4
      <3>3. footer' = IF L = P THEN "" ELSE BootShows(P - L)
        BY <1>2, <2>1
      <3> QED BY <3>1, <3>2, <3>3
    <2>7. booted' \/ At("prefill")' => Len(out') < Printed'
      <3>1. L < P => L + 1 < P + 1
        BY <2>4
      <3> QED BY <1>2, <2>1, <2>4, <3>1 DEF At
    <2>8. call'.busy => Len(out') + 1 < Printed'
      <3>1. L + 1 < P => (L + 1) + 1 < P + 1
        BY <2>4
      <3> QED BY <1>2, <2>1, <2>4, <3>1
    <2>9. child'.inbox = <<>> /\ child'.at # "work"
      BY <1>4, <2>1
    <2> QED BY <2>5, <2>6, <2>7, <2>8, <2>9 DEF Booting
  <1>10. Restoring'
    <2>1. ~At("switch")
      BY <1>2 DEF Memory, Restoring
    <2> QED BY <1>2, <2>1 DEF Restoring, At
  <1>11. Capturing'
    <2>1. (\A i \in 1 .. L : ~IsAck(i)) => \A i \in 1 .. Len(out') : ~IsAck(i)'
      BY <1>6 DEF IsAck
    <2> QED BY <1>2, <1>4, <2>1 DEF Memory, Capturing, SavedNow, At, L
  <1> QED BY <1>7, <1>8, <1>9, <1>10, <1>11 DEF Memory

LEMMA MemoryChildAnswers ==
  ASSUME Inv, Memory, ChildAnswers
  PROVE  Memory'
  <1> USE DEF diskVars, logVars, screenVars, tailVars
  <1>1. child \in ChildType /\ out \in Seq(ShownType)
    BY DEF Inv, TypeOK
  <1>2. /\ Alive /\ child.at = "work"
        /\ UNCHANGED <<call, bound, state, pending, running, screenVars, diskVars, logVars, turn>>
    BY DEF ChildAnswers, Alive
  <1>3. /\ child'.at = "free" /\ child'.knows = child.knows /\ child'.inbox = child.inbox
    <2>1. child' = [child EXCEPT !.at = "free", !.doing = 0]
      BY DEF ChildAnswers
    <2> QED BY <1>1, <2>1 DEF ChildType
  <1>4. /\ \A i \in 1 .. Len(out) : out'[i] = out[i]
        /\ \A i \in 1 .. Len(out') : i \in 1 .. Len(out) \/ out'[i].shows = "idle"
    <2>1. out' = out \o <<Shown("idle")>>
      BY DEF ChildAnswers, Says
    <2>2. <<Shown("idle")>> \in Seq(ShownType) /\ <<Shown("idle")>>[1].shows = "idle"
      BY ShownTypes
    <2>3. Len(<<Shown("idle")>>) = 1 /\ \A j \in 1 .. 1 : j = 1
      OBVIOUS
    <2> QED BY <1>1, <2>1, <2>2, <2>3, SaidWhere
  <1>5. call.at \notin {"boot", "prefill", "switch"}
    BY <1>2 DEF Memory, Booting, Restoring, At
  <1>6. Kept' /\ Linked'
    BY <1>2, <1>3 DEF Memory, Kept, Stored, Inhabited, Linked, Alive
  <1>7. Queued'
    BY <1>2, <1>3 DEF Memory, Queued, IsPrompt
  <1>8. Booting' /\ Restoring'
    BY <1>2, <1>5 DEF Booting, Restoring, At
  <1>9. Capturing'
    <2>1. (\A i \in 1 .. Len(out) : ~IsAck(i)) => \A i \in 1 .. Len(out') : ~IsAck(i)'
      BY <1>4 DEF IsAck
    <2> QED BY <1>2, <1>3, <2>1 DEF Memory, Capturing, SavedNow, At
  <1> QED BY <1>6, <1>7, <1>8, <1>9 DEF Memory

LEMMA MemorySaving ==
  ASSUME Inv, Memory, ChildObeys, Saving
  PROVE  Memory'
  <1> USE DEF diskVars, logVars, screenVars, tailVars
  <1>1. child \in ChildType /\ cache \in Seq(FileType)
    BY DEF Inv, TypeOK
  <1>2. /\ Alive
        /\ UNCHANGED <<call, bound, state, screenVars, pending, tailVars, session, clock, logVars,
                       turn>>
    BY <1>1, Obeys DEF Alive
  <1>3. /\ child'.inbox = Tail(child.inbox) /\ child'.at = child.at
        /\ child'.knows = child.knows /\ child'.doing = child.doing
    BY <1>1 DEF Saving, ChildType
  <1>4. /\ child.inbox[1].cmd = "save" /\ 1 \in 1 .. Len(child.inbox)
        /\ Len(child.inbox) \in Nat /\ Len(child'.inbox) = Len(child.inbox) - 1
    BY <1>3, Obeyed DEF Saving
  <1>5. call.at \in {"capture", "kill"} /\ Len(child.inbox) = 1 /\ Len(child'.inbox) = 0
    <2>1. 1 = Len(child.inbox) /\ call.at \in {"capture", "kill"}
      BY <1>4 DEF Inv, Saves
    <2> QED BY <1>4, <2>1
  <1> DEFINE file == [ws |-> child.ws, knows |-> child.knows, time |-> clock]
             new == Len(cache) + 1
  <1>6. file \in FileType
    <2>1. child.ws \in Workspaces
      BY <1>2 DEF Inv, Stages
    <2> QED BY <1>1, <2>1, ChildTypes DEF FileType, Inv, TypeOK
  <1>7. /\ Len(cache) \in Nat /\ Len(cache') = new /\ cache'[new] = file /\ new \in 1 .. new
        /\ \A n \in 1 .. Len(cache) : cache'[n] = cache[n] /\ n \in 1 .. new
        /\ \A n \in 1 .. new : n \in 1 .. Len(cache) \/ n = new
    <2>1. /\ Len(cache) \in Nat /\ Len(cache') = new /\ cache'[new] = file
          /\ \A n \in 1 .. Len(cache) : cache'[n] = cache[n]
      BY <1>1, <1>6, AppendProperties, Numbers DEF Saving, Inv
    <2> QED BY <2>1
  <1>8. file.knows = child.knows /\ file.time = clock
    OBVIOUS
  <1> HIDE DEF file, new
  <1>9. Kept'
    <2>1. ASSUME NEW w \in Workspaces, Stored(w) PROVE Stored(w)'
      <3>1. session[w] # 0 => session[w] \in 1 .. Len(cache)
        BY Numbers DEF Inv, Named
      <3> QED BY <1>2, <1>7, <2>1, <3>1 DEF Stored
    <2> QED BY <1>2, <1>3, <2>1 DEF Memory, Kept, Inhabited, Alive
  <1>10. Linked'
    BY <1>2 DEF Memory, Linked
  <1>11. asked[bound] \subseteq child.knows
    <2>1. \A i \in 1 .. Len(child.inbox) : ~IsPrompt(i)
      BY <1>4, <1>5 DEF IsPrompt
    <2> QED BY <1>2, <1>5, <2>1 DEF Memory, Queued
  <1>12. Queued'
    <2>1. \A i \in 1 .. Len(child'.inbox) : FALSE
      BY <1>5
    <2> QED BY <1>2, <1>3, <1>11, <2>1 DEF Memory, Queued
  <1>13. Booting' /\ Restoring'
    BY <1>2, <1>5 DEF Booting, Restoring, At
  <1>14. Capturing'
    <2>1. ASSUME At("capture")
          PROVE  /\ call.since = clock /\ \E n \in 1 .. new : cache'[n].time >= call.since
                 /\ \A n \in 1 .. new : cache'[n].time >= call.since => asked[bound] \subseteq cache'[n].knows
      <3>1. /\ call.since = clock /\ clock \in Nat
            /\ \A n \in 1 .. Len(cache) : cache[n].time >= call.since => asked[bound] \subseteq cache[n].knows
        BY <2>1, Numbers DEF Memory, Capturing, Inv
      <3>2. cache'[new].time >= call.since
        BY <1>7, <1>8, <3>1
      <3> QED BY <1>7, <1>8, <1>11, <3>1, <3>2
    <2> QED BY <1>2, <1>5, <1>7, <2>1 DEF Capturing, SavedNow, At
  <1> QED BY <1>9, <1>10, <1>12, <1>13, <1>14 DEF Memory

(* The child restores the session, and says so once. *)
LEMMA MemorySwitching ==
  ASSUME Inv, Memory, ChildObeys, Switching
  PROVE  Memory'
  <1> USE DEF diskVars, logVars, screenVars, tailVars
  <1>1. child \in ChildType /\ out \in Seq(ShownType)
    BY DEF Inv, TypeOK
  <1>2. /\ Alive
        /\ UNCHANGED <<call, bound, state, screenVars, pending, tailVars, diskVars, logVars, turn>>
    BY <1>1, Obeys DEF Alive, Switching
  <1> DEFINE line == Head(child.inbox)
             sha == line.sha
             L == Len(out)
  <1>3. /\ child'.inbox = Tail(child.inbox) /\ child'.at = child.at
        /\ child'.knows = cache[sha].knows
    BY <1>1 DEF Switching, ChildType
  <1>4. /\ line = child.inbox[1] /\ 1 \in 1 .. Len(child.inbox)
        /\ child.inbox \in Seq(LineType)
        /\ Len(child.inbox) \in Nat /\ Len(child'.inbox) = Len(child.inbox) - 1
        /\ child.inbox # <<>> /\ sha \in Shas
    BY <1>1, <1>3, Obeyed, Obeys, ChildTypes, FirstLine, LineTypes
  <1>5. line.cmd = "switch"
    BY DEF Switching
  <1>6. At("switch")
    <2>1. call.at \notin {"idle", "save", "capture", "kill"}
      BY <1>2, <1>4, <1>5 DEF Memory, Queued
    <2>2. call.at \notin {"boot", "prefill"}
      BY <1>4 DEF Memory, Booting
    <2>3. call.at \notin {"wipe", "bind"}
      BY <1>2 DEF Inv, Stages
    <2>4. call.at \in {"idle", "save", "capture", "kill", "wipe", "bind", "boot", "prefill",
                       "switch"}
      BY CallTypes DEF Inv, TypeOK
    <2> QED BY <2>1, <2>2, <2>3, <2>4 DEF At
  <1>7. /\ child.at = "free" /\ Len(child.inbox) = 1
        /\ child.inbox[1] = Line("switch", call.sha, 0, {})
        /\ ~restored /\ \A i \in 1 .. L : ~IsAck(i)
    BY <1>4, <1>6 DEF Memory, Restoring
  <1>8. sha = call.sha
    BY <1>4, <1>7 DEF Line
  <1>9. Len(child'.inbox) = 0 /\ child'.inbox = <<>>
    <2>1. Len(child'.inbox) = 0 /\ child'.inbox \in Seq(LineType)
      BY <1>3, <1>4, <1>7, HeadTailProperties
    <2> QED BY <2>1
  <1>10. /\ L \in Nat
         /\ \A i \in 1 .. Len(out') : i \in 1 .. L \/ i \in {L + 1, L + 2, L + 3}
         /\ \A i \in 1 .. L : out'[i] = out[i]
         /\ L + 2 \in 1 .. Len(out')
         /\ out'[L + 1].shows = "busy" /\ out'[L + 2].shows = "history" /\ out'[L + 3].shows = "idle"
    <2> DEFINE said == <<Shown("busy"), Ack("history", sha), Shown("idle")>>
    <2> HIDE DEF sha
    <2>1. said \in Seq(ShownType) /\ Len(said) = 3
      BY <1>4, ShownTypes
    <2>2. said[1].shows = "busy" /\ said[2].shows = "history" /\ said[3].shows = "idle"
      BY <1>4, ShownTypes
    <2>3. out' = out \o said
      BY DEF Switching, Says, sha
    <2> HIDE DEF said
    <2>4. /\ \A i \in 1 .. 3 : out'[L + i] = said[i] /\ L + i \in 1 .. Len(out')
          /\ \A i \in 1 .. Len(out') : i \in 1 .. L \/ \E j \in 1 .. 3 : i = L + j
          /\ L \in Nat /\ \A i \in 1 .. L : out'[i] = out[i]
      <3>1. /\ \A i \in 1 .. Len(said) : /\ out'[Len(out) + i] = said[i]
                                        /\ Len(out) + i \in 1 .. Len(out')
            /\ \A i \in 1 .. Len(out') :
                 i \in 1 .. Len(out) \/ \E j \in 1 .. Len(said) : i = Len(out) + j
            /\ Len(out) \in Nat /\ \A i \in 1 .. Len(out) : out'[i] = out[i]
        BY <1>1, <2>1, <2>3, SaidWhere
      <3> QED BY <2>1, <3>1
    <2>5. \A j \in 1 .. 3 : j = 1 \/ j = 2 \/ j = 3
      OBVIOUS
    <2> HIDE DEF L
    <2>6. \A i \in 1 .. Len(out') : i \in 1 .. L \/ i \in {L + 1, L + 2, L + 3}
      BY <2>4, <2>5
    <2>7. 1 \in 1 .. 3 /\ 2 \in 1 .. 3 /\ 3 \in 1 .. 3
      OBVIOUS
    <2> QED BY <2>2, <2>4, <2>6, <2>7
  <1> HIDE DEF line, sha, L
  <1>11. \A i \in 1 .. Len(out') : IsAck(i)' => i = L + 2
    BY <1>7, <1>10 DEF IsAck
  <1>12. Kept'
    BY <1>2, <1>3, <1>6 DEF Memory, Kept, Stored, Inhabited, Alive, At
  <1>13. Linked'
    BY <1>2 DEF Memory, Linked
  <1>14. Queued'
    <2>1. \A i \in 1 .. Len(child'.inbox) : FALSE
      BY <1>9
    <2> QED BY <1>2, <1>3, <1>6, <1>7, <2>1 DEF Queued, At
  <1>15. Booting' /\ Capturing'
    BY <1>2, <1>6 DEF Booting, Capturing, At
  <1>16. Restoring'
    <2>1. \A i, j \in 1 .. Len(out') : IsAck(i)' /\ IsAck(j)' => i = j
      BY <1>11
    <2>2. \E i \in 1 .. Len(out') : out'[i].shows = "history"
      BY <1>10
    <2>3. ~restored' /\ child'.at = "free" /\ child'.knows = cache'[call'.sha].knows
      BY <1>2, <1>3, <1>7, <1>8
    <2> QED BY <1>9, <2>1, <2>2, <2>3 DEF Restoring
  <1> QED BY <1>12, <1>13, <1>14, <1>15, <1>16 DEF Memory

(* A prompt is taken up before those behind it, which were asked later. *)
LEMMA MemoryPrompting ==
  ASSUME Inv, Memory, ChildObeys, Prompting
  PROVE  Memory'
  <1> USE DEF diskVars, logVars, screenVars, tailVars
  <1>1. child \in ChildType /\ out \in Seq(ShownType)
    BY DEF Inv, TypeOK
  <1>2. /\ Alive /\ child.at = "free"
        /\ UNCHANGED <<call, bound, state, screenVars, pending, tailVars, diskVars, logVars, turn>>
    BY <1>1, Obeys DEF Alive, Prompting
  <1> DEFINE line == Head(child.inbox)
             n == Len(child.inbox)
             m == Len(child'.inbox)
  <1>3. /\ child'.inbox = Tail(child.inbox) /\ child'.at = "work"
        /\ child'.knows = child.knows \cup line.with \cup {line.turn}
        /\ child'.doing = line.turn
    BY <1>1 DEF Prompting, ChildType
  <1>4. /\ line = child.inbox[1] /\ 1 \in 1 .. n
        /\ n \in Nat /\ m = n - 1 /\ child.inbox # <<>>
        /\ \A i \in 1 .. m : child'.inbox[i] = child.inbox[i + 1] /\ i + 1 \in 1 .. n
    BY <1>1, <1>3, Obeyed, Obeys
  <1>5. line.cmd = "prompt"
    BY DEF Prompting
  <1> HIDE DEF line, n, m
  <1>6. \A i \in 1 .. n : i = 1 \/ (i - 1 \in 1 .. m /\ child'.inbox[i - 1] = child.inbox[i])
    <2> TAKE i \in 1 .. n
    <2>1. i # 1 => i - 1 \in 1 .. m /\ (i - 1) + 1 = i
      BY <1>4
    <2> QED BY <1>4, <2>1
  <1>7. \A i \in 1 .. m : i \in Nat /\ i + 1 \in 1 .. n /\ (IsPrompt(i)' <=> IsPrompt(i + 1))
    BY <1>4 DEF IsPrompt
  <1>8. call.at \in {"idle", "save", "capture", "kill"}
    <2>1. call.at \notin {"boot", "prefill"}
      BY <1>4 DEF Memory, Booting
    <2>2. call.at # "switch"
      <3>1. Line("switch", call.sha, 0, {}).cmd = "switch"
        BY DEF Line
      <3> QED BY <1>4, <1>5, <3>1 DEF Memory, Restoring, At
    <2>3. call.at \notin {"wipe", "bind"}
      BY <1>2 DEF Inv, Stages
    <2>4. call.at \in {"idle", "save", "capture", "kill", "wipe", "bind", "boot", "prefill",
                       "switch"}
      BY CallTypes DEF Inv, TypeOK
    <2> QED BY <2>1, <2>2, <2>3, <2>4
  <1>9. /\ \A i \in 1 .. n : IsPrompt(i) =>
             /\ child.inbox[i].turn <= turn
             /\ \A j \in 1 .. n : j < i /\ IsPrompt(j) => child.inbox[j].turn < child.inbox[i].turn
        /\ \A t \in asked[bound] : \/ t \in child.knows
                                   \/ \E i \in 1 .. n : IsPrompt(i) /\ child.inbox[i].turn = t
        /\ \A i \in 1 .. n : child.inbox[i].cmd # "switch"
    BY <1>2, <1>8 DEF Memory, Queued, n
  <1>10. IsPrompt(1)
    BY <1>4, <1>5 DEF IsPrompt
  <1>11. Kept' /\ Linked'
    BY <1>2, <1>3 DEF Memory, Kept, Stored, Inhabited, Linked, Alive
  <1>12. Queued'
    <2>1. child'.doing <= turn
      BY <1>3, <1>4, <1>9, <1>10
    <2>2. ASSUME NEW i \in 1 .. m, IsPrompt(i)'
          PROVE  /\ child'.inbox[i].turn <= turn
                 /\ child'.doing < child'.inbox[i].turn
                 /\ \A j \in 1 .. m : j < i /\ IsPrompt(j)' =>
                      child'.inbox[j].turn < child'.inbox[i].turn
      <3>1. /\ i + 1 \in 1 .. n /\ IsPrompt(i + 1) /\ child'.inbox[i] = child.inbox[i + 1]
            /\ 1 < i + 1
        BY <1>4, <1>7, <2>2
      <3>2. child'.doing < child'.inbox[i].turn
        <4>1. child.inbox[1].turn < child.inbox[i + 1].turn
          BY <1>4, <1>9, <1>10, <3>1
        <4> QED BY <1>3, <1>4, <3>1, <4>1
      <3>3. ASSUME NEW j \in 1 .. m, j < i, IsPrompt(j)'
            PROVE  child'.inbox[j].turn < child'.inbox[i].turn
        <4>1. /\ j + 1 \in 1 .. n /\ IsPrompt(j + 1) /\ child'.inbox[j] = child.inbox[j + 1]
          BY <1>4, <1>7, <3>3
        <4>2. j + 1 < i + 1
          BY <1>4, <3>3
        <4> QED BY <1>9, <3>1, <4>1, <4>2
      <3> QED BY <1>9, <3>1, <3>2, <3>3
    <2>3. ASSUME NEW t \in asked[bound]
          PROVE  t \in child'.knows \/ \E i \in 1 .. m : IsPrompt(i)' /\ child'.inbox[i].turn = t
      <3>1. CASE t \in child.knows
        BY <1>3, <3>1
      <3>2. ASSUME NEW i \in 1 .. n, IsPrompt(i), child.inbox[i].turn = t
            PROVE  t \in child'.knows \/ \E k \in 1 .. m : IsPrompt(k)' /\ child'.inbox[k].turn = t
        <4>1. CASE i = 1
          BY <1>3, <1>4, <3>2, <4>1
        <4>2. CASE i # 1
          <5> DEFINE k == i - 1
          <5>1. k \in 1 .. m /\ child'.inbox[k] = child.inbox[i]
            BY <1>6, <4>2
          <5> HIDE DEF k
          <5>2. \E j \in 1 .. m : child'.inbox[j].cmd = "prompt" /\ child'.inbox[j].turn = t
            BY <3>2, <5>1 DEF IsPrompt
          <5> QED BY <5>2 DEF IsPrompt
        <4> QED BY <4>1, <4>2
      <3> QED BY <1>9, <3>1, <3>2
    <2>4. \A i \in 1 .. m : child'.inbox[i].cmd # "switch"
      BY <1>4, <1>9
    <2> QED BY <1>2, <1>3, <2>1, <2>2, <2>3, <2>4 DEF Queued, m
  <1>13. Booting' /\ Restoring'
    BY <1>2, <1>8 DEF Booting, Restoring, At
  <1>14. Capturing'
    <2>1. (\A i \in 1 .. Len(out) : ~IsAck(i)) => \A i \in 1 .. Len(out') : ~IsAck(i)'
      <3> DEFINE said == <<Shown("echo"), Shown("busy")>>
      <3>1. said \in Seq(ShownType) /\ Len(said) = 2
        BY ShownTypes
      <3>2. \A j \in 1 .. 2 : said[j].shows \in {"echo", "busy"}
        BY ShownTypes
      <3>3. out' = out \o said
        BY DEF Prompting, Says
      <3> HIDE DEF said
      <3>4. \A i \in 1 .. Len(out') : \/ i \in 1 .. Len(out) /\ out'[i] = out[i]
                                      \/ out'[i].shows \in {"echo", "busy"}
        <4>1. /\ \A i \in 1 .. Len(out) : out'[i] = out[i]
              /\ \A j \in 1 .. Len(said) : out'[Len(out) + j] = said[j]
              /\ \A i \in 1 .. Len(out') :
                   i \in 1 .. Len(out) \/ \E j \in 1 .. Len(said) : i = Len(out) + j
          BY <1>1, <3>1, <3>3, SaidWhere
        <4>2. \A j \in 1 .. Len(said) : said[j].shows \in {"echo", "busy"}
          BY <3>1, <3>2
        <4> TAKE i \in 1 .. Len(out')
        <4>3. ASSUME NEW j \in 1 .. Len(said), i = Len(out) + j
              PROVE  out'[i].shows \in {"echo", "busy"}
          <5>1. out'[i] = said[j]
            BY <4>1, <4>3
          <5> QED BY <4>2, <5>1
        <4> QED BY <4>1, <4>3
      <3> QED BY <3>4 DEF IsAck
    <2>2. (\E i \in 1 .. n : child.inbox[i].cmd = "save") =>
            \E i \in 1 .. m : child'.inbox[i].cmd = "save"
      BY <1>4, <1>5, <1>6
    <2> QED BY <1>2, <2>1, <2>2 DEF Memory, Capturing, SavedNow, At, n, m
  <1> QED BY <1>11, <1>12, <1>13, <1>14 DEF Memory

LEMMA MemoryNext == ASSUME Inv, Memory, faults = {}, [Next]_vars PROVE Memory'
  <1>1. CASE Client
    <2>1. ~Restart
      BY DEF Restart
    <2> QED BY <1>1, <2>1, MemoryActivate, MemoryReset, MemoryResetOther, MemorySubmit DEF Client
  <1>2. CASE Call
    BY <1>2, MemorySave, MemoryCapture, NoCaptureTimesOut, MemoryKill, MemoryWipe, MemoryBind,
       MemoryBoots, MemorySwitch, MemorySwitched
    DEF Call
  <1>3. CASE Reader
    BY <1>3, MemoryRead DEF Reader
  <1>4. CASE Tailers
    BY <1>4, MemoryTails DEF Tailers
  <1>5. CASE Child
    <2>1. child \in ChildType
      BY DEF Inv, TypeOK
    <2>2. ChildObeys => Saving \/ Switching \/ Prompting
      BY <2>1, Obeys
    <2> QED BY <1>5, <2>2, MemoryChildBoots, MemorySaving, MemorySwitching, MemoryPrompting,
               MemoryChildAnswers DEF Child
  <1>6. CASE UNCHANGED vars
    BY <1>6, MemoryStutters
  <1> QED BY <1>1, <1>2, <1>3, <1>4, <1>5, <1>6 DEF Next

LEMMA RememberedAlways == Spec => []Remembered
  <1>1. Init => Remembered
    BY MemoryInit DEF Remembered
  <1>2. Inv /\ Remembered /\ [Next]_vars => Remembered'
    <2> SUFFICES ASSUME Inv, Remembered, [Next]_vars PROVE Remembered'
      OBVIOUS
    <2>1. faults' = faults
      BY DEF Next, Client, Call, Reader, Tailers, Child, vars
    <2> QED BY <2>1, MemoryNext DEF Remembered
  <1> QED BY <1>1, <1>2, InvAlways, PTL DEF Spec

(* A child that starts on a prompt knows all that its workspace asked      *)
(* before, over any number of /save, kill, boot and /switch of any number  *)
(* of workspaces, when nothing is late and the server stays up: no step of *)
(* an activation is taken early and none gives up.                         *)
THEOREM NothingIsForgotten == Spec => []NothingForgotten
  <1>1. Inv /\ Remembered => NothingForgotten
    <2> SUFFICES ASSUME Inv, Remembered, faults = {}, child.at = "work",
                        NEW t \in asked[child.ws], t <= child.doing
                 PROVE  t \in child.knows
      BY DEF NothingForgotten, Continuity
    <2>1. Memory /\ Alive /\ child.ws = bound
      BY DEF Remembered, Inv, Stages, Alive
    <2>2. call.at \notin {"boot", "prefill", "switch", "wipe", "bind"}
      BY <2>1 DEF Memory, Booting, Restoring, At, Inv, Stages
    <2>3. call.at \in {"idle", "save", "capture", "kill"}
      BY <2>2, CallTypes DEF Inv, TypeOK
    <2>4. ASSUME NEW i \in 1 .. Len(child.inbox), IsPrompt(i), child.inbox[i].turn = t PROVE FALSE
      <3>1. child.doing < child.inbox[i].turn
        BY <2>1, <2>4 DEF Memory, Queued
      <3>2. child.doing \in Nat /\ child.inbox[i].turn \in Nat
        BY Flags
      <3> QED BY <2>4, <3>1, <3>2
    <2> QED BY <2>1, <2>3, <2>4 DEF Memory, Queued
  <1> QED BY <1>1, InvAlways, RememberedAlways, PTL

=============================================================================
