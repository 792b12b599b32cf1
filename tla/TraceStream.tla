------------------------------ MODULE TraceStream ------------------------------
(***************************************************************************)
(* How the trace of the child becomes text in the event log                *)
(* (src/src/tracestream.c): the tokens of the prompt are skipped, what the *)
(* model generates is cut into thinking, answer and tool calls at markers  *)
(* that may be spread over tokens, what may be the start of a marker is    *)
(* held back, and every piece is sanitized by itself (emit_prose in        *)
(* src/src/agent.c) and logged as a JSON string.                           *)
(*                                                                         *)
(* A step is one line of the trace, or the flush of the trace reader when  *)
(* the trace has been quiet (trace_reader_fn).  The lines, their time      *)
(* stamps and the hex digits of a token are left out; a token line is the  *)
(* bytes it stands for.  A turn is followed in `fed', what was fed, and in *)
(* `out', what came out byte by byte with its kind.                        *)
(***************************************************************************)
EXTENDS Text

CONSTANTS
  ThinkEnd, DsmlOpen, DsmlClose,   (* The markers, as bytes.               *)
  Reserve,                         (* RESERVE                              *)
  Models,                          (* What may be generated: the tokens of *)
                                   (* a turn and a bound on its bytes.     *)
  Skips                            (* Lengths of a prompt.                 *)

ASSUME TraceAssumption ==
  /\ Reserve \in Nat
  /\ \A m \in {ThinkEnd, DsmlOpen, DsmlClose} : m \in Seq(Byte) /\ Len(m) \in 1 .. Reserve
  /\ \A m \in Models : m.tokens \subseteq Seq(Byte) /\ m.bytes \in Nat
  /\ Skips \subseteq Nat

VARIABLES
  model,          (* What generates.                                       *)
  stalls,         (* Whether the trace may go quiet within a turn.         *)
  skip,           (* Tokens of the prompt still to be skipped.             *)
  answering,      (* answer_mode                                           *)
  inDsml,         (* in_dsml                                               *)
  acc,            (* What is not classified yet.                           *)
  over,           (* The model has stopped generating.                     *)
  fed,            (* What it generated in this turn.                       *)
  out,            (* What was emitted in this turn.                        *)
  answer          (* The text of its answer events, each sanitized.        *)

vars == <<model, stalls, skip, answering, inDsml, acc, over, fed, out, answer>>

Init ==
  /\ model \in Models
  /\ stalls \in BOOLEAN
  /\ skip = 0 /\ answering = FALSE /\ inDsml = FALSE /\ acc = <<>>
  /\ over = TRUE /\ fed = <<>> /\ out = <<>> /\ answer = <<>>

-----------------------------------------------------------------------------
(* drain.                                                                  *)

(* Where a marker first occurs, 0 if it does not. *)
IsAt(s, m, i) == i + Len(m) - 1 <= Len(s) /\ SubSeq(s, i, i + Len(m) - 1) = m
Find(s, m) ==
  LET is == {i \in 1 .. Len(s) : IsAt(s, m, i)}
  IN  IF is = {} THEN 0 ELSE CHOOSE i \in is : \A k \in is : i <= k

Tagged(kind, s) == [i \in 1 .. Len(s) |-> [kind |-> kind, byte |-> s[i]]]

(* What the parser holds and what it has emitted. *)
Parser == [answering |-> answering, inDsml |-> inDsml, acc |-> acc, out |-> out,
           answer |-> answer]

(* A callback with the first n bytes of the accumulator. *)
Emit(p, kind, n) ==
  LET piece == SubSeq(p.acc, 1, n) IN
    [p EXCEPT !.out = @ \o Tagged(kind, piece), !.acc = From(@, n + 1),
              !.answer = IF kind = "answer" THEN @ \o Sanitize(piece) ELSE @]

EmitAll(p, kind) == Emit(p, kind, Len(p.acc))

(* All but a possible start of a marker. *)
EmitSafe(p, kind) ==
  Emit(p, kind, IF Len(p.acc) > Reserve THEN Len(p.acc) - Reserve ELSE 0)

EmitRest(p, kind, flush) == IF flush THEN EmitAll(p, kind) ELSE EmitSafe(p, kind)

(* A drain that takes the closing tag out, for comparison. *)
ToolWithoutTag(p, at) ==
  [Emit(p, "tool", at - 1) EXCEPT !.acc = From(p.acc, at + Len(DsmlClose)), !.inDsml = FALSE]

ToolThroughTag(p, at) == [Emit(p, "tool", at - 1 + Len(DsmlClose)) EXCEPT !.inDsml = FALSE]

(* One round of the loop: complete markers first. *)
Thinking(p, flush) ==
  LET at == Find(p.acc, ThinkEnd) IN
    IF at = 0 THEN [again |-> FALSE, p |-> EmitRest(p, "thinking", flush)]
    ELSE [again |-> TRUE,
          p |-> [Emit(p, "thinking", at - 1) EXCEPT !.acc = From(p.acc, at + Len(ThinkEnd)),
                                                   !.answering = TRUE]]

ToolCall(p, flush) ==
  LET at == Find(p.acc, DsmlClose) IN
    CASE at # 0           -> [again |-> TRUE, p |-> ToolThroughTag(p, at)]
      [] at = 0 /\ flush  -> [again |-> FALSE, p |-> [EmitAll(p, "tool") EXCEPT !.inDsml = FALSE]]
      [] at = 0 /\ ~flush -> [again |-> FALSE, p |-> p]

Answer(p, flush) ==
  LET at == Find(p.acc, DsmlOpen) IN
    IF at = 0 THEN [again |-> FALSE, p |-> EmitRest(p, "answer", flush)]
    ELSE [again |-> TRUE, p |-> [Emit(p, "answer", at - 1) EXCEPT !.inDsml = TRUE]]

Round(p, flush) ==
  IF p.acc = <<>> THEN [again |-> FALSE, p |-> p]
  ELSE IF ~p.answering THEN Thinking(p, flush)
  ELSE IF p.inDsml THEN ToolCall(p, flush)
  ELSE Answer(p, flush)

(* The rounds of the loop.  Every one but the last consumes a byte or goes *)
(* over to a tool call, which consumes one.                                *)
Rounds(p) == 2 * Len(p.acc) + 1

Drain(p, flush) ==
  LET after[n \in 0 .. Rounds(p)] ==
        IF n = 0 THEN [again |-> TRUE, p |-> p]
        ELSE IF after[n - 1].again THEN Round(after[n - 1].p, flush) ELSE after[n - 1]
  IN  after[Rounds(p)].p

Becomes(p) ==
  /\ answering' = p.answering /\ inDsml' = p.inDsml /\ acc' = p.acc
  /\ out' = p.out /\ answer' = p.answer

-----------------------------------------------------------------------------
(* Lines.                                                                  *)

ResetTurn == acc' = <<>> /\ answering' = FALSE /\ inDsml' = FALSE

(* "user=": a new turn.  What was held back of the last one is dropped; it *)
(* was flushed if the trace was quiet before.                              *)
UserLine ==
  /\ over
  /\ stalls \/ acc = <<>>
  /\ ResetTurn
  /\ over' = FALSE /\ fed' = <<>> /\ out' = <<>> /\ answer' = <<>>
  /\ UNCHANGED <<model, stalls, skip>>

(* "tokens label": the tokens of a prompt, of a turn or of a tool's result.*)
LabelLine ==
  /\ ~over /\ skip = 0
  /\ skip' \in Skips
  /\ UNCHANGED <<model, stalls, answering, inDsml, acc, over, fed, out, answer>>

(* "token" within a prompt: dropped. *)
PromptToken ==
  /\ ~over /\ skip > 0
  /\ skip' = skip - 1
  /\ UNCHANGED <<model, stalls, answering, inDsml, acc, over, fed, out, answer>>

(* "token" that was generated. *)
Token ==
  /\ ~over /\ skip = 0
  /\ \E t \in model.tokens :
       /\ Len(fed) + Len(t) <= model.bytes
       /\ fed' = fed \o t
       /\ Becomes(Drain([Parser EXCEPT !.acc = @ \o t], FALSE))
  /\ UNCHANGED <<model, stalls, skip, over>>

(* Any other line drains what is safe; the last of a turn is one of them.  *)
OtherLine ==
  /\ ~over
  /\ over' \in BOOLEAN
  /\ Becomes(Drain(Parser, FALSE))
  /\ UNCHANGED <<model, stalls, skip, fed>>

(* The trace has been quiet for 250 ms, or the reader is told to stop. *)
Flush ==
  /\ stalls \/ over
  /\ Becomes(Drain(Parser, TRUE))
  /\ UNCHANGED <<model, stalls, skip, over, fed>>

Next == UserLine \/ LabelLine \/ PromptToken \/ Token \/ OtherLine \/ Flush

Spec == Init /\ [][Next]_vars

-----------------------------------------------------------------------------
(* What a turn should come out as: thinking up to the marker, and then     *)
(* answers with a tool call from each opening tag through its closing one. *)

AnswerOf[s \in Seq(Byte)] ==
  LET open == Find(s, DsmlOpen)
      tool == From(s, open)
      close == Find(tool, DsmlClose)
      end == close + Len(DsmlClose)
  IN  IF open = 0 THEN Tagged("answer", s)
      ELSE Tagged("answer", SubSeq(s, 1, open - 1)) \o
             (IF close = 0 THEN Tagged("tool", tool)
              ELSE Tagged("tool", SubSeq(tool, 1, end - 1)) \o AnswerOf[From(tool, end)])

TurnOf(s) ==
  LET at == Find(s, ThinkEnd) IN
    IF at = 0 THEN Tagged("thinking", s)
    ELSE Tagged("thinking", SubSeq(s, 1, at - 1)) \o AnswerOf[From(s, at + Len(ThinkEnd))]

Starts(s, t) == Len(s) <= Len(t) /\ SubSeq(t, 1, Len(s)) = s

(* What the elements of a sequence stand for, one after the other. *)
Mapped(s, f) ==
  LET upTo[i \in 0 .. Len(s)] == IF i = 0 THEN <<>> ELSE upTo[i - 1] \o f[s[i]]
  IN  upTo[Len(s)]

Event == [kind : {"thinking", "answer", "tool"}, byte : Byte]

OfKind(s, kind) == Mapped(s, [e \in Event |-> IF e.kind = kind THEN <<e.byte>> ELSE <<>>])

Ascii(s) == Mapped(s, [b \in Byte |-> IF b < 128 THEN <<b>> ELSE <<>>])
Plain(s) == Mapped(s, [b \in Byte |-> IF b < 128 /\ ~Dropped(b) THEN <<b>> ELSE <<>>])

Bytes(s) == [i \in 1 .. Len(s) |-> s[i].byte]

(* What is emitted is the start of what the whole turn comes to, however   *)
(* its markers are spread over tokens, and all of it once it is flushed.   *)
SplitIsRight ==
  ~stalls => /\ Starts(out, TurnOf(fed))
             /\ over /\ acc = <<>> => out = TurnOf(fed)

(* Every byte generated is emitted or held, once and in order, but for one *)
(* end marker, even if a pause cuts a marker in two.                       *)
NoByteLost ==
  LET kept == Bytes(out) \o acc IN
    \/ kept = fed
    \/ \E i \in 1 .. Len(fed) :
         IsAt(fed, ThinkEnd, i) /\ kept = SubSeq(fed, 1, i - 1) \o From(fed, i + Len(ThinkEnd))

(* What the model generates comes out clean whatever bytes it is made of,  *)
(* and sanitizing it again changes nothing.                                *)
SanitizedIsClean == IsClean(Sanitize(fed)) /\ Sanitize(Sanitize(fed)) = Sanitize(fed)

(* Any bytes are logged on one line, as the file of the log and the frames *)
(* of SSE need, and read back as they were.                                *)
JsonIsALine ==
  /\ \A i \in 1 .. Len(JsonString(fed)) : JsonString(fed)[i] >= 32
  /\ ParseString(JsonString(fed)) = [ok |-> TRUE, text |-> fed]

(* Both: an event is one clean line, whatever the child printed.           *)
EventsAreLines == SanitizedIsClean /\ JsonIsALine

(* The plain text of a turn's answers is logged exactly, although pieces   *)
(* are cut in the middle of characters and each is sanitized by itself:    *)
(* neither a cut nor a broken character takes its neighbours with it.      *)
PlainProseIsExact ==
  ~stalls /\ over /\ acc = <<>> =>
    Ascii(answer) = Plain(OfKind(TurnOf(fed), "answer"))
=============================================================================
