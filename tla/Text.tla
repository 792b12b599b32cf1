--------------------------------- MODULE Text ---------------------------------
(***************************************************************************)
(* The text helpers of src/src/util.c that every event goes through: the   *)
(* UTF-8 decoder, the sanitizer, and the JSON strings that are written to  *)
(* the event log and read back from it.  Text is a sequence of bytes.  The *)
(* cap of the sanitizer is left out: it is above what is fed to it.        *)
(***************************************************************************)
EXTENDS Naturals, Sequences

Byte == 0 .. 255

(* What a decoder returns that found nothing to decode. *)
Nothing == [used |-> 0, cp |-> 0]

(* utf8_seq_len: by the leading bits. *)
SeqLen(b) ==
  CASE b \div 128 = 0 -> 1
    [] b \div 32 = 6  -> 2
    [] b \div 16 = 14 -> 3
    [] b \div 8 = 30  -> 4
    [] OTHER          -> 0

Continues(b) == b \div 64 = 2

(* The payload bits of a sequence of n bytes. *)
CodePoint(s, n) ==
  CASE n = 1 -> s[1]
    [] n = 2 -> (s[1] % 32) * 64 + (s[2] % 64)
    [] n = 3 -> (s[1] % 16) * 4096 + (s[2] % 64) * 64 + (s[3] % 64)
    [] n = 4 -> (s[1] % 8) * 262144 + (s[2] % 64) * 4096 + (s[3] % 64) * 64 + (s[4] % 64)

IsHigh(u) == u >= 55296 /\ u <= 56319
IsLow(u) == u >= 56320 /\ u <= 57343

(* Whether a sequence of n bytes may stand for v. *)
NeedsBytes(n, v) ==
  CASE n = 1 -> TRUE
    [] n = 2 -> v >= 128
    [] n = 3 -> v >= 2048 /\ ~IsHigh(v) /\ ~IsLow(v)
    [] n = 4 -> v >= 65536 /\ v <= 1114111

(* utf8_decode: overlong forms and surrogates are refused. *)
Decode(s) ==
  LET n == IF s = <<>> THEN 0 ELSE SeqLen(s[1]) IN
    IF /\ n \in 1 .. Len(s)
       /\ \A i \in 2 .. n : Continues(s[i])
       /\ NeedsBytes(n, CodePoint(s, n))
      THEN [used |-> n, cp |-> CodePoint(s, n)]
      ELSE Nothing

(* utf8_encode *)
Encode(cp) ==
  CASE cp < 128 -> <<cp>>
    [] cp >= 128 /\ cp < 2048 -> <<192 + (cp \div 64), 128 + (cp % 64)>>
    [] cp >= 2048 /\ cp < 65536 ->
         <<224 + (cp \div 4096), 128 + ((cp \div 64) % 64), 128 + (cp % 64)>>
    [] OTHER ->
         <<240 + (cp \div 262144), 128 + ((cp \div 4096) % 64),
           128 + ((cp \div 64) % 64), 128 + (cp % 64)>>

Replacement == 65533

From(s, i) == SubSeq(s, i, Len(s))

(* The control characters that are dropped. *)
Dropped(cp) ==
  \/ cp < 32 /\ cp \notin {9, 10}
  \/ cp >= 128 /\ cp <= 159

(* A sanitizer that passes over all of a sequence it cannot decode, for    *)
(* comparison.                                                             *)
ResyncAfter(s) == IF SeqLen(s[1]) \in 1 .. Len(s) THEN SeqLen(s[1]) ELSE 1

(* How much it passes over where nothing decodes. *)
Resync(s) == 1

(* pin_text_sanitize: what cannot be decoded is replaced byte by byte. *)
Sanitize(s) ==
  LET rest[i \in 1 .. Len(s) + 1] ==
        IF i > Len(s) THEN <<>>
        ELSE LET d == Decode(From(s, i)) IN
               IF d.used = 0 THEN Encode(Replacement) \o rest[i + Resync(From(s, i))]
               ELSE (IF Dropped(d.cp) THEN <<>> ELSE Encode(d.cp)) \o rest[i + d.used]
  IN  rest[1]

-----------------------------------------------------------------------------
(* JSON strings.                                                           *)

Quote == 34
Backslash == 92

(* The letter of each short escape: \b \t \n \f \r. *)
Short == [c \in {8, 9, 10, 12, 13} |->
            CASE c = 8 -> 98 [] c = 9 -> 116 [] c = 10 -> 110 [] c = 12 -> 102 [] c = 13 -> 114]

HexDigit(n) == IF n < 10 THEN 48 + n ELSE 87 + n

(* An escape that leaves line ends alone, for comparison. *)
EscapeLoose(c) ==
  CASE c \in {Quote, Backslash} -> <<Backslash, c>>
    [] OTHER                    -> <<c>>

Escape(c) ==
  CASE c \in {Quote, Backslash} -> <<Backslash, c>>
    [] c \in DOMAIN Short       -> <<Backslash, Short[c]>>
    [] c < 32 /\ c \notin DOMAIN Short ->
         <<Backslash, 117, 48, 48, HexDigit(c \div 16), HexDigit(c % 16)>>
    [] OTHER                    -> <<c>>

(* pin_json_strn *)
JsonString(s) ==
  LET done[i \in 0 .. Len(s)] == IF i = 0 THEN <<Quote>> ELSE done[i - 1] \o Escape(s[i])
  IN  Append(done[Len(s)], Quote)

(* hexdig, 16 for what is no digit. *)
HexValue(c) ==
  CASE c >= 48 /\ c <= 57  -> c - 48
    [] c >= 97 /\ c <= 102 -> c - 87
    [] c >= 65 /\ c <= 70  -> c - 55
    [] OTHER               -> 16

(* Four hex digits from i on, 65536 if they are not there. *)
Hex4(s, i) ==
  IF i + 3 > Len(s) \/ \E k \in i .. i + 3 : HexValue(s[k]) = 16 THEN 65536
  ELSE HexValue(s[i]) * 4096 + HexValue(s[i + 1]) * 256 + HexValue(s[i + 2]) * 16
       + HexValue(s[i + 3])

(* What the escape at i stands for and how long it is; length 0 if it is   *)
(* no escape.  A low surrogate that follows a high one is joined to it.    *)
Unescape(s, i) ==
  LET c == IF i < Len(s) THEN s[i + 1] ELSE 0
      u == Hex4(s, i + 2)
      low == IF i + 7 <= Len(s) /\ s[i + 6] = Backslash /\ s[i + 7] = 117 THEN Hex4(s, i + 8)
             ELSE 65536
  IN  CASE c \in {Quote, Backslash, 47} -> [used |-> 2, bytes |-> <<c>>]
        [] \E k \in DOMAIN Short : Short[k] = c ->
             [used |-> 2, bytes |-> <<CHOOSE k \in DOMAIN Short : Short[k] = c>>]
        [] c = 117 /\ u < 65536 /\ ~(IsHigh(u) /\ IsLow(low)) ->
             [used |-> 6, bytes |-> Encode(u)]
        [] c = 117 /\ IsHigh(u) /\ IsLow(low) ->
             [used |-> 12, bytes |-> Encode(65536 + (u - 55296) * 1024 + (low - 56320))]
        [] OTHER -> [used |-> 0, bytes |-> <<>>]

Unparsed == [ok |-> FALSE, text |-> <<>>]

(* A byte more in front of what is read. *)
Before(bytes, r) == [ok |-> r.ok, text |-> bytes \o r.text]

(* pin_json_parse_string, of a text that starts at its quote.  The bytes   *)
(* are those of its buffer; a caller takes them up to a NUL, which the     *)
(* sanitizer drops before an event is written.                             *)
ParseString(s) ==
  LET rest[i \in 1 .. Len(s) + 12] ==
        IF i > Len(s) THEN Unparsed
        ELSE IF s[i] = Quote THEN [ok |-> TRUE, text |-> <<>>]
        ELSE LET e == IF s[i] = Backslash THEN Unescape(s, i)
                      ELSE [used |-> 1, bytes |-> <<s[i]>>] IN
               IF e.used = 0 THEN Unparsed
               ELSE Before(e.bytes, rest[i + e.used])
  IN  IF s = <<>> \/ s[1] # Quote THEN Unparsed ELSE rest[2]

-----------------------------------------------------------------------------

(* Text that decodes throughout and has none of the characters dropped. *)
IsClean(s) ==
  LET clean[i \in 1 .. Len(s) + 1] ==
        \/ i > Len(s)
        \/ LET d == Decode(From(s, i)) IN
             /\ d.used > 0
             /\ d.cp >= 32 \/ d.cp \in {9, 10}
             /\ d.cp < 128 \/ d.cp > 159
             /\ clean[i + d.used]
  IN  clean[1]
=============================================================================
