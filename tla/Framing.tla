------------------------------- MODULE Framing -------------------------------
(***************************************************************************)
(* One direction of a connection, character by character: what setData     *)
(* makes of a text, and how the read handlers cut the stream of            *)
(* characters into messages again.  Frame has the kinds of frame that      *)
(* come out of this; here is why there are no others.                      *)
(*                                                                         *)
(* The other end writes with Transport::Message, too, or is some other     *)
(* program.  Characters are integers: a digit is its value.                *)
(*                                                                         *)
(* Where Link has definitions of the same name, those here bear the name   *)
(* of the module, so that LinkProofs can extend both.                      *)
(***************************************************************************)
EXTENDS Integers, SequencesExt

CONSTANTS
  HEADER_SIZE,
  Base,         \* digits of a numeral
  Wrap,         \* one more than the greatest unsigned int
  Letters,      \* characters without a meaning in a header
  PING,         \* HEARTBEAT_MESSAGE
  Texts,        \* what setData is given
  MaxMessages,  \* bound: texts written
  MaxForeign    \* bound: characters of another program

\* As in the code, the longest body is the greatest number a header holds.
MAX_BODY_SIZE ==
  LET headers[k \in 0..HEADER_SIZE] == IF k = 0 THEN 1 ELSE Base * headers[k - 1]
  IN  headers[HEADER_SIZE] - 1

Digits == 0..Base - 1
Nul    == -1
Space  == -2
Minus  == -3
Plus   == -4
Chars  == Digits \cup {Nul, Space, Minus, Plus} \cup Letters

ASSUME FramingAssumption ==
  /\ HEADER_SIZE \in Nat \ {0} /\ Base \in Nat \ {0, 1}
  /\ Wrap \in Nat /\ Wrap > 2 * MAX_BODY_SIZE + 1
  /\ Letters \subseteq Int /\ \A c \in Letters : c < Plus
  /\ PING \in Seq(Letters)
  \* Longer data is copied past the end of the buffer.
  /\ \A text \in Texts : text \in Seq(Chars) /\ Len(text) <= MAX_BODY_SIZE
  /\ MaxMessages \in Nat /\ MaxForeign \in Nat

VARIABLES
  own,      \* the other end uses Transport::Message
  written,  \* the texts given to setData so far
  stream,   \* the characters on the way
  reading,  \* what is read next: "header", "body" or, after an error, nothing
  length,   \* bodyLength_ of message_
  results   \* the messages read: their bodies, and whether isHeartbeat held

framingVars == <<own, written, stream, reading, length, results>>

FramingInit ==
  /\ own \in BOOLEAN
  /\ written = <<>> /\ stream = <<>>
  /\ reading = "header" /\ length = 0 /\ results = <<>>

-----------------------------------------------------------------------------
(* The functions of the C library.                                         *)

\* How many characters at the start of s are in set.
Span(s, set) ==
  CHOOSE n \in 0..Len(s) :
    (\A i \in 1..n : s[i] \in set) /\ (n < Len(s) => s[n + 1] \notin set)

From(s, n) == SubSeq(s, n + 1, Len(s))

\* What the terminating Nul leaves of s.
CString(s) == SubSeq(s, 1, Span(s, Chars \ {Nul}))

\* strncpy stops at a Nul and fills up with others.
Strncpy(s) ==
  [i \in 1..Len(s) |-> IF i <= Len(CString(s)) THEN s[i] ELSE Nul]

\* The number that digits are.
Value(s) ==
  LET value[i \in 0..Len(s)] == IF i = 0 THEN 0 ELSE Base * value[i - 1] + s[i]
  IN  value[Len(s)]

Atoi(s) ==
  LET t      == From(s, Span(s, {Space}))
      signed == t # <<>> /\ Head(t) \in {Minus, Plus}
      u      == IF signed THEN Tail(t) ELSE t
      n      == Value(SubSeq(u, 1, Span(u, Digits)))
  IN  IF signed /\ Head(t) = Minus THEN -n ELSE n

\* %d
Numeral(n) ==
  LET numeral[k \in 0..n] ==
        IF k < Base THEN <<k>> ELSE Append(numeral[k \div Base], k % Base)
  IN  numeral[n]

-----------------------------------------------------------------------------
(* The writer.                                                             *)

\* The number, right-aligned.
EncodeHeader(n) ==
  [i \in 1..HEADER_SIZE - Len(Numeral(n)) |-> Space] \o Numeral(n)

\* Faulty variant: the length of what strncpy copies.
SetCString(data) == EncodeHeader(Len(CString(data))) \o Strncpy(data)

SetData(data) == EncodeHeader(Len(data)) \o Strncpy(data)

Write(text) ==
  /\ own
  /\ Len(written) < MaxMessages
  /\ written' = Append(written, text)
  /\ stream' = stream \o SetData(text)
  /\ UNCHANGED <<own, reading, length, results>>

\* Another program writes what it likes; written stands for its characters.
WriteForeign(char) ==
  /\ ~own
  /\ Len(written) < MaxForeign
  /\ written' = Append(written, <<char>>)
  /\ stream' = Append(stream, char)
  /\ UNCHANGED <<own, reading, length, results>>

-----------------------------------------------------------------------------
(* The reader.                                                             *)

\* Faulty variant: the number is compared before it is made unsigned.
DecodeSigned(header) ==
  LET n == Atoi(CString(header))
  IN  [ok |-> n <= MAX_BODY_SIZE, length |-> IF n <= MAX_BODY_SIZE THEN n % Wrap ELSE 0]

DecodeHeader(header) ==
  LET n == Atoi(CString(header)) % Wrap
  IN  [ok |-> n <= MAX_BODY_SIZE, length |-> IF n <= MAX_BODY_SIZE THEN n ELSE 0]

ReadMessageHeader ==
  /\ reading = "header" /\ Len(stream) >= HEADER_SIZE
  /\ LET header == DecodeHeader(SubSeq(stream, 1, HEADER_SIZE))
     IN  /\ length' = header.length
         /\ reading' = IF header.ok THEN "body" ELSE "nothing"
  /\ stream' = From(stream, HEADER_SIZE)
  /\ UNCHANGED <<own, written, results>>

\* The outcomes of strncmp: what follows a short body in the buffer, nobody
\* wrote.
IsHeartbeat(body) ==
  IF IsPrefix(PING, body) THEN {TRUE}
  ELSE IF IsPrefix(body, PING) THEN BOOLEAN ELSE {FALSE}

ReadMessageBody ==
  /\ reading = "body" /\ Len(stream) >= length
  /\ LET body == SubSeq(stream, 1, length)
     IN  \E heartbeat \in IsHeartbeat(body) :
           results' = Append(results, [body |-> body, heartbeat |-> heartbeat])
  /\ reading' = "header"
  /\ stream' = From(stream, length)
  /\ UNCHANGED <<own, written, length>>

-----------------------------------------------------------------------------
FramingNext ==
  \/ \E text \in Texts : Write(text)
  \/ \E char \in Chars : WriteForeign(char)
  \/ ReadMessageHeader \/ ReadMessageBody

FramingSpec == FramingInit /\ [][FramingNext]_framingVars

-----------------------------------------------------------------------------
(* Properties.                                                             *)

\* Whatever a header says, the body that is read for it fits into data_
\* behind the header: a negative number is no way around the limit.
BodyFits == length \in 0..MAX_BODY_SIZE

\* Between two ends that use Transport::Message no header is refused, however
\* long the text, and the reader never loses its place: the n-th message it
\* reads has the length of the n-th text and its characters up to the first
\* Nul, whether the text looks like a header or holds a Nul itself.  When all
\* is read, nothing is left over.
InStep ==
  own =>
    /\ reading # "nothing"
    /\ \A n \in 1..Len(results) :
         LET text == written[n]
             body == results[n].body
         IN  /\ Len(body) = Len(text)
             /\ \A i \in 1..Len(text) :
                  (\A j \in 1..i : text[j] # Nul) => body[i] = text[i]
    /\ stream = <<>> /\ reading = "header" => Len(results) = Len(written)

\* The heartbeat itself is always recognised, and a text that is neither a
\* beginning of it nor begins with it never is.
HeartbeatsTold ==
  own =>
    \A n \in 1..Len(results) :
      LET text == written[n]
      IN  /\ text = PING => results[n].heartbeat
          /\ results[n].heartbeat => IsPrefix(PING, text) \/ IsPrefix(text, PING)

\* The texts one end writes are what the other end reads.
TextsArrive == InStep /\ HeartbeatsTold

\* To two such ends the stream is one direction of a Channel, for texts as
\* strncpy leaves them: each arrives once, in the order of the calls.
StringsSent     == IF own THEN [n \in 1..Len(written) |-> Strncpy(written[n])] ELSE <<>>
StringsRead     == IF own THEN [n \in 1..Len(results) |-> results[n].body] ELSE <<>>
Strings == INSTANCE Channel WITH
  Messages <- Seq(Chars), written <- StringsSent, received <- StringsRead
StringsArrive == Strings!Spec

=============================================================================
