------------------------------- MODULE LogLine -------------------------------
(***************************************************************************)
(* The text of one log message: MessageProcessor::formatMessage and what a *)
(* frame of the pipe leaves of it.  A line is a sequence of characters, of *)
(* which a placeholder is one.                                             *)
(***************************************************************************)
EXTENDS Integers, SequencesExt

CONSTANTS
  BUFFER_SIZE,  \* of a frame
  Characters    \* what a line consists of

ASSUME LogLineAssumption ==
  /\ BUFFER_SIZE \in Nat \ {0}
  /\ {"%Severity%", "%Time%", "%ProcessId%", "%ThreadId%", "%Text%"} \subseteq Characters
  /\ {"ERROR", "now", "pid", "tid", "\n"} \subseteq Characters

\* The Message of an error with this text.
Fields(text) == [
  p \in {"%Severity%", "%Time%", "%ProcessId%", "%ThreadId%", "%Text%"} |->
    CASE p = "%Severity%" -> <<"ERROR">> [] p = "%Time%" -> <<"now">>
      [] p = "%ProcessId%" -> <<"pid">> [] p = "%ThreadId%" -> <<"tid">>
      [] p = "%Text%" -> text]

\* Faulty variant: the text is put in first.
TextFirst == <<"%Text%", "%Severity%", "%Time%", "%ProcessId%", "%ThreadId%">>

\* In the order in which they are replaced.
Placeholders == <<"%Severity%", "%Time%", "%ProcessId%", "%ThreadId%", "%Text%">>

\* replace() throws if find() has not found the placeholder.
FormatThrows(format) == \E p \in Range(Placeholders) : ~Contains(format, p)

Replace(line, p, value) ==
  LET at == SelectInSeq(line, LAMBDA char : char = p)
  IN  SubSeq(line, 1, at - 1) \o value \o SubSeq(line, at + 1, Len(line))

\* The format with the first occurrence of each placeholder replaced, one
\* placeholder after the other; fields has a sequence of characters for each.
FormatMessage(format, fields) ==
  LET put(line, k) == Replace(line, Placeholders[k], fields[Placeholders[k]])
  IN  put(put(put(put(put(format, 1), 2), 3), 4), 5) \o <<"\n">>

\* Pipe::write, whose buffer ends with at least one NUL, and Pipe::read, whose
\* string ends with the first.
ThroughPipe(line) ==
  LET size == CHOOSE n \in 0..Len(line) :
        /\ n < BUFFER_SIZE /\ "NUL" \notin {line[i] : i \in 1..n}
        /\ n + 1 \in 1..Len(line) => n + 1 = BUFFER_SIZE \/ line[n + 1] = "NUL"
  IN  SubSeq(line, 1, size)
=============================================================================
