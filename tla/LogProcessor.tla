---------------------------- MODULE LogProcessor ----------------------------
(***************************************************************************)
(* The log of one program over its runs: the threads that log, the pipe    *)
(* through which LogProcessor hands their messages to its reader thread,   *)
(* and the files, which are rotated and outlive the process.               *)
(*                                                                         *)
(* A message is one frame of the pipe: Pipe::write pads or cuts it to      *)
(* BUFFER_SIZE, which is small enough for the kernel to write it at once,  *)
(* so a frame is read whole.  The size of a file is counted in messages.   *)
(* The name of a file is a sequence of characters, of which FILE_EXTENSION *)
(* and a numeral, which is its value, are one each.                        *)
(***************************************************************************)
EXTENDS LogLine, FiniteSetsExt

CONSTANTS
  Loggers,       \* the threads that use LOG
  PipeFrames,    \* frames the pipe holds
  RotationSize,  \* rotationSize_
  LogName,       \* fileName_
  Directories,   \* the names of other files there may be in the directory
  Formats,       \* what format_ may be
  Texts,         \* the texts of each thread's messages, by their number
  MaxMessages,   \* bound: messages of a thread in one run
  MaxRuns        \* bound: runs of the program

Underscore == -1
Extension  == -2
FileName(i) == LogName \o <<Underscore, i, Extension>>

ASSUME LogAssumption ==
  \* A log whose name contains the extension takes the rest of its own files'
  \* names for an index, and init throws.
  /\ LogName \in Seq(Int \ (Nat \cup {Extension}))
  /\ \A names \in Directories : IsFiniteSet(names) /\ \A name \in names :
       name \in Seq(Int) /\ \A k \in DOMAIN name : name # FileName(name[k])
  /\ \A form \in Formats : form \in Seq(Characters)
  /\ \A l \in Loggers : \A n \in 1..MaxMessages : Texts[l][n] \in Seq(Characters)
  /\ PipeFrames \in Nat \ {0} /\ RotationSize \in Nat
  /\ MaxMessages \in Nat /\ MaxRuns \in Nat

VARIABLES
  format,  \* format_
  stage,   \* how far the run is: "down", "begun", "reading", or "up" with file_ set
  run,     \* the number of the run
  logged,  \* the messages each thread has made in this run
  blocked, \* the threads that are in Pipe::write
  pipe,    \* the frames in the pipe
  hand,    \* the message the reader has read and not yet written, if any
  files,   \* the log's files, by index
  others,  \* the names of the other files
  index,   \* currentFileIndex_
  open,    \* currentFile_ is set
  written  \* File::write has written its message and not yet looked at the size

vars ==
  <<format, stage, run, logged, blocked, pipe, hand, files, others, index, open, written>>

Messages == [by : Loggers, n : 1..MaxMessages, run : 1..MaxRuns]

\* The characters of a message that the reader gets and writes to the file.
Frame(m) == ThroughPipe(FormatMessage(format, Fields(Texts[m.by][m.n])))

Init ==
  /\ format \in Formats
  /\ stage = "down" /\ run = 0
  /\ logged = [l \in Loggers |-> 0] /\ blocked = {}
  /\ pipe = <<>> /\ hand = <<>>
  /\ files = <<>> /\ others \in Directories /\ index = 0
  /\ open = FALSE /\ written = FALSE

-----------------------------------------------------------------------------
(* The end of a run: main returns, the program crashes, or an exception    *)
(* leaves a thread, for which the files give occasion, too: what fails in  *)
(* getFile, write or rotate throws.  What is in the pipe is lost.          *)

End ==
  /\ stage # "down"
  /\ stage' = "down"
  /\ blocked' = {} /\ pipe' = <<>> /\ hand' = <<>>
  /\ open' = FALSE /\ written' = FALSE
  /\ UNCHANGED <<run, logged, files, others, index, format>>

-----------------------------------------------------------------------------
(* LogProcessor::init, which starts the reader and then makes file_.       *)

Launch ==
  /\ stage = "down" /\ run < MaxRuns
  /\ stage' = "begun"
  /\ run' = run + 1
  /\ logged' = [l \in Loggers |-> 0]
  /\ UNCHANGED <<blocked, pipe, hand, files, others, index, open, written, format>>

StartReader ==
  /\ stage = "begun"
  /\ stage' = "reading"
  /\ UNCHANGED <<run, logged, blocked, pipe, hand, files, others, index, open, written, format>>

\* Where text begins in name, or -1.
Find(name, text) ==
  LET at == {k \in 0..Len(name) - Len(text) : SubSeq(name, k + 1, k + Len(text)) = text}
  IN  IF at = {} THEN -1 ELSE Min(at)

PassedOver(name) ==
  Find(name, LogName \o <<Underscore>>) = -1 \/ Find(name, <<Extension>>) = -1

\* The characters of a name that are taken for its index.  Their number is
\* right if the log's name comes first; a negative one means all the rest.
IndexText(name) ==
  LET skip  == Len(LogName) + 1
      first == Find(name, LogName \o <<Underscore>>) + skip
      count == Find(name, <<Extension>>) - skip
  IN  SubSeq(name, first + 1, IF count < 0 THEN Len(name) ELSE Min({first + count, Len(name)}))

\* lexical_cast takes a numeral and nothing else.
Throws(name) == Len(IndexText(name)) # 1 \/ Head(IndexText(name)) \notin Nat

Names   == {FileName(i) : i \in DOMAIN files} \cup others
Matches == {name \in Names : ~PassedOver(name)}

\* Faulty variant: every run begins a file of its own.
NextFileIndex == Max({Head(IndexText(name)) : name \in Matches} \cup {-1}) + 1

\* The highest index in the directory, or 0.
LastFileIndex == Max({Head(IndexText(name)) : name \in Matches} \cup {0})

\* If the search throws, so does init, and the program ends.
MakeFile ==
  /\ stage = "reading"
  /\ \/ (\E name \in Matches : Throws(name)) /\ End
     \/ /\ ~\E name \in Matches : Throws(name)
        /\ stage' = "up"
        /\ index' = LastFileIndex /\ open' = FALSE
        /\ UNCHANGED <<run, logged, blocked, pipe, hand, files, others, written, format>>

-----------------------------------------------------------------------------
(* LogProcessor::operator+= and Pipe::write.                               *)

\* file_ is set.  What is logged before is ignored.
Accepts == stage = "up"

\* If the message cannot be formatted, the exception leaves the thread.
LogMessage(l) ==
  /\ Accepts
  /\ l \notin blocked /\ logged[l] < MaxMessages
  /\ \/ FormatThrows(format) /\ End
     \/ /\ ~FormatThrows(format)
        /\ logged' = [logged EXCEPT ![l] = @ + 1]
        /\ blocked' = blocked \cup {l}
        /\ UNCHANGED <<stage, run, pipe, hand, files, others, index, open, written, format>>

Message(l) == [by |-> l, n |-> logged[l], run |-> run]

\* Faulty variant: a pipe that does not block, and nobody looks at the result.
WriteOrLose(l) ==
  /\ l \in blocked
  /\ pipe' = IF Len(pipe) < PipeFrames THEN Append(pipe, Message(l)) ELSE pipe
  /\ blocked' = blocked \ {l}
  /\ UNCHANGED <<stage, run, logged, hand, files, others, index, open, written, format>>

WriteToPipe(l) ==
  /\ l \in blocked /\ Len(pipe) < PipeFrames
  /\ pipe' = Append(pipe, Message(l))
  /\ blocked' = blocked \ {l}
  /\ UNCHANGED <<stage, run, logged, hand, files, others, index, open, written, format>>

-----------------------------------------------------------------------------
(* LogProcessor::readFromPipe and File::write.  The end of the run may     *)
(* come between the steps of a write; what fwrite has put into the buffer  *)
(* is lost or written then, as if the end had come before or after both.   *)

\* Faulty variant: the loop is missing.
ReadOnce ==
  /\ stage \in {"reading", "up"} /\ hand = <<>> /\ ~written /\ pipe # <<>>
  /\ files = <<>>
  /\ hand' = <<Head(pipe)>>
  /\ pipe' = Tail(pipe)
  /\ UNCHANGED <<stage, run, logged, blocked, files, others, index, open, written, format>>

ReadFromPipe ==
  /\ stage \in {"reading", "up"} /\ hand = <<>> /\ ~written /\ pipe # <<>>
  /\ hand' = <<Head(pipe)>>
  /\ pipe' = Tail(pipe)
  /\ UNCHANGED <<stage, run, logged, blocked, files, others, index, open, written, format>>

\* Faulty variant: a file that is there is opened to be written anew.
Truncated == <<>>

\* What the file holds that getFile opens: a new one is empty.
Opened == IF index \in DOMAIN files THEN files[index] ELSE <<>>

GetFile ==
  /\ stage = "up" /\ hand # <<>> /\ ~open
  /\ open' = TRUE
  /\ files' = [i \in DOMAIN files \cup {index} |-> IF i = index THEN Opened ELSE files[i]]
  /\ UNCHANGED <<stage, run, logged, blocked, pipe, hand, others, index, written, format>>

\* fwrite and fflush.  Without file_ the message is dropped.
WriteToFile ==
  /\ hand # <<>> /\ (stage = "up" => open)
  /\ hand' = <<>>
  /\ IF stage = "up"
     THEN files' = [files EXCEPT ![index] = @ \o hand] /\ written' = TRUE
     ELSE UNCHANGED <<files, written>>
  /\ UNCHANGED <<stage, run, logged, blocked, pipe, others, index, open, format>>

MustRotate(size) == size > RotationSize

\* Faulty variant: the full file is not closed.
RotateOpen ==
  /\ written /\ written' = FALSE
  /\ index' = IF MustRotate(Len(files[index])) THEN index + 1 ELSE index
  /\ UNCHANGED <<stage, run, logged, blocked, pipe, hand, files, others, open, format>>

Rotate ==
  /\ written /\ written' = FALSE
  /\ IF MustRotate(Len(files[index]))
     THEN open' = FALSE /\ index' = index + 1
     ELSE UNCHANGED <<open, index>>
  /\ UNCHANGED <<stage, run, logged, blocked, pipe, hand, files, others, format>>

-----------------------------------------------------------------------------
Next ==
  \/ Launch \/ StartReader \/ MakeFile
  \/ \E l \in Loggers : LogMessage(l) \/ WriteToPipe(l)
  \/ ReadFromPipe \/ GetFile \/ WriteToFile \/ Rotate
  \/ End

Spec == Init /\ [][Next]_vars

\* The threads run; the kernel wakes the writers of a full pipe in turn.
Fairness ==
  /\ WF_vars(StartReader) /\ WF_vars(MakeFile)
  /\ WF_vars(ReadFromPipe)
  /\ WF_vars(GetFile) /\ WF_vars(WriteToFile) /\ WF_vars(Rotate)
  /\ \A l \in Loggers : SF_vars(WriteToPipe(l))

FairSpec == Spec /\ Fairness

-----------------------------------------------------------------------------
(* Properties.                                                             *)

\* The types of the state.  The pipe holds no more than it can, and the file
\* that is open is there and has the current index.
TypeOK ==
  /\ format \in Formats
  /\ stage \in {"down", "begun", "reading", "up"} /\ run \in 0..MaxRuns
  /\ logged \in [Loggers -> 0..MaxMessages] /\ blocked \subseteq Loggers
  /\ pipe \in Seq(Messages) /\ Len(pipe) <= PipeFrames
  /\ hand \in Seq(Messages) /\ Len(hand) <= 1
  /\ DOMAIN files \subseteq Nat
  /\ \A i \in DOMAIN files : files[i] \in Seq(Messages)
  /\ others \in Directories /\ index \in Nat
  /\ open \in BOOLEAN /\ written \in BOOLEAN
  /\ open => index \in DOMAIN files
  /\ written => open /\ hand = <<>>

\* All that is in the files, in their order.
Lines == FlattenSeq([i \in 1..Max(DOMAIN files \cup {0}) + 1 |->
                       IF i - 1 \in DOMAIN files THEN files[i - 1] ELSE <<>>])

\* While the program runs, every message a thread has logged is in a file, in
\* the reader's hand, in the pipe or still being written, in that order, once;
\* and the reader has none before file_ is made, although its thread starts
\* first, so that it neither drops one nor looks at file_ while init sets it.
NothingLost ==
  /\ hand # <<>> => stage = "up"
  /\ stage # "down" =>
       \A l \in Loggers :
         LET chain == Lines \o hand \o pipe
             mine  == {i \in 1..Len(chain) : chain[i].by = l /\ chain[i].run = run}
         IN  /\ {chain[i].n : i \in mine} =
                  1..(IF l \in blocked THEN logged[l] - 1 ELSE logged[l])
             /\ \A i, j \in mine : i < j => chain[i].n < chain[j].n

\* Another program's file whose name reads as an index makes the log begin
\* there and does no more harm.
FirstIndex == Max({Head(IndexText(name)) : name \in Matches \cap others} \cup {0})

\* Only a file that is full is left for the next: the indexes have no gaps,
\* and a restart goes on in the last file.
Full(i) == i \in DOMAIN files /\ MustRotate(Len(files[i]))
OnlyLastHasRoom ==
  \A i \in DOMAIN files : i >= FirstIndex /\ \A j \in FirstIndex..i - 1 : Full(j)

\* Each run puts at most one message into a file that is full already.
OneOver ==
  \A i \in DOMAIN files :
    \A j, k \in RotationSize + 1..Len(files[i]) :
      files[i][j].run = files[i][k].run => j = k

\* Rotation and restarts together fill the files one after the other, and the
\* search of a restart reads off the log's own files what they are.
FilesInTurn ==
  /\ OnlyLastHasRoom /\ OneOver
  /\ \A i \in DOMAIN files : ~PassedOver(FileName(i)) /\ IndexText(FileName(i)) = <<i>>

\* What the format stands for with this text: the first of each placeholder
\* means its value, whatever the text says, and all other characters themselves.
Meant(text) ==
  FlattenSeq([i \in 1..Len(format) |->
    IF format[i] \in Range(Placeholders) /\ \A j \in 1..i - 1 : format[j] # format[i]
    THEN Fields(text)[format[i]] ELSE <<format[i]>>]) \o <<"\n">>

\* A message that fits into a frame stands in its file as a line of its own
\* that says what the format means, also if its text looks like a placeholder.
\* Of any other message the beginning is there, and the next message
\* continues its line, unless the format or the text breaks the line itself.
Told(text, frame) ==
  LET meant == Meant(text)
  IN  IF Len(meant) < BUFFER_SIZE /\ ~Contains(meant, "NUL")
      THEN frame = meant
      ELSE /\ IsStrictPrefix(frame, meant)
           /\ Contains(frame, "\n") => Contains(format, "\n") \/ Contains(text, "\n")

LinesTold ==
  \A i \in 1..Len(Lines) : Told(Texts[Lines[i].by][Lines[i].n], Frame(Lines[i]))

\* The files are a journal: they only grow, in the order of each thread.
Journal == INSTANCE Journal WITH
  Sources <- Loggers, Messages <- Messages, journal <- Lines
JournalSpec == Journal!Spec

\* Every message that is logged reaches a file, unless the run ends before.
MessagesReachFile ==
  \A l \in Loggers, n \in 1..MaxMessages, r \in 1..MaxRuns :
    stage = "up" /\ run = r /\ logged[l] >= n ~>
      stage = "down" \/ \E i \in 1..Len(Lines) :
        Lines[i] = [by |-> l, n |-> n, run |-> r]

=============================================================================
