--------------------------- MODULE MCLogProcessor ---------------------------
(* LogProcessor with two threads and small bounds.                         *)
EXTENDS LogProcessor, TLC
CONSTANTS l1, l2
TwoLoggers == {l1, l2}
Log == <<-3>>
\* The copy an editor left of a file; the file of a log named my_log; a file
\* that only begins like one of the log.
MCDirectories == {{},
  {<<-3, Underscore, 2, Extension, -4>>, <<-3, Underscore, -4>>},
  {<<-4, Underscore, -3, Underscore, 0, Extension>>}}
MCCharacters ==
  {"%Severity%", "%Time%", "%ProcessId%", "%ThreadId%", "%Text%",
   "ERROR", "now", "pid", "tid", "\n", "NUL", "a"}
\* In the last one the time is missing.
MCFormats == {
  <<"%Text%", "%Time%", "%Severity%", "%ProcessId%", "%ThreadId%">>,
  <<"%Severity%", "%Severity%", "%Time%", "%ProcessId%", "%ThreadId%", "%Text%">>,
  <<"%Severity%", "%ProcessId%", "%ThreadId%", "%Text%">>}
\* Like a placeholder; as long as fits at most; too long; ends in the middle.
MCTexts ==
  (l1 :> << <<"%Time%">>, <<"a", "a">> >>) @@ (l2 :> << <<"a", "a", "a">>, <<"NUL", "a">> >>)
=============================================================================
