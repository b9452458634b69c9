------------------------------- MODULE Config -------------------------------
(***************************************************************************)
(* Daemon::loadAndVlidateConfigFile: the fields of the configuration are   *)
(* read and tested one after another, up to the first that is refused.     *)
(*                                                                         *)
(* A value is "none" when the file leaves it out or empty, for             *)
(* rotation_size also when it is 0 or no number; of the others only a      *)
(* leading slash is looked at.                                             *)
(***************************************************************************)
EXTENDS Naturals, Sequences

Fields == {"name", "pidFileName", "directoryName", "fileName", "level",
           "format", "rotationSize"}
Values == {"none", "relative", "absolute"}

VARIABLES
  file,    \* the file that config-file names
  fields,  \* the members of Daemon that are read from it
  next,    \* the position in Tests
  outcome  \* what the call has returned, if anything

vars == <<file, fields, next, outcome>>

\* A file is also refused for its own name, or makes read_xml throw.
Init ==
  /\ file \in [exists : BOOLEAN, absolute : BOOLEAN, isXml : BOOLEAN,
               values : [Fields -> Values]]
  /\ fields = [f \in Fields |-> "none"]
  /\ next = 0 /\ outcome = "running"

\* A step reads one field and then tests whether one is empty.
Specified(f) == [reads |-> f, tests |-> f, allows |-> {"relative", "absolute"}]
Path(f)      == [reads |-> f, tests |-> f, allows |-> {"absolute"}]

\* The step of log.format looks at level_ once more.
Tests ==
  << Specified("name"), Path("pidFileName"), Path("directoryName"),
     Specified("fileName"), Specified("level"),
     [Specified("format") EXCEPT !.tests = "level"],
     Specified("rotationSize") >>

Returns(result) == outcome' = result

OpenFile ==
  /\ outcome = "running" /\ next = 0
  /\ next' = 1
  /\ Returns(IF ~file.exists \/ ~file.absolute THEN "refused"
             ELSE IF ~file.isXml THEN "thrown" ELSE "running")
  /\ UNCHANGED <<file, fields>>

ReadField ==
  /\ outcome = "running" /\ next \in 1..Len(Tests)
  /\ LET t == Tests[next]
     IN  /\ fields' = [fields EXCEPT ![t.reads] = file.values[t.reads]]
         /\ Returns(IF fields'[t.tests] \notin t.allows THEN "refused"
                    ELSE IF next = Len(Tests) THEN "accepted" ELSE "running")
  /\ next' = next + 1
  /\ UNCHANGED file

Next == OpenFile \/ ReadField

Spec == Init /\ [][Next]_vars

-----------------------------------------------------------------------------
(* What the messages of the function say of a configuration.               *)

\* "Please specify ..." (src/Daemon/Daemon.cpp:193, 199, 210, 221, 227, 233 and
\* 239): a configuration that is accepted specifies every field.
AcceptedIsComplete ==
  outcome = "accepted" => \A f \in Fields : fields[f] # "none"

=============================================================================
