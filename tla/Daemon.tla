------------------------------- MODULE Daemon -------------------------------
(***************************************************************************)
(* The life of the daemon: the processes that run Daemon::main with start, *)
(* stop or restart, the daemons they fork, and the pid file, which is all  *)
(* they share.                                                             *)
(*                                                                         *)
(* A process is named by its pid.  A pid whose process has ended may be    *)
(* given to any other process, of this program or not.  The two forks of   *)
(* daemonize are one step, as nobody can see the process between them; so  *)
(* are fs::exists and the fopen or the fs::remove that follows it, as they *)
(* give up where the file has gone meanwhile, just as fs::exists does.     *)
(***************************************************************************)
EXTENDS Naturals, FiniteSets

CONSTANTS
  Pids,        \* the pids of the system
  KillTries,   \* how often stop tries to send the signal
  Concurrent,  \* commands may be given while another command is at work
  Failures,    \* fork, the opening of the pid file and the signal may fail
  Others,      \* other programs use the pids, too
  MaxCommands, \* bound: commands given
  MaxCrashes   \* bound: daemons that crash or are killed from outside

ASSUME DaemonAssumption ==
  /\ {"absent", "empty"} \cap Pids = {}
  /\ KillTries \in Nat \ {0}
  /\ Concurrent \in BOOLEAN /\ Failures \in BOOLEAN /\ Others \in BOOLEAN
  /\ MaxCommands \in Nat /\ MaxCrashes \in Nat

VARIABLES
  pc,       \* what the process with a given pid is doing
  after,    \* what it does when stop() returns: restart goes on to start()
  target,   \* the pid stop() has read; "empty" is read as 0
  tries,    \* the calls of kill() that have failed
  pidFile,  \* "absent", "empty", or the pid in it
  handles,  \* the daemons that have the present file open for writing
  trouble,  \* what has happened so far that a careful operator avoids
  commands, \* commands given so far
  crashes   \* crashes so far

vars == <<pc, after, target, tries, pidFile, handles, trouble, commands, crashes>>

Commands   == {"start", "fork", "refused", "stop", "kill", "remove"}
Daemons    == {"init", "opened", "running", "ending"}
Activities == Commands \cup Daemons \cup {"free", "other", "dying"}

Init ==
  /\ pc = [p \in Pids |-> "free"]
  /\ after = [p \in Pids |-> "free"]
  /\ target = [p \in Pids |-> "empty"]
  /\ tries = [p \in Pids |-> 0]
  /\ pidFile = "absent" /\ handles = {} /\ trouble = {}
  /\ commands = 0 /\ crashes = 0

\* The daemons alive, from the fork to the end of the process.
Live == {p \in Pids : pc[p] \in Daemons}

\* No command is at work and no daemon is still to write its pid file.
Settled == \A p \in Pids : pc[p] \notin Commands \cup {"init", "opened"}

Goes(p, activity) == pc' = [pc EXCEPT ![p] = activity]

Happens(what) == trouble' = trouble \cup {what}

RemovePidFile == pidFile' = "absent" /\ handles' = {}

-----------------------------------------------------------------------------
(* Daemon::main, start and daemonize.                                      *)

\* A process is started with one of the three options.
Invoke(p) ==
  /\ pc[p] = "free" /\ commands < MaxCommands
  /\ Settled \/ Concurrent
  /\ \E option \in {"start", "stop", "restart"} :
       /\ Goes(p, IF option = "start" THEN "start" ELSE "stop")
       /\ after' = [after EXCEPT ![p] = IF option = "restart" THEN "start" ELSE "free"]
  /\ commands' = commands + 1
  /\ IF Settled THEN UNCHANGED trouble ELSE Happens("overlap")
  /\ UNCHANGED <<target, tries, pidFile, handles, crashes>>

\* Faulty variant: the check is dropped.
NoCheck == FALSE

\* start() looks for the pid file, and only that.
AlreadyRuns == pidFile # "absent"

Check(p) ==
  /\ pc[p] = "start"
  /\ Goes(p, IF AlreadyRuns THEN "refused" ELSE "fork")
  /\ UNCHANGED <<after, target, tries, pidFile, handles, trouble, commands, crashes>>

Exit(p) ==
  /\ pc[p] = "refused"
  /\ Goes(p, "free")
  /\ UNCHANGED <<after, target, tries, pidFile, handles, trouble, commands, crashes>>

\* The daemon has a pid of its own; the process that forked it ends.  What
\* can fail between here and the pid file leaves no daemon either.
Fork(p) ==
  /\ pc[p] = "fork"
  /\ \/ /\ \E d \in Pids :
             /\ pc[d] = "free"
             /\ pc' = [pc EXCEPT ![p] = "free", ![d] = "init"]
        /\ UNCHANGED trouble
     \/ Failures /\ Goes(p, "free") /\ Happens("failure")
  /\ UNCHANGED <<after, target, tries, pidFile, handles, commands, crashes>>

\* fopen(..., "w") leaves an empty file.  If it fails the daemon runs without.
OpenPidFile(d) ==
  /\ pc[d] = "init"
  /\ \/ /\ Goes(d, "opened")
        /\ pidFile' = "empty"
        /\ handles' = handles \cup {d}
        /\ UNCHANGED trouble
     \/ /\ Failures /\ Goes(d, "running") /\ Happens("failure")
        /\ UNCHANGED <<pidFile, handles>>
  /\ UNCHANGED <<after, target, tries, commands, crashes>>

\* Faulty variant: without the fclose the pid stays in the buffer.
LeavesBuffered(d) ==
  /\ pc[d] = "opened"
  /\ Goes(d, "running")
  /\ UNCHANGED <<after, target, tries, pidFile, handles, trouble, commands, crashes>>

\* fclose writes the pid, into the file that was opened even if it is gone.
WritePidFile(d) ==
  /\ pc[d] = "opened"
  /\ Goes(d, "running")
  /\ pidFile' = IF d \in handles THEN d ELSE pidFile
  /\ handles' = handles \ {d}
  /\ UNCHANGED <<after, target, tries, trouble, commands, crashes>>

-----------------------------------------------------------------------------
(* Daemon::run.                                                            *)

\* service_->run() returns.
RunReturns(d) ==
  /\ pc[d] = "running"
  /\ Goes(d, "ending")
  /\ UNCHANGED <<after, target, tries, pidFile, handles, trouble, commands, crashes>>

\* Faulty variant: the daemon ends and leaves its pid file.
KeepPidFile == UNCHANGED <<pidFile, handles>>
Cleanup     == RemovePidFile

End(d) ==
  /\ pc[d] = "ending"
  /\ Goes(d, "free")
  /\ Cleanup
  /\ UNCHANGED <<after, target, tries, trouble, commands, crashes>>

-----------------------------------------------------------------------------
(* Daemon::stop, and what comes after it.                                  *)

ReadPidFile(p) ==
  /\ pc[p] = "stop"
  /\ \/ /\ pidFile = "absent"
        /\ Goes(p, after[p])
        /\ UNCHANGED <<target, tries, trouble>>
     \/ /\ pidFile # "absent"
        /\ Goes(p, "kill")
        /\ target' = [target EXCEPT ![p] = pidFile]
        /\ tries' = [tries EXCEPT ![p] = 0]
        /\ UNCHANGED trouble
     \/ /\ Failures /\ pidFile # "absent"
        /\ Goes(p, after[p]) /\ Happens("failure")
        /\ UNCHANGED <<target, tries>>
  /\ UNCHANGED <<after, pidFile, handles, commands, crashes>>

\* kill(0, ...) reaches the whole process group, the caller included.
Receiver(p) == IF target[p] = "empty" THEN p ELSE target[p]

\* Faulty variants, each of the definition that follows: the null signal,
\* which only asks whether the process exists; one more try than the loop
\* has; a stop that ends the process, with which restart forgets to start.
Probed(p)     == [pc EXCEPT ![p] = "remove"]
OneTooMany(p) == tries[p] < KillTries
GivesUp(p)    == "free"

Signalled(p) == [pc EXCEPT ![p] = "remove", ![Receiver(p)] = "dying"]
MoreTries(p) == tries[p] + 1 < KillTries
\* What follows the last failed kill, and the removal of the file.
Returns(p)   == after[p]

KillSucceeds(p) ==
  /\ pc[p] = "kill"
  /\ pc[Receiver(p)] # "free"
  /\ pc' = Signalled(p)
  /\ IF pc[Receiver(p)] \in Daemons \cup {"dying"}
     THEN UNCHANGED trouble
     ELSE Happens("misdirected")
  /\ UNCHANGED <<after, target, tries, pidFile, handles, commands, crashes>>

\* No process has the pid, or the one that has it is another user's: a program
\* of his, or a daemon if the commands are not always given by one user.
KillFails(p) ==
  /\ pc[p] = "kill"
  /\ \/ pc[Receiver(p)] \in {"free", "other"} /\ UNCHANGED trouble
     \/ /\ Failures /\ Receiver(p) # p /\ pc[Receiver(p)] \notin {"free", "other"}
        /\ Happens("denied")
  /\ tries' = [tries EXCEPT ![p] = @ + 1]
  /\ Goes(p, IF MoreTries(p) THEN "kill" ELSE Returns(p))
  /\ UNCHANGED <<after, target, pidFile, handles, commands, crashes>>

Remove(p) ==
  /\ pc[p] = "remove"
  /\ RemovePidFile
  /\ Goes(p, Returns(p))
  /\ UNCHANGED <<after, target, tries, trouble, commands, crashes>>

-----------------------------------------------------------------------------
(* The system.                                                             *)

\* A process that has been sent SIGTERM does no more, and goes.
Dies(p) ==
  /\ pc[p] = "dying"
  /\ Goes(p, "free")
  /\ UNCHANGED <<after, target, tries, pidFile, handles, trouble, commands, crashes>>

Crash(d) ==
  /\ pc[d] \in Daemons /\ crashes < MaxCrashes
  /\ Goes(d, "free")
  /\ crashes' = crashes + 1
  /\ Happens("crash")
  /\ UNCHANGED <<after, target, tries, pidFile, handles, commands>>

OtherStarts(p) ==
  /\ Others /\ pc[p] = "free"
  /\ Goes(p, "other")
  /\ UNCHANGED <<after, target, tries, pidFile, handles, trouble, commands, crashes>>

OtherEnds(p) ==
  /\ pc[p] = "other"
  /\ Goes(p, "free")
  /\ UNCHANGED <<after, target, tries, pidFile, handles, trouble, commands, crashes>>

-----------------------------------------------------------------------------
Program(p) ==
  \/ Check(p) \/ Exit(p) \/ Fork(p)
  \/ OpenPidFile(p) \/ WritePidFile(p) \/ End(p)
  \/ ReadPidFile(p) \/ KillSucceeds(p) \/ KillFails(p) \/ Remove(p)
  \/ Dies(p)

Next ==
  \E p \in Pids :
    \/ Program(p)
    \/ Invoke(p) \/ RunReturns(p) \/ Crash(p) \/ OtherStarts(p) \/ OtherEnds(p)

Spec == Init /\ [][Next]_vars

\* The system runs every process.  The service may run for ever, and nobody
\* has to give a command.
FairSpec == Spec /\ \A p \in Pids : WF_vars(Program(p))

-----------------------------------------------------------------------------
(* Properties.                                                             *)

\* The types of the state; stop never tries more than KillTries times.
TypeOK ==
  /\ pc \in [Pids -> Activities]
  /\ after \in [Pids -> {"free", "start"}]
  /\ target \in [Pids -> Pids \cup {"empty"}]
  /\ tries \in [Pids -> 0..KillTries]
  /\ pidFile \in Pids \cup {"absent", "empty"}
  /\ handles \subseteq Pids
  /\ trouble \subseteq {"overlap", "failure", "misdirected", "denied", "crash"}
  /\ commands \in 0..MaxCommands /\ crashes \in 0..MaxCrashes

\* What the comment in start() says of the pid file.
AtMostOneDaemon == Cardinality(Live) <= 1

\* It is so as long as one command at a time is given, each after the daemon
\* of the one before has written its pid, and that daemon could write it:
\* crashes, stale files and pids used again do not start a second daemon.
OneDaemon == trouble \cap {"overlap", "failure"} = {} => AtMostOneDaemon

\* Then the pid file also leads to the daemon for as long as it runs, so
\* that stop and restart find it.
FileLeadsToDaemon ==
  trouble \cap {"overlap", "failure"} = {} =>
    \A d \in Pids : pc[d] \in {"running", "ending"} => pidFile = d

\* start() refuses because of a daemon that is there.
Refusal(p) == pc[p] # "refused" /\ pc'[p] = "refused"
RefusalMeansRunning == [][\A p \in Pids : Refusal(p) => Live # {}]_vars

\* It does, unless a daemon has crashed, commands overlapped or a call failed;
\* an ordinary end of the daemon never leaves a file that blocks the next start,
\* and a restart that is denied the signal finds the daemon still there.
OrderlyRefusal ==
  [][\A p \in Pids :
       Refusal(p) /\ trouble \subseteq {"misdirected", "denied"} => Live # {}]_vars

\* When stop() returns in such a history no daemon is left, so that the start
\* of a restart finds the field clear; a daemon that ends by itself while
\* stop() looks for it is no exception.
StopReturns(p) ==
  /\ pc[p] \in {"stop", "kill", "remove"}
  /\ pc'[p] \in {"free", "start"}
StopLeavesNone ==
  [][\A p \in Pids : StopReturns(p) /\ trouble' \subseteq {"misdirected"} => Live' = {}]_vars

\* Without trouble, a restart comes to its end, and then a daemon runs: another
\* than the one that ran when it began, as no daemon is left when its stop()
\* returns.
RestartRuns ==
  trouble = {} /\ (\E p \in Pids : pc[p] = "stop" /\ after[p] = "start") ~>
    trouble # {} \/ (Settled /\ \E d \in Pids : pc[d] = "running")

=============================================================================
