---------------------------- MODULE DaemonProofs ----------------------------
(***************************************************************************)
(* What the pid file is good for, for any number of processes, commands,   *)
(* crashes and tries.                                                      *)
(***************************************************************************)
EXTENDS Daemon, FiniteSetTheorems, TLAPS

Types ==
  /\ pc \in [Pids -> Activities]
  /\ after \in [Pids -> {"free", "start"}]
  /\ target \in [Pids -> Pids \cup {"empty"}]
  /\ tries \in [Pids -> 0..KillTries]
  /\ \A p \in Pids : pc[p] = "kill" => tries[p] < KillTries
  /\ pidFile \in Pids \cup {"absent", "empty"}
  /\ handles \subseteq Pids
  /\ trouble \subseteq {"overlap", "failure", "misdirected", "denied", "crash"}
  /\ commands \in 0..MaxCommands /\ crashes \in 0..MaxCrashes

\* The histories of OneDaemon, and those of OrderlyRefusal.
Calm == "overlap" \notin trouble /\ "failure" \notin trouble
Tame == Calm /\ "crash" \notin trouble

Busy(p) == pc[p] \in {"start", "fork", "refused", "stop", "kill", "remove", "init", "opened"}
Works(d) == pc[d] \in {"running", "ending"}

\* Only one process at a time can be about to use the pid file, and the file
\* says how far it is; the file names the daemon that works.
Orderly ==
  /\ \A p, q \in Pids : Busy(p) /\ Busy(q) => p = q
  /\ \A d \in Pids :
       /\ Works(d) => pidFile = d
       /\ pc[d] \in {"fork", "init"} => pidFile = "absent"
       /\ pc[d] = "opened" => pidFile = "empty" /\ d \in handles
  /\ \A p, d \in Pids : Works(d) =>
       (pc[p] = "kill" => target[p] = d) /\ pc[p] # "remove"

\* Without crashes there is no file but that of a daemon, unless stop() is
\* about to remove it; and stop() has read the pid of another process.
Tidy ==
  /\ pidFile # "absent" =>
       \E p \in Pids : pc[p] \in {"init", "opened", "running", "ending", "remove"}
  /\ \A p \in Pids : pc[p] = "kill" => target[p] \in Pids \ {p}

IInv == Types /\ (Calm => Orderly) /\ (Tame => Tidy)

-----------------------------------------------------------------------------
(* Types.                                                                  *)

LEMMA InitIInv == Init => IInv
<1> SUFFICES ASSUME Init PROVE IInv
  OBVIOUS
<1>1. Types
  BY DaemonAssumption DEF Init, Types, Activities
<1>2. Orderly /\ Tidy
  BY DEF Init, Orderly, Tidy, Busy, Works
<1> QED BY <1>1, <1>2 DEF IInv

\* What every action leaves to be said of the types.
LEMMA StepTypes ==
  ASSUME Types, Next
  PROVE  Types'
<1>1. PICK p \in Pids : \/ Program(p) \/ Invoke(p) \/ RunReturns(p)
                        \/ Crash(p) \/ OtherStarts(p) \/ OtherEnds(p)
  BY DEF Next
<1> USE DEF Types, Goes, Happens, RemovePidFile
<1>2. CASE Invoke(p)
  <2>1. commands' \in 0..MaxCommands
    <3>1. commands < MaxCommands /\ commands' = commands + 1
      BY <1>2 DEF Invoke
    <3> QED BY <3>1, DaemonAssumption
  <2> QED BY <1>2, <2>1 DEF Invoke, Activities, Commands
<1>3. CASE Check(p)
  BY <1>3 DEF Check, Activities, Commands
<1>4. CASE Exit(p)
  BY <1>4 DEF Exit, Activities
<1>5. CASE Fork(p)
  BY <1>5 DEF Fork, Activities, Daemons
<1>6. CASE OpenPidFile(p)
  BY <1>6 DEF OpenPidFile, Activities, Daemons
<1>7. CASE WritePidFile(p)
  BY <1>7 DEF WritePidFile, Activities, Daemons
<1>8. CASE End(p)
  BY <1>8 DEF End, Cleanup, Activities
<1>9. CASE ReadPidFile(p)
  <2>1. 0 \in 0..KillTries /\ 0 < KillTries
    BY DaemonAssumption
  <2>2. CASE pc' = [pc EXCEPT ![p] = after[p]] /\ UNCHANGED <<target, tries>>
    <3>1. pc' \in [Pids -> Activities] /\ pc'[p] # "kill"
      BY <2>2 DEF Activities, Commands
    <3> QED BY <1>9, <2>2, <3>1 DEF ReadPidFile
  <2>3. CASE /\ pidFile # "absent" /\ pc' = [pc EXCEPT ![p] = "kill"]
             /\ target' = [target EXCEPT ![p] = pidFile]
             /\ tries' = [tries EXCEPT ![p] = 0] /\ UNCHANGED trouble
    <3>1. /\ pc' \in [Pids -> Activities] /\ target' \in [Pids -> Pids \cup {"empty"}]
          /\ tries' \in [Pids -> 0..KillTries] /\ tries'[p] = 0
          /\ \A q \in Pids \ {p} : pc'[q] = pc[q] /\ tries'[q] = tries[q]
      BY <2>1, <2>3 DEF Activities, Commands
    <3>2. \A q \in Pids : pc'[q] = "kill" => tries'[q] < KillTries
      BY <2>1, <3>1
    <3> QED BY <1>9, <2>3, <3>1, <3>2 DEF ReadPidFile
  <2> QED BY <1>9, <2>2, <2>3 DEF ReadPidFile
<1>10. CASE KillSucceeds(p)
  BY <1>10 DEF KillSucceeds, Signalled, Receiver, Activities, Commands
<1>11. CASE KillFails(p)
  <2>1. tries[p] \in 0..KillTries /\ tries[p] < KillTries
    BY <1>11 DEF KillFails
  <2>2. tries[p] + 1 \in 0..KillTries
    BY <2>1, DaemonAssumption
  <2>3. /\ tries' = [tries EXCEPT ![p] = @ + 1]
        /\ pc' = [pc EXCEPT ![p] = IF tries[p] + 1 < KillTries THEN "kill" ELSE after[p]]
        /\ UNCHANGED <<after, target, pidFile, handles, commands, crashes>>
        /\ trouble' = trouble \/ trouble' = trouble \cup {"denied"}
    BY <1>11 DEF KillFails, MoreTries, Returns, Happens
  <2>4. tries' \in [Pids -> 0..KillTries] /\ tries'[p] = tries[p] + 1
    BY <2>2, <2>3
  <2>5. pc' \in [Pids -> Activities]
    BY <2>3 DEF Activities, Commands
  <2>6. \A q \in Pids \ {p} : pc'[q] = pc[q] /\ tries'[q] = tries[q]
    BY <2>3
  <2>7. pc'[p] = "kill" => tries'[p] < KillTries
    BY <2>3, <2>4
  <2>8. trouble' \subseteq {"overlap", "failure", "misdirected", "denied", "crash"}
    BY <2>3
  <2> QED BY <2>3, <2>4, <2>5, <2>6, <2>7, <2>8
<1>12. CASE Remove(p)
  BY <1>12 DEF Remove, Returns, Activities, Commands
<1>13. CASE Dies(p)
  BY <1>13 DEF Dies, Activities
<1>14. CASE RunReturns(p)
  BY <1>14 DEF RunReturns, Activities, Daemons
<1>15. CASE Crash(p)
  <2>1. crashes' \in 0..MaxCrashes
    <3>1. crashes < MaxCrashes /\ crashes' = crashes + 1
      BY <1>15 DEF Crash
    <3> QED BY <3>1, DaemonAssumption
  <2> QED BY <1>15, <2>1 DEF Crash, Activities
<1>16. CASE OtherStarts(p) \/ OtherEnds(p)
  BY <1>16 DEF OtherStarts, OtherEnds, Activities
<1> QED BY <1>1, <1>2, <1>3, <1>4, <1>5, <1>6, <1>7, <1>8, <1>9, <1>10, <1>11,
           <1>12, <1>13, <1>14, <1>15, <1>16 DEF Program

-----------------------------------------------------------------------------
(* The pid file.                                                           *)

\* Trouble is not forgotten.
LEMMA TroubleStays ==
  ASSUME Next
  PROVE  (Calm' => Calm) /\ (Tame' => Tame)
BY DEF Next, Program, Calm, Tame, Happens, Invoke, Check, Exit, Fork, OpenPidFile,
       WritePidFile, End, ReadPidFile, KillSucceeds, KillFails, Remove, Dies,
       RunReturns, Crash, OtherStarts, OtherEnds

\* While a daemon comes up no other works.
LEMMA ComingUp ==
  ASSUME Types, Orderly, NEW p \in Pids, pc[p] \in {"fork", "init", "opened"}
  PROVE  \A d \in Pids : ~Works(d)
BY DaemonAssumption DEF Orderly

LEMMA StepOrderly ==
  ASSUME IInv, Next, Calm'
  PROVE  Orderly'
<1>1. Types /\ Orderly
  BY TroubleStays DEF IInv
<1>2. PICK p \in Pids : \/ Program(p) \/ Invoke(p) \/ RunReturns(p)
                        \/ Crash(p) \/ OtherStarts(p) \/ OtherEnds(p)
  BY DEF Next
<1>3. /\ pc \in [Pids -> Activities] /\ after[p] \in {"free", "start"}
      /\ target \in [Pids -> Pids \cup {"empty"}]
      /\ "absent" \notin Pids /\ "empty" \notin Pids
  BY <1>1, DaemonAssumption DEF Types
<1> USE DEF Busy, Works, Goes
\* Somebody else is busy only if the command comes at the wrong time.
<1>4. CASE Invoke(p)
  <2>1. Settled
    BY <1>4 DEF Invoke, Happens, Calm
  <2> QED BY <1>1, <1>3, <1>4, <2>1 DEF Invoke, Orderly, Settled, Commands
<1>5. CASE Check(p)
  BY <1>1, <1>3, <1>5 DEF Check, AlreadyRuns, Orderly
<1>6. CASE Exit(p)
  BY <1>1, <1>3, <1>6 DEF Exit, Orderly
<1>7. CASE Fork(p)
  <2>1. PICK d \in Pids : pc[d] = "free" /\ pc' = [pc EXCEPT ![p] = "free", ![d] = "init"]
    BY <1>7 DEF Fork, Happens, Calm
  <2>2. pc[p] = "fork" /\ UNCHANGED <<target, pidFile, handles>>
    BY <1>7 DEF Fork
  <2>3. \A e \in Pids : ~Works(e)
    BY <1>1, <2>2, ComingUp
  <2> QED BY <1>1, <1>3, <2>1, <2>2, <2>3 DEF Orderly
<1>8. CASE OpenPidFile(p)
  <2>1. /\ pc[p] = "init" /\ pc' = [pc EXCEPT ![p] = "opened"]
        /\ pidFile' = "empty" /\ handles' = handles \cup {p} /\ UNCHANGED target
    BY <1>8 DEF OpenPidFile, Happens, Calm
  <2>2. \A e \in Pids : ~Works(e)
    BY <1>1, <2>1, ComingUp
  <2> QED BY <1>1, <1>3, <2>1, <2>2 DEF Orderly
<1>9. CASE WritePidFile(p)
  <2>1. \A e \in Pids : ~Works(e)
    BY <1>1, <1>9, ComingUp DEF WritePidFile
  <2> QED BY <1>1, <1>3, <1>9, <2>1 DEF WritePidFile, Orderly
<1>10. CASE RunReturns(p)
  BY <1>1, <1>3, <1>10 DEF RunReturns, Orderly
\* Another daemon that worked or came up would have its own file.
<1>11. CASE End(p)
  BY <1>1, <1>3, <1>11 DEF End, Cleanup, RemovePidFile, Orderly
<1>12. CASE ReadPidFile(p)
  BY <1>1, <1>3, <1>12 DEF ReadPidFile, Orderly
\* Whichever daemon works is the receiver of the signal.
<1>13. CASE KillSucceeds(p)
  BY <1>1, <1>3, <1>13 DEF KillSucceeds, Signalled, Receiver, Orderly
<1>14. CASE KillFails(p)
  BY <1>1, <1>3, <1>14 DEF KillFails, Returns, Orderly
<1>15. CASE Remove(p)
  BY <1>1, <1>3, <1>15 DEF Remove, Returns, RemovePidFile, Orderly
<1>16. CASE Dies(p) \/ Crash(p) \/ OtherStarts(p) \/ OtherEnds(p)
  BY <1>1, <1>3, <1>16 DEF Dies, Crash, OtherStarts, OtherEnds, Orderly
<1> QED BY <1>2, <1>4, <1>5, <1>6, <1>7, <1>8, <1>9, <1>10, <1>11, <1>12, <1>13,
           <1>14, <1>15, <1>16 DEF Program

\* stop() reads the pid of a daemon that works, if there is a file.
LEMMA StopFinds ==
  ASSUME Types, Orderly, Tidy, NEW p \in Pids, pc[p] \in {"stop", "start"},
         pidFile # "absent"
  PROVE  \E d \in Pids : Works(d) /\ pidFile = d /\ d # p
BY DEF Orderly, Tidy, Busy, Works

LEMMA StepTidy ==
  ASSUME IInv, Next, Tame'
  PROVE  Tidy'
<1>1. Types /\ Orderly /\ Tidy
  BY TroubleStays DEF IInv, Tame
<1>2. PICK p \in Pids : \/ Program(p) \/ Invoke(p) \/ RunReturns(p)
                        \/ Crash(p) \/ OtherStarts(p) \/ OtherEnds(p)
  BY DEF Next
<1>3. /\ pc \in [Pids -> Activities] /\ after[p] \in {"free", "start"}
      /\ target \in [Pids -> Pids \cup {"empty"}]
  BY <1>1 DEF Types
<1> USE DEF Goes
<1>4. CASE \/ Invoke(p) \/ Check(p) \/ Exit(p) \/ RunReturns(p) \/ Dies(p)
           \/ OtherStarts(p) \/ OtherEnds(p)
  BY <1>1, <1>3, <1>4 DEF Invoke, Check, Exit, RunReturns, Dies, OtherStarts,
     OtherEnds, Tidy
<1>5. CASE Fork(p)
  <2>1. PICK d \in Pids : pc[d] = "free" /\ pc' = [pc EXCEPT ![p] = "free", ![d] = "init"]
    BY <1>5 DEF Fork, Happens, Calm, Tame
  <2>2. UNCHANGED <<target, pidFile>>
    BY <1>5 DEF Fork
  <2> QED BY <1>1, <1>3, <2>1, <2>2 DEF Tidy
<1>6. CASE OpenPidFile(p) \/ WritePidFile(p)
  <2>1. /\ pc'[p] \in {"opened", "running"} /\ UNCHANGED target
        /\ \A q \in Pids : pc'[q] = "kill" => pc[q] = "kill"
    BY <1>3, <1>6 DEF OpenPidFile, WritePidFile
  <2> QED BY <1>1, <2>1 DEF Tidy
<1>7. CASE End(p)
  BY <1>1, <1>3, <1>7 DEF End, Cleanup, RemovePidFile, Tidy
<1>8. CASE ReadPidFile(p)
  <2>1. /\ pc[p] = "stop" /\ UNCHANGED pidFile
        /\ \/ pidFile = "absent" /\ pc' = [pc EXCEPT ![p] = after[p]] /\ UNCHANGED target
           \/ /\ pidFile # "absent" /\ pc' = [pc EXCEPT ![p] = "kill"]
              /\ target' = [target EXCEPT ![p] = pidFile]
    BY <1>8 DEF ReadPidFile, Happens, Calm, Tame
  <2>2. pidFile # "absent" => \E d \in Pids : Works(d) /\ pidFile = d /\ d # p
    BY <1>1, <2>1, StopFinds
  <2> QED BY <1>1, <1>3, <2>1, <2>2 DEF Tidy, Works
<1>9. CASE KillSucceeds(p)
  <2>1. target[p] \in Pids \ {p} /\ Receiver(p) = target[p]
    BY <1>1, <1>9, DaemonAssumption DEF KillSucceeds, Tidy, Receiver
  <2> QED BY <1>1, <1>3, <1>9, <2>1 DEF KillSucceeds, Signalled, Tidy
<1>10. CASE KillFails(p)
  BY <1>1, <1>3, <1>10 DEF KillFails, Returns, Tidy
<1>11. CASE Remove(p)
  BY <1>1, <1>3, <1>11 DEF Remove, Returns, RemovePidFile, Tidy
<1>12. CASE Crash(p)
  BY <1>12 DEF Crash, Happens, Tame
<1> QED BY <1>2, <1>4, <1>5, <1>6, <1>7, <1>8, <1>9, <1>10, <1>11, <1>12 DEF Program

LEMMA StepIInv == IInv /\ [Next]_vars => IInv'
<1> SUFFICES ASSUME IInv, [Next]_vars PROVE IInv'
  OBVIOUS
<1>1. CASE Next
  BY <1>1, StepTypes, StepOrderly, StepTidy DEF IInv
<1>2. CASE UNCHANGED vars
  <2>1. Types'
    BY <1>2 DEF IInv, Types, vars
  <2>2. Calm' = Calm /\ Tame' = Tame
    BY <1>2 DEF Calm, Tame, vars
  <2>3. Orderly' = Orderly /\ Tidy' = Tidy
    BY <1>2 DEF Orderly, Tidy, Busy, Works, vars
  <2> QED BY <2>1, <2>2, <2>3 DEF IInv
<1> QED BY <1>1, <1>2

-----------------------------------------------------------------------------
(* The steps of OrderlyRefusal and StopLeavesNone.                         *)

Refused ==
  \A p \in Pids : Refusal(p) /\ trouble \subseteq {"misdirected", "denied"} => Live # {}
Stopped ==
  \A p \in Pids : StopReturns(p) /\ trouble' \subseteq {"misdirected"} => Live' = {}

LEMMA StepRefused ==
  ASSUME IInv, [Next]_vars
  PROVE  Refused
<1> SUFFICES ASSUME NEW p \in Pids, Refusal(p),
                    trouble \subseteq {"misdirected", "denied"}
             PROVE  Live # {}
  BY DEF Refused
<1>1. Types /\ Orderly /\ Tidy
  BY DEF IInv, Calm, Tame
<1>2. pc[p] = "start" /\ pidFile # "absent"
  <2>1. pc[p] # "refused" /\ pc'[p] = "refused" /\ pc \in [Pids -> Activities]
    BY <1>1 DEF Refusal, Types
  <2>2. Next
    BY <2>1 DEF vars
  <2>3. PICK q \in Pids : \/ Program(q) \/ Invoke(q) \/ RunReturns(q)
                          \/ Crash(q) \/ OtherStarts(q) \/ OtherEnds(q)
    BY <2>2 DEF Next
  <2>4. after[q] \in {"free", "start"}
    BY <1>1 DEF Types
  <2>5. q = p /\ Check(p)
    BY <2>1, <2>3, <2>4 DEF Program, Goes, Invoke, Check, Exit, Fork, OpenPidFile,
       WritePidFile, End, ReadPidFile, KillSucceeds, Signalled, KillFails, Remove,
       Returns, Dies, RunReturns, Crash, OtherStarts, OtherEnds
  <2> QED BY <2>1, <2>5 DEF Check, AlreadyRuns, Goes
<1> QED BY <1>1, <1>2, StopFinds DEF Live, Daemons, Works

LEMMA StepStopped ==
  ASSUME IInv, [Next]_vars
  PROVE  Stopped
<1> SUFFICES ASSUME NEW p \in Pids, StopReturns(p), trouble' \subseteq {"misdirected"}
             PROVE  Live' = {}
  BY DEF Stopped
<1>1. /\ pc[p] \in {"stop", "kill", "remove"} /\ pc'[p] \in {"free", "start"}
  BY DEF StopReturns
<1>2. Next
  BY <1>1 DEF vars
<1>3. Types /\ Orderly /\ Tidy /\ Orderly'
  BY <1>2, TroubleStays, StepOrderly DEF IInv, Calm, Tame
<1>4. pc \in [Pids -> Activities] /\ after \in [Pids -> {"free", "start"}]
  BY <1>3 DEF Types
<1>5. ReadPidFile(p) \/ KillFails(p) \/ Remove(p)
  <2>1. PICK q \in Pids : \/ Program(q) \/ Invoke(q) \/ RunReturns(q)
                          \/ Crash(q) \/ OtherStarts(q) \/ OtherEnds(q)
    BY <1>2 DEF Next
  <2>2. ~KillSucceeds(q)
    BY <1>1, <1>4 DEF KillSucceeds, Signalled
  <2>3. ~Fork(q)
    BY <1>1, <1>4 DEF Fork, Goes
  <2>4. ~(OpenPidFile(q) \/ WritePidFile(q) \/ End(q) \/ Check(q) \/ Exit(q))
    BY <1>1, <1>4 DEF OpenPidFile, WritePidFile, End, Check, Exit, Goes
  <2>5. ~Invoke(q)
    <3>1. ASSUME Invoke(q) PROVE pc[q] = "free" /\ \E a : pc' = [pc EXCEPT ![q] = a]
      BY <3>1 DEF Invoke, Goes
    <3> QED BY <1>1, <1>4, <3>1
  <2>6. ~(RunReturns(q) \/ Crash(q) \/ OtherStarts(q) \/ OtherEnds(q) \/ Dies(q))
    <3>1. pc[p] \notin Daemons \cup {"free", "other", "dying"} /\ pc'[p] # pc[p]
      BY <1>1 DEF Daemons
    <3>2. ASSUME RunReturns(q) \/ Crash(q) \/ OtherStarts(q) \/ OtherEnds(q) \/ Dies(q)
          PROVE  /\ pc[q] \in Daemons \cup {"free", "other", "dying"}
                 /\ \E a : pc' = [pc EXCEPT ![q] = a]
      BY <3>2 DEF RunReturns, Crash, OtherStarts, OtherEnds, Dies, Goes, Daemons
    <3> QED BY <1>4, <3>1, <3>2
  <2>7. q # p => ~(ReadPidFile(q) \/ KillFails(q) \/ Remove(q))
    BY <1>1, <1>4 DEF ReadPidFile, KillFails, Remove, Goes
  <2> QED BY <2>1, <2>2, <2>3, <2>4, <2>5, <2>6, <2>7 DEF Program
<1>6. \A d \in Pids : ~Works(d)
  <2>1. CASE ReadPidFile(p)
    <3>1. pidFile = "absent"
      BY <1>1, <1>4, <2>1 DEF ReadPidFile, Goes, Happens
    <3> QED BY <1>3, <3>1, DaemonAssumption DEF Orderly
  <2>2. CASE KillFails(p)
    <3>1. "denied" \notin trouble'
      OBVIOUS
    <3>2. pc[p] = "kill" /\ pc[Receiver(p)] \in {"free", "other"}
      BY <2>2, <3>1 DEF KillFails, Happens
    <3>3. Receiver(p) = target[p]
      BY <1>3, <3>2, DaemonAssumption DEF Tidy, Receiver
    <3> QED BY <1>3, <3>2, <3>3 DEF Orderly, Works
  <2>3. CASE Remove(p)
    BY <1>3, <2>3 DEF Remove, Orderly
  <2> QED BY <1>5, <2>1, <2>2, <2>3
<1>7. \A d \in Pids : pc[d] \notin {"init", "opened"}
  BY <1>1, <1>3 DEF Orderly, Busy
<1>8. \A d \in Pids \ {p} : pc'[d] = pc[d]
  BY <1>4, <1>5 DEF ReadPidFile, KillFails, Remove, Goes
<1> QED BY <1>1, <1>6, <1>7, <1>8 DEF Live, Daemons, Works

-----------------------------------------------------------------------------
(* What follows for every behaviour.                                       *)

\* The inductive invariant: while no command overlaps and no call fails, the
\* pid file says how far Daemon::daemonize, stop and run are.
THEOREM Invariance == Spec => []IInv
BY InitIInv, StepIInv, PTL DEF Spec

\* The types; Daemon::stop never makes more than KillTries calls of kill().
THEOREM TypeCorrect == Spec => []TypeOK
<1>1. IInv => TypeOK
  BY DEF IInv, Types, TypeOK
<1> QED BY <1>1, Invariance, PTL

\* Never a second daemon in a calm history, whatever crashes, stale pid files
\* and reused pids Daemon::start meets.
THEOREM NeverTwo == Spec => []OneDaemon
<1>1. IInv => OneDaemon
  <2> SUFFICES ASSUME IInv, trouble \cap {"overlap", "failure"} = {}
               PROVE  AtMostOneDaemon
    BY DEF OneDaemon
  <2>1. Types /\ Orderly
    BY DEF IInv, Calm
  <2>2. \A d, e \in Live : d = e
    <3>1. \A d \in Live : Busy(d) \/ Works(d)
      BY DEF Live, Daemons, Busy, Works
    <3>2. \A d, e \in Live : Works(d) /\ Works(e) => d = e
      BY <2>1 DEF Orderly, Live
    <3>3. \A d, e \in Live : Busy(d) /\ ~Works(d) => ~Works(e)
      BY <2>1, ComingUp DEF Live, Daemons, Busy, Works
    <3>4. \A d, e \in Live : Busy(d) /\ Busy(e) => d = e
      BY <2>1 DEF Orderly, Live
    <3> QED BY <3>1, <3>2, <3>3, <3>4
  <2>3. CASE Live = {}
    <3>1. Cardinality(Live) = 0
      BY <2>3, FS_EmptySet
    <3> QED BY <3>1 DEF AtMostOneDaemon
  <2>4. CASE Live # {}
    <3>1. PICK d \in Live : Live = {d}
      BY <2>2, <2>4
    <3>2. Cardinality(Live) = 1
      BY <3>1, FS_Singleton
    <3> QED BY <3>2 DEF AtMostOneDaemon
  <2> QED BY <2>3, <2>4
<1> QED BY <1>1, Invariance, PTL

\* In such a history the pid file names the daemon for as long as it works, so
\* that Daemon::stop finds it.
THEOREM FileLeads == Spec => []FileLeadsToDaemon
<1>1. IInv => FileLeadsToDaemon
  BY DEF IInv, Calm, Orderly, Works, FileLeadsToDaemon
<1> QED BY <1>1, Invariance, PTL

\* Without crashes Daemon::start refuses only because there is a daemon.
THEOREM RefusesInOrder == Spec => OrderlyRefusal
<1>1. IInv /\ [Next]_vars => [Refused]_vars
  BY StepRefused
<1> QED BY <1>1, Invariance, PTL DEF Spec, OrderlyRefusal, Refused

\* And no daemon is left when Daemon::stop returns.
THEOREM StopsAll == Spec => StopLeavesNone
<1>1. IInv /\ [Next]_vars => [Stopped]_vars
  BY StepStopped
<1> QED BY <1>1, Invariance, PTL DEF Spec, StopLeavesNone, Stopped
=============================================================================
