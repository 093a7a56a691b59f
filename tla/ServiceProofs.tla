----------------------------- MODULE ServiceProofs -----------------------------
(***************************************************************************)
(* What Service guarantees for every set of process ids, every platform and *)
(* setting of the unit, and any number of failures and reboots.  The types  *)
(* of the daemon's part are the theorems of DaemonLifecycleProofs, about    *)
(* the instance of DaemonLifecycle that Service is built on.                *)
(***************************************************************************)
EXTENDS Service, TLAPS

P == INSTANCE DaemonLifecycleProofs WITH Commands <- Manual \cup {"foreground"}, Faults <- {}

-----------------------------------------------------------------------------
(* The two instances, D of the specification and P of the proofs, are one *)

LEMMA DaemonConstants == P!ConstantsAssumption
  BY ServiceAssumption DEF P!ConstantsAssumption, P!AllCommands, Clients

LEMMA SameTypes == P!TypeOK <=> D!TypeOK
  BY DEF P!TypeOK, D!TypeOK, P!AllPhases, D!AllPhases, P!DaemonAt, D!DaemonAt, P!Serves,
         D!Serves, P!Handles, D!Handles, P!PCs, D!PCs

LEMMA SameTypesNext == P!TypeOK' <=> D!TypeOK'
  BY DEF P!TypeOK, D!TypeOK, P!AllPhases, D!AllPhases, P!DaemonAt, D!DaemonAt, P!Serves,
         D!Serves, P!Handles, D!Handles, P!PCs, D!PCs

LEMMA SameInit == D!Init => P!Init
  BY DEF D!Init, P!Init, D!Idle, P!Idle, D!NoStatus, P!NoStatus

LEMMA SameDaemon == ASSUME NEW p PROVE D!DaemonStep(p) => P!DaemonStep(p)
  BY DEF P!DaemonStep, D!DaemonStep, P!Boot, D!Boot, P!BootFails, D!BootFails, P!Move, D!Move,
         P!Return, D!Return, P!Gone, D!Gone, P!Stopped, D!Stopped, P!Announce, D!Announce,
         P!Running, D!Running, P!LoopTest, D!LoopTest, P!Work, D!Work, P!WorkRaises,
         D!WorkRaises, P!Final, D!Final, P!ForegroundUnlock, D!ForegroundUnlock

LEMMA SameCrash == ASSUME NEW p PROVE D!Crash(p) => P!Crash(p)
  BY DEF P!Crash, D!Crash, P!Gone, D!Gone, P!Move, D!Move, P!DaemonAt, D!DaemonAt, P!Serves,
         D!Serves, P!Handles, D!Handles

LEMMA SameStart == ASSUME NEW c PROVE D!Start(c) => P!Start(c)
  BY DEF P!Start, D!Start, P!StartCheck, D!StartCheck, P!StartUnlink, D!StartUnlink,
         P!StartSpawn, D!StartSpawn, P!StartLock, D!StartLock, P!StartAnnounce,
         D!StartAnnounce, P!MayRun, D!MayRun, P!PsAnswers, D!PsAnswers, P!ActiveLock,
         D!ActiveLock, P!Done, D!Done, P!Begin, D!Begin, P!Goto, D!Goto, P!Idle, D!Idle,
         P!Free, D!Free, P!Running, D!Running, P!DaemonAt, D!DaemonAt, P!Serves, D!Serves,
         P!Handles, D!Handles

LEMMA SameForeground == ASSUME NEW c PROVE D!Foreground(c) => P!Foreground(c)
  BY DEF P!Foreground, D!Foreground, P!ForegroundCheck, D!ForegroundCheck,
         P!ForegroundEnter, D!ForegroundEnter, P!MayRun, D!MayRun, P!PsAnswers, D!PsAnswers,
         P!ActiveLock, D!ActiveLock, P!Done, D!Done, P!Begin, D!Begin, P!Idle, D!Idle,
         P!Free, D!Free, P!DaemonAt, D!DaemonAt, P!Serves, D!Serves, P!Handles, D!Handles

LEMMA SameStop == ASSUME NEW c PROVE D!Stop(c) => P!Stop(c)
  BY DEF P!Stop, D!Stop, P!StopRead, D!StopRead, P!StopKill, D!StopKill, P!StopStatus,
         D!StopStatus, P!StopUnlink, D!StopUnlink, P!MayRun, D!MayRun, P!Done, D!Done,
         P!Begin, D!Begin, P!Goto, D!Goto, P!Idle, D!Idle, P!Handles, D!Handles, P!Stopped,
         D!Stopped

LEMMA SameStatus == ASSUME NEW c PROVE D!Status(c) => P!Status(c)
  BY DEF P!Status, D!Status, P!StatusCheck, D!StatusCheck, P!StatusRead, D!StatusRead,
         P!StatusRepair, D!StatusRepair, P!StatusCorrect, D!StatusCorrect, P!MayRun,
         D!MayRun, P!PsAnswers, D!PsAnswers, P!ActiveLock, D!ActiveLock, P!Done, D!Done,
         P!Begin, D!Begin, P!Goto, D!Goto, P!Idle, D!Idle, P!NoStatus, D!NoStatus,
         P!Repaired, D!Repaired, P!Stopped, D!Stopped, P!DaemonAt, D!DaemonAt, P!Serves,
         D!Serves, P!Handles, D!Handles

LEMMA SameClear == ASSUME NEW c PROVE D!Clear(c) => P!Clear(c)
  BY DEF P!Clear, D!Clear, P!ClearCheck, D!ClearCheck, P!ClearUnlink, D!ClearUnlink,
         P!ClearStatus, D!ClearStatus, P!MayRun, D!MayRun, P!Done, D!Done, P!Begin, D!Begin,
         P!Goto, D!Goto, P!Idle, D!Idle, P!Stopped, D!Stopped

-----------------------------------------------------------------------------
(* Types: the daemon's steps *)

LEMMA DaemonType ==
  ASSUME D!TypeOK, NEW p \in Pids, D!DaemonStep(p) \/ D!Crash(p)
  PROVE  D!TypeOK'
<1>1. P!TypeOK
  BY SameTypes
<1>2. CASE D!DaemonStep(p)
  <2>1. P!DaemonStep(p)
    BY <1>2, SameDaemon
  <2>. QED BY <1>1, <2>1, DaemonConstants, P!DaemonType, SameTypesNext
<1>3. CASE D!Crash(p)
  <2>1. P!Crash(p)
    BY <1>3, SameCrash
  <2>. QED BY <1>1, <2>1, DaemonConstants, P!AccidentType, SameTypesNext
<1>. QED BY <1>2, <1>3

LEMMA CommandType ==
  ASSUME D!TypeOK, NEW c \in Clients,
         D!Start(c) \/ D!Foreground(c) \/ D!Stop(c) \/ D!Status(c) \/ D!Clear(c)
  PROVE  D!TypeOK'
<1>1. P!TypeOK
  BY SameTypes
<1>2. CASE D!Start(c)
  <2>1. P!Start(c)
    BY <1>2, SameStart
  <2>. QED BY <1>1, <2>1, DaemonConstants, P!StartType, SameTypesNext
<1>3. CASE D!Foreground(c)
  <2>1. P!Foreground(c)
    BY <1>3, SameForeground
  <2>. QED BY <1>1, <2>1, DaemonConstants, P!ForegroundType, SameTypesNext
<1>4. CASE D!Stop(c)
  <2>1. P!Stop(c)
    BY <1>4, SameStop
  <2>. QED BY <1>1, <2>1, DaemonConstants, P!StopType, SameTypesNext
<1>5. CASE D!Status(c)
  <2>1. P!Status(c)
    BY <1>5, SameStatus
  <2>. QED BY <1>1, <2>1, DaemonConstants, P!StatusType, SameTypesNext
<1>6. CASE D!Clear(c)
  <2>1. P!Clear(c)
    BY <1>6, SameClear
  <2>. QED BY <1>1, <2>1, DaemonConstants, P!ClearType, SameTypesNext
<1>. QED BY <1>2, <1>3, <1>4, <1>5, <1>6

\* The steps of the daemon and of the commands in Service's next-state relation.
DSteps == \/ ByHand \/ Launches
          \/ \E p \in Pids : D!DaemonStep(p) \/ D!Crash(p)

LEMMA StepType == ASSUME D!TypeOK, DSteps PROVE D!TypeOK'
<1>1. Terminal \in Clients /\ Manager \in Clients
  BY DEF Clients
<1>2. CASE ByHand
  BY <1>1, <1>2, CommandType DEF ByHand
<1>3. CASE Launches
  <2>1. D!Start(Manager) \/ D!Foreground(Manager)
    BY <1>3 DEF Launches, D!Start, D!Foreground
  <2>. QED BY <1>1, <2>1, CommandType
<1>4. CASE \E p \in Pids : D!DaemonStep(p) \/ D!Crash(p)
  BY <1>4, DaemonType
<1>. QED BY <1>2, <1>3, <1>4 DEF DSteps

\* A process that dies with its command.
LEMMA CutType ==
  ASSUME D!TypeOK, NEW p \in Pids, Cut(p), UNCHANGED <<lock, status, answer>>
  PROVE  D!TypeOK'
  BY DEF Cut, D!TypeOK, D!AllPhases, D!Idle, D!PCs, Clients

-----------------------------------------------------------------------------
(* Types: the job and its process *)

JobOK ==
    /\ job \in [loaded : BOOLEAN, at : {"off", "starting", "on", "stopping", "exited"},
                pid : Pids \cup {NoPid}]
    /\ job.pid # NoPid <=> job.at \in {"on", "stopping"}
    /\ job.pid # NoPid => phase[job.pid] # "free"

LEMMA FollowsType == ASSUME JobOK, JobFollows PROVE JobOK'
  BY DEF JobOK, JobFollows

LEMMA LaunchType == ASSUME D!TypeOK, JobOK, Launch PROVE D!TypeOK' /\ JobOK'
<1>1. Manager \in Clients
  BY DEF Clients
<1>2. D!TypeOK'
  BY <1>1, CommandType DEF Launch, D!Foreground
<1>3. PICK p \in D!Free :
        \/ D!Done(Manager, "refused") /\ UNCHANGED <<phase, fg>>
        \/ /\ D!Begin(Manager, "unlink", p, TRUE)
           /\ phase' = [phase EXCEPT ![p] = "cli"]
  BY DEF Launch, D!ForegroundCheck
<1>4. p \in Pids
  BY <1>3 DEF D!Free
<1>5. CASE D!Done(Manager, "refused")
  <2>1. answer'[Manager] = "refused" /\ client'[Manager].pid = NoPid
    BY <1>1, <1>5 DEF D!Done, D!Idle, D!TypeOK
  <2>2. job' = [job EXCEPT !.at = "exited", !.pid = NoPid]
    BY <2>1 DEF Launch
  <2>. QED BY <1>2, <2>2 DEF JobOK
<1>6. CASE D!Begin(Manager, "unlink", p, TRUE) /\ phase' = [phase EXCEPT ![p] = "cli"]
  <2>1. answer'[Manager] = "none" /\ client'[Manager].pid = p
    BY <1>1, <1>6 DEF D!Begin, D!TypeOK
  <2>2. job' = [job EXCEPT !.at = "on", !.pid = p]
    BY <2>1 DEF Launch
  <2>3. phase'[p] = "cli"
    BY <1>4, <1>6 DEF D!TypeOK
  <2>. QED BY <1>2, <1>4, <2>2, <2>3, ServiceAssumption DEF JobOK
<1>. QED BY <1>3, <1>5, <1>6

LEMMA StopJobType == ASSUME D!TypeOK, JobOK, StopJob PROVE D!TypeOK' /\ JobOK'
<1>1. CASE job.pid = NoPid
  <2>1. UNCHANGED <<phase, fg, term, client, lock, status, answer>>
    BY <1>1 DEF StopJob
  <2>2. D!TypeOK'
    BY <2>1 DEF D!TypeOK
  <2>3. job' = [job EXCEPT !.loaded = FALSE, !.at = IF @ = "starting" THEN "off" ELSE @]
    BY <1>1 DEF StopJob, JobOK
  <2>. QED BY <1>1, <2>2, <2>3 DEF JobOK
<1>2. CASE job.pid # NoPid
  <2> DEFINE p == job.pid
  <2>1. p \in Pids
    BY <1>2 DEF JobOK
  <2>2. D!TypeOK'
    <3>1. CASE phase[p] \in D!Handles
      BY <1>2, <2>1, <3>1 DEF StopJob, D!TypeOK
    <3>2. CASE phase[p] \notin D!Handles
      BY <1>2, <2>1, <3>2, CutType DEF StopJob
    <3>. QED BY <3>1, <3>2
  <2>3. CASE phase'[p] = "free"
    <3>1. job' = [job EXCEPT !.loaded = FALSE, !.at = "exited", !.pid = NoPid]
      BY <1>2, <2>3 DEF StopJob
    <3>. QED BY <2>2, <3>1 DEF JobOK
  <2>4. CASE phase'[p] # "free"
    <3>1. job' = [job EXCEPT !.loaded = FALSE, !.at = "stopping", !.pid = p]
      BY <1>2, <2>4 DEF StopJob
    <3>. QED BY <1>2, <2>1, <2>2, <2>4, <3>1 DEF JobOK
  <2>. QED BY <2>3, <2>4
<1>. QED BY <1>1, <1>2

LEMMA LoadedOK == ASSUME setup \in Setups, job' = Loaded PROVE JobOK'
  BY ServiceAssumption DEF Loaded, JobOK

-----------------------------------------------------------------------------
(* Types: every command of the service *)

RestOK ==
    /\ setup \in Setups /\ unit \in BOOLEAN /\ enabled \in BOOLEAN /\ missed \in BOOLEAN
    /\ op \in Steps /\ report \in Reports
    /\ moves \in 0 .. MaxMoves

LEMMA TypeParts == TypeOK <=> D!TypeOK /\ JobOK /\ RestOK
  BY DEF TypeOK, JobOK, RestOK

LEMMA TypePartsNext == D!TypeOK' /\ JobOK' /\ RestOK' => TypeOK'
  BY DEF TypeOK, JobOK, RestOK

\* While the daemon does nothing its part keeps its types, and the job's process exists.
LEMMA Untouched ==
  ASSUME TypeOK, UNCHANGED daemon
  PROVE  D!TypeOK' /\ (UNCHANGED job => JobOK')
  BY TypeParts DEF daemon, D!TypeOK, JobOK

LEMMA MoveType == ASSUME RestOK, Works \/ Fails PROVE (missed \in BOOLEAN /\ moves \in 0 .. MaxMoves)'
<1>1. missed' \in BOOLEAN
  BY DEF RestOK, Works, Fails
<1>2. CASE Works
  BY <1>2 DEF RestOK, Works
<1>3. CASE Fails
  <2>1. moves \in 0 .. MaxMoves /\ moves < MaxMoves /\ moves' = moves + 1
    BY <1>3 DEF RestOK, Fails, Move
  <2>. QED BY <1>1, <2>1, ServiceAssumption
<1>. QED BY <1>1, <1>2, <1>3

LEMMA InstallType == ASSUME TypeOK, Install PROVE TypeOK'
<1>1. RestOK /\ JobOK
  BY TypeParts
<1>2. UNCHANGED daemon
  BY DEF Install, InstallWrite, InstallReload, InstallEnable, InstallPrint, InstallBootstrap
<1>3. RestOK'
  <2>1. CASE InstallWrite
    BY <1>1, <2>1 DEF InstallWrite, RestOK, Begin, Steps, Reports
  <2>2. CASE InstallReload
    BY <1>1, <2>2, MoveType DEF InstallReload, RestOK, Continue, Report, Steps, Reports
  <2>3. CASE InstallEnable
    BY <1>1, <2>3, MoveType DEF InstallEnable, RestOK, Report, Steps, Reports
  <2>4. CASE InstallPrint
    BY <1>1, <2>4, MoveType DEF InstallPrint, RestOK, Continue, Report, Steps, Reports
  <2>5. CASE InstallBootstrap
    BY <1>1, <2>5, MoveType DEF InstallBootstrap, RestOK, Report, Steps, Reports
  <2>. QED BY <2>1, <2>2, <2>3, <2>4, <2>5 DEF Install
<1>4. JobOK'
  <2>1. CASE UNCHANGED job
    BY <1>2, <2>1, Untouched
  <2>2. CASE job' = Loaded
    BY <1>1, <2>2, LoadedOK DEF RestOK
  <2>. QED BY <2>1, <2>2 DEF Install, InstallWrite, InstallReload, InstallEnable,
                             InstallPrint, InstallBootstrap
<1>. QED BY <1>2, <1>3, <1>4, Untouched, TypePartsNext

LEMMA UninstallType == ASSUME TypeOK, Uninstall PROVE TypeOK'
<1>1. RestOK /\ JobOK /\ D!TypeOK
  BY TypeParts
<1>2. RestOK'
  <2>1. CASE UninstallCheck
    BY <1>1, <2>1 DEF UninstallCheck, RestOK, Begin, Report, Steps, Reports, world
  <2>2. CASE UninstallStop
    BY <1>1, <2>2, MoveType DEF UninstallStop, RestOK, Continue, Steps
  <2>3. CASE UninstallDisable
    BY <1>1, <2>3, MoveType DEF UninstallDisable, RestOK, Continue, Steps
  <2>4. CASE UninstallUnlink
    BY <1>1, <2>4 DEF UninstallUnlink, RestOK, Continue, Steps
  <2>5. CASE UninstallLock
    BY <1>1, <2>5 DEF UninstallLock, RestOK, Report, Steps, Reports, world
  <2>. QED BY <2>1, <2>2, <2>3, <2>4, <2>5 DEF Uninstall
<1>3. CASE UninstallStop /\ StopJob
  BY <1>1, <1>2, <1>3, StopJobType, TypePartsNext
<1>4. CASE UninstallLock
  <2>1. D!TypeOK'
    BY <1>1, <1>4 DEF UninstallLock, D!TypeOK
  <2>2. JobOK'
    BY <1>1, <1>4 DEF UninstallLock, JobOK
  <2>. QED BY <1>2, <2>1, <2>2, TypePartsNext
<1>5. CASE UNCHANGED <<daemon, job>>
  BY <1>2, <1>5, Untouched, TypePartsNext
<1>. QED BY <1>3, <1>4, <1>5 DEF Uninstall, UninstallCheck, UninstallStop, UninstallDisable,
                                 UninstallUnlink

LEMMA KickType == ASSUME D!TypeOK, JobOK, StartKick PROVE D!TypeOK' /\ JobOK'
<1>1. CASE /\ job' = [job EXCEPT !.at = "starting", !.pid = NoPid]
           /\ IF job.pid # NoPid THEN Cut(job.pid) ELSE UNCHANGED <<phase, fg, term, client>>
  <2>1. JobOK'
    BY <1>1 DEF JobOK
  <2>2. CASE job.pid # NoPid
    BY <1>1, <2>1, <2>2, CutType DEF JobOK, StartKick
  <2>3. CASE job.pid = NoPid
    BY <1>1, <2>1, <2>3 DEF StartKick, D!TypeOK
  <2>. QED BY <2>2, <2>3
<1>2. CASE UNCHANGED <<phase, fg, term, client, job>>
  BY <1>2 DEF StartKick, D!TypeOK, JobOK
<1>. QED BY <1>1, <1>2 DEF StartKick

LEMMA StartServiceType == ASSUME TypeOK, Start PROVE TypeOK'
<1>1. RestOK /\ JobOK /\ D!TypeOK
  BY TypeParts
<1>2. RestOK'
  <2>1. CASE StartCheck
    BY <1>1, <2>1 DEF StartCheck, RestOK, Begin, Report, Steps, Reports, world
  <2>2. CASE StartUnit
    BY <1>1, <2>2, MoveType DEF StartUnit, RestOK, Continue, Report, Steps, Reports
  <2>3. CASE StartLook
    BY <1>1, <2>3 DEF StartLook, RestOK, Report, Steps, Reports, world
  <2>4. CASE StartLoad
    BY <1>1, <2>4, MoveType DEF StartLoad, RestOK, Continue, Report, Steps, Reports
  <2>5. CASE StartLookBoot
    BY <1>1, <2>5 DEF StartLookBoot, RestOK, Continue, Report, Steps, Reports, world
  <2>6. CASE StartKick
    BY <1>1, <2>6, MoveType DEF StartKick, RestOK, Continue, Report, Steps, Reports
  <2>. QED BY <2>1, <2>2, <2>3, <2>4, <2>5, <2>6 DEF Start
<1>3. CASE StartKick
  BY <1>1, <1>2, <1>3, KickType, TypePartsNext
<1>4. CASE UNCHANGED <<daemon, job>>
  BY <1>2, <1>4, Untouched, TypePartsNext
<1>5. CASE StartLoad /\ job' = Loaded
  <2>1. UNCHANGED daemon
    BY <1>5 DEF StartLoad
  <2>. QED BY <1>1, <1>2, <1>5, <2>1, Untouched, LoadedOK, TypePartsNext DEF RestOK
<1>6. CASE StartUnit
  <2>1. UNCHANGED daemon
    BY <1>6 DEF StartUnit
  <2>2. JobOK'
    <3>1. CASE UNCHANGED job
      BY <2>1, <3>1, Untouched
    <3>2. CASE job.at # "on" /\ job' = [job EXCEPT !.loaded = TRUE, !.at = "starting"]
      BY <1>1, <1>6, <3>2 DEF StartUnit, JobOK
    <3>. QED BY <1>6, <3>1, <3>2 DEF StartUnit
  <2>. QED BY <1>2, <2>1, <2>2, Untouched, TypePartsNext
<1>. QED BY <1>3, <1>4, <1>5, <1>6 DEF Start, StartCheck, StartLook, StartLoad, StartLookBoot

LEMMA StopServiceType == ASSUME TypeOK, Stop PROVE TypeOK'
<1>1. RestOK /\ JobOK /\ D!TypeOK
  BY TypeParts
<1>2. RestOK'
  <2>1. CASE StopCheck
    BY <1>1, <2>1 DEF StopCheck, RestOK, Begin, Report, Steps, Reports, world
  <2>2. CASE StopService
    BY <1>1, <2>2, MoveType DEF StopService, RestOK, Continue, Report, Steps, Reports
  <2>3. CASE StopWaited
    BY <1>1, <2>3 DEF StopWaited, RestOK, Report, Steps, Reports, world
  <2>. QED BY <2>1, <2>2, <2>3 DEF Stop
<1>3. CASE StopService /\ StopJob
  BY <1>1, <1>2, <1>3, StopJobType, TypePartsNext
<1>4. CASE UNCHANGED <<daemon, job>>
  BY <1>2, <1>4, Untouched, TypePartsNext
<1>. QED BY <1>3, <1>4 DEF Stop, StopCheck, StopService, StopWaited

LEMMA StatusServiceType == ASSUME TypeOK, Status PROVE TypeOK'
<1>1. RestOK /\ UNCHANGED <<daemon, job>>
  BY TypeParts DEF Status, StatusService, StatusLock
<1>2. RestOK'
  <2>1. CASE StatusService
    BY <1>1, <2>1 DEF StatusService, RestOK, Begin, Report, Steps, Reports, world
  <2>2. CASE StatusLock
    BY <1>1, <2>2 DEF StatusLock, RestOK, Report, Steps, Reports, world
  <2>. QED BY <2>1, <2>2 DEF Status
<1>. QED BY <1>1, <1>2, Untouched, TypePartsNext

LEMMA RebootType == ASSUME TypeOK, Reboot PROVE TypeOK'
<1>1. RestOK /\ JobOK /\ D!TypeOK
  BY TypeParts
<1>2. RestOK'
  <2>1. moves \in 0 .. MaxMoves /\ moves < MaxMoves /\ moves' = moves + 1
    BY <1>1 DEF RestOK, Reboot, Move
  <2>2. moves' \in 0 .. MaxMoves
    BY <2>1, ServiceAssumption
  <2>. QED BY <1>1, <2>2 DEF Reboot, RestOK, Reports
<1>3. D!TypeOK'
  BY <1>1 DEF Reboot, D!TypeOK, D!AllPhases, D!Idle, D!PCs, Clients
<1>4. JobOK'
  <2>1. CASE job' = Loaded
    BY <1>1, <2>1, LoadedOK DEF RestOK
  <2>2. CASE job' = NoJob
    BY <2>2 DEF NoJob, JobOK
  <2>3. CASE job' = [NoJob EXCEPT !.loaded = TRUE, !.at = "starting"]
    BY <2>3 DEF NoJob, JobOK
  <2>. QED BY <2>1, <2>2, <2>3 DEF Reboot
<1>. QED BY <1>2, <1>3, <1>4, TypePartsNext

\* The daemon, its commands and the manager's process go a step, and the job follows.
LEMMA GoesType ==
  ASSUME TypeOK, DSteps, JobFollows, RestOK'
  PROVE  TypeOK'
  BY TypeParts, StepType, FollowsType, TypePartsNext

LEMMA RelaunchType == ASSUME TypeOK, Relaunch PROVE TypeOK'
<1>1. RestOK /\ JobOK /\ D!TypeOK
  BY TypeParts
<1>2. RestOK'
  BY <1>1 DEF Relaunch, RestOK, world
<1>3. D!TypeOK'
  BY <1>1 DEF Relaunch, D!TypeOK
<1>4. JobOK'
  BY <1>1 DEF Relaunch, JobOK
<1>. QED BY <1>2, <1>3, <1>4, TypePartsNext

\* What moves the daemon's part: a command at the terminal, the manager's process, the daemon.
LEMMA ManagerStep ==
  ASSUME Next, ~Command, ~Launch, ~Relaunch, ~Reboot
  PROVE  /\ DSteps /\ JobFollows
         /\ UNCHANGED <<setup, unit, enabled, missed, op, report>>
         /\ UNCHANGED moves \/ Move
<1>1. CASE Ready /\ Move /\ Goes(ByHand)
  BY <1>1 DEF Goes, DSteps
<1>2. CASE Continues
  BY <1>2 DEF Continues, Runs, Goes, DSteps
<1>3. CASE Runs(Launches)
  BY <1>3 DEF Runs, Goes, DSteps
<1>4. CASE \E p \in Pids : Runs(D!DaemonStep(p) \/ D!Crash(p))
  BY <1>4 DEF Runs, Goes, DSteps
<1>. QED BY <1>1, <1>2, <1>3, <1>4 DEF Next

LEMMA TypeStep == ASSUME TypeOK, [Next]_vars PROVE TypeOK'
<1>1. CASE Command
  BY <1>1, InstallType, UninstallType, StartServiceType, StopServiceType, StatusServiceType
     DEF Command
<1>2. CASE Launch
  <2>1. RestOK'
    BY <1>2, TypeParts DEF Launch, RestOK, world
  <2>. QED BY <1>2, <2>1, LaunchType, TypeParts, TypePartsNext
<1>3. CASE Relaunch
  BY <1>3, RelaunchType
<1>4. CASE Reboot
  BY <1>4, RebootType
<1>5. CASE Next /\ ~Command /\ ~Launch /\ ~Relaunch /\ ~Reboot
  <2>1. /\ DSteps /\ JobFollows
        /\ UNCHANGED <<setup, unit, enabled, missed, op, report>>
        /\ UNCHANGED moves \/ Move
    BY <1>5, ManagerStep
  <2>2. RestOK
    BY TypeParts
  <2>3. moves' \in 0 .. MaxMoves
    <3>1. CASE UNCHANGED moves
      BY <2>2, <3>1 DEF RestOK
    <3>2. CASE Move
      <4>1. moves \in 0 .. MaxMoves /\ moves < MaxMoves /\ moves' = moves + 1
        BY <2>2, <3>2 DEF RestOK, Move
      <4>. QED BY <4>1, ServiceAssumption
    <3>. QED BY <2>1, <3>1, <3>2
  <2>4. RestOK'
    BY <2>1, <2>2, <2>3 DEF RestOK
  <2>. QED BY <2>1, <2>4, GoesType
<1>6. CASE UNCHANGED vars
  <2>1. RestOK' /\ UNCHANGED <<daemon, job>>
    BY <1>6, TypeParts DEF vars, service, world, RestOK
  <2>. QED BY <2>1, Untouched, TypePartsNext
<1>. QED BY <1>1, <1>2, <1>3, <1>4, <1>5, <1>6

LEMMA InitType == Init => TypeOK
<1> SUFFICES ASSUME Init PROVE TypeOK
  OBVIOUS
<1>1. D!TypeOK
  <2>1. P!Init
    BY SameInit DEF Init
  <2>. QED BY <2>1, DaemonConstants, P!InitType, SameTypes
<1>2. JobOK
  BY DEF Init, NoJob, JobOK
<1>3. RestOK
  <2>1. moves \in 0 .. MaxMoves
    BY ServiceAssumption DEF Init
  <2>. QED BY <2>1 DEF Init, RestOK, Steps, Reports
<1>. QED BY <1>1, <1>2, <1>3, TypeParts

\* Types are kept, whatever the manager fails to do: a job has a process exactly while it
\* is on or is being stopped, and that process exists.
THEOREM TypeCorrect == Spec => []TypeOK
<1>1. Init /\ [][Next]_vars => []TypeOK
  BY InitType, TypeStep, PTL
<1>. QED BY <1>1, PTL DEF Spec

-----------------------------------------------------------------------------
(* The manager does what it was told last *)

\* The job has no process and gets none.
Told == ~job.loaded /\ job.at \notin {"starting", "on"}

\* A job that is told not to run is told so before its unit goes (or the manager has
\* failed); what is installed or started has its unit until the command is through; a
\* command that waits for the process has said its word; and what a command has reported
\* lasts until the next one.
Obeys ==
    /\ missed \/ unit \/ Told
    /\ op \in {"disable", "unlink"} => missed \/ Told
    /\ op \in {"reload", "enable", "print", "bootstrap", "start", "load", "look_boot", "kick",
               "bootout"} => unit
    /\ op = "stopping" => Told
    /\ op # "idle" => report = "none"
    /\ report = "stopped" => Told

LEMMA StopTells == ASSUME JobOK, StopJob PROVE Told'
<1>1. CASE job.pid = NoPid
  <2>1. job' = [job EXCEPT !.loaded = FALSE, !.at = IF @ = "starting" THEN "off" ELSE @]
    BY <1>1 DEF StopJob, JobOK
  <2>. QED BY <1>1, <2>1 DEF JobOK, Told
<1>2. CASE job.pid # NoPid
  BY <1>2 DEF StopJob, JobOK, Told
<1>. QED BY <1>1, <1>2

LEMMA LaunchObeys == ASSUME JobOK, Obeys, Launch PROVE Obeys'
<1>1. ~Told
  BY DEF Launch, Told
<1>2. UNCHANGED <<unit, missed, op, report>>
  BY DEF Launch, world
<1>. QED BY <1>1, <1>2 DEF Obeys

\* A step after which the job is told nothing new keeps what the commands rely on.
LEMMA SameWord ==
  ASSUME Obeys, Told => Told', UNCHANGED <<unit, op, report>>, UNCHANGED missed
  PROVE  Obeys'
  BY DEF Obeys

LEMMA FollowsObeys == ASSUME JobOK, JobFollows PROVE Told => Told'
  BY DEF JobOK, JobFollows, Told

LEMMA RelaunchObeys == ASSUME JobOK, Relaunch PROVE Told => Told'
  BY DEF JobOK, Relaunch, Told

LEMMA InstallObeys == ASSUME JobOK, Obeys, Install PROVE Obeys'
<1>1. CASE InstallWrite
  BY <1>1 DEF InstallWrite, Ready, Begin, Obeys
<1>2. CASE InstallReload
  BY <1>2 DEF InstallReload, Works, Fails, Continue, Report, Obeys, Told
<1>3. CASE InstallEnable
  BY <1>3 DEF InstallEnable, Works, Fails, Report, Obeys, Told
<1>4. CASE InstallPrint
  BY <1>4 DEF InstallPrint, Works, Fails, Continue, Report, Obeys, Told
<1>5. CASE InstallBootstrap
  BY <1>5 DEF InstallBootstrap, Works, Fails, Report, Obeys
<1>. QED BY <1>1, <1>2, <1>3, <1>4, <1>5 DEF Install

LEMMA UninstallObeys == ASSUME JobOK, Obeys, Uninstall PROVE Obeys'
<1>1. CASE UninstallCheck
  BY <1>1 DEF UninstallCheck, Ready, Begin, Report, Obeys, Told, world
<1>2. CASE UninstallStop
  <2>1. CASE Works /\ StopJob
    BY <1>2, <2>1, StopTells DEF UninstallStop, Works, Continue, Obeys
  <2>2. CASE Fails
    BY <1>2, <2>2 DEF UninstallStop, Fails, Continue, Obeys
  <2>. QED BY <1>2, <2>1, <2>2 DEF UninstallStop
<1>3. CASE UninstallDisable
  BY <1>3 DEF UninstallDisable, Works, Fails, Continue, Obeys, Told
<1>4. CASE UninstallUnlink
  BY <1>4 DEF UninstallUnlink, Continue, Obeys, Told
<1>5. CASE UninstallLock
  BY <1>5 DEF UninstallLock, Report, Obeys, Told, world
<1>. QED BY <1>1, <1>2, <1>3, <1>4, <1>5 DEF Uninstall

LEMMA StartObeys == ASSUME JobOK, Obeys, Start PROVE Obeys'
<1>1. CASE StartCheck
  BY <1>1 DEF StartCheck, Ready, Begin, Report, Obeys, Told, world
<1>2. CASE StartUnit
  BY <1>2 DEF StartUnit, Works, Fails, Continue, Report, Obeys
<1>3. CASE StartLook
  BY <1>3 DEF StartLook, Report, Obeys, Told, world
<1>4. CASE StartLoad
  BY <1>4 DEF StartLoad, Works, Fails, Continue, Report, Obeys
<1>5. CASE StartLookBoot
  BY <1>5 DEF StartLookBoot, Continue, Report, Obeys, Told, world
<1>6. CASE StartKick
  BY <1>6 DEF StartKick, Works, Fails, Continue, Report, Obeys
<1>. QED BY <1>1, <1>2, <1>3, <1>4, <1>5, <1>6 DEF Start

LEMMA StopObeys == ASSUME JobOK, Obeys, Stop PROVE Obeys'
<1>1. CASE StopCheck
  BY <1>1 DEF StopCheck, Ready, Begin, Report, Obeys, Told, world
<1>2. CASE StopService
  <2>1. CASE Works /\ StopJob
    BY <1>2, <2>1, StopTells DEF StopService, Works, Continue, Report, Obeys
  <2>2. CASE Fails /\ UNCHANGED <<daemon, job>> /\ Report("failed")
    BY <1>2, <2>2 DEF StopService, Fails, Report, Obeys
  <2>. QED BY <1>2, <2>1, <2>2 DEF StopService
<1>3. CASE StopWaited
  BY <1>3 DEF StopWaited, Report, Obeys, Told, world
<1>. QED BY <1>1, <1>2, <1>3 DEF Stop

LEMMA StatusObeys == ASSUME Obeys, Status PROVE Obeys'
<1>1. CASE StatusService
  BY <1>1 DEF StatusService, Ready, Begin, Report, Obeys, Told, world
<1>2. CASE StatusLock
  BY <1>2 DEF StatusLock, Report, Obeys, Told, world
<1>. QED BY <1>1, <1>2 DEF Status

\* After a reboot only an installed job is loaded.
LEMMA RebootObeys == ASSUME Obeys, Reboot PROVE Obeys'
<1>1. op' = "idle" /\ report' = "none" /\ unit' = unit
  BY DEF Reboot, Ready
<1>2. unit \/ Told'
  BY DEF Reboot, NoJob, Told
<1>. QED BY <1>1, <1>2 DEF Obeys

LEMMA ObeysStep == ASSUME TypeOK, Obeys, [Next]_vars PROVE Obeys'
<1>1. JobOK
  BY TypeParts
<1>2. CASE Command
  BY <1>1, <1>2, InstallObeys, UninstallObeys, StartObeys, StopObeys, StatusObeys DEF Command
<1>3. CASE Launch
  BY <1>1, <1>3, LaunchObeys
<1>4. CASE Relaunch
  BY <1>1, <1>4, RelaunchObeys, SameWord DEF Relaunch, world
<1>5. CASE Reboot
  BY <1>5, RebootObeys
<1>6. CASE Next /\ ~Command /\ ~Launch /\ ~Relaunch /\ ~Reboot
  BY <1>1, <1>6, ManagerStep, FollowsObeys, SameWord
<1>7. CASE UNCHANGED vars
  BY <1>7 DEF vars, service, world, Obeys, Told
<1>. QED BY <1>2, <1>3, <1>4, <1>5, <1>6, <1>7

\* No job outlives its unit unless the manager has failed to stop it, and after a stop that
\* reported success the manager starts no daemon, whatever exits, crashes, is being
\* relaunched or logs in meanwhile.
THEOREM StopHolds == Spec => []ManagerObeys
<1>1. Init => Obeys
  BY DEF Init, Obeys, NoJob, Told
<1>2. Obeys => ManagerObeys
  BY DEF Obeys, Told, ManagerObeys
<1>3. Init /\ [][Next]_vars => []Obeys
  BY <1>1, InitType, TypeStep, ObeysStep, PTL
<1>. QED BY <1>2, <1>3, PTL DEF Spec
=============================================================================
