-------------------------------- MODULE Service --------------------------------
(***************************************************************************)
(* The daemon as a service of systemd or launchd.  `wksc service install`   *)
(* writes a unit file (a plist) that makes the manager run                  *)
(* `wksc daemon start --blocking` and run it again when it exits; the other *)
(* commands talk to the manager, which is not ours and may fail.  The same  *)
(* terminal may give daemon commands, so the manager and the operator are   *)
(* two clients of DaemonLifecycle.                                          *)
(*                                                                         *)
(* Source: src/wks/api/service/.                                            *)
(***************************************************************************)
EXTENDS Naturals, FiniteSets

CONSTANTS Pids, NoPid,
          Terminal,   \* where commands are given
          Manager,    \* systemd --user, or launchd
          Manual,     \* the daemon commands given at the terminal
          Setups,     \* [system, keeps, atLoad]: platform and settings of the unit
          MaxMoves    \* bound: failures of the manager, reboots, daemon commands by hand

ASSUME ServiceAssumption ==
    /\ Terminal # Manager /\ NoPid \notin Pids
    /\ Manual \subseteq {"start", "stop", "status", "clear"}
    /\ Setups \subseteq [system : {"linux", "darwin"}, keeps : BOOLEAN, atLoad : BOOLEAN]
    /\ \A s \in Setups : s.system = "linux" => s.keeps
    /\ MaxMoves \in Nat

VARIABLES phase, fg, term, lock, status, client, answer,   \* as in DaemonLifecycle
          setup,    \* the platform and the settings
          unit,     \* does the unit file exist?
          enabled,  \* systemd: is the unit wanted at login?
          job,      \* the manager's job: is it loaded; off, starting, on, stopping or
                    \* exited; its process
          op,       \* the service command in progress
          report,   \* what the last one has said
          moves,    \* failures, reboots and daemon commands so far
          missed    \* auxiliary: the manager has not carried out a request

Clients == {Terminal, Manager}
D == INSTANCE DaemonLifecycle WITH Commands <- Manual \cup {"foreground"}, Faults <- {}

world   == <<setup, unit, enabled, moves, missed>>
daemon  == <<phase, fg, term, lock, status, client, answer>>
service == <<world, job, op, report>>
vars    == <<daemon, service>>

Linux  == setup.system = "linux"
NoJob  == [loaded |-> FALSE, at |-> "off", pid |-> NoPid]

Init ==
    /\ D!Init
    /\ setup \in Setups
    /\ unit = FALSE /\ enabled = FALSE
    /\ job = NoJob
    /\ op = "idle" /\ report = "none"
    /\ moves = 0 /\ missed = FALSE

\* A free terminal.
Ready == op = "idle" /\ client[Terminal].pc = "idle"
Begin(where)    == op' = where /\ report' = "none"
Continue(where) == op' = where /\ UNCHANGED report
Report(what)    == op' = "idle" /\ report' = what

Move  == moves < MaxMoves /\ moves' = moves + 1
Fails == Move /\ missed' = TRUE
Works == UNCHANGED <<moves, missed>>

-----------------------------------------------------------------------------
(* The manager *)

\* Mutant: the unit does not say Restart=.
KeepsNot == FALSE

\* Restart=always in the unit, KeepAlive in the plist.
Keeps == setup.keeps

\* launchd starts a job as it loads it if the plist says so.
Loaded == [loaded |-> TRUE, at |-> IF setup.atLoad \/ setup.keeps THEN "starting" ELSE "off",
           pid |-> NoPid]

\* The manager notices the exit of its process before the pid is used again.
JobFollows ==
    job' = IF job.pid # NoPid /\ phase'[job.pid] = "free"
             THEN [job EXCEPT !.at = "exited", !.pid = NoPid] ELSE job

\* ExecStart, ProgramArguments: `wksc daemon start --blocking`.
Launch ==
    /\ job.at = "starting"
    /\ D!ForegroundCheck(Manager)
    /\ job' = [job EXCEPT !.at = IF answer'[Manager] = "refused" THEN "exited" ELSE "on",
                          !.pid = client'[Manager].pid]
    /\ UNCHANGED <<world, op, report>>

\* What follows an exit: systemd removes the PIDFile, which is daemon.lock, and both
\* run the service again after a while.
Relaunch ==
    /\ job.at = "exited"
    /\ job' = [job EXCEPT !.at = IF job.loaded /\ Keeps THEN "starting" ELSE "off"]
    /\ lock' = IF Linux THEN NoPid ELSE lock
    /\ UNCHANGED <<phase, fg, term, status, client, answer, world, op, report>>

\* The process is gone; a foreground daemon on its way into the loop takes the
\* command with it.
Cut(p) ==
    /\ phase' = [phase EXCEPT ![p] = "free"]
    /\ fg' = fg \ {p} /\ term' = term \ {p}
    /\ client' = IF phase[p] = "cli" THEN [client EXCEPT ![Manager] = D!Idle] ELSE client

\* SIGTERM, and the job is not to run any more.
StopJob ==
    /\ IF job.pid # NoPid
         THEN IF phase[job.pid] \in D!Handles
           THEN term' = term \cup {job.pid} /\ UNCHANGED <<phase, fg, client>>
           ELSE Cut(job.pid)
         ELSE UNCHANGED <<phase, fg, term, client>>
    /\ job' = [job EXCEPT !.loaded = FALSE,
                          !.at = IF job.pid = NoPid
                                   THEN IF @ = "starting" THEN "off" ELSE @
                                   ELSE IF phase'[job.pid] = "free" THEN "exited" ELSE "stopping",
                          !.pid = IF job.pid # NoPid /\ phase'[job.pid] = "free" THEN NoPid ELSE @]
    /\ UNCHANGED <<lock, status, answer>>

\* launchd knows the label until the process has gone.
Known == job.loaded \/ job.at # "off"
\* What get_service_status sees: a process, or one that may just be there.
Seen == CASE job.at = "on" -> {TRUE} [] job.at = "starting" -> BOOLEAN [] OTHER -> {FALSE}

-----------------------------------------------------------------------------
(* install: the file first, then the manager *)

InstallWrite ==
    /\ Ready
    /\ unit' = TRUE
    /\ Begin(IF Linux THEN "reload" ELSE "print")
    /\ UNCHANGED <<daemon, setup, enabled, job, moves, missed>>

\* systemctl daemon-reload, systemctl enable
InstallReload ==
    /\ op = "reload"
    /\ \/ Fails /\ Report("failed")
       \/ Works /\ (IF setup.atLoad THEN Continue("enable") ELSE Report("installed"))
    /\ UNCHANGED <<daemon, setup, unit, enabled, job>>

InstallEnable ==
    /\ op = "enable"
    /\ \/ Fails /\ Report("failed") /\ UNCHANGED enabled
       \/ Works /\ Report("installed") /\ enabled' = TRUE
    /\ UNCHANGED <<daemon, setup, unit, job>>

\* launchctl print: an error of its own counts as "not loaded".
InstallPrint ==
    /\ op = "print"
    /\ \/ Works /\ (IF Known THEN Report("failed") ELSE Continue("bootstrap"))
       \/ Fails /\ Continue("bootstrap")
    /\ UNCHANGED <<daemon, setup, unit, enabled, job>>

InstallBootstrap ==
    /\ op = "bootstrap"
    /\ \/ ~Known /\ Works /\ job' = Loaded /\ Report("installed")
       \/ Known /\ Works /\ UNCHANGED job /\ Report("failed")
       \/ Fails /\ UNCHANGED job /\ Report("failed")
    /\ UNCHANGED <<daemon, setup, unit, enabled>>

Install == InstallWrite \/ InstallReload \/ InstallEnable \/ InstallPrint \/ InstallBootstrap

-----------------------------------------------------------------------------
(* uninstall: whatever the manager says, the file and the lock go *)

UninstallCheck ==
    /\ Ready
    /\ IF unit THEN Begin("bootout") ELSE Report("failed")
    /\ UNCHANGED <<daemon, world, job>>

\* systemctl stop waits until the process has gone.
UninstallStop ==
    /\ op = "bootout"
    /\ \/ Works /\ StopJob
       \/ Fails /\ UNCHANGED <<daemon, job>>
    /\ Continue(IF Linux THEN "disable" ELSE "unlink")
    /\ UNCHANGED <<setup, unit, enabled>>

UninstallDisable ==
    /\ op = "disable" /\ (job.loaded \/ job.at \notin {"stopping", "exited"})
    /\ \/ Works /\ enabled' = FALSE
       \/ Fails /\ UNCHANGED enabled
    /\ Continue("unlink")
    /\ UNCHANGED <<daemon, setup, unit, job>>

UninstallUnlink ==
    /\ op = "unlink"
    /\ unit' = FALSE
    /\ Continue("rmlock")
    /\ UNCHANGED <<daemon, setup, enabled, job, moves, missed>>

\* remove_daemon_lock, whoever has written it.
UninstallLock ==
    /\ op = "rmlock"
    /\ lock' = NoPid
    /\ Report("uninstalled")
    /\ UNCHANGED <<phase, fg, term, status, client, answer, world, job>>

Uninstall ==
    UninstallCheck \/ UninstallStop \/ UninstallDisable \/ UninstallUnlink \/ UninstallLock

-----------------------------------------------------------------------------
(* start *)

StartCheck ==
    /\ Ready
    /\ IF unit THEN Begin(IF Linux THEN "start" ELSE "load") ELSE Report("failed")
    /\ UNCHANGED <<daemon, world, job>>

\* systemctl start: nothing for a unit that runs.
StartUnit ==
    /\ op = "start" /\ job.at # "stopping"
    /\ \/ /\ Works
          /\ job' = IF job.at = "on" THEN job ELSE [job EXCEPT !.loaded = TRUE, !.at = "starting"]
          /\ Continue("look")
       \/ Fails /\ UNCHANGED job /\ Report("failed")
    /\ UNCHANGED <<daemon, setup, unit, enabled>>

\* Half a second later.  start_via_service wants a label, which only launchd's
\* result has: on Linux a KeyError is the report of a success.
StartLook ==
    /\ op = "look"
    /\ \E running \in Seen :
         Report(CASE running /\ Linux -> "keyerror" [] running -> "running" [] OTHER -> "failed")
    /\ UNCHANGED <<daemon, world, job>>

\* launchctl print, and bootstrap for a label that is not loaded.
StartLoad ==
    /\ op = "load"
    /\ \/ Known /\ Works /\ UNCHANGED job /\ Continue("kick")
       \/ ~Known /\ Works /\ job' = Loaded /\ Continue("look_boot")
       \/ /\ Fails /\ UNCHANGED job
          /\ \E running \in Seen : IF running THEN Report("running") ELSE Continue("kick")
    /\ UNCHANGED <<daemon, setup, unit, enabled>>

StartLookBoot ==
    /\ op = "look_boot"
    /\ \E running \in Seen : IF running THEN Report("running") ELSE Continue("kick")
    /\ UNCHANGED <<daemon, world, job>>

\* launchctl kickstart -k kills the process there is and starts another.
StartKick ==
    /\ op = "kick"
    /\ \/ /\ job.loaded /\ Works /\ Continue("look")
          /\ job' = [job EXCEPT !.at = "starting", !.pid = NoPid]
          /\ IF job.pid # NoPid THEN Cut(job.pid) ELSE UNCHANGED <<phase, fg, term, client>>
       \/ /\ ~job.loaded /\ Works
          /\ Report("failed") /\ UNCHANGED <<phase, fg, term, client, job>>
       \/ /\ Fails
          /\ Report("failed") /\ UNCHANGED <<phase, fg, term, client, job>>
    /\ UNCHANGED <<lock, status, answer, setup, unit, enabled>>

Start == StartCheck \/ StartUnit \/ StartLook \/ StartLoad \/ StartLookBoot \/ StartKick

-----------------------------------------------------------------------------
(* stop *)

StopCheck ==
    /\ Ready
    /\ IF unit THEN Begin("stop") ELSE Report("failed")
    /\ UNCHANGED <<daemon, world, job>>

\* Mutant: an error of the manager is taken for "not loaded".
StopServiceLenient ==
    /\ op = "stop"
    /\ \/ Works /\ StopJob
       \/ Fails /\ UNCHANGED <<daemon, job>>
    /\ IF Linux THEN Continue("stopping") ELSE Report("stopped")
    /\ UNCHANGED <<setup, unit, enabled>>

\* systemctl stop, launchctl bootout; what is not loaded is stopped already.
StopService ==
    /\ op = "stop"
    /\ \/ Works /\ StopJob /\ (IF Linux THEN Continue("stopping") ELSE Report("stopped"))
       \/ Fails /\ UNCHANGED <<daemon, job>> /\ Report("failed")
    /\ UNCHANGED <<setup, unit, enabled>>

\* systemctl stop returns when the process has gone.
StopWaited ==
    /\ op = "stopping" /\ job.at \notin {"stopping", "exited"}
    /\ Report("stopped")
    /\ UNCHANGED <<daemon, world, job>>

Stop == StopCheck \/ StopService \/ StopWaited

-----------------------------------------------------------------------------
(* status: the manager's process if it has one, otherwise the lock *)

StatusService ==
    /\ Ready
    /\ \E running \in (IF unit THEN Seen ELSE {FALSE}) :
         IF running THEN Report("service runs") ELSE Begin("lock")
    /\ UNCHANGED <<daemon, world, job>>

StatusLock ==
    /\ op = "lock"
    /\ Report(IF D!ActiveLock(NoPid, TRUE) THEN "daemon runs" ELSE "nothing runs")
    /\ UNCHANGED <<daemon, world, job>>

Status == StatusService \/ StatusLock

-----------------------------------------------------------------------------
(* The rest of the world *)

\* A login: launchd loads the plists there are, systemd starts what is enabled.
Reboot ==
    /\ Ready /\ Move
    /\ phase' = [p \in Pids |-> "free"] /\ fg' = {} /\ term' = {}
    /\ client' = [c \in Clients |-> D!Idle]
    /\ job' = IF Linux THEN IF unit /\ enabled THEN [NoJob EXCEPT !.loaded = TRUE, !.at = "starting"]
                                               ELSE NoJob
              ELSE IF unit THEN Loaded ELSE NoJob
    /\ report' = "none"
    /\ UNCHANGED <<lock, status, answer, setup, unit, enabled, op, missed>>

\* The commands of DaemonLifecycle, and the foreground daemon of the manager.  Pids
\* are not reused by strangers here, so the age of daemon.json plays no part.
ByHand   == D!Start(Terminal) \/ D!Stop(Terminal) \/ D!Status(Terminal) \/ D!Clear(Terminal)
Launches == D!StartUnlink(Manager) \/ D!ForegroundEnter(Manager)
Goes(step) == step /\ JobFollows /\ UNCHANGED <<setup, unit, enabled, missed, op, report>>
Runs(step) == Goes(step) /\ UNCHANGED moves
Continues  == client[Terminal].pc # "idle" /\ Runs(ByHand)

Command == Install \/ Uninstall \/ Start \/ Stop \/ Status

Next ==
    \/ Command
    \/ Ready /\ Move /\ Goes(ByHand)
    \/ Continues
    \/ Launch \/ Relaunch \/ Runs(Launches)
    \/ \E p \in Pids : Runs(D!DaemonStep(p) \/ D!Crash(p))
    \/ Reboot

\* Commands that have begun go on, the manager runs what it has to, the daemon
\* steps.  Nobody owes a command, a failure or a reboot.  Pids vary: the process that
\* is launched may get the pid of a stale lock, and be refused for it, but not every
\* time.
Fairness ==
    /\ WF_vars(op # "idle" /\ Command)
    /\ WF_vars(Continues)
    /\ WF_vars(Launch \/ Relaunch \/ Runs(Launches))
    /\ SF_vars(Launch /\ job'.at = "on")
    /\ \A p \in Pids : WF_vars(Runs(D!DaemonStep(p)))

Spec == Init /\ [][Next]_vars /\ Fairness

-----------------------------------------------------------------------------
Steps == {"idle", "reload", "enable", "print", "bootstrap", "bootout", "disable", "unlink",
          "rmlock", "start", "look", "load", "look_boot", "kick", "stop", "stopping", "lock"}
Reports == {"none", "installed", "uninstalled", "running", "keyerror", "stopped", "failed",
            "service runs", "daemon runs", "nothing runs"}

\* Types.  A job has a process exactly while it is on or is being stopped, and that
\* process exists: the manager never signals a pid that has been given up.
TypeOK ==
    /\ D!TypeOK
    /\ setup \in Setups /\ unit \in BOOLEAN /\ enabled \in BOOLEAN /\ missed \in BOOLEAN
    /\ job \in [loaded : BOOLEAN, at : {"off", "starting", "on", "stopping", "exited"},
                pid : Pids \cup {NoPid}]
    /\ job.pid # NoPid <=> job.at \in {"on", "stopping"}
    /\ job.pid # NoPid => phase[job.pid] # "free"
    /\ op \in Steps /\ report \in Reports
    /\ moves \in 0 .. MaxMoves

\* The manager does what it was told last, whatever exits, crashes or is still being
\* relaunched: no job outlives its unit file, with which every further `wksc service`
\* command would refuse to touch it (unless the manager has failed to stop it, which
\* uninstall does not look at); and after a `service stop` that reported success it
\* starts no daemon.
ManagerObeys ==
    /\ missed \/ unit \/ (~job.loaded /\ job.at # "on")
    /\ report = "stopped" => ~job.loaded /\ job.at \notin {"starting", "on"}

\* The service comes back.  As long as the manager is to keep it and no daemon runs
\* beside it, it is launched again and again and never refused for good: not for
\* the lock and the status that a crashed daemon has left, nor for what
\* `daemon stop` and `daemon clear` do to them in the meantime.
Alone == \A p \in Pids : phase[p] \in D!DaemonAt => p = job.pid
ServiceComesBack ==
    <>[](job.loaded /\ setup.keeps /\ Alone) => []<>(job.at = "on")

\* Every service command returns, the ones too that wait for the process to go.
CommandsReturn == op # "idle" ~> op = "idle"
=============================================================================
