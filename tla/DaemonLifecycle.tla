----------------------------- MODULE DaemonLifecycle -----------------------------
(***************************************************************************)
(* The life of the WKS daemon: the commands that start, stop, inspect and   *)
(* clear it, and the daemon process itself, which share nothing but two     *)
(* files, daemon.lock and daemon.json, and a signal.  A command is a CLI    *)
(* process, so every command is split where another process can get in      *)
(* between: before each read and each write of a shared file, and before    *)
(* the SIGTERM.                                                             *)
(***************************************************************************)
EXTENDS Naturals, FiniteSets

CONSTANTS Pids,       \* process ids
          NoPid,      \* no process id; as the content of a file: no such file
          Clients,    \* terminals (or service managers, MCP servers) that run commands
          Commands,   \* the commands they run
          Faults      \* what may go wrong around them, besides a crash of the daemon

AllCommands == {"start", "foreground", "stop", "status", "clear", "service_clear"}
AllFaults   == {"ps", "reuse", "client"}

ASSUME ConstantsAssumption ==
    /\ NoPid \notin Pids
    /\ Commands \subseteq AllCommands
    /\ Faults \subseteq AllFaults

VARIABLES phase,    \* [Pids -> where that process is]
          fg,       \* the pids that run as `daemon start --blocking`
          term,     \* the daemons whose stop_flag a SIGTERM has set
          lock,     \* daemon.lock: the pid in it, or NoPid
          status,   \* daemon.json: what it says, of which pid, and is last_sync recent
          client,   \* [Clients -> the command in progress]
          answer    \* [Clients -> what the last command reported]

vars == <<phase, fg, term, lock, status, client, answer>>

-----------------------------------------------------------------------------
(* The two files *)

NoStatus    == [says |-> "nothing", pid |-> NoPid, fresh |-> FALSE]  \* no daemon.json
Stopped     == [says |-> "stopped", pid |-> NoPid, fresh |-> FALSE]
Running(p)  == [says |-> "running", pid |-> p, fresh |-> TRUE]
Repaired(p) == [says |-> "running", pid |-> p, fresh |-> FALSE]      \* last_sync: None

(* The processes.  "cli" is a foreground daemon before it has written its   *)
(* lock; "final" has left the loop; "unlock" and "bail" are in the finally  *)
(* block of run_foreground, with and without a handler; "other" is not ours.*)

Serves    == {"boot", "ready", "loop", "work"}
Handles   == {"ready", "loop", "work", "final", "unlock"}  \* SIGTERM handler installed
DaemonAt  == Serves \cup Handles \cup {"bail"}
AllPhases == DaemonAt \cup {"free", "cli", "other"}

Free == {p \in Pids : phase[p] = "free"}

\* Daemons nobody has told to stop: at work, or on their way to it.
Serving == {p \in Pids : phase[p] \in Serves /\ p \notin term}
\* Daemons that only finish what they are doing.
Leaving == {p \in Pids : phase[p] \in DaemonAt} \ Serving

Idle == [pc |-> "idle", pid |-> NoPid, fg |-> FALSE]

\* process_command: `ps` may fail, time out or be missing.
PsAnswers == IF "ps" \in Faults THEN BOOLEAN ELSE {TRUE}

\* Mutants: the status file alone decides; nobody asks whether the pid exists.
ActiveLockByStatus(self, psWorks) ==
    lock \in Pids /\ status.says = "running" /\ status.pid = lock /\ status.fresh
ActiveLockUnprobed(self, psWorks) ==
    \/ ActiveLockByStatus(self, psWorks)
    \/ lock \in Pids /\ psWorks /\ phase[lock] \in DaemonAt

\* active_wks_daemon_lock, as a process with pid self sees it.
ActiveLock(self, psWorks) ==
    LET pidExists   == lock \in Pids /\ (lock = self \/ phase[lock] # "free")
        isDaemon    == psWorks /\ (lock = self \/ phase[lock] \in DaemonAt \cup {"cli"})
        statusMatch == status.says = "running" /\ status.pid = lock /\ status.fresh
    IN  pidExists /\ (isDaemon \/ statusMatch)

-----------------------------------------------------------------------------
Init ==
    /\ phase = [p \in Pids |-> "free"]
    /\ fg = {}
    /\ term = {}
    /\ lock = NoPid
    /\ status = NoStatus
    /\ client = [c \in Clients |-> Idle]
    /\ answer = [c \in Clients |-> "none"]

Goto(c, pc) == client' = [client EXCEPT ![c].pc = pc]
Done(c, what) ==
    /\ client' = [client EXCEPT ![c] = Idle]
    /\ answer' = [answer EXCEPT ![c] = what]
Begin(c, pc, pid, inFg) ==
    /\ client' = [client EXCEPT ![c] = [pc |-> pc, pid |-> pid, fg |-> inFg]]
    /\ answer' = [answer EXCEPT ![c] = "none"]

MayRun(c, cmd) == cmd \in Commands /\ client[c].pc = "idle"

-----------------------------------------------------------------------------
(* `wksc daemon start`: Daemon.start, in the background *)

\* Mutant: start does not look at the lock.
StartCheckBlind(c) ==
    /\ MayRun(c, "start")
    /\ Begin(c, "unlink", NoPid, FALSE)
    /\ UNCHANGED <<phase, fg, term, lock, status>>

StartCheck(c) ==
    /\ MayRun(c, "start")
    /\ \E psWorks \in PsAnswers :
         IF ActiveLock(NoPid, psWorks)
           THEN Done(c, "refused")
           ELSE Begin(c, "unlink", NoPid, FALSE)
    /\ UNCHANGED <<phase, fg, term, lock, status>>

\* Mutant: the foreground daemon does not look at the lock.
ForegroundCheckBlind(c) ==
    /\ MayRun(c, "foreground")
    /\ \E p \in Free :
         /\ Begin(c, "unlink", p, TRUE)
         /\ phase' = [phase EXCEPT ![p] = "cli"]
         /\ fg' = fg \cup {p}
    /\ UNCHANGED <<term, lock, status>>

\* `wksc daemon start --blocking`: Daemon.run_foreground.  The command is the
\* daemon's own process p, so its pid exists while it looks at the lock.
ForegroundCheck(c) ==
    /\ MayRun(c, "foreground")
    /\ \E p \in Free, psWorks \in PsAnswers :
         IF ActiveLock(p, psWorks)
           THEN Done(c, "refused") /\ UNCHANGED <<phase, fg>>
           ELSE /\ Begin(c, "unlink", p, TRUE)
                /\ phase' = [phase EXCEPT ![p] = "cli"]
                /\ fg' = fg \cup {p}
    /\ UNCHANGED <<term, lock, status>>

StartUnlink(c) ==
    /\ client[c].pc = "unlink"
    /\ lock' = NoPid
    /\ Goto(c, IF client[c].fg THEN "enter" ELSE "spawn")
    /\ UNCHANGED <<phase, fg, term, status, answer>>

StartSpawn(c) ==
    /\ client[c].pc = "spawn"
    /\ \E p \in Free :
         /\ phase' = [phase EXCEPT ![p] = "boot"]
         /\ Begin(c, "lock", p, FALSE)
    /\ UNCHANGED <<fg, term, lock, status>>

StartLock(c) ==
    /\ client[c].pc = "lock"
    /\ lock' = client[c].pid
    /\ Goto(c, "announce")
    /\ UNCHANGED <<phase, fg, term, status, answer>>

\* The parent reports its child running, whatever the child has reported since.
StartAnnounce(c) ==
    /\ client[c].pc = "announce"
    /\ status' = Running(client[c].pid)
    /\ Done(c, "ok")
    /\ UNCHANGED <<phase, fg, term, lock>>

\* Mutant: the foreground daemon writes no lock.
ForegroundEnterUnlocked(c) ==
    /\ client[c].pc = "enter"
    /\ phase' = [phase EXCEPT ![client[c].pid] = "boot"]
    /\ Done(c, "none")
    /\ UNCHANGED <<fg, term, lock, status>>

\* The foreground daemon writes its own pid and becomes the daemon.
ForegroundEnter(c) ==
    /\ client[c].pc = "enter"
    /\ lock' = client[c].pid
    /\ phase' = [phase EXCEPT ![client[c].pid] = "boot"]
    /\ Done(c, "none")
    /\ UNCHANGED <<fg, term, status>>

Start(c) == \/ StartCheck(c) \/ StartUnlink(c) \/ StartSpawn(c)
            \/ StartLock(c) \/ StartAnnounce(c)
Foreground(c) == ForegroundCheck(c) \/ ForegroundEnter(c)

-----------------------------------------------------------------------------
(* `wksc daemon stop`: Daemon.stop *)

\* Mutants: the missing lock goes unnoticed; the pid comes from daemon.json.
StopReadUnchecked(c) ==
    /\ MayRun(c, "stop")
    /\ Begin(c, "kill", lock, FALSE)
    /\ UNCHANGED <<phase, fg, term, lock, status>>
StopReadStatus(c) ==
    /\ MayRun(c, "stop")
    /\ Begin(c, IF status.pid = NoPid THEN "stop_status" ELSE "kill", status.pid, FALSE)
    /\ UNCHANGED <<phase, fg, term, lock, status>>

StopRead(c) ==
    /\ MayRun(c, "stop")
    /\ Begin(c, IF lock = NoPid THEN "stop_status" ELSE "kill", lock, FALSE)
    /\ UNCHANGED <<phase, fg, term, lock, status>>

\* os.kill(pid, SIGTERM), whoever has the pid now.  Until its handler is
\* installed a daemon dies of it, and so does any other process.
StopKill(c) ==
    LET p == client[c].pid IN
    /\ client[c].pc = "kill"
    /\ IF phase[p] \in Handles
         THEN /\ term' = term \cup {p}
              /\ UNCHANGED <<phase, fg>>
         ELSE /\ phase' = [phase EXCEPT ![p] = "free"]
              /\ fg' = fg \ {p}
              /\ UNCHANGED term
    /\ client' = [d \in Clients |->
                    IF d = c THEN [client[d] EXCEPT !.pc = "stop_status"]
                    ELSE IF client[d].fg /\ client[d].pid = p /\ phase[p] = "cli"
                    THEN Idle ELSE client[d]]
    /\ UNCHANGED <<lock, status, answer>>

StopStatus(c) ==
    /\ client[c].pc = "stop_status"
    /\ status' = Stopped
    /\ Goto(c, "stop_unlink")
    /\ UNCHANGED <<phase, fg, term, lock, answer>>

StopUnlink(c) ==
    /\ client[c].pc = "stop_unlink"
    /\ lock' = NoPid
    /\ Done(c, "ok")
    /\ UNCHANGED <<phase, fg, term, status>>

Stop(c) == StopRead(c) \/ StopKill(c) \/ StopStatus(c) \/ StopUnlink(c)

-----------------------------------------------------------------------------
(* `wksc daemon status`: reads, and corrects the status file it reads *)

StatusCheck(c) ==
    /\ MayRun(c, "status")
    /\ \E psWorks \in PsAnswers :
         IF ActiveLock(NoPid, psWorks)
           THEN Begin(c, "read_status", lock, FALSE)
           ELSE Begin(c, "correct_status", NoPid, FALSE)
    /\ UNCHANGED <<phase, fg, term, lock, status>>

StatusRead(c) ==
    /\ client[c].pc = "read_status"
    /\ IF status = NoStatus
         THEN Goto(c, "repair_status") /\ UNCHANGED answer
         ELSE Done(c, "ok")
    /\ UNCHANGED <<phase, fg, term, lock, status>>

StatusRepair(c) ==
    /\ client[c].pc = "repair_status"
    /\ status' = Repaired(client[c].pid)
    /\ Done(c, "ok")
    /\ UNCHANGED <<phase, fg, term, lock>>

StatusCorrect(c) ==
    /\ client[c].pc = "correct_status"
    /\ status' = Stopped
    /\ Done(c, "ok")
    /\ UNCHANGED <<phase, fg, term, lock>>

Status(c) == StatusCheck(c) \/ StatusRead(c) \/ StatusRepair(c) \/ StatusCorrect(c)

-----------------------------------------------------------------------------
(* `wksc daemon clear` refuses while the pid in the lock exists;            *)
(* `wksc service clear` asks nothing.                                       *)

\* Mutant: clear removes the lock whoever holds it.
ClearCheckBlind(c) ==
    /\ MayRun(c, "clear")
    /\ Begin(c, "clear_unlink", NoPid, FALSE)
    /\ UNCHANGED <<phase, fg, term, lock, status>>

ClearCheck(c) ==
    /\ MayRun(c, "clear")
    /\ IF lock \in Pids /\ phase[lock] # "free"
         THEN Done(c, "refused")
         ELSE Begin(c, "clear_unlink", NoPid, FALSE)
    /\ UNCHANGED <<phase, fg, term, lock, status>>

ClearUnlink(c) ==
    /\ client[c].pc = "clear_unlink"
    /\ lock' = NoPid
    /\ Goto(c, "clear_status")
    /\ UNCHANGED <<phase, fg, term, status, answer>>

ClearStatus(c) ==
    /\ client[c].pc = "clear_status"
    /\ status' = Stopped
    /\ Done(c, "ok")
    /\ UNCHANGED <<phase, fg, term, lock>>

Clear(c) == ClearCheck(c) \/ ClearUnlink(c) \/ ClearStatus(c)

ServiceClearStatus(c) ==
    /\ MayRun(c, "service_clear")
    /\ status' = NoStatus
    /\ Begin(c, "service_clear_lock", NoPid, FALSE)
    /\ UNCHANGED <<phase, fg, term, lock>>

ServiceClearLock(c) ==
    /\ client[c].pc = "service_clear_lock"
    /\ lock' = NoPid
    /\ Done(c, "ok")
    /\ UNCHANGED <<phase, fg, term, status>>

ServiceClear(c) == ServiceClearStatus(c) \/ ServiceClearLock(c)

-----------------------------------------------------------------------------
(* The daemon process: _child_main *)

Move(p, to) == phase' = [phase EXCEPT ![p] = to]
Gone(p) ==
    /\ Move(p, "free")
    /\ fg' = fg \ {p}
    /\ term' = term \ {p}

\* Returning from _child_main ends a background daemon; run_foreground has its
\* finally block left.
Return(p, to) ==
    IF p \in fg THEN Move(p, to) /\ UNCHANGED <<fg, term>> ELSE Gone(p)

\* The database answers; handler installed, observers started.
Boot(p) ==
    /\ phase[p] = "boot"
    /\ Move(p, "ready")
    /\ UNCHANGED <<fg, term, lock, status, client, answer>>

BootFails(p) ==
    /\ phase[p] = "boot"
    /\ status' = Stopped
    /\ Return(p, "bail")
    /\ UNCHANGED <<lock, client, answer>>

Announce(p) ==
    /\ phase[p] = "ready"
    /\ status' = Running(p)
    /\ Move(p, "loop")
    /\ UNCHANGED <<fg, term, lock, client, answer>>

\* Mutant: the loop does not look at stop_flag.
LoopTestForever(p) ==
    /\ phase[p] = "loop"
    /\ Move(p, "work")
    /\ UNCHANGED <<fg, term, lock, status, client, answer>>

\* while not stop_flag
LoopTest(p) ==
    /\ phase[p] = "loop"
    /\ Move(p, IF p \in term THEN "final" ELSE "work")
    /\ UNCHANGED <<fg, term, lock, status, client, answer>>

\* Mutant: a round of the loop does not write the status.
WorkSilent(p) ==
    /\ phase[p] = "work"
    /\ Move(p, "loop")
    /\ UNCHANGED <<fg, term, lock, status, client, answer>>

\* process_events(); write_status(running=True); sleep
Work(p) ==
    /\ phase[p] = "work"
    /\ status' = Running(p)
    /\ Move(p, "loop")
    /\ UNCHANGED <<fg, term, lock, client, answer>>

\* ... or either of them raises.
WorkRaises(p) ==
    /\ phase[p] = "work"
    /\ Move(p, "final")
    /\ UNCHANGED <<fg, term, lock, status, client, answer>>

Final(p) ==
    /\ phase[p] = "final"
    /\ status' = Stopped
    /\ Return(p, "unlock")
    /\ UNCHANGED <<lock, client, answer>>

\* The finally block of run_foreground removes the lock, whoever wrote it.
ForegroundUnlock(p) ==
    /\ phase[p] \in {"unlock", "bail"}
    /\ lock' = NoPid
    /\ Gone(p)
    /\ UNCHANGED <<status, client, answer>>

DaemonStep(p) ==
    \/ Boot(p) \/ BootFails(p) \/ Announce(p) \/ LoopTest(p) \/ Work(p)
    \/ WorkRaises(p) \/ Final(p) \/ ForegroundUnlock(p)

-----------------------------------------------------------------------------
(* What happens to them *)

\* SIGKILL, the OOM killer, a power failure: nothing is cleaned up.
Crash(p) ==
    /\ phase[p] \in DaemonAt
    /\ Gone(p)
    /\ UNCHANGED <<lock, status, client, answer>>

\* Ctrl-C at a foreground daemon: KeyboardInterrupt runs the finally blocks
\* around the point it has reached.
Interrupted(p) ==
    /\ p \in fg
    /\ phase[p] \in Serves
    /\ Move(p, CASE phase[p] = "boot"  -> "bail"
                 [] phase[p] = "ready" -> "unlock"
                 [] OTHER              -> "final")
    /\ UNCHANGED <<fg, term, lock, status, client, answer>>

\* A command is interrupted between two of its steps.
ClientDies(c) ==
    /\ "client" \in Faults
    /\ client[c].pc # "idle"
    /\ client' = [client EXCEPT ![c] = Idle]
    /\ IF client[c].fg
         THEN /\ Move(client[c].pid, "free")
              /\ fg' = fg \ {client[c].pid}
         ELSE UNCHANGED <<phase, fg>>
    /\ UNCHANGED <<term, lock, status, answer>>

\* The system gives a free pid to a process that has nothing to do with WKS.
PidReused(p) ==
    /\ "reuse" \in Faults
    /\ phase[p] = "free"
    /\ Move(p, "other")
    /\ UNCHANGED <<fg, term, lock, status, client, answer>>

StrangerExits(p) ==
    /\ phase[p] = "other"
    /\ Move(p, "free")
    /\ UNCHANGED <<fg, term, lock, status, client, answer>>

\* max(300 s, three sync intervals) pass without a write of daemon.json.
StatusAges ==
    /\ status.fresh
    /\ status' = [status EXCEPT !.fresh = FALSE]
    /\ UNCHANGED <<phase, fg, term, lock, client, answer>>

-----------------------------------------------------------------------------
Command(c) == Start(c) \/ Foreground(c) \/ Stop(c) \/ Status(c) \/ Clear(c) \/ ServiceClear(c)

Next ==
    \/ \E c \in Clients : Command(c) \/ ClientDies(c)
    \/ \E p \in Pids : \/ DaemonStep(p) \/ Crash(p) \/ Interrupted(p)
                        \/ PidReused(p) \/ StrangerExits(p)
    \/ StatusAges

Safety == Init /\ [][Next]_vars

\* A process that can run does run; nobody has to type a command, crash, or
\* grow old.
Fairness ==
    /\ \A p \in Pids : WF_vars(DaemonStep(p))
    /\ \A c \in Clients : WF_vars(client[c].pc # "idle" /\ Command(c))

Spec == Safety /\ Fairness

-----------------------------------------------------------------------------
(* Types *)

PCs == {"idle", "unlink", "spawn", "lock", "announce", "enter",
        "kill", "stop_status", "stop_unlink",
        "read_status", "repair_status", "correct_status",
        "clear_unlink", "clear_status", "service_clear_lock"}

TypeOK ==
    /\ phase \in [Pids -> AllPhases]
    /\ fg \subseteq Pids
    /\ term \subseteq Pids
    /\ lock \in Pids \cup {NoPid}
    /\ status \in [says : {"nothing", "stopped", "running"},
                   pid : Pids \cup {NoPid}, fresh : BOOLEAN]
    /\ client \in [Clients -> [pc : PCs, pid : Pids \cup {NoPid}, fg : BOOLEAN]]
    /\ \A c \in Clients :
         client[c].fg \/ client[c].pc \in {"lock", "announce", "enter", "kill"}
           => client[c].pid \in Pids
    /\ answer \in [Clients -> {"none", "ok", "refused"}]

-----------------------------------------------------------------------------
(* What one operator at a time may rely on *)

\* The lock always names the daemon that serves, but for the moment between
\* the fork in Daemon.start and the write of its pid: so stop reaches it, a
\* second start sees it, clear spares it.
LockNamesDaemon ==
    \A p \in Serving :
      lock = p \/ \E c \in Clients : client[c].pc = "lock" /\ client[c].pid = p

\* "second start must fail when daemon already running".
OneDaemon == \A p, q \in Serving : p = q

\* When `daemon stop` reports success, every daemon has been told to stop.
StopLeavesNone ==
    [][\A c \in Clients :
         client[c].pc = "stop_unlink" /\ client'[c].pc = "idle" => Serving' = {}]_vars

\* A start or a clear is refused only on account of a living process, other
\* than the one that asks, which has the pid in the lock: what a crashed daemon
\* left in the two files blocks nobody.
RefusedForAProcess ==
    [][\A c \in Clients :
         answer[c] # "refused" /\ answer'[c] = "refused"
            => lock \in Pids /\ phase[lock] \in DaemonAt \cup {"other"}]_vars

\* A daemon that has been told to stop, or has failed, exits.
LeavingDaemonGoes == \A p \in Pids : p \in Leaving ~> p \notin Leaving

\* While one daemon serves alone and no command runs, daemon.json ends up naming
\* it, whatever earlier daemons and commands have written there.
StatusConverges ==
    \A p \in Pids :
      <>[]({q \in Pids : phase[q] \in DaemonAt} = {p} /\ p \in Serving
             /\ \A c \in Clients : client[c].pc = "idle")
        => <>[](status.says = "running" /\ status.pid = p)

\* The promise: one daemon serves at a time, and dismissed daemons go.
Watcher == INSTANCE SingleWatcher WITH serving <- Serving, leaving <- Leaving
ImplementsSingleWatcher == Watcher!Spec
ImplementsSingleWatcherSafety == Watcher!Safety

=============================================================================
