-------------------------- MODULE DaemonLifecycleProofs --------------------------
(***************************************************************************)
(* What DaemonLifecycle guarantees for every set of process ids.            *)
(***************************************************************************)
EXTENDS DaemonLifecycle, TLAPS

\* The conditions under which the lock works: commands run one after another,
\* to their end, in the background; `ps` answers; nobody uses `service clear`.
OneOperator ==
    /\ \A c, d \in Clients : c = d
    /\ Commands \cap {"foreground", "service_clear"} = {}
    /\ Faults \cap {"ps", "client"} = {}

-----------------------------------------------------------------------------
(* Type correctness: every step of every command and of the daemon *)

LEMMA InitType == Init => TypeOK
  BY ConstantsAssumption DEF Init, TypeOK, Idle, NoStatus, PCs, AllPhases

\* What the bookkeeping of the commands does to the two variables it touches.
ClientsOK ==
    /\ client \in [Clients -> [pc : PCs, pid : Pids \cup {NoPid}, fg : BOOLEAN]]
    /\ \A c \in Clients :
         client[c].fg \/ client[c].pc \in {"lock", "announce", "enter", "kill"}
           => client[c].pid \in Pids
    /\ answer \in [Clients -> {"none", "ok", "refused"}]

LEMMA DoneType ==
  ASSUME TypeOK, NEW c \in Clients, NEW what \in {"none", "ok", "refused"}, Done(c, what)
  PROVE  ClientsOK'
  BY DEF TypeOK, ClientsOK, Done, Idle, PCs

LEMMA BeginType ==
  ASSUME TypeOK, NEW c \in Clients, NEW pc \in PCs, NEW pid \in Pids \cup {NoPid},
         NEW inFg \in BOOLEAN, Begin(c, pc, pid, inFg),
         inFg \/ pc \in {"lock", "announce", "enter", "kill"} => pid \in Pids
  PROVE  ClientsOK'
  BY DEF TypeOK, ClientsOK, Begin

LEMMA StartType == ASSUME TypeOK, NEW c \in Clients, Start(c) PROVE TypeOK'
<1>1. CASE StartCheck(c)
  <2>1. Done(c, "refused") \/ Begin(c, "unlink", NoPid, FALSE)
    BY <1>1 DEF StartCheck
  <2>2. ClientsOK'
    BY <2>1, DoneType, BeginType DEF PCs
  <2>. QED BY <1>1, <2>2 DEF StartCheck, TypeOK, ClientsOK
<1>2. CASE StartUnlink(c)
  BY <1>2 DEF TypeOK, PCs, StartUnlink, Goto
<1>3. CASE StartSpawn(c)
  BY <1>3 DEF TypeOK, AllPhases, DaemonAt, Handles, Serves, Move, PCs, StartSpawn, Begin, Free
<1>4. CASE StartLock(c)
  BY <1>4 DEF TypeOK, PCs, StartLock, Goto
<1>5. CASE StartAnnounce(c)
  BY <1>5 DEF TypeOK, PCs, StartAnnounce, Done, Idle, Running
<1>. QED BY <1>1, <1>2, <1>3, <1>4, <1>5 DEF Start

LEMMA ForegroundType == ASSUME TypeOK, NEW c \in Clients, Foreground(c) PROVE TypeOK'
<1>1. CASE ForegroundCheck(c)
  <2>1. PICK p \in Free :
          \/ Done(c, "refused") /\ UNCHANGED <<phase, fg>>
          \/ /\ Begin(c, "unlink", p, TRUE)
             /\ phase' = [phase EXCEPT ![p] = "cli"]
             /\ fg' = fg \cup {p}
    BY <1>1 DEF ForegroundCheck
  <2>2. ClientsOK'
    BY <2>1, DoneType, BeginType DEF PCs, Free
  <2>3. phase' \in [Pids -> AllPhases] /\ fg' \subseteq Pids
    BY <2>1 DEF TypeOK, AllPhases, Free
  <2>. QED BY <1>1, <2>2, <2>3 DEF ForegroundCheck, TypeOK, ClientsOK
<1>2. CASE ForegroundEnter(c)
  BY <1>2 DEF TypeOK, AllPhases, DaemonAt, Handles, Serves, Move, PCs, ForegroundEnter, Done, Idle
<1>. QED BY <1>1, <1>2 DEF Foreground

LEMMA StopType == ASSUME TypeOK, NEW c \in Clients, Stop(c) PROVE TypeOK'
<1>1. CASE StopRead(c)
  BY <1>1 DEF TypeOK, PCs, StopRead, Begin
<1>2. CASE StopKill(c)
  <2> DEFINE p == client[c].pid
  <2>1. p \in Pids
    BY <1>2 DEF StopKill, TypeOK
  <2>2. phase' \in [Pids -> AllPhases]
    BY <1>2, <2>1 DEF StopKill, TypeOK, AllPhases
  <2>3. /\ fg' \subseteq Pids
        /\ term' \subseteq Pids
    BY <1>2, <2>1 DEF StopKill, TypeOK
  <2>4. ClientsOK'
    BY <1>2 DEF StopKill, TypeOK, ClientsOK, PCs, Idle
  <2>. QED BY <1>2, <2>2, <2>3, <2>4 DEF StopKill, TypeOK, ClientsOK
<1>3. CASE StopStatus(c)
  BY <1>3 DEF TypeOK, PCs, StopStatus, Goto, Stopped
<1>4. CASE StopUnlink(c)
  BY <1>4 DEF TypeOK, PCs, StopUnlink, Done, Idle
<1>. QED BY <1>1, <1>2, <1>3, <1>4 DEF Stop

LEMMA StatusType == ASSUME TypeOK, NEW c \in Clients, Status(c) PROVE TypeOK'
<1>1. CASE StatusCheck(c)
  <2>1. Begin(c, "read_status", lock, FALSE) \/ Begin(c, "correct_status", NoPid, FALSE)
    BY <1>1 DEF StatusCheck
  <2>2. ClientsOK'
    BY <2>1, BeginType DEF PCs, TypeOK
  <2>. QED BY <1>1, <2>2 DEF StatusCheck, TypeOK, ClientsOK
<1>2. CASE StatusRead(c)
  <2>1. CASE Done(c, "ok")
    BY <1>2, <2>1, DoneType DEF StatusRead, TypeOK, ClientsOK
  <2>2. CASE Goto(c, "repair_status") /\ UNCHANGED answer
    BY <1>2, <2>2 DEF StatusRead, TypeOK, Goto, PCs
  <2>. QED BY <1>2, <2>1, <2>2 DEF StatusRead
<1>3. CASE StatusRepair(c)
  BY <1>3 DEF TypeOK, PCs, StatusRepair, Done, Idle, Repaired
<1>4. CASE StatusCorrect(c)
  BY <1>4 DEF TypeOK, PCs, StatusCorrect, Done, Idle, Stopped
<1>. QED BY <1>1, <1>2, <1>3, <1>4 DEF Status

LEMMA ClearType == ASSUME TypeOK, NEW c \in Clients, Clear(c) PROVE TypeOK'
<1>1. CASE ClearCheck(c)
  <2>1. Done(c, "refused") \/ Begin(c, "clear_unlink", NoPid, FALSE)
    BY <1>1 DEF ClearCheck
  <2>2. ClientsOK'
    BY <2>1, DoneType, BeginType DEF PCs
  <2>. QED BY <1>1, <2>2 DEF ClearCheck, TypeOK, ClientsOK
<1>2. CASE ClearUnlink(c)
  BY <1>2 DEF TypeOK, PCs, ClearUnlink, Goto
<1>3. CASE ClearStatus(c)
  BY <1>3 DEF TypeOK, PCs, ClearStatus, Done, Idle, Stopped
<1>. QED BY <1>1, <1>2, <1>3 DEF Clear

LEMMA ServiceClearType == ASSUME TypeOK, NEW c \in Clients, ServiceClear(c) PROVE TypeOK'
<1>1. CASE ServiceClearStatus(c)
  BY <1>1 DEF TypeOK, PCs, ServiceClearStatus, Begin, NoStatus
<1>2. CASE ServiceClearLock(c)
  BY <1>2 DEF TypeOK, PCs, ServiceClearLock, Done, Idle
<1>. QED BY <1>1, <1>2 DEF ServiceClear

LEMMA DaemonType == ASSUME TypeOK, NEW p \in Pids, DaemonStep(p) PROVE TypeOK'
<1>1. CASE Boot(p)
  BY <1>1 DEF TypeOK, AllPhases, DaemonAt, Handles, Serves, Move, Boot
<1>2. CASE BootFails(p)
  BY <1>2 DEF TypeOK, AllPhases, DaemonAt, Handles, Serves, Move, BootFails, Return, Gone, Stopped
<1>3. CASE Announce(p)
  BY <1>3 DEF TypeOK, AllPhases, DaemonAt, Handles, Serves, Move, Announce, Running
<1>4. CASE LoopTest(p)
  BY <1>4 DEF TypeOK, AllPhases, DaemonAt, Handles, Serves, Move, LoopTest
<1>5. CASE Work(p)
  BY <1>5 DEF TypeOK, AllPhases, DaemonAt, Handles, Serves, Move, Work, Running
<1>6. CASE WorkRaises(p)
  BY <1>6 DEF TypeOK, AllPhases, DaemonAt, Handles, Serves, Move, WorkRaises
<1>7. CASE Final(p)
  BY <1>7 DEF TypeOK, AllPhases, DaemonAt, Handles, Serves, Move, Final, Return, Gone, Stopped
<1>8. CASE ForegroundUnlock(p)
  BY <1>8 DEF TypeOK, AllPhases, DaemonAt, Handles, Serves, Move, ForegroundUnlock, Gone
<1>. QED BY <1>1, <1>2, <1>3, <1>4, <1>5, <1>6, <1>7, <1>8 DEF DaemonStep

LEMMA AccidentType ==
  ASSUME TypeOK, NEW p \in Pids,
         Crash(p) \/ Interrupted(p) \/ PidReused(p) \/ StrangerExits(p)
  PROVE  TypeOK'
<1>1. CASE Crash(p)
  BY <1>1 DEF TypeOK, AllPhases, DaemonAt, Handles, Serves, Move, Crash, Gone
<1>2. CASE Interrupted(p)
  BY <1>2 DEF TypeOK, AllPhases, DaemonAt, Handles, Serves, Move, Interrupted
<1>3. CASE PidReused(p)
  BY <1>3 DEF TypeOK, AllPhases, DaemonAt, Handles, Serves, Move, PidReused
<1>4. CASE StrangerExits(p)
  BY <1>4 DEF TypeOK, AllPhases, DaemonAt, Handles, Serves, Move, StrangerExits
<1>. QED BY <1>1, <1>2, <1>3, <1>4

LEMMA ClientDiesType == ASSUME TypeOK, NEW c \in Clients, ClientDies(c) PROVE TypeOK'
  BY DEF TypeOK, AllPhases, DaemonAt, Handles, Serves, Move, PCs, ClientDies, Idle

LEMMA AgesType == ASSUME TypeOK, StatusAges PROVE TypeOK'
  BY DEF TypeOK, StatusAges

LEMMA TypeStep == ASSUME TypeOK, [Next]_vars PROVE TypeOK'
<1>1. CASE UNCHANGED vars
  BY <1>1 DEF vars, TypeOK
<1>. QED
  BY <1>1, StartType, ForegroundType, StopType, StatusType, ClearType, ServiceClearType,
     DaemonType, AccidentType, ClientDiesType, AgesType DEF Next, Command

\* The variables keep their types, with any commands, terminals and faults.
THEOREM TypeCorrect == Safety => []TypeOK
  BY InitType, TypeStep, PTL DEF Safety

-----------------------------------------------------------------------------
(* One operator: the inductive invariant *)

\* No process or command is of the kinds OneOperator excludes.
InBackground ==
    /\ fg = {}
    /\ \A p \in Pids : phase[p] \notin {"cli", "unlock", "bail"}
    /\ \A c \in Clients :
         ~client[c].fg /\ client[c].pc \notin {"enter", "service_clear_lock"}

\* A stop flag belongs to a process that has a handler: a pid that is free
\* carries none over to the daemon that gets it next.
FlagsOfHandlers == term \subseteq {p \in Pids : phase[p] \in Handles}

\* What a command knows between its steps: after its check, or its SIGTERM, no
\* daemon serves; after the fork none but the child does; before the SIGTERM
\* its target is still the one in the lock.
CommandsKnow ==
    \A c \in Clients :
      /\ client[c].pc \in {"unlink", "spawn", "stop_status", "stop_unlink",
                           "clear_unlink", "clear_status"} => Serving = {}
      /\ client[c].pc = "lock" => Serving \subseteq {client[c].pid}
      /\ client[c].pc = "kill" => client[c].pid = lock

IInv == TypeOK /\ InBackground /\ FlagsOfHandlers /\ CommandsKnow /\ LockNamesDaemon

LEMMA InvariantHoldsFirst == Init => IInv
<1>. SUFFICES ASSUME Init PROVE IInv
  OBVIOUS
<1>1. Serving = {}
  BY DEF Init, Serving, Serves
<1>. QED
  BY <1>1, InitType
  DEF Init, IInv, InBackground, FlagsOfHandlers, CommandsKnow, LockNamesDaemon, Idle, Handles

\* The steps of daemons and accidents leave lock and client alone and can only
\* reduce the set of serving daemons.
LEMMA LessServing ==
  ASSUME CommandsKnow, LockNamesDaemon, Serving' \subseteq Serving, UNCHANGED <<lock, client>>
  PROVE  CommandsKnow' /\ LockNamesDaemon'
  BY DEF CommandsKnow, LockNamesDaemon

LEMMA DaemonKeeps ==
  ASSUME OneOperator, IInv, NEW p \in Pids, DaemonStep(p)
  PROVE  /\ InBackground' /\ FlagsOfHandlers' /\ CommandsKnow' /\ LockNamesDaemon'
<1> USE DEF IInv, TypeOK, Move, Gone, Return
<1>1. CASE Boot(p)
  <2>1. Serving' \subseteq Serving
    BY <1>1 DEF Boot, Serving, Serves
  <2>2. InBackground' /\ FlagsOfHandlers'
    BY <1>1 DEF Boot, InBackground, FlagsOfHandlers, Handles
  <2>. QED BY <1>1, <2>1, <2>2, LessServing DEF Boot
<1>2. CASE BootFails(p)
  <2>1. Serving' \subseteq Serving
    BY <1>2 DEF BootFails, Serving, Serves, InBackground
  <2>2. InBackground' /\ FlagsOfHandlers'
    BY <1>2 DEF BootFails, InBackground, FlagsOfHandlers, Handles
  <2>. QED BY <1>2, <2>1, <2>2, LessServing DEF BootFails
<1>3. CASE Announce(p)
  <2>1. Serving' \subseteq Serving
    BY <1>3 DEF Announce, Serving, Serves
  <2>2. InBackground' /\ FlagsOfHandlers'
    BY <1>3 DEF Announce, InBackground, FlagsOfHandlers, Handles
  <2>. QED BY <1>3, <2>1, <2>2, LessServing DEF Announce
<1>4. CASE LoopTest(p)
  <2>1. Serving' \subseteq Serving
    BY <1>4 DEF LoopTest, Serving, Serves
  <2>2. InBackground' /\ FlagsOfHandlers'
    BY <1>4 DEF LoopTest, InBackground, FlagsOfHandlers, Handles
  <2>. QED BY <1>4, <2>1, <2>2, LessServing DEF LoopTest
<1>5. CASE Work(p)
  <2>1. Serving' \subseteq Serving
    BY <1>5 DEF Work, Serving, Serves
  <2>2. InBackground' /\ FlagsOfHandlers'
    BY <1>5 DEF Work, InBackground, FlagsOfHandlers, Handles
  <2>. QED BY <1>5, <2>1, <2>2, LessServing DEF Work
<1>6. CASE WorkRaises(p)
  <2>1. Serving' \subseteq Serving
    BY <1>6 DEF WorkRaises, Serving, Serves
  <2>2. InBackground' /\ FlagsOfHandlers'
    BY <1>6 DEF WorkRaises, InBackground, FlagsOfHandlers, Handles
  <2>. QED BY <1>6, <2>1, <2>2, LessServing DEF WorkRaises
<1>7. CASE Final(p)
  <2>1. Serving' \subseteq Serving
    BY <1>7 DEF Final, Serving, Serves, InBackground
  <2>2. InBackground' /\ FlagsOfHandlers'
    BY <1>7 DEF Final, InBackground, FlagsOfHandlers, Handles
  <2>. QED BY <1>7, <2>1, <2>2, LessServing DEF Final
<1>8. ~ForegroundUnlock(p)
  BY DEF ForegroundUnlock, InBackground
<1>. QED BY <1>1, <1>2, <1>3, <1>4, <1>5, <1>6, <1>7, <1>8 DEF DaemonStep

LEMMA AccidentKeeps ==
  ASSUME OneOperator, IInv, NEW p \in Pids,
         Crash(p) \/ Interrupted(p) \/ PidReused(p) \/ StrangerExits(p)
  PROVE  /\ InBackground' /\ FlagsOfHandlers' /\ CommandsKnow' /\ LockNamesDaemon'
<1> USE DEF IInv, TypeOK, Move, Gone
<1>1. CASE Crash(p)
  <2>1. Serving' \subseteq Serving
    BY <1>1 DEF Crash, Serving, Serves
  <2>2. InBackground' /\ FlagsOfHandlers'
    BY <1>1 DEF Crash, InBackground, FlagsOfHandlers, Handles
  <2>. QED BY <1>1, <2>1, <2>2, LessServing DEF Crash
<1>2. ~Interrupted(p)
  BY DEF Interrupted, InBackground
<1>3. CASE PidReused(p)
  <2>1. Serving' \subseteq Serving
    BY <1>3 DEF PidReused, Serving, Serves
  <2>2. InBackground' /\ FlagsOfHandlers'
    BY <1>3 DEF PidReused, InBackground, FlagsOfHandlers, Handles
  <2>. QED BY <1>3, <2>1, <2>2, LessServing DEF PidReused
<1>4. CASE StrangerExits(p)
  <2>1. Serving' \subseteq Serving
    BY <1>4 DEF StrangerExits, Serving, Serves
  <2>2. InBackground' /\ FlagsOfHandlers'
    BY <1>4 DEF StrangerExits, InBackground, FlagsOfHandlers, Handles
  <2>. QED BY <1>4, <2>1, <2>2, LessServing DEF StrangerExits
<1>. QED BY <1>1, <1>2, <1>3, <1>4

\* Once no active lock is found, no daemon serves.
LEMMA NoLockNoDaemon ==
  ASSUME OneOperator, IInv, NEW c \in Clients, client[c].pc = "idle",
         ~ActiveLock(NoPid, TRUE)
  PROVE  Serving = {}
  BY DEF OneOperator, IInv, TypeOK, ActiveLock, LockNamesDaemon, Serving, Serves, DaemonAt

LEMMA PsWorks == OneOperator => PsAnswers = {TRUE}
  BY DEF OneOperator, PsAnswers

LEMMA StartKeeps ==
  ASSUME OneOperator, IInv, NEW c \in Clients, Start(c)
  PROVE  /\ InBackground' /\ FlagsOfHandlers' /\ CommandsKnow' /\ LockNamesDaemon'
<1> USE DEF IInv, TypeOK
<1>0. \A d \in Clients : d = c
  BY DEF OneOperator
<1>1. CASE StartCheck(c)
  <2>1. Serving' = Serving
    BY <1>1 DEF StartCheck, Serving
  <2>2. \/ Done(c, "refused")
        \/ Serving = {} /\ Begin(c, "unlink", NoPid, FALSE)
    BY <1>1, PsWorks, NoLockNoDaemon DEF StartCheck, MayRun
  <2>3. InBackground' /\ FlagsOfHandlers'
    BY <1>1, <2>2 DEF StartCheck, Done, Begin, Idle, InBackground, FlagsOfHandlers
  <2>4. CommandsKnow' /\ LockNamesDaemon'
    BY <1>0, <1>1, <2>1, <2>2
    DEF StartCheck, MayRun, Done, Begin, Idle, CommandsKnow, LockNamesDaemon
  <2>. QED BY <2>3, <2>4
<1>2. CASE StartUnlink(c)
  <2>1. Serving' = {}
    BY <1>2 DEF StartUnlink, Serving, CommandsKnow
  <2>2. InBackground' /\ FlagsOfHandlers'
    BY <1>2 DEF StartUnlink, Goto, InBackground, FlagsOfHandlers
  <2>3. CommandsKnow' /\ LockNamesDaemon'
    BY <1>0, <1>2, <2>1 DEF StartUnlink, Goto, InBackground, CommandsKnow, LockNamesDaemon
  <2>. QED BY <2>2, <2>3
<1>3. CASE StartSpawn(c)
  <2>1. PICK p \in Free : phase' = [phase EXCEPT ![p] = "boot"] /\ Begin(c, "lock", p, FALSE)
    BY <1>3 DEF StartSpawn
  <2>2. Serving' \subseteq {p}
    BY <1>3, <2>1 DEF StartSpawn, CommandsKnow, Serving, Free
  <2>3. InBackground' /\ FlagsOfHandlers'
    BY <1>3, <2>1 DEF StartSpawn, Begin, Free, Handles, InBackground, FlagsOfHandlers
  <2>4. CommandsKnow' /\ LockNamesDaemon'
    BY <1>0, <2>1, <2>2 DEF Begin, CommandsKnow, LockNamesDaemon
  <2>. QED BY <2>3, <2>4
<1>4. CASE StartLock(c)
  <2>1. Serving' = Serving /\ Serving \subseteq {client[c].pid}
    BY <1>4 DEF StartLock, Serving, CommandsKnow
  <2>2. InBackground' /\ FlagsOfHandlers'
    BY <1>4 DEF StartLock, Goto, InBackground, FlagsOfHandlers
  <2>3. CommandsKnow' /\ LockNamesDaemon'
    BY <1>0, <1>4, <2>1 DEF StartLock, Goto, CommandsKnow, LockNamesDaemon
  <2>. QED BY <2>2, <2>3
<1>5. CASE StartAnnounce(c)
  <2>1. Serving' = Serving
    BY <1>5 DEF StartAnnounce, Serving
  <2>2. InBackground' /\ FlagsOfHandlers'
    BY <1>5 DEF StartAnnounce, Done, Idle, InBackground, FlagsOfHandlers
  <2>3. CommandsKnow' /\ LockNamesDaemon'
    BY <1>0, <1>5, <2>1 DEF StartAnnounce, Done, Idle, CommandsKnow, LockNamesDaemon
  <2>. QED BY <2>2, <2>3
<1>. QED BY <1>1, <1>2, <1>3, <1>4, <1>5 DEF Start

LEMMA StopKeeps ==
  ASSUME OneOperator, IInv, NEW c \in Clients, Stop(c)
  PROVE  /\ InBackground' /\ FlagsOfHandlers' /\ CommandsKnow' /\ LockNamesDaemon'
<1> USE DEF IInv, TypeOK
<1>0. \A d \in Clients : d = c
  BY DEF OneOperator
<1>1. CASE StopRead(c)
  <2>1. Serving' = Serving
    BY <1>1 DEF StopRead, Serving
  <2>2. lock = NoPid => Serving = {}
    BY <1>0, <1>1, ConstantsAssumption DEF StopRead, MayRun, LockNamesDaemon, Serving
  <2>3. InBackground' /\ FlagsOfHandlers'
    BY <1>1 DEF StopRead, Begin, InBackground, FlagsOfHandlers
  <2>4. CommandsKnow' /\ LockNamesDaemon'
    BY <1>0, <1>1, <2>1, <2>2 DEF StopRead, MayRun, Begin, CommandsKnow, LockNamesDaemon
  <2>. QED BY <2>3, <2>4
<1>2. CASE StopKill(c)
  <2> DEFINE p == client[c].pid
  <2>1. p \in Pids /\ p = lock
    BY <1>2 DEF StopKill, CommandsKnow
  <2>2. Serving \subseteq {p}
    BY <1>0, <1>2, <2>1 DEF StopKill, LockNamesDaemon
  <2>3. Serving' = {}
    BY <1>2, <2>1, <2>2 DEF StopKill, Serving, Serves
  <2>4. client' = [client EXCEPT ![c].pc = "stop_status"]
    BY <1>0, <1>2 DEF StopKill
  <2>5. InBackground' /\ FlagsOfHandlers'
    BY <1>2, <2>1, <2>4 DEF StopKill, InBackground, FlagsOfHandlers, Handles
  <2>6. CommandsKnow' /\ LockNamesDaemon'
    BY <1>0, <2>3, <2>4 DEF CommandsKnow, LockNamesDaemon
  <2>. QED BY <2>5, <2>6
<1>3. CASE StopStatus(c)
  <2>1. Serving' = {}
    BY <1>3 DEF StopStatus, Serving, CommandsKnow
  <2>2. InBackground' /\ FlagsOfHandlers'
    BY <1>3 DEF StopStatus, Goto, InBackground, FlagsOfHandlers
  <2>3. CommandsKnow' /\ LockNamesDaemon'
    BY <1>0, <1>3, <2>1 DEF StopStatus, Goto, CommandsKnow, LockNamesDaemon
  <2>. QED BY <2>2, <2>3
<1>4. CASE StopUnlink(c)
  <2>1. Serving' = {}
    BY <1>4 DEF StopUnlink, Serving, CommandsKnow
  <2>2. InBackground' /\ FlagsOfHandlers'
    BY <1>4 DEF StopUnlink, Done, Idle, InBackground, FlagsOfHandlers
  <2>3. CommandsKnow' /\ LockNamesDaemon'
    BY <1>0, <1>4, <2>1 DEF StopUnlink, Done, Idle, CommandsKnow, LockNamesDaemon
  <2>. QED BY <2>2, <2>3
<1>. QED BY <1>1, <1>2, <1>3, <1>4 DEF Stop

LEMMA StatusKeeps ==
  ASSUME OneOperator, IInv, NEW c \in Clients, Status(c)
  PROVE  /\ InBackground' /\ FlagsOfHandlers' /\ CommandsKnow' /\ LockNamesDaemon'
<1> USE DEF IInv, TypeOK
<1>0. \A d \in Clients : d = c
  BY DEF OneOperator
<1>1. /\ Serving' = Serving
      /\ UNCHANGED <<phase, fg, term, lock>>
      /\ client[c].pc # "lock"
  BY DEF Status, StatusCheck, MayRun, StatusRead, StatusRepair, StatusCorrect, Serving
<1>2. /\ client'[c].pc \in {"idle", "read_status", "repair_status", "correct_status"}
      /\ client'[c].fg = FALSE
  BY DEF Status, StatusCheck, StatusRead, StatusRepair, StatusCorrect, Begin, Done, Goto,
         Idle, InBackground
<1>3. InBackground' /\ FlagsOfHandlers'
  BY <1>0, <1>1, <1>2 DEF InBackground, FlagsOfHandlers
<1>4. CommandsKnow' /\ LockNamesDaemon'
  BY <1>0, <1>1, <1>2 DEF CommandsKnow, LockNamesDaemon
<1>. QED BY <1>3, <1>4

LEMMA ClearKeeps ==
  ASSUME OneOperator, IInv, NEW c \in Clients, Clear(c)
  PROVE  /\ InBackground' /\ FlagsOfHandlers' /\ CommandsKnow' /\ LockNamesDaemon'
<1> USE DEF IInv, TypeOK
<1>0. \A d \in Clients : d = c
  BY DEF OneOperator
<1>1. CASE ClearCheck(c)
  <2>1. Serving' = Serving
    BY <1>1 DEF ClearCheck, Serving
  <2>2. \/ Done(c, "refused")
        \/ Serving = {} /\ Begin(c, "clear_unlink", NoPid, FALSE)
    BY <1>0, <1>1 DEF ClearCheck, MayRun, LockNamesDaemon, Serving, Serves
  <2>3. InBackground' /\ FlagsOfHandlers'
    BY <1>1, <2>2 DEF ClearCheck, Done, Begin, Idle, InBackground, FlagsOfHandlers
  <2>4. CommandsKnow' /\ LockNamesDaemon'
    BY <1>0, <1>1, <2>1, <2>2
    DEF ClearCheck, MayRun, Done, Begin, Idle, CommandsKnow, LockNamesDaemon
  <2>. QED BY <2>3, <2>4
<1>2. CASE ClearUnlink(c)
  <2>1. Serving' = {}
    BY <1>2 DEF ClearUnlink, Serving, CommandsKnow
  <2>2. InBackground' /\ FlagsOfHandlers'
    BY <1>2 DEF ClearUnlink, Goto, InBackground, FlagsOfHandlers
  <2>3. CommandsKnow' /\ LockNamesDaemon'
    BY <1>0, <1>2, <2>1 DEF ClearUnlink, Goto, CommandsKnow, LockNamesDaemon
  <2>. QED BY <2>2, <2>3
<1>3. CASE ClearStatus(c)
  <2>1. Serving' = {}
    BY <1>3 DEF ClearStatus, Serving, CommandsKnow
  <2>2. InBackground' /\ FlagsOfHandlers'
    BY <1>3 DEF ClearStatus, Done, Idle, InBackground, FlagsOfHandlers
  <2>3. CommandsKnow' /\ LockNamesDaemon'
    BY <1>0, <1>3, <2>1 DEF ClearStatus, Done, Idle, CommandsKnow, LockNamesDaemon
  <2>. QED BY <2>2, <2>3
<1>. QED BY <1>1, <1>2, <1>3 DEF Clear

LEMMA InvariantStep == ASSUME OneOperator, IInv, [Next]_vars PROVE IInv'
<1>1. TypeOK'
  BY TypeStep DEF IInv
<1>2. CASE UNCHANGED vars
  BY <1>1, <1>2 DEF vars, IInv, TypeOK, InBackground, FlagsOfHandlers, CommandsKnow,
                    LockNamesDaemon, Serving
<1>3. ASSUME NEW c \in Clients, Command(c) \/ ClientDies(c) PROVE IInv'
  <2>1. ~Foreground(c) /\ ~ServiceClear(c) /\ ~ClientDies(c)
    BY DEF OneOperator, IInv, InBackground, Foreground, ForegroundCheck, ForegroundEnter,
           ServiceClear, ServiceClearStatus, ServiceClearLock, ClientDies, MayRun
  <2>. QED
    BY <1>1, <1>3, <2>1, StartKeeps, StopKeeps, StatusKeeps, ClearKeeps DEF Command, IInv
<1>4. ASSUME NEW p \in Pids,
             DaemonStep(p) \/ Crash(p) \/ Interrupted(p) \/ PidReused(p) \/ StrangerExits(p)
      PROVE  IInv'
  BY <1>1, <1>4, DaemonKeeps, AccidentKeeps DEF IInv
<1>5. CASE StatusAges
  BY <1>1, <1>5 DEF StatusAges, IInv, TypeOK, InBackground, FlagsOfHandlers, CommandsKnow,
                    LockNamesDaemon, Serving
<1>. QED BY <1>2, <1>3, <1>4, <1>5 DEF Next

LEMMA Invariant == ASSUME OneOperator PROVE Safety => []IInv
  BY InvariantHoldsFirst, InvariantStep, PTL DEF Safety

-----------------------------------------------------------------------------
\* The lock names the serving daemon, however many daemons come, crash and
\* leave and whatever pids they get.
THEOREM LockCorrect == ASSUME OneOperator PROVE Safety => []LockNamesDaemon
<1>1. IInv => LockNamesDaemon
  BY DEF IInv
<1>. QED BY <1>1, Invariant, PTL

\* A second start fails while a daemon serves: there are never two.
THEOREM OneDaemonOnly == ASSUME OneOperator PROVE Safety => []OneDaemon
<1>1. IInv => OneDaemon
  BY DEF OneOperator, IInv, TypeOK, LockNamesDaemon, CommandsKnow, OneDaemon, Serving
<1>. QED BY <1>1, Invariant, PTL

\* When stop reports success, no daemon serves.
THEOREM StopIsFinal == ASSUME OneOperator PROVE Safety => StopLeavesNone
<1>1. ASSUME IInv, Next, NEW c \in Clients,
             client[c].pc = "stop_unlink", client'[c].pc = "idle"
      PROVE  Serving' = {}
  <2>1. \A d \in Clients : d = c
    BY DEF OneOperator
  <2>2. Serving = {}
    BY <1>1 DEF IInv, CommandsKnow
  <2>3. CASE Command(c)
    BY <1>1, <2>2, <2>3
    DEF Command, Start, StartCheck, StartUnlink, StartSpawn, StartLock, StartAnnounce,
        Foreground, ForegroundCheck, ForegroundEnter, Stop, StopRead, StopKill, StopStatus,
        StopUnlink, Status, StatusCheck, StatusRead, StatusRepair, StatusCorrect,
        Clear, ClearCheck, ClearUnlink, ClearStatus,
        ServiceClear, ServiceClearStatus, ServiceClearLock, MayRun, Serving
  <2>4. ~ClientDies(c)
    BY DEF OneOperator, ClientDies
  <2>5. ASSUME NEW p \in Pids,
               DaemonStep(p) \/ Crash(p) \/ Interrupted(p) \/ PidReused(p) \/ StrangerExits(p)
        PROVE  UNCHANGED client
    BY <2>5 DEF DaemonStep, Boot, BootFails, Announce, LoopTest, Work, WorkRaises, Final,
                ForegroundUnlock, Crash, Interrupted, PidReused, StrangerExits
  <2>6. StatusAges => UNCHANGED client
    BY DEF StatusAges
  <2>. QED BY <1>1, <2>1, <2>3, <2>4, <2>5, <2>6 DEF Next
<1>2. IInv /\ [Next]_vars =>
        [\A c \in Clients :
           client[c].pc = "stop_unlink" /\ client'[c].pc = "idle" => Serving' = {}]_vars
  BY <1>1
<1>. QED BY <1>2, Invariant, PTL DEF Safety, StopLeavesNone

-----------------------------------------------------------------------------
(* The lock and the commands implement SingleWatcher *)

LEMMA SameServing ==
  ASSUME UNCHANGED <<phase, term>> PROVE Serving' = Serving /\ Leaving' = Leaving
  BY DEF Serving, Leaving

\* A daemon process goes on, fails, leaves or dies.
LEMMA DaemonRefines ==
  ASSUME OneOperator, IInv, NEW p \in Pids,
         DaemonStep(p) \/ Crash(p) \/ Interrupted(p) \/ PidReused(p) \/ StrangerExits(p)
  PROVE  [Watcher!Next]_<<Serving, Leaving>>
<1> USE DEF IInv, TypeOK, Move, Serving, Leaving, Serves, Handles, DaemonAt
<1>1. CASE Boot(p) \/ Announce(p) \/ Work(p)
  <2>1. Serving' = Serving
    BY <1>1 DEF Boot, Announce, Work
  <2>2. Leaving' = Leaving
    BY <1>1 DEF Boot, Announce, Work
  <2>. QED BY <2>1, <2>2
<1>2. CASE LoopTest(p)
  <2>1. Serving' = Serving
    BY <1>2 DEF LoopTest
  <2>2. Leaving' = Leaving
    BY <1>2 DEF LoopTest
  <2>. QED BY <2>1, <2>2
<1>3. CASE BootFails(p)
  <2>1. p \in Serving
    BY <1>3 DEF BootFails, FlagsOfHandlers
  <2>2. Serving' = Serving \ {p} /\ Leaving' = Leaving
    BY <1>3, <2>1 DEF BootFails, Return, Gone, InBackground
  <2>. QED BY <2>1, <2>2 DEF Watcher!Next, Watcher!Die
<1>4. CASE WorkRaises(p)
  <2>1. CASE p \in Serving
    <3>1. Serving' = Serving \ {p} /\ Leaving' = Leaving \cup {p}
      BY <1>4, <2>1 DEF WorkRaises
    <3>. QED BY <2>1, <3>1 DEF Watcher!Next, Watcher!Dismiss
  <2>2. CASE p \notin Serving
    <3>1. Serving' = Serving /\ Leaving' = Leaving
      BY <1>4, <2>2 DEF WorkRaises
    <3>. QED BY <3>1
  <2>. QED BY <2>1, <2>2
<1>5. CASE Final(p)
  <2>1. p \in Leaving
    BY <1>5 DEF Final
  <2>2. Serving' = Serving /\ Leaving' = Leaving \ {p}
    BY <1>5, <2>1 DEF Final, Return, Gone, InBackground
  <2>. QED BY <2>1, <2>2 DEF Watcher!Next, Watcher!Leave
<1>6. CASE Crash(p)
  <2>1. Serving' = Serving \ {p} /\ Leaving' = Leaving \ {p}
    BY <1>6 DEF Crash, Gone
  <2>2. p \in Serving <=> p \notin Leaving
    BY <1>6 DEF Crash
  <2>. QED BY <2>1, <2>2 DEF Watcher!Next, Watcher!Leave, Watcher!Die
<1>7. CASE PidReused(p) \/ StrangerExits(p)
  <2>1. Serving' = Serving
    BY <1>7 DEF PidReused, StrangerExits
  <2>2. Leaving' = Leaving
    BY <1>7 DEF PidReused, StrangerExits
  <2>. QED BY <2>1, <2>2
<1>8. ~ForegroundUnlock(p) /\ ~Interrupted(p)
  BY DEF ForegroundUnlock, Interrupted, InBackground
<1>. QED BY <1>1, <1>2, <1>3, <1>4, <1>5, <1>6, <1>7, <1>8 DEF DaemonStep

\* A command changes the daemons in two places only: the fork and the SIGTERM.
LEMMA CommandRefines ==
  ASSUME OneOperator, IInv, NEW c \in Clients, Command(c)
  PROVE  [Watcher!Next]_<<Serving, Leaving>>
<1>1. CASE StartSpawn(c)
  <2>1. PICK p \in Free : phase' = [phase EXCEPT ![p] = "boot"]
    BY <1>1 DEF StartSpawn
  <2>2. p \in Pids /\ p \notin Leaving /\ p \notin term /\ Serving = {}
    BY <1>1, <2>1 DEF StartSpawn, Free, Leaving, DaemonAt, Serves, Handles, IInv,
                      FlagsOfHandlers, CommandsKnow
  <2>3. Serving' = {p} /\ Leaving' = Leaving
    BY <1>1, <2>1, <2>2
    DEF StartSpawn, Serving, Leaving, Serves, Handles, DaemonAt, IInv, TypeOK, Free
  <2>. QED BY <2>2, <2>3 DEF Watcher!Next, Watcher!Start
<1>2. CASE StopKill(c)
  <2> DEFINE p == client[c].pid
  <2>1. p \in Pids
    BY <1>2 DEF StopKill, IInv, TypeOK
  <2>2. CASE phase[p] \in Handles
    <3>1. term' = term \cup {p} /\ phase' = phase
      BY <1>2, <2>2 DEF StopKill
    <3>2. CASE p \in Serving
      <4>1. Serving' = Serving \ {p} /\ Leaving' = Leaving \cup {p}
        BY <2>1, <3>1, <3>2 DEF Serving, Leaving, Serves, DaemonAt
      <4>. QED BY <2>1, <3>2, <4>1 DEF Watcher!Next, Watcher!Dismiss
    <3>3. CASE p \notin Serving
      <4>1. Serving' = Serving
        BY <2>1, <3>1, <3>3 DEF Serving
      <4>2. Leaving' = Leaving
        BY <3>1, <4>1 DEF Leaving
      <4>. QED BY <4>1, <4>2
    <3>. QED BY <3>2, <3>3
  <2>3. CASE phase[p] \notin Handles
    <3>1. phase' = [phase EXCEPT ![p] = "free"] /\ term' = term
      BY <1>2, <2>3 DEF StopKill
    <3>2. p \notin Leaving
      BY <2>1, <2>3 DEF Leaving, Serving, Serves, Handles, DaemonAt, IInv, FlagsOfHandlers,
                        InBackground
    <3>3. Serving' = Serving \ {p} /\ Leaving' = Leaving
      BY <2>1, <3>1, <3>2 DEF Serving, Leaving, Serves, Handles, DaemonAt, IInv, TypeOK
    <3>. QED BY <2>1, <3>3 DEF Watcher!Next, Watcher!Die
  <2>. QED BY <2>2, <2>3
<1>3. CASE ~StartSpawn(c) /\ ~StopKill(c)
  <2>1. ~Foreground(c)
    BY DEF OneOperator, IInv, InBackground, Foreground, ForegroundCheck, ForegroundEnter, MayRun
  <2>2. UNCHANGED <<phase, term>>
    BY <1>3, <2>1
    DEF Command, Start, StartCheck, StartUnlink, StartLock, StartAnnounce,
        Stop, StopRead, StopStatus, StopUnlink,
        Status, StatusCheck, StatusRead, StatusRepair, StatusCorrect,
        Clear, ClearCheck, ClearUnlink, ClearStatus,
        ServiceClear, ServiceClearStatus, ServiceClearLock
  <2>. QED BY <2>2, SameServing
<1>. QED BY <1>1, <1>2, <1>3

LEMMA StepRefines ==
  ASSUME OneOperator, IInv, [Next]_vars PROVE [Watcher!Next]_<<Serving, Leaving>>
<1>1. CASE UNCHANGED vars
  BY <1>1, SameServing DEF vars
<1>2. ASSUME NEW c \in Clients PROVE ~ClientDies(c)
  BY DEF OneOperator, ClientDies
<1>3. CASE StatusAges
  BY <1>3, SameServing DEF StatusAges
<1>. QED BY <1>1, <1>2, <1>3, CommandRefines, DaemonRefines DEF Next

\* The commands and the daemons they start do what SingleWatcher promises:
\* lock file, status file, signals and pid checks add up to one watcher.
THEOREM RefinesSingleWatcher == ASSUME OneOperator PROVE Safety => ImplementsSingleWatcherSafety
<1>1. Init => Watcher!Init
  BY DEF Init, Watcher!Init, Serving, Leaving, Serves, Handles, DaemonAt
<1>2. IInv /\ [Next]_vars => [Watcher!Next]_(Watcher!vars)
  BY StepRefines DEF Watcher!vars
<1>. QED
  BY <1>1, <1>2, Invariant, PTL DEF Safety, ImplementsSingleWatcherSafety, Watcher!Safety

-----------------------------------------------------------------------------
(* Refusals *)

\* Only `daemon start --blocking` puts a process into the phase before its lock.
LEMMA NoneEnters ==
  ASSUME "foreground" \notin Commands, TypeOK, \A p \in Pids : phase[p] # "cli", [Next]_vars
  PROVE  \A p \in Pids : phase'[p] # "cli"
<1> USE DEF TypeOK, Move, Gone, Return
<1>1. CASE UNCHANGED vars
  BY <1>1 DEF vars
<1>2. ASSUME NEW c \in Clients, Command(c) PROVE \A p \in Pids : phase'[p] # "cli"
  <2>1. CASE StartSpawn(c)
    BY <2>1 DEF StartSpawn
  <2>2. CASE ForegroundEnter(c)
    BY <2>2 DEF ForegroundEnter
  <2>3. CASE StopKill(c)
    BY <2>3 DEF StopKill
  <2>4. CASE ~StartSpawn(c) /\ ~ForegroundEnter(c) /\ ~StopKill(c)
    <3>1. ~ForegroundCheck(c)
      BY DEF ForegroundCheck, MayRun
    <3>2. UNCHANGED phase
      BY <1>2, <2>4, <3>1
      DEF Command, Start, StartCheck, StartUnlink, StartLock, StartAnnounce,
          Foreground, Stop, StopRead, StopStatus, StopUnlink,
          Status, StatusCheck, StatusRead, StatusRepair, StatusCorrect,
          Clear, ClearCheck, ClearUnlink, ClearStatus,
          ServiceClear, ServiceClearStatus, ServiceClearLock
    <3>. QED BY <3>2
  <2>. QED BY <2>1, <2>2, <2>3, <2>4
<1>3. ASSUME NEW c \in Clients, ClientDies(c) PROVE \A p \in Pids : phase'[p] # "cli"
  BY <1>3 DEF ClientDies
<1>4. ASSUME NEW p \in Pids, DaemonStep(p) PROVE \A q \in Pids : phase'[q] # "cli"
  BY <1>4 DEF DaemonStep, Boot, BootFails, Announce, LoopTest, Work, WorkRaises, Final,
              ForegroundUnlock
<1>5. ASSUME NEW p \in Pids,
             Crash(p) \/ Interrupted(p) \/ PidReused(p) \/ StrangerExits(p)
      PROVE  \A q \in Pids : phase'[q] # "cli"
  BY <1>5 DEF Crash, Interrupted, PidReused, StrangerExits
<1>6. CASE StatusAges
  BY <1>6 DEF StatusAges
<1>. QED BY <1>1, <1>2, <1>3, <1>4, <1>5, <1>6 DEF Next

\* A start or a clear is refused only on account of a living process that has the
\* pid in the lock: with any number of terminals, whatever `ps` answers, whichever
\* pids are reused and wherever commands die; only a foreground daemon may find
\* its own pid there, left by another.
THEOREM RefusalsJustified ==
  ASSUME "foreground" \notin Commands PROVE Safety => RefusedForAProcess
<1> DEFINE Background == TypeOK /\ \A p \in Pids : phase[p] # "cli"
           Justified(c) == answer[c] # "refused" /\ answer'[c] = "refused"
                             => lock \in Pids /\ phase[lock] \in DaemonAt \cup {"other"}
<1>1. Init => Background
  BY InitType DEF Init
<1>2. Background /\ [Next]_vars => Background'
  BY TypeStep, NoneEnters
<1>3. ASSUME Background, Next, NEW c \in Clients PROVE Justified(c)
  <2> SUFFICES ASSUME answer[c] # "refused", answer'[c] = "refused"
               PROVE  lock \in Pids /\ phase[lock] \in DaemonAt \cup {"other"}
    OBVIOUS
  <2>1. PICK d \in Clients : Command(d)
    BY <1>3 DEF Next, ClientDies, DaemonStep, Boot, BootFails, Announce, LoopTest, Work,
                WorkRaises, Final, ForegroundUnlock, Crash, Interrupted, PidReused,
                StrangerExits, StatusAges
  <2>2. ASSUME lock \in Pids, phase[lock] # "free"
        PROVE  phase[lock] \in DaemonAt \cup {"other"}
    BY <1>3, <2>2 DEF TypeOK, AllPhases
  <2>3. CASE StartCheck(d)
    BY <1>3, <2>2, <2>3, ConstantsAssumption
    DEF StartCheck, ActiveLock, Done, Begin, TypeOK
  <2>4. CASE ClearCheck(d)
    BY <1>3, <2>2, <2>4 DEF ClearCheck, Done, Begin, TypeOK
  <2>5. ~ForegroundCheck(d)
    BY DEF ForegroundCheck, MayRun
  <2>6. CASE ~StartCheck(d) /\ ~ClearCheck(d)
    BY <1>3, <2>1, <2>5, <2>6
    DEF Command, Start, StartUnlink, StartSpawn, StartLock, StartAnnounce,
        Foreground, ForegroundEnter, Stop, StopRead, StopKill, StopStatus, StopUnlink,
        Status, StatusCheck, StatusRead, StatusRepair, StatusCorrect,
        Clear, ClearUnlink, ClearStatus,
        ServiceClear, ServiceClearStatus, ServiceClearLock, Done, Begin, TypeOK
  <2>. QED BY <2>3, <2>4, <2>6
<1>4. Background /\ [Next]_vars => [\A c \in Clients : Justified(c)]_vars
  BY <1>3
<1>. QED BY <1>1, <1>2, <1>4, PTL DEF Safety, RefusedForAProcess
=============================================================================
