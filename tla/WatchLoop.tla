-------------------------------- MODULE WatchLoop --------------------------------
(***************************************************************************)
(* How a change of a file reaches the databases.  The observer thread puts  *)
(* events into the handler's sets; the daemon's loop drains them, decides   *)
(* which paths to synchronise, and synchronises each by what it finds on    *)
(* disk then, one database operation at a time, while files go on changing. *)
(* `wksc monitor sync` and `wksc database prune` do their part of the same  *)
(* work from other processes.                                               *)
(***************************************************************************)
EXTENDS Naturals, FiniteSets, Sequences

CONSTANTS Paths,         \* files below the watched roots
          Priority,      \* [Paths -> Nat]: calculate_priority
          MinPriority,   \* monitor.min_priority
          MaxDocuments,  \* monitor.max_documents, 0 for no limit
          Commands,      \* the processes that run `monitor sync`
          Daemon,        \* the daemon's loop
          NoPath,
          Faults,        \* what else may happen
          MaxChanges,    \* bound: changes of files and of the configuration
          MaxQueue       \* bound: events on their way to the handler

AllFaults == {"death", "database", "config", "prune"}

ASSUME ConstantsAssumption ==
    /\ Priority \in [Paths -> Nat]
    /\ MinPriority \in Nat /\ MaxDocuments \in Nat
    /\ Daemon \notin Commands
    /\ NoPath \notin Paths
    /\ IsFiniteSet(Paths)
    /\ Faults \subseteq AllFaults
    /\ MaxChanges \in Nat /\ MaxQueue \in Nat

Actors  == Commands \cup {Daemon}
Content == Nat            \* the content of a file, or its checksum; every write is new
Absent  == 0              \* no such file, no such record

VARIABLES fs,        \* [Paths -> Content]
          included,  \* the paths the configuration file includes now
          changes,   \* how many changes there have been
          up,        \* the daemon runs
          snapshot,  \* the paths the daemon's copy of the configuration includes
          queue,     \* events the observer has not delivered yet
          handler,   \* _EventHandler: modified or created, deleted, moved
          batch,     \* process_events: the paths to delete and to sync
          job,       \* [Actors -> the synchronisation in progress]
          nodes,     \* the nodes database: [Paths -> checksum]
          index,     \* the index: [Paths -> checksum of the text it holds]
          pruning,   \* the records `database prune` has decided to delete
          missed,    \* auxiliary: paths whose last change nobody will act on
          evicted    \* auxiliary: paths whose record the limit has removed

files  == <<fs, included, changes>>
loop   == <<up, snapshot, queue, handler, batch>>
stores == <<nodes, index>>
vars   == <<fs, included, changes, up, snapshot, queue, handler, batch, job, nodes,
            index, pruning, missed, evicted>>

-----------------------------------------------------------------------------
NoEvents == [changed |-> {}, deleted |-> {}, moved |-> [p \in Paths |-> NoPath]]
NoBatch  == [delete |-> {}, sync |-> {}]
NoJob    == [pc |-> "idle", path |-> NoPath, seen |-> Absent, synced |-> FALSE, victims |-> {}]

Changed(p)  == [kind |-> "changed", path |-> p, dest |-> NoPath]
Deleted(p)  == [kind |-> "deleted", path |-> p, dest |-> NoPath]
Moved(p, q) == [kind |-> "moved", path |-> p, dest |-> q]
EventPaths(e) == {e.path, e.dest} \ {NoPath}

\* The paths that events have mentioned, where they wait to be acted upon.
Queued  == UNION {EventPaths(queue[i]) : i \in DOMAIN queue}
Sources == {p \in Paths : handler.moved[p] # NoPath}
Dests   == {handler.moved[p] : p \in Sources}
Heard   == handler.changed \cup handler.deleted \cup Sources \cup Dests
Waiting == batch.delete \cup batch.sync

Recorded == {p \in Paths : nodes[p] # Absent}

\* What the database should hold of p.
Desired(p) ==
    IF p \in included /\ Priority[p] >= MinPriority THEN fs[p] ELSE Absent
UpToDate(p) ==
    /\ nodes[p] = Desired(p)
    /\ Desired(p) # Absent => index[p] = fs[p]

Init ==
    /\ fs = [p \in Paths |-> Absent]
    /\ included \in SUBSET Paths
    /\ changes = 0
    /\ up = TRUE
    /\ snapshot = included
    /\ queue = <<>>
    /\ handler = NoEvents
    /\ batch = NoBatch
    /\ job = [a \in Actors |-> NoJob]
    /\ nodes = [p \in Paths |-> Absent]
    /\ index = [p \in Paths |-> Absent]
    /\ pruning = {}
    /\ missed = {}
    /\ evicted = {}

-----------------------------------------------------------------------------
(* Files change *)

\* While the daemon is up every change is an event; otherwise nobody sees it.
Notice(e) ==
    /\ changes < MaxChanges
    /\ changes' = changes + 1
    /\ IF up
         THEN /\ Len(queue) < MaxQueue
              /\ queue' = Append(queue, e)
              /\ missed' = missed \ EventPaths(e)
         ELSE /\ missed' = missed \cup EventPaths(e)
              /\ UNCHANGED queue
    /\ UNCHANGED <<included, up, snapshot, handler, batch, job, stores, pruning, evicted>>

WriteFile(p) ==
    /\ Notice(Changed(p))
    /\ fs' = [fs EXCEPT ![p] = changes + 1]

DeleteFile(p) ==
    /\ fs[p] # Absent
    /\ Notice(Deleted(p))
    /\ fs' = [fs EXCEPT ![p] = Absent]

MoveFile(p, q) ==
    /\ p # q
    /\ fs[p] # Absent
    /\ Notice(Moved(p, q))
    /\ fs' = [fs EXCEPT ![q] = fs[p], ![p] = Absent]

\* `monitor filter add/remove`: only the configuration file changes.
ChangeFilter(S) ==
    /\ "config" \in Faults
    /\ changes < MaxChanges
    /\ changes' = changes + 1
    /\ included' = S
    /\ missed' = missed \cup (Paths \ {p \in Paths : p \in S <=> p \in included})
    /\ UNCHANGED <<fs, loop, job, stores, pruning, evicted>>

-----------------------------------------------------------------------------
(* The observer thread: _EventHandler *)

\* _moved is a dict keyed by source: a second move of the same name replaces
\* the first, and with it the only mention of the first destination.
Deliver ==
    /\ up
    /\ queue # <<>>
    /\ LET e == Head(queue) IN
         /\ handler' =
              CASE e.kind = "changed" -> [handler EXCEPT !.changed = @ \cup {e.path}]
                [] e.kind = "deleted" -> [handler EXCEPT !.deleted = @ \cup {e.path}]
                [] e.kind = "moved"   -> [handler EXCEPT !.moved[e.path] = e.dest]
         /\ missed' = IF e.kind = "moved" /\ handler.moved[e.path] # e.dest
                        THEN missed \cup ({handler.moved[e.path]} \ {NoPath})
                        ELSE missed
    /\ queue' = Tail(queue)
    /\ UNCHANGED <<files, up, snapshot, batch, job, stores, pruning, evicted>>

-----------------------------------------------------------------------------
(* The daemon's loop: process_events *)

\* Auxiliary: events a filter of another day drops, or drops while a command is
\* at work on the path.
Dropped == {p \in Heard \ snapshot :
              p \in included \/ ~UpToDate(p) \/ \E a \in Commands : job[a].path = p}

\* Mutant: no path is filtered or checked.
DrainUnfiltered ==
    /\ up
    /\ job[Daemon].pc = "idle"
    /\ batch = NoBatch
    /\ handler # NoEvents
    /\ batch' = [delete |-> handler.deleted \cup Sources,
                 sync   |-> handler.changed \cup {handler.moved[p] : p \in Paths}]
    /\ handler' = NoEvents
    /\ UNCHANGED <<files, up, snapshot, queue, job, stores, pruning, missed, evicted>>

\* get_and_clear_events, and the choice of what to delete and to sync, by the
\* configuration the daemon started with.
Drain ==
    /\ up
    /\ job[Daemon].pc = "idle"
    /\ batch = NoBatch
    /\ handler # NoEvents
    /\ batch' = [delete |-> (handler.deleted \cup Sources) \cap snapshot,
                 sync   |-> (handler.changed \cup Dests) \cap snapshot]
    /\ handler' = NoEvents
    /\ missed' = missed \cup Dropped
    /\ UNCHANGED <<files, up, snapshot, queue, job, stores, pruning, evicted>>

SetJob(a, r) == job' = [job EXCEPT ![a] = r]
Ready(p)     == [NoJob EXCEPT !.pc = "check", !.path = p]

\* First every path to delete, then every path to sync.
NextPath ==
    /\ up
    /\ job[Daemon].pc = "idle"
    /\ \/ \E p \in batch.delete :
            /\ batch' = [batch EXCEPT !.delete = @ \ {p}]
            /\ SetJob(Daemon, Ready(p))
       \/ /\ batch.delete = {}
          /\ \E p \in batch.sync :
               /\ batch' = [batch EXCEPT !.sync = @ \ {p}]
               /\ SetJob(Daemon, Ready(p))
    /\ UNCHANGED <<files, up, snapshot, queue, handler, stores, pruning, missed, evicted>>

\* `wksc monitor sync <path>`
CommandSync(a, p) ==
    /\ job[a].pc = "idle"
    /\ SetJob(a, Ready(p))
    /\ UNCHANGED <<files, loop, stores, pruning, missed, evicted>>

-----------------------------------------------------------------------------
(* sync_uri_steps and _sync_path_static *)

Goto(a, pc) == SetJob(a, [job[a] EXCEPT !.pc = pc])

\* The records of the paths in S are deleted while a goes on as r.  Whoever
\* else was about to delete one of them by its _id will not find it.
Delete(S, a, r) ==
    /\ nodes' = [p \in Paths |-> IF p \in S THEN Absent ELSE nodes[p]]
    /\ job' = [b \in Actors |-> IF b = a THEN r ELSE [job[b] EXCEPT !.victims = @ \ S]]
    /\ pruning' = pruning \ S

\* Mutant: a path whose file is missing is skipped.
SyncCheckKeeps(a) ==
    /\ job[a].pc = "check"
    /\ IF fs[job[a].path] = Absent THEN SetJob(a, NoJob) ELSE Goto(a, "read")
    /\ UNCHANGED <<files, loop, stores, pruning, missed, evicted>>

\* path_obj.exists()
SyncCheck(a) ==
    /\ job[a].pc = "check"
    /\ Goto(a, IF fs[job[a].path] = Absent THEN "remove" ELSE "read")
    /\ UNCHANGED <<files, loop, stores, pruning, missed, evicted>>

\* Auxiliary: a acts on p while another process, which has looked at p already,
\* has still to act on it, or is about to prune it.
Crossing(a) ==
    {p \in {job[a].path} :
       \/ \E b \in Actors \ {a} : job[b].path = p /\ job[b].pc \in {"remove", "read", "write"}
       \/ p \in pruning}
MissCrossing(a) == missed' = missed \cup Crossing(a)

SyncRemove(a) ==
    /\ job[a].pc = "remove"
    /\ Delete({job[a].path}, a, NoJob)
    /\ MissCrossing(a)
    /\ UNCHANGED <<files, loop, index, evicted>>

\* A file that has vanished ends the synchronisation, or is skipped.  Excluded
\* by the configuration as it is now: the record goes.  Not important enough:
\* skipped.
SyncRead(a) ==
    LET p == job[a].path IN
    /\ job[a].pc = "read"
    /\ \/ /\ fs[p] = Absent
          /\ SetJob(a, NoJob) \/ Goto(a, "pick")
          /\ UNCHANGED <<nodes, pruning>>
       \/ /\ p \notin included
          /\ Delete({p}, a, [job[a] EXCEPT !.pc = "pick"])
       \/ /\ p \in included /\ fs[p] # Absent
          /\ IF Priority[p] < MinPriority
               THEN Goto(a, "pick")
               ELSE SetJob(a, [job[a] EXCEPT !.pc = "write", !.seen = fs[p]])
          /\ UNCHANGED <<nodes, pruning>>
    /\ MissCrossing(a)
    /\ UNCHANGED <<files, loop, index, evicted>>

\* The record is updated or inserted with the checksum read before.
SyncWrite(a) ==
    LET p == job[a].path IN
    /\ job[a].pc = "write"
    /\ nodes' = [nodes EXCEPT ![p] = job[a].seen]
    /\ SetJob(a, [job[a] EXCEPT !.pc = "pick", !.synced = TRUE])
    /\ evicted' = evicted \ {p}
    /\ MissCrossing(a)
    /\ UNCHANGED <<files, loop, index, pruning>>

\* Mutant: one record too many is evicted.
ExcessGreedy ==
    IF MaxDocuments = 0 \/ Cardinality(Recorded) <= MaxDocuments
      THEN 0 ELSE Cardinality(Recorded) - MaxDocuments + 1

\* _enforce_monitor_db_limit: the records of least priority beyond the limit
Excess == IF MaxDocuments = 0 \/ Cardinality(Recorded) <= MaxDocuments
            THEN 0 ELSE Cardinality(Recorded) - MaxDocuments

Lowest(n) == {V \in SUBSET Recorded :
                /\ Cardinality(V) = n
                /\ \A v \in V, p \in Recorded \ V : Priority[v] <= Priority[p]}

\* _auto_index follows a synchronisation by the daemon that wrote a record.
AfterLimit(a) ==
    IF a = Daemon /\ job[a].synced
      THEN [job[a] EXCEPT !.pc = "index", !.victims = {}] ELSE NoJob

\* Mutant: only the daemon keeps to the limit.
LimitPickDaemon(a) ==
    /\ job[a].pc = "pick"
    /\ \E V \in Lowest(Excess) :
         SetJob(a, IF V = {} \/ a # Daemon THEN AfterLimit(a)
                   ELSE [job[a] EXCEPT !.pc = "evict", !.victims = V])
    /\ UNCHANGED <<files, loop, stores, pruning, missed, evicted>>

LimitPick(a) ==
    /\ job[a].pc = "pick"
    /\ \E V \in Lowest(Excess) :
         SetJob(a, IF V = {} THEN AfterLimit(a)
                   ELSE [job[a] EXCEPT !.pc = "evict", !.victims = V])
    /\ UNCHANGED <<files, loop, stores, pruning, missed, evicted>>

LimitEvict(a) ==
    /\ job[a].pc = "evict"
    /\ Delete(job[a].victims, a, AfterLimit(a))
    /\ evicted' = evicted \cup job[a].victims
    /\ UNCHANGED <<files, loop, index, missed>>

\* Mutant: what is in the index already is not indexed again.
AutoIndexOnce(a) ==
    LET p == job[a].path IN
    /\ job[a].pc = "index"
    /\ index' = IF fs[p] = Absent \/ index[p] # Absent THEN index
                ELSE [index EXCEPT ![p] = fs[p]]
    /\ SetJob(a, NoJob)
    /\ UNCHANGED <<files, loop, nodes, pruning, missed, evicted>>

AutoIndex(a) ==
    LET p == job[a].path IN
    /\ job[a].pc = "index"
    /\ index' = IF fs[p] = Absent THEN index ELSE [index EXCEPT ![p] = fs[p]]
    /\ SetJob(a, NoJob)
    /\ UNCHANGED <<files, loop, nodes, pruning, missed, evicted>>

Sync(a) ==
    \/ SyncCheck(a) \/ SyncRemove(a) \/ SyncRead(a) \/ SyncWrite(a)
    \/ LimitPick(a) \/ LimitEvict(a) \/ AutoIndex(a)

-----------------------------------------------------------------------------
(* What may go wrong *)

\* A database operation or the transform raises: the error is logged and the
\* path forgotten.
DatabaseFails(a) ==
    /\ "database" \in Faults
    /\ job[a].pc \in {"remove", "read", "write", "index"}
    /\ missed' = missed \cup {job[a].path}
    /\ IF job[a].pc = "write" THEN Goto(a, "pick") ELSE SetJob(a, NoJob)
    /\ UNCHANGED <<files, loop, stores, pruning, evicted>>

\* In the enforcement of the limit nothing is logged, and the rest goes on.
LimitFails(a) ==
    /\ "database" \in Faults
    /\ job[a].pc \in {"pick", "evict"}
    /\ SetJob(a, AfterLimit(a))
    /\ UNCHANGED <<files, loop, stores, pruning, missed, evicted>>

\* The daemon dies, or stops with events it has not drained.
DaemonDies ==
    /\ "death" \in Faults
    /\ up
    /\ up' = FALSE
    /\ queue' = <<>>
    /\ handler' = NoEvents
    /\ batch' = NoBatch
    /\ SetJob(Daemon, NoJob)
    /\ missed' = missed \cup Queued \cup Heard \cup Waiting
                        \cup ({job[Daemon].path} \ {NoPath})
    /\ UNCHANGED <<files, snapshot, stores, pruning, evicted>>

\* It starts with the configuration of the moment, and without a scan.
DaemonStarts ==
    /\ ~up
    /\ up' = TRUE
    /\ snapshot' = included
    /\ UNCHANGED <<files, queue, handler, batch, job, stores, pruning, missed, evicted>>

\* `wksc database prune nodes`: it lists the records whose file is missing ...
PruneScan ==
    /\ "prune" \in Faults
    /\ pruning = {}
    /\ pruning' = {p \in Recorded : fs[p] = Absent}
    /\ UNCHANGED <<files, loop, job, stores, missed, evicted>>

\* ... and deletes them by their _id, which a later update has kept.
PruneDelete ==
    /\ pruning # {}
    /\ Delete(pruning, Daemon, [job[Daemon] EXCEPT !.victims = @ \ pruning])
    /\ UNCHANGED <<files, loop, index, missed, evicted>>

-----------------------------------------------------------------------------
Change ==
    \/ \E p \in Paths : WriteFile(p) \/ DeleteFile(p)
    \/ \E p, q \in Paths : MoveFile(p, q)
    \/ \E S \in SUBSET Paths : ChangeFilter(S)

DaemonStep == Deliver \/ Drain \/ NextPath \/ Sync(Daemon)

Next ==
    \/ Change
    \/ DaemonStep
    \/ \E a \in Commands : (\E p \in Paths : CommandSync(a, p)) \/ Sync(a)
    \/ \E a \in Actors : DatabaseFails(a) \/ LimitFails(a)
    \/ DaemonDies \/ DaemonStarts
    \/ PruneScan \/ PruneDelete

Safety == Init /\ [][Next]_vars

\* The observer delivers, the loop comes round every sync interval, a database
\* operation returns.
Fairness ==
    /\ WF_vars(Deliver)
    /\ WF_vars(Drain \/ NextPath \/ Sync(Daemon))
    /\ \A a \in Commands : WF_vars(Sync(a))

Spec == Safety /\ Fairness

-----------------------------------------------------------------------------
TypeOK ==
    /\ fs \in [Paths -> Content]
    /\ included \in SUBSET Paths
    /\ changes \in Nat
    /\ up \in BOOLEAN
    /\ snapshot \in SUBSET Paths
    /\ queue \in Seq([kind : {"changed", "deleted", "moved"}, path : Paths,
                      dest : Paths \cup {NoPath}])
    /\ handler \in [changed : SUBSET Paths, deleted : SUBSET Paths,
                    moved : [Paths -> Paths \cup {NoPath}]]
    /\ batch \in [delete : SUBSET Paths, sync : SUBSET Paths]
    /\ job \in [Actors -> [pc : {"idle", "check", "remove", "read", "write", "pick",
                                "evict", "index"},
                           path : Paths \cup {NoPath}, seen : Content,
                           synced : BOOLEAN, victims : SUBSET Paths]]
    /\ \A a \in Actors : job[a].pc # "idle" => job[a].path \in Paths
    /\ nodes \in [Paths -> Content]
    /\ index \in [Paths -> Content]
    /\ pruning \in SUBSET Paths
    /\ missed \in SUBSET Paths
    /\ evicted \in SUBSET Paths

(* What the loop owes the user *)

\* The daemon's own synchronisation of p will still bring the record up to date.
InHand(p) ==
    /\ job[Daemon].path = p
    /\ \/ job[Daemon].pc = "check"
       \/ job[Daemon].pc = "remove" /\ fs[p] = Absent
       \/ job[Daemon].pc = "read" /\ fs[p] # Absent
       \/ job[Daemon].pc = "write" /\ fs[p] = job[Daemon].seen

Pending(p) == p \in Queued \cup Heard \cup Waiting \/ InHand(p)

\* A record that disagrees with its file is going to be looked at again, unless
\* its last change was one of those nobody acts on: made while no daemon ran or
\* lost with it, dropped by a failing database or an outdated filter, the first
\* of two moves of one name, or seen by two processes that synchronised or pruned
\* the path at the same time.
NothingForgotten ==
    \A p \in Paths :
      \/ nodes[p] = Desired(p)
      \/ Pending(p)
      \/ p \in missed
      \/ p \in evicted /\ nodes[p] = Absent

\* The same of the text in the index, for files that belong there.
IndexFollows ==
    \A p \in Paths :
      \/ Desired(p) = Absent
      \/ index[p] = fs[p]
      \/ Pending(p)
      \/ p \in missed
      \/ job[Daemon].path = p /\ job[Daemon].synced

\* Between synchronisations the database is within its limit ...
LimitHolds ==
    MaxDocuments # 0 /\ (\A a \in Actors : job[a].pc = "idle")
      => Cardinality(Recorded) <= MaxDocuments

\* ... and no more is evicted than the limit asks for.
EvictsOnlyExcess ==
    [][\A a \in Actors :
         job[a].pc = "evict" /\ job'[a].pc # "evict"
           => Cardinality(Recorded') >= MaxDocuments \/ ~up']_vars

\* Once files and configuration stay as they are, the database comes to agree
\* with every file that belongs in it (but those the loop cannot know about).
Settled == \A p \in Paths : nodes[p] = Desired(p) \/ p \in missed \/ p \in evicted
Converges == <>[]Settled

=============================================================================
