----------------------------- MODULE WatchLoopProofs -----------------------------
(***************************************************************************)
(* What WatchLoop guarantees for every set of paths, priorities, limit,     *)
(* number of sync commands, changes and events.                             *)
(***************************************************************************)
EXTENDS WatchLoop, FiniteSetTheorems, TLAPS

-----------------------------------------------------------------------------
(* The inductive invariant *)

\* Somebody will look at p, or the last change of p is known to be lost.
Owed(p) == p \in Queued \cup Heard \cup Waiting \/ p \in missed
Due(p)  == Owed(p) \/ InHand(p)

\* A move is told with both its names.
EventsOK ==
    \A i \in DOMAIN queue :
      /\ queue[i].kind = "moved" => queue[i].dest \in Paths
      /\ queue[i].kind # "moved" => queue[i].dest = NoPath

\* The record that a is about to leave is the desired one, or p is looked at again: by
\* the daemon's present synchronisation too, if it is not the one that leaves it.
Leaves(a, value) ==
    LET p == job[a].path IN
    \/ Desired(p) = value
    \/ Owed(p)
    \/ (a # Daemon /\ InHand(p))

JobSound(a) ==
    /\ job[a].pc = "write" =>
         Priority[job[a].path] >= MinPriority /\ Leaves(a, job[a].seen)
    /\ job[a].pc = "remove" => Leaves(a, Absent)
    /\ job[a].synced => job[a].pc \in {"pick", "evict", "index"}

PruneSound == \A p \in pruning : Desired(p) = Absent \/ Due(p)

\* The database holds no record of a path below the least priority.
LowUnrecorded == \A p \in Paths : Priority[p] < MinPriority => nodes[p] = Absent

RecordOK(p) ==
    \/ nodes[p] = Desired(p)
    \/ Due(p)
    \/ (p \in evicted /\ nodes[p] = Absent)

TextOK(p) ==
    \/ Desired(p) = Absent
    \/ index[p] = fs[p]
    \/ Due(p)
    \/ (job[Daemon].path = p /\ job[Daemon].synced)

FollowInv ==
    /\ EventsOK
    /\ LowUnrecorded
    /\ PruneSound
    /\ \A a \in Actors : JobSound(a)
    /\ \A p \in Paths : RecordOK(p) /\ TextOK(p)

WatchInv == TypeOK /\ FollowInv

-----------------------------------------------------------------------------
(* The records the state is made of *)

JobPCs == {"idle", "check", "remove", "read", "write", "pick", "evict", "index"}
Job == [pc : JobPCs, path : Paths \cup {NoPath}, seen : Content, synced : BOOLEAN,
        victims : SUBSET Paths]
Event == [kind : {"changed", "deleted", "moved"}, path : Paths, dest : Paths \cup {NoPath}]
Handler == [changed : SUBSET Paths, deleted : SUBSET Paths,
            moved : [Paths -> Paths \cup {NoPath}]]
Batch == [delete : SUBSET Paths, sync : SUBSET Paths]

LEMMA JobFields ==
  ASSUME NEW A, NEW P, NEW S, NEW B, NEW V,
         NEW r \in [pc : A, path : P, seen : S, synced : B, victims : V],
         NEW pc \in A, NEW s \in S, NEW b \in B, NEW v \in V
  PROVE  LET R == [pc : A, path : P, seen : S, synced : B, victims : V]
             r1 == [r EXCEPT !.pc = pc]
             r2 == [r EXCEPT !.pc = pc, !.seen = s]
             r3 == [r EXCEPT !.pc = pc, !.synced = b]
             r4 == [r EXCEPT !.pc = pc, !.victims = v]
             r5 == [r EXCEPT !.victims = v]
         IN  /\ r1 \in R /\ r1.pc = pc /\ r1.path = r.path /\ r1.seen = r.seen
                /\ r1.synced = r.synced /\ r1.victims = r.victims
             /\ r2 \in R /\ r2.pc = pc /\ r2.path = r.path /\ r2.seen = s
                /\ r2.synced = r.synced /\ r2.victims = r.victims
             /\ r3 \in R /\ r3.pc = pc /\ r3.path = r.path /\ r3.seen = r.seen
                /\ r3.synced = b /\ r3.victims = r.victims
             /\ r4 \in R /\ r4.pc = pc /\ r4.path = r.path /\ r4.seen = r.seen
                /\ r4.synced = r.synced /\ r4.victims = v
             /\ r5 \in R /\ r5.pc = r.pc /\ r5.path = r.path /\ r5.seen = r.seen
                /\ r5.synced = r.synced /\ r5.victims = v
  OBVIOUS

LEMMA JobGoes ==
  ASSUME NEW old \in Job, NEW pc \in JobPCs
  PROVE  LET x == [old EXCEPT !.pc = pc]
         IN  /\ x \in Job /\ x.pc = pc /\ x.path = old.path /\ x.seen = old.seen
             /\ x.victims = old.victims /\ x.synced = old.synced
<1>1. old.seen \in Content /\ old.synced \in BOOLEAN /\ old.victims \in SUBSET Paths
  BY DEF Job
<1> QED
  BY <1>1, JobFields DEF Job

LEMMA JobSees ==
  ASSUME NEW old \in Job, NEW pc \in JobPCs, NEW s \in Content
  PROVE  LET x == [old EXCEPT !.pc = pc, !.seen = s]
         IN  /\ x \in Job /\ x.pc = pc /\ x.path = old.path /\ x.seen = s
             /\ x.victims = old.victims /\ x.synced = old.synced
<1>1. old.seen \in Content /\ old.synced \in BOOLEAN /\ old.victims \in SUBSET Paths
  BY DEF Job
<1> QED
  BY <1>1, JobFields DEF Job

LEMMA JobSyncs ==
  ASSUME NEW old \in Job, NEW pc \in JobPCs
  PROVE  LET x == [old EXCEPT !.pc = pc, !.synced = TRUE]
         IN  /\ x \in Job /\ x.pc = pc /\ x.path = old.path /\ x.seen = old.seen
             /\ x.victims = old.victims /\ x.synced = TRUE
<1>1. old.seen \in Content /\ old.synced \in BOOLEAN /\ old.victims \in SUBSET Paths
  BY DEF Job
<1> QED
  BY <1>1, JobFields DEF Job

LEMMA JobTargets ==
  ASSUME NEW old \in Job, NEW pc \in JobPCs, NEW V \in SUBSET Paths
  PROVE  LET x == [old EXCEPT !.pc = pc, !.victims = V]
         IN  /\ x \in Job /\ x.pc = pc /\ x.path = old.path /\ x.seen = old.seen
             /\ x.victims = V /\ x.synced = old.synced
<1>1. old.seen \in Content /\ old.synced \in BOOLEAN /\ old.victims \in SUBSET Paths
  BY DEF Job
<1> QED
  BY <1>1, JobFields DEF Job

LEMMA PickWrite == "pick" \in JobPCs /\ "write" \in JobPCs /\ "evict" \in JobPCs
  BY DEF JobPCs

LEMMA JobStart ==
  /\ NoJob \in Job /\ NoJob.pc = "idle" /\ NoJob.path = NoPath /\ ~NoJob.synced
  /\ \A p \in Paths : /\ Ready(p) \in Job /\ Ready(p).pc = "check" /\ Ready(p).path = p
                      /\ ~Ready(p).synced
<1>1. NoJob \in Job /\ NoJob.pc = "idle" /\ NoJob.path = NoPath
  BY DEF NoJob, Job, JobPCs, Content, Absent
<1>2. ~NoJob.synced
  BY DEF NoJob
<1>3. ASSUME NEW p \in Paths
      PROVE  /\ Ready(p) \in Job /\ Ready(p).pc = "check" /\ Ready(p).path = p
             /\ ~Ready(p).synced
  <2>1. PICK r \in Job : r = NoJob
    BY <1>1
  <2>2. Ready(p) = [r EXCEPT !.pc = "check", !.path = p]
    BY <2>1 DEF Ready
  <2>3. Ready(p) \in Job
    BY <2>2 DEF Job, JobPCs
  <2>4. Ready(p).pc = "check" /\ Ready(p).path = p
    BY <2>2 DEF Job, JobPCs
  <2>5. Ready(p).synced = r.synced
    BY <2>2 DEF Job, JobPCs
  <2> QED
    BY <1>2, <2>1, <2>3, <2>4, <2>5
<1> QED
  BY <1>1, <1>2, <1>3

-----------------------------------------------------------------------------
(* A step of one synchronisation, and what it does to the others *)

\* b goes on where it was; only its victims may have become fewer.
Undisturbed(b) ==
    /\ job'[b].pc = job[b].pc /\ job'[b].path = job[b].path /\ job'[b].seen = job[b].seen
    /\ job'[b].synced => job[b].synced
    /\ job[b].synced => job'[b].synced

LEMMA JobTypes == ASSUME TypeOK PROVE job \in [Actors -> Job]
  BY DEF TypeOK, Job, JobPCs

LEMMA SetJobTakes ==
  ASSUME TypeOK, NEW a \in Actors, NEW r \in Job, SetJob(a, r)
  PROVE  /\ job' \in [Actors -> Job]
         /\ job'[a] = r
         /\ \A b \in Actors \ {a} : Undisturbed(b)
<1>1. job \in [Actors -> Job] /\ job' = [job EXCEPT ![a] = r]
  BY JobTypes DEF SetJob
<1>2. \A b \in Actors \ {a} : job'[b] = job[b]
  BY <1>1
<1> QED
  BY <1>1, <1>2 DEF Undisturbed

LEMMA FewerVictims ==
  ASSUME NEW r \in Job, NEW S
  PROVE  LET q == [r EXCEPT !.victims = @ \ S]
         IN  /\ q \in Job /\ q.pc = r.pc /\ q.path = r.path /\ q.seen = r.seen
             /\ q.synced = r.synced /\ q.victims = r.victims \ S
<1>1. r.victims \ S \in SUBSET Paths /\ r.pc \in JobPCs /\ r.seen \in Content
      /\ r.synced \in BOOLEAN
  BY DEF Job
<1>2. [r EXCEPT !.victims = @ \ S] = [r EXCEPT !.victims = r.victims \ S]
  OBVIOUS
<1> QED
  BY <1>1, <1>2, JobFields DEF Job

LEMMA DeleteTakes ==
  ASSUME TypeOK, NEW S, NEW a \in Actors, NEW r \in Job, Delete(S, a, r)
  PROVE  /\ job' \in [Actors -> Job]
         /\ job'[a] = r
         /\ \A b \in Actors \ {a} : Undisturbed(b) /\ job'[b].victims = job[b].victims \ S
         /\ nodes' \in [Paths -> Content]
         /\ \A p \in Paths : nodes'[p] = IF p \in S THEN Absent ELSE nodes[p]
         /\ pruning' = pruning \ S
<1>1. job \in [Actors -> Job]
  BY JobTypes
<1>2. ASSUME NEW b \in Actors \ {a}
      PROVE  Undisturbed(b) /\ job'[b].victims = job[b].victims \ S /\ job'[b] \in Job
  <2>1. job'[b] = [job[b] EXCEPT !.victims = @ \ S] /\ job[b] \in Job
    BY <1>1 DEF Delete
  <2> QED
    BY <2>1, FewerVictims DEF Undisturbed
<1>3. job'[a] = r
  BY DEF Delete
<1>4. job' \in [Actors -> Job]
  <2> DEFINE f(b) == IF b = a THEN r ELSE [job[b] EXCEPT !.victims = @ \ S]
  <2>1. job' = [b \in Actors |-> f(b)]
    BY DEF Delete
  <2>2. \A b \in Actors : f(b) \in Job
    BY <1>1, FewerVictims
  <2> HIDE DEF f
  <2> QED
    BY <2>1, <2>2
<1>5. /\ nodes' \in [Paths -> Content]
      /\ \A p \in Paths : nodes'[p] = IF p \in S THEN Absent ELSE nodes[p]
      /\ pruning' = pruning \ S
  BY DEF Delete, TypeOK, Content, Absent
<1> QED
  BY <1>2, <1>3, <1>4, <1>5

LEMMA GotoTakes ==
  ASSUME TypeOK, NEW a \in Actors, NEW pc \in JobPCs, Goto(a, pc)
  PROVE  /\ job' \in [Actors -> Job]
         /\ job'[a].pc = pc /\ job'[a].path = job[a].path /\ job'[a].seen = job[a].seen
         /\ job'[a].victims = job[a].victims
         /\ job'[a].synced = job[a].synced
         /\ \A b \in Actors \ {a} : Undisturbed(b)
<1> DEFINE r == [job[a] EXCEPT !.pc = pc]
<1>1. /\ job[a] \in Job /\ job[a].seen \in Content /\ job[a].synced \in BOOLEAN
      /\ job[a].victims \in SUBSET Paths
  BY JobTypes DEF Job
<1>2. /\ r \in Job /\ r.pc = pc /\ r.path = job[a].path /\ r.seen = job[a].seen
      /\ r.victims = job[a].victims /\ r.synced = job[a].synced
  BY <1>1, JobFields DEF Job
<1>3. SetJob(a, r)
  BY DEF Goto
<1> HIDE DEF r
<1> QED
  BY <1>2, <1>3, SetJobTakes

LEMMA AfterLimitTakes ==
  ASSUME TypeOK, NEW a \in Actors
  PROVE  /\ AfterLimit(a) \in Job
         /\ AfterLimit(a).pc \in {"idle", "index"}
         /\ AfterLimit(a).pc = "index" => AfterLimit(a).path = job[a].path
                                          /\ a = Daemon /\ job[a].synced
         /\ a = Daemon /\ job[a].synced => /\ AfterLimit(a).path = job[a].path
                                           /\ AfterLimit(a).synced
         /\ AfterLimit(a).synced => AfterLimit(a).pc = "index"
<1>1. /\ job[a] \in Job /\ job[a].seen \in Content /\ job[a].synced \in BOOLEAN
      /\ {} \in SUBSET Paths /\ "index" \in JobPCs
  BY JobTypes DEF Job, JobPCs
<1> DEFINE r == [job[a] EXCEPT !.pc = "index", !.victims = {}]
<1>2. /\ r \in Job /\ r.pc = "index" /\ r.path = job[a].path
      /\ r.synced = job[a].synced
  BY <1>1, JobFields DEF Job
<1>3. AfterLimit(a) = IF a = Daemon /\ job[a].synced THEN r ELSE NoJob
  BY DEF AfterLimit
<1> HIDE DEF r
<1> QED
  BY <1>2, <1>3, JobStart

-----------------------------------------------------------------------------
(* Type correctness *)

\* A step of one synchronisation: the files and the loop stay as they are.
LEMMA WorkTypes ==
  ASSUME TypeOK, UNCHANGED <<files, loop>>, NEW a \in Actors,
         job' \in [Actors -> Job], \A b \in Actors \ {a} : Undisturbed(b),
         job'[a].pc # "idle" => job'[a].path \in Paths,
         nodes' \in [Paths -> Content], index' \in [Paths -> Content],
         pruning' \in SUBSET Paths, missed' \in SUBSET Paths, evicted' \in SUBSET Paths
  PROVE  TypeOK'
<1>1. \A b \in Actors : job'[b].pc # "idle" => job'[b].path \in Paths
  <2> SUFFICES ASSUME NEW b \in Actors, b # a, job'[b].pc # "idle"
               PROVE  job'[b].path \in Paths
    OBVIOUS
  <2> QED
    BY DEF Undisturbed, TypeOK
<1>2. /\ fs' \in [Paths -> Content] /\ included' \in SUBSET Paths /\ changes' \in Nat
      /\ snapshot' \in SUBSET Paths
      /\ queue' \in Seq(Event) /\ handler' \in Handler /\ batch' \in Batch
  BY DEF TypeOK, files, loop, Event, Handler, Batch
<1>3. up' \in BOOLEAN
  BY DEF TypeOK, loop
<1> QED
  BY <1>1, <1>2, <1>3 DEF TypeOK, Job, JobPCs, Event, Handler, Batch

LEMMA CrossingPaths ==
  ASSUME TypeOK, NEW a \in Actors, job[a].pc # "idle", MissCrossing(a)
  PROVE  /\ missed' \in SUBSET Paths
         /\ missed \subseteq missed'
         /\ \A b \in Actors \ {a} : job[b].path = job[a].path
              /\ job[b].pc \in {"remove", "read", "write"} => job[a].path \in missed'
         /\ job[a].path \in pruning => job[a].path \in missed'
  BY DEF MissCrossing, Crossing, TypeOK

LEMMA SyncTypes ==
  ASSUME TypeOK, NEW a \in Actors,
         Sync(a) \/ DatabaseFails(a) \/ LimitFails(a)
  PROVE  TypeOK'
<1> DEFINE q == job[a].path
<1>1. UNCHANGED <<files, loop>>
  BY DEF Sync, SyncCheck, SyncRemove, SyncRead, SyncWrite, LimitPick, LimitEvict, AutoIndex,
         DatabaseFails, LimitFails
<1>2. job[a].pc # "idle" /\ q \in Paths
  BY DEF Sync, SyncCheck, SyncRemove, SyncRead, SyncWrite, LimitPick, LimitEvict, AutoIndex,
         DatabaseFails, LimitFails, TypeOK
<1>3. job[a] \in Job /\ job[a].seen \in Content /\ job[a].victims \in SUBSET Paths
      /\ job[a].synced \in BOOLEAN
  BY JobTypes DEF Job
<1>4. /\ nodes \in [Paths -> Content] /\ index \in [Paths -> Content] /\ pruning \in SUBSET Paths
      /\ missed \in SUBSET Paths /\ evicted \in SUBSET Paths /\ fs \in [Paths -> Content]
  BY DEF TypeOK
<1> DEFINE Going(r) == r \in Job /\ (r.pc # "idle" => r.path \in Paths)
<1>5. Going(NoJob) /\ Going(AfterLimit(a))
  BY <1>2, JobStart, AfterLimitTakes
\* The next job is one of these, by Goto, by SetJob or with a Delete.
<1>6. ASSUME NEW pc \in JobPCs, Goto(a, pc)
      PROVE  /\ job' \in [Actors -> Job] /\ \A b \in Actors \ {a} : Undisturbed(b)
             /\ job'[a].pc # "idle" => job'[a].path \in Paths
  BY <1>2, <1>6, GotoTakes
<1>7. ASSUME NEW r, Going(r), SetJob(a, r)
      PROVE  /\ job' \in [Actors -> Job] /\ \A b \in Actors \ {a} : Undisturbed(b)
             /\ job'[a].pc # "idle" => job'[a].path \in Paths
  BY <1>7, SetJobTakes
<1>8. ASSUME NEW r, Going(r), NEW S, Delete(S, a, r)
      PROVE  /\ job' \in [Actors -> Job] /\ \A b \in Actors \ {a} : Undisturbed(b)
             /\ job'[a].pc # "idle" => job'[a].path \in Paths
             /\ nodes' \in [Paths -> Content] /\ pruning' \in SUBSET Paths
  <2>1. /\ job' \in [Actors -> Job] /\ job'[a] = r
        /\ \A b \in Actors \ {a} : Undisturbed(b)
        /\ nodes' \in [Paths -> Content] /\ pruning' = pruning \ S
    BY <1>8, DeleteTakes
  <2> QED
    BY <1>4, <1>8, <2>1
<1> HIDE DEF Going
<1>9. CASE SyncCheck(a)
  <2>1. PICK pc \in JobPCs : Goto(a, pc)
    BY <1>9 DEF SyncCheck, JobPCs
  <2>2. UNCHANGED <<stores, pruning, missed, evicted>>
    BY <1>9 DEF SyncCheck
  <2> QED
    BY <1>1, <1>4, <1>6, <2>1, <2>2, WorkTypes DEF stores
<1>10. CASE SyncRemove(a)
  <2>1. Delete({q}, a, NoJob) /\ MissCrossing(a) /\ UNCHANGED <<index, evicted>>
    BY <1>10 DEF SyncRemove
  <2> QED
    BY <1>1, <1>2, <1>4, <1>5, <1>8, <2>1, CrossingPaths, WorkTypes
<1>11. CASE SyncRead(a)
  <2>1. MissCrossing(a) /\ UNCHANGED <<index, evicted>>
    BY <1>11 DEF SyncRead
  <2>2. CASE fs[q] = Absent /\ (SetJob(a, NoJob) \/ Goto(a, "pick")) /\ UNCHANGED <<nodes, pruning>>
    BY <1>1, <1>2, <1>4, <1>5, <1>6, <1>7, <2>1, <2>2, CrossingPaths, WorkTypes DEF JobPCs
  <2>3. CASE q \notin included /\ Delete({q}, a, [job[a] EXCEPT !.pc = "pick"])
    <3>1. Going([job[a] EXCEPT !.pc = "pick"])
      BY <1>2, <1>3, JobFields DEF Job, JobPCs, Going
    <3> QED
      BY <1>1, <1>2, <1>4, <1>8, <2>1, <2>3, <3>1, CrossingPaths, WorkTypes
  <2>4. CASE Goto(a, "pick") /\ UNCHANGED <<nodes, pruning>>
    BY <1>1, <1>2, <1>4, <1>6, <2>1, <2>4, CrossingPaths, WorkTypes DEF JobPCs
  <2>5. CASE SetJob(a, [job[a] EXCEPT !.pc = "write", !.seen = fs[q]])
             /\ UNCHANGED <<nodes, pruning>>
    <3>1. Going([job[a] EXCEPT !.pc = "write", !.seen = fs[q]])
      <4>1. PICK s \in Content : s = fs[q]
        BY <1>2, <1>4
      <4>2. Going([job[a] EXCEPT !.pc = "write", !.seen = s])
        BY <1>2, <1>3, JobFields DEF Job, JobPCs, Going
      <4> QED
        BY <4>1, <4>2
    <3> QED
      BY <1>1, <1>2, <1>4, <1>7, <2>1, <2>5, <3>1, CrossingPaths, WorkTypes
  <2> QED
    BY <1>11, <2>2, <2>3, <2>4, <2>5 DEF SyncRead
<1>12. CASE SyncWrite(a)
  <2> DEFINE r == [job[a] EXCEPT !.pc = "pick", !.synced = TRUE]
  <2>1. /\ nodes' = [nodes EXCEPT ![q] = job[a].seen] /\ evicted' = evicted \ {q}
        /\ SetJob(a, r) /\ MissCrossing(a) /\ UNCHANGED <<index, pruning>>
    BY <1>12 DEF SyncWrite
  <2>2. Going(r)
    BY <1>2, <1>3, JobFields DEF Job, JobPCs, Going
  <2>3. nodes' \in [Paths -> Content] /\ evicted' \in SUBSET Paths
    BY <1>3, <1>4, <2>1
  <2> HIDE DEF r
  <2> QED
    BY <1>1, <1>2, <1>4, <1>7, <2>1, <2>2, <2>3, CrossingPaths, WorkTypes
<1>13. CASE LimitPick(a)
  <2>1. PICK V \in Lowest(Excess) :
           SetJob(a, IF V = {} THEN AfterLimit(a)
                     ELSE [job[a] EXCEPT !.pc = "evict", !.victims = V])
    BY <1>13 DEF LimitPick
  <2>2. V \in SUBSET Paths
    BY DEF Lowest, Recorded
  <2>3. Going([job[a] EXCEPT !.pc = "evict", !.victims = V])
    BY <1>2, <1>3, <2>2, JobFields DEF Job, JobPCs, Going
  <2>4. UNCHANGED <<stores, pruning, missed, evicted>>
    BY <1>13 DEF LimitPick
  <2>5. SetJob(a, AfterLimit(a)) \/ SetJob(a, [job[a] EXCEPT !.pc = "evict", !.victims = V])
    BY <2>1
  <2> QED
    BY <1>1, <1>4, <1>5, <1>7, <2>3, <2>4, <2>5, WorkTypes DEF stores
<1>14. CASE LimitEvict(a)
  <2>1. /\ Delete(job[a].victims, a, AfterLimit(a)) /\ evicted' = evicted \cup job[a].victims
        /\ UNCHANGED <<index, missed>>
    BY <1>14 DEF LimitEvict
  <2>2. evicted' \in SUBSET Paths
    BY <1>3, <1>4, <2>1
  <2> QED
    BY <1>1, <1>4, <1>5, <1>8, <2>1, <2>2, WorkTypes
<1>15. CASE AutoIndex(a)
  <2>1. SetJob(a, NoJob) /\ UNCHANGED <<nodes, pruning, missed, evicted>>
    BY <1>15 DEF AutoIndex
  <2>2. index' \in [Paths -> Content]
    BY <1>4, <1>15 DEF AutoIndex
  <2> QED
    BY <1>1, <1>4, <1>5, <1>7, <2>1, <2>2, WorkTypes
<1>16. CASE DatabaseFails(a)
  <2>1. /\ SetJob(a, NoJob) \/ Goto(a, "pick")
        /\ missed' = missed \cup {q} /\ UNCHANGED <<stores, pruning, evicted>>
    BY <1>16 DEF DatabaseFails
  <2>2. missed' \in SUBSET Paths
    BY <1>2, <1>4, <2>1
  <2> QED
    BY <1>1, <1>4, <1>5, <1>6, <1>7, <2>1, <2>2, WorkTypes DEF stores, JobPCs
<1>17. CASE LimitFails(a)
  <2>1. SetJob(a, AfterLimit(a)) /\ UNCHANGED <<stores, pruning, missed, evicted>>
    BY <1>17 DEF LimitFails
  <2> QED
    BY <1>1, <1>4, <1>5, <1>7, <2>1, WorkTypes DEF stores
<1> QED
  BY <1>9, <1>10, <1>11, <1>12, <1>13, <1>14, <1>15, <1>16, <1>17 DEF Sync

\* What events mention are paths.
LEMMA Mentioned ==
  ASSUME TypeOK
  PROVE  /\ Queued \in SUBSET Paths /\ Sources \in SUBSET Paths /\ Dests \in SUBSET Paths
         /\ Heard \in SUBSET Paths /\ Waiting \in SUBSET Paths
<1>1. Queued \in SUBSET Paths
  <2>1. \A i \in DOMAIN queue : queue[i] \in Event
    <3>1. queue \in Seq(Event)
      BY DEF TypeOK, Event
    <3> QED
      BY <3>1
  <2>2. \A i \in DOMAIN queue : EventPaths(queue[i]) \subseteq Paths
    BY <2>1 DEF EventPaths, Event
  <2> QED
    BY <2>2 DEF Queued
<1>2. /\ handler.changed \in SUBSET Paths /\ handler.deleted \in SUBSET Paths
      /\ handler.moved \in [Paths -> Paths \cup {NoPath}]
      /\ batch.delete \in SUBSET Paths /\ batch.sync \in SUBSET Paths
  BY DEF TypeOK
<1>3. Sources \in SUBSET Paths /\ Dests \in SUBSET Paths
  BY <1>2 DEF Sources, Dests
<1> QED
  BY <1>1, <1>2, <1>3 DEF Heard, Waiting

LEMMA EventTypes ==
  ASSUME NEW p \in Paths, NEW q \in Paths
  PROVE  /\ Changed(p) \in Event /\ Deleted(p) \in Event /\ Moved(p, q) \in Event
         /\ EventPaths(Changed(p)) = {p} /\ EventPaths(Deleted(p)) = {p}
         /\ EventPaths(Moved(p, q)) = {p, q}
  BY ConstantsAssumption DEF Changed, Deleted, Moved, Event, EventPaths

\* What happens to anything but a synchronisation.
LEMMA LoopTypes ==
  ASSUME TypeOK, UNCHANGED <<stores, evicted>>,
         fs' \in [Paths -> Content], included' \in SUBSET Paths, changes' \in Nat,
         up' \in BOOLEAN, snapshot' \in SUBSET Paths, queue' \in Seq(Event),
         handler' \in Handler, batch' \in Batch, missed' \in SUBSET Paths,
         pruning' \in SUBSET Paths,
         job' \in [Actors -> Job], \A a \in Actors : job'[a].pc # "idle" => job'[a].path \in Paths
  PROVE  TypeOK'
<1>1. nodes' \in [Paths -> Content] /\ index' \in [Paths -> Content] /\ evicted' \in SUBSET Paths
  BY DEF TypeOK, stores
<1> QED
  BY <1>1 DEF TypeOK, Job, JobPCs, Event, Handler, Batch

LEMMA ChangeTypes ==
  ASSUME TypeOK, Change PROVE TypeOK'
<1>1. /\ UNCHANGED <<snapshot, handler, batch, job, stores, pruning, evicted>>
      /\ changes' = changes + 1
  BY DEF Change, WriteFile, DeleteFile, MoveFile, Notice, ChangeFilter, loop
<1>2. UNCHANGED up
  BY DEF Change, WriteFile, DeleteFile, MoveFile, Notice, ChangeFilter, loop
<1>3. /\ fs \in [Paths -> Content] /\ included \in SUBSET Paths /\ changes \in Nat
      /\ snapshot \in SUBSET Paths /\ queue \in Seq(Event) /\ handler \in Handler
      /\ batch \in Batch /\ missed \in SUBSET Paths /\ pruning \in SUBSET Paths
      /\ job \in [Actors -> Job]
      /\ \A a \in Actors : job[a].pc # "idle" => job[a].path \in Paths
  BY DEF TypeOK, Job, JobPCs, Event, Handler, Batch
<1>4. ASSUME NEW e \in Event, EventPaths(e) \subseteq Paths, Notice(e)
      PROVE  queue' \in Seq(Event) /\ missed' \in SUBSET Paths /\ UNCHANGED included
  BY <1>3, <1>4 DEF Notice
<1>5. fs' \in [Paths -> Content] /\ included' \in SUBSET Paths
      /\ queue' \in Seq(Event) /\ missed' \in SUBSET Paths
  <2>1. ASSUME NEW p \in Paths, WriteFile(p) PROVE <1>5!:
    BY <1>3, <1>4, <2>1, EventTypes DEF WriteFile, Content
  <2>2. ASSUME NEW p \in Paths, DeleteFile(p) PROVE <1>5!:
    BY <1>3, <1>4, <2>2, EventTypes DEF DeleteFile, Content, Absent
  <2>3. ASSUME NEW p \in Paths, NEW q \in Paths, MoveFile(p, q) PROVE <1>5!:
    <3>1. fs' \in [Paths -> Content]
      BY <1>3, <2>3 DEF MoveFile, Content, Absent
    <3>2. Moved(p, q) \in Event /\ EventPaths(Moved(p, q)) \subseteq Paths
      BY EventTypes
    <3>3. Notice(Moved(p, q))
      BY <2>3 DEF MoveFile
    <3>4. queue' \in Seq(Event) /\ missed' \in SUBSET Paths /\ UNCHANGED included
      BY <1>4, <3>2, <3>3
    <3> QED
      BY <1>3, <3>1, <3>4
  <2>4. ASSUME NEW S \in SUBSET Paths, ChangeFilter(S) PROVE <1>5!:
    BY <1>3, <2>4 DEF ChangeFilter, loop
  <2> QED
    BY <2>1, <2>2, <2>3, <2>4 DEF Change
<1>6. up' \in BOOLEAN
  BY <1>2 DEF TypeOK
<1> QED
  BY <1>1, <1>3, <1>5, <1>6, LoopTypes

LEMMA StepTypes == ASSUME TypeOK, [Next]_vars PROVE TypeOK'
<1>1. /\ fs \in [Paths -> Content] /\ included \in SUBSET Paths /\ changes \in Nat
      /\ snapshot \in SUBSET Paths /\ queue \in Seq(Event) /\ handler \in Handler
      /\ batch \in Batch /\ missed \in SUBSET Paths /\ pruning \in SUBSET Paths
      /\ job \in [Actors -> Job]
      /\ \A a \in Actors : job[a].pc # "idle" => job[a].path \in Paths
  BY DEF TypeOK, Job, JobPCs, Event, Handler, Batch
<1>2. up \in BOOLEAN
  BY DEF TypeOK
<1>3. NoEvents \in Handler /\ NoBatch \in Batch
  BY DEF NoEvents, NoBatch, Handler, Batch
<1>4. Daemon \in Actors /\ Commands \subseteq Actors
  BY DEF Actors
<1>5. CASE Change
  BY <1>5, ChangeTypes
<1>6. CASE Deliver
  <2>1. /\ queue # <<>> /\ queue' = Tail(queue)
        /\ UNCHANGED <<files, up, snapshot, batch, job, stores, pruning, evicted>>
    BY <1>6 DEF Deliver
  <2>2. Head(queue) \in Event /\ queue' \in Seq(Event)
    BY <1>1, <2>1
  <2>3. /\ handler.changed \in SUBSET Paths /\ handler.deleted \in SUBSET Paths
        /\ handler.moved \in [Paths -> Paths \cup {NoPath}]
    BY <1>1 DEF Handler
  <2>4. PICK e \in Event : e = Head(queue)
    BY <2>2
  <2>5. e.path \in Paths /\ e.dest \in Paths \cup {NoPath}
    BY DEF Event
  <2>6. /\ handler' \in {[handler EXCEPT !.changed = @ \cup {e.path}],
                         [handler EXCEPT !.deleted = @ \cup {e.path}],
                         [handler EXCEPT !.moved[e.path] = e.dest]}
        /\ missed' \in {missed, missed \cup ({handler.moved[e.path]} \ {NoPath})}
    BY <1>6, <2>4 DEF Deliver, Event
  <2>7. missed' \in SUBSET Paths
    BY <1>1, <2>3, <2>5, <2>6
  <2>8. handler' \in Handler
    <3>1. [handler EXCEPT !.changed = @ \cup {e.path}] \in Handler
      BY <1>1, <2>5 DEF Handler
    <3>2. [handler EXCEPT !.deleted = @ \cup {e.path}] \in Handler
      BY <1>1, <2>5 DEF Handler
    <3>3. [handler EXCEPT !.moved[e.path] = e.dest] \in Handler
      BY <1>1, <2>5 DEF Handler
    <3> QED
      BY <2>6, <3>1, <3>2, <3>3
  <2> QED
    BY <1>1, <1>2, <2>1, <2>2, <2>7, <2>8, LoopTypes DEF files
<1>7. CASE Drain
  <2>1. /\ batch' = [delete |-> (handler.deleted \cup Sources) \cap snapshot,
                     sync   |-> (handler.changed \cup Dests) \cap snapshot]
        /\ handler' = NoEvents /\ missed' = missed \cup Dropped
        /\ UNCHANGED <<files, up, snapshot, queue, job, stores, pruning, evicted>>
    BY <1>7 DEF Drain
  <2>2. batch' \in Batch
    <3> DEFINE D == (handler.deleted \cup Sources) \cap snapshot
               S == (handler.changed \cup Dests) \cap snapshot
    <3>1. D \in SUBSET Paths /\ S \in SUBSET Paths
      BY <1>1
    <3> HIDE DEF D, S
    <3>2. [delete |-> D, sync |-> S] \in Batch
      BY <3>1 DEF Batch
    <3> QED
      BY <2>1, <3>2 DEF D, S
  <2>3. missed' \in SUBSET Paths
    BY <1>1, <2>1, Mentioned DEF Dropped
  <2> QED
    BY <1>1, <1>2, <1>3, <2>1, <2>2, <2>3, LoopTypes DEF files
<1>8. CASE NextPath
  <2>1. UNCHANGED <<files, up, snapshot, queue, handler, stores, pruning, missed, evicted>>
    BY <1>8 DEF NextPath
  <2>2. PICK p \in Paths : /\ SetJob(Daemon, Ready(p))
                           /\ batch' \in {[batch EXCEPT !.delete = @ \ {p}],
                                          [batch EXCEPT !.sync = @ \ {p}]}
    <3>1. batch.delete \subseteq Paths /\ batch.sync \subseteq Paths
      BY <1>1 DEF Batch
    <3> QED
      BY <1>8, <3>1 DEF NextPath
  <2>3. batch' \in Batch
    <3>1. [batch EXCEPT !.delete = @ \ {p}] \in Batch /\ [batch EXCEPT !.sync = @ \ {p}] \in Batch
      BY <1>1 DEF Batch
    <3> QED
      BY <2>2, <3>1
  <2>4. job' \in [Actors -> Job] /\ job'[Daemon].path \in Paths
        /\ \A b \in Actors \ {Daemon} : Undisturbed(b)
    BY <1>4, <2>2, SetJobTakes, JobStart
  <2>5. \A a \in Actors : job'[a].pc # "idle" => job'[a].path \in Paths
    BY <1>1, <2>4 DEF Undisturbed
  <2> QED
    BY <1>1, <1>2, <2>1, <2>3, <2>4, <2>5, LoopTypes DEF files
<1>9. ASSUME NEW a \in Commands, NEW p \in Paths, CommandSync(a, p) PROVE TypeOK'
  <2>1. SetJob(a, Ready(p)) /\ UNCHANGED <<files, loop, stores, pruning, missed, evicted>>
    BY <1>9 DEF CommandSync
  <2>2. /\ job' \in [Actors -> Job] /\ job'[a].path \in Paths
        /\ \A b \in Actors \ {a} : Undisturbed(b)
    BY <1>4, <2>1, SetJobTakes, JobStart
  <2> QED
    BY <1>1, <1>4, <2>1, <2>2, WorkTypes DEF TypeOK, stores
<1>10. CASE DaemonDies
  <2>1. /\ up' = FALSE /\ queue' = <<>> /\ handler' = NoEvents /\ batch' = NoBatch
        /\ SetJob(Daemon, NoJob)
        /\ UNCHANGED <<files, snapshot, stores, pruning, evicted>>
    BY <1>10 DEF DaemonDies
  <2>2. missed' \in SUBSET Paths
    <3>1. job[Daemon].path \in Paths \cup {NoPath}
      BY <1>1, <1>4 DEF Job
    <3>2. missed' = missed \cup Queued \cup Heard \cup Waiting \cup ({job[Daemon].path} \ {NoPath})
      BY <1>10 DEF DaemonDies
    <3> QED
      BY <1>1, <3>1, <3>2, Mentioned
  <2>3. job' \in [Actors -> Job] /\ job'[Daemon].pc = "idle"
        /\ \A b \in Actors \ {Daemon} : Undisturbed(b)
    BY <1>4, <2>1, SetJobTakes, JobStart
  <2>4. \A a \in Actors : job'[a].pc # "idle" => job'[a].path \in Paths
    BY <1>1, <2>3 DEF Undisturbed
  <2>5. up' \in BOOLEAN
    <3>1. up' = FALSE
      BY Zenon, <2>1
    <3> QED
      BY <3>1
  <2>6. queue' \in Seq(Event)
    BY <2>1
  <2> QED
    BY <1>1, <1>3, <2>1, <2>2, <2>3, <2>4, <2>5, <2>6, LoopTypes DEF files
<1>11. CASE DaemonStarts
  <2>1. /\ up' = TRUE /\ snapshot' = included
        /\ UNCHANGED <<files, queue, handler, batch, job, stores, pruning, missed, evicted>>
    BY <1>11 DEF DaemonStarts
  <2>2. up' \in BOOLEAN
    BY <2>1
  <2> QED
    BY <1>1, <2>1, <2>2, LoopTypes DEF files
<1>12. CASE PruneScan
  <2>1. /\ pruning' \in SUBSET Paths
        /\ UNCHANGED <<files, loop, job, stores, missed, evicted>>
    BY <1>12 DEF PruneScan, Recorded
  <2> QED
    BY <1>1, <1>2, <2>1, LoopTypes DEF files, loop
<1>13. CASE PruneDelete
  <2> DEFINE r == [job[Daemon] EXCEPT !.victims = @ \ pruning]
  <2>1. Delete(pruning, Daemon, r) /\ UNCHANGED <<files, loop, index, missed, evicted>>
    BY <1>13 DEF PruneDelete
  <2>2. r \in Job /\ r.pc = job[Daemon].pc /\ r.path = job[Daemon].path
    BY <1>1, <1>4, FewerVictims
  <2> HIDE DEF r
  <2>3. /\ job' \in [Actors -> Job] /\ \A b \in Actors \ {Daemon} : Undisturbed(b)
        /\ job'[Daemon].pc # "idle" => job'[Daemon].path \in Paths
        /\ nodes' \in [Paths -> Content] /\ pruning' \in SUBSET Paths
    <3>1. PICK now \in Job : now = r
      BY <2>2
    <3>2. PICK S : S = pruning
      OBVIOUS
    <3>3. Delete(S, Daemon, now)
      BY <2>1, <3>1, <3>2
    <3>4. /\ job' \in [Actors -> Job] /\ job'[Daemon] = now /\ nodes' \in [Paths -> Content]
          /\ pruning' = pruning \ S /\ \A b \in Actors \ {Daemon} : Undisturbed(b)
      BY <1>4, <3>3, DeleteTakes
    <3> QED
      BY <1>1, <1>4, <2>2, <3>1, <3>4
  <2>4. index' \in [Paths -> Content] /\ missed' \in SUBSET Paths /\ evicted' \in SUBSET Paths
    BY <2>1 DEF TypeOK
  <2> QED
    BY <1>4, <2>1, <2>3, <2>4, WorkTypes
<1>14. CASE UNCHANGED vars
  BY <1>1, <1>2, <1>14, LoopTypes DEF vars, stores
<1> QED
  BY <1>4, <1>5, <1>6, <1>7, <1>8, <1>9, <1>10, <1>11, <1>12, <1>13, <1>14, SyncTypes
     DEF Next, DaemonStep

LEMMA InitTypes == ASSUME Init PROVE TypeOK
<1>1. NoEvents \in Handler /\ NoBatch \in Batch
  BY DEF NoEvents, NoBatch, Handler, Batch
<1>2. job \in [Actors -> Job] /\ \A a \in Actors : job[a].pc = "idle"
  BY JobStart DEF Init
<1>3. /\ fs \in [Paths -> Content] /\ nodes \in [Paths -> Content] /\ index \in [Paths -> Content]
  BY DEF Init, Content, Absent
<1>4. /\ included \in SUBSET Paths /\ changes \in Nat /\ snapshot \in SUBSET Paths
      /\ queue \in Seq(Event) /\ pruning \in SUBSET Paths /\ missed \in SUBSET Paths
      /\ evicted \in SUBSET Paths /\ handler \in Handler /\ batch \in Batch
  BY <1>1 DEF Init
<1>5. up \in BOOLEAN
  <2>1. up = TRUE
    BY Zenon DEF Init
  <2> QED
    BY <2>1
<1> QED
  BY <1>2, <1>3, <1>4, <1>5 DEF TypeOK, Job, JobPCs, Event, Handler, Batch

-----------------------------------------------------------------------------
(* What a synchronisation leaves as it is *)

\* Paths that are owed stay so until the loop takes them.
LEMMA OwedStays ==
  ASSUME UNCHANGED loop, missed \subseteq missed', NEW p, Owed(p)
  PROVE  Owed(p)'
  BY DEF loop, Owed, Queued, Heard, Sources, Dests, Waiting

LEMMA DesiredStays ==
  ASSUME UNCHANGED files, NEW p PROVE Desired(p)' = Desired(p)
  BY DEF files, Desired

LEMMA HandStays ==
  ASSUME UNCHANGED files, Undisturbed(Daemon), NEW p, InHand(p) PROVE InHand(p)'
  BY DEF files, Undisturbed, InHand

LEMMA DueStays ==
  ASSUME UNCHANGED <<files, loop>>, missed \subseteq missed', Undisturbed(Daemon),
         NEW p, Due(p)
  PROVE  Due(p)'
  BY OwedStays, HandStays DEF Due

\* The daemon at work is at its path and no other.
LEMMA HandAtPath == ASSUME NEW p, InHand(p) PROVE job[Daemon].path = p /\ job[Daemon].pc # "idle"
  BY DEF InHand

\* What the others are about to leave is still right, and so is a prune, if the hand of
\* the daemon leaves no path on which somebody else has yet to act.
LEMMA OthersSound ==
  ASSUME WatchInv, UNCHANGED <<files, loop>>, missed \subseteq missed', NEW a \in Actors,
         \A b \in Actors \ {a} : Undisturbed(b), pruning' \subseteq pruning,
         \A p \in Paths : InHand(p) =>
           \/ Due(p)'
           \/ /\ p \notin pruning
              /\ \A b \in Actors \ {a} :
                   job[b].path = p => job[b].pc \notin {"remove", "read", "write"}
  PROVE  PruneSound' /\ \A b \in Actors \ {a} : JobSound(b)'
<1>1. \A p : Desired(p)' = Desired(p)
  BY DesiredStays
<1>2. \A p : Owed(p) => Owed(p)'
  BY OwedStays
<1>3. PruneSound'
  <2>1. pruning \subseteq Paths
    BY DEF WatchInv, TypeOK
  <2> QED
    BY <1>1, <1>2, <2>1 DEF WatchInv, FollowInv, PruneSound, Due
<1>4. ASSUME NEW b \in Actors \ {a} PROVE JobSound(b)'
  <2>1. JobSound(b) /\ Undisturbed(b) /\ (job[b].pc # "idle" => job[b].path \in Paths)
    BY DEF WatchInv, FollowInv, TypeOK
  <2>2. ASSUME NEW v, Leaves(b, v), job[b].pc \in {"remove", "write"} PROVE Leaves(b, v)'
    <3> DEFINE p == job[b].path
    <3>1. p \in Paths /\ job'[b].path = p
      BY <2>1, <2>2 DEF Undisturbed
    <3>2. CASE Desired(p) = v \/ Owed(p)
      BY <1>1, <1>2, <3>1, <3>2 DEF Leaves
    <3>3. CASE b # Daemon /\ InHand(p)
      <4>1. Due(p)'
        BY <2>2, <3>1, <3>3
      <4> QED
        BY <3>1, <3>3, <4>1 DEF Leaves, Due
    <3> QED
      BY <2>2, <3>2, <3>3 DEF Leaves
  <2> QED
    BY <2>1, <2>2 DEF JobSound, Undisturbed
<1> QED
  BY <1>3, <1>4

\* A path that keeps its record and its text follows its file as before.
LEMMA StillFollows ==
  ASSUME WatchInv, UNCHANGED <<files, loop>>, missed \subseteq missed', NEW p \in Paths,
         InHand(p) => Due(p)'
  PROVE  /\ nodes'[p] = nodes[p] /\ (p \in evicted => p \in evicted') => RecordOK(p)'
         /\ /\ index'[p] = index[p]
            /\ job[Daemon].path = p /\ job[Daemon].synced
                 => job'[Daemon].path = p /\ job'[Daemon].synced
            => TextOK(p)'
<1>1. Desired(p)' = Desired(p) /\ fs' = fs
  BY DesiredStays DEF files
<1>2. Due(p) => Due(p)'
  BY OwedStays DEF Due
<1>3. RecordOK(p) /\ TextOK(p)
  BY DEF WatchInv, FollowInv
<1> QED
  BY <1>1, <1>2, <1>3 DEF RecordOK, TextOK

\* Crossing the work of another is noted.
LEMMA CrossingNoted ==
  ASSUME WatchInv, UNCHANGED <<files, loop>>, NEW a \in Actors, job[a].pc # "idle",
         MissCrossing(a), \A b \in Actors \ {a} : Undisturbed(b), NEW p \in Paths, InHand(p)
  PROVE  \/ Due(p)'
         \/ /\ a = Daemon /\ p = job[a].path
            /\ p \notin pruning
            /\ \A b \in Actors \ {a} :
                 job[b].path = p => job[b].pc \notin {"remove", "read", "write"}
<1>1. Daemon \in Actors /\ TypeOK
  BY DEF Actors, WatchInv
<1>2. CASE a # Daemon
  <2>1. Undisturbed(Daemon)
    BY <1>1, <1>2
  <2> QED
    BY <2>1, HandStays DEF Due
<1>3. CASE a = Daemon
  <2>1. p = job[a].path
    BY <1>3, HandAtPath
  <2> QED
    BY <1>1, <1>3, <2>1, CrossingPaths DEF Due, Owed
<1> QED
  BY <1>2, <1>3

-----------------------------------------------------------------------------
(* Every step of a synchronisation keeps it *)

\* One that changes neither records nor texts.
LEMMA MoveFollows ==
  ASSUME WatchInv, UNCHANGED <<files, loop, stores, pruning, evicted>>, missed \subseteq missed',
         NEW a \in Actors, \A b \in Actors \ {a} : Undisturbed(b), JobSound(a)',
         \A p \in Paths : InHand(p) => Due(p)',
         \A p \in Paths : job[Daemon].synced /\ job[Daemon].path = p =>
           Owed(p)' \/ (job'[Daemon].synced /\ job'[Daemon].path = p)
  PROVE  FollowInv'
<1>1. PruneSound' /\ \A b \in Actors \ {a} : JobSound(b)'
  BY OthersSound
<1>2. nodes' = nodes /\ index' = index /\ evicted' = evicted /\ queue' = queue
  BY DEF stores, loop
<1>3. ASSUME NEW p \in Paths PROVE RecordOK(p)' /\ TextOK(p)'
  <2>1. InHand(p) => Due(p)'
    OBVIOUS
  <2>2. RecordOK(p)'
    BY <1>2, <2>1, StillFollows
  <2>3. CASE job[Daemon].path = p /\ job[Daemon].synced /\ Owed(p)'
    <3>1. Due(p)'
      BY <2>3 DEF Due
    <3> QED
      BY <2>2, <3>1 DEF TextOK
  <2>4. CASE job[Daemon].path = p /\ job[Daemon].synced /\ ~Owed(p)'
    BY <1>2, <2>1, <2>4, StillFollows
  <2>5. CASE ~(job[Daemon].path = p /\ job[Daemon].synced)
    BY <1>2, <2>1, <2>5, StillFollows
  <2> QED
    BY <2>2, <2>3, <2>4, <2>5
<1>4. EventsOK' /\ LowUnrecorded'
  BY <1>2 DEF WatchInv, FollowInv, EventsOK, LowUnrecorded
<1> QED
  BY <1>1, <1>3, <1>4 DEF FollowInv

LEMMA CheckFollows ==
  ASSUME WatchInv, NEW a \in Actors, SyncCheck(a) PROVE FollowInv'
<1>0. PICK q \in Paths : q = job[a].path
  BY DEF SyncCheck, WatchInv, TypeOK
<1>1. PICK pc \in {"remove", "read"} :
        /\ pc = (IF fs[q] = Absent THEN "remove" ELSE "read")
        /\ Goto(a, pc)
  BY <1>0 DEF SyncCheck
<1>2. TypeOK /\ pc \in JobPCs /\ Daemon \in Actors /\ JobSound(a)
  BY DEF WatchInv, FollowInv, JobPCs, Actors
<1>3. /\ job[a].pc = "check"
      /\ UNCHANGED <<files, loop, stores, pruning, missed, evicted>>
  BY DEF SyncCheck
<1>4. /\ job'[a].pc = pc /\ job'[a].path = q /\ job'[a].synced = job[a].synced
      /\ \A b \in Actors \ {a} : Undisturbed(b)
  BY <1>0, <1>1, <1>2, GotoTakes
<1>5. pc = "remove" => Desired(q)' = Absent
  BY <1>1, <1>3 DEF Desired, files
<1>6. ~job[a].synced
  BY <1>2, <1>3 DEF JobSound
<1>7. JobSound(a)'
  BY <1>1, <1>4, <1>5, <1>6 DEF JobSound, Leaves
<1>8. ASSUME NEW p \in Paths, InHand(p) PROVE Due(p)'
  <2>1. CASE a = Daemon
    <3>1. p = q
      BY <1>0, <1>8, <2>1, HandAtPath
    <3> QED
      BY <1>1, <1>3, <1>4, <2>1, <3>1 DEF InHand, Due, files
  <2>2. CASE a # Daemon
    BY <1>2, <1>3, <1>4, <1>8, <2>2, HandStays DEF Due
  <2> QED
    BY <2>1, <2>2
<1>9. job[Daemon].synced => job'[Daemon].synced /\ job'[Daemon].path = job[Daemon].path
  BY <1>0, <1>2, <1>4, <1>6 DEF Undisturbed
<1> QED
  BY <1>3, <1>4, <1>7, <1>8, <1>9, MoveFollows

\* One that acts on its path.
LEMMA PathFollows ==
  ASSUME WatchInv, UNCHANGED <<files, loop, index>>, NEW a \in Actors, job[a].pc # "idle",
         NEW q \in Paths, q = job[a].path, MissCrossing(a),
         \A b \in Actors \ {a} : Undisturbed(b), pruning' \subseteq pruning,
         \A p \in Paths \ {q} : nodes'[p] = nodes[p] /\ (p \in evicted => p \in evicted'),
         nodes'[q] = Absent \/ Priority[q] >= MinPriority,
         JobSound(a)', RecordOK(q)', TextOK(q)'
  PROVE  FollowInv'
<1>1. TypeOK /\ Daemon \in Actors
  BY DEF WatchInv, Actors
<1>2. missed \subseteq missed'
  BY <1>1, CrossingPaths
<1>3. \A p \in Paths : InHand(p) =>
        \/ Due(p)'
        \/ /\ a = Daemon /\ p = q
           /\ p \notin pruning
           /\ \A b \in Actors \ {a} :
                job[b].path = p => job[b].pc \notin {"remove", "read", "write"}
  BY CrossingNoted
<1>4. PruneSound' /\ \A b \in Actors \ {a} : JobSound(b)'
  BY <1>2, <1>3, OthersSound
<1>5. ASSUME NEW p \in Paths \ {q} PROVE RecordOK(p)' /\ TextOK(p)'
  <2>1. /\ nodes'[p] = nodes[p] /\ index'[p] = index[p] /\ (p \in evicted => p \in evicted')
        /\ InHand(p) => Due(p)'
    BY <1>3
  <2>2. job[Daemon].path = p /\ job[Daemon].synced
          => job'[Daemon].path = p /\ job'[Daemon].synced
    BY <1>1 DEF Undisturbed
  <2> QED
    BY <1>2, <2>1, <2>2, StillFollows
<1>6. EventsOK' /\ LowUnrecorded'
  <2>1. queue' = queue
    BY DEF loop
  <2>2. ASSUME NEW p \in Paths, Priority[p] < MinPriority PROVE nodes'[p] = Absent
    <3>1. Priority[p] \in Nat /\ MinPriority \in Nat
      BY ConstantsAssumption
    <3> QED
      BY <2>2, <3>1 DEF WatchInv, FollowInv, LowUnrecorded
  <2> QED
    BY <2>1, <2>2 DEF WatchInv, FollowInv, EventsOK, LowUnrecorded
<1> QED
  BY <1>4, <1>5, <1>6 DEF FollowInv

\* What a leaves is right, or will be.
LEMMA LeavesDue ==
  ASSUME WatchInv, UNCHANGED <<files, loop>>, NEW a \in Actors, job[a].pc # "idle",
         NEW q \in Paths, q = job[a].path, MissCrossing(a),
         \A b \in Actors \ {a} : Undisturbed(b), NEW v, Leaves(a, v)
  PROVE  Desired(q)' = v \/ Due(q)'
<1>1. TypeOK /\ Desired(q)' = Desired(q)
  BY DesiredStays DEF WatchInv
<1>2. CASE Owed(q)
  BY <1>1, <1>2, CrossingPaths, OwedStays DEF Due
<1>3. CASE a # Daemon /\ InHand(q)
  BY <1>3, CrossingNoted
<1> QED
  BY <1>1, <1>2, <1>3 DEF Leaves

LEMMA RemoveFollows ==
  ASSUME WatchInv, NEW a \in Actors, SyncRemove(a) PROVE FollowInv'
<1>1. PICK q \in Paths : q = job[a].path
  BY DEF SyncRemove, WatchInv, TypeOK
<1>2. /\ job[a].pc = "remove" /\ Delete({q}, a, NoJob) /\ MissCrossing(a)
      /\ UNCHANGED <<files, loop, index, evicted>>
  BY <1>1 DEF SyncRemove
<1>3. /\ job'[a] = NoJob /\ \A b \in Actors \ {a} : Undisturbed(b)
      /\ \A p \in Paths : nodes'[p] = IF p = q THEN Absent ELSE nodes[p]
      /\ pruning' \subseteq pruning
  <2>1. PICK S : S = {q}
    OBVIOUS
  <2>2. PICK r \in Job : r = NoJob
    BY JobStart
  <2>3. Delete(S, a, r)
    BY <1>2, <2>1, <2>2
  <2>4. /\ job'[a] = r /\ \A b \in Actors \ {a} : Undisturbed(b)
        /\ \A p \in Paths : nodes'[p] = IF p \in S THEN Absent ELSE nodes[p]
        /\ pruning' = pruning \ S
    BY <2>3, DeleteTakes DEF WatchInv
  <2> QED
    BY <2>1, <2>2, <2>4
<1>4. JobSound(a)'
  BY <1>3, JobStart DEF JobSound
<1>5. Leaves(a, Absent)
  BY <1>2 DEF WatchInv, FollowInv, JobSound
<1>6. Desired(q)' = Absent \/ Due(q)'
  BY <1>1, <1>2, <1>3, <1>5, LeavesDue
<1>7. RecordOK(q)' /\ TextOK(q)'
  BY <1>3, <1>6 DEF RecordOK, TextOK
<1> QED
  BY <1>1, <1>2, <1>3, <1>4, <1>7, PathFollows

LEMMA ReadFollows ==
  ASSUME WatchInv, NEW a \in Actors, SyncRead(a) PROVE FollowInv'
<1>1. PICK q \in Paths : q = job[a].path
  BY DEF SyncRead, WatchInv, TypeOK
<1>2. /\ job[a].pc = "read" /\ MissCrossing(a)
      /\ UNCHANGED <<files, loop, index, evicted>>
  BY DEF SyncRead
<1>3. TypeOK /\ Daemon \in Actors /\ JobSound(a) /\ missed \subseteq missed'
  BY <1>2, CrossingPaths DEF WatchInv, FollowInv, Actors
<1>4. /\ ~job[a].synced /\ job[a] \in Job /\ job[a].synced \in BOOLEAN
      /\ job[a].seen \in Content /\ job[a].victims \in SUBSET Paths
  BY <1>2, <1>3, JobTypes DEF JobSound, Job
<1>5. Desired(q)' = Desired(q) /\ Priority[q] \in Nat /\ MinPriority \in Nat
  BY <1>2, DesiredStays, ConstantsAssumption
<1>6. CASE fs[q] = Absent /\ (SetJob(a, NoJob) \/ Goto(a, "pick")) /\ UNCHANGED <<nodes, pruning>>
  <2>1. /\ job'[a].pc \in {"idle", "pick"} /\ ~job'[a].synced
        /\ \A b \in Actors \ {a} : Undisturbed(b)
    BY <1>3, <1>4, <1>6, JobStart, SetJobTakes, GotoTakes DEF JobPCs
  <2>2. JobSound(a)'
    BY <2>1 DEF JobSound
  <2>3. ASSUME NEW p \in Paths, InHand(p) PROVE Due(p)'
    <3>1. CASE a = Daemon
      BY <1>1, <1>2, <1>6, <2>3, <3>1 DEF InHand
    <3>2. CASE a # Daemon
      BY <1>2, <1>3, <2>1, <2>3, <3>2, HandStays DEF Due
    <3> QED
      BY <3>1, <3>2
  <2>4. job[Daemon].synced => job'[Daemon].synced /\ job'[Daemon].path = job[Daemon].path
    BY <1>3, <1>4, <2>1 DEF Undisturbed
  <2> QED
    BY <1>2, <1>3, <1>6, <2>1, <2>2, <2>3, <2>4, MoveFollows DEF stores
<1>7. CASE q \notin included /\ Delete({q}, a, [job[a] EXCEPT !.pc = "pick"])
  <2>1. PICK r \in Job : r = [job[a] EXCEPT !.pc = "pick"] /\ r.pc = "pick" /\ ~r.synced
    <3>1. PICK r : r = [job[a] EXCEPT !.pc = "pick"]
      OBVIOUS
    <3>2. r \in Job /\ r.pc = "pick" /\ ~r.synced
      BY <1>4, <3>1, JobGoes, PickWrite
    <3> QED
      BY <3>1, <3>2
  <2>2. PICK S : S = {q}
    OBVIOUS
  <2>3. Delete(S, a, r)
    BY <1>7, <2>1, <2>2
  <2>4. /\ job'[a] = r /\ \A b \in Actors \ {a} : Undisturbed(b)
        /\ \A p \in Paths : nodes'[p] = IF p \in S THEN Absent ELSE nodes[p]
        /\ pruning' = pruning \ S
    BY <1>3, <2>3, DeleteTakes
  <2>5. JobSound(a)'
    BY <2>1, <2>4 DEF JobSound
  <2>6. nodes'[q] = Absent /\ Desired(q) = Absent
    BY <1>7, <2>2, <2>4 DEF Desired
  <2>7. RecordOK(q)' /\ TextOK(q)'
    BY <1>5, <2>6 DEF RecordOK, TextOK
  <2> QED
    BY <1>1, <1>2, <2>2, <2>4, <2>5, <2>6, <2>7, PathFollows
<1>8. CASE Priority[q] < MinPriority /\ Goto(a, "pick") /\ UNCHANGED <<nodes, pruning>>
  <2>1. /\ job'[a].pc = "pick" /\ ~job'[a].synced
        /\ \A b \in Actors \ {a} : Undisturbed(b)
    BY <1>3, <1>4, <1>8, GotoTakes DEF JobPCs
  <2>2. JobSound(a)'
    BY <2>1 DEF JobSound
  <2>3. nodes'[q] = Absent /\ Desired(q) = Absent
    BY <1>5, <1>8 DEF Desired, WatchInv, FollowInv, LowUnrecorded
  <2>4. RecordOK(q)' /\ TextOK(q)'
    BY <1>5, <2>3 DEF RecordOK, TextOK
  <2> QED
    BY <1>1, <1>2, <1>8, <2>1, <2>2, <2>3, <2>4, PathFollows
<1>9. CASE /\ q \in included /\ ~(Priority[q] < MinPriority)
           /\ SetJob(a, [job[a] EXCEPT !.pc = "write", !.seen = fs[q]])
           /\ UNCHANGED <<nodes, pruning>>
  <2>1. PICK s \in Content : s = fs[q]
    BY <1>3 DEF TypeOK
  <2>2. PICK r \in Job : /\ r = [job[a] EXCEPT !.pc = "write", !.seen = s]
                         /\ r.pc = "write" /\ r.path = q /\ r.seen = s /\ ~r.synced
    <3>1. PICK r : r = [job[a] EXCEPT !.pc = "write", !.seen = s]
      OBVIOUS
    <3>2. r \in Job /\ r.pc = "write" /\ r.path = q /\ r.seen = s /\ ~r.synced
      <4>1. job[a] \in Job /\ "write" \in JobPCs /\ s \in Content
        BY <1>4, <2>1, PickWrite
      <4>2. r \in Job
        BY <3>1, <4>1, JobSees
      <4>3. r.pc = "write" /\ r.path = job[a].path /\ r.seen = s /\ r.synced = job[a].synced
        BY <3>1, <4>1 DEF Job
      <4> QED
        BY <1>1, <1>4, <4>2, <4>3
    <3> QED
      BY <3>1, <3>2
  <2>3. SetJob(a, r)
    BY <1>9, <2>1, <2>2
  <2>4. job'[a] = r /\ \A b \in Actors \ {a} : Undisturbed(b)
    BY <1>3, <2>3, SetJobTakes
  <2>5. Desired(q) = s
    BY <1>5, <1>9, <2>1 DEF Desired
  <2>6. JobSound(a)'
    BY <1>5, <1>9, <2>2, <2>4, <2>5 DEF JobSound, Leaves
  <2>7. ASSUME NEW p \in Paths, InHand(p) PROVE Due(p)'
    <3>1. CASE a = Daemon
      <4>1. p = q
        BY <1>1, <2>7, <3>1, HandAtPath
      <4> QED
        BY <1>2, <2>1, <2>2, <2>4, <3>1, <4>1 DEF InHand, Due, files
    <3>2. CASE a # Daemon
      BY <1>2, <1>3, <2>4, <2>7, <3>2, HandStays DEF Due
    <3> QED
      BY <3>1, <3>2
  <2>8. job[Daemon].synced => job'[Daemon].synced /\ job'[Daemon].path = job[Daemon].path
    BY <1>3, <1>4, <2>4 DEF Undisturbed
  <2> QED
    BY <1>2, <1>3, <1>9, <2>4, <2>6, <2>7, <2>8, MoveFollows DEF stores
<1> QED
  BY <1>1, <1>6, <1>7, <1>8, <1>9 DEF SyncRead

LEMMA WriteFollows ==
  ASSUME WatchInv, NEW a \in Actors, SyncWrite(a) PROVE FollowInv'
<1>1. PICK q \in Paths : q = job[a].path
  BY DEF SyncWrite, WatchInv, TypeOK
<1>2. /\ job[a].pc = "write" /\ MissCrossing(a)
      /\ nodes' = [nodes EXCEPT ![q] = job[a].seen] /\ evicted' = evicted \ {q}
      /\ SetJob(a, [job[a] EXCEPT !.pc = "pick", !.synced = TRUE])
      /\ UNCHANGED <<files, loop, index, pruning>>
  BY <1>1 DEF SyncWrite
<1>3. TypeOK /\ JobSound(a) /\ job[a] \in Job /\ job[a].seen \in Content
      /\ job[a].victims \in SUBSET Paths /\ Daemon \in Actors
  BY JobTypes DEF WatchInv, FollowInv, Job, Actors
<1>4. PICK r \in Job : /\ r = [job[a] EXCEPT !.pc = "pick", !.synced = TRUE]
                       /\ r.pc = "pick" /\ r.path = q /\ r.synced
  <2>1. PICK r : r = [job[a] EXCEPT !.pc = "pick", !.synced = TRUE]
    OBVIOUS
  <2>2. r \in Job /\ r.pc = "pick" /\ r.path = q /\ r.synced
    BY <1>1, <1>3, <2>1, JobSyncs, PickWrite
  <2> QED
    BY <2>1, <2>2
<1>5. job'[a] = r /\ \A b \in Actors \ {a} : Undisturbed(b)
  BY <1>2, <1>3, <1>4, SetJobTakes
<1>6. JobSound(a)'
  BY <1>4, <1>5 DEF JobSound
<1>7. Priority[q] >= MinPriority /\ Leaves(a, job[a].seen)
  BY <1>1, <1>2, <1>3 DEF JobSound
<1>8. PICK v : v = job[a].seen
  OBVIOUS
<1>9. Desired(q)' = v \/ Due(q)'
  BY <1>1, <1>2, <1>5, <1>7, <1>8, LeavesDue
<1>10. nodes'[q] = v /\ \A p \in Paths \ {q} : nodes'[p] = nodes[p]
  BY <1>2, <1>3, <1>8 DEF TypeOK
<1>11. RecordOK(q)'
  BY <1>9, <1>10 DEF RecordOK
<1>12. TextOK(q)'
  <2>1. CASE a = Daemon
    BY <1>4, <1>5, <2>1 DEF TextOK
  <2>2. CASE a # Daemon
    <3>1. missed \subseteq missed' /\ Undisturbed(Daemon)
      BY <1>2, <1>3, <1>5, <2>2, CrossingPaths
    <3>2. InHand(q) => Due(q)'
      BY <1>2, <3>1, HandStays DEF Due
    <3> QED
      BY <1>2, <3>1, <3>2, StillFollows DEF Undisturbed
  <2> QED
    BY <2>1, <2>2
<1> QED
  BY <1>1, <1>2, <1>5, <1>6, <1>7, <1>10, <1>11, <1>12, PathFollows

\* A synchronisation that has written, or skipped, its record goes on to the limit.
LEMMA LimitFollows ==
  ASSUME WatchInv, NEW a \in Actors, LimitPick(a) \/ LimitFails(a) PROVE FollowInv'
<1>1. /\ job[a].pc \in {"pick", "evict"}
      /\ UNCHANGED <<files, loop, stores, pruning, missed, evicted>>
  BY DEF LimitPick, LimitFails
<1>2. TypeOK /\ Daemon \in Actors /\ job[a] \in Job
  BY JobTypes DEF WatchInv, Actors
<1>3. PICK r \in Job : /\ SetJob(a, r)
                       /\ r.pc \in {"idle", "index", "evict"}
                       /\ r.synced => r.pc \in {"index", "evict"}
                       /\ a = Daemon /\ job[a].synced => r.path = job[a].path /\ r.synced
  <2>1. PICK r \in Job : /\ r = AfterLimit(a)
                         /\ r.pc \in {"idle", "index", "evict"}
                         /\ r.synced => r.pc \in {"index", "evict"}
                         /\ a = Daemon /\ job[a].synced => r.path = job[a].path /\ r.synced
    BY <1>2, AfterLimitTakes
  <2>2. CASE SetJob(a, AfterLimit(a))
    BY <2>1, <2>2
  <2>3. ASSUME NEW V \in Lowest(Excess), SetJob(a, [job[a] EXCEPT !.pc = "evict", !.victims = V])
        PROVE  \E x \in Job : /\ SetJob(a, x)
                              /\ x.pc \in {"idle", "index", "evict"}
                              /\ x.synced => x.pc \in {"index", "evict"}
                              /\ a = Daemon /\ job[a].synced => x.path = job[a].path /\ x.synced
    <3>1. V \in SUBSET Paths
      BY DEF Lowest, Recorded
    <3>2. PICK x : x = [job[a] EXCEPT !.pc = "evict", !.victims = V]
      OBVIOUS
    <3>3. x \in Job
      BY <1>2, <3>1, <3>2, JobTargets, PickWrite
    <3>4. x.pc = "evict" /\ x.path = job[a].path /\ x.synced = job[a].synced
      BY <1>2, <3>2 DEF Job
    <3>5. SetJob(a, x)
      BY <2>3, <3>2
    <3> QED
      BY <3>3, <3>4, <3>5
  <2> QED
    BY <2>2, <2>3 DEF LimitPick, LimitFails
<1>4. job'[a] = r /\ \A b \in Actors \ {a} : Undisturbed(b)
  BY <1>2, <1>3, SetJobTakes
<1>5. JobSound(a)'
  BY <1>3, <1>4 DEF JobSound
<1>6. ASSUME NEW p \in Paths, InHand(p) PROVE Due(p)'
  <2>1. a # Daemon
    BY <1>1, <1>6 DEF InHand
  <2> QED
    BY <1>1, <1>2, <1>4, <1>6, <2>1, HandStays DEF Due
<1>7. job[Daemon].synced => job'[Daemon].synced /\ job'[Daemon].path = job[Daemon].path
  BY <1>2, <1>3, <1>4 DEF Undisturbed
<1> QED
  BY <1>1, <1>4, <1>5, <1>6, <1>7, MoveFollows

LEMMA EvictFollows ==
  ASSUME WatchInv, NEW a \in Actors, LimitEvict(a) PROVE FollowInv'
<1>1. PICK V : V = job[a].victims
  OBVIOUS
<1>2. /\ job[a].pc = "evict" /\ Delete(V, a, AfterLimit(a))
      /\ evicted' = evicted \cup V /\ UNCHANGED <<files, loop, index, missed>>
  BY <1>1 DEF LimitEvict
<1>3. TypeOK /\ Daemon \in Actors
  BY DEF WatchInv, Actors
<1>4. PICK r \in Job : /\ r = AfterLimit(a) /\ r.pc \in {"idle", "index"}
                       /\ r.synced => r.pc = "index"
                       /\ a = Daemon /\ job[a].synced => r.path = job[a].path /\ r.synced
  BY <1>3, AfterLimitTakes
<1>5. Delete(V, a, r)
  BY <1>2, <1>4
<1>6. /\ job'[a] = r /\ \A b \in Actors \ {a} : Undisturbed(b)
      /\ \A p \in Paths : nodes'[p] = IF p \in V THEN Absent ELSE nodes[p]
      /\ pruning' = pruning \ V
  BY <1>3, <1>4, <1>5, DeleteTakes
<1>7. JobSound(a)'
  BY <1>4, <1>6 DEF JobSound
<1>8. \A p \in Paths : InHand(p) => Due(p)'
  <2> SUFFICES ASSUME NEW p \in Paths, InHand(p) PROVE Due(p)'
    OBVIOUS
  <2>1. a # Daemon
    BY <1>2 DEF InHand
  <2> QED
    BY <1>2, <1>3, <1>6, <2>1, HandStays DEF Due
<1>9. PruneSound' /\ \A b \in Actors \ {a} : JobSound(b)'
  BY <1>2, <1>6, <1>8, OthersSound
<1>10. job[Daemon].synced => job'[Daemon].synced /\ job'[Daemon].path = job[Daemon].path
  BY <1>3, <1>4, <1>6 DEF Undisturbed
<1>11. ASSUME NEW p \in Paths PROVE RecordOK(p)' /\ TextOK(p)'
  <2>1. index'[p] = index[p] /\ (InHand(p) => Due(p)') /\ (p \in evicted => p \in evicted')
    BY <1>2, <1>8
  <2>2. TextOK(p)'
    BY <1>2, <1>10, <2>1, StillFollows
  <2>3. CASE p \in V
    <3>1. nodes'[p] = Absent /\ p \in evicted'
      BY <1>2, <1>6, <2>3
    <3> QED
      BY <2>2, <3>1 DEF RecordOK
  <2>4. CASE p \notin V
    <3>1. nodes'[p] = nodes[p]
      BY <1>6, <2>4
    <3> QED
      BY <1>2, <2>1, <2>2, <3>1, StillFollows
  <2> QED
    BY <2>3, <2>4
<1>12. EventsOK' /\ LowUnrecorded'
  BY <1>2, <1>6 DEF WatchInv, FollowInv, EventsOK, LowUnrecorded, loop
<1> QED
  BY <1>7, <1>9, <1>11, <1>12 DEF FollowInv

LEMMA AutoIndexFollows ==
  ASSUME WatchInv, NEW a \in Actors, AutoIndex(a) PROVE FollowInv'
<1>1. PICK q \in Paths : q = job[a].path
  BY DEF AutoIndex, WatchInv, TypeOK
<1>2. /\ job[a].pc = "index" /\ SetJob(a, NoJob)
      /\ index' = IF fs[q] = Absent THEN index ELSE [index EXCEPT ![q] = fs[q]]
      /\ UNCHANGED <<files, loop, nodes, pruning, missed, evicted>>
  BY <1>1 DEF AutoIndex
<1>3. TypeOK /\ Daemon \in Actors
  BY DEF WatchInv, Actors
<1>4. job'[a] = NoJob /\ \A b \in Actors \ {a} : Undisturbed(b)
  BY <1>2, <1>3, JobStart, SetJobTakes
<1>5. JobSound(a)'
  BY <1>4, JobStart DEF JobSound
<1>6. \A p \in Paths : InHand(p) => Due(p)'
  <2> SUFFICES ASSUME NEW p \in Paths, InHand(p) PROVE Due(p)'
    OBVIOUS
  <2>1. a # Daemon
    BY <1>2 DEF InHand
  <2> QED
    BY <1>2, <1>3, <1>4, <2>1, HandStays DEF Due
<1>7. PruneSound' /\ \A b \in Actors \ {a} : JobSound(b)'
  BY <1>2, <1>4, <1>6, OthersSound
<1>8. ASSUME NEW p \in Paths PROVE RecordOK(p)' /\ TextOK(p)'
  <2>1. RecordOK(p)'
    BY <1>2, <1>6, StillFollows
  <2>2. CASE p = q
    <3>1. Desired(q)' = Desired(q) /\ fs' = fs
      BY <1>2, DesiredStays DEF files
    <3>2. Desired(q) = Absent \/ index'[q] = fs[q]
      BY <1>2, <1>3 DEF Desired, TypeOK
    <3> QED
      BY <2>1, <2>2, <3>1, <3>2 DEF TextOK
  <2>3. CASE p # q
    <3>1. index'[p] = index[p]
      BY <1>2, <1>3, <2>3 DEF TypeOK
    <3>2. job[Daemon].path = p /\ job[Daemon].synced
            => job'[Daemon].path = p /\ job'[Daemon].synced
      BY <1>1, <1>3, <1>4, <2>3 DEF Undisturbed
    <3> QED
      BY <1>2, <1>6, <2>1, <3>1, <3>2, StillFollows
  <2> QED
    BY <2>2, <2>3
<1>9. EventsOK' /\ LowUnrecorded'
  BY <1>2 DEF WatchInv, FollowInv, EventsOK, LowUnrecorded, loop
<1> QED
  BY <1>5, <1>7, <1>8, <1>9 DEF FollowInv

LEMMA FailureFollows ==
  ASSUME WatchInv, NEW a \in Actors, DatabaseFails(a) PROVE FollowInv'
<1>1. PICK q \in Paths : q = job[a].path
  BY DEF DatabaseFails, WatchInv, TypeOK
<1>2. /\ job[a].pc \in {"remove", "read", "write", "index"} /\ missed' = missed \cup {q}
      /\ Goto(a, "pick") \/ SetJob(a, NoJob)
      /\ UNCHANGED <<files, loop, stores, pruning, evicted>>
  BY <1>1 DEF DatabaseFails
<1>3. TypeOK /\ Daemon \in Actors /\ JobSound(a)
  BY DEF WatchInv, FollowInv, Actors
<1>4. /\ job'[a].pc \in {"idle", "pick"} /\ (job'[a].synced => job'[a].pc = "pick")
      /\ \A b \in Actors \ {a} : Undisturbed(b)
  <2>1. CASE SetJob(a, NoJob)
    BY <1>3, <2>1, JobStart, SetJobTakes
  <2>2. CASE Goto(a, "pick")
    BY <1>3, <2>2, PickWrite, GotoTakes
  <2> QED
    BY <1>2, <2>1, <2>2
<1>5. JobSound(a)'
  BY <1>4 DEF JobSound
<1>6. Owed(q)'
  BY <1>2 DEF Owed
<1>7. ASSUME NEW p \in Paths, InHand(p) PROVE Due(p)'
  <2>1. CASE a = Daemon
    BY <1>1, <1>6, <1>7, <2>1, HandAtPath DEF Due
  <2>2. CASE a # Daemon
    BY <1>2, <1>3, <1>4, <1>7, <2>2, HandStays DEF Due
  <2> QED
    BY <2>1, <2>2
<1>8. ASSUME NEW p \in Paths, job[Daemon].synced, job[Daemon].path = p
      PROVE  Owed(p)' \/ (job'[Daemon].synced /\ job'[Daemon].path = p)
  BY <1>1, <1>3, <1>4, <1>6, <1>8 DEF Undisturbed
<1> QED
  BY <1>2, <1>4, <1>5, <1>7, <1>8, MoveFollows

-----------------------------------------------------------------------------
(* Every other step keeps it *)

\* Files and events: whoever is at work goes on, and no path is owed less.
LEMMA EventsFollow ==
  ASSUME WatchInv, EventsOK', UNCHANGED <<job, stores, pruning, evicted>>,
         \A p \in Paths : Owed(p) => Owed(p)',
         \A p \in Paths : Owed(p)' \/ (fs'[p] = fs[p] /\ Desired(p)' = Desired(p))
  PROVE  FollowInv'
<1>1. \A p \in Paths : Due(p) => Due(p)'
  BY DEF Due, InHand
<1>2. /\ pruning \subseteq Paths
      /\ \A a \in Actors : job[a].pc # "idle" => job[a].path \in Paths
  BY DEF WatchInv, TypeOK
<1>3. PruneSound'
  BY <1>1, <1>2 DEF WatchInv, FollowInv, PruneSound, Due
<1>4. ASSUME NEW a \in Actors PROVE JobSound(a)'
  <2>1. JobSound(a)
    BY DEF WatchInv, FollowInv
  <2>2. ASSUME NEW v, Leaves(a, v), job[a].pc # "idle" PROVE Leaves(a, v)'
    <3>1. PICK p \in Paths : p = job[a].path
      BY <1>2, <2>2
    <3>2. CASE Owed(p)'
      BY <3>1, <3>2 DEF Leaves
    <3>3. CASE ~Owed(p)'
      <4>1. ~Owed(p) /\ fs'[p] = fs[p] /\ Desired(p)' = Desired(p)
        BY <3>3
      <4>2. InHand(p) => InHand(p)'
        BY <4>1 DEF InHand
      <4> QED
        BY <2>2, <3>1, <4>1, <4>2 DEF Leaves
    <3> QED
      BY <3>2, <3>3
  <2>3. job' = job
    OBVIOUS
  <2>4. job[a].pc = "write" => Leaves(a, job[a].seen)'
    <3>1. PICK v : v = job[a].seen
      OBVIOUS
    <3> QED
      BY <2>1, <2>2, <2>3, <3>1 DEF JobSound
  <2>5. job[a].pc = "remove" => Leaves(a, Absent)'
    BY <2>1, <2>2 DEF JobSound
  <2> QED
    BY <2>1, <2>3, <2>4, <2>5 DEF JobSound
<1>5. ASSUME NEW p \in Paths PROVE RecordOK(p)' /\ TextOK(p)'
  <2>1. RecordOK(p) /\ TextOK(p)
    BY DEF WatchInv, FollowInv
  <2>2. UNCHANGED <<nodes, index, job, evicted>>
    BY DEF stores
  <2>3. CASE Owed(p)'
    BY <2>3 DEF RecordOK, TextOK, Due
  <2>4. CASE fs'[p] = fs[p] /\ Desired(p)' = Desired(p)
    BY <1>1, <2>1, <2>2, <2>4 DEF RecordOK, TextOK
  <2> QED
    BY <2>3, <2>4
<1>6. LowUnrecorded'
  BY DEF WatchInv, FollowInv, LowUnrecorded, stores
<1> QED
  BY <1>3, <1>4, <1>5, <1>6 DEF FollowInv

\* The loop: the daemon takes up a path or puts one down, and whatever is no longer due
\* needed nothing.
LEMMA LoopFollows ==
  ASSUME WatchInv, EventsOK', UNCHANGED <<files, stores, pruning, evicted>>,
         \A b \in Commands : job'[b] = job[b],
         job'[Daemon].pc \in {"idle", "check"}, ~job'[Daemon].synced,
         \A p \in Paths : Due(p) =>
           \/ Due(p)'
           \/ /\ Desired(p) = Absent /\ nodes[p] = Absent
              /\ \A b \in Commands : job[b].path # p,
         \A p \in Paths : job[Daemon].synced /\ job[Daemon].path = p => Due(p)'
  PROVE  FollowInv'
<1>1. /\ pruning \subseteq Paths
      /\ \A a \in Actors : job[a].pc # "idle" => job[a].path \in Paths
      /\ UNCHANGED <<fs, nodes, index>>
  BY DEF WatchInv, TypeOK, files, stores
<1>2. \A p : Desired(p)' = Desired(p)
  BY DesiredStays
<1>3. PruneSound'
  BY <1>1, <1>2 DEF WatchInv, FollowInv, PruneSound
<1>4. JobSound(Daemon)'
  BY DEF JobSound
<1>5. ASSUME NEW b \in Commands PROVE JobSound(b)'
  <2>1. JobSound(b) /\ job'[b] = job[b] /\ b # Daemon
    BY ConstantsAssumption DEF WatchInv, FollowInv, Actors
  <2>2. ASSUME NEW v, Leaves(b, v), job[b].pc # "idle" PROVE Leaves(b, v)'
    <3>1. PICK p \in Paths : p = job[b].path
      BY <1>1, <2>2 DEF Actors
    <3>2. Desired(p) = v \/ Due(p)
      BY <2>2, <3>1 DEF Leaves, Due
    <3>3. Desired(p)' = v \/ Due(p)'
      BY <1>2, <3>1, <3>2
    <3> QED
      BY <2>1, <3>1, <3>3 DEF Leaves, Due
  <2>3. job[b].pc = "write" => Leaves(b, job[b].seen)'
    <3>1. PICK v : v = job[b].seen
      OBVIOUS
    <3> QED
      BY <2>1, <2>2, <3>1 DEF JobSound
  <2>4. job[b].pc = "remove" => Leaves(b, Absent)'
    BY <2>1, <2>2 DEF JobSound
  <2> QED
    BY <2>1, <2>3, <2>4 DEF JobSound
<1>6. ASSUME NEW p \in Paths PROVE RecordOK(p)' /\ TextOK(p)'
  <2>1. RecordOK(p) /\ TextOK(p)
    BY DEF WatchInv, FollowInv
  <2>2. Desired(p)' = Desired(p)
    BY <1>2
  <2> QED
    BY <1>1, <2>1, <2>2 DEF RecordOK, TextOK
<1>7. LowUnrecorded'
  BY <1>1 DEF WatchInv, FollowInv, LowUnrecorded
<1> QED
  BY <1>3, <1>4, <1>5, <1>6, <1>7 DEF FollowInv, Actors

\* What is on its way to the handler.
LEMMA QueueGrows ==
  ASSUME TypeOK, EventsOK, NEW e \in Event, queue' = Append(queue, e),
         e.kind = "moved" => e.dest \in Paths, e.kind # "moved" => e.dest = NoPath
  PROVE  /\ Queued' = Queued \cup EventPaths(e)
         /\ EventsOK'
<1>1. queue \in Seq(Event)
  BY DEF TypeOK, Event
<1>2. /\ DOMAIN queue' = DOMAIN queue \cup {Len(queue) + 1}
      /\ \A i \in DOMAIN queue : queue'[i] = queue[i]
      /\ queue'[Len(queue) + 1] = e
  BY <1>1
<1>3. EventsOK'
  BY <1>2 DEF EventsOK
<1>4. Queued' = Queued \cup EventPaths(e)
  BY <1>2 DEF Queued, EventPaths
<1> QED
  BY <1>3, <1>4

LEMMA QueueShrinks ==
  ASSUME TypeOK, EventsOK, queue # <<>>, queue' = Tail(queue)
  PROVE  /\ Queued \subseteq Queued' \cup EventPaths(Head(queue))
         /\ EventsOK'
         /\ Head(queue) \in Event
         /\ Head(queue).kind = "moved" => Head(queue).dest \in Paths
         /\ Head(queue).kind # "moved" => Head(queue).dest = NoPath
<1>1. queue \in Seq(Event)
  BY DEF TypeOK, Event
<1>2. /\ Len(queue) \in Nat \ {0} /\ DOMAIN queue = 1 .. Len(queue)
      /\ DOMAIN queue' = 1 .. Len(queue) - 1
      /\ \A i \in DOMAIN queue' : queue'[i] = queue[i + 1]
      /\ Head(queue) = queue[1]
  BY <1>1
<1>3. \A i \in DOMAIN queue : i = 1 \/ (i - 1 \in DOMAIN queue' /\ queue'[i - 1] = queue[i])
  BY <1>2
<1>4. Queued \subseteq Queued' \cup EventPaths(Head(queue))
  BY <1>2, <1>3 DEF Queued, EventPaths
<1>5. EventsOK'
  BY <1>2 DEF EventsOK
<1>6. 1 \in DOMAIN queue /\ Head(queue) \in Event
  BY <1>1, <1>2
<1> QED
  BY <1>2, <1>4, <1>5, <1>6 DEF EventsOK

\* A change is queued, or missed.
LEMMA NoticeOwes ==
  ASSUME TypeOK, EventsOK, NEW e \in Event, Notice(e),
         e.kind = "moved" => e.dest \in Paths, e.kind # "moved" => e.dest = NoPath
  PROVE  /\ EventsOK' /\ UNCHANGED <<job, stores, pruning, evicted, included>>
         /\ \A p \in Paths : Owed(p) => Owed(p)'
         /\ \A p \in EventPaths(e) : Owed(p)'
<1>1. UNCHANGED <<included, up, snapshot, handler, batch, job, stores, pruning, evicted>>
  BY DEF Notice
<1>2. Heard' = Heard /\ Waiting' = Waiting
  BY <1>1 DEF Heard, Waiting, Sources, Dests
<1>3. CASE queue' = Append(queue, e) /\ missed' = missed \ EventPaths(e)
  <2>1. Queued' = Queued \cup EventPaths(e) /\ EventsOK'
    BY <1>3, QueueGrows
  <2> QED
    BY <1>1, <1>2, <1>3, <2>1 DEF Owed
<1>4. CASE queue' = queue /\ missed' = missed \cup EventPaths(e)
  <2>1. Queued' = Queued /\ EventsOK'
    BY <1>4 DEF Queued, EventsOK
  <2> QED
    BY <1>1, <1>2, <1>4, <2>1 DEF Owed
<1> QED
  BY <1>3, <1>4 DEF Notice

LEMMA ChangeFollows == ASSUME WatchInv, Change PROVE FollowInv'
<1>1. TypeOK /\ EventsOK /\ fs \in [Paths -> Content]
  BY DEF WatchInv, FollowInv, TypeOK
<1>2. ASSUME NEW e \in Event, Notice(e), EventPaths(e) \subseteq Paths,
             e.kind = "moved" => e.dest \in Paths, e.kind # "moved" => e.dest = NoPath,
             \A p \in Paths \ EventPaths(e) : fs'[p] = fs[p]
      PROVE  FollowInv'
  <2>1. /\ EventsOK' /\ UNCHANGED <<job, stores, pruning, evicted, included>>
        /\ \A p \in Paths : Owed(p) => Owed(p)'
        /\ \A p \in EventPaths(e) : Owed(p)'
    BY <1>1, <1>2, NoticeOwes
  <2>2. \A p \in Paths \ EventPaths(e) : fs'[p] = fs[p] /\ Desired(p)' = Desired(p)
    BY <1>2, <2>1 DEF Desired
  <2> QED
    BY <2>1, <2>2, EventsFollow
<1>3. ASSUME NEW p \in Paths, WriteFile(p) PROVE FollowInv'
  <2>1. PICK e \in Event : e = Changed(p) /\ EventPaths(e) = {p}
    BY EventTypes
  <2>2. e.kind = "changed" /\ e.dest = NoPath
    BY <2>1 DEF Changed
  <2>3. Notice(e) /\ \A r \in Paths \ {p} : fs'[r] = fs[r]
    BY <1>1, <1>3, <2>1 DEF WriteFile
  <2> QED
    BY <1>2, <2>1, <2>2, <2>3
<1>4. ASSUME NEW p \in Paths, DeleteFile(p) PROVE FollowInv'
  <2>1. PICK e \in Event : e = Deleted(p) /\ EventPaths(e) = {p}
    BY EventTypes
  <2>2. e.kind = "deleted" /\ e.dest = NoPath
    BY <2>1 DEF Deleted
  <2>3. Notice(e) /\ \A r \in Paths \ {p} : fs'[r] = fs[r]
    BY <1>1, <1>4, <2>1 DEF DeleteFile
  <2> QED
    BY <1>2, <2>1, <2>2, <2>3
<1>5. ASSUME NEW p \in Paths, NEW q \in Paths, MoveFile(p, q) PROVE FollowInv'
  <2>1. PICK e \in Event : e = Moved(p, q) /\ EventPaths(e) = {p, q}
    BY EventTypes
  <2>2. e.kind = "moved" /\ e.dest = q
    BY <2>1 DEF Moved
  <2>3. Notice(e) /\ \A r \in Paths \ {p, q} : fs'[r] = fs[r]
    BY <1>1, <1>5, <2>1 DEF MoveFile
  <2> QED
    BY <1>2, <2>1, <2>2, <2>3
<1>6. ASSUME NEW S \in SUBSET Paths, ChangeFilter(S) PROVE FollowInv'
  <2>1. /\ included' = S
        /\ missed' = missed \cup (Paths \ {p \in Paths : p \in S <=> p \in included})
        /\ UNCHANGED <<fs, up, snapshot, queue, handler, batch, job, stores, pruning, evicted>>
    BY <1>6 DEF ChangeFilter, loop
  <2>2. \A p \in Paths : Owed(p) => Owed(p)'
    BY <2>1 DEF Owed, Queued, Heard, Waiting, Sources, Dests
  <2>3. ASSUME NEW p \in Paths, p \notin missed' PROVE fs'[p] = fs[p] /\ Desired(p)' = Desired(p)
    <3>1. p \in included' <=> p \in included
      BY <2>1, <2>3
    <3> QED
      BY <2>1, <3>1 DEF Desired
  <2>4. EventsOK'
    BY <1>1, <2>1 DEF EventsOK
  <2> QED
    BY <2>1, <2>2, <2>3, <2>4, EventsFollow DEF Owed
<1> QED
  BY <1>3, <1>4, <1>5, <1>6 DEF Change

\* The handler remembers both names of every event, or the one it forgets is missed.
LEMMA DeliverOwes ==
  ASSUME WatchInv, Deliver
  PROVE  EventsOK' /\ \A p \in Paths : Owed(p) => Owed(p)'
<1>1. TypeOK /\ EventsOK
  BY DEF WatchInv, FollowInv
<1>2. queue # <<>> /\ queue' = Tail(queue) /\ UNCHANGED batch
  BY DEF Deliver
<1>3. PICK e \in Event : /\ e = Head(queue)
                         /\ Queued \subseteq Queued' \cup EventPaths(e)
                         /\ e.kind = "moved" => e.dest \in Paths
                         /\ e.kind # "moved" => e.dest = NoPath
  BY <1>1, <1>2, QueueShrinks
<1>4. e.path \in Paths /\ e.kind \in {"changed", "deleted", "moved"}
  BY DEF Event
<1>5. /\ handler.moved \in [Paths -> Paths \cup {NoPath}]
      /\ handler \in Handler
  BY <1>1 DEF TypeOK, Handler
<1>6. \A p \in Paths : p \in Heard => p \in Heard' \cup missed'
  <2>1. CASE e.kind = "changed"
    <3>1. handler' = [handler EXCEPT !.changed = @ \cup {e.path}]
      BY <1>3, <2>1 DEF Deliver
    <3>2. /\ handler'.changed = handler.changed \cup {e.path}
          /\ handler'.deleted = handler.deleted /\ handler'.moved = handler.moved
      BY <1>5, <3>1 DEF Handler
    <3> QED
      BY <3>2 DEF Heard, Sources, Dests
  <2>2. CASE e.kind = "deleted"
    <3>1. handler' = [handler EXCEPT !.deleted = @ \cup {e.path}]
      BY <1>3, <2>2 DEF Deliver
    <3>2. /\ handler'.deleted = handler.deleted \cup {e.path}
          /\ handler'.changed = handler.changed /\ handler'.moved = handler.moved
      BY <1>5, <3>1 DEF Handler
    <3> QED
      BY <3>2 DEF Heard, Sources, Dests
  <2>3. CASE e.kind = "moved"
    <3>1. /\ handler' = [handler EXCEPT !.moved[e.path] = e.dest]
          /\ missed' = IF handler.moved[e.path] # e.dest
                         THEN missed \cup ({handler.moved[e.path]} \ {NoPath}) ELSE missed
      BY <1>3, <2>3 DEF Deliver
    <3>2. /\ handler'.deleted = handler.deleted /\ handler'.changed = handler.changed
          /\ handler'.moved = [handler.moved EXCEPT ![e.path] = e.dest]
      BY <1>5, <3>1 DEF Handler
    <3>3. e.dest # NoPath
      BY <1>3, <2>3, ConstantsAssumption
    <3>4. \A p \in Sources : p \in Sources'
      BY <1>4, <1>5, <3>2, <3>3 DEF Sources
    <3>5. \A p \in Dests : p \in Dests' \/ p \in missed'
      <4> SUFFICES ASSUME NEW s \in Paths, handler.moved[s] # NoPath
                   PROVE  handler.moved[s] \in Dests' \/ handler.moved[s] \in missed'
        BY DEF Dests, Sources
      <4>1. CASE s # e.path
        BY <1>4, <1>5, <3>2, <4>1 DEF Dests, Sources
      <4>2. CASE s = e.path /\ handler.moved[s] = e.dest
        BY <1>4, <1>5, <3>2, <3>3, <4>2 DEF Dests, Sources
      <4>3. CASE s = e.path /\ handler.moved[s] # e.dest
        BY <3>1, <4>3
      <4> QED
        BY <4>1, <4>2, <4>3
    <3> QED
      BY <3>2, <3>4, <3>5 DEF Heard
  <2> QED
    BY <1>4, <2>1, <2>2, <2>3
<1>7. EventPaths(e) \subseteq Heard'
  <2>1. CASE e.kind = "changed"
    <3>1. handler' = [handler EXCEPT !.changed = @ \cup {e.path}]
      BY <1>3, <2>1 DEF Deliver
    <3> QED
      BY <1>3, <1>5, <2>1, <3>1 DEF Heard, EventPaths, Handler
  <2>2. CASE e.kind = "deleted"
    <3>1. handler' = [handler EXCEPT !.deleted = @ \cup {e.path}]
      BY <1>3, <2>2 DEF Deliver
    <3> QED
      BY <1>3, <1>5, <2>2, <3>1 DEF Heard, EventPaths, Handler
  <2>3. CASE e.kind = "moved"
    <3>1. handler' = [handler EXCEPT !.moved[e.path] = e.dest]
      BY <1>3, <2>3 DEF Deliver
    <3>2. handler'.moved = [handler.moved EXCEPT ![e.path] = e.dest]
      BY <1>5, <3>1 DEF Handler
    <3>3. e.dest # NoPath
      BY <1>3, <2>3, ConstantsAssumption
    <3>4. e.path \in Sources' /\ e.dest \in Dests'
      BY <1>4, <1>5, <3>2, <3>3 DEF Sources, Dests
    <3> QED
      BY <3>4 DEF Heard, EventPaths
  <2> QED
    BY <1>4, <2>1, <2>2, <2>3
<1>8. missed \subseteq missed'
  BY DEF Deliver
<1>9. Waiting' = Waiting
  BY <1>2 DEF Waiting
<1>10. EventsOK'
  BY <1>1, <1>2, QueueShrinks
<1> QED
  BY <1>3, <1>6, <1>7, <1>8, <1>9, <1>10 DEF Owed

LEMMA DeliverFollows == ASSUME WatchInv, Deliver PROVE FollowInv'
<1>1. UNCHANGED <<files, job, stores, pruning, evicted>>
  BY DEF Deliver
<1>2. \A p \in Paths : fs'[p] = fs[p] /\ Desired(p)' = Desired(p)
  BY <1>1, DesiredStays DEF files
<1> QED
  BY <1>1, <1>2, DeliverOwes, EventsFollow

\* What a drain drops without a note was up to date.
LEMMA DrainFollows == ASSUME WatchInv, Drain PROVE FollowInv'
<1>1. /\ job[Daemon].pc = "idle" /\ batch = NoBatch
      /\ batch' = [delete |-> (handler.deleted \cup Sources) \cap snapshot,
                   sync   |-> (handler.changed \cup Dests) \cap snapshot]
      /\ missed' = missed \cup Dropped
      /\ UNCHANGED <<files, up, snapshot, queue, job, stores, pruning, evicted>>
  BY DEF Drain
<1>2. EventsOK' /\ JobSound(Daemon) /\ Queued' = Queued
  BY <1>1 DEF WatchInv, FollowInv, EventsOK, Actors, Queued
<1>3. Waiting = {} /\ Waiting' = Heard \cap snapshot
  <2>1. Waiting = {}
    BY <1>1 DEF Waiting, NoBatch
  <2>2. Waiting' = Heard \cap snapshot
    BY <1>1 DEF Waiting, Heard
  <2> QED
    BY <2>1, <2>2
<1>4. ASSUME NEW p \in Paths, Due(p)
      PROVE  \/ Due(p)'
             \/ /\ Desired(p) = Absent /\ nodes[p] = Absent
                /\ \A b \in Commands : job[b].path # p
  <2>1. p \in Queued \cup Heard \cup Waiting \cup missed
    BY <1>1, <1>4 DEF Due, Owed, InHand
  <2>2. CASE p \in Queued \cup missed \/ p \in Heard \cap snapshot \/ p \in Dropped
    BY <1>1, <1>2, <1>3, <2>2 DEF Due, Owed
  <2>3. CASE p \in Heard \ snapshot /\ p \notin Dropped
    <3>1. /\ p \notin included /\ UpToDate(p)
          /\ \A b \in Commands : job[b].path # p
      BY <2>3 DEF Dropped
    <3>2. Desired(p) = Absent
      BY <3>1 DEF Desired
    <3>3. nodes[p] = Absent
      BY <3>1, <3>2 DEF UpToDate
    <3> QED
      BY <3>1, <3>2, <3>3
  <2> QED
    BY <1>3, <2>1, <2>2, <2>3
<1>5. ~job[Daemon].synced
  BY <1>1, <1>2 DEF JobSound
<1> QED
  BY <1>1, <1>2, <1>4, <1>5, LoopFollows

\* A path that leaves the batch is in the daemon's hand.
LEMMA NextFollows == ASSUME WatchInv, NextPath PROVE FollowInv'
<1>1. /\ job[Daemon].pc = "idle"
      /\ UNCHANGED <<files, up, snapshot, queue, handler, stores, pruning, missed, evicted>>
  BY DEF NextPath
<1>2. /\ batch.delete \in SUBSET Paths /\ batch.sync \in SUBSET Paths /\ batch \in Batch
      /\ Daemon \in Actors /\ TypeOK /\ JobSound(Daemon)
  BY DEF WatchInv, FollowInv, TypeOK, Actors, Batch
<1>3. PICK p \in Paths : /\ SetJob(Daemon, Ready(p))
                         /\ batch' \in {[batch EXCEPT !.delete = @ \ {p}],
                                        [batch EXCEPT !.sync = @ \ {p}]}
  BY <1>2 DEF NextPath
<1>4. Waiting \subseteq Waiting' \cup {p}
  BY <1>2, <1>3 DEF Waiting, Batch
<1>5. PICK r \in Job : r = Ready(p) /\ r.pc = "check" /\ r.path = p /\ ~r.synced
  BY JobStart
<1>6. job'[Daemon] = r /\ \A b \in Commands : job'[b] = job[b]
  BY <1>2, <1>3, <1>5, JobTypes, ConstantsAssumption DEF SetJob, Actors
<1>7. InHand(p)'
  BY <1>5, <1>6 DEF InHand
<1>8. \A s \in Paths : Due(s) => Due(s)'
  <2> SUFFICES ASSUME NEW s \in Paths, Due(s), s # p PROVE Due(s)'
    BY <1>7 DEF Due
  <2>1. Owed(s)
    BY <1>1 DEF Due, InHand
  <2>2. Owed(s)'
    BY <1>1, <1>4, <2>1 DEF Owed, Queued, Heard, Sources, Dests
  <2> QED
    BY <2>2 DEF Due
<1>9. ~job[Daemon].synced /\ EventsOK'
  BY <1>1, <1>2 DEF JobSound, WatchInv, FollowInv, EventsOK
<1> QED
  BY <1>1, <1>5, <1>6, <1>8, <1>9, LoopFollows

\* What dies with the daemon is missed.
LEMMA DeathFollows == ASSUME WatchInv, DaemonDies PROVE FollowInv'
<1>1. /\ queue' = <<>> /\ SetJob(Daemon, NoJob)
      /\ missed' = missed \cup Queued \cup Heard \cup Waiting \cup ({job[Daemon].path} \ {NoPath})
      /\ UNCHANGED <<files, snapshot, stores, pruning, evicted>>
  BY DEF DaemonDies
<1>2. Daemon \in Actors /\ TypeOK
  BY DEF WatchInv, Actors
<1>3. job'[Daemon] = NoJob /\ \A b \in Commands : job'[b] = job[b]
  BY <1>1, <1>2, JobTypes, ConstantsAssumption DEF SetJob, Actors
<1>4. EventsOK'
  BY <1>1 DEF EventsOK
<1>5. ASSUME NEW p \in Paths, Due(p) \/ job[Daemon].path = p PROVE Due(p)'
  <2>1. p \in missed'
    BY <1>1, <1>5, HandAtPath, ConstantsAssumption DEF Due, Owed
  <2> QED
    BY <2>1 DEF Due, Owed
<1> QED
  BY <1>1, <1>3, <1>4, <1>5, JobStart, LoopFollows

LEMMA StartFollows == ASSUME WatchInv, DaemonStarts PROVE FollowInv'
<1>1. UNCHANGED <<files, queue, handler, batch, job, stores, pruning, missed, evicted>>
  BY DEF DaemonStarts
<1>2. \A p \in Paths : fs'[p] = fs[p] /\ Desired(p)' = Desired(p)
  BY <1>1, DesiredStays DEF files
<1>3. EventsOK' /\ \A p \in Paths : Owed(p) => Owed(p)'
  BY <1>1 DEF WatchInv, FollowInv, EventsOK, Owed, Queued, Heard, Sources, Dests, Waiting
<1> QED
  BY <1>1, <1>2, <1>3, EventsFollow

LEMMA CommandFollows ==
  ASSUME WatchInv, NEW a \in Commands, NEW p \in Paths, CommandSync(a, p) PROVE FollowInv'
<1>1. /\ SetJob(a, Ready(p)) /\ UNCHANGED <<files, loop, stores, pruning, missed, evicted>>
  BY DEF CommandSync
<1>2. a \in Actors /\ a # Daemon /\ Daemon \in Actors /\ TypeOK
  BY ConstantsAssumption DEF WatchInv, Actors
<1>3. PICK r \in Job : r = Ready(p) /\ r.pc = "check" /\ ~r.synced
  BY JobStart
<1>4. job'[a] = r /\ \A b \in Actors \ {a} : Undisturbed(b)
  BY <1>1, <1>2, <1>3, SetJobTakes
<1>5. JobSound(a)'
  BY <1>3, <1>4 DEF JobSound
<1>6. \A s \in Paths : InHand(s) => Due(s)'
  BY <1>1, <1>2, <1>4, HandStays DEF Due
<1>7. job[Daemon].synced => job'[Daemon].synced /\ job'[Daemon].path = job[Daemon].path
  BY <1>2, <1>4 DEF Undisturbed
<1> QED
  BY <1>1, <1>2, <1>4, <1>5, <1>6, <1>7, MoveFollows

\* A record whose file is missing is one nobody wants, when the prune looks.
LEMMA ScanFollows == ASSUME WatchInv, PruneScan PROVE FollowInv'
<1>1. /\ pruning' = {p \in Recorded : fs[p] = Absent}
      /\ UNCHANGED <<files, loop, job, stores, missed, evicted>>
  BY DEF PruneScan
<1>2. UNCHANGED <<fs, included, queue, handler, batch, job, nodes, index, missed, evicted>>
  BY <1>1 DEF files, loop, stores
<1>3. \A p : /\ Desired(p)' = Desired(p)
             /\ (Owed(p) => Owed(p)') /\ (InHand(p) => InHand(p)')
  BY <1>2 DEF Desired, Owed, Queued, Heard, Sources, Dests, Waiting, InHand
<1>4. PruneSound'
  BY <1>1, <1>3 DEF PruneSound, Desired
<1>5. ASSUME NEW a \in Actors PROVE JobSound(a)'
  <2>1. JobSound(a)
    BY DEF WatchInv, FollowInv
  <2> QED
    BY <1>2, <1>3, <2>1 DEF JobSound, Leaves
<1>6. ASSUME NEW p \in Paths PROVE RecordOK(p)' /\ TextOK(p)'
  <2>1. RecordOK(p) /\ TextOK(p)
    BY DEF WatchInv, FollowInv
  <2> QED
    BY <1>2, <1>3, <2>1 DEF RecordOK, TextOK, Due
<1>7. EventsOK' /\ LowUnrecorded'
  BY <1>2 DEF WatchInv, FollowInv, EventsOK, LowUnrecorded
<1> QED
  BY <1>4, <1>5, <1>6, <1>7 DEF FollowInv

LEMMA PruneFollows == ASSUME WatchInv, PruneDelete PROVE FollowInv'
<1>1. PICK S : S = pruning
  OBVIOUS
<1>2. TypeOK /\ Daemon \in Actors /\ job[Daemon] \in Job
  BY JobTypes DEF WatchInv, Actors
<1>3. PICK r \in Job : /\ r = [job[Daemon] EXCEPT !.victims = @ \ S]
                       /\ r.pc = job[Daemon].pc /\ r.path = job[Daemon].path
                       /\ r.seen = job[Daemon].seen /\ r.synced = job[Daemon].synced
  <2>1. PICK old \in Job : old = job[Daemon]
    BY <1>2
  <2>2. PICK r : r = [old EXCEPT !.victims = @ \ S]
    OBVIOUS
  <2>3. /\ r \in Job /\ r.pc = old.pc /\ r.path = old.path
        /\ r.seen = old.seen /\ r.synced = old.synced
    BY <2>2, FewerVictims
  <2> QED
    BY <2>1, <2>2, <2>3
<1>4. Delete(S, Daemon, r) /\ UNCHANGED <<files, loop, index, missed, evicted>>
  BY <1>1, <1>3 DEF PruneDelete
<1>5. /\ job'[Daemon] = r /\ \A b \in Actors \ {Daemon} : Undisturbed(b)
      /\ \A p \in Paths : nodes'[p] = IF p \in S THEN Absent ELSE nodes[p]
      /\ pruning' = pruning \ S
  BY <1>2, <1>4, DeleteTakes
<1>6. Undisturbed(Daemon)
  BY <1>3, <1>5 DEF Undisturbed
<1>7. \A p \in Paths : Due(p) => Due(p)'
  BY <1>4, <1>6, DueStays
<1>8. PruneSound' /\ \A b \in Actors \ {Daemon} : JobSound(b)'
  BY <1>2, <1>4, <1>5, <1>7, OthersSound DEF Due
<1>9. JobSound(Daemon)'
  <2>1. JobSound(Daemon)
    BY <1>2 DEF WatchInv, FollowInv
  <2>2. \A p : Desired(p)' = Desired(p) /\ (Owed(p) => Owed(p)')
    BY <1>4, DesiredStays, OwedStays
  <2> QED
    BY <1>3, <1>5, <2>1, <2>2 DEF JobSound, Leaves
<1>10. ASSUME NEW p \in Paths PROVE RecordOK(p)' /\ TextOK(p)'
  <2>1. /\ index'[p] = index[p] /\ (InHand(p) => Due(p)') /\ (p \in evicted => p \in evicted')
        /\ Desired(p)' = Desired(p)
    BY <1>4, <1>7, DesiredStays DEF Due
  <2>2. TextOK(p)'
    BY <1>4, <1>6, <2>1, StillFollows DEF Undisturbed
  <2>3. CASE p \in S
    <3>1. Desired(p) = Absent \/ Due(p)
      BY <1>1, <2>3 DEF WatchInv, FollowInv, PruneSound
    <3> QED
      BY <1>5, <1>7, <2>1, <2>2, <2>3, <3>1 DEF RecordOK
  <2>4. CASE p \notin S
    BY <1>4, <1>5, <2>1, <2>2, <2>4, StillFollows
  <2> QED
    BY <2>3, <2>4
<1>11. EventsOK' /\ LowUnrecorded'
  BY <1>4, <1>5 DEF WatchInv, FollowInv, EventsOK, LowUnrecorded, loop
<1> QED
  BY <1>8, <1>9, <1>10, <1>11 DEF FollowInv

LEMMA InitFollows == ASSUME Init PROVE FollowInv
<1>1. /\ queue = <<>> /\ pruning = {} /\ fs = [p \in Paths |-> Absent]
      /\ nodes = [p \in Paths |-> Absent] /\ job = [a \in Actors |-> NoJob]
  BY DEF Init
<1>2. \A p \in Paths : Desired(p) = Absent
  BY <1>1 DEF Desired
<1>3. \A a \in Actors : JobSound(a)
  BY <1>1, JobStart DEF JobSound
<1> QED
  BY <1>1, <1>2, <1>3 DEF FollowInv, EventsOK, LowUnrecorded, PruneSound, RecordOK, TextOK

LEMMA StutterFollows == ASSUME WatchInv, UNCHANGED vars PROVE FollowInv'
<1>1. UNCHANGED <<files, queue, handler, batch, job, stores, pruning, missed, evicted>>
  BY DEF vars, files, stores
<1>2. \A p \in Paths : fs'[p] = fs[p] /\ Desired(p)' = Desired(p)
  BY <1>1, DesiredStays DEF files
<1>3. EventsOK' /\ \A p \in Paths : Owed(p) => Owed(p)'
  BY <1>1 DEF WatchInv, FollowInv, EventsOK, Owed, Queued, Heard, Sources, Dests, Waiting
<1> QED
  BY <1>1, <1>2, <1>3, EventsFollow

LEMMA StepFollows == ASSUME WatchInv, [Next]_vars PROVE FollowInv'
<1>1. ASSUME NEW a \in Actors, Sync(a) PROVE FollowInv'
  BY <1>1, CheckFollows, RemoveFollows, ReadFollows, WriteFollows, LimitFollows,
     EvictFollows, AutoIndexFollows DEF Sync
<1>2. CASE \E a \in Actors : DatabaseFails(a) \/ LimitFails(a)
  BY <1>2, FailureFollows, LimitFollows
<1>3. CASE DaemonStep
  BY <1>1, <1>3, DeliverFollows, DrainFollows, NextFollows DEF DaemonStep, Actors
<1>4. CASE \E a \in Commands : (\E p \in Paths : CommandSync(a, p)) \/ Sync(a)
  BY <1>1, <1>4, CommandFollows DEF Actors
<1>5. CASE Change
  BY <1>5, ChangeFollows
<1>6. CASE DaemonDies \/ DaemonStarts \/ PruneScan \/ PruneDelete
  BY <1>6, DeathFollows, StartFollows, ScanFollows, PruneFollows
<1>7. CASE UNCHANGED vars
  BY <1>7, StutterFollows
<1> QED
  BY <1>2, <1>3, <1>4, <1>5, <1>6, <1>7 DEF Next

LEMMA Invariance == Safety => []WatchInv
<1>1. Init => WatchInv
  BY InitTypes, InitFollows DEF WatchInv
<1>2. WatchInv /\ [Next]_vars => WatchInv'
  BY StepTypes, StepFollows DEF WatchInv
<1> QED
  BY <1>1, <1>2, PTL DEF Safety

-----------------------------------------------------------------------------
(* What it shows *)

\* Files, events, jobs and records keep their types, and whoever is at work has a path.
THEOREM TypeCorrect == Safety => []TypeOK
<1>1. WatchInv => TypeOK
  BY DEF WatchInv
<1> QED
  BY <1>1, Invariance, PTL

\* A record that disagrees with its file is on the way to being looked at, or its last
\* change is one of those known to be lost: whatever the daemon, the sync commands, the
\* prune, the limit, failing databases, deaths and changes of the filter do in between.
THEOREM NothingLost == Safety => []NothingForgotten
<1>1. WatchInv => NothingForgotten
  BY DEF WatchInv, FollowInv, RecordOK, NothingForgotten, Due, Owed, Pending
<1> QED
  BY <1>1, Invariance, PTL

\* So is a text in the index that disagrees with its file.
THEOREM TextsFollow == Safety => []IndexFollows
<1>1. WatchInv => IndexFollows
  BY DEF WatchInv, FollowInv, TextOK, IndexFollows, Due, Owed, Pending
<1> QED
  BY <1>1, Invariance, PTL

-----------------------------------------------------------------------------
(* The limit *)

\* The database is within its limit, or somebody is about to see to it: is going to look
\* for the excess, or has found enough records to evict.
Fits(S) == MaxDocuments = 0 \/ Cardinality(S) <= MaxDocuments
Enforces(a) ==
    \/ job[a].pc = "pick"
    \/ (job[a].pc = "evict" /\ Fits(Recorded \ job[a].victims))
Full == Fits(Recorded) \/ \E a \in Actors : Enforces(a)

\* The daemon's victims are recorded, and what it spares just fits.
Exact ==
    job[Daemon].pc = "evict" =>
      /\ job[Daemon].victims \subseteq Recorded
      /\ Cardinality(Recorded \ job[Daemon].victims) = MaxDocuments

LEMMA FitsFewer ==
  ASSUME NEW T \in SUBSET Paths, NEW S \in SUBSET T
  PROVE  /\ Cardinality(S) \in Nat /\ Cardinality(S) <= Cardinality(T)
         /\ Fits(T) => Fits(S)
<1>1. IsFiniteSet(T) /\ IsFiniteSet(S) /\ Cardinality(S) <= Cardinality(T)
  BY FS_Subset, ConstantsAssumption
<1>2. Cardinality(S) \in Nat /\ Cardinality(T) \in Nat /\ MaxDocuments \in Nat
  BY <1>1, FS_CardinalityType, ConstantsAssumption
<1> QED
  BY <1>1, <1>2 DEF Fits

LEMMA ExcessFound ==
  ASSUME NEW V \in Lowest(Excess)
  PROVE  /\ V \in SUBSET Recorded
         /\ V = {} => Fits(Recorded)
         /\ V # {} => Cardinality(Recorded \ V) = MaxDocuments
<1>1. V \in SUBSET Recorded /\ Cardinality(V) = Excess
  BY DEF Lowest
<1>2. Recorded \in SUBSET Paths
  BY DEF Recorded
<1>3. IsFiniteSet(Recorded) /\ IsFiniteSet(V)
  BY <1>1, <1>2, FS_Subset, ConstantsAssumption
<1>4. Cardinality(Recorded) \in Nat /\ MaxDocuments \in Nat
  BY <1>3, FS_CardinalityType, ConstantsAssumption
<1>5. V = {} <=> Excess = 0
  BY <1>1, <1>3, FS_EmptySet
<1>6. CASE Fits(Recorded)
  BY <1>1, <1>5, <1>6 DEF Fits, Excess
<1>7. CASE ~Fits(Recorded)
  <2>1. Excess = Cardinality(Recorded) - MaxDocuments /\ Excess # 0
    BY <1>4, <1>7 DEF Fits, Excess
  <2>2. Cardinality(Recorded \ V) = Cardinality(Recorded) - Cardinality(Recorded \cap V)
    BY <1>3, FS_Difference
  <2>3. Recorded \cap V = V
    BY <1>1
  <2> QED
    BY <1>1, <1>4, <1>5, <2>1, <2>2, <2>3
<1> QED
  BY <1>6, <1>7

\* Who is at work on nothing else than a is left to itself.
LEMMA OthersStay ==
  ASSUME TypeOK, NEW a \in Actors, NEW r, SetJob(a, r)
  PROVE  job'[a] = r /\ \A b \in Actors \ {a} : job'[b] = job[b]
  BY JobTypes DEF SetJob

\* A step that records nothing new, by actors on whom the limit does not depend.
LEMMA LimitStays ==
  ASSUME NEW A \in SUBSET Actors, Fits(Recorded) \/ \E a \in Actors \ A : Enforces(a),
         Recorded' \subseteq Recorded,
         \A b \in Actors \ A : /\ job'[b].pc = job[b].pc
                               /\ Recorded' \ job'[b].victims \subseteq Recorded \ job[b].victims
  PROVE  Full'
<1>0. Recorded \in SUBSET Paths
  BY DEF Recorded
<1>1. CASE Fits(Recorded)
  <2>1. PICK S, T : S = Recorded' /\ T = Recorded
    OBVIOUS
  <2>2. Fits(S)
    BY <1>0, <1>1, <2>1, FitsFewer
  <2> QED
    BY <2>1, <2>2 DEF Full, Fits
<1>2. ASSUME NEW b \in Actors \ A, Enforces(b) PROVE Full'
  <2>2. PICK S, T : S = Recorded' \ job'[b].victims /\ T = Recorded \ job[b].victims
    OBVIOUS
  <2>3. S \in SUBSET T /\ T \in SUBSET Paths
    BY <1>0, <2>2
  <2>4. Fits(T) => Fits(S)
    BY <2>3, FitsFewer
  <2>5. Enforces(b)'
    BY <1>2, <2>2, <2>4 DEF Enforces, Fits
  <2> QED
    BY <2>5 DEF Full
<1> QED
  BY <1>1, <1>2

\* Deleting records takes none of their victims from those who are about to evict.
LEMMA DeleteKeepsLimit ==
  ASSUME TypeOK, NEW S, NEW a \in Actors, NEW r \in Job, Delete(S, a, r),
         Fits(Recorded) \/ \E b \in Actors \ {a} : Enforces(b)
  PROVE  Full'
<1>1. /\ \A p \in Paths : nodes'[p] = IF p \in S THEN Absent ELSE nodes[p]
      /\ \A b \in Actors \ {a} : Undisturbed(b) /\ job'[b].victims = job[b].victims \ S
  BY DeleteTakes
<1>2. Recorded' = Recorded \ S
  BY <1>1 DEF Recorded
<1>3. \A b \in Actors \ {a} :
        job'[b].pc = job[b].pc /\ Recorded' \ job'[b].victims \subseteq Recorded \ job[b].victims
  BY <1>1, <1>2 DEF Undisturbed
<1>4. PICK A \in SUBSET Actors : A = {a}
  OBVIOUS
<1> QED
  BY <1>2, <1>3, <1>4, LimitStays

\* Nobody deletes or records anything, and none but a moves, whom the limit does not need.
LEMMA MoveKeepsLimit ==
  ASSUME Full, NEW a \in Actors, \A b \in Actors \ {a} : job'[b] = job[b], UNCHANGED nodes,
         job[a].pc \notin {"pick", "evict"} \/ job'[a] = job[a]
  PROVE  Full'
  BY DEF Full, Enforces, Fits, Recorded

\* Whoever synchronises keeps to the limit.
LEMMA SyncKeepsLimit ==
  ASSUME TypeOK, Full, NEW a \in Actors, Sync(a) PROVE Full'
<1>1. Recorded \in SUBSET Paths /\ job[a] \in Job /\ (job[a].pc # "idle" => job[a].path \in Paths)
  BY JobTypes DEF Recorded, TypeOK
<1>2. job[a].pc \notin {"pick", "evict"} => Fits(Recorded) \/ \E b \in Actors \ {a} : Enforces(b)
  BY DEF Full, Enforces
<1>3. ASSUME NEW r, SetJob(a, r), UNCHANGED nodes, job[a].pc \notin {"pick", "evict"} PROVE Full'
  BY <1>3, OthersStay, MoveKeepsLimit
<1>4. CASE SyncCheck(a)
  <2>1. UNCHANGED nodes /\ job[a].pc = "check" /\ \E r : SetJob(a, r)
    BY <1>4 DEF SyncCheck, Goto, stores
  <2> QED
    BY <1>3, <2>1
<1>5. CASE SyncRemove(a)
  <2>1. job[a].pc = "remove" /\ \E S : \E r \in Job : Delete(S, a, r)
    BY <1>5, JobStart DEF SyncRemove
  <2> QED
    BY <1>2, <2>1, DeleteKeepsLimit
<1>6. CASE SyncRead(a)
  <2>1. job[a].pc = "read"
    BY <1>6 DEF SyncRead
  <2>2. CASE UNCHANGED nodes /\ \E r : SetJob(a, r)
    BY <1>3, <2>1, <2>2
  <2>3. CASE Delete({job[a].path}, a, [job[a] EXCEPT !.pc = "pick"])
    <3>1. PICK r \in Job : r = [job[a] EXCEPT !.pc = "pick"]
      BY <1>1, JobGoes, PickWrite
    <3>2. \E S : Delete(S, a, r)
      BY <2>3, <3>1
    <3> QED
      BY <1>2, <2>1, <3>2, DeleteKeepsLimit
  <2> QED
    BY <1>6, <2>2, <2>3 DEF SyncRead, Goto
<1>7. CASE SyncWrite(a)
  <2>1. PICK r : r = [job[a] EXCEPT !.pc = "pick", !.synced = TRUE]
    OBVIOUS
  <2>2. SetJob(a, r) /\ r.pc = "pick"
    BY <1>1, <1>7, <2>1, JobSyncs, PickWrite DEF SyncWrite
  <2> QED
    BY <2>2, OthersStay DEF Full, Enforces
<1>8. CASE LimitPick(a)
  <2>1. PICK V \in Lowest(Excess) :
           SetJob(a, IF V = {} THEN AfterLimit(a)
                     ELSE [job[a] EXCEPT !.pc = "evict", !.victims = V])
    BY <1>8 DEF LimitPick
  <2>2. UNCHANGED nodes
    BY <1>8 DEF LimitPick, stores
  <2>3. CASE V = {}
    BY <2>2, <2>3, ExcessFound DEF Full, Fits, Recorded
  <2>4. CASE V # {}
    <3>1. V \in SUBSET Paths
      BY <1>1, ExcessFound
    <3>2. PICK r : r = [job[a] EXCEPT !.pc = "evict", !.victims = V]
      OBVIOUS
    <3>3. r.pc = "evict" /\ r.victims = V
      BY <1>1, <3>2 DEF Job
    <3>4. job'[a] = r
      BY <2>1, <2>4, <3>2, OthersStay
    <3>5. Cardinality(Recorded \ V) = MaxDocuments /\ MaxDocuments \in Nat
      BY <2>4, ExcessFound, ConstantsAssumption
    <3>6. Recorded' = Recorded
      BY <2>2 DEF Recorded
    <3>7. Fits(Recorded' \ job'[a].victims) /\ job'[a].pc = "evict"
      BY <3>3, <3>4, <3>5, <3>6 DEF Fits
    <3>8. Enforces(a)'
      BY <3>7 DEF Enforces, Fits
    <3> QED
      BY <3>8 DEF Full
  <2> QED
    BY <2>3, <2>4
<1>9. CASE LimitEvict(a)
  <2>1. PICK V : V = job[a].victims
    OBVIOUS
  <2>2. PICK r \in Job : r = AfterLimit(a)
    BY AfterLimitTakes
  <2>3. Delete(V, a, r)
    BY <1>9, <2>1, <2>2 DEF LimitEvict
  <2>4. CASE Enforces(a)
    <3>1. Fits(Recorded \ V)
      BY <1>9, <2>1, <2>4 DEF Enforces, LimitEvict
    <3>2. \A p \in Paths : nodes'[p] = IF p \in V THEN Absent ELSE nodes[p]
      BY <2>3, DeleteTakes
    <3>3. Recorded' = Recorded \ V
      BY <3>2 DEF Recorded
    <3> QED
      BY <3>1, <3>3 DEF Full, Fits
  <2>5. CASE ~Enforces(a)
    BY <2>3, <2>5, DeleteKeepsLimit DEF Full
  <2> QED
    BY <2>4, <2>5
<1>10. CASE AutoIndex(a)
  <2>1. job[a].pc = "index" /\ SetJob(a, NoJob) /\ UNCHANGED nodes
    BY <1>10 DEF AutoIndex
  <2> QED
    BY <1>3, <2>1
<1> QED
  BY <1>4, <1>5, <1>6, <1>7, <1>8, <1>9, <1>10 DEF Sync

LEMMA StepKeepsLimit ==
  ASSUME TypeOK, Full, [Next]_vars, "database" \notin Faults, "death" \notin Faults
  PROVE  Full'
<1>1. Daemon \in Actors /\ Commands \subseteq Actors
  BY DEF Actors
<1>2. CASE UNCHANGED <<job, nodes>>
  BY <1>1, <1>2, MoveKeepsLimit
<1>3. CASE Change \/ Deliver \/ Drain \/ DaemonStarts \/ PruneScan \/ UNCHANGED vars
  <2>1. UNCHANGED <<job, nodes>>
    BY <1>3 DEF Change, WriteFile, DeleteFile, MoveFile, Notice, ChangeFilter, Deliver, Drain,
                DaemonStarts, PruneScan, stores, vars
  <2> QED
    BY <1>2, <2>1
<1>4. CASE NextPath
  <2>1. job[Daemon].pc = "idle" /\ UNCHANGED nodes /\ \E r : SetJob(Daemon, r)
    BY <1>4 DEF NextPath, stores
  <2> QED
    BY <1>1, <2>1, OthersStay, MoveKeepsLimit
<1>5. ASSUME NEW a \in Commands, NEW p \in Paths, CommandSync(a, p) PROVE Full'
  <2>1. job[a].pc = "idle" /\ UNCHANGED nodes /\ \E r : SetJob(a, r)
    BY <1>5 DEF CommandSync, stores
  <2> QED
    BY <1>1, <2>1, OthersStay, MoveKeepsLimit
<1>6. CASE PruneDelete
  <2>1. PICK S, old : S = pruning /\ old = job[Daemon] /\ old \in Job
    BY <1>1, JobTypes
  <2>2. PICK r : r = [old EXCEPT !.victims = @ \ S]
    OBVIOUS
  <2>3. r \in Job /\ r.pc = old.pc /\ r.victims = old.victims \ S
    BY <2>1, <2>2, FewerVictims
  <2>4. Delete(S, Daemon, r)
    BY <1>6, <2>1, <2>2 DEF PruneDelete
  <2>5. /\ \A p \in Paths : nodes'[p] = IF p \in S THEN Absent ELSE nodes[p]
        /\ \A b \in Actors \ {Daemon} : Undisturbed(b) /\ job'[b].victims = job[b].victims \ S
        /\ job'[Daemon] = r
    <3>1. r \in Job
      BY <2>3
    <3> QED
      BY <1>1, <2>4, <3>1, DeleteTakes
  <2>6. Recorded' = Recorded \ S
    BY <2>5 DEF Recorded
  <2>7. \A b \in Actors : job'[b].pc = job[b].pc
          /\ Recorded' \ job'[b].victims \subseteq Recorded \ job[b].victims
    BY <2>1, <2>3, <2>5, <2>6 DEF Undisturbed
  <2>8. PICK A \in SUBSET Actors : A = {}
    OBVIOUS
  <2> QED
    BY <2>6, <2>7, <2>8, LimitStays DEF Full
<1>7. ~DaemonDies /\ \A a \in Actors : ~DatabaseFails(a) /\ ~LimitFails(a)
  BY DEF DaemonDies, DatabaseFails, LimitFails
<1> QED
  BY <1>1, <1>3, <1>4, <1>5, <1>6, <1>7, SyncKeepsLimit DEF Next, DaemonStep

\* As long as the database works and no daemon dies, there is never more recorded than the
\* limit allows while nobody synchronises: however many synchronise, prune and change files
\* at the same time, and although everyone counts first and deletes later.
THEOREM LimitKept ==
  ASSUME "database" \notin Faults, "death" \notin Faults
  PROVE  Safety => []LimitHolds
<1>1. Init => Full
  <2> SUFFICES ASSUME Init PROVE Full
    OBVIOUS
  <2>1. Recorded = {}
    BY DEF Init, Recorded
  <2>2. Cardinality(Recorded) = 0 /\ MaxDocuments \in Nat
    BY <2>1, FS_EmptySet, ConstantsAssumption
  <2> QED
    BY <2>2 DEF Full, Fits
<1>2. TypeOK /\ Full /\ [Next]_vars => Full'
  BY StepKeepsLimit
<1>3. Full => LimitHolds
  BY DEF Full, Fits, Enforces, LimitHolds
<1> QED
  BY <1>1, <1>2, <1>3, TypeCorrect, PTL DEF Safety

\* The daemon alone: it evicts what it has counted.
LEMMA EvictionExact ==
  ASSUME TypeOK, Exact, pruning = {}, Commands = {}, "prune" \notin Faults, [Next]_vars
  PROVE  /\ Exact' /\ pruning' = {}
         /\ job[Daemon].pc = "evict" /\ job'[Daemon].pc # "evict"
              => Cardinality(Recorded') >= MaxDocuments \/ ~up'
<1>1. Daemon \in Actors /\ Actors = {Daemon} /\ job[Daemon] \in Job
  BY JobTypes DEF Actors
<1>2. Recorded \in SUBSET Paths /\ MaxDocuments \in Nat
  BY ConstantsAssumption DEF Recorded
<1>3. CASE UNCHANGED <<job, nodes, pruning>>
  BY <1>3 DEF Exact, Recorded
<1>4. CASE Change \/ Deliver \/ Drain \/ DaemonStarts \/ UNCHANGED vars
  <2>1. UNCHANGED <<job, nodes, pruning>>
    BY <1>4 DEF Change, WriteFile, DeleteFile, MoveFile, Notice, ChangeFilter, Deliver, Drain,
                DaemonStarts, stores, vars
  <2> QED
    BY <1>3, <2>1
<1>5. ASSUME NEW r, r.pc # "evict", SetJob(Daemon, r), job[Daemon].pc # "evict", UNCHANGED pruning
      PROVE  Exact' /\ pruning' = {}
  <2>1. job'[Daemon] = r
    BY <1>1, <1>5, OthersStay
  <2> QED
    BY <1>5, <2>1 DEF Exact
<1>6. ASSUME NEW S, NEW r \in Job, r.pc # "evict", Delete(S, Daemon, r)
      PROVE  Exact' /\ pruning' = {} /\ (\A p \in Paths : nodes'[p] = IF p \in S THEN Absent ELSE nodes[p])
  <2>1. /\ job'[Daemon] = r /\ pruning' = pruning \ S
        /\ \A p \in Paths : nodes'[p] = IF p \in S THEN Absent ELSE nodes[p]
    BY <1>1, <1>6, DeleteTakes
  <2> QED
    BY <1>6, <2>1 DEF Exact
<1>7. CASE NextPath
  <2>1. job[Daemon].pc = "idle" /\ UNCHANGED pruning /\ \E p : p \in Paths /\ SetJob(Daemon, Ready(p))
    <3>1. batch.delete \subseteq Paths /\ batch.sync \subseteq Paths
      BY DEF TypeOK
    <3> QED
      BY <1>7, <3>1 DEF NextPath
  <2> QED
    BY <1>5, <2>1, JobStart
<1>8. CASE DaemonDies
  <2>1. SetJob(Daemon, NoJob) /\ UNCHANGED pruning /\ up' = FALSE
    BY <1>8 DEF DaemonDies
  <2>2. job'[Daemon] = NoJob /\ ~up'
    BY <1>1, <2>1, OthersStay
  <2> QED
    BY <2>1, <2>2, JobStart DEF Exact
<1>9. CASE SyncCheck(Daemon)
  <2>1. PICK pc \in JobPCs : pc # "evict" /\ Goto(Daemon, pc)
    BY <1>9 DEF SyncCheck, JobPCs
  <2>2. job'[Daemon].pc = pc
    BY <1>1, <2>1, GotoTakes
  <2> QED
    BY <1>9, <2>1, <2>2 DEF SyncCheck, Exact
<1>10. CASE SyncRemove(Daemon)
  <2>1. PICK S, r : S = {job[Daemon].path} /\ r = NoJob
    OBVIOUS
  <2>2. Delete(S, Daemon, r) /\ r \in Job /\ r.pc # "evict" /\ job[Daemon].pc = "remove"
    BY <1>10, <2>1, JobStart DEF SyncRemove
  <2> QED
    BY <1>6, <2>2
<1>11. CASE SyncRead(Daemon)
  <2>1. PICK s : s = fs[job[Daemon].path]
    OBVIOUS
  <2>2. /\ job[Daemon].pc = "read"
        /\ \/ SetJob(Daemon, NoJob) /\ UNCHANGED pruning
           \/ Goto(Daemon, "pick") /\ UNCHANGED pruning
           \/ SetJob(Daemon, [job[Daemon] EXCEPT !.pc = "write", !.seen = s]) /\ UNCHANGED pruning
           \/ Delete({job[Daemon].path}, Daemon, [job[Daemon] EXCEPT !.pc = "pick"])
    BY <1>11, <2>1 DEF SyncRead
  <2>3. CASE SetJob(Daemon, NoJob) /\ UNCHANGED pruning
    BY <1>5, <2>2, <2>3, JobStart
  <2>4. CASE Goto(Daemon, "pick") /\ UNCHANGED pruning
    <3>1. job'[Daemon].pc = "pick"
      BY <1>1, <2>4, GotoTakes, PickWrite
    <3> QED
      BY <2>2, <2>4, <3>1 DEF Exact
  <2>5. CASE SetJob(Daemon, [job[Daemon] EXCEPT !.pc = "write", !.seen = s]) /\ UNCHANGED pruning
    <3>1. PICK r : r = [job[Daemon] EXCEPT !.pc = "write", !.seen = s]
      OBVIOUS
    <3>2. r.pc = "write"
      BY <1>1, <3>1 DEF Job
    <3> QED
      BY <1>5, <2>2, <2>5, <3>1, <3>2
  <2>6. CASE Delete({job[Daemon].path}, Daemon, [job[Daemon] EXCEPT !.pc = "pick"])
    <3>1. PICK S, r : S = {job[Daemon].path} /\ r = [job[Daemon] EXCEPT !.pc = "pick"]
      OBVIOUS
    <3>2. r \in Job /\ r.pc = "pick"
      BY <1>1, <3>1, JobGoes, PickWrite
    <3> QED
      BY <1>6, <2>2, <2>6, <3>1, <3>2
  <2> QED
    BY <2>2, <2>3, <2>4, <2>5, <2>6
<1>12. CASE SyncWrite(Daemon)
  <2>1. PICK r : r = [job[Daemon] EXCEPT !.pc = "pick", !.synced = TRUE]
    OBVIOUS
  <2>2. r.pc = "pick"
    BY <1>1, <2>1 DEF Job
  <2>3. SetJob(Daemon, r) /\ UNCHANGED pruning /\ job[Daemon].pc = "write"
    BY <1>12, <2>1 DEF SyncWrite
  <2> QED
    BY <1>5, <2>2, <2>3
<1>13. CASE LimitPick(Daemon)
  <2>1. PICK V \in Lowest(Excess) :
           SetJob(Daemon, IF V = {} THEN AfterLimit(Daemon)
                          ELSE [job[Daemon] EXCEPT !.pc = "evict", !.victims = V])
    BY <1>13 DEF LimitPick
  <2>2. UNCHANGED <<nodes, pruning>> /\ job[Daemon].pc = "pick"
    BY <1>13 DEF LimitPick, stores
  <2>3. CASE V = {}
    BY <1>1, <1>5, <2>1, <2>2, <2>3, AfterLimitTakes
  <2>4. CASE V # {}
    <3>1. PICK r : r = [job[Daemon] EXCEPT !.pc = "evict", !.victims = V]
      OBVIOUS
    <3>2. r.victims = V
      BY <1>1, <3>1 DEF Job
    <3>3. job'[Daemon] = r
      BY <1>1, <2>1, <2>4, <3>1, OthersStay
    <3>4. V \subseteq Recorded /\ Cardinality(Recorded \ V) = MaxDocuments
      BY <2>4, ExcessFound
    <3>5. Recorded' = Recorded
      BY <2>2 DEF Recorded
    <3>6. job'[Daemon].victims = V
      BY <3>2, <3>3
    <3> QED
      BY <2>2, <3>4, <3>5, <3>6 DEF Exact
  <2> QED
    BY <2>3, <2>4
<1>14. CASE LimitEvict(Daemon)
  <2>1. PICK V : V = job[Daemon].victims
    OBVIOUS
  <2>2. PICK r \in Job : r = AfterLimit(Daemon) /\ r.pc # "evict"
    BY <1>1, AfterLimitTakes
  <2>3. Delete(V, Daemon, r)
    BY <1>14, <2>1, <2>2 DEF LimitEvict
  <2>4. /\ Exact' /\ pruning' = {}
        /\ \A p \in Paths : nodes'[p] = IF p \in V THEN Absent ELSE nodes[p]
    BY <1>6, <2>2, <2>3
  <2>5. Recorded' = Recorded \ V
    BY <2>4 DEF Recorded
  <2>6. Cardinality(Recorded \ V) = MaxDocuments
    BY <1>14, <2>1 DEF LimitEvict, Exact
  <2> QED
    BY <1>2, <2>4, <2>5, <2>6
<1>15. CASE AutoIndex(Daemon)
  <2>1. SetJob(Daemon, NoJob) /\ UNCHANGED pruning /\ job[Daemon].pc = "index"
    BY <1>15 DEF AutoIndex
  <2> QED
    BY <1>5, <2>1, JobStart
<1>16. CASE DatabaseFails(Daemon)
  <2>1. /\ job[Daemon].pc # "evict" /\ UNCHANGED pruning
        /\ SetJob(Daemon, NoJob) \/ Goto(Daemon, "pick")
    BY <1>16 DEF DatabaseFails
  <2>2. CASE SetJob(Daemon, NoJob)
    BY <1>5, <2>1, <2>2, JobStart
  <2>3. CASE Goto(Daemon, "pick")
    <3>1. job'[Daemon].pc = "pick"
      BY <1>1, <2>3, GotoTakes, PickWrite
    <3> QED
      BY <2>1, <3>1 DEF Exact
  <2> QED
    BY <2>1, <2>2, <2>3
<1>17. CASE LimitFails(Daemon)
  <2>1. SetJob(Daemon, AfterLimit(Daemon)) /\ UNCHANGED <<nodes, pruning>>
    BY <1>17 DEF LimitFails, stores
  <2>2. job'[Daemon].pc # "evict"
    BY <1>1, <2>1, OthersStay, AfterLimitTakes
  <2>3. Recorded' = Recorded
    BY <2>1 DEF Recorded
  <2>4. job[Daemon].pc = "evict" => Cardinality(Recorded) >= MaxDocuments
    <3>1. PICK T, S : T = Recorded /\ S = Recorded \ job[Daemon].victims
      OBVIOUS
    <3>2. T \in SUBSET Paths /\ S \in SUBSET T
      BY <1>2, <3>1
    <3>3. Cardinality(S) \in Nat /\ Cardinality(S) <= Cardinality(T)
      BY <3>2, FitsFewer
    <3> QED
      BY <1>2, <3>1, <3>3 DEF Exact
  <2> QED
    BY <2>1, <2>2, <2>3, <2>4 DEF Exact
<1>18. ~PruneScan /\ ~PruneDelete
  BY DEF PruneScan, PruneDelete
<1>19. CASE Sync(Daemon)
  BY <1>9, <1>10, <1>11, <1>12, <1>13, <1>14, <1>15, <1>19
     DEF Sync, SyncCheck, SyncRemove, SyncRead, SyncWrite, LimitPick, AutoIndex
<1> QED
  BY <1>1, <1>4, <1>7, <1>8, <1>16, <1>17, <1>18, <1>19
     DEF Next, DaemonStep, NextPath, DatabaseFails

\* A daemon that works alone never evicts more than the excess it has counted, whatever
\* fails or moves meanwhile.
THEOREM ExcessOnly ==
  ASSUME Commands = {}, "prune" \notin Faults
  PROVE  Safety => EvictsOnlyExcess
<1>1. Init => Exact /\ pruning = {}
  <2> SUFFICES ASSUME Init PROVE Exact /\ pruning = {}
    OBVIOUS
  <2>1. job[Daemon] = NoJob
    BY DEF Init, Actors
  <2> QED
    BY <2>1, JobStart DEF Init, Exact
<1>2. TypeOK /\ (Exact /\ pruning = {}) /\ [Next]_vars => (Exact /\ pruning = {})'
  BY EvictionExact
<1>3. TypeOK /\ (Exact /\ pruning = {}) /\ [Next]_vars
        => [\A a \in Actors :
              job[a].pc = "evict" /\ job'[a].pc # "evict"
                => Cardinality(Recorded') >= MaxDocuments \/ ~up']_vars
  BY EvictionExact DEF Actors
<1> QED
  BY <1>1, <1>2, <1>3, TypeCorrect, PTL DEF Safety, EvictsOnlyExcess
=============================================================================
