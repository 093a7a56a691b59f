------------------------------ MODULE TransformCache ------------------------------
(***************************************************************************)
(* The transform cache: the files of the cache directory, the records of    *)
(* the transform database, and the running total in cache.json, kept in     *)
(* step by nothing but the order in which get_content, eviction, prune and   *)
(* reset touch the three.  A call of get_content is a process of its own     *)
(* (`wksc cat`, a search, the daemon's auto-index), split wherever another   *)
(* process can get in between.                                               *)
(***************************************************************************)
EXTENDS Integers, FiniteSets, SequencesExt

CONSTANTS Contents,     \* what the source file may hold (its checksum)
          Engines,      \* the engines it may be transformed by
          Diffs,        \* those that compare the source with another file (`wksc diff`)
          Illustrated,  \* those of them that write images beside their text
          Extension,    \* [Engines -> {"bin", "txt", "md"}]
          OutSize,      \* [Engines -> Nat]: the size of their output
          InSize,       \* the size of the source
          MaxSize,      \* cache.max_size_bytes
          Clients,
          NoContent,
          Faults,
          MaxCalls      \* bound: calls of get_content

AllFaults == {"crash", "engine", "prune", "reset", "images", "edit_during"}

ASSUME ConstantsAssumption ==
    /\ Diffs \subseteq Engines
    /\ Illustrated \subseteq Engines \ Diffs
    /\ Extension \in [Engines -> {"bin", "txt", "md"}]
    /\ OutSize \in [Engines -> Nat]
    /\ InSize \in Nat /\ MaxSize \in Nat /\ MaxCalls \in Nat
    /\ NoContent \notin Contents
    /\ IsFiniteSet(Contents) /\ IsFiniteSet(Engines)
    /\ Faults \subseteq AllFaults

VARIABLES source,   \* what the source file holds now
          disk,     \* [Keys -> what the cached output was made from]
          images,   \* the keys whose images are on disk
          docs,     \* the records, least recently used first
          total,    \* cache.json; 0 without that file
          call,     \* [Clients -> the call of get_content in progress]
          answer,   \* [Clients -> how the last call ended]
          admin,    \* `database prune` or `database reset` in progress
          calls,    \* how many calls there have been
          upset     \* auxiliary: a crash, a prune or an overlap of calls, since
                    \* the cache was last empty

vars == <<source, disk, images, docs, total, call, answer, admin, calls, upset>>

Keys == Contents \X Engines     \* _compute_cache_key: checksum, engine (and options)
Checksum(k) == k[1]
\* The checksum in the record: of the source, or of a diff itself, which names its file.
Filed(k)    == IF k[2] \in Diffs THEN k ELSE k[1]
Size(k)     == OutSize[k[2]]
Ext(k)      == Extension[k[2]]

Exists(k)  == disk[k] # NoContent
OnDisk     == {k \in Keys : Exists(k)}

\* Recursive functions, so that proofs can follow them: the sizes of the keys in s
\* together, and the entries of s that are in T.
SizeOf(s) ==
    LET sum[n \in 0..Len(s)] == IF n = 0 THEN 0 ELSE sum[n - 1] + Size(s[n])
    IN  sum[Len(s)]
Kept(s, T) ==
    LET kept[n \in 0..Len(s)] ==
          IF n = 0 THEN <<>>
          ELSE IF s[n] \in T THEN Append(kept[n - 1], s[n]) ELSE kept[n - 1]
    IN  kept[Len(s)]

DiskSize == SizeOf(SetToSeq(OnDisk))

NoCall  == [pc |-> "idle", key |-> <<>>, seen |-> 0, victims |-> <<>>, freed |-> 0,
            alone |-> TRUE]
NoAdmin == [pc |-> "idle", files |-> {}]
NoAnswer == [what |-> "none", made |-> NoContent, key |-> <<>>, alone |-> TRUE]

Busy == {c \in Clients : call[c].pc # "idle"}
Calm == Busy = {} /\ admin = NoAdmin

Init ==
    /\ source \in Contents
    /\ disk = [k \in Keys |-> NoContent]
    /\ images = {}
    /\ docs = <<>>
    /\ total = 0
    /\ call = [c \in Clients |-> NoCall]
    /\ answer = [c \in Clients |-> NoAnswer]
    /\ admin = NoAdmin
    /\ calls = 0
    /\ upset = FALSE

-----------------------------------------------------------------------------
\* Whatever one process does disturbs the calls of the others (auxiliary).
Disturb(calm) ==
    [d \in Clients |-> IF d \in calm \/ call[d].pc = "idle" THEN call[d]
                       ELSE [call[d] EXCEPT !.alone = FALSE]]
Step(c, r) == call' = [Disturb({c}) EXCEPT ![c] = r]
Goto(c, pc) == Step(c, [call[c] EXCEPT !.pc = pc])
Finish(c, what, made) ==
    /\ Step(c, NoCall)
    /\ answer' = [answer EXCEPT ![c] = [what |-> what, made |-> made, key |-> call[c].key,
                                        alone |-> call[c].alone]]

-----------------------------------------------------------------------------
(* transform *)

\* The checksum of the source is taken; by a diff, that of its outcome.
Begin(c, e) ==
    /\ call[c].pc = "idle"
    /\ calls < MaxCalls
    /\ calls' = calls + 1
    /\ Step(c, [NoCall EXCEPT !.key = <<source, e>>, !.alone = Calm,
                         !.pc = IF e \in Diffs THEN "diff" ELSE "find"])
    /\ answer' = [answer EXCEPT ![c] = NoAnswer]
    /\ upset' = (upset \/ ~Calm)
    /\ UNCHANGED <<source, disk, images, docs, total, admin>>

Recorded(k) == Contains(docs, k)
Incomplete(k) == k[2] \in Illustrated /\ k \notin images

\* Mutants: the record is trusted without its file; any text by that engine will do.
FindTrusting(c) ==
    LET k == call[c].key IN
    /\ call[c].pc = "find"
    /\ Goto(c, IF Recorded(k) THEN "touch" ELSE "space")
    /\ UNCHANGED <<source, disk, images, docs, total, answer, admin, calls, upset>>
FindByEngine(c) ==
    /\ call[c].pc = "find"
    /\ IF \E k \in OnDisk : Recorded(k) /\ k[2] = call[c].key[2]
         THEN Finish(c, "ok", disk[CHOOSE k \in OnDisk : Recorded(k) /\ k[2] = call[c].key[2]])
         ELSE Goto(c, "space") /\ UNCHANGED answer
    /\ UNCHANGED <<source, disk, images, docs, total, admin, calls, upset>>

\* A record counts if its file is there, and all the images the text refers to.
Find(c) ==
    LET k == call[c].key IN
    /\ call[c].pc = "find"
    /\ Goto(c, IF ~Recorded(k) \/ ~Exists(k) THEN "space"
               ELSE IF Incomplete(k) THEN "stale_load" ELSE "touch")
    /\ UNCHANGED <<source, disk, images, docs, total, answer, admin, calls, upset>>

\* update_one finds one record of the key, if there still is one.
Touched(s, k) == IF Contains(s, k) THEN Append(RemoveFirst(s, k), k) ELSE s

Touch(c) ==
    /\ call[c].pc = "touch"
    /\ docs' = Touched(docs, call[c].key)
    /\ Goto(c, "fetch")
    /\ UNCHANGED <<source, disk, images, total, answer, admin, calls, upset>>

(* _prune_stale_cached_transform *)

StaleLoad(c) ==
    /\ call[c].pc = "stale_load"
    /\ Step(c, IF Exists(call[c].key)
                 THEN [call[c] EXCEPT !.pc = "stale_save", !.seen = total]
                 ELSE [call[c] EXCEPT !.pc = "stale_images"])
    /\ UNCHANGED <<source, disk, images, docs, total, answer, admin, calls, upset>>

StaleSave(c) ==
    LET left == call[c].seen - Size(call[c].key) IN
    /\ call[c].pc = "stale_save"
    /\ total' = IF left < 0 THEN 0 ELSE left
    /\ Goto(c, "stale_unlink")
    /\ UNCHANGED <<source, disk, images, docs, answer, admin, calls, upset>>

\* unlink raises if the file has gone meanwhile.
StaleUnlink(c) ==
    LET k == call[c].key IN
    /\ call[c].pc = "stale_unlink"
    /\ IF Exists(k)
         THEN Goto(c, "stale_images") /\ UNCHANGED answer
         ELSE Finish(c, "lost", NoContent)
    /\ disk' = [disk EXCEPT ![k] = NoContent]
    /\ UNCHANGED <<source, images, docs, total, admin, calls, upset>>

StaleImages(c) ==
    /\ call[c].pc = "stale_images"
    /\ images' = images \ {call[c].key}
    /\ Goto(c, "stale_delete")
    /\ UNCHANGED <<source, disk, docs, total, answer, admin, calls, upset>>

StaleDelete(c) ==
    /\ call[c].pc = "stale_delete"
    /\ docs' = Kept(docs, Keys \ {call[c].key})
    /\ Goto(c, "space")
    /\ UNCHANGED <<source, disk, images, total, answer, admin, calls, upset>>

Stale(c) == StaleLoad(c) \/ StaleSave(c) \/ StaleUnlink(c) \/ StaleImages(c) \/ StaleDelete(c)

-----------------------------------------------------------------------------
(* ensure_space *)

\* Binary outputs go first, then plain text, then the rest; the least recently
\* used of each first.
LruOrder ==
    LET Of(ext) == Kept(docs, {k \in Keys : Ext(k) = ext})
    IN  Of("bin") \o Of("txt") \o Of("md")

\* The shortest prefix that frees that much, or everything.
LruEntries(needed) ==
    LET enough == {n \in 0..Len(LruOrder) :
                     n = Len(LruOrder) \/ SizeOf(SubSeq(LruOrder, 1, n)) >= needed}
    IN  SubSeq(LruOrder, 1, Min(enough))

\* Mutant: whether the new file fits already is not asked.
EnsureSpaceAlways(c) ==
    /\ call[c].pc = "space"
    /\ Step(c, [call[c] EXCEPT !.pc = "evict_file", !.seen = total,
                               !.victims = LruEntries(total + InSize - MaxSize),
                               !.freed = total + InSize - MaxSize])
    /\ UNCHANGED <<source, disk, images, docs, total, answer, admin, calls, upset>>

\* The room is made for the size of the source.
EnsureSpace(c) ==
    LET victims == LruEntries(total + InSize - MaxSize) IN
    /\ call[c].pc = "space"
    /\ Step(c, IF total + InSize <= MaxSize \/ victims = <<>>
                 THEN [call[c] EXCEPT !.pc = "make"]
                 ELSE [call[c] EXCEPT !.pc = "evict_file", !.seen = total, !.victims = victims,
                                      !.freed = SizeOf(victims)])
    /\ UNCHANGED <<source, disk, images, docs, total, answer, admin, calls, upset>>

EvictFile(c) ==
    /\ call[c].pc = "evict_file"
    /\ disk' = [disk EXCEPT ![Head(call[c].victims)] = NoContent]
    /\ Goto(c, "evict_record")
    /\ UNCHANGED <<source, images, docs, total, answer, admin, calls, upset>>

\* Mutant: the file is evicted and its record stays.
EvictRecordNot(c) ==
    /\ call[c].pc = "evict_record"
    /\ Step(c, [call[c] EXCEPT !.victims = Tail(@),
                               !.pc = IF Tail(call[c].victims) = <<>> THEN "evict_save"
                                      ELSE "evict_file"])
    /\ UNCHANGED <<source, disk, images, docs, total, answer, admin, calls, upset>>

\* delete_one deletes every record of the checksum, those of other engines too.
EvictRecord(c) ==
    LET v == Head(call[c].victims) IN
    /\ call[c].pc = "evict_record"
    /\ docs' = Kept(docs, {k \in Keys : Filed(k) # Filed(v)})
    /\ Step(c, [call[c] EXCEPT !.victims = Tail(@),
                               !.pc = IF Tail(call[c].victims) = <<>> THEN "evict_save"
                                      ELSE "evict_file"])
    /\ UNCHANGED <<source, disk, images, total, answer, admin, calls, upset>>

EvictSave(c) ==
    /\ call[c].pc = "evict_save"
    /\ total' = call[c].seen - call[c].freed
    /\ Step(c, [call[c] EXCEPT !.pc = "make", !.freed = 0])
    /\ UNCHANGED <<source, disk, images, docs, answer, admin, calls, upset>>

Evict(c) == EnsureSpace(c) \/ EvictFile(c) \/ EvictRecord(c) \/ EvictSave(c)

-----------------------------------------------------------------------------
(* _perform_new_transform *)

\* The engine reads the source as it is now.
Make(c) ==
    LET k == call[c].key IN
    /\ call[c].pc = "make"
    /\ disk' = [disk EXCEPT ![k] = source]
    /\ images' = IF k[2] \in Illustrated THEN images \cup {k} ELSE images
    /\ Goto(c, "add_load")
    /\ UNCHANGED <<source, docs, total, answer, admin, calls, upset>>

EngineFails(c) ==
    /\ "engine" \in Faults
    /\ call[c].pc = "make"
    /\ Finish(c, "failed", NoContent)
    /\ UNCHANGED <<source, disk, images, docs, total, admin, calls, upset>>

Diffing(c) == call[c].key[2] \in Diffs
DiffDone(c) == Finish(c, "ok", Checksum(call[c].key))

\* The size is taken from the file, which must still be there.
AddLoad(c) ==
    /\ call[c].pc = "add_load"
    /\ IF Exists(call[c].key)
         THEN /\ Step(c, [call[c] EXCEPT !.pc = "add_save", !.seen = total])
              /\ UNCHANGED answer
         ELSE IF Diffing(c) THEN DiffDone(c) ELSE Finish(c, "lost", NoContent)
    /\ UNCHANGED <<source, disk, images, docs, total, admin, calls, upset>>

AddSave(c) ==
    /\ call[c].pc = "add_save"
    /\ total' = call[c].seen + Size(call[c].key)
    /\ IF Diffing(c) THEN DiffDone(c) ELSE Goto(c, "insert") /\ UNCHANGED answer
    /\ UNCHANGED <<source, disk, images, docs, admin, calls, upset>>

Insert(c) ==
    /\ call[c].pc = "insert"
    /\ docs' = Append(docs, call[c].key)
    /\ Goto(c, "fetch")
    /\ UNCHANGED <<source, disk, images, total, answer, admin, calls, upset>>

Transform(c) == Make(c) \/ EngineFails(c) \/ AddLoad(c) \/ AddSave(c) \/ Insert(c)

-----------------------------------------------------------------------------
(* _get_content_by_checksum *)

\* A record without its file is pruned, and the call fails.
Fetch(c) ==
    LET k == call[c].key IN
    /\ call[c].pc = "fetch"
    /\ IF Recorded(k) /\ Exists(k)
         THEN docs' = Touched(docs, k) /\ Goto(c, "read") /\ UNCHANGED answer
         ELSE docs' = Kept(docs, Keys \ {k}) /\ Finish(c, "lost", NoContent)
    /\ UNCHANGED <<source, disk, images, total, admin, calls, upset>>

Read(c) ==
    LET k == call[c].key IN
    /\ call[c].pc = "read"
    /\ Finish(c, IF Exists(k) THEN "ok" ELSE "lost", disk[k])
    /\ UNCHANGED <<source, disk, images, docs, total, admin, calls, upset>>

-----------------------------------------------------------------------------
(* cmd_diff: the outcome is filed in the cache as a transform of the first file.    *)
(* No room is made for it, and whether it is there already is not asked.             *)

\* The arguments, the options or the files are refused, or the engine fails.
DiffFails(c) ==
    /\ "engine" \in Faults
    /\ call[c].pc = "diff"
    /\ Finish(c, "failed", NoContent)
    /\ UNCHANGED <<source, disk, images, docs, total, admin, calls, upset>>

DiffWrite(c) ==
    LET k == <<source, call[c].key[2]>> IN
    /\ call[c].pc = "diff"
    /\ disk' = [disk EXCEPT ![k] = source]
    /\ Step(c, [call[c] EXCEPT !.pc = "diff_insert", !.key = k])
    /\ UNCHANGED <<source, images, docs, total, answer, admin, calls, upset>>

\* What goes wrong from here on is a warning.
DiffInsert(c) ==
    LET k == call[c].key IN
    /\ call[c].pc = "diff_insert"
    /\ IF Exists(k)
         THEN docs' = Append(docs, k) /\ Goto(c, "add_load") /\ UNCHANGED answer
         ELSE DiffDone(c) /\ UNCHANGED docs
    /\ UNCHANGED <<source, disk, images, total, admin, calls, upset>>

Diff(c) == DiffFails(c) \/ DiffWrite(c) \/ DiffInsert(c)

-----------------------------------------------------------------------------
GetContent(c) ==
    \/ \E e \in Engines : Begin(c, e)
    \/ Diff(c)
    \/ Find(c) \/ Touch(c) \/ Stale(c) \/ Evict(c) \/ Transform(c) \/ Fetch(c) \/ Read(c)

-----------------------------------------------------------------------------
(* `wksc database prune transform` and `wksc database reset transform` *)

\* Records without a file go.  A file is an orphan unless its stem is the checksum in
\* some record, which holds for a recorded diff only: every other file is one, and
\* cache.json too.
Orphans == {k \in OnDisk : ~(k[2] \in Diffs /\ Contains(docs, k))}

PruneRecords ==
    /\ "prune" \in Faults
    /\ admin = NoAdmin
    /\ docs' = Kept(docs, OnDisk)
    /\ admin' = [pc |-> "prune", files |-> Orphans]
    /\ call' = Disturb({})
    /\ upset' = TRUE
    /\ UNCHANGED <<source, disk, images, total, answer, calls>>

PruneFiles ==
    /\ admin.pc = "prune"
    /\ disk' = [k \in Keys |-> IF k \in admin.files THEN NoContent ELSE disk[k]]
    /\ total' = 0
    /\ admin' = NoAdmin
    /\ call' = Disturb({})
    /\ UNCHANGED <<source, images, docs, answer, calls, upset>>

ResetRecords ==
    /\ "reset" \in Faults
    /\ admin = NoAdmin
    /\ docs' = <<>>
    /\ admin' = [pc |-> "reset", files |-> {}]
    /\ call' = Disturb({})
    /\ UNCHANGED <<source, disk, images, total, answer, calls, upset>>

\* post_reset: the files it knows the extensions of, cache.json among them.
ResetFiles ==
    /\ admin.pc = "reset"
    /\ disk' = [k \in Keys |-> IF Ext(k) \in {"md", "txt"} THEN NoContent ELSE disk[k]]
    /\ total' = 0
    /\ admin' = NoAdmin
    /\ call' = Disturb({})
    /\ upset' = (Busy # {} \/ docs # <<>> \/ \E k \in OnDisk : Ext(k) = "bin")
    /\ UNCHANGED <<source, images, docs, answer, calls>>

Admin == PruneRecords \/ PruneFiles \/ ResetRecords \/ ResetFiles

-----------------------------------------------------------------------------
(* What happens to it *)

\* The source is edited; with "edit_during", also between its checksum and its
\* transform.
Edit ==
    /\ "edit_during" \in Faults \/ \A c \in Busy : call[c].pc \in {"fetch", "read"}
    /\ \E s \in Contents \ {source} : source' = s
    /\ UNCHANGED <<disk, images, docs, total, call, answer, admin, calls, upset>>

ImagesVanish ==
    /\ "images" \in Faults
    /\ \E k \in images : images' = images \ {k}
    /\ UNCHANGED <<source, disk, docs, total, call, answer, admin, calls, upset>>

Crash(c) ==
    /\ "crash" \in Faults
    /\ c \in Busy
    /\ Step(c, NoCall)
    /\ upset' = TRUE
    /\ UNCHANGED <<source, disk, images, docs, total, answer, admin, calls>>

Next ==
    \/ \E c \in Clients : GetContent(c) \/ Crash(c)
    \/ Admin
    \/ Edit \/ ImagesVanish

Spec == Init /\ [][Next]_vars

-----------------------------------------------------------------------------
PCs == {"idle", "find", "touch", "stale_load", "stale_save", "stale_unlink",
        "stale_images", "stale_delete", "space", "evict_file", "evict_record",
        "evict_save", "make", "add_load", "add_save", "insert", "fetch", "read",
        "diff", "diff_insert"}

TypeOK ==
    /\ source \in Contents
    /\ disk \in [Keys -> Contents \cup {NoContent}]
    /\ images \subseteq Keys
    /\ docs \in Seq(Keys)
    /\ total \in Int
    /\ call \in [Clients -> [pc : PCs, key : Keys \cup {<<>>}, seen : Int,
                             victims : Seq(Keys), freed : Nat, alone : BOOLEAN]]
    /\ \A c \in Busy : call[c].key \in Keys
    /\ answer \in [Clients -> [what : {"none", "ok", "failed", "lost"},
                               made : Contents \cup {NoContent},
                               key : Keys \cup {<<>>}, alone : BOOLEAN]]
    /\ admin \in [pc : {"idle", "prune", "reset"}, files : SUBSET Keys]
    /\ calls \in Nat
    /\ upset \in BOOLEAN

\* A call that no other process disturbs is served, whatever crashes and prunes
\* have left behind: a cached text, or a new one.
ServedAlone == \A c \in Clients : answer[c].what = "lost" => ~answer[c].alone

\* A text that is served was made from the content whose checksum was asked for,
\* also the one another process has just made or half evicted.
AnswersFaithful ==
    \A c \in Clients : answer[c].what = "ok" => answer[c].made = Checksum(answer[c].key)

\* The total never falls short of what is on disk, so that the limit is enforced,
\* and every record has its file, and each file one record, as long as calls do not
\* overlap, crash, or meet a prune, and again after a reset.  A diff that is made
\* again is recorded again, and counted again.
RecordsMatchDisk ==
    Calm /\ ~upset =>
        /\ total >= DiskSize
        /\ \A i \in DOMAIN docs : Exists(docs[i])
        /\ \A i, j \in DOMAIN docs : docs[i] = docs[j] => i = j \/ docs[i][2] \in Diffs
=============================================================================
