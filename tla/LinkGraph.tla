-------------------------------- MODULE LinkGraph --------------------------------
(***************************************************************************)
(* How the vault's links follow the documents they lead to.  A note links   *)
(* to a document through a symlink under _links/<machine>, named after the  *)
(* document's path.  When a document moves, `wksc mv` and the daemon (which *)
(* sees the same move as an event) each try to move the symlink, rewrite    *)
(* the notes and correct the edges database; `vault repair` does it for the *)
(* moves nobody saw.  `vault sync` and `link sync` rebuild the edges from   *)
(* the notes, `database prune edges` deletes those it takes for stale.      *)
(***************************************************************************)
EXTENDS Naturals, FiniteSets, Sequences

CONSTANTS Docs,       \* documents, by their content
          Paths,      \* where a document can be
          Notes,      \* notes
          Outside,    \* the notes that are not in the vault
          Clients,    \* the processes that run commands
          Daemon,
          None,
          Start,      \* [Docs -> Paths]: where the documents are at first
          Linked,     \* the <<note, document>> pairs that are linked at first
          MaxChanges  \* bound: documents and notes changed, and commands run

ASSUME ConstantsAssumption ==
    /\ Outside \subseteq Notes
    /\ Daemon \notin Clients
    /\ None \notin Docs \cup Paths \cup Notes \cup Clients \cup {Daemon}
    /\ Start \in [Docs -> Paths]
    /\ Linked \subseteq Notes \X Docs
    /\ \A d, e \in Docs : Start[d] = Start[e] => d = e
    /\ MaxChanges \in Nat

Actors == Clients \cup {Daemon}
Vault  == Notes \ Outside

VARIABLES file,   \* [Paths -> the document there]
          links,  \* the paths that have a symlink, named after them and leading to them
          notes,  \* the notes there are
          text,   \* [Notes -> [Docs -> the path by which it links to the document]]
          edges,  \* the edges database: [Notes -> the <<link, target>> pairs]
          nodes,  \* the nodes database: [Paths -> the document recorded there]
          known,  \* the notes whose file is in the nodes database
          up,     \* the daemon runs
          moved,  \* _EventHandler._moved: <<source, destination>> pairs, in order
          heard,  \* paths with an event of any kind
          batch,  \* the pairs process_events has still to treat
          job,    \* [Actors -> the work in progress]
          count,  \* how many changes there have been
          calm    \* auxiliary: nothing has happened that the code does not undo

disk  == <<file, links, notes, text>>
db    == <<edges, nodes, known>>
inbox == <<up, moved, heard, batch>>
vars  == <<file, links, notes, text, edges, nodes, known, up, moved, heard, batch,
           job, count, calm>>

-----------------------------------------------------------------------------
NoLinks == [d \in Docs |-> None]
NoJob   == [pc |-> "idle", kind |-> None, old |-> None, new |-> None, note |-> None,
            todo |-> {}, listed |-> {}, buffer |-> {}, draft |-> NoLinks, alone |-> TRUE]

LinksOf(n) == {<<d, text[n][d]>> : d \in {d \in Docs : text[n][d] # None}}

\* resolve_link: a wiki link counts when its symlink leads to a file; a note
\* outside the vault has plain file links, which are kept as they are.
Resolved(n) ==
    IF n \in Outside THEN LinksOf(n)
    ELSE {l \in LinksOf(n) : l[2] \in links /\ file[l[2]] # None}

\* from_local_uri: a note of the vault goes by a vault:/// URI, every other
\* file, and every record of the nodes database, by a file:// URI.
FromUri(n)  == IF n \in Outside THEN <<"file", n>> ELSE <<"vault", n>>
NodeUris    == {<<"file", n>> : n \in known}
NodeTargets == {p \in Paths : nodes[p] # None}

\* Every other actor's sync or prune is no longer alone with the state it works on.
Alone(r)   == r.pc # "idle" /\ r.kind \in {"link", "vault", "prune"}
Step(a, r) == [b \in Actors |-> IF b = a THEN r
                               ELSE IF Alone(job[b]) THEN [job[b] EXCEPT !.alone = FALSE]
                               ELSE job[b]]
Disturbed  == Step(None, NoJob)

Relinking(a) == job[a].pc \in {"unlink", "rewrite", "write"}
Handling(a)  == job[a].pc \in {"rename", "record", "check", "create"} \/ Relinking(a)
Pending      == {moved[i] : i \in DOMAIN moved} \cup {batch[i] : i \in DOMAIN batch}
                    \cup {<<job[a].old, job[a].new>> : a \in {a \in Actors : Handling(a)}}

Init ==
    /\ file = [p \in Paths |-> IF \E d \in Docs : Start[d] = p
                                 THEN CHOOSE d \in Docs : Start[d] = p ELSE None]
    /\ links = {Start[l[2]] : l \in {l \in Linked : l[1] \in Vault}}
    /\ notes = Notes
    /\ text = [n \in Notes |-> [d \in Docs |-> IF <<n, d>> \in Linked THEN Start[d] ELSE None]]
    /\ edges = [n \in Notes |-> Resolved(n)]
    /\ nodes = file
    /\ known = Notes
    /\ up = TRUE
    /\ moved = <<>> /\ heard = {} /\ batch = <<>>
    /\ job = [a \in Actors |-> NoJob]
    /\ count = 0
    /\ calm = TRUE

-----------------------------------------------------------------------------
(* Documents move, notes are edited *)

Counted == count < MaxChanges /\ count' = count + 1

\* on_moved: a dict, so a source that moves again keeps its place in the order.
OnMoved(p, q) ==
    LET at == {i \in DOMAIN moved : moved[i][1] = p}
    IN  IF at # {} THEN [i \in DOMAIN moved |-> IF i \in at THEN <<p, q>> ELSE moved[i]]
                   ELSE Append(moved, <<p, q>>)

\* A file takes another name, with its event if the daemon is there to hear it.
Rename(p, q) ==
    /\ file' = [file EXCEPT ![q] = file[p], ![p] = None]
    /\ IF up THEN moved' = OnMoved(p, q) /\ heard' = heard \cup {p, q}
             ELSE UNCHANGED <<moved, heard>>
    /\ UNCHANGED <<up, batch>>

\* Moves that meet: of a name whose last move is still being treated, or onto a
\* symlink that was left behind.
Meets(p, q) ==
    \/ \E m \in Pending : {p, q} \cap {m[1], m[2]} # {}
    \/ q \in links

MoveFile(p, q) ==
    /\ p # q /\ file[p] # None /\ file[q] = None
    /\ Counted
    /\ Rename(p, q)
    /\ calm' = (calm /\ up /\ ~Meets(p, q))
    /\ job' = Disturbed
    /\ UNCHANGED <<links, notes, text, db>>

DeleteFile(p) ==
    /\ file[p] # None
    /\ Counted
    /\ file' = [file EXCEPT ![p] = None]
    /\ heard' = IF up THEN heard \cup {p} ELSE heard
    /\ job' = Disturbed
    /\ UNCHANGED <<links, notes, text, db, up, moved, batch, calm>>

\* A link to a document.  In the vault the author writes a file:// URL and
\* `vault check` makes the symlink and turns the URL into a wiki link.
AddLink(n, p) ==
    /\ file[p] # None /\ text[n][file[p]] = None
    /\ Counted
    /\ text' = [text EXCEPT ![n][file[p]] = p]
    /\ notes' = notes \cup {n}
    /\ links' = IF n \in Vault THEN links \cup {p} ELSE links
    /\ calm' = (calm /\ \A m \in Pending : p \notin {m[1], m[2]})
    /\ job' = Disturbed
    /\ UNCHANGED <<file, db, inbox>>

DeleteNote(n) ==
    /\ n \in notes
    /\ Counted
    /\ notes' = notes \ {n}
    /\ text' = [text EXCEPT ![n] = NoLinks]
    /\ job' = Disturbed
    /\ UNCHANGED <<file, links, db, inbox, calm>>

-----------------------------------------------------------------------------
(* Moving the links: update_link_for_move, rewrite_wiki_links, update_edges_for_move *)

\* What the actor does when it is through with one move: the daemon and repair
\* have more of them, mv has not.  An exception ends it at the same place.
AfterMove(a) == IF job[a].kind = "repair" THEN [job[a] EXCEPT !.pc = "choose"]
                ELSE IF job[a].kind = "daemon" THEN [job[a] EXCEPT !.pc = "pair"]
                ELSE NoJob

CheckSymlink(a) ==
    /\ job[a].pc = "check"
    /\ job' = Step(a, IF job[a].old \in links THEN [job[a] EXCEPT !.pc = "create"]
                                              ELSE AfterMove(a))
    /\ UNCHANGED <<disk, db, inbox, count, calm>>

\* symlink_to raises when the name is taken.
CreateSymlink(a) ==
    /\ job[a].pc = "create"
    /\ IF job[a].new \in links
         THEN job' = Step(a, AfterMove(a)) /\ UNCHANGED <<links, calm>>
         ELSE /\ links' = links \cup {job[a].new}
              /\ job' = Step(a, [job[a] EXCEPT !.pc = "unlink"])
              /\ calm' = (calm /\ \A b \in Actors \ {a} : ~Relinking(b))
    /\ UNCHANGED <<file, notes, text, db, inbox, count>>

UnlinkOld(a) ==
    /\ job[a].pc = "unlink"
    /\ IF job[a].old \in links
         THEN /\ links' = links \ {job[a].old}
              /\ job' = Step(a, [job[a] EXCEPT !.pc = "rewrite", !.todo = notes \cap Vault])
         ELSE job' = Step(a, AfterMove(a)) /\ UNCHANGED links
    /\ UNCHANGED <<file, notes, text, db, inbox, count, calm>>

\* MUTANT: the names the wrong way round.
SubstituteBack(t, p, q) == [d \in Docs |-> IF t[d] = q THEN p ELSE t[d]]

Substitute(t, p, q) == [d \in Docs |-> IF t[d] = p THEN q ELSE t[d]]

\* read_text; a note that does not link to the old name is left alone.
ReadNote(a, n) ==
    /\ job[a].pc = "rewrite" /\ n \in job[a].todo
    /\ job' = Step(a, IF n \in notes /\ \E d \in Docs : text[n][d] = job[a].old
                        THEN [job[a] EXCEPT !.pc = "write", !.note = n, !.draft = text[n],
                                            !.todo = @ \ {n}]
                        ELSE [job[a] EXCEPT !.todo = @ \ {n}])
    /\ UNCHANGED <<disk, db, inbox, count, calm>>

\* write_text: the whole note, whatever has become of it since.
WriteNote(a) ==
    /\ job[a].pc = "write"
    /\ text' = [text EXCEPT ![job[a].note] = Substitute(job[a].draft, job[a].old, job[a].new)]
    /\ notes' = notes \cup {job[a].note}
    /\ job' = Step(a, [job[a] EXCEPT !.pc = "rewrite", !.note = None, !.draft = NoLinks])
    /\ UNCHANGED <<file, links, db, inbox, count, calm>>

\* MUTANT: the new target takes the place of the edge.
UpdateEdgesBare(a) ==
    /\ job[a].pc = "rewrite" /\ job[a].todo = {}
    /\ edges' = [n \in Notes |->
                    {IF e[2] = job[a].old THEN job[a].new ELSE e : e \in edges[n]}]
    /\ job' = Step(a, AfterMove(a))
    /\ UNCHANGED <<disk, nodes, known, inbox, count, calm>>

UpdateEdges(a) ==
    /\ job[a].pc = "rewrite" /\ job[a].todo = {}
    /\ edges' = [n \in Notes |->
                    {IF e[2] = job[a].old THEN <<e[1], job[a].new>> ELSE e : e \in edges[n]}]
    /\ job' = Step(a, AfterMove(a))
    /\ UNCHANGED <<disk, nodes, known, inbox, count, calm>>

Relink(a) ==
    \/ CheckSymlink(a) \/ CreateSymlink(a) \/ UnlinkOld(a)
    \/ \E n \in Notes : ReadNote(a, n)
    \/ WriteNote(a) \/ UpdateEdges(a)

-----------------------------------------------------------------------------
(* wksc mv *)

Begin(c) ==
    /\ job[c].pc = "idle"
    /\ Counted

\* _validate_source and _validate_destination
MvValidate(c, p, q) ==
    /\ Begin(c)
    /\ p # q /\ file[p] # None /\ file[q] = None
    /\ job' = Step(c, [NoJob EXCEPT !.pc = "rename", !.kind = "mv", !.old = p, !.new = q])
    /\ UNCHANGED <<disk, db, inbox, calm>>

\* shutil.move: it fails when the source has gone, and replaces a destination
\* that has appeared since it was validated.
MvRename(c) ==
    /\ job[c].pc = "rename"
    /\ LET p == job[c].old
           q == job[c].new
       IN  IF file[p] = None
             THEN job' = Step(c, NoJob) /\ UNCHANGED <<file, inbox, calm>>
             ELSE /\ Rename(p, q)
                  /\ calm' = (calm /\ file[q] = None /\ q \notin links
                                   /\ \A m \in Pending \ {<<p, q>>} : {p, q} \cap {m[1], m[2]} = {})
                  /\ job' = Step(c, [job[c] EXCEPT !.pc = "record"])
    /\ UNCHANGED <<links, notes, text, db, count>>

\* The nodes database forgets the source and records the destination.
MvRecord(c) ==
    /\ job[c].pc = "record"
    /\ nodes' = [nodes EXCEPT ![job[c].old] = None, ![job[c].new] = file[job[c].new]]
    /\ job' = Step(c, [job[c] EXCEPT !.pc = "check"])
    /\ UNCHANGED <<disk, edges, known, inbox, count, calm>>

-----------------------------------------------------------------------------
(* The daemon's loop: process_events *)

DaemonIdle == job[Daemon].pc = "idle"

DrainEvents ==
    /\ up /\ DaemonIdle
    /\ heard # {}
    /\ batch' = moved /\ moved' = <<>>
    /\ heard' = {}
    /\ job' = Step(Daemon, [NoJob EXCEPT !.pc = "pair", !.kind = "daemon", !.listed = heard])
    /\ UNCHANGED <<disk, db, up, count, calm>>

\* _handle_link_move for the next pair
NextPair ==
    /\ job[Daemon].pc = "pair" /\ batch # <<>>
    /\ batch' = Tail(batch)
    /\ job' = Step(Daemon, [job[Daemon] EXCEPT !.pc = "check", !.old = Head(batch)[1],
                                               !.new = Head(batch)[2]])
    /\ UNCHANGED <<disk, db, up, moved, heard, count, calm>>

\* Then every path that had an event is recorded as it is on disk now.
RecordBatch ==
    /\ job[Daemon].pc = "pair" /\ batch = <<>>
    /\ nodes' = [p \in Paths |-> IF p \in job[Daemon].listed THEN file[p] ELSE nodes[p]]
    /\ job' = Step(Daemon, NoJob)
    /\ UNCHANGED <<disk, edges, known, inbox, count, calm>>

\* A process dies, in the middle of its work or, the daemon, at any time: what
\* it has heard is lost, and what happens meanwhile goes unheard.
Crash(c) ==
    /\ job[c].pc # "idle"
    /\ job' = Step(c, NoJob)
    /\ calm' = (calm /\ ~Handling(c))
    /\ UNCHANGED <<disk, db, inbox, count>>

StopDaemon ==
    /\ up
    /\ up' = FALSE
    /\ moved' = <<>> /\ heard' = {} /\ batch' = <<>>
    /\ job' = Step(Daemon, NoJob)
    /\ calm' = (calm /\ ~Handling(Daemon) /\ moved = <<>> /\ batch = <<>>)
    /\ UNCHANGED <<disk, db, count>>

StartDaemon ==
    /\ ~up
    /\ up' = TRUE
    /\ job' = Disturbed
    /\ UNCHANGED <<disk, db, moved, heard, batch, count, calm>>

-----------------------------------------------------------------------------
(* wksc vault repair *)

Broken == {p \in links : file[p] = None}

RepairStart(c) ==
    /\ Begin(c)
    /\ Broken # {}
    /\ job' = Step(c, [NoJob EXCEPT !.pc = "choose", !.kind = "repair", !.listed = Broken])
    /\ UNCHANGED <<disk, db, inbox, calm>>

\* The document the database remembers at the symlink's path, and any other path
\* it remembers with the same checksum at which a file exists.  Nobody asks whether the
\* symlink, listed some time ago, is still broken.
Candidates(p) == {q \in Paths \ {p} : nodes[p] # None /\ nodes[q] = nodes[p] /\ file[q] # None}

RepairChoose(c, p) ==
    /\ job[c].pc = "choose" /\ p \in job[c].listed
    /\ \/ /\ Candidates(p) = {}
          /\ job' = Step(c, [job[c] EXCEPT !.listed = @ \ {p}])
          /\ UNCHANGED calm
       \/ \E q \in Candidates(p) :
             /\ job' = Step(c, [job[c] EXCEPT !.listed = @ \ {p}, !.pc = "check",
                                              !.old = p, !.new = q])
             /\ calm' = (calm /\ file[p] = None
                              /\ \A m \in Pending : {p, q} \cap {m[1], m[2]} = {})
    /\ UNCHANGED <<disk, db, inbox, count>>

RepairDone(c) ==
    /\ job[c].pc = "choose" /\ job[c].listed = {}
    /\ job' = Step(c, NoJob)
    /\ UNCHANGED <<disk, db, inbox, count, calm>>

\* `wksc monitor sync` of one path: how the database learns of an unheard move.
MonitorSync(c, p) ==
    /\ Begin(c)
    /\ nodes' = [nodes EXCEPT ![p] = file[p]]
    /\ job' = Disturbed
    /\ UNCHANGED <<disk, edges, known, inbox, calm>>

-----------------------------------------------------------------------------
(* wksc link sync, wksc vault sync *)

SyncStart(c, S, kind) ==
    /\ Begin(c)
    /\ job' = Step(c, [NoJob EXCEPT !.pc = "sync", !.kind = kind, !.todo = S, !.listed = S])
    /\ UNCHANGED <<disk, db, inbox, calm>>

LinkSync(c)  == \E n \in notes : SyncStart(c, {n}, "link")
VaultSync(c) == SyncStart(c, notes \cap Vault, "vault")

\* _sync_single_file: the note's file is recorded, its text read, its links resolved.
\* A note that has gone is an error, and its edges stay.
SyncRead(c, n) ==
    /\ job[c].pc = "sync" /\ n \in job[c].todo
    /\ IF n \in notes
         THEN /\ known' = known \cup {n}
              /\ job' = Step(c, [job[c] EXCEPT !.pc = "delete", !.note = n, !.todo = @ \ {n},
                                               !.buffer = Resolved(n)])
         ELSE /\ job' = Step(c, [job[c] EXCEPT !.todo = @ \ {n}])
              /\ UNCHANGED known
    /\ UNCHANGED <<disk, edges, nodes, inbox, count, calm>>

\* MUTANT: the edges of the last sync stay.
SyncDeleteNone(c) ==
    /\ job[c].pc = "delete"
    /\ job' = Step(c, [job[c] EXCEPT !.pc = "insert"])
    /\ UNCHANGED <<disk, db, inbox, count, calm>>

SyncDelete(c) ==
    /\ job[c].pc = "delete"
    /\ edges' = [edges EXCEPT ![job[c].note] = {}]
    /\ job' = Step(c, [job[c] EXCEPT !.pc = "insert"])
    /\ UNCHANGED <<disk, nodes, known, inbox, count, calm>>

\* insert_many stops at the first edge whose identity is already there.
SyncInsert(c) ==
    /\ job[c].pc = "insert"
    /\ LET n    == job[c].note
           twin == job[c].buffer \cap edges[n]
       IN  \E S \in SUBSET (job[c].buffer \ twin) :
             /\ twin = {} => S = job[c].buffer
             /\ edges' = [edges EXCEPT ![n] = @ \cup S]
    /\ job' = Step(c, [job[c] EXCEPT !.pc = "sync", !.note = None, !.buffer = {}])
    /\ UNCHANGED <<disk, nodes, known, inbox, count, calm>>

\* A vault sync ends by deleting the edges of the notes it did not find.
SyncEnd(c) ==
    /\ job[c].pc = "sync" /\ job[c].todo = {}
    /\ edges' = IF job[c].kind = "vault"
                  THEN [n \in Notes |-> IF n \in Vault \ job[c].listed THEN {} ELSE edges[n]]
                  ELSE edges
    /\ job' = Step(c, NoJob)
    /\ UNCHANGED <<disk, nodes, known, inbox, count, calm>>

-----------------------------------------------------------------------------
(* wksc database prune edges *)

PruneStart(c) ==
    /\ Begin(c)
    /\ job' = Step(c, [NoJob EXCEPT !.pc = "find", !.kind = "prune", !.todo = NodeTargets,
                                    !.listed = NodeUris])
    /\ UNCHANGED <<disk, db, inbox, calm>>

\* Whose file is not recorded, or whose target is neither recorded nor there.
PruneFind(c) ==
    /\ job[c].pc = "find"
    /\ job' = Step(c, [job[c] EXCEPT !.pc = "prune", !.buffer =
                {x \in Notes \X (Docs \X Paths) :
                    LET n == x[1]
                        e == x[2]
                    IN  /\ e \in edges[n]
                        /\ \/ FromUri(n) \notin job[c].listed
                           \/ e[2] \notin job[c].todo /\ file[e[2]] = None}])
    /\ UNCHANGED <<disk, db, inbox, count, calm>>

PruneDelete(c) ==
    /\ job[c].pc = "prune"
    /\ edges' = [n \in Notes |-> {e \in edges[n] : <<n, e>> \notin job[c].buffer}]
    /\ job' = Step(c, NoJob)
    /\ UNCHANGED <<disk, nodes, known, inbox, count, calm>>

-----------------------------------------------------------------------------
User ==
    \/ \E p, q \in Paths : MoveFile(p, q)
    \/ \E p \in Paths : DeleteFile(p)
    \/ \E n \in Notes, p \in Paths : AddLink(n, p)
    \/ \E n \in Notes : DeleteNote(n)

Command(c) ==
    \/ \E p, q \in Paths : MvValidate(c, p, q)
    \/ RepairStart(c)
    \/ \E p \in Paths : MonitorSync(c, p)
    \/ LinkSync(c) \/ VaultSync(c)
    \/ PruneStart(c)

Work(c) ==
    \/ MvRename(c) \/ MvRecord(c)
    \/ \E p \in Paths : RepairChoose(c, p)
    \/ RepairDone(c)
    \/ \E n \in Notes : SyncRead(c, n)
    \/ SyncDelete(c) \/ SyncInsert(c) \/ SyncEnd(c)
    \/ PruneFind(c) \/ PruneDelete(c)

Loop == DrainEvents \/ NextPair \/ RecordBatch

Next ==
    \/ User
    \/ \E c \in Clients : Command(c) \/ Work(c) \/ Crash(c)
    \/ Loop
    \/ \E a \in Actors : Relink(a)
    \/ StopDaemon \/ StartDaemon

Spec == Init /\ [][Next]_vars

-----------------------------------------------------------------------------
(* Properties *)

\* A sync lists notes; a prune targets, the URIs of records and the edges to delete;
\* a repair symlinks; the daemon paths.
Job == [pc : {"idle", "rename", "record", "check", "create", "unlink", "rewrite", "write",
              "pair", "choose", "sync", "delete", "insert", "find", "prune"},
        kind : {None, "mv", "daemon", "repair", "link", "vault", "prune"},
        old : Paths \cup {None}, new : Paths \cup {None}, note : Notes \cup {None},
        todo : SUBSET (Notes \cup Paths),
        listed : SUBSET (Notes \cup Paths \cup ({"file"} \X Notes)),
        buffer : SUBSET ((Docs \X Paths) \cup (Notes \X (Docs \X Paths))),
        draft : [Docs -> Paths \cup {None}], alone : BOOLEAN]

\* Every variable keeps its type; whoever moves a link knows from where to where, and
\* whoever writes a note or its edges, which.
TypeOK ==
    /\ file \in [Paths -> Docs \cup {None}]
    /\ links \subseteq Paths
    /\ notes \subseteq Notes /\ known \subseteq Notes
    /\ text \in [Notes -> [Docs -> Paths \cup {None}]]
    /\ edges \in [Notes -> SUBSET (Docs \X Paths)]
    /\ nodes \in [Paths -> Docs \cup {None}]
    /\ up \in BOOLEAN /\ calm \in BOOLEAN
    /\ moved \in Seq(Paths \X Paths) /\ batch \in Seq(Paths \X Paths)
    /\ heard \subseteq Paths
    /\ job \in [Actors -> Job]
    /\ \A a \in Actors :
         /\ Handling(a) => job[a].old \in Paths /\ job[a].new \in Paths
         /\ job[a].pc \in {"write", "delete", "insert"} => job[a].note \in Notes
         /\ job[a].pc \in {"delete", "insert"} => job[a].buffer \subseteq Docs \X Paths

\* Nothing is moving, and nothing that moved is still to be treated.
Settled == moved = <<>> /\ batch = <<>> /\ \A a \in Actors : ~Handling(a)

\* Once the moves that were heard or made by wksc are treated, every wiki link
\* leads to the document its author meant, if it still exists: neither mv nor
\* the daemon leaves the work half done because the other was at it too.
LinksFollow ==
    (calm /\ Settled) =>
        \A n \in notes \cap Vault, p \in Paths :
            (file[p] # None /\ text[n][file[p]] # None) =>
                text[n][file[p]] = p /\ p \in links

\* A command that has the state to itself leaves the edges right.  A sync: exactly
\* those the notes imply, and a vault sync none of a note that has gone.  A prune: a
\* note outside the vault keeps its edges to files that exist.
LoneCommandsExact ==
    [][\A c \in Clients :
        /\ (SyncEnd(c) /\ job[c].alone) =>
              /\ \A n \in notes \cap job[c].listed : edges'[n] = Resolved(n)
              /\ job[c].kind = "vault" => \A n \in Vault \ notes : edges'[n] = {}
        /\ (PruneDelete(c) /\ job[c].alone) =>
              \A n \in Outside \cap known :
                {e \in edges[n] : file[e[2]] # None} \subseteq edges'[n]]_vars
=============================================================================
