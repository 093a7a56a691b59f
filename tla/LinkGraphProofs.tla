---------------------------- MODULE LinkGraphProofs ----------------------------
(***************************************************************************)
(* What LinkGraph guarantees for every set of documents, places, notes and *)
(* clients, however often they move, edit and run commands.                 *)
(***************************************************************************)
EXTENDS LinkGraph, TLAPS

-----------------------------------------------------------------------------
(* The inductive invariant *)

\* The moves that have happened and are not treated to the end: as events, or in the
\* hands of somebody.
Treating(a) == job[a].pc \in {"record", "check", "create", "unlink", "rewrite", "write"}
Waiting == {moved[i] : i \in DOMAIN moved} \cup {batch[i] : i \in DOMAIN batch}
Moving == Waiting \cup {<<job[a].old, job[a].new>> : a \in {a \in Actors : Treating(a)}}

\* No two files hold the same document, and a note that has gone has no links.
Distinct == \A p, q \in Paths : file[p] # None /\ file[p] = file[q] => p = q
GoneBlank == \A n \in Notes \ notes : text[n] = NoLinks

\* The notes to rewrite are the vault's.
RewriteOK ==
    \A a \in Actors :
      /\ job[a].pc \in {"rewrite", "write"} => job[a].todo \subseteq Vault
      /\ job[a].pc = "write" => job[a].note \in Vault

\* The daemon at rest has no batch; at work it goes on with the next pair.
DaemonOK ==
    /\ job[Daemon].pc = "idle" => batch = <<>>
    /\ job[Daemon].pc # "idle" => job[Daemon].kind = "daemon"
                                  /\ job[Daemon].pc \notin {"rename", "record"}

\* The name that a document has in a note is its own, and has its symlink; or it is the
\* name the document had before a move that is still going to be treated: the first to
\* treat it finds the old symlink and no new one, whoever has got further has yet to
\* rewrite the note.
LedBy(n, s, p) ==
    \/ s = p /\ p \in links
    \/ /\ <<s, p>> \in Moving
       /\ \/ /\ s \in links
             /\ p \in links => \E a \in Actors : /\ job[a].pc = "unlink"
                                                 /\ job[a].old = s /\ job[a].new = p
          \/ \E a \in Actors :
               /\ job[a].pc \in {"rewrite", "write"}
               /\ job[a].old = s /\ job[a].new = p
               /\ n \in job[a].todo \/ (job[a].pc = "write" /\ job[a].note = n)

Led(n, t) ==
    \A p \in Paths : file[p] # None /\ t[file[p]] # None => LedBy(n, t[file[p]], p)

\* Moves that are being treated have left their source empty, and have no name in common
\* with each other; one at a time changes symlinks and notes.
MovesApart ==
    /\ \A m \in Moving : m[1] # m[2] /\ file[m[1]] = None
    /\ \A m, k \in Moving : m = k \/ {m[1], m[2]} \cap {k[1], k[2]} = {}
    /\ \A a, b \in Actors : Relinking(a) /\ Relinking(b) => a = b
    /\ \A a \in Actors : Relinking(a) => job[a].new \in links

AllLed ==
    /\ \A n \in Vault : Led(n, text[n])
    /\ \A a \in Actors : job[a].pc = "write" => Led(job[a].note, job[a].draft)

CalmInv == calm => MovesApart /\ AllLed
GraphInv == TypeOK /\ Distinct /\ GoneBlank /\ RewriteOK /\ DaemonOK /\ CalmInv

\* A sync that is alone: the notes it listed are all there, those it has done have the
\* edges that their links imply, and the one it has read still has those links.
LoneSync(c) ==
    job[c].pc \in {"sync", "delete", "insert"} =>
      /\ job[c].kind \in {"link", "vault"}
      /\ job[c].alone =>
           /\ job[c].listed \subseteq notes
           /\ \A n \in job[c].listed \ job[c].todo :
                edges[n] = Resolved(n) \/ (job[c].pc # "sync" /\ n = job[c].note)
           /\ job[c].pc # "sync" => job[c].buffer = Resolved(job[c].note)
           /\ job[c].pc = "insert" => edges[job[c].note] = {}

\* A prune that is alone: it knows every record, and deletes an edge only of a note that
\* has none, or to a file that is not there.
LonePrune(c) ==
    job[c].pc \in {"find", "prune"} =>
      /\ job[c].kind = "prune"
      /\ job[c].alone =>
           /\ job[c].pc = "find" => NodeUris \subseteq job[c].listed
           /\ job[c].pc = "prune" =>
                \A x \in job[c].buffer : FromUri(x[1]) \notin NodeUris \/ file[x[2][2]] = None

LoneInv == \A c \in Clients : LoneSync(c) /\ LonePrune(c)

-----------------------------------------------------------------------------
(* The records of what the actors do *)

PCs == {"idle", "rename", "record", "check", "create", "unlink", "rewrite", "write",
        "pair", "choose", "sync", "delete", "insert", "find", "prune"}

\* What an actor knows, but for how far it is.
Same(a) ==
    /\ job'[a].kind = job[a].kind
    /\ job'[a].old = job[a].old /\ job'[a].new = job[a].new
    /\ job'[a].note = job[a].note /\ job'[a].draft = job[a].draft
    /\ job'[a].todo = job[a].todo /\ job'[a].listed = job[a].listed
    /\ job'[a].buffer = job[a].buffer

\* An actor does nothing; a sync or prune is not alone any more.
Kept(a) ==
    /\ job'[a].pc = job[a].pc /\ Same(a)
    /\ Alone(job[a]) => ~job'[a].alone

LEMMA AloneNoMore ==
  ASSUME NEW r \in Job
  PROVE  LET x == [r EXCEPT !.alone = FALSE]
         IN  /\ x \in Job /\ x.pc = r.pc /\ x.kind = r.kind /\ x.old = r.old
             /\ x.new = r.new /\ x.note = r.note /\ x.todo = r.todo
             /\ x.listed = r.listed /\ x.buffer = r.buffer /\ x.draft = r.draft
             /\ ~x.alone
  BY DEF Job

\* A step of one actor leaves the others what they know.
LEMMA StepTakes ==
  ASSUME job \in [Actors -> Job], NEW a \in Actors, NEW r \in Job, job' = Step(a, r)
  PROVE  /\ job' \in [Actors -> Job]
         /\ job'[a] = r
         /\ \A b \in Actors \ {a} : Kept(b)
<1>1. \A b \in Actors : /\ Step(a, r)[b] \in Job
                        /\ b # a => Step(a, r)[b] = IF Alone(job[b])
                                                     THEN [job[b] EXCEPT !.alone = FALSE]
                                                     ELSE job[b]
  BY AloneNoMore DEF Step
<1>2. job' \in [Actors -> Job] /\ job'[a] = r
  BY <1>1 DEF Step
<1>3. ASSUME NEW b \in Actors \ {a} PROVE Kept(b)
  <2>1. CASE Alone(job[b])
    <3>1. PICK old \in Job : old = job[b]
      OBVIOUS
    <3>2. job'[b] = [old EXCEPT !.alone = FALSE]
      BY <1>1, <2>1, <3>1
    <3> QED
      BY <3>1, <3>2, AloneNoMore DEF Kept, Same
  <2>2. CASE ~Alone(job[b])
    <3>1. job'[b] = job[b]
      BY <1>1, <2>2
    <3> QED
      BY <2>2, <3>1 DEF Kept, Same
  <2> QED
    BY <2>1, <2>2
<1> QED
  BY <1>2, <1>3

\* A step of no actor leaves them all what they know.
LEMMA AllKept ==
  ASSUME job \in [Actors -> Job], job' = Disturbed
  PROVE  job' \in [Actors -> Job] /\ \A b \in Actors : Kept(b)
<1>1. \A b \in Actors : b # None
  BY ConstantsAssumption DEF Actors
<1>2. \A b \in Actors : /\ Disturbed[b] \in Job
                        /\ Disturbed[b] = IF Alone(job[b])
                                            THEN [job[b] EXCEPT !.alone = FALSE]
                                            ELSE job[b]
  BY <1>1, AloneNoMore DEF Disturbed, Step
<1>3. job' \in [Actors -> Job]
  BY <1>2 DEF Disturbed, Step
<1>4. ASSUME NEW b \in Actors PROVE Kept(b)
  <2>1. CASE Alone(job[b])
    <3>1. PICK old \in Job : old = job[b]
      OBVIOUS
    <3>2. job'[b] = [old EXCEPT !.alone = FALSE]
      BY <1>2, <2>1, <3>1
    <3> QED
      BY <3>1, <3>2, AloneNoMore DEF Kept, Same
  <2>2. CASE ~Alone(job[b])
    <3>1. job'[b] = job[b]
      BY <1>2, <2>2
    <3> QED
      BY <2>2, <3>1 DEF Kept, Same
  <2> QED
    BY <2>1, <2>2
<1> QED
  BY <1>3, <1>4

\* What becomes of a record when an actor goes on.
LEMMA JobGoes ==
  ASSUME NEW old \in Job, NEW pc \in PCs
  PROVE  LET x == [old EXCEPT !.pc = pc]
         IN  /\ x \in Job /\ x.pc = pc /\ x.kind = old.kind /\ x.old = old.old
             /\ x.new = old.new /\ x.note = old.note /\ x.todo = old.todo
             /\ x.listed = old.listed /\ x.buffer = old.buffer /\ x.draft = old.draft
             /\ x.alone = old.alone
  BY DEF Job, PCs

LEMMA JobTicks ==
  ASSUME NEW old \in Job, NEW t \in SUBSET (Notes \cup Paths)
  PROVE  LET x == [old EXCEPT !.todo = t]
         IN  /\ x \in Job /\ x.pc = old.pc /\ x.kind = old.kind /\ x.old = old.old
             /\ x.new = old.new /\ x.note = old.note /\ x.todo = t
             /\ x.listed = old.listed /\ x.buffer = old.buffer /\ x.draft = old.draft
             /\ x.alone = old.alone
  BY DEF Job

LEMMA JobWrites ==
  ASSUME NEW old \in Job
  PROVE  LET x == [old EXCEPT !.pc = "rewrite", !.note = None, !.draft = NoLinks]
         IN  /\ x \in Job /\ x.pc = "rewrite" /\ x.kind = old.kind /\ x.old = old.old
             /\ x.new = old.new /\ x.todo = old.todo
  BY DEF Job, PCs, NoLinks

LEMMA JobPasses ==
  ASSUME NEW old \in Job, NEW l \in SUBSET (Notes \cup Paths \cup ({"file"} \X Notes))
  PROVE  LET x == [old EXCEPT !.listed = l]
         IN  x \in Job /\ x.pc = old.pc /\ x.kind = old.kind
  BY DEF Job

LEMMA JobInserts ==
  ASSUME NEW old \in Job
  PROVE  LET x == [old EXCEPT !.pc = "sync", !.note = None, !.buffer = {}]
         IN  /\ x \in Job /\ x.pc = "sync" /\ x.kind = old.kind /\ x.note = None
             /\ x.todo = old.todo /\ x.listed = old.listed /\ x.alone = old.alone
  BY DEF Job

\* What an actor begins with.
LEMMA ListStarts ==
  ASSUME NEW pc \in {"pair", "choose"}, NEW k \in {"daemon", "repair"},
         NEW l \in SUBSET (Notes \cup Paths \cup ({"file"} \X Notes))
  PROVE  LET x == [NoJob EXCEPT !.pc = pc, !.kind = k, !.listed = l]
         IN  x \in Job /\ x.pc = pc /\ x.kind = k /\ x.listed = l
  BY DEF Job, NoJob, NoLinks

LEMMA Resting == NoJob \in Job /\ NoJob.pc = "idle"
  BY DEF Job, PCs, NoJob, NoLinks

LEMMA GoesTakes ==
  ASSUME job \in [Actors -> Job], NEW a \in Actors, NEW pc \in PCs,
         job' = Step(a, [job[a] EXCEPT !.pc = pc])
  PROVE  /\ job' \in [Actors -> Job]
         /\ job'[a].pc = pc /\ Same(a) /\ job'[a].alone = job[a].alone
         /\ \A b \in Actors \ {a} : Kept(b)
<1>1. PICK old \in Job : old = job[a]
  OBVIOUS
<1>2. PICK r : r = [old EXCEPT !.pc = pc]
  OBVIOUS
<1>3. /\ r \in Job /\ r.pc = pc /\ r.kind = old.kind /\ r.old = old.old
      /\ r.new = old.new /\ r.note = old.note /\ r.todo = old.todo
      /\ r.listed = old.listed /\ r.buffer = old.buffer /\ r.draft = old.draft
      /\ r.alone = old.alone
  BY <1>1, <1>2, JobGoes
<1>4. job' \in [Actors -> Job] /\ job'[a] = r /\ \A b \in Actors \ {a} : Kept(b)
  BY <1>1, <1>2, <1>3, StepTakes
<1> QED
  BY <1>1, <1>3, <1>4 DEF Same

LEMMA EndsTakes ==
  ASSUME job \in [Actors -> Job], NEW a \in Actors, job' = Step(a, NoJob)
  PROVE  /\ job' \in [Actors -> Job]
         /\ job'[a].pc = "idle"
         /\ \A b \in Actors \ {a} : Kept(b)
BY StepTakes, Resting

\* Through with a move, the daemon goes to the next pair.
LEMMA AfterTakes ==
  ASSUME job \in [Actors -> Job], NEW a \in Actors, job' = Step(a, AfterMove(a))
  PROVE  /\ job' \in [Actors -> Job]
         /\ job'[a].pc \in {"choose", "pair", "idle"}
         /\ job[a].kind = "daemon" => job'[a].pc = "pair" /\ job'[a].kind = "daemon"
         /\ \A b \in Actors \ {a} : Kept(b)
<1>1. "choose" \in PCs /\ "pair" \in PCs
  BY DEF PCs
<1>2. CASE job[a].kind = "repair"
  BY <1>1, <1>2, GoesTakes DEF AfterMove
<1>3. CASE job[a].kind = "daemon"
  BY <1>1, <1>3, GoesTakes DEF AfterMove, Same
<1>4. CASE job[a].kind \notin {"repair", "daemon"}
  BY <1>4, EndsTakes DEF AfterMove
<1> QED
  BY <1>2, <1>3, <1>4

\* The daemon is nobody's client.
LEMMA Apart == ASSUME NEW c \in Clients PROVE c \in Actors /\ c # Daemon /\ Daemon \in Actors
BY ConstantsAssumption DEF Actors

-----------------------------------------------------------------------------
(* What each step does to the records *)

LEMMA MvValidateTakes ==
  ASSUME job \in [Actors -> Job], NEW c \in Clients, NEW p \in Paths, NEW q \in Paths,
         MvValidate(c, p, q)
  PROVE  /\ job' \in [Actors -> Job]
         /\ job'[c].pc = "rename" /\ job'[c].old = p /\ job'[c].new = q
         /\ \A b \in Actors \ {c} : Kept(b)
<1>1. c \in Actors
  BY Apart
<1>2. PICK r : r = [NoJob EXCEPT !.pc = "rename", !.kind = "mv", !.old = p, !.new = q]
  OBVIOUS
<1>3. r \in Job /\ r.pc = "rename" /\ r.old = p /\ r.new = q
  BY <1>2 DEF Job, NoJob, NoLinks
<1>4. job' = Step(c, r)
  BY <1>2 DEF MvValidate
<1> QED
  BY <1>1, <1>3, <1>4, StepTakes

LEMMA ListStartTakes ==
  ASSUME TypeOK
  PROVE  /\ DrainEvents => /\ job' \in [Actors -> Job]
                           /\ job'[Daemon].pc = "pair" /\ job'[Daemon].kind = "daemon"
                           /\ \A b \in Actors \ {Daemon} : Kept(b)
         /\ \A c \in Clients :
              RepairStart(c) => /\ job' \in [Actors -> Job]
                                /\ job'[c].pc = "choose"
                                /\ \A b \in Actors \ {c} : Kept(b)
<1>1. job \in [Actors -> Job] /\ Daemon \in Actors
  BY DEF TypeOK, Actors
<1>2. ASSUME DrainEvents
      PROVE  /\ job' \in [Actors -> Job]
             /\ job'[Daemon].pc = "pair" /\ job'[Daemon].kind = "daemon"
             /\ \A b \in Actors \ {Daemon} : Kept(b)
  <2>1. heard \in SUBSET (Notes \cup Paths \cup ({"file"} \X Notes))
    BY DEF TypeOK
  <2>2. PICK r : r = [NoJob EXCEPT !.pc = "pair", !.kind = "daemon", !.listed = heard]
    OBVIOUS
  <2>3. r \in Job /\ r.pc = "pair" /\ r.kind = "daemon"
    BY <2>1, <2>2, ListStarts
  <2> QED
    BY <1>1, <1>2, <2>2, <2>3, StepTakes DEF DrainEvents
<1>3. ASSUME NEW c \in Clients, RepairStart(c)
      PROVE  /\ job' \in [Actors -> Job]
             /\ job'[c].pc = "choose"
             /\ \A b \in Actors \ {c} : Kept(b)
  <2>1. Broken \in SUBSET (Notes \cup Paths \cup ({"file"} \X Notes)) /\ c \in Actors
    BY DEF TypeOK, Broken, Actors
  <2>2. PICK r : r = [NoJob EXCEPT !.pc = "choose", !.kind = "repair", !.listed = Broken]
    OBVIOUS
  <2>3. r \in Job /\ r.pc = "choose"
    BY <2>1, <2>2, ListStarts
  <2> QED
    BY <1>1, <1>3, <2>1, <2>2, <2>3, StepTakes DEF RepairStart
<1> QED
  BY <1>2, <1>3

LEMMA NextPairTakes ==
  ASSUME TypeOK, NextPair
  PROVE  /\ job' \in [Actors -> Job]
         /\ job'[Daemon].pc = "check" /\ job'[Daemon].kind = job[Daemon].kind
         /\ <<job'[Daemon].old, job'[Daemon].new>> = Head(batch)
         /\ job'[Daemon].old \in Paths /\ job'[Daemon].new \in Paths
         /\ \A b \in Actors \ {Daemon} : Kept(b)
<1>1. Daemon \in Actors /\ job \in [Actors -> Job]
  BY DEF TypeOK, Actors
<1>2. PICK old \in Job : old = job[Daemon]
  BY <1>1
<1>3. Head(batch) \in Paths \X Paths
  BY DEF TypeOK, NextPair
<1>4. PICK p \in Paths, q \in Paths : Head(batch) = <<p, q>>
  BY <1>3
<1>5. PICK r : r = [old EXCEPT !.pc = "check", !.old = p, !.new = q]
  OBVIOUS
<1>6. r \in Job /\ r.pc = "check" /\ r.kind = old.kind /\ r.old = p /\ r.new = q
  BY <1>2, <1>4, <1>5 DEF Job
<1>7. job' = Step(Daemon, r)
  <2>1. Head(batch)[1] = p /\ Head(batch)[2] = q
    BY <1>4
  <2> QED
    BY <1>2, <1>5, <2>1 DEF NextPair
<1>8. job' \in [Actors -> Job] /\ job'[Daemon] = r /\ \A b \in Actors \ {Daemon} : Kept(b)
  BY <1>1, <1>6, <1>7, StepTakes
<1> QED
  BY <1>2, <1>4, <1>6, <1>8

LEMMA RepairChooseTakes ==
  ASSUME TypeOK, NEW c \in Clients, NEW p \in Paths, RepairChoose(c, p)
  PROVE  /\ job' \in [Actors -> Job]
         /\ \A b \in Actors \ {c} : Kept(b)
         /\ \/ job'[c].pc = "choose" /\ UNCHANGED calm
            \/ \E q \in Paths :
                 /\ q # p
                 /\ job'[c].pc = "check" /\ job'[c].old = p /\ job'[c].new = q
                 /\ calm' => calm /\ file[p] = None
                             /\ \A m \in Pending : {p, q} \cap {m[1], m[2]} = {}
<1>1. c \in Actors /\ job \in [Actors -> Job] /\ job[c].pc = "choose"
  BY DEF TypeOK, Actors, RepairChoose
<1>2. PICK old \in Job : old = job[c]
  BY <1>1
<1>3. PICK l \in SUBSET (Notes \cup Paths \cup ({"file"} \X Notes)) : l = old.listed \ {p}
  BY DEF Job
<1>4. CASE job' = Step(c, [job[c] EXCEPT !.listed = @ \ {p}]) /\ UNCHANGED calm
  <2>1. PICK r : r = [old EXCEPT !.listed = l]
    OBVIOUS
  <2>2. r \in Job /\ r.pc = old.pc
    BY <2>1, JobPasses
  <2>3. job' = Step(c, r)
    BY <1>2, <1>3, <1>4, <2>1
  <2>4. job' \in [Actors -> Job] /\ job'[c] = r /\ \A b \in Actors \ {c} : Kept(b)
    BY <1>1, <2>2, <2>3, StepTakes
  <2> QED
    BY <1>1, <1>2, <1>4, <2>2, <2>4
<1>5. ASSUME NEW q \in Candidates(p),
             job' = Step(c, [job[c] EXCEPT !.listed = @ \ {p}, !.pc = "check",
                                           !.old = p, !.new = q]),
             calm' = (calm /\ file[p] = None
                        /\ \A m \in Pending : {p, q} \cap {m[1], m[2]} = {})
      PROVE  /\ job' \in [Actors -> Job]
             /\ \A b \in Actors \ {c} : Kept(b)
             /\ \E x \in Paths :
                 /\ x # p
                 /\ job'[c].pc = "check" /\ job'[c].old = p /\ job'[c].new = x
                 /\ calm' => calm /\ file[p] = None
                             /\ \A m \in Pending : {p, x} \cap {m[1], m[2]} = {}
  <2>1. q \in Paths /\ q # p
    BY DEF Candidates
  <2>2. PICK r : r = [old EXCEPT !.listed = l, !.pc = "check", !.old = p, !.new = q]
    OBVIOUS
  <2>3. r \in Job /\ r.pc = "check" /\ r.old = p /\ r.new = q
    BY <1>2, <1>3, <2>1, <2>2 DEF Job
  <2>4. job' = Step(c, r)
    BY <1>2, <1>3, <1>5, <2>2
  <2>5. job' \in [Actors -> Job] /\ job'[c] = r /\ \A b \in Actors \ {c} : Kept(b)
    BY <1>1, <2>3, <2>4, StepTakes
  <2> QED
    BY <1>5, <2>1, <2>3, <2>5
<1> QED
  BY <1>4, <1>5 DEF RepairChoose

LEMMA ReadNoteTakes ==
  ASSUME TypeOK, NEW a \in Actors, NEW n \in Notes, ReadNote(a, n)
  PROVE  /\ job' \in [Actors -> Job]
         /\ \A b \in Actors \ {a} : Kept(b)
         /\ job'[a].kind = job[a].kind /\ job'[a].old = job[a].old /\ job'[a].new = job[a].new
         /\ job'[a].todo = job[a].todo \ {n}
         /\ \/ job'[a].pc = "write" /\ job'[a].note = n /\ job'[a].draft = text[n]
            \/ /\ job'[a].pc = "rewrite"
               /\ n \notin notes \/ \A d \in Docs : text[n][d] # job[a].old
<1>1. job \in [Actors -> Job] /\ job[a].pc = "rewrite" /\ n \in job[a].todo
  BY DEF TypeOK, ReadNote
<1>2. PICK old \in Job : old = job[a]
  BY <1>1
<1>3. PICK t \in SUBSET (Notes \cup Paths) : t = old.todo \ {n}
  BY DEF Job
<1>4. PICK d \in [Docs -> Paths \cup {None}] : d = text[n]
  BY DEF TypeOK
<1>5. CASE n \in notes /\ \E x \in Docs : text[n][x] = job[a].old
  <2>1. PICK r : r = [old EXCEPT !.pc = "write", !.note = n, !.draft = d, !.todo = t]
    OBVIOUS
  <2>2. /\ r \in Job /\ r.pc = "write" /\ r.kind = old.kind /\ r.old = old.old
        /\ r.new = old.new /\ r.note = n /\ r.todo = t /\ r.draft = d
    BY <1>2, <1>3, <1>4, <2>1 DEF Job
  <2>3. job' = Step(a, r)
    BY <1>2, <1>3, <1>4, <1>5, <2>1 DEF ReadNote
  <2>4. job' \in [Actors -> Job] /\ job'[a] = r /\ \A b \in Actors \ {a} : Kept(b)
    BY <1>1, <2>2, <2>3, StepTakes
  <2> QED
    BY <1>2, <1>3, <1>4, <2>2, <2>4
<1>6. CASE ~(n \in notes /\ \E x \in Docs : text[n][x] = job[a].old)
  <2>1. PICK r : r = [old EXCEPT !.todo = t]
    OBVIOUS
  <2>2. /\ r \in Job /\ r.pc = old.pc /\ r.kind = old.kind /\ r.old = old.old
        /\ r.new = old.new /\ r.todo = t
    BY <1>2, <1>3, <2>1, JobTicks
  <2>3. job' = Step(a, r)
    BY <1>2, <1>3, <1>6, <2>1 DEF ReadNote
  <2>4. job' \in [Actors -> Job] /\ job'[a] = r /\ \A b \in Actors \ {a} : Kept(b)
    BY <1>1, <2>2, <2>3, StepTakes
  <2> QED
    BY <1>1, <1>2, <1>3, <1>6, <2>2, <2>4
<1> QED
  BY <1>5, <1>6

LEMMA WriteNoteTakes ==
  ASSUME TypeOK, NEW a \in Actors, WriteNote(a)
  PROVE  /\ job' \in [Actors -> Job]
         /\ \A b \in Actors \ {a} : Kept(b)
         /\ job'[a].kind = job[a].kind /\ job'[a].old = job[a].old /\ job'[a].new = job[a].new
         /\ job'[a].todo = job[a].todo /\ job'[a].pc = "rewrite"
<1>1. job \in [Actors -> Job]
  BY DEF TypeOK
<1>2. PICK old \in Job : old = job[a]
  BY <1>1
<1>3. PICK r : r = [old EXCEPT !.pc = "rewrite", !.note = None, !.draft = NoLinks]
  OBVIOUS
<1>4. /\ r \in Job /\ r.pc = "rewrite" /\ r.kind = old.kind /\ r.old = old.old
      /\ r.new = old.new /\ r.todo = old.todo
  BY <1>2, <1>3, JobWrites
<1>5. job' = Step(a, r)
  BY <1>2, <1>3 DEF WriteNote
<1>6. job' \in [Actors -> Job] /\ job'[a] = r /\ \A b \in Actors \ {a} : Kept(b)
  BY <1>1, <1>4, <1>5, StepTakes
<1> QED
  BY <1>2, <1>4, <1>6

LEMMA UnlinkOldTakes ==
  ASSUME TypeOK, NEW a \in Actors, UnlinkOld(a), job[a].old \in links
  PROVE  /\ job' \in [Actors -> Job]
         /\ \A b \in Actors \ {a} : Kept(b)
         /\ job'[a].kind = job[a].kind /\ job'[a].old = job[a].old /\ job'[a].new = job[a].new
         /\ job'[a].todo = notes \cap Vault /\ job'[a].pc = "rewrite"
<1>1. job \in [Actors -> Job]
  BY DEF TypeOK
<1>2. PICK old \in Job : old = job[a]
  BY <1>1
<1>3. PICK t \in SUBSET (Notes \cup Paths) : t = notes \cap Vault
  BY DEF Vault
<1>4. PICK r : r = [old EXCEPT !.pc = "rewrite", !.todo = t]
  OBVIOUS
<1>5. /\ r \in Job /\ r.pc = "rewrite" /\ r.kind = old.kind /\ r.old = old.old
      /\ r.new = old.new /\ r.todo = t
  BY <1>2, <1>3, <1>4 DEF Job
<1>6. job' = Step(a, r)
  BY <1>2, <1>3, <1>4 DEF UnlinkOld
<1>7. job' \in [Actors -> Job] /\ job'[a] = r /\ \A b \in Actors \ {a} : Kept(b)
  BY <1>1, <1>5, <1>6, StepTakes
<1> QED
  BY <1>2, <1>3, <1>5, <1>7

\* The link steps that only go on, or end.
LEMMA RelinkTakes ==
  ASSUME TypeOK, NEW a \in Actors
  PROVE  /\ CheckSymlink(a) /\ job[a].old \in links =>
              /\ job' \in [Actors -> Job] /\ job'[a].pc = "create" /\ Same(a)
              /\ \A b \in Actors \ {a} : Kept(b)
         /\ CreateSymlink(a) /\ job[a].new \notin links =>
              /\ job' \in [Actors -> Job] /\ job'[a].pc = "unlink" /\ Same(a)
              /\ \A b \in Actors \ {a} : Kept(b)
         /\ (\/ CheckSymlink(a) /\ job[a].old \notin links
             \/ CreateSymlink(a) /\ job[a].new \in links
             \/ UnlinkOld(a) /\ job[a].old \notin links
             \/ UpdateEdges(a)) =>
              /\ job' \in [Actors -> Job]
              /\ job'[a].pc \in {"choose", "pair", "idle"}
              /\ job[a].kind = "daemon" => job'[a].pc = "pair" /\ job'[a].kind = "daemon"
              /\ \A b \in Actors \ {a} : Kept(b)
<1>1. job \in [Actors -> Job] /\ "create" \in PCs /\ "unlink" \in PCs
  BY DEF TypeOK, PCs
<1>2. ASSUME CheckSymlink(a), job[a].old \in links
      PROVE  job' = Step(a, [job[a] EXCEPT !.pc = "create"])
  BY <1>2 DEF CheckSymlink
<1>3. ASSUME CreateSymlink(a), job[a].new \notin links
      PROVE  job' = Step(a, [job[a] EXCEPT !.pc = "unlink"])
  BY <1>3 DEF CreateSymlink
<1>4. ASSUME \/ CheckSymlink(a) /\ job[a].old \notin links
             \/ CreateSymlink(a) /\ job[a].new \in links
             \/ UnlinkOld(a) /\ job[a].old \notin links
             \/ UpdateEdges(a)
      PROVE  job' = Step(a, AfterMove(a))
  BY <1>4 DEF CheckSymlink, CreateSymlink, UnlinkOld, UpdateEdges
<1> QED
  BY <1>1, <1>2, <1>3, <1>4, GoesTakes, AfterTakes

LEMMA ResolvedType ==
  ASSUME TypeOK, NEW n \in Notes PROVE Resolved(n) \in SUBSET (Docs \X Paths)
<1>1. \A d \in Docs : text[n][d] # None => text[n][d] \in Paths
  BY DEF TypeOK
<1>2. LinksOf(n) \in SUBSET (Docs \X Paths)
  BY <1>1 DEF LinksOf
<1> QED
  BY <1>2 DEF Resolved

LEMMA SyncStartTakes ==
  ASSUME TypeOK, NEW c \in Clients, NEW S \in SUBSET Notes, NEW k \in {"link", "vault"},
         SyncStart(c, S, k)
  PROVE  /\ job' \in [Actors -> Job]
         /\ \A b \in Actors \ {c} : Kept(b)
         /\ job'[c].pc = "sync" /\ job'[c].kind = k
         /\ job'[c].todo = S /\ job'[c].listed = S
<1>1. c \in Actors /\ job \in [Actors -> Job]
  BY DEF TypeOK, Actors
<1>2. PICK r : r = [NoJob EXCEPT !.pc = "sync", !.kind = k, !.todo = S, !.listed = S]
  OBVIOUS
<1>3. r \in Job /\ r.pc = "sync" /\ r.kind = k /\ r.todo = S /\ r.listed = S
  BY <1>2 DEF Job, NoJob, NoLinks
<1>4. job' = Step(c, r)
  BY <1>2 DEF SyncStart
<1> QED
  BY <1>1, <1>3, <1>4, StepTakes

LEMMA SyncKinds ==
  ASSUME TypeOK, NEW c \in Clients, LinkSync(c) \/ VaultSync(c)
  PROVE  \E S \in SUBSET Notes, k \in {"link", "vault"} : S \subseteq notes /\ SyncStart(c, S, k)
<1>1. notes \subseteq Notes
  BY DEF TypeOK
<1>2. ASSUME LinkSync(c)
      PROVE  \E S \in SUBSET Notes : S \subseteq notes /\ SyncStart(c, S, "link")
  BY <1>1, <1>2 DEF LinkSync
<1>3. ASSUME VaultSync(c)
      PROVE  \E S \in SUBSET Notes : S \subseteq notes /\ SyncStart(c, S, "vault")
  BY <1>1, <1>3 DEF VaultSync
<1> QED
  BY <1>2, <1>3

LEMMA SyncReadTakes ==
  ASSUME TypeOK, NEW c \in Clients, NEW n \in Notes, SyncRead(c, n)
  PROVE  /\ job' \in [Actors -> Job]
         /\ \A b \in Actors \ {c} : Kept(b)
         /\ job'[c].kind = job[c].kind /\ job'[c].listed = job[c].listed
         /\ job'[c].todo = job[c].todo \ {n} /\ job'[c].alone = job[c].alone
         /\ n \in notes => /\ job'[c].pc = "delete" /\ job'[c].note = n
                           /\ job'[c].buffer = Resolved(n)
         /\ n \notin notes => job'[c].pc = "sync"
<1>1. c \in Actors /\ job \in [Actors -> Job] /\ job[c].pc = "sync"
  BY DEF TypeOK, Actors, SyncRead
<1>2. PICK old \in Job : old = job[c]
  BY <1>1
<1>3. PICK t \in SUBSET (Notes \cup Paths) : t = old.todo \ {n}
  BY DEF Job
<1>4. PICK B \in SUBSET (Docs \X Paths) : B = Resolved(n)
  BY ResolvedType
<1> DEFINE Buffers == SUBSET ((Docs \X Paths) \cup (Notes \X (Docs \X Paths)))
<1>7. B \in Buffers
  BY <1>4
<1> HIDE DEF Buffers
<1>5. CASE n \in notes
  <2>1. PICK r : r = [old EXCEPT !.pc = "delete", !.note = n, !.todo = t, !.buffer = B]
    OBVIOUS
  <2>2. /\ r \in Job /\ r.pc = "delete" /\ r.kind = old.kind /\ r.note = n
        /\ r.todo = t /\ r.buffer = B /\ r.listed = old.listed /\ r.alone = old.alone
    BY <1>2, <1>3, <1>7, <2>1 DEF Job, Buffers
  <2>3. job' = Step(c, r)
    BY <1>2, <1>3, <1>4, <1>5, <2>1 DEF SyncRead
  <2>4. job' \in [Actors -> Job] /\ job'[c] = r /\ \A b \in Actors \ {c} : Kept(b)
    BY <1>1, <2>2, <2>3, StepTakes
  <2> QED
    BY <1>2, <1>3, <1>4, <1>5, <2>2, <2>4
<1>6. CASE n \notin notes
  <2>1. PICK r : r = [old EXCEPT !.todo = t]
    OBVIOUS
  <2>2. /\ r \in Job /\ r.pc = old.pc /\ r.kind = old.kind
        /\ r.todo = t /\ r.listed = old.listed /\ r.alone = old.alone
    BY <1>2, <1>3, <2>1, JobTicks
  <2>3. job' = Step(c, r)
    BY <1>2, <1>3, <1>6, <2>1 DEF SyncRead
  <2>4. job' \in [Actors -> Job] /\ job'[c] = r /\ \A b \in Actors \ {c} : Kept(b)
    BY <1>1, <2>2, <2>3, StepTakes
  <2> QED
    BY <1>1, <1>2, <1>3, <1>6, <2>2, <2>4
<1> QED
  BY <1>5, <1>6

LEMMA SyncInsertTakes ==
  ASSUME TypeOK, NEW c \in Clients, SyncInsert(c)
  PROVE  /\ job' \in [Actors -> Job]
         /\ \A b \in Actors \ {c} : Kept(b)
         /\ job'[c].pc = "sync" /\ job'[c].kind = job[c].kind
         /\ job'[c].listed = job[c].listed /\ job'[c].todo = job[c].todo
         /\ job'[c].alone = job[c].alone
<1>1. c \in Actors /\ job \in [Actors -> Job]
  BY DEF TypeOK, Actors
<1>2. PICK old \in Job : old = job[c]
  BY <1>1
<1>3. PICK r : r = [old EXCEPT !.pc = "sync", !.note = None, !.buffer = {}]
  OBVIOUS
<1>4. /\ r \in Job /\ r.pc = "sync" /\ r.kind = old.kind
      /\ r.todo = old.todo /\ r.listed = old.listed /\ r.alone = old.alone
  BY <1>2, <1>3, JobInserts
<1>5. job' = Step(c, r)
  BY <1>2, <1>3 DEF SyncInsert
<1>6. job' \in [Actors -> Job] /\ job'[c] = r /\ \A b \in Actors \ {c} : Kept(b)
  BY <1>1, <1>4, <1>5, StepTakes
<1> QED
  BY <1>2, <1>4, <1>6

LEMMA PruneStartTakes ==
  ASSUME TypeOK, NEW c \in Clients, PruneStart(c)
  PROVE  /\ job' \in [Actors -> Job]
         /\ \A b \in Actors \ {c} : Kept(b)
         /\ job'[c].pc = "find" /\ job'[c].kind = "prune" /\ job'[c].listed = NodeUris
<1>1. c \in Actors /\ job \in [Actors -> Job]
  BY DEF TypeOK, Actors
<1>2. PICK t \in SUBSET (Notes \cup Paths) : t = NodeTargets
  BY DEF NodeTargets
<1>3. PICK l \in SUBSET (Notes \cup Paths \cup ({"file"} \X Notes)) : l = NodeUris
  <2>1. known \subseteq Notes /\ \A n \in Notes : <<"file", n>> \in {"file"} \X Notes
    BY DEF TypeOK
  <2> QED
    BY <2>1 DEF NodeUris
<1>4. PICK r : r = [NoJob EXCEPT !.pc = "find", !.kind = "prune", !.todo = t, !.listed = l]
  OBVIOUS
<1>5. r \in Job /\ r.pc = "find" /\ r.kind = "prune" /\ r.listed = l
  BY <1>2, <1>3, <1>4 DEF Job, NoJob, NoLinks
<1>6. job' = Step(c, r)
  BY <1>2, <1>3, <1>4 DEF PruneStart
<1> QED
  BY <1>1, <1>3, <1>5, <1>6, StepTakes

LEMMA PruneFindTakes ==
  ASSUME TypeOK, NEW c \in Clients, PruneFind(c)
  PROVE  /\ job' \in [Actors -> Job]
         /\ \A b \in Actors \ {c} : Kept(b)
         /\ job'[c].pc = "prune" /\ job'[c].kind = job[c].kind
         /\ job'[c].alone = job[c].alone
         /\ \A x \in job'[c].buffer :
              \/ FromUri(x[1]) \notin job[c].listed
              \/ file[x[2][2]] = None
<1>1. c \in Actors /\ job \in [Actors -> Job]
  BY DEF TypeOK, Actors
<1>2. PICK old \in Job : old = job[c]
  BY <1>1
<1>3. PICK B \in SUBSET (Notes \X (Docs \X Paths)) :
        B = {x \in Notes \X (Docs \X Paths) :
               LET n == x[1]
                   e == x[2]
               IN  /\ e \in edges[n]
                   /\ \/ FromUri(n) \notin job[c].listed
                      \/ e[2] \notin job[c].todo /\ file[e[2]] = None}
  OBVIOUS
<1>4. PICK r : r = [old EXCEPT !.pc = "prune", !.buffer = B]
  OBVIOUS
<1> DEFINE Buffers == SUBSET ((Docs \X Paths) \cup (Notes \X (Docs \X Paths)))
<1>8. B \in Buffers
  BY <1>3
<1> HIDE DEF Buffers
<1>5. r \in Job /\ r.pc = "prune" /\ r.kind = old.kind /\ r.buffer = B /\ r.alone = old.alone
  BY <1>2, <1>4, <1>8 DEF Job, Buffers
<1>6. job' = Step(c, r)
  BY <1>2, <1>3, <1>4 DEF PruneFind
<1>7. job' \in [Actors -> Job] /\ job'[c] = r /\ \A b \in Actors \ {c} : Kept(b)
  BY <1>1, <1>5, <1>6, StepTakes
<1> QED
  BY <1>2, <1>3, <1>5, <1>7

-----------------------------------------------------------------------------
(* Types *)

HandOK(a) ==
    /\ Handling(a) => job[a].old \in Paths /\ job[a].new \in Paths
    /\ job[a].pc \in {"write", "delete", "insert"} => job[a].note \in Notes
    /\ job[a].pc \in {"delete", "insert"} => job[a].buffer \subseteq Docs \X Paths

DataOK ==
    /\ file \in [Paths -> Docs \cup {None}]
    /\ links \subseteq Paths
    /\ notes \subseteq Notes /\ known \subseteq Notes
    /\ text \in [Notes -> [Docs -> Paths \cup {None}]]
    /\ edges \in [Notes -> SUBSET (Docs \X Paths)]
    /\ nodes \in [Paths -> Docs \cup {None}]
    /\ up \in BOOLEAN /\ calm \in BOOLEAN
    /\ moved \in Seq(Paths \X Paths) /\ batch \in Seq(Paths \X Paths)
    /\ heard \subseteq Paths

LEMMA TypeParts ==
  TypeOK <=> DataOK /\ job \in [Actors -> Job] /\ \A a \in Actors : HandOK(a)
BY DEF TypeOK, DataOK, HandOK

LEMMA HandsKept ==
  ASSUME TypeOK, NEW a \in Actors, Kept(a)
  PROVE  HandOK(a)'
BY TypeParts DEF HandOK, Handling, Relinking, Kept, Same

LEMMA FunctionIsSeq ==
  ASSUME NEW S, NEW n \in Nat, NEW f \in [1..n -> S] PROVE f \in Seq(S)
OBVIOUS

LEMMA OnMovedType ==
  ASSUME moved \in Seq(Paths \X Paths), NEW p \in Paths, NEW q \in Paths
  PROVE  OnMoved(p, q) \in Seq(Paths \X Paths)
<1> DEFINE at == {i \in DOMAIN moved : moved[i][1] = p}
<1>1. CASE at # {}
  <2>1. PICK n \in Nat : n = Len(moved)
    OBVIOUS
  <2>2. DOMAIN moved = 1..n /\ \A i \in 1..n : moved[i] \in Paths \X Paths
    BY <2>1
  <2>3. PICK f : f = [i \in DOMAIN moved |-> IF i \in at THEN <<p, q>> ELSE moved[i]]
    OBVIOUS
  <2>4. f \in [1..n -> Paths \X Paths]
    BY <2>2, <2>3
  <2>5. f \in Seq(Paths \X Paths)
    BY <2>1, <2>4, FunctionIsSeq
  <2> QED
    BY <1>1, <2>3, <2>5 DEF OnMoved
<1>2. CASE at = {}
  BY <1>2 DEF OnMoved
<1> QED
  BY <1>1, <1>2

LEMMA RenameData ==
  ASSUME DataOK, NEW p \in Paths, NEW q \in Paths, Rename(p, q), calm' \in BOOLEAN,
         UNCHANGED <<links, notes, text, db>>
  PROVE  DataOK'
<1>1. file' \in [Paths -> Docs \cup {None}]
  BY DEF Rename, DataOK
<1>2. /\ moved' \in Seq(Paths \X Paths) /\ batch' \in Seq(Paths \X Paths)
      /\ heard' \subseteq Paths /\ up' \in BOOLEAN
  BY OnMovedType DEF Rename, DataOK
<1> QED
  BY <1>1, <1>2 DEF DataOK, db

LEMMA JobsTyped ==
  ASSUME TypeOK, DataOK', NEW a \in Actors, job' \in [Actors -> Job],
         \A b \in Actors \ {a} : Kept(b), HandOK(a)'
  PROVE  TypeOK'
<1>1. \A b \in Actors : HandOK(b)'
  BY HandsKept
<1> QED
  BY <1>1 DEF TypeOK, DataOK, HandOK

LEMMA JobsKeptTyped ==
  ASSUME TypeOK, DataOK', job' \in [Actors -> Job], \A b \in Actors : Kept(b)
  PROVE  TypeOK'
<1>1. \A b \in Actors : HandOK(b)'
  BY HandsKept
<1> QED
  BY <1>1 DEF TypeOK, DataOK, HandOK

LEMMA UserTyped ==
  ASSUME TypeOK, User PROVE TypeOK'
<1>1. DataOK /\ job \in [Actors -> Job]
  BY TypeParts
<1>2. ASSUME NEW p \in Paths, NEW q \in Paths, MoveFile(p, q) PROVE TypeOK'
  <2>1. calm' \in BOOLEAN
    BY <1>2, Zenon DEF MoveFile
  <2>2. DataOK'
    BY <1>1, <1>2, <2>1, RenameData DEF MoveFile
  <2> QED
    BY <1>1, <1>2, <2>2, AllKept, JobsKeptTyped DEF MoveFile
<1>3. ASSUME NEW p \in Paths, DeleteFile(p) PROVE TypeOK'
  <2>1. DataOK'
    BY <1>1, <1>3 DEF DeleteFile, DataOK, db
  <2> QED
    BY <1>1, <1>3, <2>1, AllKept, JobsKeptTyped DEF DeleteFile
<1>4. ASSUME NEW n \in Notes, NEW p \in Paths, AddLink(n, p) PROVE TypeOK'
  <2>1. calm' \in BOOLEAN
    BY <1>4, Zenon DEF AddLink
  <2>2. DataOK'
    BY <1>1, <1>4, <2>1 DEF AddLink, DataOK, db, inbox
  <2> QED
    BY <1>1, <1>4, <2>2, AllKept, JobsKeptTyped DEF AddLink
<1>5. ASSUME NEW n \in Notes, DeleteNote(n) PROVE TypeOK'
  <2>1. DataOK'
    BY <1>1, <1>5 DEF DeleteNote, DataOK, db, inbox, NoLinks
  <2> QED
    BY <1>1, <1>5, <2>1, AllKept, JobsKeptTyped DEF DeleteNote
<1> QED
  BY <1>2, <1>3, <1>4, <1>5 DEF User

LEMMA CommandTyped ==
  ASSUME TypeOK, NEW c \in Clients, Command(c) PROVE TypeOK'
<1>1. DataOK /\ job \in [Actors -> Job] /\ c \in Actors
  BY TypeParts, Apart
<1>2. ASSUME NEW p \in Paths, NEW q \in Paths, MvValidate(c, p, q) PROVE TypeOK'
  <2>1. DataOK'
    BY <1>1, <1>2 DEF MvValidate, DataOK, disk, db, inbox
  <2> QED
    BY <1>1, <1>2, <2>1, MvValidateTakes, JobsTyped DEF HandOK, Handling, Relinking
<1>3. ASSUME RepairStart(c) PROVE TypeOK'
  <2>1. DataOK'
    BY <1>1, <1>3 DEF RepairStart, DataOK, disk, db, inbox
  <2> QED
    BY <1>1, <1>3, <2>1, ListStartTakes, JobsTyped DEF HandOK, Handling, Relinking
<1>4. ASSUME NEW p \in Paths, MonitorSync(c, p) PROVE TypeOK'
  <2>1. DataOK'
    BY <1>1, <1>4 DEF MonitorSync, DataOK, disk, inbox
  <2> QED
    BY <1>1, <1>4, <2>1, AllKept, JobsKeptTyped DEF MonitorSync
<1>5. ASSUME NEW S \in SUBSET Notes, NEW k \in {"link", "vault"}, SyncStart(c, S, k)
      PROVE  TypeOK'
  <2>1. DataOK'
    BY <1>1, <1>5 DEF SyncStart, DataOK, disk, db, inbox
  <2> QED
    BY <1>1, <1>5, <2>1, SyncStartTakes, JobsTyped DEF HandOK, Handling, Relinking
<1>6. ASSUME PruneStart(c) PROVE TypeOK'
  <2>1. DataOK'
    BY <1>1, <1>6 DEF PruneStart, DataOK, disk, db, inbox
  <2> QED
    BY <1>1, <1>6, <2>1, PruneStartTakes, JobsTyped DEF HandOK, Handling, Relinking
<1>7. LinkSync(c) \/ VaultSync(c) =>
        \E S \in SUBSET Notes, k \in {"link", "vault"} : SyncStart(c, S, k)
  BY SyncKinds
<1> QED
  BY <1>2, <1>3, <1>4, <1>5, <1>6, <1>7 DEF Command

LEMMA LoopTyped ==
  ASSUME TypeOK, Loop \/ StopDaemon \/ StartDaemon PROVE TypeOK'
<1>1. DataOK /\ job \in [Actors -> Job] /\ Daemon \in Actors
  BY TypeParts DEF Actors
<1>2. CASE DrainEvents
  <2>1. DataOK'
    BY <1>1, <1>2 DEF DrainEvents, DataOK, disk, db
  <2> QED
    BY <1>1, <1>2, <2>1, ListStartTakes, JobsTyped DEF HandOK, Handling, Relinking
<1>3. CASE NextPair
  <2>1. DataOK'
    BY <1>1, <1>3 DEF NextPair, DataOK, disk, db
  <2> QED
    BY <1>1, <1>3, <2>1, NextPairTakes, JobsTyped DEF HandOK, Handling, Relinking
<1>4. CASE RecordBatch
  <2>1. DataOK'
    BY <1>1, <1>4 DEF RecordBatch, DataOK, disk, inbox
  <2>2. job' = Step(Daemon, NoJob)
    BY <1>4 DEF RecordBatch
  <2> QED
    BY <1>1, <2>1, <2>2, EndsTakes, JobsTyped DEF HandOK, Handling, Relinking
<1>5. CASE StopDaemon
  <2>1. calm' \in BOOLEAN
    BY <1>5, Zenon DEF StopDaemon
  <2>2. DataOK'
    <3>1. up' \in BOOLEAN
      BY <1>5, Zenon DEF StopDaemon
    <3>2. moved' = <<>> /\ heard' = {} /\ batch' = <<>> /\ UNCHANGED <<disk, db>>
      BY <1>5 DEF StopDaemon
    <3>3. moved' \in Seq(Paths \X Paths) /\ batch' \in Seq(Paths \X Paths)
      BY <3>2
    <3> QED
      BY <1>1, <2>1, <3>1, <3>2, <3>3 DEF DataOK, disk, db
  <2>3. job' = Step(Daemon, NoJob)
    BY <1>5 DEF StopDaemon
  <2> QED
    BY <1>1, <2>2, <2>3, EndsTakes, JobsTyped DEF HandOK, Handling, Relinking
<1>6. CASE StartDaemon
  <2>1. DataOK'
    BY <1>1, <1>6 DEF StartDaemon, DataOK, disk, db
  <2> QED
    BY <1>1, <1>6, <2>1, AllKept, JobsKeptTyped DEF StartDaemon
<1> QED
  BY <1>2, <1>3, <1>4, <1>5, <1>6 DEF Loop

LEMMA RelinkTyped ==
  ASSUME TypeOK, NEW a \in Actors, Relink(a) PROVE TypeOK'
<1>1. DataOK /\ job \in [Actors -> Job] /\ HandOK(a)
  BY TypeParts
<1>2. CASE CheckSymlink(a)
  <2>1. DataOK'
    BY <1>1, <1>2 DEF CheckSymlink, DataOK, disk, db, inbox
  <2>2. CASE job[a].old \in links
    BY <1>1, <1>2, <2>1, <2>2, RelinkTakes, JobsTyped
       DEF HandOK, Handling, Relinking, Same, CheckSymlink
  <2>3. CASE job[a].old \notin links
    BY <1>2, <2>1, <2>3, RelinkTakes, JobsTyped DEF HandOK, Handling, Relinking
  <2> QED
    BY <2>2, <2>3
<1>3. CASE CreateSymlink(a)
  <2>1. CASE job[a].new \in links
    <3>1. DataOK'
      BY <1>1, <1>3, <2>1 DEF CreateSymlink, DataOK, db, inbox
    <3> QED
      BY <1>3, <2>1, <3>1, RelinkTakes, JobsTyped DEF HandOK, Handling, Relinking
  <2>2. CASE job[a].new \notin links
    <3>1. calm' \in BOOLEAN
      BY <1>3, <2>2, Zenon DEF CreateSymlink
    <3>2. job[a].old \in Paths /\ job[a].new \in Paths
      BY <1>1, <1>3 DEF HandOK, Handling, CreateSymlink
    <3>3. DataOK'
      BY <1>1, <1>3, <2>2, <3>1, <3>2 DEF CreateSymlink, DataOK, db, inbox
    <3> QED
      BY <1>3, <2>2, <3>2, <3>3, RelinkTakes, JobsTyped DEF HandOK, Handling, Relinking, Same
  <2> QED
    BY <2>1, <2>2
<1>4. CASE UnlinkOld(a)
  <2>1. DataOK'
    BY <1>1, <1>4 DEF UnlinkOld, DataOK, db, inbox
  <2>2. CASE job[a].old \in links
    BY <1>1, <1>4, <2>1, <2>2, UnlinkOldTakes, JobsTyped
       DEF HandOK, Handling, Relinking, UnlinkOld
  <2>3. CASE job[a].old \notin links
    BY <1>4, <2>1, <2>3, RelinkTakes, JobsTyped DEF HandOK, Handling, Relinking
  <2> QED
    BY <2>2, <2>3
<1>5. ASSUME NEW n \in Notes, ReadNote(a, n) PROVE TypeOK'
  <2>1. DataOK'
    BY <1>1, <1>5 DEF ReadNote, DataOK, disk, db, inbox
  <2>2. HandOK(a)'
    BY <1>1, <1>5, ReadNoteTakes DEF HandOK, Handling, Relinking, ReadNote
  <2> QED
    BY <1>5, <2>1, <2>2, ReadNoteTakes, JobsTyped
<1>6. CASE WriteNote(a)
  <2>1. /\ job[a].old \in Paths /\ job[a].new \in Paths /\ job[a].note \in Notes
        /\ job[a].draft \in [Docs -> Paths \cup {None}]
    BY <1>1, <1>6 DEF HandOK, Handling, Relinking, WriteNote, Job
  <2>2. Substitute(job[a].draft, job[a].old, job[a].new) \in [Docs -> Paths \cup {None}]
    BY <2>1 DEF Substitute
  <2>3. DataOK'
    BY <1>1, <1>6, <2>1, <2>2 DEF WriteNote, DataOK, db, inbox
  <2> QED
    BY <1>6, <2>1, <2>3, WriteNoteTakes, JobsTyped DEF HandOK, Handling, Relinking
<1>7. CASE UpdateEdges(a)
  <2>1. job[a].new \in Paths
    BY <1>1, <1>7 DEF HandOK, Handling, Relinking, UpdateEdges
  <2>2. edges' \in [Notes -> SUBSET (Docs \X Paths)]
    BY <1>1, <1>7, <2>1 DEF UpdateEdges, DataOK
  <2>3. DataOK'
    BY <1>1, <1>7, <2>2 DEF UpdateEdges, DataOK, disk, inbox
  <2> QED
    BY <1>7, <2>3, RelinkTakes, JobsTyped DEF HandOK, Handling, Relinking
<1> QED
  BY <1>2, <1>3, <1>4, <1>5, <1>6, <1>7 DEF Relink

LEMMA WorkTyped ==
  ASSUME TypeOK, NEW c \in Clients, Work(c) \/ Crash(c) PROVE TypeOK'
<1>1. DataOK /\ job \in [Actors -> Job] /\ c \in Actors /\ HandOK(c)
  BY TypeParts, Apart
<1>2. CASE MvRename(c)
  <2>1. job[c].old \in Paths /\ job[c].new \in Paths
    BY <1>1, <1>2 DEF HandOK, Handling, MvRename
  <2>2. CASE file[job[c].old] = None
    <3>1. DataOK' /\ job' = Step(c, NoJob)
      BY <1>1, <1>2, <2>2 DEF MvRename, DataOK, db, inbox
    <3> QED
      BY <1>1, <3>1, EndsTakes, JobsTyped DEF HandOK, Handling, Relinking
  <2>3. CASE file[job[c].old] # None
    <3>1. calm' \in BOOLEAN
      BY <1>2, <2>3, Zenon DEF MvRename
    <3>2. /\ Rename(job[c].old, job[c].new)
          /\ UNCHANGED <<links, notes, text, db>>
          /\ job' = Step(c, [job[c] EXCEPT !.pc = "record"])
      BY <1>2, <2>3 DEF MvRename
    <3>3. DataOK'
      BY <1>1, <2>1, <3>1, <3>2, RenameData
    <3>4. "record" \in PCs
      BY DEF PCs
    <3> QED
      BY <1>1, <2>1, <3>2, <3>3, <3>4, GoesTakes, JobsTyped
         DEF HandOK, Handling, Relinking, Same
  <2> QED
    BY <2>2, <2>3
<1>3. CASE MvRecord(c)
  <2>1. job[c].old \in Paths /\ job[c].new \in Paths
    BY <1>1, <1>3 DEF HandOK, Handling, MvRecord
  <2>2. DataOK'
    BY <1>1, <1>3, <2>1 DEF MvRecord, DataOK, disk, inbox
  <2>3. "check" \in PCs /\ job' = Step(c, [job[c] EXCEPT !.pc = "check"])
    BY <1>3 DEF PCs, MvRecord
  <2> QED
    BY <1>1, <2>1, <2>2, <2>3, GoesTakes, JobsTyped DEF HandOK, Handling, Relinking, Same
<1>4. ASSUME NEW p \in Paths, RepairChoose(c, p) PROVE TypeOK'
  <2>1. calm' \in BOOLEAN
    <3>1. CASE UNCHANGED calm
      BY <1>1, <3>1 DEF DataOK
    <3>2. ASSUME NEW q, calm' = (calm /\ file[p] = None
                              /\ \A m \in Pending : {p, q} \cap {m[1], m[2]} = {})
          PROVE  calm' \in BOOLEAN
      BY <3>2, Zenon
    <3> QED
      BY <1>4, <3>1, <3>2 DEF RepairChoose
  <2>2. UNCHANGED <<disk, db, inbox>>
    BY <1>4 DEF RepairChoose
  <2>3. DataOK'
    BY <1>1, <2>1, <2>2 DEF DataOK, disk, db, inbox
  <2> QED
    BY <1>1, <1>4, <2>3, RepairChooseTakes, JobsTyped DEF HandOK, Handling, Relinking
<1>5. ASSUME RepairDone(c) \/ PruneDelete(c) \/ SyncEnd(c) \/ Crash(c) PROVE TypeOK'
  <2>1. job' = Step(c, NoJob)
    BY <1>5 DEF RepairDone, PruneDelete, SyncEnd, Crash
  <2>2. edges' \in [Notes -> SUBSET (Docs \X Paths)]
    <3>1. CASE PruneDelete(c)
      BY <1>1, <3>1 DEF PruneDelete, DataOK
    <3>2. CASE SyncEnd(c)
      BY <1>1, <3>2 DEF SyncEnd, DataOK
    <3>3. CASE RepairDone(c) \/ Crash(c)
      BY <1>1, <3>3 DEF RepairDone, Crash, DataOK, db
    <3> QED
      BY <1>5, <3>1, <3>2, <3>3
  <2>3. calm' \in BOOLEAN
    <3>1. CASE Crash(c)
      BY <3>1, Zenon DEF Crash
    <3>2. CASE RepairDone(c) \/ PruneDelete(c) \/ SyncEnd(c)
      BY <1>1, <3>2 DEF RepairDone, PruneDelete, SyncEnd, DataOK
    <3> QED
      BY <1>5, <3>1, <3>2
  <2>4. UNCHANGED <<disk, nodes, known, inbox>>
    BY <1>5 DEF RepairDone, PruneDelete, SyncEnd, Crash, db
  <2>5. DataOK'
    BY <1>1, <2>2, <2>3, <2>4 DEF DataOK, disk, inbox
  <2> QED
    BY <1>1, <2>1, <2>5, EndsTakes, JobsTyped DEF HandOK, Handling, Relinking
<1>6. ASSUME NEW n \in Notes, SyncRead(c, n) PROVE TypeOK'
  <2>1. DataOK'
    BY <1>1, <1>6 DEF SyncRead, DataOK, disk, inbox
  <2>2. HandOK(c)'
    BY <1>6, SyncReadTakes, ResolvedType DEF HandOK, Handling, Relinking
  <2> QED
    BY <1>1, <1>6, <2>1, <2>2, SyncReadTakes, JobsTyped
<1>7. CASE SyncDelete(c)
  <2>1. "insert" \in PCs /\ job' = Step(c, [job[c] EXCEPT !.pc = "insert"])
    BY <1>7 DEF PCs, SyncDelete
  <2>2. job[c].note \in Notes /\ job[c].buffer \subseteq Docs \X Paths
    BY <1>1, <1>7 DEF HandOK, SyncDelete
  <2>3. DataOK'
    BY <1>1, <1>7, <2>2 DEF SyncDelete, DataOK, disk, inbox
  <2> QED
    BY <1>1, <2>1, <2>2, <2>3, GoesTakes, JobsTyped DEF HandOK, Handling, Relinking, Same
<1>8. CASE SyncInsert(c)
  <2>1. job[c].note \in Notes /\ job[c].buffer \subseteq Docs \X Paths
    BY <1>1, <1>8 DEF HandOK, SyncInsert
  <2>2. PICK S \in SUBSET job[c].buffer :
          edges' = [edges EXCEPT ![job[c].note] = edges[job[c].note] \cup S]
    BY <1>8 DEF SyncInsert
  <2>3. edges[job[c].note] \in SUBSET (Docs \X Paths) /\ S \subseteq Docs \X Paths
    BY <1>1, <2>1, <2>2 DEF DataOK
  <2>4. edges' \in [Notes -> SUBSET (Docs \X Paths)]
    BY <1>1, <2>1, <2>2, <2>3 DEF DataOK
  <2>5. DataOK'
    BY <1>1, <1>8, <2>4 DEF SyncInsert, DataOK, disk, inbox
  <2> QED
    BY <1>1, <1>8, <2>5, SyncInsertTakes, JobsTyped DEF HandOK, Handling, Relinking
<1>9. CASE PruneFind(c)
  <2>1. DataOK'
    BY <1>1, <1>9 DEF PruneFind, DataOK, disk, db, inbox
  <2> QED
    BY <1>1, <1>9, <2>1, PruneFindTakes, JobsTyped DEF HandOK, Handling, Relinking
<1> QED
  BY <1>2, <1>3, <1>4, <1>5, <1>6, <1>7, <1>8, <1>9 DEF Work

LEMMA StutterTyped ==
  ASSUME TypeOK, UNCHANGED vars PROVE TypeOK'
<1>1. DataOK /\ job \in [Actors -> Job] /\ \A a \in Actors : HandOK(a)
  BY TypeParts
<1>2. UNCHANGED <<file, links, notes, text, edges, nodes, known, up, moved, heard, batch,
                  job, calm>>
  BY DEF vars
<1>3. DataOK'
  BY <1>1, <1>2 DEF DataOK
<1> QED
  BY <1>1, <1>2, <1>3 DEF TypeOK, DataOK, HandOK, Handling, Relinking

LEMMA TypeStep ==
  ASSUME TypeOK, [Next]_vars PROVE TypeOK'
BY UserTyped, CommandTyped, WorkTyped, LoopTyped, RelinkTyped, StutterTyped DEF Next

LEMMA TypeStart ==
  ASSUME Init PROVE TypeOK
<1>1. file \in [Paths -> Docs \cup {None}]
  <2>1. ASSUME NEW p \in Paths, \E d \in Docs : Start[d] = p
        PROVE  (CHOOSE d \in Docs : Start[d] = p) \in Docs
    BY <2>1
  <2> QED
    BY <2>1 DEF Init
<1>2. links \subseteq Paths
  BY ConstantsAssumption DEF Init
<1>3. text \in [Notes -> [Docs -> Paths \cup {None}]]
  BY ConstantsAssumption DEF Init
<1>4. edges \in [Notes -> SUBSET (Docs \X Paths)]
  <2>1. ASSUME NEW n \in Notes PROVE Resolved(n) \in SUBSET (Docs \X Paths)
    <3>1. \A d \in Docs : text[n][d] # None => text[n][d] \in Paths
      BY <1>3
    <3>2. LinksOf(n) \in SUBSET (Docs \X Paths)
      BY <3>1 DEF LinksOf
    <3> QED
      BY <3>2 DEF Resolved
  <2> QED
    BY <2>1 DEF Init
<1>5. /\ job \in [Actors -> Job] /\ \A a \in Actors : job[a].pc = "idle"
  BY Resting DEF Init
<1>6. \A a \in Actors : HandOK(a)
  BY <1>5 DEF HandOK, Handling, Relinking
<1>7. DataOK
  BY <1>1, <1>2, <1>3, <1>4 DEF Init, DataOK
<1> QED
  BY <1>5, <1>6, <1>7, TypeParts

\* Every variable keeps its type, and whoever moves a link or rewrites a note knows which:
\* what _EventHandler, rewrite_wiki_links, sync and prune hold between two calls.
THEOREM TypeCorrect == Spec => []TypeOK
BY TypeStart, TypeStep, PTL DEF Spec

-----------------------------------------------------------------------------
(* What holds however the moves meet *)

LEMMA FileSteps ==
  ASSUME [Next]_vars
  PROVE  \/ UNCHANGED file
         \/ \E p \in Paths : file' = [file EXCEPT ![p] = None]
         \/ \E p, q \in Paths : MoveFile(p, q)
         \/ \E c \in Clients : MvRename(c) /\ file[job[c].old] # None
<1>1. ASSUME User
      PROVE  \/ UNCHANGED file
             \/ \E p \in Paths : file' = [file EXCEPT ![p] = None]
             \/ \E p, q \in Paths : MoveFile(p, q)
  BY <1>1 DEF User, DeleteFile, AddLink, DeleteNote
<1>2. ASSUME NEW c \in Clients, Command(c) PROVE UNCHANGED file
  BY <1>2 DEF Command, MvValidate, RepairStart, MonitorSync, LinkSync, VaultSync, SyncStart,
              PruneStart, disk
<1>3. ASSUME NEW c \in Clients, Work(c) \/ Crash(c)
      PROVE  UNCHANGED file \/ (MvRename(c) /\ file[job[c].old] # None)
  BY <1>3 DEF Work, MvRename, MvRecord, RepairChoose, RepairDone, SyncRead, SyncDelete,
              SyncInsert, SyncEnd, PruneFind, PruneDelete, Crash, disk
<1>4. ASSUME Loop \/ StopDaemon \/ StartDaemon PROVE UNCHANGED file
  BY <1>4 DEF Loop, DrainEvents, NextPair, RecordBatch, StopDaemon, StartDaemon, disk
<1>5. ASSUME NEW a \in Actors, Relink(a) PROVE UNCHANGED file
  BY <1>5 DEF Relink, CheckSymlink, CreateSymlink, UnlinkOld, ReadNote, WriteNote,
              UpdateEdges, disk
<1> QED
  BY <1>1, <1>2, <1>3, <1>4, <1>5 DEF Next, vars

LEMMA NoteSteps ==
  ASSUME [Next]_vars
  PROVE  \/ UNCHANGED <<notes, text>>
         \/ \E n \in Notes, p \in Paths : AddLink(n, p)
         \/ \E n \in Notes : DeleteNote(n)
         \/ \E a \in Actors : WriteNote(a)
<1>1. ASSUME User
      PROVE  \/ UNCHANGED <<notes, text>>
             \/ \E n \in Notes, p \in Paths : AddLink(n, p)
             \/ \E n \in Notes : DeleteNote(n)
  BY <1>1 DEF User, DeleteFile, MoveFile
<1>2. ASSUME NEW c \in Clients, Command(c) PROVE UNCHANGED <<notes, text>>
  BY <1>2 DEF Command, MvValidate, RepairStart, MonitorSync, LinkSync, VaultSync, SyncStart,
              PruneStart, disk
<1>3. ASSUME NEW c \in Clients, Work(c) \/ Crash(c) PROVE UNCHANGED <<notes, text>>
  BY <1>3 DEF Work, MvRename, MvRecord, RepairChoose, RepairDone, SyncRead, SyncDelete,
              SyncInsert, SyncEnd, PruneFind, PruneDelete, Crash, disk
<1>4. ASSUME Loop \/ StopDaemon \/ StartDaemon PROVE UNCHANGED <<notes, text>>
  BY <1>4 DEF Loop, DrainEvents, NextPair, RecordBatch, StopDaemon, StartDaemon, disk
<1>5. ASSUME NEW a \in Actors, Relink(a)
      PROVE  UNCHANGED <<notes, text>> \/ WriteNote(a)
  BY <1>5 DEF Relink, CheckSymlink, CreateSymlink, UnlinkOld, ReadNote, UpdateEdges, disk
<1> QED
  BY <1>1, <1>2, <1>3, <1>4, <1>5 DEF Next, vars

LEMMA DistinctStep ==
  ASSUME TypeOK, Distinct, [Next]_vars PROVE Distinct'
<1>1. file \in [Paths -> Docs \cup {None}]
  BY DEF TypeOK
<1>2. CASE UNCHANGED file
  BY <1>2 DEF Distinct
<1>3. ASSUME NEW p \in Paths, file' = [file EXCEPT ![p] = None] PROVE Distinct'
  BY <1>1, <1>3 DEF Distinct
<1>4. ASSUME NEW p \in Paths, NEW q \in Paths, Rename(p, q) PROVE Distinct'
  BY <1>1, <1>4 DEF Distinct, Rename
<1>5. ASSUME NEW c \in Clients, MvRename(c), file[job[c].old] # None PROVE Distinct'
  <2>1. job[c].old \in Paths /\ job[c].new \in Paths
    BY <1>5, Apart, TypeParts DEF HandOK, Handling, MvRename
  <2> QED
    BY <1>4, <1>5, <2>1 DEF MvRename
<1> QED
  BY <1>2, <1>3, <1>4, <1>5, FileSteps DEF MoveFile

LEMMA GoneBlankStep ==
  ASSUME TypeOK, GoneBlank, [Next]_vars PROVE GoneBlank'
<1>1. text \in [Notes -> [Docs -> Paths \cup {None}]]
  BY DEF TypeOK
<1>2. CASE UNCHANGED <<notes, text>>
  BY <1>2 DEF GoneBlank
<1>3. ASSUME NEW n \in Notes, NEW p \in Paths, AddLink(n, p) PROVE GoneBlank'
  BY <1>1, <1>3 DEF GoneBlank, AddLink
<1>4. ASSUME NEW n \in Notes, DeleteNote(n) PROVE GoneBlank'
  BY <1>1, <1>4 DEF GoneBlank, DeleteNote
<1>5. ASSUME NEW a \in Actors, WriteNote(a) PROVE GoneBlank'
  BY <1>1, <1>5 DEF GoneBlank, WriteNote
<1> QED
  BY <1>2, <1>3, <1>4, <1>5, NoteSteps

\* RewriteOK for one actor, and DaemonOK when it is the daemon.
HandRest(a) ==
    /\ job[a].pc \in {"rewrite", "write"} => job[a].todo \subseteq Vault
    /\ job[a].pc = "write" => job[a].note \in Vault
    /\ a = Daemon => /\ job[a].pc = "idle" => batch = <<>>
                     /\ job[a].pc # "idle" => job[a].kind = "daemon"
                                              /\ job[a].pc \notin {"rename", "record"}

LEMMA RestParts ==
  RewriteOK /\ DaemonOK <=> \A a \in Actors : HandRest(a)
BY DEF RewriteOK, DaemonOK, HandRest, Actors

LEMMA OthersRest ==
  ASSUME \A b \in Actors : HandRest(b), NEW a \in Actors,
         \A b \in Actors \ {a} : Kept(b), HandRest(a)', a # Daemon => batch' = batch
  PROVE  \A b \in Actors : HandRest(b)'
BY DEF HandRest, Kept, Same

LEMMA AllRest ==
  ASSUME \A b \in Actors : HandRest(b), \A b \in Actors : Kept(b), batch' = batch
  PROVE  \A b \in Actors : HandRest(b)'
BY DEF HandRest, Kept, Same

LEMMA RelinkRest ==
  ASSUME TypeOK, \A b \in Actors : HandRest(b), NEW a \in Actors, Relink(a)
  PROVE  \A b \in Actors : HandRest(b)'
<1>1. batch' = batch
  BY DEF Relink, CheckSymlink, CreateSymlink, UnlinkOld, ReadNote, WriteNote, UpdateEdges, inbox
<1>2. HandRest(a)
  OBVIOUS
<1>3. a = Daemon => job[a].kind = "daemon"
  BY <1>2 DEF HandRest, Relink, CheckSymlink, CreateSymlink, UnlinkOld, ReadNote, WriteNote,
              UpdateEdges
<1>4. CASE \/ CheckSymlink(a) /\ job[a].old \notin links
           \/ CreateSymlink(a) /\ job[a].new \in links
           \/ UnlinkOld(a) /\ job[a].old \notin links
           \/ UpdateEdges(a)
  <2>1. /\ job'[a].pc \in {"choose", "pair", "idle"}
        /\ job[a].kind = "daemon" => job'[a].pc = "pair" /\ job'[a].kind = "daemon"
        /\ \A b \in Actors \ {a} : Kept(b)
    BY <1>4, RelinkTakes
  <2>2. HandRest(a)'
    BY <1>3, <2>1 DEF HandRest
  <2> QED
    BY <1>1, <2>1, <2>2, OthersRest
<1>5. CASE \/ CheckSymlink(a) /\ job[a].old \in links
           \/ CreateSymlink(a) /\ job[a].new \notin links
  <2>1. /\ job'[a].pc \in {"create", "unlink"} /\ Same(a)
        /\ \A b \in Actors \ {a} : Kept(b)
    BY <1>5, RelinkTakes
  <2>2. HandRest(a)'
    BY <1>3, <2>1 DEF HandRest, Same
  <2> QED
    BY <1>1, <2>1, <2>2, OthersRest
<1>6. CASE UnlinkOld(a) /\ job[a].old \in links
  <2>1. HandRest(a)'
    BY <1>3, <1>6, UnlinkOldTakes DEF HandRest
  <2> QED
    BY <1>1, <1>6, <2>1, UnlinkOldTakes, OthersRest
<1>7. ASSUME NEW n \in Notes, ReadNote(a, n) PROVE \A b \in Actors : HandRest(b)'
  <2>1. n \in Vault
    BY <1>2, <1>7 DEF HandRest, ReadNote
  <2>2. HandRest(a)'
    BY <1>2, <1>3, <1>7, <2>1, ReadNoteTakes DEF HandRest, ReadNote
  <2> QED
    BY <1>1, <1>7, <2>2, ReadNoteTakes, OthersRest
<1>8. CASE WriteNote(a)
  <2>1. HandRest(a)'
    BY <1>2, <1>3, <1>8, WriteNoteTakes DEF HandRest, WriteNote
  <2> QED
    BY <1>1, <1>8, <2>1, WriteNoteTakes, OthersRest
<1> QED
  BY <1>4, <1>5, <1>6, <1>7, <1>8 DEF Relink

LEMMA ClientRest ==
  ASSUME TypeOK, \A b \in Actors : HandRest(b), NEW c \in Clients,
         Command(c) \/ Work(c) \/ Crash(c)
  PROVE  \A b \in Actors : HandRest(b)'
<1>1. c \in Actors /\ c # Daemon /\ job \in [Actors -> Job]
  BY Apart, TypeParts
<1>2. batch' = batch
  BY DEF Command, MvValidate, RepairStart, MonitorSync, LinkSync, VaultSync, SyncStart,
         PruneStart, Work, MvRename, MvRecord, RepairChoose, RepairDone, SyncRead, SyncDelete,
         SyncInsert, SyncEnd, PruneFind, PruneDelete, Crash, Rename, inbox
<1>3. ASSUME \A b \in Actors \ {c} : Kept(b), job'[c].pc \notin {"rewrite", "write"}
      PROVE  \A b \in Actors : HandRest(b)'
  <2>1. HandRest(c)'
    BY <1>1, <1>3 DEF HandRest
  <2> QED
    BY <1>1, <1>2, <1>3, <2>1, OthersRest
<1>4. ASSUME NEW p \in Paths, NEW q \in Paths, MvValidate(c, p, q)
      PROVE  \A b \in Actors : HandRest(b)'
  BY <1>1, <1>3, <1>4, MvValidateTakes
<1>5. ASSUME RepairStart(c) PROVE \A b \in Actors : HandRest(b)'
  BY <1>3, <1>5, ListStartTakes
<1>6. ASSUME NEW p \in Paths, MonitorSync(c, p) PROVE \A b \in Actors : HandRest(b)'
  BY <1>1, <1>2, <1>6, AllKept, AllRest DEF MonitorSync
<1>7. ASSUME NEW S \in SUBSET Notes, NEW k \in {"link", "vault"}, SyncStart(c, S, k)
      PROVE  \A b \in Actors : HandRest(b)'
  BY <1>3, <1>7, SyncStartTakes
<1>8. ASSUME PruneStart(c) \/ PruneFind(c) PROVE \A b \in Actors : HandRest(b)'
  BY <1>3, <1>8, PruneStartTakes, PruneFindTakes
<1>9. ASSUME job' = Step(c, NoJob) PROVE \A b \in Actors : HandRest(b)'
  BY <1>1, <1>3, <1>9, EndsTakes
<1>10. ASSUME NEW pc \in {"record", "check", "insert"},
              job' = Step(c, [job[c] EXCEPT !.pc = pc])
       PROVE  \A b \in Actors : HandRest(b)'
  <2>1. pc \in PCs
    BY DEF PCs
  <2> QED
    BY <1>1, <1>3, <1>10, <2>1, GoesTakes
<1>11. ASSUME NEW p \in Paths, RepairChoose(c, p) PROVE \A b \in Actors : HandRest(b)'
  BY <1>3, <1>11, RepairChooseTakes
<1>12. ASSUME NEW n \in Notes, SyncRead(c, n) PROVE \A b \in Actors : HandRest(b)'
  BY <1>3, <1>12, SyncReadTakes
<1>13. ASSUME SyncInsert(c) PROVE \A b \in Actors : HandRest(b)'
  BY <1>3, <1>13, SyncInsertTakes
<1>14. LinkSync(c) \/ VaultSync(c) =>
        \E S \in SUBSET Notes, k \in {"link", "vault"} : SyncStart(c, S, k)
  BY SyncKinds
<1>15. ASSUME MvRename(c) \/ MvRecord(c) \/ SyncDelete(c)
       PROVE  job' = Step(c, NoJob) \/ \E pc \in {"record", "check", "insert"} :
                                         job' = Step(c, [job[c] EXCEPT !.pc = pc])
  BY <1>15 DEF MvRename, MvRecord, SyncDelete
<1>16. ASSUME RepairDone(c) \/ SyncEnd(c) \/ PruneDelete(c) \/ Crash(c)
       PROVE  job' = Step(c, NoJob)
  BY <1>16 DEF RepairDone, SyncEnd, PruneDelete, Crash
<1>17. ASSUME Command(c) PROVE \A b \in Actors : HandRest(b)'
  BY <1>4, <1>5, <1>6, <1>7, <1>8, <1>14, <1>17 DEF Command
<1>18. ASSUME Work(c) \/ Crash(c) PROVE \A b \in Actors : HandRest(b)'
  BY <1>8, <1>9, <1>10, <1>11, <1>12, <1>13, <1>15, <1>16, <1>18 DEF Work
<1> QED
  BY <1>17, <1>18

LEMMA RestStep ==
  ASSUME TypeOK, RewriteOK, DaemonOK, [Next]_vars PROVE RewriteOK' /\ DaemonOK'
<1>1. /\ \A b \in Actors : HandRest(b) /\ HandRest(Daemon)
      /\ job \in [Actors -> Job] /\ Daemon \in Actors
  BY RestParts, TypeParts DEF Actors
<1>2. ASSUME User \/ StartDaemon PROVE \A b \in Actors : HandRest(b)'
  <2>1. batch' = batch /\ job' = Disturbed
    BY <1>2 DEF User, MoveFile, DeleteFile, AddLink, DeleteNote, StartDaemon, Rename, inbox
  <2> QED
    BY <1>1, <2>1, AllKept, AllRest
<1>3. ASSUME DrainEvents PROVE \A b \in Actors : HandRest(b)'
  <2>1. HandRest(Daemon)'
    BY <1>3, ListStartTakes DEF HandRest
  <2> QED
    BY <1>1, <1>3, <2>1, ListStartTakes, OthersRest
<1>4. ASSUME NextPair PROVE \A b \in Actors : HandRest(b)'
  <2>1. HandRest(Daemon)'
    BY <1>1, <1>4, NextPairTakes DEF HandRest, NextPair
  <2> QED
    BY <1>1, <1>4, <2>1, NextPairTakes, OthersRest
<1>5. ASSUME RecordBatch \/ StopDaemon PROVE \A b \in Actors : HandRest(b)'
  <2>1. batch' = <<>> /\ job' = Step(Daemon, NoJob)
    BY <1>5 DEF RecordBatch, StopDaemon, inbox
  <2>2. HandRest(Daemon)'
    BY <1>1, <2>1, EndsTakes DEF HandRest
  <2> QED
    BY <1>1, <2>1, <2>2, EndsTakes, OthersRest
<1>6. ASSUME UNCHANGED vars PROVE \A b \in Actors : HandRest(b)'
  BY <1>1, <1>6 DEF HandRest, vars
<1>7. \A b \in Actors : HandRest(b)'
  BY <1>1, <1>2, <1>3, <1>4, <1>5, <1>6, RelinkRest, ClientRest DEF Next, Loop
<1>8. (RewriteOK /\ DaemonOK)' <=> (\A b \in Actors : HandRest(b))'
  BY DEF RewriteOK, DaemonOK, HandRest, Actors
<1> QED
  BY <1>7, <1>8

-----------------------------------------------------------------------------
(* Moves that do not meet *)

\* For the links it is all the same what the actor has done.
Steady(a) ==
    \/ job'[a].pc = job[a].pc /\ Same(a)
    \/ job[a].pc \notin {"unlink", "rewrite", "write"}
       /\ job'[a].pc \notin {"unlink", "rewrite", "write"}

\* A move stays in the same hands.
Held(a) ==
    \/ job'[a].pc = job[a].pc /\ Same(a)
    \/ Treating(a) /\ Treating(a)' /\ job'[a].old = job[a].old /\ job'[a].new = job[a].new
    \/ ~Treating(a) /\ ~Treating(a)'

LEMMA KeptHeld == ASSUME NEW a, Kept(a) PROVE Held(a) /\ Steady(a)
BY DEF Kept, Held, Steady

LEMMA HeldMoving ==
  ASSUME \A a \in Actors : Held(a), Waiting' = Waiting PROVE Moving' = Moving
<1>1. \A a \in Actors : /\ Treating(a)' <=> Treating(a)
                        /\ Treating(a) => job'[a].old = job[a].old /\ job'[a].new = job[a].new
  BY DEF Held, Same, Treating
<1>2. ASSUME NEW m PROVE m \in Moving' <=> m \in Moving
  BY <1>1 DEF Moving
<1> QED
  BY <1>2

LEMMA MovingType ==
  ASSUME TypeOK
  PROVE  \A m \in Moving : m \in Paths \X Paths /\ m[1] \in Paths /\ m[2] \in Paths
                           /\ m = <<m[1], m[2]>>
<1>1. \A i \in DOMAIN moved : moved[i] \in Paths \X Paths
  BY DEF TypeOK
<1>2. \A i \in DOMAIN batch : batch[i] \in Paths \X Paths
  BY DEF TypeOK
<1>3. \A a \in Actors : Treating(a) => job[a].old \in Paths /\ job[a].new \in Paths
  BY TypeParts DEF HandOK, Handling, Relinking, Treating
<1> QED
  BY <1>1, <1>2, <1>3 DEF Moving, Waiting

LEMMA LedQuiet ==
  ASSUME links' = links, \A p \in Paths : file'[p] = None \/ file'[p] = file[p],
         Moving' = Moving, \A a \in Actors : Steady(a), NEW n, NEW t, Led(n, t)
  PROVE  Led(n, t)'
BY DEF Led, LedBy, Steady, Same

LEMMA ApartQuiet ==
  ASSUME MovesApart, TypeOK, links' = links,
         \A p \in Paths : file'[p] = None \/ file'[p] = file[p],
         Moving' = Moving, \A a \in Actors : Steady(a)
  PROVE  MovesApart'
BY MovingType DEF MovesApart, Steady, Same, Relinking

\* Notes and drafts that nobody writes are led when their names are.
LEMMA AllLedStep ==
  ASSUME AllLed, text' = text, \A n, t : Led(n, t) => Led(n, t)',
         \A a \in Actors : job'[a].pc = "write" =>
            job[a].pc = "write" /\ job'[a].note = job[a].note /\ job'[a].draft = job[a].draft
  PROVE  AllLed'
<1>1. ASSUME NEW n \in Vault PROVE Led(n, text[n])'
  <2>1. PICK t : t = text[n]
    OBVIOUS
  <2>2. Led(n, t)'
    BY <2>1 DEF AllLed
  <2> QED
    BY <2>1, <2>2 DEF Led
<1>2. ASSUME NEW a \in Actors, job'[a].pc = "write" PROVE Led(job[a].note, job[a].draft)'
  <2>1. job[a].pc = "write" /\ job'[a].note = job[a].note /\ job'[a].draft = job[a].draft
    BY <1>2
  <2>2. PICK n, t : n = job[a].note /\ t = job[a].draft
    OBVIOUS
  <2>3. Led(n, t)'
    BY <2>1, <2>2 DEF AllLed
  <2> QED
    BY <2>1, <2>2, <2>3 DEF Led
<1> QED
  BY <1>1, <1>2 DEF AllLed

\* What leaves symlinks, notes and moves alone, and makes no new file, leaves them led.
LEMMA Quiet ==
  ASSUME TypeOK, CalmInv, calm' => calm, links' = links, text' = text,
         \A p \in Paths : file'[p] = None \/ file'[p] = file[p],
         Moving' = Moving, \A a \in Actors : Steady(a)
  PROVE  CalmInv'
<1> SUFFICES ASSUME calm' PROVE MovesApart' /\ AllLed'
  BY DEF CalmInv
<1>1. MovesApart /\ AllLed
  BY DEF CalmInv
<1>2. MovesApart'
  BY <1>1, ApartQuiet
<1>3. \A n, t : Led(n, t) => Led(n, t)'
  BY LedQuiet
<1>4. \A a \in Actors : job'[a].pc = "write" =>
        job[a].pc = "write" /\ job'[a].note = job[a].note /\ job'[a].draft = job[a].draft
  BY DEF Steady, Same
<1> QED
  BY <1>1, <1>2, <1>3, <1>4, AllLedStep

\* An actor is through with a move that is treated, or that somebody else treats.
LEMMA Leaves ==
  ASSUME TypeOK, CalmInv, UNCHANGED <<file, links, text, moved, batch>>, calm' => calm,
         NEW a \in Actors, Treating(a), ~Treating(a)', \A b \in Actors \ {a} : Kept(b),
         job[a].pc # "write", job[a].pc = "rewrite" => job[a].todo = {},
         \/ job[a].old \notin links
         \/ job[a].new \in links /\ job[a].pc # "unlink"
  PROVE  CalmInv'
<1> SUFFICES ASSUME calm' PROVE MovesApart' /\ AllLed'
  BY DEF CalmInv
<1>1. MovesApart /\ AllLed
  BY DEF CalmInv
<1>2. /\ Moving' \subseteq Moving
      /\ \A m \in Moving : m \in Moving' \/ m = <<job[a].old, job[a].new>>
      /\ \A b \in Actors \ {a} : Treating(b) => <<job[b].old, job[b].new>> \in Moving'
  <2>1. Waiting' = Waiting
    BY DEF Waiting
  <2>2. \A b \in Actors \ {a} : /\ Treating(b)' <=> Treating(b)
                                /\ job'[b].old = job[b].old /\ job'[b].new = job[b].new
    BY DEF Kept, Same, Treating
  <2> QED
    BY <2>1, <2>2 DEF Moving
<1>3. \A b \in Actors \ {a} : job'[b].pc = job[b].pc /\ Same(b)
  BY DEF Kept
<1>4. job'[a].pc \notin {"unlink", "rewrite", "write"}
  BY DEF Treating
<1>5. MovesApart'
  BY <1>1, <1>2, <1>3, <1>4, MovingType DEF MovesApart, Same, Relinking
<1>6. ASSUME NEW n, NEW t, Led(n, t) PROVE Led(n, t)'
  <2>1. SUFFICES ASSUME NEW p \in Paths, file[p] # None, t[file[p]] # None, NEW s,
                        s = t[file[p]]
                 PROVE  LedBy(n, s, p)'
    BY DEF Led
  <2>2. CASE s = p /\ p \in links
    BY <2>2 DEF LedBy
  <2>3. ASSUME <<s, p>> \in Moving, NEW b \in Actors,
               job[b].pc \in {"rewrite", "write"}, job[b].old = s, job[b].new = p,
               n \in job[b].todo \/ (job[b].pc = "write" /\ job[b].note = n)
        PROVE  /\ <<s, p>> \in Moving'
               /\ \E x \in Actors : /\ job'[x].pc \in {"rewrite", "write"}
                                    /\ job'[x].old = s /\ job'[x].new = p
                                    /\ n \in job'[x].todo
                                       \/ (job'[x].pc = "write" /\ job'[x].note = n)
    <3>1. b # a
      BY <2>3
    <3> QED
      BY <1>2, <1>3, <2>3, <3>1 DEF Treating, Same
  <2>4. ASSUME <<s, p>> \in Moving, s \in links,
               p \in links => \E b \in Actors : /\ job[b].pc = "unlink"
                                                /\ job[b].old = s /\ job[b].new = p
        PROVE  /\ <<s, p>> \in Moving'
               /\ p \in links => \E b \in Actors : /\ job'[b].pc = "unlink"
                                                   /\ job'[b].old = s /\ job'[b].new = p
    <3>1. CASE p \in links
      <4>1. PICK b \in Actors : job[b].pc = "unlink" /\ job[b].old = s /\ job[b].new = p
        BY <2>4, <3>1
      <4>2. b # a
        BY <2>4, <4>1
      <4> QED
        BY <1>2, <1>3, <4>1, <4>2 DEF Treating, Same
    <3>2. CASE p \notin links
      <4>1. <<s, p>> # <<job[a].old, job[a].new>>
        BY <2>4, <3>2
      <4> QED
        BY <1>2, <2>4, <3>2, <4>1
    <3> QED
      BY <3>1, <3>2
  <2> QED
    BY <1>6, <2>1, <2>2, <2>3, <2>4 DEF Led, LedBy
<1>7. \A b \in Actors : job'[b].pc = "write" =>
        job[b].pc = "write" /\ job'[b].note = job[b].note /\ job'[b].draft = job[b].draft
  BY <1>3, <1>4 DEF Same
<1> QED
  BY <1>1, <1>5, <1>6, <1>7, AllLedStep

\* Repair takes up a move that nobody saw.
LEMMA Joins ==
  ASSUME TypeOK, CalmInv, UNCHANGED <<file, links, text>>, \A a \in Actors : Steady(a),
         NEW p \in Paths, NEW q \in Paths, p # q, Moving' = Moving \cup {<<p, q>>},
         calm' => calm /\ file[p] = None /\ \A m \in Moving : {p, q} \cap {m[1], m[2]} = {}
  PROVE  CalmInv'
<1> SUFFICES ASSUME calm' PROVE MovesApart' /\ AllLed'
  BY DEF CalmInv
<1>1. /\ MovesApart /\ AllLed /\ file[p] = None
      /\ \A m \in Moving : p \notin {m[1], m[2]} /\ q \notin {m[1], m[2]}
  BY DEF CalmInv
<1>2. MovesApart'
  BY <1>1 DEF MovesApart, Steady, Same, Relinking
<1>3. ASSUME NEW n, NEW t, Led(n, t) PROVE Led(n, t)'
  BY <1>3 DEF Led, LedBy, Steady, Same
<1>4. \A a \in Actors : job'[a].pc = "write" =>
        job[a].pc = "write" /\ job'[a].note = job[a].note /\ job'[a].draft = job[a].draft
  BY DEF Steady, Same
<1> QED
  BY <1>1, <1>2, <1>3, <1>4, AllLedStep

\* A file moves away from its symlink.
LEMMA Moves ==
  ASSUME TypeOK, Distinct, CalmInv, UNCHANGED <<links, text>>, \A a \in Actors : Steady(a),
         NEW p \in Paths, NEW q \in Paths, file[p] # None,
         file' = [file EXCEPT ![q] = file[p], ![p] = None],
         calm' => /\ calm /\ file[q] = None /\ q \notin links
                  /\ \A m \in Moving : {p, q} \cap {m[1], m[2]} = {}
                  /\ Moving' = Moving \cup {<<p, q>>}
  PROVE  CalmInv'
<1> SUFFICES ASSUME calm' PROVE MovesApart' /\ AllLed'
  BY DEF CalmInv
<1>1. /\ MovesApart /\ AllLed /\ file[q] = None /\ q \notin links
      /\ Moving' = Moving \cup {<<p, q>>}
      /\ \A m \in Moving : p \notin {m[1], m[2]} /\ q \notin {m[1], m[2]}
  BY DEF CalmInv
<1>2. /\ p # q /\ file'[p] = None /\ file'[q] = file[p]
      /\ \A r \in Paths \ {p, q} : file'[r] = file[r]
  BY <1>1 DEF TypeOK
<1>3. MovesApart'
  <2>1. ASSUME NEW m \in Moving' PROVE m[1] # m[2] /\ file'[m[1]] = None
    <3>1. CASE m \in Moving
      <4>1. m[1] \in Paths \ {p, q} /\ m[1] # m[2] /\ file[m[1]] = None
        BY <1>1, <3>1, MovingType DEF MovesApart
      <4> QED
        BY <1>2, <4>1
    <3>2. CASE m = <<p, q>>
      BY <1>2, <3>2
    <3> QED
      BY <1>1, <2>1, <3>1, <3>2
  <2>2. \A m, k \in Moving' : m = k \/ {m[1], m[2]} \cap {k[1], k[2]} = {}
    BY <1>1 DEF MovesApart
  <2>3. /\ \A a, b \in Actors : Relinking(a)' /\ Relinking(b)' => a = b
        /\ \A a \in Actors : Relinking(a)' => job'[a].new \in links
    BY <1>1 DEF MovesApart, Steady, Same, Relinking
  <2> QED
    BY <2>1, <2>2, <2>3 DEF MovesApart
<1>4. ASSUME NEW n, NEW t, Led(n, t) PROVE Led(n, t)'
  <2>1. SUFFICES ASSUME NEW r \in Paths, file'[r] # None, t[file'[r]] # None, NEW s,
                        s = t[file'[r]]
                 PROVE  LedBy(n, s, r)'
    BY DEF Led
  <2>2. CASE r \in Paths \ {p, q}
    <3>1. file[r] # None /\ t[file[r]] # None /\ s = t[file[r]]
      BY <1>2, <2>1, <2>2
    <3>2. LedBy(n, s, r)
      BY <1>4, <3>1 DEF Led
    <3> QED
      BY <1>1, <3>2 DEF LedBy, Steady, Same
  <2>3. CASE r = q
    <3>1. file[p] # None /\ t[file[p]] # None /\ s = t[file[p]]
      BY <1>2, <2>1, <2>3
    <3>2. (s = p /\ p \in links) \/ <<s, p>> \in Moving
      BY <1>4, <3>1 DEF Led, LedBy
    <3>3. <<s, p>> \notin Moving
      BY <1>1
    <3>4. s = p /\ p \in links' /\ q \notin links' /\ <<p, q>> \in Moving'
      BY <1>1, <3>2, <3>3
    <3> QED
      BY <2>3, <3>4 DEF LedBy
  <2>4. r # p
    BY <1>2, <2>1
  <2> QED
    BY <2>2, <2>3, <2>4
<1>5. \A a \in Actors : job'[a].pc = "write" =>
        job[a].pc = "write" /\ job'[a].note = job[a].note /\ job'[a].draft = job[a].draft
  BY DEF Steady, Same
<1> QED
  BY <1>1, <1>3, <1>4, <1>5, AllLedStep

\* The jobs stay as they are and nothing waits for a move that did not before.
LEMMA KeptMoving ==
  ASSUME \A a \in Actors : Kept(a), UNCHANGED <<moved, batch>>
  PROVE  Moving' = Moving /\ \A a \in Actors : Steady(a)
<1>1. Waiting' = Waiting
  BY DEF Waiting
<1> QED
  BY <1>1, KeptHeld, HeldMoving

LEMMA AddLinkCalm ==
  ASSUME TypeOK, Distinct, CalmInv, NEW n \in Notes, NEW p \in Paths, AddLink(n, p)
  PROVE  CalmInv'
<1> SUFFICES ASSUME calm' PROVE MovesApart' /\ AllLed'
  BY DEF CalmInv
<1>1. /\ \A a \in Actors : Kept(a)
      /\ UNCHANGED <<moved, batch, file>>
  BY AllKept, TypeParts DEF AddLink, inbox
<1>2. Moving' = Moving /\ \A a \in Actors : Steady(a)
  BY <1>1, KeptMoving
<1>3. /\ MovesApart /\ AllLed
      /\ \A m \in Moving : p # m[1] /\ p # m[2]
  <2>1. calm /\ \A m \in Pending : p \notin {m[1], m[2]}
    BY DEF AddLink
  <2>2. Moving \subseteq Pending
    BY DEF Moving, Waiting, Pending, Treating, Handling, Relinking
  <2> QED
    BY <2>1, <2>2 DEF CalmInv
<1>4. links \subseteq links' /\ links' \subseteq links \cup {p} /\ (n \in Vault => p \in links')
  BY DEF AddLink
<1>5. MovesApart'
  BY <1>1, <1>2, <1>3, <1>4 DEF MovesApart, Steady, Same, Relinking
<1>6. ASSUME NEW k, NEW s, NEW r, LedBy(k, s, r) PROVE LedBy(k, s, r)'
  BY <1>2, <1>3, <1>4, <1>6 DEF LedBy, Steady, Same
<1>7. ASSUME NEW k, NEW t, Led(k, t) PROVE Led(k, t)'
  BY <1>1, <1>6, <1>7 DEF Led
<1>8. ASSUME NEW k \in Vault PROVE Led(k, text[k])'
  <2>1. PICK t : t = text[k]
    OBVIOUS
  <2>2. Led(k, t) /\ k \in Notes
    BY <1>3, <2>1 DEF AllLed, Vault
  <2>3. CASE k # n
    <3>1. text'[k] = t
      BY <2>1, <2>2, <2>3 DEF AddLink, TypeOK
    <3> QED
      BY <1>7, <2>2, <3>1 DEF Led
  <2>4. CASE k = n
    <3>1. PICK d : d = file[p]
      OBVIOUS
    <3>2. d \in Docs /\ text'[n] = [t EXCEPT ![d] = p] /\ t \in [Docs -> Paths \cup {None}]
      BY <2>1, <2>4, <3>1 DEF AddLink, TypeOK
    <3>3. ASSUME NEW r \in Paths, file'[r] # None, text'[k][file'[r]] # None, NEW s,
                 s = text'[k][file'[r]]
          PROVE  LedBy(k, s, r)'
      <4>1. file[r] \in Docs /\ file'[r] = file[r]
        BY <1>1, <3>3 DEF TypeOK
      <4>2. CASE file[r] = d
        <5>1. r = p
          BY <3>1, <3>3, <4>1, <4>2 DEF Distinct
        <5>2. s = p
          BY <2>4, <3>2, <3>3, <4>1, <4>2
        <5> QED
          BY <1>4, <2>4, <5>1, <5>2 DEF LedBy
      <4>3. CASE file[r] # d
        <5>1. s = t[file[r]] /\ file[r] # None /\ s # None
          BY <2>4, <3>2, <3>3, <4>1, <4>3
        <5>2. LedBy(k, s, r)
          BY <2>2, <5>1 DEF Led
        <5> QED
          BY <1>6, <5>2
      <4> QED
        BY <4>2, <4>3
    <3> QED
      BY <3>3 DEF Led
  <2> QED
    BY <2>3, <2>4
<1>9. ASSUME NEW a \in Actors, job'[a].pc = "write" PROVE Led(job[a].note, job[a].draft)'
  <2>1. job[a].pc = "write" /\ job'[a].note = job[a].note /\ job'[a].draft = job[a].draft
    BY <1>1, <1>9 DEF Kept, Same
  <2>2. PICK k, t : k = job[a].note /\ t = job[a].draft
    OBVIOUS
  <2>3. Led(k, t)'
    BY <1>3, <1>7, <2>1, <2>2 DEF AllLed
  <2> QED
    BY <2>1, <2>2, <2>3 DEF Led
<1> QED
  BY <1>5, <1>8, <1>9 DEF AllLed

LEMMA DeleteNoteCalm ==
  ASSUME TypeOK, CalmInv, NEW n \in Notes, DeleteNote(n)
  PROVE  CalmInv'
<1> SUFFICES ASSUME calm' PROVE MovesApart' /\ AllLed'
  BY DEF CalmInv
<1>1. /\ \A a \in Actors : Kept(a)
      /\ UNCHANGED <<moved, batch, file, links, calm>>
  BY AllKept, TypeParts DEF DeleteNote, inbox
<1>2. Moving' = Moving /\ \A a \in Actors : Steady(a)
  BY <1>1, KeptMoving
<1>3. MovesApart /\ AllLed
  BY <1>1 DEF CalmInv
<1>4. MovesApart'
  BY <1>1, <1>2, <1>3, ApartQuiet
<1>5. \A k, t : Led(k, t) => Led(k, t)'
  BY <1>1, <1>2, LedQuiet
<1>6. ASSUME NEW k \in Vault PROVE Led(k, text[k])'
  <2>1. CASE k # n
    <3>1. PICK t : t = text[k]
      OBVIOUS
    <3>2. text'[k] = t
      BY <2>1, <3>1 DEF DeleteNote, TypeOK, Vault
    <3>3. Led(k, t)'
      BY <1>3, <1>5, <3>1 DEF AllLed
    <3> QED
      BY <3>2, <3>3 DEF Led
  <2>2. CASE k = n
    <3>1. text'[k] = NoLinks /\ file' \in [Paths -> Docs \cup {None}]
      BY <1>1, <2>2 DEF DeleteNote, TypeOK
    <3> QED
      BY <3>1 DEF Led, NoLinks
  <2> QED
    BY <2>1, <2>2
<1>7. ASSUME NEW a \in Actors, job'[a].pc = "write" PROVE Led(job[a].note, job[a].draft)'
  <2>1. job[a].pc = "write" /\ job'[a].note = job[a].note /\ job'[a].draft = job[a].draft
    BY <1>1, <1>7 DEF Kept, Same
  <2>2. PICK k, t : k = job[a].note /\ t = job[a].draft
    OBVIOUS
  <2>3. Led(k, t)'
    BY <1>3, <1>5, <2>1, <2>2 DEF AllLed
  <2> QED
    BY <2>1, <2>2, <2>3 DEF Led
<1> QED
  BY <1>4, <1>6, <1>7 DEF AllLed

LEMMA HolderMoving ==
  ASSUME NEW a \in Actors, \A b \in Actors \ {a} : Kept(b), Treating(a), Treating(a)',
         job'[a].old = job[a].old, job'[a].new = job[a].new, UNCHANGED <<moved, batch>>
  PROVE  Moving' = Moving /\ <<job[a].old, job[a].new>> \in Moving
<1>1. Waiting' = Waiting
  BY DEF Waiting
<1>2. \A b \in Actors : Held(b)
  BY KeptHeld DEF Held
<1> QED
  BY <1>1, <1>2, HeldMoving DEF Moving

LEMMA CreateSymlinkCalm ==
  ASSUME TypeOK, CalmInv, NEW a \in Actors, CreateSymlink(a), job[a].new \notin links
  PROVE  CalmInv'
<1> SUFFICES ASSUME calm' PROVE MovesApart' /\ AllLed'
  BY DEF CalmInv
<1>1. /\ job[a].pc = "create" /\ job'[a].pc = "unlink" /\ Same(a)
      /\ \A b \in Actors \ {a} : Kept(b)
      /\ links' = links \cup {job[a].new}
      /\ UNCHANGED <<moved, batch, file, text>>
  BY RelinkTakes DEF CreateSymlink, inbox
<1>2. calm /\ \A b \in Actors \ {a} : ~Relinking(b)
  BY DEF CreateSymlink
<1>3. MovesApart /\ AllLed
  BY <1>2 DEF CalmInv
<1>4. PICK q : q = job[a].new
  OBVIOUS
<1>5. PICK o : o = job[a].old
  OBVIOUS
<1>6. Moving' = Moving /\ <<o, q>> \in Moving
  BY <1>1, <1>4, <1>5, HolderMoving DEF Treating, Same
<1>7. MovesApart'
  <2>1. \A b \in Actors : Relinking(b)' => b = a
    BY <1>1, <1>2 DEF Kept, Relinking
  <2> QED
    BY <1>1, <1>3, <1>6, <2>1 DEF MovesApart, Same
<1>8. ASSUME NEW n, NEW s, NEW p, LedBy(n, s, p) PROVE LedBy(n, s, p)'
  <2>1. CASE s = p /\ p \in links
    BY <1>1, <2>1 DEF LedBy
  <2>2. CASE <<s, p>> \in Moving /\ p = q
    <3>1. s = o
      BY <1>3, <1>6, <2>2 DEF MovesApart
    <3>2. s \in links
      BY <1>2, <1>8, <1>1, <2>2 DEF LedBy, Relinking
    <3> QED
      BY <1>1, <1>4, <1>5, <1>6, <2>2, <3>1, <3>2 DEF LedBy, Same
  <2>3. CASE <<s, p>> \in Moving /\ p # q
    BY <1>1, <1>2, <1>4, <1>6, <1>8, <2>3 DEF LedBy, Relinking
  <2> QED
    BY <1>8, <2>1, <2>2, <2>3 DEF LedBy
<1>9. \A n, t : Led(n, t) => Led(n, t)'
  BY <1>1, <1>8 DEF Led
<1>10. \A b \in Actors : job'[b].pc = "write" =>
        job[b].pc = "write" /\ job'[b].note = job[b].note /\ job'[b].draft = job[b].draft
  BY <1>1 DEF Kept, Same
<1> QED
  BY <1>1, <1>3, <1>7, <1>9, <1>10, AllLedStep

LEMMA UnlinkOldCalm ==
  ASSUME TypeOK, CalmInv, GoneBlank, NEW a \in Actors, UnlinkOld(a), job[a].old \in links
  PROVE  CalmInv'
<1> SUFFICES ASSUME calm' PROVE MovesApart' /\ AllLed'
  BY DEF CalmInv
<1>1. /\ job[a].pc = "unlink" /\ job'[a].pc = "rewrite"
      /\ job'[a].old = job[a].old /\ job'[a].new = job[a].new
      /\ job'[a].todo = notes \cap Vault
      /\ \A b \in Actors \ {a} : Kept(b)
      /\ links' = links \ {job[a].old}
      /\ UNCHANGED <<moved, batch, file, text, calm>>
  BY UnlinkOldTakes DEF UnlinkOld, inbox
<1>2. MovesApart /\ AllLed
  BY <1>1 DEF CalmInv
<1>3. PICK q : q = job[a].new
  OBVIOUS
<1>4. PICK o : o = job[a].old
  OBVIOUS
<1>5. Moving' = Moving /\ <<o, q>> \in Moving
  BY <1>1, <1>3, <1>4, HolderMoving DEF Treating
<1>6. /\ o # q /\ file[o] = None /\ q \in links
      /\ \A m \in Moving : m = <<o, q>> \/ (m[1] # o /\ m[2] # o)
  BY <1>1, <1>2, <1>3, <1>4, <1>5 DEF MovesApart, Relinking
<1>7. \A b \in Actors : Relinking(b)' => b = a
  BY <1>1, <1>2 DEF Kept, Relinking, MovesApart
<1>8. MovesApart'
  BY <1>1, <1>2, <1>3, <1>4, <1>5, <1>6, <1>7 DEF MovesApart
<1>9. ASSUME NEW n \in notes \cap Vault, NEW s, NEW p, file[p] # None, LedBy(n, s, p)
      PROVE  LedBy(n, s, p)'
  <2>1. CASE s = p /\ p \in links
    <3>1. p # o
      BY <1>6, <1>9
    <3> QED
      BY <1>1, <1>4, <2>1, <3>1 DEF LedBy
  <2>2. CASE <<s, p>> \in Moving /\ <<s, p>> = <<o, q>>
    BY <1>1, <1>3, <1>4, <1>5, <1>9, <2>2 DEF LedBy
  <2>3. CASE <<s, p>> \in Moving /\ <<s, p>> # <<o, q>>
    <3>1. s # o /\ p # o /\ s # p
      BY <1>2, <1>6, <2>3 DEF MovesApart
    <3>2. \A b \in Actors : Relinking(b) => b = a
      BY <1>1, <1>2 DEF MovesApart, Relinking
    <3>3. s \in links /\ p \notin links
      BY <1>1, <1>3, <1>4, <1>9, <2>3, <3>1, <3>2 DEF LedBy, Relinking
    <3> QED
      BY <1>1, <1>4, <1>5, <2>3, <3>1, <3>3 DEF LedBy
  <2> QED
    BY <1>9, <2>1, <2>2, <2>3 DEF LedBy
<1>10. ASSUME NEW n \in Vault PROVE Led(n, text[n])'
  <2>1. CASE n \in notes
    <3>1. PICK t : t = text[n]
      OBVIOUS
    <3>2. Led(n, t)
      BY <1>2, <3>1 DEF AllLed
    <3>3. Led(n, t)'
      BY <1>1, <1>9, <2>1, <3>2 DEF Led
    <3> QED
      BY <1>1, <3>1, <3>3 DEF Led
  <2>2. CASE n \notin notes
    <3>1. text'[n] = NoLinks /\ file' \in [Paths -> Docs \cup {None}]
      BY <1>1, <2>2 DEF GoneBlank, TypeOK, Vault
    <3> QED
      BY <3>1 DEF Led, NoLinks
  <2> QED
    BY <2>1, <2>2
<1>11. \A b \in Actors : job'[b].pc # "write"
  BY <1>1, <1>7 DEF Relinking
<1> QED
  BY <1>8, <1>10, <1>11 DEF AllLed

LEMMA ReadNoteCalm ==
  ASSUME TypeOK, CalmInv, GoneBlank, RewriteOK, NEW a \in Actors, NEW n \in Notes,
         ReadNote(a, n)
  PROVE  CalmInv'
<1> SUFFICES ASSUME calm' PROVE MovesApart' /\ AllLed'
  BY DEF CalmInv
<1>1. /\ job[a].pc = "rewrite" /\ n \in job[a].todo /\ n \in Vault
      /\ UNCHANGED <<moved, batch, file, links, text, notes, calm>>
  BY DEF ReadNote, disk, inbox, RewriteOK
<1>2. /\ job'[a].old = job[a].old /\ job'[a].new = job[a].new
      /\ job'[a].todo = job[a].todo \ {n}
      /\ \A b \in Actors \ {a} : Kept(b)
      /\ \/ job'[a].pc = "write" /\ job'[a].note = n /\ job'[a].draft = text[n]
         \/ /\ job'[a].pc = "rewrite"
            /\ n \notin notes \/ \A d \in Docs : text[n][d] # job[a].old
  BY ReadNoteTakes
<1>3. MovesApart /\ AllLed
  BY <1>1 DEF CalmInv
<1>4. Moving' = Moving
  BY <1>1, <1>2, HolderMoving DEF Treating
<1>5. /\ \A b \in Actors \ {a} : ~Relinking(b)
      /\ \A b \in Actors \ {a} : ~Relinking(b)'
  BY <1>1, <1>2, <1>3 DEF MovesApart, Relinking, Kept
<1>6. MovesApart'
  BY <1>1, <1>2, <1>3, <1>4, <1>5 DEF MovesApart, Relinking
<1>7. ASSUME NEW k, NEW s, NEW p, LedBy(k, s, p),
             k # n \/ job'[a].pc = "write" \/ s # job[a].old
      PROVE  LedBy(k, s, p)'
  <2>1. CASE s = p /\ p \in links
    BY <1>1, <2>1 DEF LedBy
  <2>2. ASSUME <<s, p>> \in Moving, s \in links, p \notin links PROVE LedBy(k, s, p)'
    BY <1>1, <1>4, <2>2 DEF LedBy
  <2>3. ASSUME <<s, p>> \in Moving, NEW b \in Actors,
               job[b].pc \in {"rewrite", "write"}, job[b].old = s, job[b].new = p,
               k \in job[b].todo \/ (job[b].pc = "write" /\ job[b].note = k)
        PROVE  LedBy(k, s, p)'
    <3>1. b = a
      BY <1>5, <2>3 DEF Relinking
    <3> QED
      BY <1>1, <1>2, <1>4, <1>7, <2>3, <3>1 DEF LedBy
  <2>4. ~ \E b \in Actors : job[b].pc = "unlink"
    BY <1>1, <1>5 DEF Relinking
  <2> QED
    BY <1>7, <2>1, <2>2, <2>3, <2>4 DEF LedBy
<1>8. ASSUME NEW k \in Vault PROVE Led(k, text[k])'
  <2>1. PICK t : t = text[k]
    OBVIOUS
  <2>2. Led(k, t)
    BY <1>3, <2>1 DEF AllLed
  <2>3. ASSUME NEW p \in Paths, file[p] # None, t[file[p]] # None, NEW s, s = t[file[p]]
        PROVE  LedBy(k, s, p)'
    <3>1. LedBy(k, s, p)
      BY <2>2, <2>3 DEF Led
    <3>2. file[p] \in Docs
      BY <2>3 DEF TypeOK
    <3>3. n \notin notes /\ k = n => s = None
      BY <1>1, <2>1, <2>3, <3>2 DEF GoneBlank, NoLinks
    <3>4. k # n \/ job'[a].pc = "write" \/ s # job[a].old
      BY <1>2, <2>1, <2>3, <3>2, <3>3
    <3> QED
      BY <1>7, <3>1, <3>4
  <2> QED
    BY <1>1, <2>1, <2>3 DEF Led
<1>9. ASSUME NEW b \in Actors, job'[b].pc = "write" PROVE Led(job[b].note, job[b].draft)'
  <2>1. b = a /\ job'[a].note = n /\ job'[a].draft = text[n]
    BY <1>2, <1>5, <1>9 DEF Relinking
  <2>2. PICK t : t = text[n]
    OBVIOUS
  <2>3. Led(n, t)
    BY <1>1, <1>3, <2>2 DEF AllLed
  <2>4. Led(n, t)'
    BY <1>1, <1>7, <1>9, <2>1, <2>3 DEF Led
  <2> QED
    BY <2>1, <2>2, <2>4 DEF Led
<1> QED
  BY <1>6, <1>8, <1>9 DEF AllLed

LEMMA WriteNoteCalm ==
  ASSUME TypeOK, CalmInv, RewriteOK, NEW a \in Actors, WriteNote(a)
  PROVE  CalmInv'
<1> SUFFICES ASSUME calm' PROVE MovesApart' /\ AllLed'
  BY DEF CalmInv
<1>1. /\ job[a].pc = "write" /\ job[a].note \in Vault
      /\ UNCHANGED <<moved, batch, file, links, calm>>
  BY DEF WriteNote, inbox, RewriteOK
<1>2. /\ job'[a].old = job[a].old /\ job'[a].new = job[a].new
      /\ job'[a].todo = job[a].todo /\ job'[a].pc = "rewrite"
      /\ \A b \in Actors \ {a} : Kept(b)
  BY WriteNoteTakes
<1>3. MovesApart /\ AllLed
  BY <1>1 DEF CalmInv
<1>4. PICK o, q, n, d : o = job[a].old /\ q = job[a].new /\ n = job[a].note /\ d = job[a].draft
  OBVIOUS
<1>5. Moving' = Moving /\ <<o, q>> \in Moving
  BY <1>1, <1>2, <1>4, HolderMoving DEF Treating
<1>6. /\ \A b \in Actors \ {a} : ~Relinking(b)
      /\ \A b \in Actors \ {a} : ~Relinking(b)'
  BY <1>1, <1>2, <1>3 DEF MovesApart, Relinking, Kept
<1>7. MovesApart'
  BY <1>1, <1>2, <1>3, <1>5, <1>6 DEF MovesApart, Relinking
<1>8. /\ file[o] = None /\ q \in links
      /\ \A m \in Moving : m[1] = o => m = <<o, q>>
  BY <1>1, <1>3, <1>4, <1>5 DEF MovesApart, Relinking
<1>9. ASSUME NEW k, NEW s, NEW p, LedBy(k, s, p), k # n \/ s # o
      PROVE  LedBy(k, s, p)'
  <2>1. CASE s = p /\ p \in links
    BY <1>1, <2>1 DEF LedBy
  <2>2. ASSUME <<s, p>> \in Moving, s \in links, p \notin links PROVE LedBy(k, s, p)'
    BY <1>1, <1>5, <2>2 DEF LedBy
  <2>3. ASSUME <<s, p>> \in Moving, NEW b \in Actors,
               job[b].pc \in {"rewrite", "write"}, job[b].old = s, job[b].new = p,
               k \in job[b].todo \/ (job[b].pc = "write" /\ job[b].note = k)
        PROVE  LedBy(k, s, p)'
    <3>1. b = a
      BY <1>6, <2>3 DEF Relinking
    <3> QED
      BY <1>1, <1>2, <1>4, <1>5, <1>9, <2>3, <3>1 DEF LedBy
  <2>4. ~ \E b \in Actors : job[b].pc = "unlink"
    BY <1>1, <1>6 DEF Relinking
  <2> QED
    BY <1>9, <2>1, <2>2, <2>3, <2>4 DEF LedBy
<1>10. ASSUME NEW k \in Vault PROVE Led(k, text[k])'
  <2>1. CASE k # n
    <3>1. PICK t : t = text[k]
      OBVIOUS
    <3>2. text'[k] = t
      BY <1>4, <2>1, <3>1 DEF WriteNote, TypeOK, Vault
    <3>3. Led(k, t)
      BY <1>3, <3>1 DEF AllLed
    <3>4. Led(k, t)'
      BY <1>1, <1>9, <2>1, <3>3 DEF Led
    <3> QED
      BY <3>2, <3>4 DEF Led
  <2>2. CASE k = n
    <3>1. PICK t : t = Substitute(d, o, q)
      OBVIOUS
    <3>2. text'[k] = t
      BY <1>1, <1>4, <2>2, <3>1 DEF WriteNote, TypeOK, Vault
    <3>3. Led(n, d)
      BY <1>1, <1>3, <1>4 DEF AllLed
    <3>4. ASSUME NEW p \in Paths, file[p] # None, t[file[p]] # None, NEW s, s = t[file[p]]
          PROVE  LedBy(k, s, p)'
      <4>1. file[p] \in Docs
        BY <3>4 DEF TypeOK
      <4>2. t[file[p]] = IF d[file[p]] = o THEN q ELSE d[file[p]]
        BY <3>1, <4>1 DEF Substitute
      <4>3. CASE d[file[p]] = o
        <5>1. o # None
          BY <1>1, <1>4, TypeParts, ConstantsAssumption DEF HandOK, Handling, Relinking
        <5>2. LedBy(n, o, p)
          BY <3>3, <3>4, <4>3, <5>1 DEF Led
        <5>3. <<o, p>> = <<o, q>>
          BY <1>8, <3>4, <5>2 DEF LedBy
        <5>4. s = q /\ p = q
          BY <3>4, <4>2, <4>3, <5>3
        <5> QED
          BY <1>1, <1>8, <5>4 DEF LedBy
      <4>4. CASE d[file[p]] # o
        <5>1. s = d[file[p]] /\ s # o /\ s # None
          BY <3>4, <4>2, <4>4
        <5>2. LedBy(n, s, p)
          BY <3>3, <3>4, <5>1 DEF Led
        <5> QED
          BY <1>9, <2>2, <5>1, <5>2
      <4> QED
        BY <4>3, <4>4
    <3>5. Led(k, t)'
      BY <1>1, <3>4 DEF Led
    <3> QED
      BY <3>2, <3>5 DEF Led
  <2> QED
    BY <2>1, <2>2
<1>11. \A b \in Actors : job'[b].pc # "write"
  BY <1>2, <1>6 DEF Relinking
<1> QED
  BY <1>7, <1>10, <1>11 DEF AllLed

LEMMA RelinkCalm ==
  ASSUME TypeOK, CalmInv, GoneBlank, RewriteOK, NEW a \in Actors, Relink(a)
  PROVE  CalmInv'
<1>1. CASE \/ CheckSymlink(a) /\ job[a].old \notin links
           \/ CreateSymlink(a) /\ job[a].new \in links
           \/ UnlinkOld(a) /\ job[a].old \notin links
           \/ UpdateEdges(a)
  <2>1. /\ job'[a].pc \in {"choose", "pair", "idle"}
        /\ \A b \in Actors \ {a} : Kept(b)
    BY <1>1, RelinkTakes
  <2>2. /\ UNCHANGED <<file, links, text, moved, batch, calm>>
        /\ job[a].pc \in {"check", "create", "unlink", "rewrite"}
        /\ job[a].pc = "rewrite" => job[a].todo = {}
    BY <1>1 DEF CheckSymlink, CreateSymlink, UnlinkOld, UpdateEdges, disk, inbox
  <2>3. CASE calm
    <3>1. \/ job[a].old \notin links
          \/ job[a].new \in links /\ job[a].pc # "unlink"
      BY <1>1, <2>3 DEF CheckSymlink, CreateSymlink, UnlinkOld, UpdateEdges, CalmInv,
                        MovesApart, Relinking
    <3> QED
      BY <2>1, <2>2, <3>1, Leaves DEF Treating
  <2>4. CASE ~calm
    BY <2>2, <2>4 DEF CalmInv
  <2> QED
    BY <2>3, <2>4
<1>2. CASE CheckSymlink(a) /\ job[a].old \in links
  <2>1. /\ job'[a].pc = "create" /\ Same(a) /\ job[a].pc = "check"
        /\ \A b \in Actors \ {a} : Kept(b)
        /\ UNCHANGED <<file, links, text, moved, batch, calm>>
    BY <1>2, RelinkTakes DEF CheckSymlink, disk, inbox
  <2>2. Moving' = Moving
    BY <2>1, HolderMoving DEF Treating, Same
  <2>3. \A b \in Actors : Steady(b)
    BY <2>1, KeptHeld DEF Steady
  <2> QED
    BY <2>1, <2>2, <2>3, Quiet
<1>3. CASE CreateSymlink(a) /\ job[a].new \notin links
  BY <1>3, CreateSymlinkCalm
<1>4. CASE UnlinkOld(a) /\ job[a].old \in links
  BY <1>4, UnlinkOldCalm
<1>5. ASSUME NEW n \in Notes, ReadNote(a, n) PROVE CalmInv'
  BY <1>5, ReadNoteCalm
<1>6. CASE WriteNote(a)
  BY <1>6, WriteNoteCalm
<1> QED
  BY <1>1, <1>2, <1>3, <1>4, <1>5, <1>6 DEF Relink

\* A client's step that moves nothing.
LEMMA ClientQuiet ==
  ASSUME TypeOK, CalmInv, NEW c \in Clients, \A b \in Actors \ {c} : Kept(b),
         UNCHANGED <<file, links, text, moved, batch>>, calm' => calm,
         ~Treating(c), ~Treating(c)'
  PROVE  CalmInv'
<1>1. Waiting' = Waiting
  BY DEF Waiting
<1>2. \A b \in Actors : Held(b) /\ Steady(b)
  BY KeptHeld DEF Held, Steady, Treating
<1> QED
  BY <1>1, <1>2, HeldMoving, Quiet

LEMMA CommandCalm ==
  ASSUME TypeOK, CalmInv, NEW c \in Clients, Command(c) PROVE CalmInv'
<1>1. c \in Actors /\ job \in [Actors -> Job]
  BY Apart, TypeParts
<1>2. UNCHANGED <<file, links, text, moved, batch, calm>>
  BY DEF Command, MvValidate, RepairStart, MonitorSync, LinkSync, VaultSync, SyncStart,
         PruneStart, disk, inbox
<1>3. ASSUME NEW p \in Paths, MonitorSync(c, p) PROVE CalmInv'
  <2>1. \A b \in Actors : Kept(b)
    BY <1>1, <1>3, AllKept DEF MonitorSync
  <2> QED
    BY <1>2, <2>1, KeptMoving, Quiet
<1>4. ASSUME job[c].pc = "idle", \A b \in Actors \ {c} : Kept(b),
             job'[c].pc \in {"rename", "choose", "sync", "find"}
      PROVE  CalmInv'
  BY <1>2, <1>4, ClientQuiet DEF Treating
<1>5. job[c].pc = "idle"
  BY DEF Command, MvValidate, RepairStart, MonitorSync, LinkSync, VaultSync, SyncStart,
         PruneStart, Begin
<1> QED
  BY <1>3, <1>4, <1>5, MvValidateTakes, ListStartTakes, SyncKinds, SyncStartTakes,
     PruneStartTakes, <1>1 DEF Command

LEMMA OnMovedWaits ==
  ASSUME moved \in Seq(Paths \X Paths), NEW p, NEW q,
         \A i \in DOMAIN moved : moved[i][1] # p, NEW s, s = OnMoved(p, q)
  PROVE  {s[i] : i \in DOMAIN s} = {moved[i] : i \in DOMAIN moved} \cup {<<p, q>>}
<1>1. s = Append(moved, <<p, q>>)
  BY DEF OnMoved
<1>2. PICK n \in Nat : n = Len(moved)
  OBVIOUS
<1>3. DOMAIN moved = 1..n /\ DOMAIN s = 1..(n + 1) /\ s[n + 1] = <<p, q>>
      /\ \A i \in 1..n : s[i] = moved[i]
  BY <1>1, <1>2
<1>4. \A i \in 1..(n + 1) : i \in 1..n \/ i = n + 1
  OBVIOUS
<1>5. ASSUME NEW i \in DOMAIN s
      PROVE  s[i] \in {moved[j] : j \in DOMAIN moved} \cup {<<p, q>>}
  <2>1. CASE i \in 1..n
    BY <1>3, <2>1
  <2>2. CASE i = n + 1
    BY <1>3, <2>2
  <2> QED
    BY <1>3, <1>4, <1>5, <2>1, <2>2
<1>6. ASSUME NEW j \in DOMAIN moved PROVE moved[j] \in {s[i] : i \in DOMAIN s}
  BY <1>2, <1>3, <1>6
<1>7. <<p, q>> \in {s[i] : i \in DOMAIN s}
  <2>1. n + 1 \in DOMAIN s
    BY <1>2, <1>3
  <2> QED
    BY <1>3, <2>1
<1> QED
  BY <1>5, <1>6, <1>7

\* A move that nobody else's meets is one more to treat.
LEMMA RenameCalm ==
  ASSUME TypeOK, Distinct, CalmInv, NEW p \in Paths, NEW q \in Paths, Rename(p, q),
         file[p] # None, UNCHANGED <<links, text>>, \A a \in Actors : Steady(a),
         calm' => /\ calm /\ file[q] = None /\ q \notin links
                  /\ \A m \in Pending \ {<<p, q>>} : {p, q} \cap {m[1], m[2]} = {},
         \/ up /\ \A a \in Actors : Held(a)
         \/ \E c \in Actors : /\ \A a \in Actors \ {c} : Held(a)
                              /\ ~Treating(c) /\ Treating(c)'
                              /\ job'[c].old = p /\ job'[c].new = q
  PROVE  CalmInv'
<1>1. ASSUME calm', NEW m \in Moving PROVE {p, q} \cap {m[1], m[2]} = {}
  <2>1. m \in Pending
    BY <1>1 DEF Moving, Waiting, Pending, Treating, Handling, Relinking
  <2>2. m # <<p, q>>
    BY <1>1 DEF CalmInv, MovesApart
  <2> QED
    BY <1>1, <2>1, <2>2
<1>2. ASSUME calm' PROVE \A i \in DOMAIN moved : moved[i][1] # p
  BY <1>1, <1>2 DEF Moving, Waiting
<1>3. ASSUME calm', up PROVE Waiting' = Waiting \cup {<<p, q>>}
  <2>1. moved' = OnMoved(p, q) /\ batch' = batch
    BY <1>3 DEF Rename
  <2>2. PICK s : s = OnMoved(p, q)
    OBVIOUS
  <2>3. {s[i] : i \in DOMAIN s} = {moved[i] : i \in DOMAIN moved} \cup {<<p, q>>}
    <3>1. moved \in Seq(Paths \X Paths) /\ \A i \in DOMAIN moved : moved[i][1] # p
      BY <1>2, <1>3 DEF TypeOK
    <3> QED
      BY <2>2, <3>1, OnMovedWaits
  <2>4. moved' = s
    BY <2>1, <2>2
  <2> QED
    BY <2>1, <2>3, <2>4 DEF Waiting
<1>4. ASSUME ~up PROVE Waiting' = Waiting
  BY <1>4 DEF Rename, Waiting
<1>5. ASSUME calm' PROVE Moving' = Moving \cup {<<p, q>>}
  <2>1. CASE up /\ \A a \in Actors : Held(a)
    <3>1. \A a \in Actors : /\ Treating(a)' <=> Treating(a)
                            /\ Treating(a) => job'[a].old = job[a].old /\ job'[a].new = job[a].new
      BY <2>1 DEF Held, Same, Treating
    <3>2. Waiting' = Waiting \cup {<<p, q>>}
      BY <1>3, <1>5, <2>1
    <3> QED
      BY <3>1, <3>2 DEF Moving
  <2>2. ASSUME NEW c \in Actors, \A a \in Actors \ {c} : Held(a),
               ~Treating(c), Treating(c)', job'[c].old = p, job'[c].new = q
        PROVE  Moving' = Moving \cup {<<p, q>>}
    <3>1. \A a \in Actors \ {c} :
            /\ Treating(a)' <=> Treating(a)
            /\ Treating(a) => job'[a].old = job[a].old /\ job'[a].new = job[a].new
      BY <2>2 DEF Held, Same, Treating
    <3>2. Waiting' \subseteq Waiting \cup {<<p, q>>} /\ Waiting \subseteq Waiting'
      BY <1>3, <1>4, <1>5
    <3>3. ASSUME NEW m PROVE m \in Moving' <=> m \in Moving \/ m = <<p, q>>
      BY <2>2, <3>1, <3>2 DEF Moving
    <3> QED
      BY <3>3
  <2> QED
    BY <2>1, <2>2
<1> QED
  BY <1>1, <1>5, Moves DEF Rename

LEMMA UserCalm ==
  ASSUME TypeOK, Distinct, CalmInv, User PROVE CalmInv'
<1>1. job \in [Actors -> Job]
  BY TypeParts
<1>2. ASSUME NEW p \in Paths, NEW q \in Paths, MoveFile(p, q) PROVE CalmInv'
  <2>1. \A a \in Actors : Kept(a)
    BY <1>1, <1>2, AllKept DEF MoveFile
  <2>2. /\ Rename(p, q) /\ file[p] # None /\ file[q] = None /\ UNCHANGED <<links, text>>
    BY <1>2 DEF MoveFile
  <2>3. ASSUME calm'
        PROVE  /\ calm /\ up /\ q \notin links
               /\ \A m \in Pending : {p, q} \cap {m[1], m[2]} = {}
    BY <1>2, <2>3 DEF MoveFile, Meets
  <2>4. \A a \in Actors : Held(a) /\ Steady(a)
    BY <2>1, KeptHeld
  <2>5. CASE up
    BY <2>2, <2>3, <2>4, <2>5, RenameCalm
  <2>6. CASE ~up
    BY <2>3, <2>6 DEF CalmInv
  <2> QED
    BY <2>5, <2>6
<1>3. ASSUME NEW p \in Paths, DeleteFile(p) PROVE CalmInv'
  <2>1. \A a \in Actors : Kept(a)
    BY <1>1, <1>3, AllKept DEF DeleteFile
  <2>2. /\ UNCHANGED <<links, text, moved, batch, calm>>
        /\ \A r \in Paths : file'[r] = None \/ file'[r] = file[r]
    BY <1>3 DEF DeleteFile, TypeOK
  <2> QED
    BY <2>1, <2>2, KeptMoving, Quiet
<1> QED
  BY <1>2, <1>3, AddLinkCalm, DeleteNoteCalm DEF User

LEMMA WorkCalm ==
  ASSUME TypeOK, Distinct, CalmInv, NEW c \in Clients, Work(c) \/ Crash(c) PROVE CalmInv'
<1>1. c \in Actors /\ job \in [Actors -> Job] /\ HandOK(c)
  BY Apart, TypeParts
<1>2. CASE MvRename(c) /\ file[job[c].old] # None
  <2>1. PICK p \in Paths, q \in Paths : p = job[c].old /\ q = job[c].new
    BY <1>1, <1>2 DEF HandOK, Handling, MvRename
  <2>2. /\ Rename(p, q) /\ file[p] # None /\ UNCHANGED <<links, text>>
        /\ job' = Step(c, [job[c] EXCEPT !.pc = "record"]) /\ job[c].pc = "rename"
    BY <1>2, <2>1 DEF MvRename
  <2>3. "record" \in PCs
    BY DEF PCs
  <2>4. job'[c].pc = "record" /\ Same(c) /\ \A b \in Actors \ {c} : Kept(b)
    BY <1>1, <2>2, <2>3, GoesTakes
  <2>5. ASSUME calm'
        PROVE  /\ calm /\ file[q] = None /\ q \notin links
               /\ \A m \in Pending \ {<<p, q>>} : {p, q} \cap {m[1], m[2]} = {}
    BY <1>2, <2>1, <2>5 DEF MvRename
  <2>6. /\ \A a \in Actors \ {c} : Held(a)
        /\ \A a \in Actors : Steady(a)
        /\ ~Treating(c) /\ Treating(c)' /\ job'[c].old = p /\ job'[c].new = q
    BY <2>1, <2>2, <2>4, KeptHeld DEF Steady, Same, Treating
  <2> QED
    BY <1>1, <2>2, <2>5, <2>6, RenameCalm
<1>3. CASE MvRename(c) /\ file[job[c].old] = None
  <2>1. /\ UNCHANGED <<file, links, text, moved, batch, calm>>
        /\ job' = Step(c, NoJob) /\ job[c].pc = "rename"
    BY <1>3 DEF MvRename, inbox
  <2> QED
    BY <1>1, <2>1, EndsTakes, ClientQuiet DEF Treating
<1>4. CASE MvRecord(c)
  <2>1. /\ UNCHANGED <<file, links, text, moved, batch, calm>>
        /\ job' = Step(c, [job[c] EXCEPT !.pc = "check"]) /\ job[c].pc = "record"
        /\ "check" \in PCs
    BY <1>4 DEF MvRecord, disk, inbox, PCs
  <2>2. job'[c].pc = "check" /\ Same(c) /\ \A b \in Actors \ {c} : Kept(b)
    BY <1>1, <2>1, GoesTakes
  <2>3. Moving' = Moving
    BY <1>1, <2>1, <2>2, HolderMoving DEF Treating, Same
  <2>4. \A b \in Actors : Steady(b)
    BY <2>1, <2>2, KeptHeld DEF Steady
  <2> QED
    BY <2>1, <2>3, <2>4, Quiet
<1>5. ASSUME NEW p \in Paths, RepairChoose(c, p) PROVE CalmInv'
  <2>1. /\ UNCHANGED <<file, links, text, moved, batch>> /\ job[c].pc = "choose"
        /\ \A b \in Actors \ {c} : Kept(b)
    BY <1>5, RepairChooseTakes DEF RepairChoose, disk, inbox
  <2>2. CASE job'[c].pc = "choose" /\ UNCHANGED calm
    BY <2>1, <2>2, ClientQuiet DEF Treating
  <2>3. ASSUME NEW q \in Paths, q # p,
               job'[c].pc = "check", job'[c].old = p, job'[c].new = q,
               calm' => calm /\ file[p] = None
                        /\ \A m \in Pending : {p, q} \cap {m[1], m[2]} = {}
        PROVE  CalmInv'
    <3>1. Waiting' = Waiting
      BY <2>1 DEF Waiting
    <3>2. \A a \in Actors \ {c} :
            /\ Treating(a)' <=> Treating(a)
            /\ job'[a].old = job[a].old /\ job'[a].new = job[a].new
      BY <2>1 DEF Kept, Same, Treating
    <3>3. ASSUME NEW m PROVE m \in Moving' <=> m \in Moving \/ m = <<p, q>>
      BY <1>1, <2>1, <2>3, <3>1, <3>2 DEF Moving, Treating
    <3>4. Moving \subseteq Pending
      BY DEF Moving, Waiting, Pending, Treating, Handling, Relinking
    <3>5. \A b \in Actors : Steady(b)
      BY <2>1, <2>3, KeptHeld DEF Steady
    <3>6. Moving' = Moving \cup {<<p, q>>}
      BY <3>3
    <3> QED
      BY <2>1, <2>3, <3>4, <3>5, <3>6, Joins
  <2> QED
    BY <1>5, <2>2, <2>3, RepairChooseTakes
<1>6. CASE RepairDone(c) \/ SyncEnd(c) \/ PruneDelete(c)
  <2>1. /\ UNCHANGED <<file, links, text, moved, batch, calm>>
        /\ job' = Step(c, NoJob) /\ job[c].pc \in {"choose", "sync", "prune"}
    BY <1>6 DEF RepairDone, SyncEnd, PruneDelete, disk, inbox
  <2> QED
    BY <1>1, <2>1, EndsTakes, ClientQuiet DEF Treating
<1>7. CASE Crash(c)
  <2>1. /\ UNCHANGED <<file, links, text, moved, batch>>
        /\ job' = Step(c, NoJob) /\ (calm' => calm /\ ~Handling(c))
    BY <1>7 DEF Crash, disk, inbox
  <2>2. CASE ~Handling(c)
    BY <1>1, <2>1, <2>2, EndsTakes, ClientQuiet DEF Treating, Handling, Relinking
  <2>3. CASE Handling(c)
    BY <2>1, <2>3 DEF CalmInv
  <2> QED
    BY <2>2, <2>3
<1>8. ASSUME NEW n \in Notes, SyncRead(c, n) PROVE CalmInv'
  <2>1. /\ UNCHANGED <<file, links, text, moved, batch, calm>> /\ job[c].pc = "sync"
    BY <1>8 DEF SyncRead, disk, inbox
  <2> QED
    BY <1>8, <2>1, SyncReadTakes, ClientQuiet DEF Treating
<1>9. CASE SyncDelete(c)
  <2>1. /\ UNCHANGED <<file, links, text, moved, batch, calm>>
        /\ job' = Step(c, [job[c] EXCEPT !.pc = "insert"]) /\ job[c].pc = "delete"
        /\ "insert" \in PCs
    BY <1>9 DEF SyncDelete, disk, inbox, PCs
  <2> QED
    BY <1>1, <2>1, GoesTakes, ClientQuiet DEF Treating
<1>10. CASE SyncInsert(c) \/ PruneFind(c)
  <2>1. /\ UNCHANGED <<file, links, text, moved, batch, calm>>
        /\ job[c].pc \in {"insert", "find"}
    BY <1>10 DEF SyncInsert, PruneFind, disk, inbox
  <2> QED
    BY <1>10, <2>1, SyncInsertTakes, PruneFindTakes, ClientQuiet DEF Treating
<1> QED
  BY <1>2, <1>3, <1>4, <1>5, <1>6, <1>7, <1>8, <1>9, <1>10 DEF Work

LEMMA HeadTail ==
  ASSUME NEW S, NEW s \in Seq(S), s # <<>>
  PROVE  {s[i] : i \in DOMAIN s} = {Tail(s)[i] : i \in DOMAIN Tail(s)} \cup {Head(s)}
<1>1. PICK n \in Nat : n + 1 = Len(s)
  <2>1. Len(s) \in Nat /\ Len(s) # 0
    OBVIOUS
  <2> QED
    BY <2>1
<1>2. PICK t : t = Tail(s)
  OBVIOUS
<1>3. /\ DOMAIN s = 1..(n + 1) /\ DOMAIN t = 1..n /\ Head(s) = s[1]
      /\ \A i \in 1..n : t[i] = s[i + 1]
  BY <1>1, <1>2
<1>4. \A i \in 1..(n + 1) : i = 1 \/ (i - 1 \in 1..n /\ (i - 1) + 1 = i)
  BY <1>1
<1>5. ASSUME NEW i \in DOMAIN s PROVE s[i] \in {t[j] : j \in DOMAIN t} \cup {Head(s)}
  <2>1. CASE i = 1
    BY <1>3, <2>1
  <2>2. CASE i - 1 \in 1..n /\ (i - 1) + 1 = i
    <3>1. t[i - 1] = s[i] /\ i - 1 \in DOMAIN t
      BY <1>3, <2>2
    <3> QED
      BY <3>1
  <2> QED
    BY <1>3, <1>4, <1>5, <2>1, <2>2
<1>6. ASSUME NEW j \in DOMAIN t PROVE t[j] \in {s[i] : i \in DOMAIN s}
  <2>1. j + 1 \in 1..(n + 1)
    BY <1>1, <1>3, <1>6
  <2> QED
    BY <1>3, <1>6, <2>1
<1>7. Head(s) \in {s[i] : i \in DOMAIN s}
  BY <1>1, <1>3
<1> QED
  BY <1>2, <1>5, <1>6, <1>7

LEMMA LoopCalm ==
  ASSUME TypeOK, DaemonOK, CalmInv, Loop \/ StopDaemon \/ StartDaemon PROVE CalmInv'
<1>1. Daemon \in Actors /\ job \in [Actors -> Job]
  BY TypeParts DEF Actors
<1>2. CASE DrainEvents
  <2>1. /\ UNCHANGED <<file, links, text, calm>> /\ job[Daemon].pc = "idle"
        /\ batch = <<>> /\ batch' = moved /\ moved' = <<>>
    BY <1>2 DEF DrainEvents, DaemonIdle, DaemonOK, disk
  <2>2. Waiting' = Waiting
    BY <2>1 DEF Waiting
  <2>3. job'[Daemon].pc = "pair" /\ \A b \in Actors \ {Daemon} : Kept(b)
    BY <1>2, ListStartTakes
  <2>4. \A b \in Actors : Held(b) /\ Steady(b)
    BY <2>1, <2>3, KeptHeld DEF Held, Steady, Treating
  <2> QED
    BY <2>1, <2>2, <2>4, HeldMoving, Quiet
<1>3. CASE NextPair
  <2>1. /\ UNCHANGED <<file, links, text, moved, calm>> /\ job[Daemon].pc = "pair"
        /\ batch # <<>> /\ batch' = Tail(batch)
    BY <1>3 DEF NextPair, disk
  <2>2. /\ job'[Daemon].pc = "check"
        /\ <<job'[Daemon].old, job'[Daemon].new>> = Head(batch)
        /\ \A b \in Actors \ {Daemon} : Kept(b)
    BY <1>3, NextPairTakes
  <2>3. {batch[i] : i \in DOMAIN batch}
          = {batch'[i] : i \in DOMAIN batch'} \cup {Head(batch)}
    BY <2>1, HeadTail DEF TypeOK
  <2>4. \A a \in Actors \ {Daemon} :
          /\ Treating(a)' <=> Treating(a)
          /\ job'[a].old = job[a].old /\ job'[a].new = job[a].new
    BY <2>2 DEF Kept, Same, Treating
  <2>5. ASSUME NEW m PROVE m \in Moving' <=> m \in Moving
    <3>1. PICK h : h = Head(batch)
      OBVIOUS
    <3>2. m \in Waiting <=> m \in Waiting' \/ m = h
      BY <2>1, <2>3, <3>1 DEF Waiting
    <3>3. /\ ~Treating(Daemon) /\ Treating(Daemon)'
          /\ h = <<job'[Daemon].old, job'[Daemon].new>>
      BY <2>1, <2>2, <3>1 DEF Treating
    <3> QED
      BY <1>1, <2>4, <3>2, <3>3 DEF Moving
  <2>6. Moving' = Moving
    BY <2>5
  <2>7. \A b \in Actors : Steady(b)
    BY <2>1, <2>2, KeptHeld DEF Steady
  <2> QED
    BY <2>1, <2>6, <2>7, Quiet
<1>4. CASE RecordBatch
  <2>1. /\ UNCHANGED <<file, links, text, moved, batch, calm>> /\ job[Daemon].pc = "pair"
        /\ job' = Step(Daemon, NoJob)
    BY <1>4 DEF RecordBatch, disk, inbox
  <2>2. job'[Daemon].pc = "idle" /\ \A b \in Actors \ {Daemon} : Kept(b)
    BY <1>1, <2>1, EndsTakes
  <2>3. \A b \in Actors : Held(b) /\ Steady(b)
    BY <2>1, <2>2, KeptHeld DEF Held, Steady, Treating
  <2>4. Waiting' = Waiting
    BY <2>1 DEF Waiting
  <2> QED
    BY <2>1, <2>3, <2>4, HeldMoving, Quiet
<1>5. CASE StopDaemon
  <2>1. /\ UNCHANGED <<file, links, text>> /\ moved' = <<>> /\ batch' = <<>>
        /\ job' = Step(Daemon, NoJob)
        /\ calm' => calm /\ ~Handling(Daemon) /\ moved = <<>> /\ batch = <<>>
    BY <1>5 DEF StopDaemon, disk
  <2>2. CASE ~Handling(Daemon) /\ moved = <<>> /\ batch = <<>>
    <3>1. job'[Daemon].pc = "idle" /\ \A b \in Actors \ {Daemon} : Kept(b)
      BY <1>1, <2>1, EndsTakes
    <3>2. \A b \in Actors : Held(b) /\ Steady(b)
      BY <2>2, <3>1, KeptHeld DEF Held, Steady, Treating, Handling, Relinking
    <3>3. Waiting' = Waiting
      BY <2>1, <2>2 DEF Waiting
    <3> QED
      BY <2>1, <3>2, <3>3, HeldMoving, Quiet
  <2>3. CASE ~(~Handling(Daemon) /\ moved = <<>> /\ batch = <<>>)
    BY <2>1, <2>3 DEF CalmInv
  <2> QED
    BY <2>2, <2>3
<1>6. CASE StartDaemon
  <2>1. UNCHANGED <<file, links, text, moved, batch, calm>> /\ job' = Disturbed
    BY <1>6 DEF StartDaemon, disk
  <2> QED
    BY <1>1, <2>1, AllKept, KeptMoving, Quiet
<1> QED
  BY <1>2, <1>3, <1>4, <1>5, <1>6 DEF Loop

LEMMA CalmStep ==
  ASSUME GraphInv, [Next]_vars PROVE CalmInv'
<1>1. TypeOK /\ Distinct /\ GoneBlank /\ RewriteOK /\ DaemonOK /\ CalmInv
  BY DEF GraphInv
<1>2. CASE UNCHANGED vars
  <2>1. /\ UNCHANGED <<file, links, text, moved, batch, calm, job>>
    BY <1>2 DEF vars
  <2>2. \A b \in Actors : Held(b) /\ Steady(b)
    BY <2>1 DEF Held, Steady, Same
  <2>3. Waiting' = Waiting
    BY <2>1 DEF Waiting
  <2> QED
    BY <1>1, <2>1, <2>2, <2>3, HeldMoving, Quiet
<1> QED
  BY <1>1, <1>2, UserCalm, CommandCalm, WorkCalm, LoopCalm, RelinkCalm DEF Next

LEMMA GraphStart ==
  ASSUME Init PROVE GraphInv
<1>1. TypeOK
  BY TypeStart
<1>2. /\ moved = <<>> /\ batch = <<>> /\ notes = Notes /\ Daemon \in Actors
      /\ \A a \in Actors : job[a].pc = "idle"
  BY Resting DEF Init, Actors
<1>3. \A p \in Paths : file[p] # None => file[p] \in Docs /\ Start[file[p]] = p
  <2>1. ASSUME NEW p \in Paths, \E d \in Docs : Start[d] = p
        PROVE  (CHOOSE d \in Docs : Start[d] = p) \in Docs
               /\ Start[CHOOSE d \in Docs : Start[d] = p] = p
    BY <2>1
  <2> QED
    BY <2>1 DEF Init
<1>4. Distinct
  BY <1>3 DEF Distinct
<1>5. GoneBlank /\ RewriteOK /\ DaemonOK
  BY <1>2 DEF GoneBlank, RewriteOK, DaemonOK
<1>6. Moving = {}
  BY <1>2 DEF Moving, Waiting, Treating
<1>7. MovesApart
  BY <1>2, <1>6 DEF MovesApart, Relinking
<1>8. ASSUME NEW n \in Vault PROVE Led(n, text[n])
  <2>1. PICK t : t = text[n]
    OBVIOUS
  <2>2. ASSUME NEW p \in Paths, file[p] # None, t[file[p]] # None
        PROVE  t[file[p]] = p /\ p \in links
    <3>1. PICK d \in Docs : d = file[p] /\ Start[d] = p
      BY <1>3, <2>2
    <3>2. <<n, d>> \in Linked /\ t[d] = Start[d]
      BY <2>1, <2>2, <3>1 DEF Init, Vault
    <3>3. Start[d] \in links
      <4>1. <<n, d>>[1] \in Vault /\ <<n, d>>[2] = d
        OBVIOUS
      <4> QED
        BY <3>2, <4>1 DEF Init
    <3> QED
      BY <3>1, <3>2, <3>3
  <2> QED
    BY <2>1, <2>2 DEF Led, LedBy
<1>9. AllLed
  BY <1>2, <1>8 DEF AllLed
<1> QED
  BY <1>1, <1>4, <1>5, <1>7, <1>9 DEF GraphInv, CalmInv

LEMMA GraphStep ==
  ASSUME GraphInv, [Next]_vars PROVE GraphInv'
<1>1. TypeOK /\ Distinct /\ GoneBlank /\ RewriteOK /\ DaemonOK
  BY DEF GraphInv
<1> QED
  BY <1>1, TypeStep, DistinctStep, GoneBlankStep, RestStep, CalmStep DEF GraphInv

LEMMA GraphFollows ==
  ASSUME GraphInv PROVE LinksFollow
<1> SUFFICES ASSUME calm, Settled, NEW n \in notes \cap Vault, NEW p \in Paths,
                    file[p] # None, text[n][file[p]] # None
             PROVE  text[n][file[p]] = p /\ p \in links
  BY DEF LinksFollow
<1>1. Moving = {}
  BY DEF Settled, Moving, Waiting, Treating, Handling, Relinking
<1>2. Led(n, text[n])
  BY DEF GraphInv, CalmInv, AllLed
<1>3. LedBy(n, text[n][file[p]], p)
  BY <1>2 DEF Led
<1> QED
  BY <1>1, <1>3 DEF LedBy

\* Once the moves that were heard or made by wksc are treated, every wiki link of the vault
\* leads to the document that its author meant: update_link_for_move, rewrite_wiki_links and
\* update_edges_for_move, whoever of mv, repair and the daemon runs them.
THEOREM LinksLead == Spec => []LinksFollow
<1>1. Init => GraphInv
  BY GraphStart
<1>2. GraphInv /\ [Next]_vars => GraphInv'
  BY GraphStep
<1>3. GraphInv => LinksFollow
  BY GraphFollows
<1> QED
  BY <1>1, <1>2, <1>3, PTL DEF Spec

-----------------------------------------------------------------------------
(* A command that has the state to itself *)

LEMMA KeptLone ==
  ASSUME NEW c, LoneSync(c), LonePrune(c), Kept(c)
  PROVE  LoneSync(c)' /\ LonePrune(c)'
<1>1. CASE job[c].pc \in {"sync", "delete", "insert", "find", "prune"}
  <2>1. job[c].kind \in {"link", "vault", "prune"}
    BY <1>1 DEF LoneSync, LonePrune
  <2>2. ~job'[c].alone /\ job'[c].kind = job[c].kind /\ job'[c].pc = job[c].pc
    BY <1>1, <2>1 DEF Kept, Same, Alone
  <2> QED
    BY <2>2 DEF LoneSync, LonePrune
<1>2. CASE job[c].pc \notin {"sync", "delete", "insert", "find", "prune"}
  <2>1. job'[c].pc = job[c].pc
    BY DEF Kept
  <2> QED
    BY <1>2, <2>1 DEF LoneSync, LonePrune
<1> QED
  BY <1>1, <1>2

LEMMA OthersLone ==
  ASSUME LoneInv, NEW a, \A b \in Actors \ {a} : Kept(b),
         a \in Clients => LoneSync(a)' /\ LonePrune(a)'
  PROVE  LoneInv'
<1>1. ASSUME NEW c \in Clients \ {a} PROVE LoneSync(c)' /\ LonePrune(c)'
  BY KeptLone DEF LoneInv, Actors
<1> QED
  BY <1>1 DEF LoneInv

LEMMA SyncLone ==
  ASSUME TypeOK, LoneInv, NEW c \in Clients,
         (\E n \in Notes : SyncRead(c, n)) \/ SyncDelete(c) \/ SyncInsert(c)
  PROVE  LoneSync(c)' /\ LonePrune(c)'
<1>1. /\ LoneSync(c) /\ HandOK(c) /\ c \in Actors /\ job \in [Actors -> Job]
      /\ edges \in [Notes -> SUBSET (Docs \X Paths)] /\ notes \subseteq Notes
  BY TypeParts, Apart DEF LoneInv, DataOK
<1>2. UNCHANGED <<file, links, notes, text>>
  BY DEF SyncRead, SyncDelete, SyncInsert, disk
<1>3. \A n : Resolved(n)' = Resolved(n)
  BY <1>2 DEF Resolved, LinksOf
<1>4. ASSUME NEW n \in Notes, SyncRead(c, n) PROVE LoneSync(c)' /\ LonePrune(c)'
  <2>1. job[c].pc = "sync" /\ UNCHANGED edges
    BY <1>4 DEF SyncRead
  <2>2. /\ job'[c].kind = job[c].kind /\ job'[c].listed = job[c].listed
        /\ job'[c].todo = job[c].todo \ {n} /\ job'[c].alone = job[c].alone
        /\ n \in notes => /\ job'[c].pc = "delete" /\ job'[c].note = n
                          /\ job'[c].buffer = Resolved(n)
        /\ n \notin notes => job'[c].pc = "sync"
    BY <1>4, SyncReadTakes
  <2> QED
    BY <1>1, <1>2, <1>3, <2>1, <2>2 DEF LoneSync, LonePrune
<1>5. CASE SyncDelete(c)
  <2>1. /\ job[c].pc = "delete" /\ edges' = [edges EXCEPT ![job[c].note] = {}]
        /\ job' = Step(c, [job[c] EXCEPT !.pc = "insert"]) /\ "insert" \in PCs
        /\ job[c].note \in Notes
    BY <1>1, <1>5 DEF SyncDelete, PCs, HandOK
  <2>2. job'[c].pc = "insert" /\ Same(c) /\ job'[c].alone = job[c].alone
    BY <1>1, <2>1, GoesTakes
  <2>3. edges'[job[c].note] = {} /\ \A n \in Notes : n # job[c].note => edges'[n] = edges[n]
    BY <1>1, <2>1
  <2> QED
    BY <1>1, <1>2, <1>3, <2>1, <2>2, <2>3 DEF LoneSync, LonePrune, Same
<1>6. CASE SyncInsert(c)
  <2>1. /\ job'[c].pc = "sync" /\ job'[c].kind = job[c].kind
        /\ job'[c].listed = job[c].listed /\ job'[c].todo = job[c].todo
        /\ job'[c].alone = job[c].alone
    BY <1>6, SyncInsertTakes
  <2>2. /\ job[c].pc = "insert" /\ job[c].note \in Notes
        /\ \E S : /\ (job[c].buffer \cap edges[job[c].note] = {} => S = job[c].buffer)
                  /\ edges' = [edges EXCEPT ![job[c].note] = edges[job[c].note] \cup S]
    BY <1>1, <1>6 DEF SyncInsert, HandOK
  <2>3. \A n \in Notes : n # job[c].note => edges'[n] = edges[n]
    BY <1>1, <2>2
  <2>4. edges[job[c].note] = {} => edges'[job[c].note] = job[c].buffer
    BY <1>1, <2>2
  <2> QED
    BY <1>1, <1>2, <1>3, <2>1, <2>2, <2>3, <2>4 DEF LoneSync, LonePrune
<1> QED
  BY <1>4, <1>5, <1>6

LEMMA ClientLone ==
  ASSUME TypeOK, LoneInv, NEW c \in Clients, Command(c) \/ Work(c) \/ Crash(c)
  PROVE  LoneInv'
<1>1. c \in Actors /\ job \in [Actors -> Job]
  BY Apart, TypeParts
<1>2. ASSUME \A b \in Actors \ {c} : Kept(b),
             job'[c].pc \notin {"sync", "delete", "insert", "find", "prune"}
      PROVE  LoneInv'
  <2>1. LoneSync(c)' /\ LonePrune(c)'
    BY <1>2 DEF LoneSync, LonePrune
  <2> QED
    BY <1>2, <2>1, OthersLone
<1>3. ASSUME NEW p \in Paths, NEW q \in Paths, MvValidate(c, p, q) PROVE LoneInv'
  BY <1>1, <1>2, <1>3, MvValidateTakes
<1>4. ASSUME RepairStart(c) PROVE LoneInv'
  BY <1>2, <1>4, ListStartTakes
<1>5. ASSUME NEW p \in Paths, MonitorSync(c, p) PROVE LoneInv'
  <2>1. \A b \in Actors : Kept(b)
    BY <1>1, <1>5, AllKept DEF MonitorSync
  <2>2. LoneSync(c)' /\ LonePrune(c)'
    BY <1>1, <2>1, KeptLone DEF LoneInv
  <2> QED
    BY <2>1, <2>2, OthersLone
<1>6. ASSUME NEW S \in SUBSET Notes, NEW k \in {"link", "vault"}, S \subseteq notes,
             SyncStart(c, S, k)
      PROVE  LoneInv'
  <2>1. notes' = notes
    BY <1>6 DEF SyncStart, disk
  <2>2. LoneSync(c)' /\ LonePrune(c)'
    BY <1>6, <2>1, SyncStartTakes DEF LoneSync, LonePrune
  <2> QED
    BY <1>6, <2>2, SyncStartTakes, OthersLone
<1>7. ASSUME PruneStart(c) PROVE LoneInv'
  <2>1. known' = known
    BY <1>7 DEF PruneStart, db
  <2>2. LoneSync(c)' /\ LonePrune(c)'
    BY <1>7, <2>1, PruneStartTakes DEF LoneSync, LonePrune, NodeUris
  <2> QED
    BY <1>7, <2>2, PruneStartTakes, OthersLone
<1>8. ASSUME PruneFind(c) PROVE LoneInv'
  <2>1. /\ job[c].pc = "find" /\ UNCHANGED <<known, file>>
    BY <1>8 DEF PruneFind, db, disk
  <2>2. LonePrune(c)
    BY DEF LoneInv
  <2>3. LoneSync(c)' /\ LonePrune(c)'
    BY <1>8, <2>1, <2>2, PruneFindTakes DEF LoneSync, LonePrune, NodeUris
  <2> QED
    BY <1>8, <2>3, PruneFindTakes, OthersLone
<1>9. ASSUME (\E n \in Notes : SyncRead(c, n)) \/ SyncDelete(c) \/ SyncInsert(c)
      PROVE  LoneInv'
  <2>1. ASSUME SyncDelete(c) PROVE \A b \in Actors \ {c} : Kept(b)
    <3>1. job' = Step(c, [job[c] EXCEPT !.pc = "insert"]) /\ "insert" \in PCs
      BY <2>1 DEF SyncDelete, PCs
    <3> QED
      BY <1>1, <3>1, GoesTakes
  <2>2. \A b \in Actors \ {c} : Kept(b)
    BY <1>9, <2>1, SyncReadTakes, SyncInsertTakes
  <2> QED
    BY <1>9, <2>2, SyncLone, OthersLone
<1>10. ASSUME job' = Step(c, NoJob) PROVE LoneInv'
  BY <1>1, <1>2, <1>10, EndsTakes
<1>11. ASSUME NEW pc \in {"record", "check"}, job' = Step(c, [job[c] EXCEPT !.pc = pc])
       PROVE  LoneInv'
  <2>1. pc \in PCs
    BY DEF PCs
  <2> QED
    BY <1>1, <1>2, <1>11, <2>1, GoesTakes
<1>12. ASSUME NEW p \in Paths, RepairChoose(c, p) PROVE LoneInv'
  BY <1>2, <1>12, RepairChooseTakes
<1>13. ASSUME MvRename(c) \/ MvRecord(c)
       PROVE  job' = Step(c, NoJob) \/ \E pc \in {"record", "check"} :
                                         job' = Step(c, [job[c] EXCEPT !.pc = pc])
  BY <1>13 DEF MvRename, MvRecord
<1>14. ASSUME RepairDone(c) \/ SyncEnd(c) \/ PruneDelete(c) \/ Crash(c)
       PROVE  job' = Step(c, NoJob)
  BY <1>14 DEF RepairDone, SyncEnd, PruneDelete, Crash
<1>15. ASSUME Command(c) PROVE LoneInv'
  BY <1>3, <1>4, <1>5, <1>6, <1>7, <1>15, SyncKinds DEF Command
<1>16. ASSUME Work(c) \/ Crash(c) PROVE LoneInv'
  BY <1>8, <1>9, <1>10, <1>11, <1>12, <1>13, <1>14, <1>16 DEF Work
<1> QED
  BY <1>15, <1>16

LEMMA RelinkKept ==
  ASSUME TypeOK, NEW a \in Actors, Relink(a)
  PROVE  /\ \A b \in Actors \ {a} : Kept(b)
         /\ job'[a].pc \notin {"sync", "delete", "insert", "find", "prune"}
<1>1. ASSUME NEW n \in Notes, ReadNote(a, n)
      PROVE  /\ \A b \in Actors \ {a} : Kept(b)
             /\ job'[a].pc \notin {"sync", "delete", "insert", "find", "prune"}
  BY <1>1, ReadNoteTakes
<1> QED
  BY <1>1, RelinkTakes, UnlinkOldTakes, WriteNoteTakes DEF Relink

LEMMA LoneStep ==
  ASSUME TypeOK, LoneInv, [Next]_vars PROVE LoneInv'
<1>1. Daemon \in Actors /\ job \in [Actors -> Job] /\ Daemon \notin Clients
  BY TypeParts, ConstantsAssumption DEF Actors
<1>2. ASSUME User \/ StartDaemon PROVE LoneInv'
  <2>1. job' = Disturbed
    BY <1>2 DEF User, MoveFile, DeleteFile, AddLink, DeleteNote, StartDaemon
  <2>2. \A b \in Actors : Kept(b)
    BY <1>1, <2>1, AllKept
  <2> QED
    BY <1>1, <2>2, OthersLone
<1>3. ASSUME Loop \/ StopDaemon PROVE LoneInv'
  <2>1. ASSUME RecordBatch \/ StopDaemon PROVE \A b \in Actors \ {Daemon} : Kept(b)
    <3>1. job' = Step(Daemon, NoJob)
      BY <2>1 DEF RecordBatch, StopDaemon
    <3> QED
      BY <1>1, <3>1, EndsTakes
  <2>2. \A b \in Actors \ {Daemon} : Kept(b)
    BY <1>3, <2>1, ListStartTakes, NextPairTakes DEF Loop
  <2> QED
    BY <1>1, <2>2, OthersLone
<1>4. ASSUME NEW a \in Actors, Relink(a) PROVE LoneInv'
  <2>1. /\ \A b \in Actors \ {a} : Kept(b)
        /\ LoneSync(a)' /\ LonePrune(a)'
    BY <1>4, RelinkKept DEF LoneSync, LonePrune
  <2> QED
    BY <2>1, OthersLone
<1>5. ASSUME UNCHANGED vars PROVE LoneInv'
  <2>1. UNCHANGED <<file, links, notes, text, edges, known, job>>
    BY <1>5 DEF vars
  <2>2. (\A n : Resolved(n)' = Resolved(n)) /\ NodeUris' = NodeUris
    BY <2>1 DEF Resolved, LinksOf, NodeUris
  <2>3. ASSUME NEW c \in Clients PROVE LoneSync(c)'
    BY <2>1, <2>2 DEF LoneInv, LoneSync
  <2>4. ASSUME NEW c \in Clients PROVE LonePrune(c)'
    BY <2>1, <2>2 DEF LoneInv, LonePrune
  <2> QED
    BY <2>3, <2>4 DEF LoneInv
<1> QED
  BY <1>2, <1>3, <1>4, <1>5, ClientLone DEF Next

LEMMA LoneExact ==
  ASSUME TypeOK, LoneInv, [Next]_vars, NEW c \in Clients
  PROVE  /\ (SyncEnd(c) /\ job[c].alone) =>
              /\ \A n \in notes \cap job[c].listed : edges'[n] = Resolved(n)
              /\ job[c].kind = "vault" => \A n \in Vault \ notes : edges'[n] = {}
         /\ (PruneDelete(c) /\ job[c].alone) =>
              \A n \in Outside \cap known :
                {e \in edges[n] : file[e[2]] # None} \subseteq edges'[n]
<1>1. LoneSync(c) /\ LonePrune(c) /\ notes \subseteq Notes /\ Outside \subseteq Notes
  BY ConstantsAssumption DEF LoneInv, TypeOK
<1>2. ASSUME SyncEnd(c), job[c].alone
      PROVE  /\ \A n \in notes \cap job[c].listed : edges'[n] = Resolved(n)
             /\ job[c].kind = "vault" => \A n \in Vault \ notes : edges'[n] = {}
  <2>1. /\ job[c].pc = "sync" /\ job[c].todo = {} /\ job[c].listed \subseteq notes
        /\ \A n \in job[c].listed : edges[n] = Resolved(n)
    BY <1>1, <1>2 DEF SyncEnd, LoneSync
  <2>2. \A n \in notes \cap job[c].listed : edges'[n] = edges[n]
    BY <1>1, <1>2 DEF SyncEnd
  <2>3. job[c].kind = "vault" => \A n \in Vault \ notes : edges'[n] = {}
    BY <1>1, <1>2, <2>1 DEF SyncEnd, Vault
  <2> QED
    BY <2>1, <2>2, <2>3
<1>3. ASSUME PruneDelete(c), job[c].alone, NEW n \in Outside \cap known,
             NEW e \in edges[n], file[e[2]] # None
      PROVE  e \in edges'[n]
  <2>1. FromUri(n) \in NodeUris
    BY <1>3 DEF FromUri, NodeUris
  <2>2. <<n, e>>[1] = n /\ <<n, e>>[2] = e
    OBVIOUS
  <2>3. <<n, e>> \notin job[c].buffer
    BY <1>1, <1>3, <2>1, <2>2 DEF LonePrune, PruneDelete
  <2> QED
    BY <1>1, <1>3, <2>3 DEF PruneDelete
<1> QED
  BY <1>2, <1>3

\* A command that has the state to itself leaves the edges right: _sync_single_file, vault
\* sync and link sync those that the notes imply, database prune those to files that exist.
THEOREM LoneCommands == Spec => LoneCommandsExact
<1>1. Init => TypeOK /\ LoneInv
  <2>1. ASSUME Init PROVE LoneInv
    <3>1. \A c \in Clients : job[c].pc = "idle"
      BY <2>1, Resting DEF Init, Actors
    <3> QED
      BY <3>1 DEF LoneInv, LoneSync, LonePrune
  <2> QED
    BY <2>1, TypeStart
<1>2. TypeOK /\ LoneInv /\ [Next]_vars => (TypeOK /\ LoneInv)'
  BY TypeStep, LoneStep
<1>3. TypeOK /\ LoneInv /\ [Next]_vars =>
        [\A c \in Clients :
           /\ (SyncEnd(c) /\ job[c].alone) =>
                 /\ \A n \in notes \cap job[c].listed : edges'[n] = Resolved(n)
                 /\ job[c].kind = "vault" => \A n \in Vault \ notes : edges'[n] = {}
           /\ (PruneDelete(c) /\ job[c].alone) =>
                 \A n \in Outside \cap known :
                   {e \in edges[n] : file[e[2]] # None} \subseteq edges'[n]]_vars
  BY LoneExact
<1> QED
  BY <1>1, <1>2, <1>3, PTL DEF Spec, LoneCommandsExact
=============================================================================
