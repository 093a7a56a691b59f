----------------------------- MODULE IndexStore -----------------------------
(***************************************************************************)
(* The search index: the text of every document cut into chunks in the     *)
(* collection "index", the embeddings of the chunks in the collection      *)
(* "index_embeddings".  The daemon indexes a document after every change   *)
(* (_auto_index); wksc index add, backfill and embed write the same        *)
(* collections from processes of their own.  Every replacement is a        *)
(* deletion followed by an insertion.  A long-lived process (the MCP       *)
(* server) searches, and keeps the embeddings it has loaded for as long as *)
(* their number and the newest _id stay the same.                          *)
(*                                                                         *)
(* Source: src/wks/api/index, src/wks/api/search/_SearchRuntime.py.        *)
(***************************************************************************)
EXTENDS Naturals, Sequences, FiniteSets, FiniteSetsExt, SequencesExt

CONSTANTS Docs,        \* monitored documents with priority enough for the index
          Texts,       \* what a document can say
          Blank,       \* a text of which no chunk is left (Blank \in Texts)
          Clients,     \* terminals that run wksc index
          Daemon,      \* the daemon
          None,        \* no document, no text, no _id
          Start,       \* the documents that are there, and indexed, at the beginning
          Ranks,       \* the random part of a command's _ids; the daemon's is 1
          MaxChanges,  \* bound: changes of documents
          MaxCommands, \* bound: commands
          MaxSecond    \* bound: the clock

ASSUME ConstantsAssumption ==
    /\ IsFiniteSet(Docs)
    /\ Blank \in Texts /\ None \notin Texts \cup Docs /\ None \notin Nat \X Nat \X Nat
    /\ Daemon \notin Clients
    /\ Start \in [Docs -> Texts \cup {None}]
    /\ Ranks \subseteq Nat \ {1}
    /\ MaxChanges \in Nat /\ MaxCommands \in Nat /\ MaxSecond \in Nat

Writers == Clients \cup {Daemon}

VARIABLES file,     \* [Docs -> Texts \cup {None}]: the documents on disk
          changed,  \* documents with an event the daemon has not treated
          known,    \* documents with a record in the nodes database
          chunks,   \* collection "index": the sequence of chunks of each document
          embs,     \* collection "index_embeddings": a set of [id, doc, text]
          job,      \* what each writer is doing
          cache,    \* _semantic_states of the searching process
          search,   \* the search under way, or the answer of one that nobody disturbed
          second,   \* the clock of the last insertion: an _id begins with it
          made,     \* number of _ids made
          changes, commands,
          spoilt,   \* auxiliary: documents whose index nobody answers for
          torn,     \* auxiliary: a deletion without its insertion was the last write
          ordered   \* auxiliary: every new _id was the greatest of the collection

docs    == <<file, changed, known, changes>>
aux     == <<second, made, commands>>
ghosts  == <<spoilt, torn, ordered>>
vars    == <<docs, chunks, embs, job, cache, search, aux, ghosts>>

NoJob    == [kind |-> None, pc |-> "idle", doc |-> None, text |-> None, todo |-> {},
             snap |-> {}, rank |-> 1, alone |-> TRUE]
NoCache  == [count |-> 0, newest |-> None, docs |-> None]
NoSearch == [pc |-> "idle", count |-> 0, newest |-> None, docs |-> {}, alone |-> FALSE]

\* Mutant: chunk keeps a body of blanks.
CutAll(t) == <<t>>

\* _SlidingWindowChunker.chunk, for texts that fit one window.
Cut(t) == IF t = Blank THEN <<>> ELSE <<t>>

\* Two _ids: first the second they were made in, then the process, then its count.
Before(i, j) ==
    \/ i[1] < j[1]
    \/ i[1] = j[1] /\ i[2] < j[2]
    \/ i[1] = j[1] /\ i[2] = j[2] /\ i[3] < j[3]

Ids       == {e.id : e \in embs}
NewestId  == IF embs = {} THEN None ELSE CHOOSE i \in Ids : \A j \in Ids \ {i} : Before(j, i)
EmbsOf(d) == {e \in embs : e.doc = d}

\* build_embedding_docs: one document for each chunk; insert_many makes the _ids.
NewEmbs(w, now, pairs) ==
    {[id |-> <<now, job[w].rank, made + i>>, doc |-> pairs[i][1], text |-> pairs[i][2]]
        : i \in DOMAIN pairs}

\* The index as the daemon leaves it when nothing interferes.
Init ==
    /\ file = Start
    /\ changed = {} /\ known = {d \in Docs : Start[d] # None}
    /\ chunks = [d \in Docs |-> IF Start[d] = None THEN <<>> ELSE Cut(Start[d])]
    /\ \E s \in SetToSeqs({d \in Docs : chunks[d] # <<>>}) :
          /\ embs = {[id |-> <<0, 1, i>>, doc |-> s[i], text |-> Start[s[i]]] : i \in DOMAIN s}
          /\ made = Len(s)
    /\ job = [w \in Writers |-> NoJob]
    /\ cache = NoCache /\ search = NoSearch
    /\ second = 0 /\ changes = 0 /\ commands = 0
    /\ spoilt = {} /\ torn = FALSE /\ ordered = TRUE

-----------------------------------------------------------------------------
(* Documents *)

Change(d, t) ==
    /\ changes < MaxChanges
    /\ t # file[d]
    /\ file' = [file EXCEPT ![d] = t]
    /\ changed' = changed \cup {d}
    /\ changes' = changes + 1
    /\ UNCHANGED <<known, chunks, embs, job, cache, search, aux, ghosts>>

-----------------------------------------------------------------------------
(* Indexing one document: cmd *)

Active(w)     == job[w].pc # "idle"
Embeds(w)     == job[w].kind = "embed"
Touches(w, d) == Active(w) /\ (job[w].doc = d \/ Embeds(w))
Others(w)     == Writers \ {w}

\* A writer turns to document d; another one that is at it spoils both their work.
Turn(w, r, d) ==
    /\ job' = [job EXCEPT ![w] = [r EXCEPT !.pc = "read", !.doc = d, !.alone = TRUE]]
    /\ spoilt' = IF \E v \in Others(w) : Touches(v, d) THEN spoilt \cup {d} ELSE spoilt

\* The end of cmd: a backfill goes on with its next document.
Done(r) == IF r.kind = "backfill" THEN [r EXCEPT !.pc = "next", !.doc = None, !.text = None]
                                  ELSE NoJob

\* A write by w to the collections, after which it is r.
Wrote(w, r) ==
    job' = [v \in Writers |-> IF v = w THEN r ELSE [job[v] EXCEPT !.alone = ~Active(v)]]

\* A lone run on the text a document still has, with nobody else at it, answers for
\* it again.
Answers(w) ==
    LET d == job[w].doc
        answers == /\ job[w].alone /\ job[w].text = file[d]
                   /\ ~\E v \in Others(w) : Touches(v, d)
    IN  IF answers THEN spoilt \ {d} ELSE spoilt

\* cmd: the file must exist; its text comes through the transform cache.
Read(w) ==
    LET text == file[job[w].doc]
    IN  /\ job[w].pc = "read"
        /\ job' = [job EXCEPT ![w] = IF text = None THEN Done(@)
                                     ELSE [@ EXCEPT !.pc = "drop_chunks", !.text = text]]
        /\ UNCHANGED <<docs, chunks, embs, cache, search, aux, ghosts>>

\* _ChunkStore.replace_uri.  Without chunks cmd ends here: the embeddings stay.
DropChunks(w) ==
    LET r == job[w]
        last == Cut(r.text) = <<>>
    IN  /\ r.pc = "drop_chunks"
        /\ chunks' = [chunks EXCEPT ![r.doc] = <<>>]
        /\ Wrote(w, IF last THEN Done(r) ELSE [r EXCEPT !.pc = "put_chunks"])
        /\ spoilt' = IF last THEN Answers(w) ELSE spoilt
        /\ UNCHANGED <<docs, embs, cache, search, aux, torn, ordered>>

PutChunks(w) ==
    LET r == job[w]
    IN  /\ r.pc = "put_chunks"
        /\ chunks' = [chunks EXCEPT ![r.doc] = @ \o Cut(r.text)]
        /\ Wrote(w, [r EXCEPT !.pc = "drop_embs"])
        /\ UNCHANGED <<docs, embs, cache, search, aux, ghosts>>

\* Every write to the embeddings disturbs the search under way; the last answer is
\* remembered until then.
Disturb == search' = IF search.pc \in {"newest", "load"} THEN [search EXCEPT !.alone = FALSE]
                                                       ELSE NoSearch

Insert(w, pairs) ==
    \E now \in second..MaxSecond :
      LET new == NewEmbs(w, now, pairs)
      IN  /\ second' = now
          /\ embs' = embs \cup new
          /\ made' = made + Len(pairs)
          /\ torn' = FALSE
          /\ ordered' = (ordered /\ \A i \in Ids, e \in new : Before(i, e.id))
          /\ Disturb

\* Mutant: the new embeddings are added to the old ones.
DropEmbsNone(w) ==
    LET r == job[w]
    IN  /\ r.pc = "drop_embs"
        /\ Wrote(w, [r EXCEPT !.pc = "put_embs"])
        /\ UNCHANGED <<docs, chunks, embs, cache, search, aux, ghosts>>

\* _EmbeddingStore.replace_uri.
DropEmbs(w) ==
    LET r == job[w]
    IN  /\ r.pc = "drop_embs"
        /\ embs' = embs \ EmbsOf(r.doc)
        /\ Wrote(w, [r EXCEPT !.pc = "put_embs"])
        /\ Disturb
        /\ UNCHANGED <<docs, chunks, cache, aux, ghosts>>

PutEmbs(w) ==
    LET r == job[w]
    IN  /\ r.pc = "put_embs"
        /\ Insert(w, <<<<r.doc, r.text>>>>)
        /\ Wrote(w, Done(r))
        /\ spoilt' = Answers(w)
        /\ UNCHANGED <<docs, chunks, cache, commands>>

-----------------------------------------------------------------------------
(* Who indexes: the daemon, add, backfill *)

\* _sync_path_static: the record, then _auto_index if the document is there.
DaemonSync(d) ==
    /\ d \in changed /\ ~Active(Daemon)
    /\ changed' = changed \ {d}
    /\ IF file[d] = None
         THEN known' = known \ {d} /\ UNCHANGED <<job, spoilt>>
         ELSE known' = known \cup {d} /\ Turn(Daemon, [NoJob EXCEPT !.kind = "auto"], d)
    /\ UNCHANGED <<file, changes, chunks, embs, cache, search, aux, torn, ordered>>

Command(c) ==
    /\ ~Active(c) /\ commands < MaxCommands
    /\ commands' = commands + 1
    /\ UNCHANGED <<docs, chunks, embs, cache, search, second, made, torn, ordered>>

Add(c, d) ==
    /\ Command(c)
    /\ file[d] # None
    /\ \E n \in Ranks : Turn(c, [NoJob EXCEPT !.kind = "add", !.rank = n], d)

\* cmd_backfill: the list of the recorded documents, then cmd_auto for each.
Backfill(c) ==
    /\ Command(c)
    /\ known # {}
    /\ \E n \in Ranks : job' = [job EXCEPT ![c] =
            [NoJob EXCEPT !.kind = "backfill", !.pc = "next", !.todo = known, !.rank = n]]
    /\ UNCHANGED spoilt

NextCandidate(c) ==
    /\ job[c].pc = "next"
    /\ IF job[c].todo = {}
         THEN job' = [job EXCEPT ![c] = NoJob] /\ UNCHANGED spoilt
         ELSE \E d \in job[c].todo : Turn(c, [job[c] EXCEPT !.todo = @ \ {d}], d)
    /\ UNCHANGED <<docs, chunks, embs, cache, search, aux, torn, ordered>>

-----------------------------------------------------------------------------
(* Embedding the whole index: cmd_embed *)

AllChunks == UNION {{<<d, i, chunks[d][i]>> : i \in DOMAIN chunks[d]} : d \in Docs}

\* get_all; an empty index is an error.
Embed(c) ==
    /\ Command(c)
    /\ AllChunks # {}
    /\ \E n \in Ranks : job' = [job EXCEPT ![c] =
            [NoJob EXCEPT !.kind = "embed", !.pc = "drop_all", !.snap = AllChunks, !.rank = n]]
    /\ spoilt' = spoilt \cup {d \in Docs : \E v \in Others(c) : Touches(v, d)}

\* Mutant: only the embeddings of documents with chunks are replaced.
DropAllListed(c) ==
    /\ job[c].pc = "drop_all"
    /\ embs' = {e \in embs : \A s \in job[c].snap : s[1] # e.doc}
    /\ Wrote(c, [job[c] EXCEPT !.pc = "put_all"])
    /\ Disturb
    /\ UNCHANGED <<docs, chunks, cache, aux, ghosts>>

\* replace_index_model.
DropAll(c) ==
    /\ job[c].pc = "drop_all"
    /\ embs' = {}
    /\ Wrote(c, [job[c] EXCEPT !.pc = "put_all"])
    /\ Disturb
    /\ UNCHANGED <<docs, chunks, cache, aux, ghosts>>

PutAll(c) ==
    /\ job[c].pc = "put_all"
    /\ \E s \in SetToSeqs(job[c].snap) : Insert(c, [i \in DOMAIN s |-> <<s[i][1], s[i][3]>>])
    /\ Wrote(c, NoJob)
    /\ UNCHANGED <<docs, chunks, cache, commands, spoilt>>

-----------------------------------------------------------------------------
(* A database operation, the transform or the model fails, or the process dies *)

\* _auto_index and cmd_backfill catch what cmd raises and go on.  The daemon has
\* lost the change it was at; any other writer only what it had deleted or replaced.
Abort(w) ==
    LET r == job[w]
        harmless == w # Daemon /\ r.pc \in {"next", "read", "drop_chunks", "drop_all"}
    IN  /\ Active(w)
        /\ \E after \in {Done(r), NoJob} : job' = [job EXCEPT ![w] = after]
        /\ spoilt' = IF harmless THEN spoilt ELSE {d \in Docs : Touches(w, d)} \cup spoilt
        /\ torn' = (torn \/ r.pc \in {"put_embs", "put_all"})
        /\ UNCHANGED <<docs, chunks, embs, cache, search, aux, ordered>>

-----------------------------------------------------------------------------
(* Searching: get_semantic_index_state *)

\* load_config drops what was loaded when the configuration has changed;
\* _collection_fingerprint counts first ...
CountEmbs ==
    /\ search.pc \in {"idle", "answered"}
    /\ search' = [NoSearch EXCEPT !.pc = "newest", !.count = Cardinality(embs), !.alone = TRUE]
    /\ cache' \in {cache, NoCache}
    /\ UNCHANGED <<docs, chunks, embs, job, aux, ghosts>>

\* Mutant: the fingerprint is the number alone.
SameCount(c, count, newest) == c.docs # None /\ c.count = count

\* ... then looks for the newest; if both are as they were when the embeddings were
\* loaded, the search uses those.
Same(c, count, newest) == c.docs # None /\ c.count = count /\ c.newest = newest

Answer(found) == IF search.alone THEN [NoSearch EXCEPT !.pc = "answered", !.docs = found]
                                 ELSE NoSearch

NewestEmb ==
    /\ search.pc = "newest"
    /\ search' = IF Same(cache, search.count, NewestId)
                   THEN Answer(cache.docs)
                   ELSE [search EXCEPT !.pc = "load", !.newest = NewestId]
    /\ UNCHANGED <<docs, chunks, embs, job, cache, aux, ghosts>>

\* The embeddings are loaded, and kept under the fingerprint taken before.
LoadEmbs ==
    /\ search.pc = "load"
    /\ cache' = [count |-> search.count, newest |-> search.newest, docs |-> embs]
    /\ search' = Answer(embs)
    /\ UNCHANGED <<docs, chunks, embs, job, aux, ghosts>>

-----------------------------------------------------------------------------

Next ==
    \/ \E d \in Docs, t \in Texts \cup {None} : Change(d, t)
    \/ \E d \in Docs : DaemonSync(d)
    \/ \E c \in Clients, d \in Docs : Add(c, d)
    \/ \E c \in Clients : Backfill(c) \/ NextCandidate(c) \/ Embed(c) \/ DropAll(c) \/ PutAll(c)
    \/ \E w \in Writers : Read(w) \/ DropChunks(w) \/ PutChunks(w) \/ DropEmbs(w) \/ PutEmbs(w)
    \/ \E w \in Writers : Abort(w)
    \/ CountEmbs \/ NewestEmb \/ LoadEmbs

Spec == Init /\ [][Next]_vars

-----------------------------------------------------------------------------
(* Properties *)

Embedding == [id : Nat \X (Ranks \cup {1}) \X Nat, doc : Docs, text : Texts \ {Blank}]

\* The types of the two collections, of the writers' jobs and of the searching
\* process; in particular no text that leaves no chunk is ever embedded (cmd).
TypeOK ==
    /\ file \in [Docs -> Texts \cup {None}]
    /\ changed \subseteq Docs /\ known \subseteq Docs /\ spoilt \subseteq Docs
    /\ \A d \in Docs : chunks[d] \in Seq(Texts \ {Blank})
    /\ \A e \in embs : e \in Embedding
    /\ \A w \in Writers :
        /\ job[w].pc \in {"idle", "next", "read", "drop_chunks", "put_chunks", "drop_embs",
                          "put_embs", "drop_all", "put_all"}
        /\ job[w].text \in Texts \cup {None}
        /\ job[w].todo \subseteq Docs
    /\ search.pc \in {"idle", "newest", "load", "answered"}
    /\ torn \in BOOLEAN /\ ordered \in BOOLEAN

\* The index follows the documents (cmd, cmd_auto, cmd_backfill, cmd_embed): a
\* document whose changes the daemon has treated and that nobody is indexing has
\* exactly its own chunks, and, when there are any, exactly their embeddings: none
\* of an older text, none twice.  Whom two writers met at is excused, and so is a
\* document whose indexing failed, until one lone run on it succeeds.
IndexSettles ==
    \A d \in Docs \ (spoilt \cup changed) :
      file[d] = None \/ (\E w \in Writers : Touches(w, d))
      \/ /\ chunks[d] = Cut(file[d])
         /\ file[d] = Blank \/ (/\ Cardinality(EmbsOf(d)) = 1
                                /\ \A e \in EmbsOf(d) : e.text = file[d])

\* cmd_embed, when nobody else writes to the index while it runs, leaves exactly
\* one embedding for each chunk there is, whatever was in the collection before.
EmbedExact ==
    [][\A c \in Clients :
         job[c].pc = "put_all" /\ job[c].alone /\ ~Active(c)' /\ embs' # embs
           => \A d \in Docs, t \in Texts :
                Cardinality({e \in embs' : e.doc = d /\ e.text = t})
                  = Cardinality({i \in DOMAIN chunks'[d] : chunks'[d][i] = t})]_vars

\* get_semantic_index_state: a search during which nobody writes embeddings, and
\* that does not fall between a deletion and its insertion, answers from what is in
\* the collection, although it may use what an earlier search loaded; provided
\* every _id was the greatest of the collection when it was made.
SearchFresh ==
    \/ search.pc # "answered"
    \/ torn \/ ~ordered
    \/ \E w \in Writers : job[w].pc \in {"put_embs", "put_all"}
    \/ search.docs = embs
=============================================================================
