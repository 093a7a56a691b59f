--------------------------- MODULE IndexStoreProofs ---------------------------
(***************************************************************************)
(* What IndexStore guarantees for every set of documents, texts and        *)
(* clients, however often documents change, commands run, fail and meet.    *)
(***************************************************************************)
EXTENDS IndexStore, FiniteSetTheorems, WellFoundedInduction, TLAPS

-----------------------------------------------------------------------------
(* The inductive invariant: types *)

Chunked == Texts \ {Blank}    \* the texts that leave a chunk
Writing == {"drop_chunks", "put_chunks", "drop_embs", "put_embs"}
OneDoc  == Writing \cup {"read"}
AllDocs == {"drop_all", "put_all"}

Job == [kind : {None, "auto", "add", "backfill", "embed"},
        pc : {"idle", "next"} \cup OneDoc \cup AllDocs,
        doc : Docs \cup {None}, text : Texts \cup {None}, todo : SUBSET Docs,
        snap : SUBSET (Docs \X Nat \X Chunked), rank : Ranks \cup {1}, alone : BOOLEAN]

\* What a writer has in hand at each place: who indexes one document has that document
\* and, once it has been read, its text; only a text with a chunk gets past the chunks;
\* the daemon neither embeds everything nor has a list to go through.
Fits(w, r) ==
    /\ r.pc \in OneDoc => r.doc \in Docs /\ r.kind \in {"auto", "add", "backfill"}
    /\ r.pc \in Writing => r.text \in Texts
    /\ r.pc \in Writing \ {"drop_chunks"} => r.text # Blank
    /\ r.pc \notin OneDoc => r.doc = None
    /\ r.pc \in AllDocs => w # Daemon /\ r.kind = "embed" /\ r.snap # {}
    /\ r.pc = "next" => r.kind = "backfill"
    /\ r.pc # "idle" /\ r.kind = "backfill" => w # Daemon
    /\ IsFiniteSet(r.snap)

Typed ==
    /\ file \in [Docs -> Texts \cup {None}]
    /\ changed \subseteq Docs /\ known \subseteq Docs /\ spoilt \subseteq Docs
    /\ chunks \in [Docs -> Seq(Chunked)]
    /\ embs \subseteq Embedding
    /\ job \in [Writers -> Job]
    /\ \A w \in Writers : Fits(w, job[w])
    /\ search.pc \in {"idle", "newest", "load", "answered"}
    /\ torn \in BOOLEAN /\ ordered \in BOOLEAN
    /\ second \in Nat /\ made \in Nat

-----------------------------------------------------------------------------
(* The inductive invariant: documents, chunks and embeddings *)

\* The chunks are those of the text, and so are the embeddings.
Settled(d) ==
    /\ chunks[d] = Cut(file[d])
    /\ file[d] = Blank \/ \E e : EmbsOf(d) = {e} /\ e.text = file[d]

ChunksOf(d) == {<<d, i, chunks[d][i]>> : i \in DOMAIN chunks[d]}

\* Who is at the document: one that indexes it, one that embeds them all.
At(w, d) == job[w].pc \in OneDoc /\ job[w].doc = d
All(w)   == job[w].pc \in AllDocs

\* How far the index of its document has come that w is at, if nobody else has written
\* since w turned to it, or if w alone is at the document.
Progress(w) ==
    LET r == job[w]
        d == r.doc
    IN  r.alone \/ d \notin spoilt =>
          /\ r.pc = "put_chunks" => chunks[d] = <<>>
          /\ r.pc \in {"drop_embs", "put_embs"} => chunks[d] = Cut(r.text)
          /\ r.pc = "put_embs" => EmbsOf(d) = {}

\* What w knows of its document: the text it has read is still there, unless the daemon
\* is going to see a change; and who may give up without harm has found it settled.
Reads(w) ==
    LET r == job[w]
        d == r.doc
    IN  d \notin spoilt \cup changed /\ file[d] # None =>
          /\ r.pc \in Writing => r.text = file[d]
          /\ r.pc \in {"read", "drop_chunks"} /\ w # Daemon => Settled(d)

\* The same of a document and somebody who embeds them all: the chunks listed are those
\* there are.
Lists(w, d) ==
    LET r == job[w]
    IN  /\ r.alone \/ d \notin spoilt =>
             /\ {s \in r.snap : s[1] = d} = ChunksOf(d)
             /\ r.pc = "put_all" => EmbsOf(d) = {}
        /\ d \notin spoilt \cup changed /\ file[d] # None =>
             /\ chunks[d] = Cut(file[d])
             /\ r.pc = "drop_all" => Settled(d)

\* A document that is not spoilt has one writer at most; whoever is at it knows what it
\* needs; and if nobody is, and no change waits, it is settled.
Local(d) ==
    /\ d \notin spoilt => \A v, w \in Writers : Touches(v, d) /\ Touches(w, d) => v = w
    /\ \A w \in Writers : At(w, d) => Progress(w) /\ Reads(w)
    /\ \A w \in Writers : All(w) => Lists(w, d)
    /\ d \notin spoilt \cup changed =>
         file[d] = None \/ (\E w \in Writers : Touches(w, d)) \/ Settled(d)

DocsInv == \A d \in Docs : Local(d)

-----------------------------------------------------------------------------
(* The inductive invariant: _ids and what is loaded *)

\* Every _id has a count of its own; where _ids have always grown they are in the order
\* of their counts.
IdsInv ==
    /\ \A i \in Ids : i[3] <= made
    /\ \A i, j \in Ids : i[3] = j[3] => i = j
    /\ ordered => \A i, j \in Ids : i[3] < j[3] => Before(i, j)

\* An _id that has been seen was made before now.
Id      == Nat \X Nat \X Nat
Seen(i) == i = None \/ (i \in Id /\ i[3] <= made)

Pending == \E w \in Writers : job[w].pc \in {"put_embs", "put_all"}
Whole   == ordered /\ ~torn /\ ~Pending

CacheInv ==
    /\ DOMAIN search = DOMAIN NoSearch
    /\ ordered /\ cache.docs # None => Seen(cache.newest)
    /\ ordered /\ search.pc = "load" => Seen(search.newest)
    /\ Whole /\ cache.docs # None /\ cache.newest = NewestId => cache.docs = embs

-----------------------------------------------------------------------------
(* Lemmas on texts, lists and what is inserted *)

LEMMA CutChunks ==
  ASSUME NEW t \in Texts
  PROVE  /\ Cut(t) \in Seq(Chunked)
         /\ Cut(t) = <<>> <=> t = Blank
         /\ t # Blank => Cut(t) = <<t>> /\ t \in Chunked
<1>1. CASE t = Blank
  BY <1>1 DEF Cut
<1>2. CASE t # Blank
  <2>1. t \in Chunked /\ Cut(t) = <<t>>
    BY <1>2 DEF Cut, Chunked
  <2>. QED BY <1>2, <2>1
<1>. QED BY <1>1, <1>2

\* Each of the lists that SetToSeqs makes of a set names every element once.
LEMMA Listed ==
  ASSUME NEW S, IsFiniteSet(S), NEW s \in SetToSeqs(S)
  PROVE  /\ s \in Seq(S) /\ DOMAIN s = 1 .. Len(s) /\ Len(s) \in Nat
         /\ Len(s) = Cardinality(S)
         /\ \A i, j \in DOMAIN s : s[i] = s[j] => i = j
         /\ \A x \in S : \E i \in DOMAIN s : s[i] = x
<1> DEFINE n == Cardinality(S)
<1>1. n \in Nat
  BY FS_CardinalityType
<1>2. s \in [1 .. n -> S] /\ \A i, j \in 1 .. n : i # j => s[i] # s[j]
  BY DEF SetToSeqs
<1>3. s \in Injection(1 .. n, S)
  BY <1>2 DEF Injection, IsInjective
<1>4. IsFiniteSet(1 .. n) /\ Cardinality(1 .. n) = n
  BY <1>1, FS_Interval
<1>5. s \in Surjection(1 .. n, S)
  BY <1>3, <1>4, FS_Injection
<1>6. \A x \in S : \E i \in 1 .. n : s[i] = x
  BY <1>5 DEF Surjection
<1>. QED BY <1>1, <1>2, <1>6

LEMMA NewTypes ==
  ASSUME Typed, NEW w \in Writers, NEW now \in Nat, NEW n \in Nat,
         NEW pairs \in [1 .. n -> Docs \X Chunked]
  PROVE  /\ NewEmbs(w, now, pairs) \subseteq Embedding
         /\ \A i \in 1 .. n : <<now, job[w].rank, made + i>> \in Nat \X (Ranks \cup {1}) \X Nat
<1>1. made \in Nat /\ job[w].rank \in Ranks \cup {1} /\ DOMAIN pairs = 1 .. n
  BY DEF Typed, Job
<1>2. \A i \in 1 .. n : <<now, job[w].rank, made + i>> \in Nat \X (Ranks \cup {1}) \X Nat
  BY <1>1
<1>3. \A i \in 1 .. n : pairs[i][1] \in Docs /\ pairs[i][2] \in Texts \ {Blank}
  BY DEF Chunked
<1>4. ASSUME NEW e \in NewEmbs(w, now, pairs) PROVE e \in Embedding
  <2>1. PICK i \in 1 .. n : e = [id |-> <<now, job[w].rank, made + i>>,
                                 doc |-> pairs[i][1], text |-> pairs[i][2]]
    BY <1>1, <1>4 DEF NewEmbs
  <2>. QED BY <1>2, <1>3, <2>1 DEF Embedding
<1>. QED BY <1>2, <1>4

LEMMA NewMembers ==
  ASSUME NEW w, NEW now, NEW pairs, NEW e
  PROVE  e \in NewEmbs(w, now, pairs) <=>
           \E i \in DOMAIN pairs : e = [id |-> <<now, job[w].rank, made + i>>,
                                        doc |-> pairs[i][1], text |-> pairs[i][2]]
  BY DEF NewEmbs

-----------------------------------------------------------------------------
(* Types *)

LEMMA NoJobFits == ASSUME NEW w \in Writers PROVE NoJob \in Job /\ Fits(w, NoJob)
  BY FS_EmptySet DEF NoJob, Job, Fits, OneDoc, Writing, AllDocs

LEMMA DoneFits ==
  ASSUME NEW w \in Writers, NEW r \in Job, Fits(w, r), r.pc # "idle"
  PROVE  Done(r) \in Job /\ Fits(w, Done(r))
<1>1. CASE r.kind = "backfill"
  <2>1. Done(r) = [r EXCEPT !.pc = "next", !.doc = None, !.text = None]
    BY <1>1 DEF Done
  <2>. QED BY <1>1, <2>1 DEF Job, Fits, OneDoc, Writing, AllDocs
<1>2. CASE r.kind # "backfill"
  BY <1>2, NoJobFits DEF Done
<1>. QED BY <1>1, <1>2

\* One writer turns to something else.
LEMMA JobsStep ==
  ASSUME Typed, NEW w \in Writers, NEW r \in Job, Fits(w, r), job' = [job EXCEPT ![w] = r]
  PROVE  /\ job' \in [Writers -> Job]
         /\ \A v \in Writers : Fits(v, job[v])'
         /\ job'[w] = r /\ \A v \in Others(w) : job'[v] = job[v]
<1>1. job \in [Writers -> Job] /\ \A v \in Writers : Fits(v, job[v])
  BY DEF Typed
<1>2. job' \in [Writers -> Job] /\ job'[w] = r /\ \A v \in Others(w) : job'[v] = job[v]
  BY <1>1 DEF Others
<1>3. ASSUME NEW v \in Writers PROVE Fits(v, job'[v])
  BY <1>1, <1>2, <1>3 DEF Others
<1>. QED BY <1>2, <1>3

\* The same when it has written to the collections.
LEMMA WroteStep ==
  ASSUME Typed, NEW w \in Writers, NEW r \in Job, Fits(w, r), Wrote(w, r)
  PROVE  /\ job' \in [Writers -> Job]
         /\ \A v \in Writers : Fits(v, job[v])'
         /\ job'[w] = r
         /\ \A v \in Others(w) : job'[v] = [job[v] EXCEPT !.alone = ~Active(v)]
<1>1. job \in [Writers -> Job] /\ \A v \in Writers : Fits(v, job[v])
  BY DEF Typed
<1>2. job'[w] = r /\ \A v \in Others(w) : job'[v] = [job[v] EXCEPT !.alone = ~Active(v)]
  BY DEF Wrote, Others
<1>3. ASSUME NEW v \in Others(w) PROVE job'[v] \in Job /\ Fits(v, job'[v])
  <2>1. job[v] \in Job /\ Fits(v, job[v]) /\ (~Active(v)) \in BOOLEAN
    BY <1>1 DEF Others, Active
  <2>2. PICK b \in BOOLEAN : job'[v] = [job[v] EXCEPT !.alone = b]
    BY <1>2, <2>1
  <2>. QED BY <2>1, <2>2 DEF Job, Fits
<1>4. ASSUME NEW v \in Writers PROVE job'[v] \in Job /\ Fits(v, job'[v])
  BY <1>2, <1>3, <1>4 DEF Others
<1>5. job' = [v \in Writers |-> job'[v]]
  BY DEF Wrote
<1>. QED BY <1>2, <1>4, <1>5

LEMMA InsertTypes ==
  ASSUME Typed, NEW w \in Writers, NEW n \in Nat, NEW pairs \in [1 .. n -> Docs \X Chunked],
         Insert(w, pairs)
  PROVE  /\ embs' \subseteq Embedding /\ second' \in Nat /\ made' \in Nat
         /\ torn' = FALSE /\ ordered' \in BOOLEAN
         /\ search'.pc \in {"idle", "newest", "load", "answered"}
<1>1. PICK now \in second .. MaxSecond : 
        /\ second' = now
        /\ embs' = embs \cup NewEmbs(w, now, pairs)
        /\ made' = made + Len(pairs)
        /\ torn' = FALSE
        /\ ordered' = (ordered /\ \A i \in Ids, e \in NewEmbs(w, now, pairs) : Before(i, e.id))
        /\ Disturb
  BY DEF Insert
<1>2. now \in Nat
  BY ConstantsAssumption DEF Typed
<1>3. Len(pairs) = n
  OBVIOUS
<1>4. embs' \subseteq Embedding /\ second' \in Nat /\ made' \in Nat
  BY <1>1, <1>2, <1>3, NewTypes DEF Typed
<1>5. ordered' \in BOOLEAN
  BY <1>1, Zenon DEF Typed
<1>6. search'.pc \in {"idle", "newest", "load", "answered"}
  BY <1>1 DEF Disturb, NoSearch, Typed
<1>. QED BY <1>1, <1>4, <1>5, <1>6

\* Turning to a document.
LEMMA TurnStep ==
  ASSUME Typed, NEW w \in Writers, NEW r \in Job, NEW d \in Docs, Turn(w, r, d),
         r.kind \in {"auto", "add", "backfill"}, r.kind = "backfill" => w # Daemon,
         IsFiniteSet(r.snap)
  PROVE  /\ job' \in [Writers -> Job]
         /\ \A v \in Writers : Fits(v, job[v])'
         /\ job'[w] = [r EXCEPT !.pc = "read", !.doc = d, !.alone = TRUE]
         /\ \A v \in Others(w) : job'[v] = job[v]
         /\ spoilt' \subseteq Docs
<1> DEFINE q == [r EXCEPT !.pc = "read", !.doc = d, !.alone = TRUE]
<1>1. q \in Job /\ Fits(w, q)
  BY DEF Job, Fits, OneDoc, Writing, AllDocs
<1>2. job' = [job EXCEPT ![w] = q] /\ spoilt' \subseteq Docs
  BY DEF Turn, Typed
<1>. QED BY <1>1, <1>2, JobsStep

LEMMA AnswersType == ASSUME Typed, NEW w PROVE Answers(w) \subseteq Docs
  BY DEF Typed, Answers

\* The writers' steps at one document.
LEMMA ReadTyped == ASSUME Typed, NEW w \in Writers, Read(w) PROVE Typed'
<1> DEFINE r == job[w]
           text == file[r.doc]
<1>1. r \in Job /\ Fits(w, r) /\ r.pc = "read" /\ r.doc \in Docs /\ text \in Texts \cup {None}
  BY DEF Typed, Read, Fits, OneDoc
<1>2. PICK q \in Job : job' = [job EXCEPT ![w] = q] /\ Fits(w, q)
  <2>1. CASE text = None
    <3>1. Done(r) \in Job /\ Fits(w, Done(r))
      BY <1>1, DoneFits
    <3>. QED BY <2>1, <3>1 DEF Read
  <2>2. CASE text # None
    <3>1. [r EXCEPT !.pc = "drop_chunks", !.text = text] \in Job
      BY <1>1 DEF Job, Writing, OneDoc
    <3>2. Fits(w, [r EXCEPT !.pc = "drop_chunks", !.text = text])
      BY <1>1, <2>2 DEF Job, Fits, Writing, OneDoc, AllDocs
    <3>. QED BY <2>2, <3>1, <3>2 DEF Read
  <2>. QED BY <2>1, <2>2
<1>3. job' \in [Writers -> Job] /\ \A v \in Writers : Fits(v, job[v])'
  BY <1>2, JobsStep
<1>. QED BY <1>3 DEF Typed, Read, docs, aux, ghosts

LEMMA DropChunksTyped == ASSUME Typed, NEW w \in Writers, DropChunks(w) PROVE Typed'
<1> DEFINE r == job[w]
<1>1. r \in Job /\ Fits(w, r) /\ r.pc = "drop_chunks" /\ r.doc \in Docs /\ r.text \in Texts
  BY DEF Typed, DropChunks, Fits, OneDoc, Writing
<1>2. chunks' \in [Docs -> Seq(Chunked)] /\ spoilt' \subseteq Docs
  BY <1>1, AnswersType DEF Typed, DropChunks
<1>3. PICK q \in Job : Wrote(w, q) /\ Fits(w, q)
  <2>1. CASE Cut(r.text) = <<>>
    <3>1. Done(r) \in Job /\ Fits(w, Done(r))
      BY <1>1, DoneFits
    <3>. QED BY <2>1, <3>1 DEF DropChunks
  <2>2. CASE Cut(r.text) # <<>>
    <3>1. [r EXCEPT !.pc = "put_chunks"] \in Job
      BY <1>1 DEF Job, Writing, OneDoc
    <3>2. Fits(w, [r EXCEPT !.pc = "put_chunks"])
      BY <1>1, <2>2, CutChunks DEF Job, Fits, Writing, OneDoc, AllDocs
    <3>. QED BY <2>2, <3>1, <3>2 DEF DropChunks
  <2>. QED BY <2>1, <2>2
<1>4. job' \in [Writers -> Job] /\ \A v \in Writers : Fits(v, job[v])'
  BY <1>3, WroteStep
<1>. QED BY <1>2, <1>4 DEF Typed, DropChunks, docs, aux

LEMMA PutChunksTyped == ASSUME Typed, NEW w \in Writers, PutChunks(w) PROVE Typed'
<1> DEFINE r == job[w]
           q == [r EXCEPT !.pc = "drop_embs"]
<1>1. r \in Job /\ Fits(w, r) /\ r.pc = "put_chunks" /\ r.doc \in Docs /\ r.text \in Texts
  BY DEF Typed, PutChunks, Fits, OneDoc, Writing
<1>2. chunks' \in [Docs -> Seq(Chunked)]
  <2>1. chunks[r.doc] \o Cut(r.text) \in Seq(Chunked)
    BY <1>1, CutChunks DEF Typed
  <2>. QED BY <1>1, <2>1 DEF Typed, PutChunks
<1>3. q \in Job /\ Fits(w, q) /\ Wrote(w, q)
  BY <1>1 DEF Job, Fits, Writing, OneDoc, AllDocs, PutChunks
<1>4. job' \in [Writers -> Job] /\ \A v \in Writers : Fits(v, job[v])'
  BY <1>3, WroteStep
<1>. QED BY <1>2, <1>4 DEF Typed, PutChunks, docs, aux, ghosts

LEMMA DropEmbsTyped == ASSUME Typed, NEW w \in Writers, DropEmbs(w) PROVE Typed'
<1> DEFINE r == job[w]
           q == [r EXCEPT !.pc = "put_embs"]
<1>1. r \in Job /\ Fits(w, r) /\ r.pc = "drop_embs"
  BY DEF Typed, DropEmbs
<1>2. embs' \subseteq Embedding /\ search'.pc \in {"idle", "newest", "load", "answered"}
  BY DEF Typed, DropEmbs, EmbsOf, Disturb, NoSearch
<1>3. q \in Job /\ Fits(w, q) /\ Wrote(w, q)
  BY <1>1 DEF Job, Fits, Writing, OneDoc, AllDocs, DropEmbs
<1>4. job' \in [Writers -> Job] /\ \A v \in Writers : Fits(v, job[v])'
  BY <1>3, WroteStep
<1>. QED BY <1>2, <1>4 DEF Typed, DropEmbs, docs, aux, ghosts

LEMMA PutEmbsTyped == ASSUME Typed, NEW w \in Writers, PutEmbs(w) PROVE Typed'
<1> DEFINE r == job[w]
           pairs == <<<<r.doc, r.text>>>>
<1>1. r \in Job /\ Fits(w, r) /\ r.pc = "put_embs" /\ r.doc \in Docs /\ r.text \in Chunked
  BY DEF Typed, PutEmbs, Fits, OneDoc, Writing, Chunked
<1>2. pairs \in [1 .. 1 -> Docs \X Chunked]
  BY <1>1
<1>3. /\ embs' \subseteq Embedding /\ second' \in Nat /\ made' \in Nat
      /\ torn' = FALSE /\ ordered' \in BOOLEAN
      /\ search'.pc \in {"idle", "newest", "load", "answered"}
  BY <1>2, InsertTypes DEF PutEmbs
<1>4. Done(r) \in Job /\ Fits(w, Done(r)) /\ Wrote(w, Done(r))
  BY <1>1, DoneFits DEF PutEmbs
<1>5. job' \in [Writers -> Job] /\ \A v \in Writers : Fits(v, job[v])'
  BY <1>4, WroteStep
<1>6. spoilt' \subseteq Docs
  BY AnswersType DEF PutEmbs
<1>. QED BY <1>3, <1>5, <1>6 DEF Typed, PutEmbs, docs

\* The chunks of all documents are finitely many.
LEMMA ChunksFinite ==
  ASSUME Typed
  PROVE  /\ IsFiniteSet(AllChunks) /\ AllChunks \subseteq Docs \X Nat \X Chunked
         /\ \A d \in Docs : {s \in AllChunks : s[1] = d} = ChunksOf(d)
<1>1. ASSUME NEW d \in Docs
      PROVE  /\ DOMAIN chunks[d] = 1 .. Len(chunks[d]) /\ Len(chunks[d]) \in Nat
             /\ \A i \in DOMAIN chunks[d] : i \in Nat /\ chunks[d][i] \in Chunked
  <2>1. chunks[d] \in Seq(Chunked)
    BY DEF Typed
  <2>. QED BY <2>1
<1>2. ASSUME NEW d \in Docs PROVE IsFiniteSet(ChunksOf(d))
  <2> DEFINE n == Len(chunks[d])
             f == [i \in 1 .. n |-> <<d, i, chunks[d][i]>>]
  <2>1. n \in Nat /\ DOMAIN chunks[d] = 1 .. n
    BY <1>1
  <2>2. IsFiniteSet(1 .. n)
    BY <2>1, FS_Interval
  <2>3. f \in Surjection(1 .. n, ChunksOf(d))
    BY <2>1 DEF Surjection, ChunksOf
  <2>. QED BY <2>2, <2>3, FS_Surjection
<1>3. IsFiniteSet({ChunksOf(d) : d \in Docs})
  <2> DEFINE g == [d \in Docs |-> ChunksOf(d)]
  <2>1. g \in Surjection(Docs, {ChunksOf(d) : d \in Docs})
    BY DEF Surjection
  <2>. QED BY <2>1, FS_Surjection, ConstantsAssumption
<1>4. AllChunks = UNION {ChunksOf(d) : d \in Docs}
  BY DEF AllChunks, ChunksOf
<1>5. IsFiniteSet(AllChunks)
  BY <1>2, <1>3, <1>4, FS_UNION
<1>6. ASSUME NEW s \in AllChunks
      PROVE  \E d \in Docs : \E i \in DOMAIN chunks[d] : s = <<d, i, chunks[d][i]>>
  <2>1. PICK d \in Docs : s \in ChunksOf(d)
    BY <1>4, <1>6
  <2>. QED BY <2>1 DEF ChunksOf
<1>7. AllChunks \subseteq Docs \X Nat \X Chunked
  BY <1>1, <1>6
<1>8. ASSUME NEW d \in Docs PROVE {s \in AllChunks : s[1] = d} = ChunksOf(d)
  <2>1. \A s \in ChunksOf(d) : s \in AllChunks /\ s[1] = d
    BY <1>4 DEF ChunksOf
  <2>2. \A s \in AllChunks : s[1] = d => s \in ChunksOf(d)
    BY <1>6 DEF ChunksOf
  <2>. QED BY <2>1, <2>2
<1>. QED BY <1>5, <1>7, <1>8

LEMMA DaemonSyncTyped == ASSUME Typed, NEW d \in Docs, DaemonSync(d) PROVE Typed'
<1>1. changed' \subseteq Docs /\ known' \subseteq Docs
  BY DEF Typed, DaemonSync
<1>2. job' \in [Writers -> Job] /\ (\A v \in Writers : Fits(v, job[v])') /\ spoilt' \subseteq Docs
  <2>1. CASE UNCHANGED <<job, spoilt>>
    BY <2>1 DEF Typed
  <2>2. CASE Turn(Daemon, [NoJob EXCEPT !.kind = "auto"], d)
    <3>1. Daemon \in Writers /\ [NoJob EXCEPT !.kind = "auto"] \in Job
      BY DEF Writers, NoJob, Job
    <3>. QED BY <2>2, <3>1, TurnStep, FS_EmptySet DEF NoJob
  <2>. QED BY <2>1, <2>2 DEF DaemonSync
<1>. QED BY <1>1, <1>2 DEF Typed, DaemonSync, aux

LEMMA ClientWrites == ASSUME NEW c \in Clients PROVE c \in Writers /\ c # Daemon
  BY ConstantsAssumption DEF Writers

LEMMA AddTyped == ASSUME Typed, NEW c \in Clients, NEW d \in Docs, Add(c, d) PROVE Typed'
<1>1. PICK n \in Ranks : Turn(c, [NoJob EXCEPT !.kind = "add", !.rank = n], d)
  BY DEF Add
<1>2. c \in Writers /\ [NoJob EXCEPT !.kind = "add", !.rank = n] \in Job
  BY <1>1, ClientWrites DEF NoJob, Job
<1>3. job' \in [Writers -> Job] /\ (\A v \in Writers : Fits(v, job[v])') /\ spoilt' \subseteq Docs
  BY <1>1, <1>2, TurnStep, FS_EmptySet DEF NoJob
<1>. QED BY <1>3 DEF Typed, Add, Command, docs

LEMMA BackfillTyped == ASSUME Typed, NEW c \in Clients, Backfill(c) PROVE Typed'
<1>1. PICK n \in Ranks : job' = [job EXCEPT ![c] =
            [NoJob EXCEPT !.kind = "backfill", !.pc = "next", !.todo = known, !.rank = n]]
  BY DEF Backfill
<1> DEFINE q == [NoJob EXCEPT !.kind = "backfill", !.pc = "next", !.todo = known, !.rank = n]
<1>2. c \in Writers /\ c # Daemon /\ q \in Job
  BY <1>1, ClientWrites DEF NoJob, Job, Typed
<1>3. Fits(c, q)
  BY <1>2, FS_EmptySet DEF NoJob, Fits, OneDoc, AllDocs, Writing
<1>4. job' \in [Writers -> Job] /\ (\A v \in Writers : Fits(v, job[v])')
  BY <1>1, <1>2, <1>3, JobsStep
<1>. QED BY <1>4 DEF Typed, Backfill, Command, docs

LEMMA NextCandidateTyped == ASSUME Typed, NEW c \in Clients, NextCandidate(c) PROVE Typed'
<1>1. /\ c \in Writers /\ c # Daemon /\ job[c] \in Job
      /\ job[c].kind = "backfill" /\ job[c].pc = "next" /\ IsFiniteSet(job[c].snap)
  BY ClientWrites DEF NextCandidate, Typed, Fits
<1>2. job' \in [Writers -> Job] /\ (\A v \in Writers : Fits(v, job[v])') /\ spoilt' \subseteq Docs
  <2>1. CASE job' = [job EXCEPT ![c] = NoJob] /\ UNCHANGED spoilt
    BY <1>1, <2>1, NoJobFits, JobsStep DEF Typed
  <2>2. ASSUME NEW d \in job[c].todo, Turn(c, [job[c] EXCEPT !.todo = @ \ {d}], d)
        PROVE  /\ job' \in [Writers -> Job] /\ (\A v \in Writers : Fits(v, job[v])')
               /\ spoilt' \subseteq Docs
    <3>1. d \in Docs /\ [job[c] EXCEPT !.todo = @ \ {d}] \in Job
      BY <1>1 DEF Job
    <3>2. /\ [job[c] EXCEPT !.todo = @ \ {d}].kind = "backfill"
          /\ IsFiniteSet([job[c] EXCEPT !.todo = @ \ {d}].snap)
      BY <1>1 DEF Job
    <3>. QED BY <1>1, <2>2, <3>1, <3>2, TurnStep
  <2>. QED BY <2>1, <2>2 DEF NextCandidate
<1>. QED BY <1>2 DEF Typed, NextCandidate, docs, aux

LEMMA EmbedTyped == ASSUME Typed, NEW c \in Clients, Embed(c) PROVE Typed'
<1>1. PICK n \in Ranks : job' = [job EXCEPT ![c] =
            [NoJob EXCEPT !.kind = "embed", !.pc = "drop_all", !.snap = AllChunks, !.rank = n]]
  BY DEF Embed
<1> DEFINE q == [NoJob EXCEPT !.kind = "embed", !.pc = "drop_all", !.snap = AllChunks, !.rank = n]
<1>2. c \in Writers /\ c # Daemon /\ q \in Job
  BY <1>1, ClientWrites, ChunksFinite DEF NoJob, Job, AllDocs
<1>3. Fits(c, q)
  BY <1>2, ChunksFinite DEF NoJob, Fits, OneDoc, AllDocs, Writing, Embed
<1>4. job' \in [Writers -> Job] /\ (\A v \in Writers : Fits(v, job[v])')
  BY <1>1, <1>2, <1>3, JobsStep
<1>5. spoilt' \subseteq Docs
  BY DEF Embed, Typed
<1>. QED BY <1>4, <1>5 DEF Typed, Embed, Command, docs

LEMMA DropAllTyped == ASSUME Typed, NEW c \in Clients, DropAll(c) PROVE Typed'
<1> DEFINE q == [job[c] EXCEPT !.pc = "put_all"]
<1>1. c \in Writers /\ job[c] \in Job /\ Fits(c, job[c]) /\ job[c].pc = "drop_all"
  BY ClientWrites DEF Typed, DropAll
<1>2. embs' \subseteq Embedding /\ search'.pc \in {"idle", "newest", "load", "answered"}
  BY DEF Typed, DropAll, Disturb, NoSearch
<1>3. q \in Job /\ Fits(c, q) /\ Wrote(c, q)
  BY <1>1 DEF Job, Fits, Writing, OneDoc, AllDocs, DropAll
<1>4. job' \in [Writers -> Job] /\ \A v \in Writers : Fits(v, job[v])'
  BY <1>1, <1>3, WroteStep
<1>. QED BY <1>2, <1>4 DEF Typed, DropAll, docs, aux, ghosts

\* The list of what embed inserts.
Pairs(s) == [i \in DOMAIN s |-> <<s[i][1], s[i][3]>>]

LEMMA PairsTyped ==
  ASSUME NEW S \in SUBSET (Docs \X Nat \X Chunked), IsFiniteSet(S), NEW s \in SetToSeqs(S)
  PROVE  /\ Len(s) \in Nat /\ DOMAIN s = 1 .. Len(s)
         /\ \A i \in DOMAIN s : s[i] \in S
         /\ Pairs(s) \in [1 .. Len(s) -> Docs \X Chunked]
<1>1. s \in Seq(S) /\ DOMAIN s = 1 .. Len(s) /\ Len(s) \in Nat
  BY Listed
<1>2. \A i \in DOMAIN s : s[i] \in S
  BY <1>1
<1>3. \A i \in DOMAIN s : s[i][1] \in Docs /\ s[i][3] \in Chunked
  BY <1>2
<1>. QED BY <1>1, <1>2, <1>3 DEF Pairs

LEMMA PutAllTyped ==
  ASSUME Typed, NEW c \in Clients, PutAll(c)
  PROVE  Typed'
<1>1. c \in Writers /\ job[c] \in Job /\ Fits(c, job[c]) /\ job[c].pc = "put_all"
  BY ClientWrites DEF Typed, PutAll
<1>2. PICK s \in SetToSeqs(job[c].snap) : Insert(c, Pairs(s))
  BY DEF PutAll, Pairs
<1>3. Len(s) \in Nat /\ Pairs(s) \in [1 .. Len(s) -> Docs \X Chunked]
  BY <1>1, <1>2, PairsTyped DEF Job, Fits
<1>4. /\ embs' \subseteq Embedding /\ second' \in Nat /\ made' \in Nat
      /\ torn' = FALSE /\ ordered' \in BOOLEAN
      /\ search'.pc \in {"idle", "newest", "load", "answered"}
  BY <1>1, <1>2, <1>3, InsertTypes
<1>5. job' \in [Writers -> Job] /\ \A v \in Writers : Fits(v, job[v])'
  BY <1>1, NoJobFits, WroteStep DEF PutAll
<1>. QED BY <1>4, <1>5 DEF Typed, PutAll, docs

LEMMA AbortTyped == ASSUME Typed, NEW w \in Writers, Abort(w) PROVE Typed'
<1>1. job[w] \in Job /\ Fits(w, job[w]) /\ job[w].pc # "idle"
  BY DEF Typed, Abort, Active
<1>2. PICK q \in {Done(job[w]), NoJob} : job' = [job EXCEPT ![w] = q]
  BY DEF Abort
<1>3. q \in Job /\ Fits(w, q)
  BY <1>1, <1>2, NoJobFits, DoneFits
<1>4. job' \in [Writers -> Job] /\ \A v \in Writers : Fits(v, job[v])'
  BY <1>2, <1>3, JobsStep
<1>5. spoilt' \subseteq Docs
  BY DEF Abort, Typed
<1>6. torn' \in BOOLEAN
  BY Zenon DEF Abort, Typed
<1>. QED BY <1>4, <1>5, <1>6 DEF Typed, Abort, docs, aux

LEMMA SearchTyped == ASSUME Typed, CountEmbs \/ NewestEmb \/ LoadEmbs PROVE Typed'
<1>1. search'.pc \in {"idle", "newest", "load", "answered"}
  <2>1. CASE CountEmbs
    BY <2>1 DEF CountEmbs, NoSearch
  <2>2. CASE NewestEmb
    BY <2>2 DEF NewestEmb, Answer, NoSearch, Typed
  <2>3. CASE LoadEmbs
    BY <2>3 DEF LoadEmbs, Answer, NoSearch
  <2>. QED BY <2>1, <2>2, <2>3
<1>2. UNCHANGED <<docs, chunks, embs, job, aux, ghosts>>
  BY DEF CountEmbs, NewestEmb, LoadEmbs
<1>. QED BY <1>1, <1>2 DEF Typed, docs, aux, ghosts

LEMMA ChangeTyped ==
  ASSUME Typed, NEW d \in Docs, NEW t \in Texts \cup {None}, Change(d, t)
  PROVE  Typed'
<1>1. file' \in [Docs -> Texts \cup {None}] /\ changed' \subseteq Docs
  BY DEF Typed, Change
<1>. QED BY <1>1 DEF Typed, Change, aux, ghosts


LEMMA TypedStep == ASSUME Typed, [Next]_vars PROVE Typed'
<1>1. CASE \E d \in Docs, t \in Texts \cup {None} : Change(d, t)
  BY <1>1, ChangeTyped
<1>2. CASE \E d \in Docs : DaemonSync(d)
  BY <1>2, DaemonSyncTyped
<1>3. CASE \E c \in Clients, d \in Docs : Add(c, d)
  BY <1>3, AddTyped
<1>4. CASE \E c \in Clients : Backfill(c) \/ NextCandidate(c) \/ Embed(c) \/ DropAll(c) \/ PutAll(c)
  BY <1>4, BackfillTyped, NextCandidateTyped, EmbedTyped, DropAllTyped, PutAllTyped
<1>5. CASE \E w \in Writers : Read(w) \/ DropChunks(w) \/ PutChunks(w) \/ DropEmbs(w) \/ PutEmbs(w)
  BY <1>5, ReadTyped, DropChunksTyped, PutChunksTyped, DropEmbsTyped, PutEmbsTyped
<1>6. CASE \E w \in Writers : Abort(w)
  BY <1>6, AbortTyped
<1>7. CASE CountEmbs \/ NewestEmb \/ LoadEmbs
  BY <1>7, SearchTyped
<1>8. CASE UNCHANGED vars
  BY <1>8 DEF vars, docs, aux, ghosts, Typed
<1>. QED BY <1>1, <1>2, <1>3, <1>4, <1>5, <1>6, <1>7, <1>8 DEF Next

\* The index of the beginning: the embeddings are those of an enumeration of the
\* documents that have chunks.
LEMMA Beginning ==
  ASSUME Init
  PROVE  \E s \in Seq(Docs) :
           /\ DOMAIN s = 1 .. Len(s) /\ Len(s) \in Nat /\ made = Len(s)
           /\ \A i, j \in DOMAIN s : s[i] = s[j] => i = j
           /\ \A i \in DOMAIN s : chunks[s[i]] # <<>>
           /\ \A d \in Docs : chunks[d] # <<>> => \E i \in DOMAIN s : s[i] = d
           /\ \A e : e \in embs <=>
                \E i \in DOMAIN s : e = [id |-> <<0, 1, i>>, doc |-> s[i], text |-> Start[s[i]]]
<1> DEFINE S == {d \in Docs : chunks[d] # <<>>}
<1>1. IsFiniteSet(S)
  BY FS_Subset, ConstantsAssumption
<1>2. PICK s \in SetToSeqs(S) :
        /\ embs = {[id |-> <<0, 1, i>>, doc |-> s[i], text |-> Start[s[i]]] : i \in DOMAIN s}
        /\ made = Len(s)
  BY DEF Init
<1>3. /\ s \in Seq(S) /\ DOMAIN s = 1 .. Len(s) /\ Len(s) \in Nat
      /\ \A i, j \in DOMAIN s : s[i] = s[j] => i = j
      /\ \A x \in S : \E i \in DOMAIN s : s[i] = x
  BY <1>1, Listed
<1>4. s \in Seq(Docs) /\ \A i \in DOMAIN s : s[i] \in S
  BY <1>3
<1>5. \A e : e \in embs <=>
        \E i \in DOMAIN s : e = [id |-> <<0, 1, i>>, doc |-> s[i], text |-> Start[s[i]]]
  BY <1>2
<1>. QED BY <1>2, <1>3, <1>4, <1>5

LEMMA InitTyped == ASSUME Init PROVE Typed
<1>1. PICK s \in Seq(Docs) :
        /\ DOMAIN s = 1 .. Len(s) /\ Len(s) \in Nat /\ made = Len(s)
        /\ \A i \in DOMAIN s : chunks[s[i]] # <<>>
        /\ \A e : e \in embs <=>
             \E i \in DOMAIN s : e = [id |-> <<0, 1, i>>, doc |-> s[i], text |-> Start[s[i]]]
  BY Beginning
<1>2. \A d \in Docs : chunks[d] = IF Start[d] = None THEN <<>> ELSE Cut(Start[d])
  BY DEF Init
<1>3. ASSUME NEW d \in Docs PROVE chunks[d] \in Seq(Chunked)
  <2>1. CASE Start[d] = None
    <3>1. chunks[d] = <<>>
      BY <1>2, <2>1
    <3>. QED BY <3>1
  <2>2. CASE Start[d] # None
    BY <1>2, <2>2, CutChunks, ConstantsAssumption
  <2>. QED BY <2>1, <2>2
<1>4. ASSUME NEW e \in embs PROVE e \in Embedding
  <2>1. PICK i \in DOMAIN s : e = [id |-> <<0, 1, i>>, doc |-> s[i], text |-> Start[s[i]]]
    BY <1>1
  <2>2. s[i] \in Docs /\ i \in Nat /\ chunks[s[i]] # <<>>
    BY <1>1
  <2>3. Start[s[i]] # None
    BY <1>2, <2>2
  <2>4. Start[s[i]] \in Texts \ {Blank}
    BY <1>2, <2>2, <2>3, CutChunks, ConstantsAssumption
  <2>. QED BY <2>1, <2>2, <2>4 DEF Embedding
<1>5. job \in [Writers -> Job] /\ \A w \in Writers : Fits(w, job[w])
  BY NoJobFits DEF Init
<1>6. chunks \in [Docs -> Seq(Chunked)]
  BY <1>3 DEF Init
<1>. QED BY <1>1, <1>4, <1>5, <1>6, ConstantsAssumption DEF Init, Typed, NoSearch

\* Types are kept, whatever overlaps and fails; no text that leaves no chunk is ever
\* embedded.
THEOREM TypeCorrect == Spec => []TypeOK
<1>1. Typed => TypeOK
  <2> SUFFICES ASSUME Typed PROVE TypeOK
    OBVIOUS
  <2>1. \A w \in Writers : job[w] \in Job
    BY DEF Typed
  <2>. QED BY <2>1 DEF Typed, TypeOK, Job, OneDoc, AllDocs, Writing, Chunked
<1>2. Init /\ [][Next]_vars => []Typed
  BY InitTyped, TypedStep, PTL
<1>. QED BY <1>1, <1>2, PTL DEF Spec

-----------------------------------------------------------------------------
(* Documents: what leaves a document alone *)

LEMMA TouchKinds ==
  ASSUME Typed, NEW w \in Writers, NEW d \in Docs
  PROVE  Touches(w, d) <=> At(w, d) \/ All(w)
<1>1. job[w] \in Job /\ Fits(w, job[w]) /\ d # None
  BY ConstantsAssumption DEF Typed
<1>. QED BY <1>1 DEF Touches, Active, Embeds, At, All, Job, Fits, OneDoc, AllDocs, Writing

LEMMA TouchKindsNext ==
  ASSUME Typed', NEW w \in Writers, NEW d \in Docs
  PROVE  Touches(w, d)' <=> At(w, d)' \/ All(w)'
<1>1. job'[w] \in Job /\ Fits(w, job[w])' /\ d # None
  BY ConstantsAssumption DEF Typed
<1>. QED BY <1>1 DEF Touches, Active, Embeds, At, All, Job, Fits, OneDoc, AllDocs, Writing

\* A writer that keeps its hands off the document, goes on with what it does there, or is
\* no longer alone.
SameAt(v, d) ==
    \/ job'[v] = job[v]
    \/ job'[v] = [job[v] EXCEPT !.alone = FALSE]
    \/ ~Touches(v, d) /\ ~Touches(v, d)'

\* Nothing happens to the document, except that it may be spoilt or change for the daemon
\* to see, or that the daemon sees that it has gone.
LEMMA Frame ==
  ASSUME Typed, Typed', NEW d \in Docs, Local(d),
         chunks'[d] = chunks[d], EmbsOf(d)' = EmbsOf(d),
         d \in changed => d \in changed' \/ file[d] = None, d \in spoilt => d \in spoilt',
         file'[d] = file[d] \/ d \in changed',
         \A v \in Writers : SameAt(v, d)
  PROVE  Local(d)'
<1>1. ASSUME NEW v \in Writers, Touches(v, d)'
      PROVE  /\ Touches(v, d) /\ job[v] \in Job
             /\ job'[v] = job[v] \/ job'[v] = [job[v] EXCEPT !.alone = FALSE]
  <2>1. job[v] \in Job
    BY DEF Typed
  <2>2. job'[v] = job[v] \/ job'[v] = [job[v] EXCEPT !.alone = FALSE]
    BY <1>1 DEF SameAt
  <2>3. Touches(v, d)
    BY <1>1, <2>1, <2>2 DEF Touches, Active, Embeds, Job
  <2>. QED BY <2>1, <2>2, <2>3
<1>2. ASSUME NEW v \in Writers, Touches(v, d) PROVE Touches(v, d)'
  <2>1. job[v] \in Job
    BY DEF Typed
  <2>2. job'[v] = job[v] \/ job'[v] = [job[v] EXCEPT !.alone = FALSE]
    BY <1>2 DEF SameAt
  <2>. QED BY <1>2, <2>1, <2>2 DEF Touches, Active, Embeds, Job
<1>3. ASSUME NEW v \in Writers, Touches(v, d)'
      PROVE  /\ job'[v].pc = job[v].pc /\ job'[v].doc = job[v].doc /\ job'[v].text = job[v].text
             /\ job'[v].snap = job[v].snap /\ (job'[v].alone => job[v].alone)
  BY <1>1, <1>3 DEF Job
<1>4. Settled(d) /\ d \notin changed' => Settled(d)'
  BY DEF Settled, EmbsOf
<1>5. ChunksOf(d)' = ChunksOf(d)
  BY DEF ChunksOf
<1>6. d \notin spoilt' => \A v, w \in Writers : Touches(v, d)' /\ Touches(w, d)' => v = w
  BY <1>1 DEF Local
<1>7. ASSUME NEW w \in Writers, At(w, d)' PROVE Progress(w)' /\ Reads(w)'
  <2>1. Touches(w, d)'
    BY <1>7, TouchKindsNext
  <2>2. At(w, d) /\ job'[w].doc = d /\ job[w].doc = d
    BY <1>3, <1>7, <2>1 DEF At
  <2>3. Progress(w) /\ Reads(w)
    BY <2>2 DEF Local
  <2>4. Progress(w)'
    BY <1>3, <2>1, <2>2, <2>3 DEF Progress
  <2>5. Reads(w)'
    BY <1>3, <1>4, <2>1, <2>2, <2>3 DEF Reads
  <2>. QED BY <2>4, <2>5
<1>8. ASSUME NEW w \in Writers, All(w)' PROVE Lists(w, d)'
  <2>1. Touches(w, d)'
    BY <1>8, TouchKindsNext
  <2>2. All(w)
    BY <1>3, <1>8, <2>1 DEF All
  <2>3. Lists(w, d)
    BY <2>2 DEF Local
  <2>. QED BY <1>3, <1>4, <1>5, <2>1, <2>3 DEF Lists
<1>9. d \notin spoilt' \cup changed' =>
        file'[d] = None \/ (\E w \in Writers : Touches(w, d)') \/ Settled(d)'
  BY <1>2, <1>4 DEF Local
<1>. QED BY <1>6, <1>7, <1>8, <1>9 DEF Local

LEMMA ChangeLocal ==
  ASSUME Typed, Typed', DocsInv, NEW c \in Docs, NEW t \in Texts \cup {None}, Change(c, t)
  PROVE  DocsInv'
<1> SUFFICES ASSUME NEW d \in Docs PROVE Local(d)'
  BY DEF DocsInv
<1>1. Local(d) /\ EmbsOf(d)' = EmbsOf(d) /\ \A v \in Writers : SameAt(v, d)
  BY DEF DocsInv, Change, EmbsOf, SameAt
<1>2. file'[d] = file[d] \/ d \in changed'
  BY DEF Change, Typed
<1>. QED BY <1>1, <1>2, Frame DEF Change, ghosts

\* Steps of the search, and none at all.
LEMMA StillLocal ==
  ASSUME Typed, Typed', DocsInv, UNCHANGED <<docs, chunks, embs, job, spoilt>>
  PROVE  DocsInv'
<1> SUFFICES ASSUME NEW d \in Docs PROVE Local(d)'
  BY DEF DocsInv
<1>1. Local(d) /\ EmbsOf(d)' = EmbsOf(d) /\ \A v \in Writers : SameAt(v, d)
  BY DEF DocsInv, EmbsOf, SameAt
<1>. QED BY <1>1, Frame DEF docs

\* A writer turns to a document: if somebody is at it, it is spoilt; if nobody is, the
\* writer finds it settled, or it is the daemon that has seen a change.
LEMMA TurnLocal ==
  ASSUME Typed, Typed', DocsInv, NEW w \in Writers, NEW r \in Job, NEW c \in Docs, Turn(w, r, c),
         \A d \in Docs : ~Touches(w, d),
         job'[w] = [r EXCEPT !.pc = "read", !.doc = c, !.alone = TRUE],
         \A v \in Others(w) : job'[v] = job[v],
         UNCHANGED <<file, chunks, embs>>,
         changed' = changed \/ (w = Daemon /\ changed' = changed \ {c})
  PROVE  DocsInv'
<1> SUFFICES ASSUME NEW d \in Docs PROVE Local(d)'
  BY DEF DocsInv
<1>1. Local(d) /\ EmbsOf(d)' = EmbsOf(d) /\ ~Touches(w, d)
  BY DEF DocsInv, EmbsOf
<1>2. job'[w].pc = "read" /\ job'[w].doc = c
  BY DEF Job
<1>3. Touches(w, d)' => d = c
  <2>1. ~All(w)'
    BY <1>2 DEF All, AllDocs
  <2>. QED BY <1>2, <2>1, TouchKindsNext DEF At
<1>4. \A v \in Writers : v # w => v \in Others(w) /\ job'[v] = job[v]
  BY DEF Others
<1>5. \A v \in Writers : v # w => (Touches(v, d)' <=> Touches(v, d))
  BY <1>4 DEF Touches, Active, Embeds
<1>6. CASE d # c
  <2>1. \A v \in Writers : SameAt(v, d)
    BY <1>1, <1>3, <1>4, <1>6 DEF SameAt
  <2>2. (d \in changed => d \in changed') /\ (d \in spoilt => d \in spoilt')
    BY <1>6 DEF Turn
  <2>. QED BY <1>1, <2>1, <2>2, Frame
<1>7. CASE d = c /\ \E v \in Others(w) : Touches(v, d)
  <2>1. d \in spoilt'
    BY <1>7 DEF Turn
  <2>2. ASSUME NEW v \in Writers, At(v, d)' PROVE Progress(v)' /\ Reads(v)'
    <3>1. job'[v].doc = d
      BY <2>2 DEF At
    <3>2. Reads(v)'
      BY <2>1, <3>1 DEF Reads
    <3>3. CASE v = w
      BY <1>2, <3>2, <3>3 DEF Progress
    <3>4. CASE v # w
      <4>1. At(v, d) /\ job'[v] = job[v]
        BY <1>4, <2>2, <3>4 DEF At
      <4>2. Progress(v)
        BY <1>1, <4>1 DEF Local
      <4>3. Progress(v)'
        BY <1>1, <2>1, <3>1, <4>1, <4>2 DEF Progress
      <4>. QED BY <3>2, <4>3
    <3>. QED BY <3>3, <3>4
  <2>3. ASSUME NEW v \in Writers, All(v)' PROVE Lists(v, d)'
    <3>1. v # w
      BY <1>2, <2>3 DEF All, AllDocs
    <3>2. job'[v] = job[v] /\ All(v)
      BY <1>4, <2>3, <3>1 DEF All
    <3>3. Lists(v, d) /\ ChunksOf(d)' = ChunksOf(d)
      BY <1>1, <3>2 DEF Local, ChunksOf
    <3>. QED BY <1>1, <2>1, <3>2, <3>3 DEF Lists
  <2>. QED BY <2>1, <2>2, <2>3 DEF Local
<1>8. CASE d = c /\ ~\E v \in Others(w) : Touches(v, d)
  <2>1. spoilt' = spoilt
    BY <1>8 DEF Turn
  <2>2. \A v \in Writers : ~Touches(v, d)
    BY <1>1, <1>4, <1>8
  <2>3. \A v \in Writers : Touches(v, d)' => v = w
    BY <1>5, <2>2
  <2>4. Touches(w, d)'
    BY <1>2, <1>8, TouchKindsNext DEF At, OneDoc
  <2>5. w # Daemon /\ d \notin spoilt' \cup changed' /\ file'[d] # None => Settled(d)'
    BY <1>1, <2>1, <2>2 DEF Local, Settled
  <2>6. ASSUME NEW v \in Writers, At(v, d)' PROVE Progress(v)' /\ Reads(v)'
    <3>1. v = w
      BY <2>3, <2>6, TouchKindsNext
    <3>2. job'[v].doc = d /\ job'[v].pc = "read"
      BY <1>2, <1>8, <3>1
    <3>3. Progress(v)'
      BY <3>2 DEF Progress
    <3>4. Reads(v)'
      BY <2>5, <3>1, <3>2 DEF Reads, Writing
    <3>. QED BY <3>3, <3>4
  <2>7. \A v \in Writers : ~All(v)'
    BY <1>2, <2>3, TouchKindsNext DEF All, AllDocs
  <2>. QED BY <2>3, <2>4, <2>6, <2>7 DEF Local
<1>. QED BY <1>6, <1>7, <1>8

LEMMA IdleAway == ASSUME NEW w, NEW d, ~Active(w) PROVE ~Touches(w, d)
  BY DEF Touches

LEMMA DaemonSyncLocal ==
  ASSUME Typed, Typed', DocsInv, NEW c \in Docs, DaemonSync(c)
  PROVE  DocsInv'
<1>1. ~Active(Daemon) /\ Daemon \in Writers /\ UNCHANGED <<file, chunks, embs>>
      /\ changed' = changed \ {c}
  BY DEF DaemonSync, Writers
<1>2. CASE file[c] = None
  <2>1. UNCHANGED <<job, spoilt>>
    BY <1>2 DEF DaemonSync
  <2> SUFFICES ASSUME NEW d \in Docs PROVE Local(d)'
    BY DEF DocsInv
  <2>2. Local(d) /\ EmbsOf(d)' = EmbsOf(d) /\ \A v \in Writers : SameAt(v, d)
    BY <1>1, <2>1 DEF DocsInv, EmbsOf, SameAt
  <2>3. d \in changed => d \in changed' \/ file[d] = None
    BY <1>1, <1>2
  <2>. QED BY <1>1, <2>1, <2>2, <2>3, Frame
<1>3. CASE file[c] # None
  <2> DEFINE r == [NoJob EXCEPT !.kind = "auto"]
  <2>1. Turn(Daemon, r, c)
    BY <1>3 DEF DaemonSync
  <2>2. /\ r \in Job /\ r.kind \in {"auto", "add", "backfill"} /\ r.kind # "backfill"
        /\ IsFiniteSet(r.snap)
    BY FS_EmptySet DEF NoJob, Job
  <2>3. /\ job'[Daemon] = [r EXCEPT !.pc = "read", !.doc = c, !.alone = TRUE]
        /\ \A v \in Others(Daemon) : job'[v] = job[v]
    <3> HIDE DEF r
    <3>. QED BY <1>1, <2>1, <2>2, TurnStep
  <2>. QED BY <1>1, <2>1, <2>2, <2>3, TurnLocal, IdleAway
<1>. QED BY <1>2, <1>3

LEMMA AddLocal ==
  ASSUME Typed, Typed', DocsInv, NEW w \in Clients, NEW c \in Docs, Add(w, c)
  PROVE  DocsInv'
<1>1. ~Active(w) /\ w \in Writers /\ UNCHANGED <<file, chunks, embs, changed>>
  BY ClientWrites DEF Add, Command, docs
<1>2. PICK n \in Ranks : Turn(w, [NoJob EXCEPT !.kind = "add", !.rank = n], c)
  BY DEF Add
<1> DEFINE r == [NoJob EXCEPT !.kind = "add", !.rank = n]
<1>3. /\ r \in Job /\ r.kind \in {"auto", "add", "backfill"} /\ r.kind # "backfill"
      /\ IsFiniteSet(r.snap)
  BY <1>2, FS_EmptySet DEF NoJob, Job
<1>4. /\ job'[w] = [r EXCEPT !.pc = "read", !.doc = c, !.alone = TRUE]
      /\ \A v \in Others(w) : job'[v] = job[v]
  <2>1. Turn(w, r, c)
    BY <1>2
  <2> HIDE DEF r
  <2>. QED BY <1>1, <1>3, <2>1, TurnStep
<1>. QED BY <1>1, <1>2, <1>3, <1>4, TurnLocal, IdleAway

\* Neither before nor after is the writer at any document, and nothing else changes.
LEMMA ElsewhereLocal ==
  ASSUME Typed, Typed', DocsInv, NEW w \in Writers, UNCHANGED <<docs, chunks, embs, spoilt>>,
         \A v \in Others(w) : job'[v] = job[v],
         \A d \in Docs : ~Touches(w, d) /\ ~Touches(w, d)'
  PROVE  DocsInv'
<1> SUFFICES ASSUME NEW d \in Docs PROVE Local(d)'
  BY DEF DocsInv
<1>1. Local(d) /\ EmbsOf(d)' = EmbsOf(d)
  BY DEF DocsInv, EmbsOf
<1>2. \A v \in Writers : SameAt(v, d)
  BY DEF SameAt, Others
<1>. QED BY <1>1, <1>2, Frame DEF docs

LEMMA NextAway ==
  ASSUME Typed, NEW w \in Writers, job[w].pc = "next", NEW d \in Docs
  PROVE  ~Touches(w, d)
  BY TouchKinds DEF At, All, OneDoc, AllDocs, Writing

LEMMA NextAwayNext ==
  ASSUME Typed', NEW w \in Writers, job'[w].pc \in {"idle", "next"}, NEW d \in Docs
  PROVE  ~Touches(w, d)'
  BY TouchKindsNext DEF At, All, OneDoc, AllDocs, Writing

LEMMA BackfillLocal ==
  ASSUME Typed, Typed', DocsInv, NEW w \in Clients, Backfill(w)
  PROVE  DocsInv'
<1>1. PICK n \in Ranks : job' = [job EXCEPT ![w] =
            [NoJob EXCEPT !.kind = "backfill", !.pc = "next", !.todo = known, !.rank = n]]
  BY DEF Backfill
<1>2. w \in Writers /\ ~Active(w) /\ UNCHANGED <<docs, chunks, embs, spoilt>>
  BY ClientWrites DEF Backfill, Command
<1>3. job'[w].pc = "next" /\ \A v \in Others(w) : job'[v] = job[v]
  BY <1>1, <1>2 DEF Typed, NoJob, Others
<1>. QED BY <1>2, <1>3, ElsewhereLocal, IdleAway, NextAwayNext

LEMMA NextCandidateLocal ==
  ASSUME Typed, Typed', DocsInv, NEW w \in Clients, NextCandidate(w)
  PROVE  DocsInv'
<1>1. /\ w \in Writers /\ w # Daemon /\ job[w] \in Job /\ job[w].pc = "next"
      /\ job[w].kind = "backfill" /\ IsFiniteSet(job[w].snap)
      /\ UNCHANGED <<docs, chunks, embs>>
  BY ClientWrites DEF NextCandidate, Typed, Fits
<1>2. \A d \in Docs : ~Touches(w, d)
  BY <1>1, NextAway
<1>3. CASE job' = [job EXCEPT ![w] = NoJob] /\ UNCHANGED spoilt
  <2>1. job'[w].pc = "idle" /\ \A v \in Others(w) : job'[v] = job[v]
    BY <1>1, <1>3 DEF Typed, NoJob, Others
  <2>. QED BY <1>1, <1>2, <1>3, <2>1, ElsewhereLocal, NextAwayNext
<1>4. ASSUME NEW c \in job[w].todo, Turn(w, [job[w] EXCEPT !.todo = @ \ {c}], c)
      PROVE  DocsInv'
  <2> DEFINE r == [job[w] EXCEPT !.todo = @ \ {c}]
  <2>1. c \in Docs /\ r \in Job /\ r.kind = "backfill" /\ IsFiniteSet(r.snap)
    BY <1>1 DEF Job
  <2>2. /\ job'[w] = [r EXCEPT !.pc = "read", !.doc = c, !.alone = TRUE]
        /\ \A v \in Others(w) : job'[v] = job[v]
    BY <1>1, <1>4, <2>1, TurnStep
  <2>. QED BY <1>1, <1>2, <1>4, <2>1, <2>2, TurnLocal DEF docs
<1>. QED BY <1>3, <1>4 DEF NextCandidate

-----------------------------------------------------------------------------
(* Documents: the writers' steps *)

LEMMA SameTouch ==
  ASSUME Typed, NEW v \in Writers, NEW d \in Docs, SameAt(v, d)
  PROVE  Touches(v, d)' <=> Touches(v, d)
<1>1. job[v] \in Job
  BY DEF Typed
<1>. QED BY <1>1 DEF SameAt, Touches, Active, Embeds, Job

\* A write takes nobody else anywhere, and leaves nobody else alone.
LEMMA WroteSame ==
  ASSUME Typed, NEW w \in Writers, NEW q, Wrote(w, q), NEW v \in Others(w), NEW d \in Docs
  PROVE  /\ SameAt(v, d)
         /\ Touches(v, d)' => job'[v].alone = FALSE
<1>1. v \in Writers /\ job[v] \in Job /\ job'[v] = [job[v] EXCEPT !.alone = ~Active(v)]
  BY DEF Typed, Wrote, Others
<1>2. CASE Active(v)
  <2>1. job'[v] = [job[v] EXCEPT !.alone = FALSE]
    BY <1>1, <1>2
  <2>. QED BY <1>1, <2>1 DEF SameAt, Job
<1>3. CASE ~Active(v)
  <2>1. job'[v].pc = "idle"
    BY <1>1, <1>3 DEF Active, Job
  <2>. QED BY <1>3, <2>1 DEF SameAt, Touches, Active
<1>. QED BY <1>2, <1>3

\* The writer at a document writes there.
LEMMA WriteLocal ==
  ASSUME Typed, Typed', NEW d \in Docs, Local(d), NEW w \in Writers, NEW q, Wrote(w, q),
         d \notin spoilt' => \A v \in Others(w) : ~Touches(v, d),
         At(w, d)' => Progress(w)' /\ Reads(w)',
         All(w)' => Lists(w, d)',
         d \notin spoilt' \cup changed' /\ file'[d] # None => Touches(w, d)' \/ Settled(d)'
  PROVE  Local(d)'
<1>1. \A v \in Writers : v # w => v \in Others(w)
  BY DEF Others
<1>2. \A v \in Others(w) : v \in Writers /\ SameAt(v, d) /\ (Touches(v, d)' => job'[v].alone = FALSE)
  BY WroteSame DEF Others
<1>3. \A v \in Others(w) : Touches(v, d)' => Touches(v, d)
  BY <1>2, SameTouch
<1>4. d \notin spoilt' => \A v \in Writers : Touches(v, d)' => v = w
  BY <1>1, <1>3
<1>5. ASSUME NEW v \in Writers, At(v, d)' PROVE Progress(v)' /\ Reads(v)'
  <2>1. CASE v = w
    BY <1>5, <2>1
  <2>2. CASE v # w
    <3>1. Touches(v, d)' /\ job'[v].doc = d
      BY <1>5, TouchKindsNext DEF At
    <3>2. d \in spoilt' /\ job'[v].alone = FALSE
      BY <1>1, <1>2, <1>4, <2>2, <3>1
    <3>. QED BY <3>1, <3>2 DEF Progress, Reads
  <2>. QED BY <2>1, <2>2
<1>6. ASSUME NEW v \in Writers, All(v)' PROVE Lists(v, d)'
  <2>1. CASE v = w
    BY <1>6, <2>1
  <2>2. CASE v # w
    <3>1. Touches(v, d)'
      BY <1>6, TouchKindsNext
    <3>2. d \in spoilt' /\ job'[v].alone = FALSE
      BY <1>1, <1>2, <1>4, <2>2, <3>1
    <3>. QED BY <3>2 DEF Lists
  <2>. QED BY <2>1, <2>2
<1>. QED BY <1>4, <1>5, <1>6 DEF Local

\* A writer at one document writes there, and stays or leaves.
LEMMA OneDocLocal ==
  ASSUME Typed, Typed', DocsInv, NEW w \in Writers, NEW c \in Docs,
         job[w].pc \in Writing, job[w].doc = c,
         NEW q \in Job, Wrote(w, q), q.pc \notin AllDocs, q.doc \in {c, None},
         UNCHANGED <<file, changed>>,
         \A d \in Docs \ {c} : chunks'[d] = chunks[d] /\ EmbsOf(d)' = EmbsOf(d),
         spoilt' = spoilt \/ spoilt' = Answers(w),
         At(w, c)' => Progress(w)' /\ Reads(w)',
         c \notin spoilt' \cup changed' /\ file'[c] # None => At(w, c)' \/ Settled(c)'
  PROVE  DocsInv'
<1> SUFFICES ASSUME NEW d \in Docs PROVE Local(d)'
  BY DEF DocsInv
<1>1. At(w, c) /\ ~All(w) /\ job'[w] = q /\ ~All(w)' /\ Local(d) /\ d # None
  BY ConstantsAssumption DEF At, All, Writing, OneDoc, AllDocs, Wrote, DocsInv
<1>2. CASE d = c
  <2>1. Touches(w, d)
    BY <1>1, <1>2, TouchKinds
  <2>2. ASSUME d \notin spoilt', NEW v \in Others(w) PROVE ~Touches(v, d)
    <3>1. v \in Writers /\ v # w
      BY <2>2 DEF Others
    <3>2. CASE d \notin spoilt
      BY <1>1, <2>1, <3>1, <3>2 DEF Local
    <3>3. CASE d \in spoilt
      BY <1>2, <2>2, <3>3 DEF Answers
    <3>. QED BY <3>2, <3>3
  <2>3. At(w, d)' => Touches(w, d)'
    BY TouchKindsNext
  <2>. QED BY <1>1, <1>2, <2>2, <2>3, WriteLocal
<1>3. CASE d # c
  <2>1. ~Touches(w, d) /\ ~Touches(w, d)'
    BY <1>1, <1>3, TouchKinds, TouchKindsNext DEF At
  <2>2. \A v \in Writers : SameAt(v, d)
    BY <2>1, WroteSame DEF SameAt, Others
  <2>3. d \in spoilt => d \in spoilt'
    BY <1>3 DEF Answers
  <2>. QED BY <1>1, <1>3, <2>2, <2>3, Frame
<1>. QED BY <1>2, <1>3

\* What a writer that writes knows of its document.
LEMMA AtWork ==
  ASSUME Typed, DocsInv, NEW w \in Writers, job[w].pc \in Writing
  PROVE  /\ job[w] \in Job /\ job[w].doc \in Docs /\ job[w].text \in Texts
         /\ At(w, job[w].doc) /\ Progress(w) /\ Reads(w)
<1>1. job[w] \in Job /\ job[w].doc \in Docs /\ job[w].text \in Texts
  BY DEF Typed, Fits, OneDoc, Writing
<1>2. At(w, job[w].doc)
  BY DEF At, OneDoc
<1>. QED BY <1>1, <1>2 DEF DocsInv, Local

LEMMA DoneAway ==
  ASSUME NEW r \in Job
  PROVE  /\ Done(r) \in Job
         /\ Done(r).pc \notin OneDoc \cup AllDocs /\ Done(r).doc = None
<1>1. NoJob \in Job /\ NoJob.pc = "idle" /\ NoJob.doc = None
  BY FS_EmptySet DEF NoJob, Job
<1>2. CASE r.kind = "backfill"
  BY <1>2 DEF Done, Job, OneDoc, AllDocs, Writing
<1>3. CASE r.kind # "backfill"
  BY <1>1, <1>3 DEF Done, OneDoc, AllDocs, Writing
<1>. QED BY <1>2, <1>3

LEMMA DropChunksLocal ==
  ASSUME Typed, Typed', DocsInv, NEW w \in Writers, DropChunks(w)
  PROVE  DocsInv'
<1> DEFINE r == job[w]
<1>1. r.pc = "drop_chunks" /\ r.pc \in Writing
  BY DEF DropChunks, Writing
<1>2. PICK c \in Docs : c = r.doc /\ r \in Job /\ r.text \in Texts /\ Progress(w) /\ Reads(w)
  BY <1>1, AtWork
<1>3. /\ chunks' = [chunks EXCEPT ![c] = <<>>] /\ UNCHANGED <<file, changed, embs>>
      /\ chunks \in [Docs -> Seq(Chunked)]
  BY <1>2 DEF DropChunks, docs, Typed
<1>4. chunks'[c] = <<>> /\ \A d \in Docs \ {c} : chunks'[d] = chunks[d] /\ EmbsOf(d)' = EmbsOf(d)
  BY <1>2, <1>3 DEF EmbsOf
<1>5. CASE Cut(r.text) = <<>>
  <2>1. /\ Wrote(w, Done(r)) /\ spoilt' = Answers(w)
        /\ Done(r) \in Job /\ Done(r).pc \notin OneDoc \cup AllDocs /\ Done(r).doc = None
        /\ job'[w] = Done(r)
    BY <1>2, <1>5, DoneAway DEF DropChunks, Wrote
  <2>2. ~At(w, c)'
    BY <2>1 DEF At
  <2>3. ASSUME c \notin spoilt' \cup changed', file'[c] # None PROVE Settled(c)'
    <3>1. r.text = file[c]
      BY <1>1, <1>3, <1>2, <2>1, <2>3 DEF Answers, Reads
    <3>2. file[c] = Blank /\ Cut(file[c]) = <<>>
      BY <1>2, <1>5, <3>1, CutChunks
    <3>. QED BY <1>3, <1>4, <3>2 DEF Settled, Cut
  <2>4. PICK q \in Job : q = Done(r) /\ Wrote(w, q) /\ q.pc \notin AllDocs /\ q.doc \in {c, None}
    BY <2>1
  <2>. QED BY <1>1, <1>2, <1>3, <1>4, <2>1, <2>2, <2>3, <2>4, OneDocLocal
<1>6. CASE Cut(r.text) # <<>>
  <2> DEFINE q == [r EXCEPT !.pc = "put_chunks"]
  <2>1. Wrote(w, q) /\ spoilt' = spoilt /\ job'[w] = q
    BY <1>6 DEF DropChunks, Wrote
  <2>2. /\ q \in Job /\ q.pc = "put_chunks" /\ q.pc \notin AllDocs /\ q.doc = c
        /\ q.text = r.text
    BY <1>2 DEF Job, OneDoc, Writing, AllDocs
  <2>3. Progress(w)'
    BY <1>4, <2>1, <2>2 DEF Progress
  <2>4. Reads(w)'
    BY <1>1, <1>2, <1>3, <2>1, <2>2 DEF Reads
  <2>5. At(w, c)'
    BY <2>1, <2>2 DEF At, OneDoc, Writing
  <2>. QED BY <1>1, <1>2, <1>3, <1>4, <2>1, <2>2, <2>3, <2>4, <2>5, OneDocLocal
<1>. QED BY <1>5, <1>6

LEMMA PutChunksLocal ==
  ASSUME Typed, Typed', DocsInv, NEW w \in Writers, PutChunks(w)
  PROVE  DocsInv'
<1> DEFINE r == job[w]
           q == [r EXCEPT !.pc = "drop_embs"]
<1>1. r.pc = "put_chunks" /\ r.pc \in Writing
  BY DEF PutChunks, Writing
<1>2. PICK c \in Docs : c = r.doc /\ r \in Job /\ r.text \in Texts /\ Progress(w) /\ Reads(w)
  BY <1>1, AtWork
<1>3. /\ chunks' = [chunks EXCEPT ![c] = chunks[c] \o Cut(r.text)]
      /\ UNCHANGED <<file, changed, embs, spoilt>>
      /\ chunks \in [Docs -> Seq(Chunked)]
  BY <1>2 DEF PutChunks, docs, Typed, ghosts
<1>4. /\ chunks'[c] = chunks[c] \o Cut(r.text)
      /\ \A d \in Docs \ {c} : chunks'[d] = chunks[d] /\ EmbsOf(d)' = EmbsOf(d)
  BY <1>2, <1>3 DEF EmbsOf
<1>5. Wrote(w, q) /\ job'[w] = q
  BY DEF PutChunks, Wrote
<1>6. /\ q \in Job /\ q.pc = "drop_embs" /\ q.pc \notin AllDocs /\ q.doc = c
      /\ q.text = r.text /\ q.alone = r.alone
  BY <1>2 DEF Job, OneDoc, Writing, AllDocs
<1>7. Progress(w)'
  <2>1. Cut(r.text) \in Seq(Chunked)
    BY <1>2, CutChunks
  <2>2. <<>> \o Cut(r.text) = Cut(r.text)
    BY <2>1
  <2>. QED BY <1>1, <1>2, <1>3, <1>4, <1>5, <1>6, <2>2 DEF Progress
<1>8. Reads(w)'
  BY <1>1, <1>2, <1>3, <1>5, <1>6 DEF Reads
<1>9. At(w, c)'
  BY <1>5, <1>6 DEF At, OneDoc, Writing
<1>. QED BY <1>1, <1>2, <1>3, <1>4, <1>5, <1>6, <1>7, <1>8, <1>9, OneDocLocal

LEMMA DropEmbsLocal ==
  ASSUME Typed, Typed', DocsInv, NEW w \in Writers, DropEmbs(w)
  PROVE  DocsInv'
<1> DEFINE r == job[w]
           q == [r EXCEPT !.pc = "put_embs"]
<1>1. r.pc = "drop_embs" /\ r.pc \in Writing
  BY DEF DropEmbs, Writing
<1>2. PICK c \in Docs : c = r.doc /\ r \in Job /\ r.text \in Texts /\ Progress(w) /\ Reads(w)
  BY <1>1, AtWork
<1>3. embs' = embs \ EmbsOf(c) /\ UNCHANGED <<file, changed, chunks, spoilt>>
  BY <1>2 DEF DropEmbs, docs, ghosts
<1>4. EmbsOf(c)' = {} /\ \A d \in Docs \ {c} : chunks'[d] = chunks[d] /\ EmbsOf(d)' = EmbsOf(d)
  BY <1>2, <1>3 DEF EmbsOf
<1>5. Wrote(w, q) /\ job'[w] = q
  BY DEF DropEmbs, Wrote
<1>6. /\ q \in Job /\ q.pc = "put_embs" /\ q.pc \notin AllDocs /\ q.doc = c
      /\ q.text = r.text /\ q.alone = r.alone
  BY <1>2 DEF Job, OneDoc, Writing, AllDocs
<1>7. Progress(w)'
  BY <1>1, <1>2, <1>3, <1>4, <1>5, <1>6 DEF Progress, EmbsOf
<1>8. Reads(w)'
  BY <1>1, <1>2, <1>3, <1>5, <1>6 DEF Reads
<1>9. At(w, c)'
  BY <1>5, <1>6 DEF At, OneDoc, Writing
<1>. QED BY <1>1, <1>2, <1>3, <1>4, <1>5, <1>6, <1>7, <1>8, <1>9, OneDocLocal

\* What an insertion does to the embeddings of each document.
LEMMA InsertEmbs ==
  ASSUME NEW w, NEW pairs, Insert(w, pairs)
  PROVE  \E now \in second .. MaxSecond : embs' = embs \cup NewEmbs(w, now, pairs)
  BY DEF Insert

LEMMA PutEmbsLocal ==
  ASSUME Typed, Typed', DocsInv, NEW w \in Writers, PutEmbs(w)
  PROVE  DocsInv'
<1> DEFINE r == job[w]
           one == <<<<r.doc, r.text>>>>
<1>1. r.pc = "put_embs" /\ r.pc \in Writing
  BY DEF PutEmbs, Writing
<1>2. PICK c \in Docs : c = r.doc /\ r \in Job /\ r.text \in Texts /\ Progress(w) /\ Reads(w)
  BY <1>1, AtWork
<1>3. UNCHANGED <<file, changed, chunks>> /\ spoilt' = Answers(w) /\ Insert(w, one)
  BY DEF PutEmbs, docs
<1>4. PICK now : embs' = embs \cup NewEmbs(w, now, one)
  BY <1>3, InsertEmbs
<1> DEFINE e == [id |-> <<now, job[w].rank, made + 1>>, doc |-> c, text |-> r.text]
<1>5. NewEmbs(w, now, one) = {e}
  <2>1. DOMAIN one = {1} /\ one[1][1] = c /\ one[1][2] = r.text
    BY <1>2
  <2>. QED BY <2>1 DEF NewEmbs
<1>6. EmbsOf(c)' = EmbsOf(c) \cup {e} /\ e.text = r.text
  BY <1>4, <1>5 DEF EmbsOf
<1>7. \A d \in Docs \ {c} : chunks'[d] = chunks[d] /\ EmbsOf(d)' = EmbsOf(d)
  BY <1>3, <1>4, <1>5 DEF EmbsOf
<1>8. PICK q \in Job : /\ q = Done(r) /\ Wrote(w, q) /\ job'[w] = q /\ q.doc = None
                       /\ q.pc \notin OneDoc \cup AllDocs
  BY <1>2, DoneAway DEF PutEmbs, Wrote
<1>9. ~At(w, c)'
  BY <1>8 DEF At
<1>10. ASSUME c \notin spoilt' \cup changed', file'[c] # None PROVE Settled(c)'
  <2>1. r.text = file[c] /\ (r.alone \/ c \notin spoilt)
    BY <1>1, <1>2, <1>3, <1>10 DEF Answers, Reads
  <2>2. chunks[c] = Cut(file[c]) /\ EmbsOf(c) = {}
    BY <1>1, <1>2, <2>1 DEF Progress
  <2>3. EmbsOf(c)' = {e} /\ e.text = file'[c]
    BY <1>3, <1>6, <2>1, <2>2
  <2>4. chunks'[c] = Cut(file'[c])
    BY <1>3, <2>2 DEF Cut
  <2>. QED BY <2>3, <2>4 DEF Settled, Cut
<1>. QED BY <1>1, <1>2, <1>3, <1>7, <1>8, <1>9, <1>10, OneDocLocal

\* Who embeds everything is at every document.
LEMMA AllTouch ==
  ASSUME Typed, DocsInv, NEW w \in Writers, All(w), NEW d \in Docs
  PROVE  /\ job[w] \in Job /\ Local(d) /\ Touches(w, d) /\ Lists(w, d)
         /\ d \notin spoilt => \A v \in Others(w) : ~Touches(v, d)
<1>1. job[w] \in Job /\ Local(d) /\ Touches(w, d) /\ Lists(w, d)
  BY TouchKinds DEF Typed, DocsInv, Local
<1>. QED BY <1>1 DEF Local, Others

LEMMA DropAllLocal ==
  ASSUME Typed, Typed', DocsInv, NEW w \in Clients, DropAll(w)
  PROVE  DocsInv'
<1> SUFFICES ASSUME NEW d \in Docs PROVE Local(d)'
  BY DEF DocsInv
<1> DEFINE q == [job[w] EXCEPT !.pc = "put_all"]
<1>1. w \in Writers /\ job[w].pc = "drop_all" /\ All(w)
  BY ClientWrites DEF DropAll, All, AllDocs
<1>2. UNCHANGED <<file, changed, chunks, spoilt>> /\ embs' = {} /\ Wrote(w, q) /\ job'[w] = q
  BY <1>1 DEF DropAll, docs, ghosts, Wrote
<1>3. /\ Local(d) /\ Lists(w, d)
      /\ d \notin spoilt => \A v \in Others(w) : ~Touches(v, d)
  BY <1>1, AllTouch
<1>4. q.pc = "put_all" /\ q.snap = job[w].snap /\ q.alone = job[w].alone
  BY <1>1, AllTouch DEF Job
<1>5. ~At(w, d)' /\ All(w)'
  BY <1>2, <1>4 DEF At, All, OneDoc, AllDocs, Writing
<1>6. EmbsOf(d)' = {} /\ ChunksOf(d)' = ChunksOf(d)
  BY <1>2 DEF EmbsOf, ChunksOf
<1>7. Lists(w, d)'
  BY <1>2, <1>3, <1>4, <1>6 DEF Lists, Cut
<1>8. Touches(w, d)'
  BY <1>1, <1>5, TouchKindsNext
<1>. QED BY <1>1, <1>2, <1>3, <1>5, <1>7, <1>8, WriteLocal

\* What embed inserts: for each chunk listed an embedding of its own.
New(w, now, s, i) == [id |-> <<now, job[w].rank, made + i>>, doc |-> s[i][1], text |-> s[i][3]]

LEMMA AllPut ==
  ASSUME Typed, NEW w \in Clients, PutAll(w)
  PROVE  \E s \in SetToSeqs(job[w].snap), now \in second .. MaxSecond :
           /\ DOMAIN s = 1 .. Len(s) /\ Len(s) \in Nat
           /\ \A i \in DOMAIN s : s[i] \in job[w].snap
           /\ \A i, j \in DOMAIN s : s[i] = s[j] => i = j
           /\ \A x \in job[w].snap : \E i \in DOMAIN s : s[i] = x
           /\ \A e : e \in embs' <=> e \in embs \/ \E i \in DOMAIN s : e = New(w, now, s, i)
<1>1. PICK s \in SetToSeqs(job[w].snap) : Insert(w, Pairs(s))
  BY DEF PutAll, Pairs
<1>2. PICK now \in second .. MaxSecond : embs' = embs \cup NewEmbs(w, now, Pairs(s))
  BY <1>1, InsertEmbs
<1>3. IsFiniteSet(job[w].snap)
  BY ClientWrites DEF Typed, Fits
<1>4. /\ s \in Seq(job[w].snap) /\ DOMAIN s = 1 .. Len(s) /\ Len(s) \in Nat
      /\ \A i, j \in DOMAIN s : s[i] = s[j] => i = j
      /\ \A x \in job[w].snap : \E i \in DOMAIN s : s[i] = x
  BY <1>3, Listed
<1>5. \A i \in DOMAIN s : s[i] \in job[w].snap
  BY <1>4
<1>6. /\ DOMAIN Pairs(s) = DOMAIN s
      /\ \A i \in DOMAIN s : Pairs(s)[i][1] = s[i][1] /\ Pairs(s)[i][2] = s[i][3]
  BY DEF Pairs
<1>7. ASSUME NEW e
      PROVE  e \in NewEmbs(w, now, Pairs(s)) <=> \E i \in DOMAIN s : e = New(w, now, s, i)
  BY <1>6, NewMembers DEF New
<1>8. \A e : e \in embs' <=> e \in embs \/ \E i \in DOMAIN s : e = New(w, now, s, i)
  BY <1>2, <1>7
<1>. QED BY <1>1, <1>2, <1>4, <1>5, <1>8

LEMMA PutAllLocal ==
  ASSUME Typed, Typed', DocsInv, NEW w \in Clients, PutAll(w)
  PROVE  DocsInv'
<1> SUFFICES ASSUME NEW d \in Docs PROVE Local(d)'
  BY DEF DocsInv
<1>1. w \in Writers /\ job[w].pc = "put_all" /\ All(w)
  BY ClientWrites DEF PutAll, All, AllDocs
<1>2. /\ UNCHANGED <<file, changed, chunks, spoilt>> /\ Wrote(w, NoJob)
      /\ job'[w].pc = "idle"
  BY <1>1 DEF PutAll, docs, Wrote, NoJob
<1>3. /\ Local(d) /\ Lists(w, d) /\ job[w] \in Job
      /\ d \notin spoilt => \A v \in Others(w) : ~Touches(v, d)
  BY <1>1, AllTouch
<1>4. ~At(w, d)' /\ ~All(w)'
  BY <1>2 DEF At, All, OneDoc, AllDocs, Writing
<1>5. ASSUME d \notin spoilt' \cup changed', file'[d] # None PROVE Settled(d)'
  <2>1. /\ {s \in job[w].snap : s[1] = d} = ChunksOf(d) /\ EmbsOf(d) = {}
        /\ chunks[d] = Cut(file[d])
    BY <1>1, <1>2, <1>3, <1>5 DEF Lists
  <2>2. chunks'[d] = Cut(file'[d])
    BY <1>2, <2>1 DEF Cut
  <2>3. CASE file[d] = Blank
    BY <1>2, <2>2, <2>3 DEF Settled, Cut
  <2>4. CASE file[d] # Blank
    <3>1. PICK s \in SetToSeqs(job[w].snap), now \in second .. MaxSecond :
            /\ DOMAIN s = 1 .. Len(s) /\ Len(s) \in Nat
            /\ \A i \in DOMAIN s : s[i] \in job[w].snap
            /\ \A i, j \in DOMAIN s : s[i] = s[j] => i = j
            /\ \A x \in job[w].snap : \E i \in DOMAIN s : s[i] = x
            /\ \A e : e \in embs' <=> e \in embs \/ \E i \in DOMAIN s : e = New(w, now, s, i)
      BY AllPut
    <3> DEFINE x == <<d, 1, file[d]>>
    <3>2. ChunksOf(d) = {x}
      <4>1. chunks[d] = <<file[d]>>
        BY <2>1, <2>4 DEF Cut
      <4>2. DOMAIN chunks[d] = {1} /\ chunks[d][1] = file[d]
        BY <4>1
      <4>. QED BY <4>2 DEF ChunksOf
    <3>3. x \in job[w].snap /\ \A y \in job[w].snap : y[1] = d => y = x
      BY <2>1, <3>2
    <3>4. PICK k \in DOMAIN s : s[k] = x
      BY <3>1, <3>3
    <3> DEFINE e == New(w, now, s, k)
    <3>5. e.doc = d /\ e.text = file[d]
      BY <3>4 DEF New
    <3>6. e \in embs'
      BY <3>1
    <3>7. ASSUME NEW g \in embs', g.doc = d PROVE g = e
      <4>1. g \notin embs
        BY <2>1, <3>7 DEF EmbsOf
      <4>2. PICK i \in DOMAIN s : g = New(w, now, s, i)
        BY <3>1, <4>1
      <4>3. s[i][1] = d
        BY <3>7, <4>2 DEF New
      <4>4. s[i] = x
        BY <3>1, <3>3, <4>3
      <4>. QED BY <3>1, <3>4, <4>2, <4>4
    <3>8. EmbsOf(d)' = {e}
      BY <3>5, <3>6, <3>7 DEF EmbsOf
    <3>. QED BY <1>2, <2>2, <3>5, <3>8 DEF Settled, Cut
  <2>. QED BY <2>3, <2>4
<1>. QED BY <1>1, <1>2, <1>3, <1>4, <1>5, WriteLocal

\* A writer leaves: nothing remains to be answered for, since the document has gone, or
\* is spoilt, or is settled already.
LEMMA LeaveLocal ==
  ASSUME Typed, Typed', NEW d \in Docs, Local(d), NEW w \in Writers,
         \A v \in Others(w) : job'[v] = job[v], ~Touches(w, d)',
         UNCHANGED <<file, changed, chunks, embs>>, d \in spoilt => d \in spoilt',
         Touches(w, d) /\ d \notin spoilt' \cup changed /\ file[d] # None => Settled(d)
  PROVE  Local(d)'
<1>1. EmbsOf(d)' = EmbsOf(d) /\ ChunksOf(d)' = ChunksOf(d)
  BY DEF EmbsOf, ChunksOf
<1>2. \A v \in Writers : v # w => job'[v] = job[v] /\ (Touches(v, d)' <=> Touches(v, d))
  BY DEF Others, Touches, Active, Embeds
<1>3. d \notin spoilt' => \A u, v \in Writers : Touches(u, d)' /\ Touches(v, d)' => u = v
  BY <1>2 DEF Local
<1>4. ASSUME NEW v \in Writers, At(v, d)' PROVE Progress(v)' /\ Reads(v)'
  <2>1. v # w
    BY <1>4, TouchKindsNext
  <2>2. job'[v] = job[v] /\ At(v, d) /\ job[v].doc = d
    BY <1>2, <1>4, <2>1 DEF At
  <2>3. Progress(v) /\ Reads(v)
    BY <2>2 DEF Local
  <2>4. Progress(v)'
    BY <1>1, <2>2, <2>3 DEF Progress
  <2>5. Settled(d) => Settled(d)'
    BY <1>1 DEF Settled
  <2>6. Reads(v)'
    BY <2>2, <2>3, <2>5 DEF Reads
  <2>. QED BY <2>4, <2>6
<1>5. ASSUME NEW v \in Writers, All(v)' PROVE Lists(v, d)'
  <2>1. v # w
    BY <1>5, TouchKindsNext
  <2>2. job'[v] = job[v] /\ All(v)
    BY <1>2, <1>5, <2>1 DEF All
  <2>3. Lists(v, d) /\ (Settled(d) => Settled(d)')
    BY <1>1, <2>2 DEF Local, Settled
  <2>. QED BY <1>1, <2>2, <2>3 DEF Lists
<1>6. d \notin spoilt' \cup changed' /\ file'[d] # None =>
        (\E v \in Writers : Touches(v, d)') \/ Settled(d)'
  <2> SUFFICES ASSUME d \notin spoilt' \cup changed', file'[d] # None
               PROVE  (\E v \in Writers : Touches(v, d)') \/ Settled(d)'
    OBVIOUS
  <2>1. (\E v \in Writers : Touches(v, d)) \/ Settled(d)
    BY DEF Local
  <2>2. CASE Settled(d)
    BY <1>1, <2>2 DEF Settled
  <2>3. ASSUME NEW v \in Writers, Touches(v, d), v # w PROVE Touches(v, d)'
    BY <1>2, <2>3
  <2>4. CASE Touches(w, d)
    <3>1. Settled(d)
      BY <2>4
    <3>. QED BY <2>2, <3>1
  <2>. QED BY <2>1, <2>2, <2>3, <2>4
<1>. QED BY <1>3, <1>4, <1>5, <1>6 DEF Local

LEMMA ReadLocal ==
  ASSUME Typed, Typed', DocsInv, NEW w \in Writers, Read(w)
  PROVE  DocsInv'
<1> DEFINE r == job[w]
<1>1. PICK c \in Docs : c = r.doc /\ r \in Job /\ r.pc = "read" /\ At(w, c) /\ Progress(w) /\ Reads(w)
  <2>1. r \in Job /\ r.pc = "read" /\ r.doc \in Docs
    BY DEF Read, Typed, Fits, OneDoc
  <2>2. At(w, r.doc)
    BY <2>1 DEF At, OneDoc
  <2>. QED BY <2>1, <2>2 DEF DocsInv, Local
<1> SUFFICES ASSUME NEW d \in Docs PROVE Local(d)'
  BY DEF DocsInv
<1>2. Local(d) /\ ~All(w) /\ d # None
  BY <1>1, ConstantsAssumption DEF DocsInv, All, AllDocs
<1>3. UNCHANGED <<file, changed, chunks, embs, spoilt>> /\ EmbsOf(d)' = EmbsOf(d)
  BY DEF Read, docs, ghosts, EmbsOf
<1>4. CASE file[c] = None
  <2>1. /\ job' = [job EXCEPT ![w] = Done(r)] /\ Done(r).pc \notin OneDoc \cup AllDocs
        /\ Done(r).doc = None
    BY <1>1, <1>4, DoneAway DEF Read
  <2>2. job'[w] = Done(r) /\ \A v \in Others(w) : job'[v] = job[v]
    BY <2>1 DEF Typed, Others
  <2>3. ~Touches(w, d)'
    BY <1>2, <2>1, <2>2, TouchKindsNext DEF At, All
  <2>4. Touches(w, d) => file[d] = None
    BY <1>1, <1>2, <1>4, TouchKinds DEF At
  <2>. QED BY <1>2, <1>3, <2>2, <2>3, <2>4, LeaveLocal
<1>5. CASE file[c] # None
  <2> DEFINE q == [r EXCEPT !.pc = "drop_chunks", !.text = file[c]]
  <2>1. job' = [job EXCEPT ![w] = q] /\ q \in Job /\ q.pc = "drop_chunks"
        /\ q.doc = c /\ q.text = file[c]
    BY <1>1, <1>5 DEF Read, Job, Typed, OneDoc, Writing
  <2>2. job'[w] = q /\ \A v \in Writers : v # w => job'[v] = job[v]
    BY <2>1 DEF Typed
  <2>3. CASE d # c
    <3>1. ~Touches(w, d) /\ ~Touches(w, d)'
      BY <1>1, <1>2, <2>1, <2>2, <2>3, TouchKinds, TouchKindsNext DEF At, All, AllDocs
    <3>2. \A v \in Writers : SameAt(v, d)
      BY <2>2, <3>1 DEF SameAt
    <3>. QED BY <1>2, <1>3, <3>2, Frame
  <2>4. CASE d = c
    <3>1. \A v \in Writers : Touches(v, d)' <=> Touches(v, d)
      <4>1. Touches(w, d) /\ Touches(w, d)'
        BY <1>1, <2>1, <2>2, <2>4, TouchKinds, TouchKindsNext DEF At, OneDoc, Writing
      <4>. QED BY <2>2, <4>1 DEF Touches, Active, Embeds
    <3>2. (Settled(d) => Settled(d)') /\ ChunksOf(d)' = ChunksOf(d)
      BY <1>3 DEF Settled, ChunksOf
    <3>3. Progress(w)' /\ Reads(w)'
      <4>1. Progress(w)'
        BY <2>1, <2>2 DEF Progress
      <4>2. Reads(w)'
        BY <1>1, <1>3, <2>1, <2>2, <2>4, <3>2 DEF Reads
      <4>. QED BY <4>1, <4>2
    <3>4. ASSUME NEW v \in Writers, v # w, At(v, d)' PROVE Progress(v)' /\ Reads(v)'
      <4>1. job'[v] = job[v] /\ At(v, d) /\ job[v].doc = d
        BY <2>2, <3>4 DEF At
      <4>2. Progress(v) /\ Reads(v)
        BY <1>2, <4>1 DEF Local
      <4>3. Progress(v)'
        BY <1>3, <4>1, <4>2 DEF Progress
      <4>4. Reads(v)'
        BY <1>3, <3>2, <4>1, <4>2 DEF Reads
      <4>. QED BY <4>3, <4>4
    <3>5. ASSUME NEW v \in Writers, All(v)' PROVE Lists(v, d)'
      <4>1. v # w
        BY <2>1, <2>2, <3>5 DEF All, AllDocs
      <4>2. job'[v] = job[v] /\ All(v)
        BY <2>2, <3>5, <4>1 DEF All
      <4>3. Lists(v, d)
        BY <1>2, <4>2 DEF Local
      <4>. QED BY <1>3, <3>2, <4>2, <4>3 DEF Lists
    <3>6. d \notin spoilt' => \A u, v \in Writers : Touches(u, d)' /\ Touches(v, d)' => u = v
      BY <1>2, <1>3, <3>1 DEF Local
    <3>7. \E v \in Writers : Touches(v, d)'
      BY <1>1, <2>1, <2>2, <2>4, TouchKindsNext DEF At, OneDoc, Writing
    <3>. QED BY <3>3, <3>4, <3>5, <3>6, <3>7 DEF Local
  <2>. QED BY <2>3, <2>4
<1>. QED BY <1>4, <1>5

LEMMA AbortLocal ==
  ASSUME Typed, Typed', DocsInv, NEW w \in Writers, Abort(w)
  PROVE  DocsInv'
<1> DEFINE r == job[w]
           harmless == w # Daemon /\ r.pc \in {"next", "read", "drop_chunks", "drop_all"}
<1> SUFFICES ASSUME NEW d \in Docs PROVE Local(d)'
  BY DEF DocsInv
<1>1. UNCHANGED <<file, changed, chunks, embs>> /\ Local(d) /\ d # None /\ r \in Job
  BY ConstantsAssumption DEF Abort, docs, DocsInv, Typed
<1>2. PICK q \in {Done(r), NoJob} : job' = [job EXCEPT ![w] = q]
  BY DEF Abort
<1>3. q.pc \notin OneDoc \cup AllDocs
  BY <1>1, <1>2, DoneAway DEF NoJob, OneDoc, AllDocs, Writing
<1>4. job'[w] = q /\ \A v \in Others(w) : job'[v] = job[v]
  BY <1>2 DEF Typed, Others
<1>5. ~Touches(w, d)'
  BY <1>3, <1>4, TouchKindsNext DEF At, All
<1>6. spoilt' = IF harmless THEN spoilt ELSE {c \in Docs : Touches(w, c)} \cup spoilt
  BY DEF Abort
<1>7. d \in spoilt => d \in spoilt'
  BY <1>6
<1>8. ASSUME Touches(w, d), d \notin spoilt' \cup changed, file[d] # None PROVE Settled(d)
  <2>1. harmless /\ d \notin spoilt
    BY <1>6, <1>8
  <2>2. CASE At(w, d)
    <3>1. Reads(w) /\ r.doc = d /\ r.pc \in {"read", "drop_chunks"}
      BY <1>1, <2>1, <2>2 DEF Local, At, OneDoc, Writing
    <3>. QED BY <1>8, <2>1, <3>1 DEF Reads
  <2>3. CASE All(w)
    <3>1. Lists(w, d) /\ r.pc = "drop_all"
      BY <1>1, <2>1, <2>3 DEF Local, All, AllDocs
    <3>. QED BY <1>8, <2>1, <3>1 DEF Lists
  <2>. QED BY <1>8, <2>2, <2>3, TouchKinds
<1>. QED BY <1>1, <1>4, <1>5, <1>7, <1>8, LeaveLocal

\* Somebody begins to embed everything, and is at every document.
LEMMA EmbedLocal ==
  ASSUME Typed, Typed', DocsInv, NEW w \in Clients, Embed(w)
  PROVE  DocsInv'
<1> SUFFICES ASSUME NEW d \in Docs PROVE Local(d)'
  BY DEF DocsInv
<1>1. /\ w \in Writers /\ ~Active(w) /\ UNCHANGED <<file, changed, chunks, embs>> /\ Local(d)
      /\ ~Touches(w, d)
  BY ClientWrites, IdleAway DEF Embed, Command, docs, DocsInv
<1>2. PICK n \in Ranks : job' = [job EXCEPT ![w] =
            [NoJob EXCEPT !.kind = "embed", !.pc = "drop_all", !.snap = AllChunks, !.rank = n]]
  BY DEF Embed
<1>3. /\ job'[w].pc = "drop_all" /\ job'[w].snap = AllChunks
      /\ \A v \in Writers : v # w => job'[v] = job[v]
  BY <1>1, <1>2 DEF Typed, NoJob
<1>4. \A v \in Writers : v # w => v \in Others(w) /\ (Touches(v, d)' <=> Touches(v, d))
  BY <1>3 DEF Others, Touches, Active, Embeds
<1>5. d \notin spoilt' => d \notin spoilt /\ \A v \in Writers : ~Touches(v, d)
  BY <1>1, <1>4 DEF Embed
<1>6. ChunksOf(d)' = ChunksOf(d) /\ EmbsOf(d)' = EmbsOf(d) /\ (Settled(d) => Settled(d)')
  BY <1>1 DEF ChunksOf, EmbsOf, Settled
<1>7. Touches(w, d)'
  BY <1>1, <1>3, TouchKindsNext DEF All, AllDocs
<1>8. d \notin spoilt' => \A v \in Writers : Touches(v, d)' => v = w
  BY <1>4, <1>5
<1>9. ASSUME NEW v \in Writers, At(v, d)' PROVE Progress(v)' /\ Reads(v)'
  <2>1. v # w
    BY <1>3, <1>9 DEF At, OneDoc, Writing
  <2>2. job'[v] = job[v] /\ At(v, d) /\ job[v].doc = d
    BY <1>3, <1>9, <2>1 DEF At
  <2>3. Progress(v) /\ d \in spoilt'
    BY <1>1, <1>8, <1>9, <2>1, <2>2, TouchKindsNext DEF Local
  <2>4. Progress(v)'
    BY <1>1, <1>6, <2>2, <2>3 DEF Progress
  <2>5. Reads(v)'
    BY <2>2, <2>3 DEF Reads
  <2>. QED BY <2>4, <2>5
<1>10. ASSUME NEW v \in Writers, All(v)' PROVE Lists(v, d)'
  <2>1. CASE v = w
    <3>1. {s \in job'[w].snap : s[1] = d} = ChunksOf(d)'
      BY <1>3, <1>6, ChunksFinite
    <3>2. d \notin spoilt' \cup changed' /\ file'[d] # None => Settled(d)
      BY <1>1, <1>5 DEF Local
    <3>3. Settled(d)' => chunks'[d] = Cut(file'[d])
      BY DEF Settled, Cut
    <3>. QED BY <1>3, <1>6, <2>1, <3>1, <3>2, <3>3 DEF Lists, Cut
  <2>2. CASE v # w
    <3>1. job'[v] = job[v] /\ All(v)
      BY <1>3, <1>10, <2>2 DEF All
    <3>2. Lists(v, d) /\ d \in spoilt'
      BY <1>1, <1>8, <1>10, <2>2, <3>1, TouchKindsNext DEF Local
    <3>. QED BY <1>6, <3>1, <3>2 DEF Lists
  <2>. QED BY <2>1, <2>2
<1>. QED BY <1>1, <1>7, <1>8, <1>9, <1>10 DEF Local

LEMMA DocsStep ==
  ASSUME Typed, Typed', DocsInv, [Next]_vars
  PROVE  DocsInv'
<1>1. ASSUME NEW d \in Docs, NEW t \in Texts \cup {None}, Change(d, t) PROVE DocsInv'
  BY <1>1, ChangeLocal
<1>2. ASSUME NEW d \in Docs, DaemonSync(d) PROVE DocsInv'
  BY <1>2, DaemonSyncLocal
<1>3. ASSUME NEW c \in Clients, NEW d \in Docs, Add(c, d) PROVE DocsInv'
  BY <1>3, AddLocal
<1>4. ASSUME NEW c \in Clients,
             Backfill(c) \/ NextCandidate(c) \/ Embed(c) \/ DropAll(c) \/ PutAll(c)
      PROVE  DocsInv'
  BY <1>4, BackfillLocal, NextCandidateLocal, EmbedLocal, DropAllLocal, PutAllLocal
<1>5. ASSUME NEW w \in Writers,
             Read(w) \/ DropChunks(w) \/ PutChunks(w) \/ DropEmbs(w) \/ PutEmbs(w)
      PROVE  DocsInv'
  BY <1>5, ReadLocal, DropChunksLocal, PutChunksLocal, DropEmbsLocal, PutEmbsLocal
<1>6. ASSUME NEW w \in Writers, Abort(w) PROVE DocsInv'
  BY <1>6, AbortLocal
<1>7. CASE CountEmbs \/ NewestEmb \/ LoadEmbs
  <2>1. UNCHANGED <<docs, chunks, embs, job, spoilt>>
    BY <1>7 DEF CountEmbs, NewestEmb, LoadEmbs, ghosts
  <2>. QED BY <2>1, StillLocal
<1>8. CASE UNCHANGED vars
  BY <1>8, StillLocal DEF vars, ghosts
<1>. QED BY <1>1, <1>2, <1>3, <1>4, <1>5, <1>6, <1>7, <1>8 DEF Next

LEMMA InitDocs == ASSUME Init PROVE DocsInv
<1>1. PICK s \in Seq(Docs) :
        /\ DOMAIN s = 1 .. Len(s) /\ Len(s) \in Nat /\ made = Len(s)
        /\ \A i, j \in DOMAIN s : s[i] = s[j] => i = j
        /\ \A i \in DOMAIN s : chunks[s[i]] # <<>>
        /\ \A d \in Docs : chunks[d] # <<>> => \E i \in DOMAIN s : s[i] = d
        /\ \A e : e \in embs <=>
             \E i \in DOMAIN s : e = [id |-> <<0, 1, i>>, doc |-> s[i], text |-> Start[s[i]]]
  BY Beginning
<1> SUFFICES ASSUME NEW d \in Docs PROVE Local(d)
  BY DEF DocsInv
<1>2. \A w \in Writers : ~Touches(w, d) /\ ~At(w, d) /\ ~All(w)
  BY DEF Init, NoJob, Touches, Active, At, All, OneDoc, AllDocs, Writing
<1>3. file[d] = None \/ Settled(d)
  <2> SUFFICES ASSUME file[d] # None PROVE Settled(d)
    OBVIOUS
  <2>1. file[d] = Start[d] /\ file[d] \in Texts /\ chunks[d] = Cut(file[d])
    BY ConstantsAssumption DEF Init
  <2>2. CASE file[d] = Blank
    BY <2>1, <2>2 DEF Settled
  <2>3. CASE file[d] # Blank
    <3>1. chunks[d] # <<>>
      BY <2>1, <2>3, CutChunks
    <3>2. PICK k \in DOMAIN s : s[k] = d
      BY <1>1, <3>1
    <3> DEFINE e == [id |-> <<0, 1, k>>, doc |-> s[k], text |-> Start[s[k]]]
    <3>3. e \in embs /\ e.doc = d /\ e.text = file[d]
      BY <1>1, <2>1, <3>2
    <3>4. ASSUME NEW g \in embs, g.doc = d PROVE g = e
      <4>1. PICK i \in DOMAIN s : g = [id |-> <<0, 1, i>>, doc |-> s[i], text |-> Start[s[i]]]
        BY <1>1
      <4>. QED BY <1>1, <3>2, <3>4, <4>1
    <3>5. EmbsOf(d) = {e}
      BY <3>3, <3>4 DEF EmbsOf
    <3>. QED BY <2>1, <3>3, <3>5 DEF Settled
  <2>. QED BY <2>2, <2>3
<1>. QED BY <1>2, <1>3 DEF Local

\* The index follows the documents, however many there are, whoever indexes them, and
\* whatever fails: who meets another one, or fails, spoils what the two were at, and what
\* nobody has spoilt is settled as soon as nobody is at it and no change waits.
THEOREM IndexFollowsDocs == Spec => []IndexSettles
<1>1. DocsInv => IndexSettles
  <2> SUFFICES ASSUME DocsInv, NEW d \in Docs \ (spoilt \cup changed), file[d] # None,
                      ~\E w \in Writers : Touches(w, d)
               PROVE  /\ chunks[d] = Cut(file[d])
                      /\ file[d] = Blank \/ (/\ Cardinality(EmbsOf(d)) = 1
                                             /\ \A e \in EmbsOf(d) : e.text = file[d])
    BY DEF IndexSettles
  <2>1. Settled(d)
    BY DEF DocsInv, Local
  <2>2. ASSUME file[d] # Blank
        PROVE  Cardinality(EmbsOf(d)) = 1 /\ \A e \in EmbsOf(d) : e.text = file[d]
    <3>1. PICK e : EmbsOf(d) = {e} /\ e.text = file[d]
      BY <2>1, <2>2 DEF Settled
    <3>. QED BY <3>1, FS_Singleton
  <2>. QED BY <2>1, <2>2 DEF Settled
<1>2. Init => Typed /\ DocsInv
  BY InitTyped, InitDocs
<1>3. Typed /\ DocsInv /\ [Next]_vars => Typed' /\ DocsInv'
  BY TypedStep, DocsStep
<1>. QED BY <1>1, <1>2, <1>3, PTL DEF Spec

-----------------------------------------------------------------------------
(* Embedding everything *)

\* Only its own insertion ends an embedding of everything and changes the collection.
LEMMA OnlyPutAll ==
  ASSUME Typed, [Next]_vars, NEW c \in Clients, job[c].pc = "put_all", ~Active(c)', embs' # embs
  PROVE  PutAll(c)
<1>1. c \in Writers
  BY ClientWrites
<1>2. ASSUME NEW w \in Writers, NEW q, Wrote(w, q) PROVE w = c
  <2>1. CASE w # c
    <3>1. c \in Others(w) /\ job[c] \in Job /\ job'[c] = [job[c] EXCEPT !.alone = ~Active(c)]
      BY <1>1, <1>2, <2>1 DEF Others, Wrote, Typed
    <3>. QED BY <3>1 DEF Active, Job
  <2>. QED BY <2>1
<1>3. ASSUME NEW w \in Writers, DropChunks(w) \/ PutChunks(w) \/ Read(w) PROVE FALSE
  BY <1>3 DEF DropChunks, PutChunks, Read, ghosts
<1>4. ASSUME NEW w \in Writers, DropEmbs(w) \/ PutEmbs(w) PROVE FALSE
  <2>1. w = c
    BY <1>2, <1>4 DEF DropEmbs, PutEmbs
  <2>. QED BY <1>4, <2>1 DEF DropEmbs, PutEmbs
<1>5. ASSUME NEW w \in Clients, DropAll(w) PROVE FALSE
  <2>1. w = c
    BY <1>2, <1>5, ClientWrites DEF DropAll
  <2>. QED BY <1>5, <2>1 DEF DropAll
<1>6. ASSUME NEW w \in Clients, PutAll(w) PROVE PutAll(c)
  <2>1. w = c
    BY <1>2, <1>6, ClientWrites DEF PutAll
  <2>. QED BY <1>6, <2>1
<1>7. ASSUME NEW w \in Clients, Backfill(w) \/ NextCandidate(w) \/ Embed(w) PROVE FALSE
  BY <1>7 DEF Backfill, NextCandidate, Embed, Command
<1>8. ASSUME NEW w \in Clients, NEW d \in Docs, Add(w, d) PROVE FALSE
  BY <1>8 DEF Add, Command
<1>9. ASSUME NEW w \in Writers, Abort(w) PROVE FALSE
  BY <1>9 DEF Abort
<1>10. ASSUME NEW d \in Docs, DaemonSync(d) PROVE FALSE
  BY <1>10 DEF DaemonSync
<1>11. ASSUME NEW d \in Docs, NEW t \in Texts \cup {None}, Change(d, t) PROVE FALSE
  BY <1>11 DEF Change
<1>12. CASE CountEmbs \/ NewestEmb \/ LoadEmbs \/ UNCHANGED vars
  BY <1>12 DEF CountEmbs, NewestEmb, LoadEmbs, vars
<1>. QED BY <1>3, <1>4, <1>5, <1>6, <1>7, <1>8, <1>9, <1>10, <1>11, <1>12 DEF Next

\* What embed inserts when nobody else has written since it listed the chunks.
LEMMA PutAllExact ==
  ASSUME Typed, DocsInv, NEW c \in Clients, PutAll(c), job[c].alone, NEW d \in Docs, NEW t \in Texts
  PROVE  Cardinality({e \in embs' : e.doc = d /\ e.text = t})
           = Cardinality({i \in DOMAIN chunks'[d] : chunks'[d][i] = t})
<1> DEFINE I == {i \in DOMAIN chunks[d] : chunks[d][i] = t}
           E == {e \in embs' : e.doc = d /\ e.text = t}
<1>1. c \in Writers /\ job[c].pc = "put_all" /\ All(c) /\ chunks' = chunks
  BY ClientWrites DEF PutAll, All, AllDocs
<1>2. \A b \in Docs : {s \in job[c].snap : s[1] = b} = ChunksOf(b) /\ EmbsOf(b) = {}
  BY <1>1, AllTouch DEF Lists
<1>3. embs = {}
  BY <1>2 DEF Typed, Embedding, EmbsOf
<1>4. PICK s \in SetToSeqs(job[c].snap), now \in second .. MaxSecond :
        /\ DOMAIN s = 1 .. Len(s) /\ Len(s) \in Nat
        /\ \A i \in DOMAIN s : s[i] \in job[c].snap
        /\ \A i, j \in DOMAIN s : s[i] = s[j] => i = j
        /\ \A x \in job[c].snap : \E i \in DOMAIN s : s[i] = x
        /\ \A e : e \in embs' <=> e \in embs \/ \E i \in DOMAIN s : e = New(c, now, s, i)
  BY AllPut
<1>5. \A x : x \in job[c].snap /\ x[1] = d <=> \E i \in DOMAIN chunks[d] : x = <<d, i, chunks[d][i]>>
  BY <1>2 DEF ChunksOf
<1>6. DOMAIN chunks[d] = 1 .. Len(chunks[d]) /\ Len(chunks[d]) \in Nat /\ made \in Nat
  BY DEF Typed
<1>7. IsFiniteSet(I)
  <2>1. IsFiniteSet(1 .. Len(chunks[d]))
    BY <1>6, FS_Interval
  <2>. QED BY <1>6, <2>1, FS_Subset
<1> DEFINE at == [i \in I |-> CHOOSE k \in DOMAIN s : s[k] = <<d, i, t>>]
           f == [i \in I |-> New(c, now, s, at[i])]
<1>8. ASSUME NEW i \in I PROVE at[i] \in DOMAIN s /\ s[at[i]] = <<d, i, t>>
  <2>1. <<d, i, t>> \in job[c].snap
    BY <1>5, <1>8
  <2>2. \E k \in DOMAIN s : s[k] = <<d, i, t>>
    BY <1>4, <2>1
  <2>. QED BY <1>8, <2>2
<1>9. ASSUME NEW i \in I PROVE f[i] \in E
  <2> HIDE DEF at
  <2>1. f[i] = New(c, now, s, at[i]) /\ f[i] \in embs'
    BY <1>4, <1>8, <1>9
  <2>2. s[at[i]][1] = d /\ s[at[i]][3] = t
    BY <1>8, <1>9
  <2>3. New(c, now, s, at[i]).doc = d /\ New(c, now, s, at[i]).text = t
    BY <2>2 DEF New
  <2>. QED BY <2>1, <2>3
<1>10. ASSUME NEW i \in I, NEW j \in I, f[i] = f[j] PROVE i = j
  <2> HIDE DEF at
  <2>1. New(c, now, s, at[i]).id[3] = New(c, now, s, at[j]).id[3]
    BY <1>10
  <2>2. made + at[i] = made + at[j]
    BY <2>1 DEF New
  <2>3. at[i] \in Nat /\ at[j] \in Nat
    BY <1>4, <1>8, <1>10
  <2>4. s[at[i]] = s[at[j]]
    BY <1>6, <2>2, <2>3
  <2>. QED BY <1>8, <1>10, <2>4
<1>11. ASSUME NEW e \in E PROVE \E i \in I : f[i] = e
  <2>1. PICK k \in DOMAIN s : e = New(c, now, s, k)
    BY <1>3, <1>4, <1>11
  <2>2. s[k][1] = d /\ s[k][3] = t
    BY <1>11, <2>1 DEF New
  <2>3. PICK i \in DOMAIN chunks[d] : s[k] = <<d, i, chunks[d][i]>>
    BY <1>4, <1>5, <2>2
  <2>4. i \in I /\ s[k] = <<d, i, t>>
    BY <2>2, <2>3
  <2>5. at[i] = k
    BY <1>4, <1>8, <2>4
  <2>. QED BY <2>1, <2>4, <2>5
<1> HIDE DEF I, E, f
<1>12. f \in Surjection(I, E) /\ f \in Injection(I, E)
  <2>1. f \in [I -> E]
    BY <1>9 DEF f
  <2>. QED BY <1>10, <1>11, <2>1 DEF Surjection, Injection, IsInjective
<1>13. Cardinality(E) = Cardinality(I)
  BY <1>7, <1>12, FS_Surjection
<1>. QED BY <1>1, <1>13 DEF I, E

\* An embedding of everything that nobody has disturbed leaves one embedding for each
\* chunk, however many documents, chunks and writers there are.
THEOREM EmbedWhole == Spec => EmbedExact
<1>1. Typed /\ DocsInv /\ [Next]_vars =>
        [\A c \in Clients :
           job[c].pc = "put_all" /\ job[c].alone /\ ~Active(c)' /\ embs' # embs
             => \A d \in Docs, t \in Texts :
                  Cardinality({e \in embs' : e.doc = d /\ e.text = t})
                    = Cardinality({i \in DOMAIN chunks'[d] : chunks'[d][i] = t})]_vars
  BY OnlyPutAll, PutAllExact
<1>2. Init => Typed /\ DocsInv
  BY InitTyped, InitDocs
<1>3. Typed /\ DocsInv /\ [Next]_vars => Typed' /\ DocsInv'
  BY TypedStep, DocsStep
<1>. QED BY <1>1, <1>2, <1>3, PTL DEF Spec, EmbedExact

-----------------------------------------------------------------------------
(* Searching: _ids *)

\* Every non-empty set of natural numbers has a least element.
LEMMA Least ==
  ASSUME NEW S \in SUBSET Nat, S # {}
  PROVE  \E m \in S : \A n \in S : m <= n
<1>1. PICK m \in S : \A n \in S : ~ (<<n, m>> \in OpToRel(<, Nat))
  BY WFMin, NatLessThanWellFounded
<1>2. \A n \in S : ~ (n < m)
  BY <1>1 DEF OpToRel
<1>. QED BY <1>2

LEMMA EmbeddingIds == ASSUME NEW e \in Embedding PROVE e.id \in Id
<1>1. e.id \in Nat \X (Ranks \cup {1}) \X Nat
  BY DEF Embedding
<1>2. PICK x \in Nat, y \in Ranks \cup {1}, z \in Nat : e.id = <<x, y, z>>
  BY <1>1
<1>3. y \in Nat
  BY <1>2, ConstantsAssumption
<1>. QED BY <1>2, <1>3 DEF Id

LEMMA IdTypes == ASSUME Typed PROVE Ids \subseteq Id
  BY EmbeddingIds DEF Typed, Ids

LEMMA Apart == ASSUME NEW i \in Id, NEW j \in Id, Before(i, j) PROVE ~Before(j, i) /\ i # j
  BY DEF Before, Id

\* Where _ids grow with their counts, the last of them is the one with the greatest count.
Latest(I) == CHOOSE i \in I : \A j \in I \ {i} : Before(j, i)

LEMMA LatestOf ==
  ASSUME NEW I \in SUBSET Id, I # {}, NEW most \in Nat, \A i \in I : i[3] <= most,
         \A i, j \in I : i[3] = j[3] => i = j,
         \A i, j \in I : i[3] < j[3] => Before(i, j)
  PROVE  Latest(I) \in I /\ \A i \in I : i[3] <= Latest(I)[3]
<1> DEFINE Bounds == {n \in Nat : \A i \in I : i[3] <= n}
<1>1. \A i \in I : i \in Id /\ i[3] \in Nat
  BY DEF Id
<1>2. Bounds \in SUBSET Nat /\ Bounds # {}
  OBVIOUS
<1>3. PICK m \in Bounds : \A n \in Bounds : m <= n
  <2> HIDE DEF Bounds
  <2>. QED BY <1>2, Least
<1>4. \E j \in I : j[3] = m
  <2> SUFFICES ASSUME \A j \in I : j[3] # m PROVE FALSE
    OBVIOUS
  <2>1. \A j \in I : j[3] < m
    BY <1>1, <1>3
  <2>2. m - 1 \in Nat
    BY <1>1, <1>3, <2>1
  <2>3. m - 1 \in Bounds
    BY <1>1, <1>3, <2>1, <2>2
  <2>. QED BY <1>3, <2>3
<1>5. PICK j \in I : j[3] = m
  BY <1>4
<1>6. \A k \in I \ {j} : Before(k, j)
  <2> SUFFICES ASSUME NEW k \in I, k # j PROVE Before(k, j)
    OBVIOUS
  <2>1. k[3] < j[3]
    <3>1. k[3] <= m /\ k[3] # j[3]
      BY <1>3, <1>5
    <3>. QED BY <1>1, <1>3, <1>5, <3>1
  <2>. QED BY <2>1
<1>7. Latest(I) \in I /\ \A k \in I \ {Latest(I)} : Before(k, Latest(I))
  BY <1>6 DEF Latest
<1>8. Latest(I) = j
  BY <1>1, <1>6, <1>7, Apart
<1>. QED BY <1>3, <1>5, <1>8

LEMMA Newest ==
  ASSUME Typed, IdsInv, ordered, embs # {}
  PROVE  NewestId \in Ids /\ NewestId = Latest(Ids) /\ \A i \in Ids : i[3] <= NewestId[3]
<1>1. Ids # {} /\ Ids \in SUBSET Id /\ made \in Nat
  BY IdTypes DEF Ids, Typed
<1>2. NewestId = Latest(Ids)
  BY DEF NewestId, Latest
<1>. QED BY <1>1, <1>2, LatestOf DEF IdsInv

LEMMA NewestNext ==
  ASSUME Typed', IdsInv', ordered', embs' # {}
  PROVE  NewestId' \in Ids' /\ \A i \in Ids' : i[3] <= NewestId'[3]
<1>1. Ids' \in SUBSET Id
  BY EmbeddingIds DEF Typed, Ids
<1>2. Ids' # {} /\ made' \in Nat
  BY DEF Ids, Typed
<1>3. NewestId' = Latest(Ids')
  BY DEF NewestId, Latest
<1>. QED BY <1>1, <1>2, <1>3, LatestOf DEF IdsInv

\* New _ids have counts of their own.
LEMMA InsertIds ==
  ASSUME Typed, IdsInv, NEW w \in Writers, NEW n \in Nat \ {0},
         NEW pairs \in [1 .. n -> Docs \X Chunked], Insert(w, pairs)
  PROVE  /\ IdsInv' /\ made <= made' /\ made' \in Nat
         /\ (ordered' => ordered) /\ torn' = FALSE
         /\ \E i \in Ids' : i \in Id /\ made < i[3]
         /\ embs' # {} /\ Disturb
<1>1. PICK now \in second .. MaxSecond : 
        /\ second' = now
        /\ embs' = embs \cup NewEmbs(w, now, pairs)
        /\ made' = made + Len(pairs)
        /\ torn' = FALSE
        /\ ordered' = (ordered /\ \A i \in Ids, e \in NewEmbs(w, now, pairs) : Before(i, e.id))
        /\ Disturb
  BY DEF Insert
<1>2. now \in Nat /\ made \in Nat /\ Len(pairs) = n /\ DOMAIN pairs = 1 .. n /\ made' = made + n
  BY <1>1, ConstantsAssumption DEF Typed
<1> DEFINE new(k) == <<now, job[w].rank, made + k>>
<1>3. \A k \in 1 .. n : new(k) \in Id
  <2>1. \A k \in 1 .. n : new(k) \in Nat \X (Ranks \cup {1}) \X Nat
    BY <1>2, NewTypes
  <2>2. Ranks \cup {1} \subseteq Nat
    BY ConstantsAssumption
  <2>. QED BY <2>1, <2>2 DEF Id
<1>4. ASSUME NEW i PROVE i \in Ids' <=> i \in Ids \/ \E k \in 1 .. n : i = new(k)
  <2>1. ASSUME NEW e \in NewEmbs(w, now, pairs) PROVE \E k \in 1 .. n : e.id = new(k)
    <3>1. PICK k \in DOMAIN pairs : e = [id |-> <<now, job[w].rank, made + k>>,
                                       doc |-> pairs[k][1], text |-> pairs[k][2]]
      BY <2>1, NewMembers
    <3>2. e.id = new(k)
      BY <3>1
    <3> HIDE DEF new
    <3>. QED BY <1>2, <3>2
  <2>2. ASSUME NEW k \in 1 .. n PROVE \E e \in NewEmbs(w, now, pairs) : e.id = new(k)
    <3> DEFINE e == [id |-> <<now, job[w].rank, made + k>>, doc |-> pairs[k][1],
                     text |-> pairs[k][2]]
    <3>1. e \in NewEmbs(w, now, pairs)
      BY <1>2, NewMembers
    <3>. QED BY <3>1
  <2> HIDE DEF new
  <2>. QED BY <1>1, <2>1, <2>2 DEF Ids
<1>5. \A i \in Ids : i \in Id /\ i[3] <= made
  BY IdTypes DEF IdsInv
<1>6. \A k \in 1 .. n : new(k)[3] = made + k
  OBVIOUS
<1>7. ordered' => ordered /\ \A i \in Ids, k \in 1 .. n : Before(i, new(k))
  <2>1. \A k \in 1 .. n : \E e \in NewEmbs(w, now, pairs) : e.id = new(k)
    <3> SUFFICES ASSUME NEW k \in 1 .. n PROVE \E e \in NewEmbs(w, now, pairs) : e.id = new(k)
      OBVIOUS
    <3> DEFINE e == [id |-> <<now, job[w].rank, made + k>>, doc |-> pairs[k][1],
                     text |-> pairs[k][2]]
    <3>1. e \in NewEmbs(w, now, pairs)
      BY <1>2, NewMembers
    <3>. QED BY <3>1
  <2> HIDE DEF new
  <2>. QED BY <1>1, <2>1
<1>8. \A j, k \in 1 .. n : j < k => Before(new(j), new(k))
  BY <1>2 DEF Before
<1> HIDE DEF new
<1>9. ASSUME NEW i \in Ids' PROVE i \in Id /\ i[3] <= made'
  BY <1>2, <1>3, <1>4, <1>5, <1>6, <1>9 DEF Id
<1>10. ASSUME NEW i \in Ids', NEW j \in Ids', i[3] = j[3] PROVE i = j
  <2>1. CASE i \in Ids /\ j \in Ids
    BY <1>10, <2>1 DEF IdsInv
  <2>2. ASSUME NEW k \in 1 .. n, NEW l \in 1 .. n, i = new(k), j = new(l) PROVE i = j
    BY <1>2, <1>6, <1>10, <2>2
  <2>3. ASSUME NEW k \in 1 .. n, i = new(k), j \in Ids PROVE FALSE
    BY <1>2, <1>5, <1>6, <1>10, <2>3 DEF Id
  <2>4. ASSUME NEW k \in 1 .. n, j = new(k), i \in Ids PROVE FALSE
    BY <1>2, <1>5, <1>6, <1>10, <2>4 DEF Id
  <2>. QED BY <1>4, <2>1, <2>2, <2>3, <2>4
<1>11. ASSUME ordered', NEW i \in Ids', NEW j \in Ids', i[3] < j[3] PROVE Before(i, j)
  <2>1. CASE i \in Ids /\ j \in Ids
    BY <1>7, <1>11, <2>1 DEF IdsInv
  <2>2. ASSUME NEW k \in 1 .. n, NEW l \in 1 .. n, i = new(k), j = new(l) PROVE Before(i, j)
    <3>1. k < l
      BY <1>2, <1>6, <1>11, <2>2
    <3>. QED BY <1>8, <2>2, <3>1
  <2>3. ASSUME NEW k \in 1 .. n, i = new(k), j \in Ids PROVE FALSE
    BY <1>2, <1>5, <1>6, <1>11, <2>3 DEF Id
  <2>4. ASSUME NEW k \in 1 .. n, j = new(k), i \in Ids PROVE Before(i, j)
    BY <1>7, <1>11, <2>4
  <2>. QED BY <1>4, <2>1, <2>2, <2>3, <2>4
<1>12. new(1) \in Ids' /\ new(1) \in Id /\ made < new(1)[3]
  BY <1>2, <1>3, <1>4, <1>6
<1>13. embs' # {}
  BY <1>12 DEF Ids
<1>14. IdsInv'
  BY <1>9, <1>10, <1>11 DEF IdsInv
<1>. QED BY <1>1, <1>2, <1>7, <1>12, <1>13, <1>14

-----------------------------------------------------------------------------
(* Searching: what is loaded *)

Fresh == IdsInv /\ CacheInv /\ SearchFresh

\* Nothing happens to the embeddings or to the search.
LEMMA QuietFresh ==
  ASSUME Fresh, UNCHANGED <<embs, made, ordered, cache, search>>,
         torn => torn', Pending => Pending' \/ torn'
  PROVE  Fresh'
<1>1. Ids' = Ids /\ NewestId' = NewestId
  BY DEF Ids, NewestId
<1>2. IdsInv'
  BY <1>1 DEF Fresh, IdsInv
<1>3. Whole' => Whole
  BY DEF Whole
<1>4. CacheInv'
  BY <1>1, <1>3 DEF Fresh, CacheInv, Seen
<1>5. SearchFresh'
  BY <1>3 DEF Fresh, SearchFresh, Whole, Pending
<1>. QED BY <1>2, <1>4, <1>5 DEF Fresh

\* Embeddings are deleted; their insertion is still to come.
LEMMA DropFresh ==
  ASSUME Fresh, embs' \subseteq embs, UNCHANGED <<made, ordered, cache>>, Disturb, Pending'
  PROVE  Fresh'
<1>1. Ids' \subseteq Ids
  BY DEF Ids
<1>2. IdsInv'
  BY <1>1 DEF Fresh, IdsInv
<1>3. DOMAIN search' = DOMAIN NoSearch /\ (search'.pc = "load" =>
        search.pc = "load" /\ search'.newest = search.newest)
  BY DEF Fresh, CacheInv, Disturb, NoSearch
<1>4. CacheInv'
  BY <1>3 DEF Fresh, CacheInv, Seen, Whole
<1>5. SearchFresh'
  BY DEF SearchFresh, Pending
<1>. QED BY <1>2, <1>4, <1>5 DEF Fresh

\* An insertion: the newest _id is one nobody has seen.
LEMMA InsertFresh ==
  ASSUME Typed, Typed', Fresh, NEW w \in Writers, NEW n \in Nat \ {0},
         NEW pairs \in [1 .. n -> Docs \X Chunked], Insert(w, pairs), UNCHANGED cache
  PROVE  Fresh'
<1>1. /\ IdsInv' /\ made <= made' /\ made \in Nat /\ made' \in Nat
      /\ (ordered' => ordered) /\ embs' # {} /\ Disturb
  BY InsertIds DEF Fresh, Typed
<1>2. PICK i \in Ids' : i \in Id /\ made < i[3]
  BY InsertIds DEF Fresh
<1>3. DOMAIN search' = DOMAIN NoSearch /\ search'.pc # "answered" /\ (search'.pc = "load" =>
        search.pc = "load" /\ search'.newest = search.newest)
  BY <1>1 DEF Fresh, CacheInv, Disturb, NoSearch
<1>4. \A j : Seen(j) => Seen(j)'
  BY <1>1 DEF Seen, Id
<1>5. ordered' => ~Seen(NewestId')
  <2> SUFFICES ASSUME ordered' PROVE ~Seen(NewestId')
    OBVIOUS
  <2>1. NewestId' \in Ids' /\ i[3] <= NewestId'[3]
    BY <1>1, <1>2, NewestNext
  <2>2. NewestId' \in Id
    BY <2>1, EmbeddingIds DEF Typed, Ids
  <2>3. NewestId' # None
    BY <2>2, ConstantsAssumption DEF Id
  <2>. QED BY <1>1, <1>2, <2>1, <2>2, <2>3 DEF Seen, Id
<1>6. CacheInv'
  BY <1>1, <1>3, <1>4, <1>5 DEF Fresh, CacheInv, Whole
<1>7. SearchFresh'
  BY <1>3 DEF SearchFresh
<1>. QED BY <1>1, <1>6, <1>7 DEF Fresh

\* The search itself.
LEMMA SearchStepFresh ==
  ASSUME Typed, Fresh, CountEmbs \/ NewestEmb \/ LoadEmbs
  PROVE  Fresh'
<1>1. /\ UNCHANGED <<embs, made, ordered, torn, job>>
  BY DEF CountEmbs, NewestEmb, LoadEmbs, aux, ghosts
<1>2. Ids' = Ids /\ NewestId' = NewestId
  BY <1>1 DEF Ids, NewestId
<1>3. IdsInv' /\ (Whole' <=> Whole)
  BY <1>1, <1>2 DEF Fresh, IdsInv, Whole, Pending
<1>4. \A j : Seen(j)' <=> Seen(j)
  BY <1>1 DEF Seen
<1>5. CASE CountEmbs
  <2>1. search'.pc = "newest" /\ DOMAIN search' = DOMAIN NoSearch
    BY <1>5 DEF CountEmbs, NoSearch
  <2>2. cache'.docs # None => cache' = cache
    BY <1>5 DEF CountEmbs, NoCache
  <2>3. CacheInv'
    BY <1>1, <1>2, <1>3, <1>4, <2>1, <2>2 DEF Fresh, CacheInv
  <2>. QED BY <1>3, <2>1, <2>3 DEF Fresh, SearchFresh
<1>6. CASE NewestEmb
  <2>1. UNCHANGED cache
    BY <1>6 DEF NewestEmb
  <2>2. CASE Same(cache, search.count, NewestId)
    <3>1. search' = Answer(cache.docs)
      BY <1>6, <2>2 DEF NewestEmb
    <3>2. DOMAIN search' = DOMAIN NoSearch /\ search'.pc # "load"
          /\ (search'.pc = "answered" => search'.docs = cache.docs)
      BY <3>1 DEF Answer, NoSearch
    <3>3. Whole => cache.docs = embs
      BY <2>2 DEF Same, Fresh, CacheInv
    <3>4. CacheInv'
      BY <1>1, <1>2, <1>3, <1>4, <2>1, <3>2 DEF Fresh, CacheInv
    <3>. QED BY <1>1, <1>3, <3>2, <3>3, <3>4 DEF Fresh, SearchFresh, Whole, Pending
  <2>3. CASE ~Same(cache, search.count, NewestId)
    <3>1. search' = [search EXCEPT !.pc = "load", !.newest = NewestId]
      BY <1>6, <2>3 DEF NewestEmb
    <3>2. DOMAIN search' = DOMAIN NoSearch /\ search'.pc = "load" /\ search'.newest = NewestId
      BY <3>1 DEF Fresh, CacheInv, NoSearch
    <3>3. ordered => Seen(NewestId)
      <4>1. CASE embs = {}
        BY <4>1 DEF NewestId, Seen
      <4>2. CASE embs # {} /\ ordered
        <5>1. NewestId \in Ids
          BY <4>2, Newest DEF Fresh
        <5>. QED BY <5>1, IdTypes DEF Fresh, IdsInv, Seen
      <4>. QED BY <4>1, <4>2
    <3>4. CacheInv'
      BY <1>1, <1>2, <1>3, <1>4, <2>1, <3>2, <3>3 DEF Fresh, CacheInv
    <3>. QED BY <1>3, <3>2, <3>4 DEF Fresh, SearchFresh
  <2>. QED BY <2>2, <2>3
<1>7. CASE LoadEmbs
  <2>1. /\ cache' = [count |-> search.count, newest |-> search.newest, docs |-> embs]
        /\ search' = Answer(embs) /\ search.pc = "load"
    BY <1>7 DEF LoadEmbs
  <2>2. /\ DOMAIN search' = DOMAIN NoSearch /\ search'.pc # "load"
        /\ (search'.pc = "answered" => search'.docs = embs)
    BY <2>1 DEF Answer, NoSearch
  <2>3. cache'.docs = embs' /\ cache'.newest = search.newest
    BY <1>1, <2>1
  <2>4. CacheInv'
    BY <1>1, <1>4, <2>1, <2>2, <2>3 DEF Fresh, CacheInv
  <2>. QED BY <1>1, <1>3, <2>2, <2>4 DEF Fresh, SearchFresh
<1>. QED BY <1>5, <1>6, <1>7

\* Who has deleted and not yet inserted stays so when others take a step.
LEMMA PendingStays ==
  ASSUME NEW w \in Writers, \A v \in Others(w) : job'[v].pc = job[v].pc,
         job[w].pc \notin {"put_embs", "put_all"}, Pending
  PROVE  Pending'
  BY DEF Pending, Others

LEMMA WrotePcs ==
  ASSUME Typed, NEW w \in Writers, NEW q, Wrote(w, q)
  PROVE  job'[w] = q /\ \A v \in Others(w) : job'[v].pc = job[v].pc
<1>1. job'[w] = q
  BY DEF Wrote
<1>2. ASSUME NEW v \in Others(w) PROVE job'[v].pc = job[v].pc
  <2>1. job[v] \in Job /\ job'[v] = [job[v] EXCEPT !.alone = ~Active(v)]
    BY <1>2 DEF Typed, Wrote, Others
  <2>. QED BY <2>1 DEF Job
<1>. QED BY <1>1, <1>2

LEMMA FreshStep ==
  ASSUME Typed, Typed', Fresh, [Next]_vars
  PROVE  Fresh'
<1>1. ASSUME NEW d \in Docs, NEW t \in Texts \cup {None}, Change(d, t) PROVE Fresh'
  BY <1>1, QuietFresh DEF Change, aux, ghosts, Pending
<1>2. ASSUME NEW d \in Docs, DaemonSync(d) PROVE Fresh'
  <2>1. /\ UNCHANGED <<embs, made, ordered, cache, search, torn>> /\ ~Active(Daemon)
        /\ Daemon \in Writers
    BY <1>2 DEF DaemonSync, aux, Writers
  <2>2. \A v \in Others(Daemon) : job'[v] = job[v]
    BY <1>2 DEF DaemonSync, Turn, Typed, Others
  <2>. QED BY <2>1, <2>2, QuietFresh, PendingStays DEF Active
<1>3. ASSUME NEW c \in Clients, NEW d \in Docs, Add(c, d) PROVE Fresh'
  <2>1. UNCHANGED <<embs, made, ordered, cache, search, torn>> /\ ~Active(c) /\ c \in Writers
    BY <1>3, ClientWrites DEF Add, Command
  <2>2. \A v \in Others(c) : job'[v] = job[v]
    BY <1>3 DEF Add, Turn, Typed, Others
  <2>. QED BY <2>1, <2>2, QuietFresh, PendingStays DEF Active
<1>4. ASSUME NEW c \in Clients, Backfill(c) \/ Embed(c) PROVE Fresh'
  <2>1. UNCHANGED <<embs, made, ordered, cache, search, torn>> /\ ~Active(c) /\ c \in Writers
    BY <1>4, ClientWrites DEF Backfill, Embed, Command
  <2>2. \A v \in Others(c) : job'[v] = job[v]
    BY <1>4 DEF Backfill, Embed, Typed, Others
  <2>. QED BY <2>1, <2>2, QuietFresh, PendingStays DEF Active
<1>5. ASSUME NEW c \in Clients, NextCandidate(c) PROVE Fresh'
  <2>1. /\ UNCHANGED <<embs, made, ordered, cache, search, torn>> /\ job[c].pc = "next"
        /\ c \in Writers
    BY <1>5, ClientWrites DEF NextCandidate, aux
  <2>2. \A v \in Others(c) : job'[v] = job[v]
    BY <1>5 DEF NextCandidate, Turn, Typed, Others
  <2>. QED BY <2>1, <2>2, QuietFresh, PendingStays
<1>6. ASSUME NEW w \in Writers, Read(w) PROVE Fresh'
  <2>1. UNCHANGED <<embs, made, ordered, cache, search, torn>> /\ job[w].pc = "read"
    BY <1>6 DEF Read, aux, ghosts
  <2>2. \A v \in Others(w) : job'[v] = job[v]
    BY <1>6 DEF Read, Typed, Others
  <2>. QED BY <2>1, <2>2, QuietFresh, PendingStays
<1>7. ASSUME NEW w \in Writers, DropChunks(w) \/ PutChunks(w) PROVE Fresh'
  <2>1. /\ UNCHANGED <<embs, made, ordered, cache, search, torn>>
        /\ job[w].pc \in {"drop_chunks", "put_chunks"}
    BY <1>7 DEF DropChunks, PutChunks, aux, ghosts
  <2>2. \A v \in Others(w) : job'[v].pc = job[v].pc
    BY <1>7, WrotePcs DEF DropChunks, PutChunks
  <2>. QED BY <2>1, <2>2, QuietFresh, PendingStays
<1>8. ASSUME NEW w \in Writers, DropEmbs(w) PROVE Fresh'
  <2>1. /\ embs' \subseteq embs /\ UNCHANGED <<made, ordered, cache>> /\ Disturb
        /\ Wrote(w, [job[w] EXCEPT !.pc = "put_embs"]) /\ job[w] \in Job
    BY <1>8 DEF DropEmbs, aux, ghosts, Typed
  <2>2. job'[w].pc = "put_embs"
    BY <2>1, WrotePcs DEF Job
  <2>. QED BY <2>1, <2>2, DropFresh DEF Pending
<1>9. ASSUME NEW c \in Clients, DropAll(c) PROVE Fresh'
  <2>1. /\ embs' \subseteq embs /\ UNCHANGED <<made, ordered, cache>> /\ Disturb /\ c \in Writers
        /\ Wrote(c, [job[c] EXCEPT !.pc = "put_all"]) /\ job[c] \in Job
    BY <1>9, ClientWrites DEF DropAll, aux, ghosts, Typed
  <2>2. job'[c].pc = "put_all"
    BY <2>1, WrotePcs DEF Job
  <2>. QED BY <2>1, <2>2, DropFresh DEF Pending
<1>10. ASSUME NEW w \in Writers, PutEmbs(w) PROVE Fresh'
  <2> DEFINE one == <<<<job[w].doc, job[w].text>>>>
  <2>1. Insert(w, one) /\ UNCHANGED cache /\ job[w].pc = "put_embs"
    BY <1>10 DEF PutEmbs
  <2>2. job[w].doc \in Docs /\ job[w].text \in Chunked
    BY <2>1 DEF Typed, Fits, OneDoc, Writing, Chunked
  <2>3. one \in [1 .. 1 -> Docs \X Chunked]
    BY <2>2
  <2>4. 1 \in Nat \ {0}
    OBVIOUS
  <2> HIDE DEF one
  <2>. QED BY <2>1, <2>3, <2>4, InsertFresh
<1>11. ASSUME NEW c \in Clients, PutAll(c) PROVE Fresh'
  <2>1. /\ c \in Writers /\ job[c] \in Job /\ Fits(c, job[c]) /\ job[c].pc = "put_all"
        /\ UNCHANGED cache
    BY <1>11, ClientWrites DEF Typed, PutAll
  <2>2. PICK s \in SetToSeqs(job[c].snap) : Insert(c, Pairs(s))
    BY <1>11 DEF PutAll, Pairs
  <2>3. IsFiniteSet(job[c].snap) /\ job[c].snap # {} /\ job[c].snap \in SUBSET (Docs \X Nat \X Chunked)
    BY <2>1 DEF Job, Fits, AllDocs
  <2>4. Len(s) \in Nat /\ Pairs(s) \in [1 .. Len(s) -> Docs \X Chunked]
    BY <2>2, <2>3, PairsTyped
  <2>5. Len(s) # 0
    BY <2>2, <2>3, Listed, FS_EmptySet
  <2>. QED BY <2>1, <2>2, <2>4, <2>5, InsertFresh
<1>12. ASSUME NEW w \in Writers, Abort(w) PROVE Fresh'
  <2>1. /\ UNCHANGED <<embs, made, ordered, cache, search>>
        /\ torn' = (torn \/ job[w].pc \in {"put_embs", "put_all"})
    BY <1>12 DEF Abort, aux
  <2>2. \A v \in Others(w) : job'[v] = job[v]
    BY <1>12 DEF Abort, Typed, Others
  <2>3. torn => torn'
    BY <2>1
  <2>4. Pending => Pending' \/ torn'
    BY <2>1, <2>2, PendingStays
  <2>. QED BY <2>1, <2>3, <2>4, QuietFresh
<1>13. CASE CountEmbs \/ NewestEmb \/ LoadEmbs
  BY <1>13, SearchStepFresh
<1>14. CASE UNCHANGED vars
  BY <1>14, QuietFresh DEF vars, aux, ghosts, Pending
<1>. QED BY <1>1, <1>2, <1>3, <1>4, <1>5, <1>6, <1>7, <1>8, <1>9, <1>10, <1>11, <1>12, <1>13,
            <1>14 DEF Next

LEMMA InitFresh == ASSUME Init PROVE Fresh
<1>1. PICK s \in Seq(Docs) :
        /\ DOMAIN s = 1 .. Len(s) /\ Len(s) \in Nat /\ made = Len(s)
        /\ \A i, j \in DOMAIN s : s[i] = s[j] => i = j
        /\ \A i \in DOMAIN s : chunks[s[i]] # <<>>
        /\ \A d \in Docs : chunks[d] # <<>> => \E i \in DOMAIN s : s[i] = d
        /\ \A e : e \in embs <=>
             \E i \in DOMAIN s : e = [id |-> <<0, 1, i>>, doc |-> s[i], text |-> Start[s[i]]]
  BY Beginning
<1>2. ASSUME NEW j \in Ids PROVE \E i \in 1 .. made : j = <<0, 1, i>>
  <2>1. PICK e \in embs : j = e.id
    BY <1>2 DEF Ids
  <2>2. PICK i \in DOMAIN s : e = [id |-> <<0, 1, i>>, doc |-> s[i], text |-> Start[s[i]]]
    BY <1>1, <2>1
  <2>. QED BY <1>1, <2>1, <2>2
<1>3. IdsInv
  BY <1>1, <1>2 DEF IdsInv, Before
<1>4. CacheInv /\ SearchFresh
  BY DEF Init, CacheInv, SearchFresh, NoCache, NoSearch
<1>. QED BY <1>3, <1>4 DEF Fresh

\* A search that nobody disturbs answers from what is in the collection, whatever it has
\* kept from before: where _ids grow, an insertion makes a newest _id that no search has
\* seen.
THEOREM SearchesFresh == Spec => []SearchFresh
<1>1. Init => Typed /\ Fresh
  BY InitTyped, InitFresh
<1>2. Typed /\ Fresh /\ [Next]_vars => Typed' /\ Fresh'
  BY TypedStep, FreshStep
<1>. QED BY <1>1, <1>2, PTL DEF Spec, Fresh
=============================================================================
