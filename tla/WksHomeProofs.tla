------------------------------ MODULE WksHomeProofs ------------------------------
(***************************************************************************)
(* What the log and the configuration of a home keep, for any number of     *)
(* processes, lines, deaths, changes and failures, and any rules.           *)
(***************************************************************************)
EXTENDS WksHome, TLAPS, FiniteSetTheorems, WellFoundedInduction

-----------------------------------------------------------------------------
(* The log *)

\* The types that the proof about the log needs.
LogTypes ==
    /\ said \in Seq(Kinds) /\ Len(said) <= MaxEntries
    /\ proc \in [Procs -> [pc : {"idle", "cut", "write", "show", "wipe"},
                           shows : BOOLEAN, kept : SUBSET Lines, found : SUBSET Lines]]
    /\ file \subseteq Lines

\* Whoever is going to write the file anew has in hand every line that is not
\* accounted for otherwise.  It makes LossAccounted inductive: what the file holds
\* at the moment it is emptied is not looked at again.
KeptComplete ==
    \A p \in Rewriting : Said \subseteq proc[p].kept \cup old \cup dropped \cup exposed

LogInv == LogTypes /\ KeptComplete /\ LossAccounted

\* An empty log accounts for everything.
LEMMA LogInitially == LogInit => LogInv
<1> SUFFICES ASSUME LogInit PROVE LogInv
  OBVIOUS
<1>1. Said = {}
  BY DEF LogInit, Said
<1>2. LogTypes
  BY LogAssumption DEF LogInit, LogTypes, NoWork
<1>3. Rewriting = {}
  BY DEF LogInit, Rewriting, NoWork
<1> QED
  BY <1>1, <1>2, <1>3 DEF LogInv, KeptComplete, LossAccounted

\* A line that is appended is in the file, and exposed if anybody is rewriting it.
LEMMA AppendKeeps ==
  ASSUME LogInv, NEW k \in Kinds, AppendLine(k)
  PROVE  LogInv'
<1> USE DEF LogInv, LogTypes
<1>1. said' \in Seq(Kinds) /\ Said' = Said \cup {Len(said) + 1}
  BY DEF AppendLine, Said
<1>2. Rewriting' = Rewriting /\ Held' = Held
  BY DEF AppendLine, Rewriting, Held, Emptied
<1>3. LogTypes'
  <2>1. Len(said') <= MaxEntries /\ Len(said) + 1 \in Lines
    BY LogAssumption DEF AppendLine, Lines
  <2>2. proc' = proc /\ file' = file \cup {Len(said) + 1}
    BY DEF AppendLine
  <2> QED
    BY <1>1, <2>1, <2>2
<1>4. KeptComplete'
  BY <1>1, <1>2 DEF AppendLine, KeptComplete
<1>5. LossAccounted'
  BY <1>1, <1>2 DEF AppendLine, LossAccounted
<1> QED
  BY <1>3, <1>4, <1>5

\* Reading for a rewriting: what is left out has expired or was asked to go; what is
\* not in the file but in somebody's hands is exposed.
LEMMA ReadKeeps ==
  ASSUME LogInv, NEW p \in Procs, NEW shows \in BOOLEAN, NEW kept, NEW asked,
         Read(p, shows, kept, asked),
         kept \subseteq file, file \subseteq kept \cup old \cup asked
  PROVE  LogInv'
<1> USE DEF LogInv, LogTypes
<1> DEFINE found == IF shows THEN Recent({n \in kept : IsError(n)}) ELSE {}
           work  == [pc |-> "cut", shows |-> shows, kept |-> kept, found |-> found]
<1>1. said' = said /\ Said' = Said /\ file' = file /\ proc' = [proc EXCEPT ![p] = work]
  BY DEF Read, Said
<1>2. found \subseteq kept
  BY DEF Recent
<1> HIDE DEF found
<1>3. work \in [pc : {"idle", "cut", "write", "show", "wipe"}, shows : BOOLEAN,
                kept : SUBSET Lines, found : SUBSET Lines]
  BY <1>2
<1>4. LogTypes'
  BY <1>1, <1>3
<1>5. Held' = Held /\ Rewriting' = Rewriting \cup {p}
  BY <1>1 DEF Read, Held, Emptied, Rewriting
<1>6. KeptComplete'
  <2> SUFFICES ASSUME NEW q \in Rewriting', NEW n \in Said
               PROVE  n \in (proc[q].kept \cup old \cup dropped \cup exposed)'
    BY <1>1 DEF KeptComplete
  <2>1. CASE q = p
    BY <2>1, <1>1 DEF Read, LossAccounted
  <2>2. CASE q # p
    BY <2>2, <1>1, <1>5 DEF Read, KeptComplete
  <2> QED
    BY <2>1, <2>2
<1>7. LossAccounted'
  BY <1>1, <1>5 DEF Read, LossAccounted
<1> QED
  BY <1>4, <1>6, <1>7

\* Emptying the file: what it held is in the hands of whoever empties it.
LEMMA TruncateKeeps ==
  ASSUME LogInv, NEW p \in Procs, Truncate(p)
  PROVE  LogInv'
<1> USE DEF LogInv, LogTypes
<1>1. Said' = Said /\ proc' = [proc EXCEPT ![p].pc = "write"]
  BY DEF Truncate, Said
<1>2. p \in Rewriting /\ Rewriting' = Rewriting /\ Emptied' = Emptied \cup {p}
  BY <1>1 DEF Truncate, Rewriting, Emptied
<1>3. \A q \in Procs : proc'[q].kept = proc[q].kept
  BY <1>1
<1>4. proc[p].kept \subseteq Held'
  BY <1>2, <1>3 DEF Held
<1>5. LogTypes'
  BY <1>1 DEF Truncate
<1>6. KeptComplete'
  BY <1>1, <1>2, <1>3 DEF Truncate, KeptComplete, Rewriting
<1>7. LossAccounted'
  BY <1>1, <1>2, <1>4 DEF Truncate, KeptComplete, LossAccounted
<1> QED
  BY <1>5, <1>6, <1>7

\* Writing: what the process has in hand is in the file.
LEMMA WriteBackKeeps ==
  ASSUME LogInv, NEW p \in Procs, WriteBack(p)
  PROVE  LogInv'
<1> USE DEF LogInv, LogTypes
<1>1. PICK rest \in SUBSET file : file' = proc[p].kept \cup rest
  BY DEF WriteBack
<1>2. Said' = Said /\ p \in Rewriting
  BY DEF WriteBack, Said, Rewriting
<1> DEFINE work == IF proc[p].shows THEN [proc[p] EXCEPT !.pc = "show", !.kept = {}]
                                    ELSE NoWork
<1>3. proc' = [proc EXCEPT ![p] = work]
  BY DEF WriteBack
<1>4. work \in [pc : {"idle", "show"}, shows : BOOLEAN,
                kept : SUBSET Lines, found : SUBSET Lines]
  BY DEF NoWork
<1> HIDE DEF work
<1>5. Rewriting' = Rewriting \ {p} /\ \A q \in Procs \ {p} : proc'[q] = proc[q]
  BY <1>3, <1>4 DEF Rewriting
<1>6. LogTypes'
  BY <1>1, <1>3, <1>4 DEF WriteBack
<1>7. KeptComplete'
  BY <1>2, <1>5 DEF WriteBack, KeptComplete, Rewriting
<1>8. Said \subseteq file' \cup old \cup dropped \cup exposed
  BY <1>1, <1>2 DEF KeptComplete
<1>9. LossAccounted'
  BY <1>2, <1>8 DEF WriteBack, LossAccounted
<1> QED
  BY <1>6, <1>7, <1>9

\* daemon.json is written; a command looks for a daemon; a daemon starts; a line
\* expires: nothing that is accounted for ceases to be.
LEMMA OtherLogSteps ==
  ASSUME LogInv,
         \/ \E p \in Procs : Show(p)
         \/ \E c \in LogClients : ClearLooks(c)
         \/ DaemonStarts
         \/ \E n \in Said : Ages(n)
  PROVE  LogInv'
<1> USE DEF LogInv, LogTypes
<1>1. Said' = Said /\ said' = said /\ file' = file /\ dropped' = dropped
      /\ exposed' = exposed /\ old \subseteq old'
  BY DEF Show, ClearLooks, DaemonStarts, Ages, Said
<1>2. /\ proc' \in [Procs -> [pc : {"idle", "cut", "write", "show", "wipe"},
                              shows : BOOLEAN, kept : SUBSET Lines, found : SUBSET Lines]]
      /\ Rewriting' = Rewriting /\ Emptied' = Emptied
      /\ \A p \in Rewriting : proc'[p] = proc[p]
  <2>1. CASE \E p \in Procs : Show(p)
    BY <2>1 DEF Show, NoWork, Rewriting, Emptied
  <2>2. CASE \E c \in LogClients : ClearLooks(c)
    BY <2>2 DEF ClearLooks, Rewriting, Emptied, Procs
  <2>3. CASE DaemonStarts \/ \E n \in Said : Ages(n)
    BY <2>3 DEF DaemonStarts, Ages, Rewriting, Emptied
  <2> QED
    BY <2>1, <2>2, <2>3
<1>3. Held' = Held
  BY <1>2 DEF Held, Emptied, Rewriting
<1>4. LogTypes'
  BY <1>1, <1>2
<1>5. KeptComplete'
  BY <1>1, <1>2 DEF KeptComplete
<1>6. LossAccounted'
  BY <1>1, <1>3 DEF LossAccounted
<1> QED
  BY <1>4, <1>5, <1>6

\* `daemon clear` removes what is in the file on purpose.
LEMMA WipeKeeps ==
  ASSUME LogInv, NEW c \in LogClients, ClearWipes(c)
  PROVE  LogInv'
<1> USE DEF LogInv, LogTypes
<1>1. /\ Said' = Said /\ said' = said /\ file' = {} /\ dropped' = dropped \cup file
      /\ exposed' = exposed /\ old' = old /\ c \in Procs
      /\ proc' = [proc EXCEPT ![c] = NoWork] /\ proc[c].pc = "wipe"
  BY DEF ClearWipes, Said, Procs
<1>2. Rewriting' = Rewriting /\ \A p \in Rewriting : proc'[p] = proc[p]
  BY <1>1 DEF NoWork, Rewriting
<1>3. Held' = Held
  BY <1>1 DEF Held, Emptied, NoWork
<1>4. LogTypes'
  BY <1>1 DEF NoWork
<1>5. KeptComplete'
  BY <1>1, <1>2 DEF KeptComplete
<1>6. LossAccounted'
  BY <1>1, <1>3 DEF LossAccounted
<1> QED
  BY <1>4, <1>5, <1>6

\* A process that dies exposes what it had in hand, if it had emptied the file.
LEMMA DeathKeeps ==
  ASSUME LogInv, NEW p \in Procs, Dies(p)
  PROVE  LogInv'
<1> USE DEF LogInv, LogTypes
<1>1. /\ Said' = Said /\ said' = said /\ file' = file /\ dropped' = dropped /\ old' = old
      /\ proc' = [proc EXCEPT ![p] = NoWork]
      /\ exposed' = IF p \in Emptied THEN exposed \cup proc[p].kept ELSE exposed
  BY DEF Dies, Said
<1>2. Rewriting' = Rewriting \ {p} /\ \A q \in Procs \ {p} : proc'[q] = proc[q]
  BY <1>1 DEF NoWork, Rewriting
<1>3. Held \subseteq Held' \cup exposed'
  BY <1>1, <1>2 DEF Held, Emptied, NoWork
<1>4. LogTypes'
  BY <1>1 DEF NoWork
<1>5. KeptComplete'
  BY <1>1, <1>2 DEF KeptComplete, Rewriting
<1>6. LossAccounted'
  BY <1>1, <1>3 DEF LossAccounted
<1> QED
  BY <1>4, <1>5, <1>6

\* Every operation that reads the file leaves out only what has expired or what it
\* was asked to remove.
LEMMA ReadersKeep ==
  ASSUME LogInv, DaemonRound \/ \E c \in LogClients :
                   DaemonStatus(c) \/ LogStatus(c) \/ ClearErrors(c)
                   \/ \E L \in SUBSET {k.level : k \in Kinds} : LogPrune(c, L)
  PROVE  LogInv'
<1>1. Unexpired \subseteq file /\ file \subseteq Unexpired \cup old \cup {}
  BY DEF Unexpired, Expired
<1>2. CASE DaemonRound
  BY <1>1, <1>2, ReadKeeps DEF DaemonRound, Procs
<1>3. CASE \E c \in LogClients : DaemonStatus(c) \/ LogStatus(c)
  BY <1>1, <1>3, ReadKeeps DEF DaemonStatus, LogStatus, Procs
<1>4. CASE \E c \in LogClients : ClearErrors(c)
  <2> DEFINE asked == {n \in file : said[n].stamped /\ said[n].level = "ERROR"}
  <2>1. WithoutErrors \subseteq file /\ file \subseteq WithoutErrors \cup old \cup asked
    BY DEF WithoutErrors
  <2> QED
    BY <1>4, <2>1, ReadKeeps DEF ClearErrors, Procs
<1>5. CASE \E c \in LogClients : \E L \in SUBSET {k.level : k \in Kinds} : LogPrune(c, L)
  <2> PICK c \in LogClients, L \in SUBSET {k.level : k \in Kinds} : LogPrune(c, L)
    BY <1>5
  <2> DEFINE asked == {n \in file : said[n].level \in L}
  <2>1. WithoutLevels(L) \subseteq file /\ file \subseteq WithoutLevels(L) \cup old \cup asked
    BY DEF WithoutLevels
  <2> QED
    BY <2>1, ReadKeeps DEF LogPrune, Procs
<1> QED
  BY <1>2, <1>3, <1>4, <1>5

\* Every step of the log's processes keeps every line accounted for.
LEMMA LogStep ==
  ASSUME LogInv, LogNext
  PROVE  LogInv'
<1>1. CASE \E k \in Kinds : AppendLine(k)
  BY <1>1, AppendKeeps
<1>2. CASE DaemonStarts \/ \E n \in Said : Ages(n)
  BY <1>2, OtherLogSteps
<1>3. CASE DaemonRound
  BY <1>3, ReadersKeep
<1>4. CASE \E c \in LogClients : Command(c)
  BY <1>4, ReadersKeep, OtherLogSteps DEF Command
<1>5. CASE \E c \in LogClients : ClearWipes(c)
  BY <1>5, WipeKeeps
<1>6. CASE \E p \in Procs : Rewrite(p)
  BY <1>6, TruncateKeeps, WriteBackKeeps, OtherLogSteps DEF Rewrite
<1>7. CASE \E p \in Procs : Dies(p)
  BY <1>7, DeathKeeps
<1> QED
  BY <1>1, <1>2, <1>3, <1>4, <1>5, <1>6, <1>7 DEF LogNext

\* Every line that was ever appended to the log is in the file, in the hands of the
\* process that has just emptied it, was left out on purpose, or fell to one of the
\* three accidents: for any number of processes, lines and deaths.
THEOREM NoLineLost == Spec => []LossAccounted
<1>1. Init => LogInv
  BY LogInitially DEF Init
<1>2. LogInv /\ [Next]_vars => LogInv'
  <2> SUFFICES ASSUME LogInv, [Next]_vars PROVE LogInv'
    OBVIOUS
  <2>1. CASE LogNext
    BY <2>1, LogStep
  <2>2. CASE UNCHANGED logVars
    BY <2>2 DEF logVars, LogInv, LogTypes, KeptComplete, LossAccounted, Said, Held,
                Emptied, Rewriting
  <2> QED
    BY <2>1, <2>2 DEF Next, vars
<1> QED
  BY <1>1, <1>2, PTL DEF Spec, LogInv

-----------------------------------------------------------------------------
(* The configuration *)

\* The types that the proof about the configuration needs; what is in a file or asked
\* to be saved plays no part in them.
Saving(values) ==
    [pc : {"idle", "open", "write", "replace"}, change : Changes \cup {NoChange},
     config : values, file : Files \cup {NoFile}]

ConfigTypes ==
    /\ live \in Files /\ tmp \in Files \cup {NoFile} /\ tmp # live
    /\ data = [f \in Files |-> data[f]]
    /\ overlap \in BOOLEAN
    /\ \E values : saver \in [Clients -> Saving(values)]
    /\ \A c \in Clients : saver[c].pc # "write" => saver[c].file = NoFile
    /\ \A c \in Busy : saver[c].change \in Changes

\* A client that is alone with its change is going to save what the change makes of
\* the truth: it has it in hand, or in the temporary file, which is its own.
Purpose(c) ==
    /\ saver[c].config \in Outcome(saver[c].change, truth)
    /\ saver[c].pc = "write" => /\ tmp = saver[c].file /\ tmp # NoFile
                                /\ data[tmp] = Empty
    /\ saver[c].pc = "replace" => tmp # NoFile /\ data[tmp] = saver[c].config

Truthful ==
    /\ data[live] = truth
    /\ \A c, d \in Busy : c = d
    /\ \A c \in Busy : Purpose(c)

ConfigInv == ConfigTypes /\ (overlap \/ Truthful)

\* There is always a file that nobody has a hold on.
LEMMA FreshFile ==
  ASSUME ConfigTypes, NEW c \in Clients, saver[c].pc = "open", tmp = NoFile
  PROVE  (CHOOSE u \in Unused : TRUE) \in Files \ {live}
<1> DEFINE held == {saver[d].file : d \in Clients}
           holds == [d \in Clients |-> saver[d].file]
<1>1. holds \in Surjection(Clients, held)
  BY DEF Surjection
<1>2. IsFiniteSet(held) /\ Cardinality(held) <= Cardinality(Clients)
  BY <1>1, FS_Surjection, ConfigAssumption
<1> HIDE DEF held, holds
<1>3. /\ Cardinality(held) \in Nat /\ Cardinality(Clients) \in Nat
      /\ Cardinality(Files) \in Nat
  BY <1>2, FS_CardinalityType, ConfigAssumption
<1>4. ~(Files \subseteq held \cup {live})
  <2> SUFFICES ASSUME Files \subseteq held \cup {live} PROVE FALSE
    OBVIOUS
  <2>1. /\ IsFiniteSet(held \cup {live})
        /\ Cardinality(held \cup {live}) =
             IF live \in held THEN Cardinality(held) ELSE Cardinality(held) + 1
    BY <1>2, FS_AddElement, Zenon
  <2>2. Cardinality(Files) <= Cardinality(held \cup {live})
    BY <2>1, FS_Subset
  <2>3. Cardinality(Files) > Cardinality(Clients) + 1
    BY ConfigAssumption
  <2> QED
    BY <1>2, <1>3, <2>1, <2>2, <2>3
<1>5. Unused # {} /\ Unused \subseteq Files \ {live}
  BY <1>4, ConfigAssumption DEF Unused, held
<1> QED
  BY <1>5

\* A change makes one thing of a configuration, if anything.
LEMMA OneOutcome ==
  ASSUME NEW g \in Changes, NEW config, NEW new \in Outcome(g, config),
         NEW other \in Outcome(g, config)
  PROVE  new = other
<1>1. CASE g.op = "filter add"
  <2>1. Outcome(g, config) = FilterAdd(g, config)
    BY <1>1 DEF Outcome
  <2>2. \A n \in FilterAdd(g, config) : n = [config EXCEPT ![g.list] = @ \cup {g.at}]
    BY Zenon DEF FilterAdd
  <2> QED
    BY <2>1, <2>2, Zenon
<1>2. CASE g.op = "filter remove"
  <2>1. Outcome(g, config) = FilterRemove(g, config)
    BY <1>2 DEF Outcome
  <2>2. \A n \in FilterRemove(g, config) : n = [config EXCEPT ![g.list] = @ \ {g.at}]
    BY Zenon DEF FilterRemove
  <2> QED
    BY <2>1, <2>2, Zenon
<1>3. CASE g.op = "priority add"
  <2>1. Outcome(g, config) = PriorityAdd(g, config)
    BY <1>3 DEF Outcome
  <2> QED
    BY <2>1, Zenon DEF PriorityAdd
<1>4. CASE g.op = "priority remove"
  <2>1. Outcome(g, config) = PriorityRemove(g, config)
    BY <1>4 DEF Outcome
  <2>2. \A n \in PriorityRemove(g, config) : n = [config EXCEPT !.dirs[g.at] = 0]
    BY Zenon DEF PriorityRemove
  <2> QED
    BY <2>1, <2>2, Zenon
<1>5. CASE g.op = "set"
  <2>1. Outcome(g, config) = ConfigSet(g, config)
    BY <1>5 DEF Outcome
  <2> QED
    BY <2>1, Zenon DEF ConfigSet
<1> QED
  BY <1>1, <1>2, <1>3, <1>4, <1>5, ConfigAssumption DEF IsChange

\* Nobody is at work to begin with.
LEMMA ConfigInitially == ConfigInit => ConfigInv
<1> SUFFICES ASSUME ConfigInit PROVE ConfigInv
  OBVIOUS
<1>1. saver \in [Clients -> Saving({Empty})]
  BY DEF ConfigInit, Saving, AtRest
<1>2. Busy = {} /\ \A c \in Clients : saver[c].file = NoFile
  BY DEF ConfigInit, Busy, AtRest
<1>3. live \in Files /\ tmp = NoFile /\ tmp # live
  BY ConfigAssumption DEF ConfigInit
<1>4. data = [f \in Files |-> data[f]] /\ data[live] = truth /\ overlap = FALSE
  BY DEF ConfigInit
<1> QED
  BY <1>1, <1>2, <1>3, <1>4 DEF ConfigInv, ConfigTypes, Truthful

\* A change begins: alone, it is about the truth; otherwise the two overlap.
LEMMA AskKeeps ==
  ASSUME ConfigInv, NEW c \in Clients, NEW g \in Changes, Ask(c, g)
  PROVE  ConfigInv'
<1> USE DEF ConfigInv, ConfigTypes
<1>1. /\ live' = live /\ tmp' = tmp /\ data' = data /\ saver[c].pc = "idle"
  BY DEF Ask
<1>2. CASE UNCHANGED <<saver, overlap, truth>>
  BY <1>1, <1>2 DEF Busy, Purpose, Truthful
<1>3. CASE ~UNCHANGED <<saver, overlap, truth>>
  <2>1. PICK new \in Outcome(g, data[live]) :
          saver' = [saver EXCEPT ![c] = [pc |-> "open", change |-> g,
                                         file |-> NoFile, config |-> new]]
    BY <1>3 DEF Ask
  <2>2. /\ overlap' = (Busy # {})
        /\ truth' = IF overlap /\ Busy = {} THEN data[live] ELSE truth
    BY <1>3 DEF Ask
  <2>3. PICK values : saver \in [Clients -> Saving(values)]
    OBVIOUS
  <2>4. saver' \in [Clients -> Saving(values \cup {new})]
    BY <2>1, <2>3 DEF Saving
  <2>5. /\ saver'[c] = [pc |-> "open", change |-> g, file |-> NoFile, config |-> new]
        /\ \A d \in Clients \ {c} : saver'[d] = saver[d]
    BY <2>1, <2>3
  <2>6. Busy' = Busy \cup {c}
    BY <2>5 DEF Busy
  <2>7. ConfigTypes'
    BY <1>1, <2>2, <2>4, <2>5, <2>6 DEF Busy
  <2>8. CASE Busy = {}
    <3>1. truth' = data[live]
      <4>1. CASE overlap
        BY <2>2, <2>8, <4>1
      <4>2. CASE ~overlap
        BY <2>2, <4>2 DEF Truthful
      <4> QED
        BY <4>1, <4>2
    <3>2. Purpose(c)'
      BY <2>5, <3>1 DEF Purpose
    <3>3. Truthful'
      BY <1>1, <2>6, <2>8, <3>1, <3>2 DEF Truthful
    <3> QED
      BY <2>7, <3>3
  <2>9. CASE Busy # {}
    <3>1. overlap' = TRUE
      BY <2>2, <2>9
    <3> QED
      BY <2>7, <3>1
  <2> QED
    BY <2>8, <2>9
<1> QED
  BY <1>2, <1>3

\* The temporary file is opened: never the one that is live.
LEMMA OpenKeeps ==
  ASSUME ConfigInv, NEW c \in Clients, Open(c)
  PROVE  ConfigInv'
<1> USE DEF ConfigInv, ConfigTypes
<1>1. PICK f \in Files :
        /\ f # live /\ f # NoFile
        /\ tmp' = f
        /\ data' = [data EXCEPT ![f] = Empty]
        /\ saver' = [saver EXCEPT ![c].pc = "write", ![c].file = f]
  <2>1. CASE tmp = NoFile
    BY <2>1, FreshFile, ConfigAssumption DEF Open
  <2>2. CASE tmp # NoFile
    BY <2>2 DEF Open
  <2> QED
    BY <2>1, <2>2
<1>2. live' = live /\ truth' = truth /\ overlap' = overlap /\ saver[c].pc = "open"
  BY DEF Open
<1>4. PICK values : saver \in [Clients -> Saving(values)]
  OBVIOUS
<1>5. saver' \in [Clients -> Saving(values)]
  <2>1. saver[c] \in Saving(values)
    BY <1>4
  <2>2. [saver[c] EXCEPT !.pc = "write", !.file = f] \in Saving(values)
    BY <2>1 DEF Saving
  <2>3. saver' = [saver EXCEPT ![c] = [saver[c] EXCEPT !.pc = "write", !.file = f]]
    BY <1>1, <1>4
  <2> QED
    BY <1>4, <2>2, <2>3
<1>6. /\ saver'[c].pc = "write" /\ saver'[c].file = f
      /\ saver'[c].change = saver[c].change /\ saver'[c].config = saver[c].config
      /\ \A d \in Clients \ {c} : saver'[d] = saver[d]
  BY <1>1, <1>4 DEF Saving
<1>7. /\ data' = [e \in Files |-> data'[e]]
      /\ data'[live] = data[live] /\ data'[f] = Empty
  BY <1>1
<1>8. Busy' = Busy /\ c \in Busy
  BY <1>2, <1>6 DEF Busy
<1>9. ConfigTypes'
  BY <1>1, <1>2, <1>5, <1>6, <1>7, <1>8 DEF Busy
<1>10. ASSUME ~overlap PROVE Truthful'
  <2>1. Purpose(c)'
    BY <1>1, <1>2, <1>6, <1>7, <1>8, <1>10 DEF Purpose, Truthful
  <2> QED
    BY <1>2, <1>7, <1>8, <1>10, <2>1 DEF Truthful
<1> QED
  BY <1>2, <1>9, <1>10

\* The text is written: alone, exactly the one in hand.
LEMMA WriteKeeps ==
  ASSUME ConfigInv, NEW c \in Clients, Write(c)
  PROVE  ConfigInv'
<1> USE DEF ConfigInv, ConfigTypes
<1>1. PICK text \in (IF data[saver[c].file] \in {Empty, saver[c].config}
                       THEN {saver[c].config} ELSE {saver[c].config, Torn}) :
        data' = [data EXCEPT ![saver[c].file] = text]
  BY DEF Write
<1>2. /\ saver' = [saver EXCEPT ![c].pc = "replace", ![c].file = NoFile]
      /\ live' = live /\ tmp' = tmp /\ truth' = truth /\ overlap' = overlap
      /\ saver[c].pc = "write"
  BY DEF Write
<1>3. PICK values : saver \in [Clients -> Saving(values)]
  OBVIOUS
<1>4. saver' \in [Clients -> Saving(values)]
  BY <1>2, <1>3 DEF Saving
<1>5. /\ saver'[c].pc = "replace" /\ saver'[c].file = NoFile
      /\ saver'[c].change = saver[c].change /\ saver'[c].config = saver[c].config
      /\ \A d \in Clients \ {c} : saver'[d] = saver[d]
  BY <1>2, <1>3 DEF Saving
<1>6. data' = [e \in Files |-> data'[e]]
  BY <1>1
<1>7. Busy' = Busy /\ c \in Busy
  BY <1>2, <1>5 DEF Busy
<1>8. ConfigTypes'
  BY <1>2, <1>4, <1>5, <1>6, <1>7 DEF Busy
<1>9. ASSUME ~overlap PROVE Truthful'
  <2>1. Purpose(c) /\ Truthful
    BY <1>7, <1>9 DEF Truthful
  <2>2. saver[c].file = tmp /\ tmp \in Files /\ tmp # live /\ data[tmp] = Empty
    BY <1>2, <2>1 DEF Purpose
  <2>3. data'[tmp] = saver[c].config /\ data'[live] = data[live]
    BY <1>1, <2>2
  <2>4. Purpose(c)'
    BY <1>2, <1>5, <2>1, <2>2, <2>3, ConfigAssumption DEF Purpose
  <2> QED
    BY <1>2, <1>7, <2>1, <2>3, <2>4 DEF Truthful
<1> QED
  BY <1>2, <1>8, <1>9

\* The file takes its place: alone, what is live is what the change makes of the truth.
LEMMA ReplaceKeeps ==
  ASSUME ConfigInv, NEW c \in Clients, Replace(c)
  PROVE  ConfigInv'
<1> USE DEF ConfigInv, ConfigTypes
<1>1. /\ saver[c].pc = "replace" /\ saver' = [saver EXCEPT ![c] = AtRest]
      /\ data' = data /\ overlap' = overlap
  BY DEF Replace, Rest
<1>2. PICK values : saver \in [Clients -> Saving(values)]
  OBVIOUS
<1>3. saver' \in [Clients -> Saving(values \cup {Empty})]
  BY <1>1, <1>2 DEF Saving, AtRest
<1>4. /\ saver'[c] = AtRest
      /\ \A d \in Clients \ {c} : saver'[d] = saver[d]
  BY <1>1, <1>2
<1>5. Busy' = Busy \ {c} /\ c \in Busy
  BY <1>1, <1>4 DEF Busy, AtRest
<1>6. live' \in Files /\ tmp' \in Files \cup {NoFile} /\ tmp' # live'
  BY ConfigAssumption DEF Replace
<1>7. ConfigTypes'
  BY <1>1, <1>3, <1>4, <1>5, <1>6 DEF Busy, AtRest
<1>8. ASSUME ~overlap PROVE Truthful'
  <2>1. Purpose(c) /\ \A d \in Busy : d = c
    BY <1>5, <1>8 DEF Truthful
  <2>2. tmp # NoFile /\ data[tmp] = saver[c].config
        /\ saver[c].config \in Outcome(saver[c].change, truth)
    BY <1>1, <2>1 DEF Purpose
  <2>3. live' = tmp /\ truth' \in Outcome(saver[c].change, truth)
    BY <1>8, <2>2 DEF Replace
  <2>4. truth' = saver[c].config
    BY <1>5, <2>2, <2>3, OneOutcome
  <2> QED
    BY <1>1, <1>5, <2>1, <2>2, <2>3, <2>4 DEF Truthful
<1> QED
  BY <1>1, <1>7, <1>8

\* A save fails, or its process dies: what is live stays.
LEMMA FailureKeeps ==
  ASSUME ConfigInv, NEW c \in Clients, SaveFails(c) \/ SaverDies(c)
  PROVE  ConfigInv'
<1> USE DEF ConfigInv, ConfigTypes
<1>1. /\ saver[c].pc # "idle" /\ saver' = [saver EXCEPT ![c] = AtRest]
      /\ live' = live /\ data' = data /\ truth' = truth /\ overlap' = overlap
      /\ tmp' \in {tmp, NoFile}
  BY DEF SaveFails, SaverDies, Rest
<1>2. PICK values : saver \in [Clients -> Saving(values)]
  OBVIOUS
<1>3. saver' \in [Clients -> Saving(values \cup {Empty})]
  BY <1>1, <1>2 DEF Saving, AtRest
<1>4. /\ saver'[c] = AtRest
      /\ \A d \in Clients \ {c} : saver'[d] = saver[d]
  BY <1>1, <1>2
<1>5. Busy' = Busy \ {c} /\ c \in Busy
  BY <1>1, <1>4 DEF Busy, AtRest
<1>6. tmp' \in Files \cup {NoFile} /\ tmp' # live
  <2>1. live # NoFile
    BY ConfigAssumption
  <2> QED
    BY <1>1, <2>1
<1>7. \A d \in Clients : saver'[d].pc # "write" => saver'[d].file = NoFile
  BY <1>4 DEF AtRest
<1>8. ConfigTypes'
  BY <1>1, <1>3, <1>4, <1>5, <1>6, <1>7 DEF Busy
<1>9. ASSUME ~overlap PROVE Truthful'
  BY <1>1, <1>5, <1>9 DEF Truthful
<1> QED
  BY <1>1, <1>8, <1>9

\* Every step keeps config.json true.
LEMMA ConfigStep ==
  ASSUME ConfigInv, ConfigNext
  PROVE  ConfigInv'
<1>1. CASE \E c \in Clients : \E g \in Changes : Ask(c, g)
  BY <1>1, AskKeeps
<1>2. CASE \E c \in Clients : Save(c)
  BY <1>2, OpenKeeps, WriteKeeps, ReplaceKeeps, FailureKeeps DEF Save
<1> QED
  BY <1>1, <1>2 DEF ConfigNext

\* config.json is whole and holds exactly the changes that were reported done, unless
\* two were made at once: for any rules, changes, numbers of clients and failures.
THEOREM ConfigTrue == Spec => []ConfigKept
<1>1. Init => ConfigInv
  BY ConfigInitially DEF Init
<1>2. ConfigInv /\ [Next]_vars => ConfigInv'
  <2> SUFFICES ASSUME ConfigInv, [Next]_vars PROVE ConfigInv'
    OBVIOUS
  <2>1. CASE ConfigNext
    BY <2>1, ConfigStep
  <2>2. CASE UNCHANGED configVars
    BY <2>2 DEF configVars, ConfigInv, ConfigTypes, Truthful, Busy, Purpose
  <2> QED
    BY <2>1, <2>2 DEF Next, vars
<1>3. ConfigInv => ConfigKept
  BY DEF ConfigInv, ConfigKept, Truthful
<1> QED
  BY <1>1, <1>2, <1>3, PTL DEF Spec

-----------------------------------------------------------------------------
(* Types: the log *)

\* Whatever is in somebody's hands has been said, and a status never gets more errors
\* than it may show: what LogTypeOK needs to be inductive.
HandsFull ==
    \A p \in Procs :
      /\ proc[p].kept \subseteq Said /\ proc[p].found \subseteq Said
      /\ Cardinality(proc[p].found) <= MaxShown

LogWell == LogTypeOK /\ HandsFull

\* The most recent of some lines are no more than may be shown: all but the first of
\* them come after the first.
LEMMA RecentFew ==
  ASSUME said \in Seq(Kinds), NEW S, S \subseteq Said
  PROVE  Recent(S) \subseteq S /\ Cardinality(Recent(S)) <= MaxShown
<1> DEFINE T == Recent(S)
<1>1. T \subseteq S /\ S \subseteq Nat /\ T \subseteq Nat
  <2>1. T \subseteq S
    BY Zenon DEF Recent
  <2>2. Said \subseteq Nat
    BY DEF Said
  <2> QED
    BY <2>1, <2>2
<1>2. IsFiniteSet(S) /\ IsFiniteSet(T)
  <2>1. IsFiniteSet(Said)
    BY FS_Interval DEF Said
  <2> QED
    BY <1>1, <2>1, FS_Subset
<1>3. CASE T = {}
  BY <1>1, <1>3, FS_EmptySet, LogAssumption
<1>4. CASE T # {}
  <2>1. PICK m \in T : \A n \in T : ~(n < m)
    <3>1. PICK m \in T : \A n \in T : <<n, m>> \notin OpToRel(<, Nat)
      BY <1>1, <1>4, NatLessThanWellFounded, WFMin
    <3>2. \A n \in T : n < m => <<n, m>> \in OpToRel(<, Nat)
      BY <1>1 DEF OpToRel
    <3> QED
      BY <3>1, <3>2
  <2> DEFINE later == {k \in S : k > m}
  <2>2. Cardinality(later) < MaxShown
    BY <2>1 DEF Recent
  <2>3. T \ {m} \subseteq later
    BY <1>1, <2>1
  <2>4. IsFiniteSet(later) /\ Cardinality(later) \in Nat
    BY <1>2, FS_Subset, FS_CardinalityType
  <2>5. Cardinality(T \ {m}) <= Cardinality(later)
    BY <2>3, <2>4, FS_Subset
  <2>6. Cardinality(T \ {m}) = Cardinality(T) - 1 /\ Cardinality(T) \in Nat
    BY <1>2, <2>1, FS_RemoveElement, FS_CardinalityType
  <2> QED
    BY <1>1, <2>2, <2>4, <2>5, <2>6, LogAssumption
<1> QED
  BY <1>3, <1>4

\* The log is empty to begin with.
LEMMA LogBegins == LogInit => LogWell
<1> SUFFICES ASSUME LogInit PROVE LogWell
  OBVIOUS
<1>1. Said = {}
  BY DEF LogInit, Said
<1>2. Cardinality({}) = 0
  BY FS_EmptySet
<1>3. HandsFull
  <2>1. \A p \in Procs : proc[p].kept = {} /\ proc[p].found = {}
    BY DEF LogInit, NoWork
  <2>2. Cardinality({}) <= MaxShown
    BY <1>2, LogAssumption
  <2>3. \A p \in Procs : Cardinality(proc[p].found) <= MaxShown
    BY <2>1, <2>2
  <2> QED
    BY <2>1, <2>3 DEF HandsFull
<1>4. said \in Seq(Kinds) /\ Len(said) <= MaxEntries
  BY LogAssumption DEF LogInit
<1>5. Cardinality(shown) <= MaxShown
  BY <1>2, LogAssumption DEF LogInit
<1>6. proc \in [Procs -> [pc : {"idle", "cut", "write", "show", "wipe"}, shows : BOOLEAN,
                         kept : SUBSET Lines, found : SUBSET Lines]]
  BY DEF LogInit, NoWork
<1> QED
  BY <1>3, <1>4, <1>5, <1>6, LogAssumption DEF LogInit, LogWell, LogTypeOK

\* What one line or one process more or less does to the hands.
LEMMA WorkWell ==
  ASSUME LogWell, NEW p \in Procs, NEW work,
         work \in [pc : {"idle", "cut", "write", "show", "wipe"}, shows : BOOLEAN,
                   kept : SUBSET Said, found : SUBSET Said],
         Cardinality(work.found) <= MaxShown,
         said' = said, proc' = [proc EXCEPT ![p] = work]
  PROVE  /\ HandsFull'
         /\ proc' \in [Procs -> [pc : {"idle", "cut", "write", "show", "wipe"},
                                 shows : BOOLEAN, kept : SUBSET Lines, found : SUBSET Lines]]
<1> USE DEF LogWell, LogTypeOK
<1>1. Said' = Said /\ Said \subseteq Lines
  BY LogAssumption DEF Said, Lines
<1>2. work \in [pc : {"idle", "cut", "write", "show", "wipe"}, shows : BOOLEAN,
                kept : SUBSET Lines, found : SUBSET Lines]
  BY <1>1
<1>3. \A q \in Procs : proc'[q] = IF q = p THEN work ELSE proc[q]
  OBVIOUS
<1>4. HandsFull'
  BY <1>1, <1>3 DEF HandsFull
<1> QED
  BY <1>2, <1>4

\* A process at rest.
LEMMA NoWorkWell ==
  /\ NoWork \in [pc : {"idle", "cut", "write", "show", "wipe"}, shows : BOOLEAN,
                 kept : SUBSET Said, found : SUBSET Said]
  /\ Cardinality(NoWork.found) <= MaxShown
<1>1. Cardinality({}) = 0
  BY FS_EmptySet
<1> QED
  BY <1>1, LogAssumption DEF NoWork

LEMMA AppendWell == ASSUME LogWell, NEW k \in Kinds, AppendLine(k) PROVE LogWell'
<1> USE DEF LogWell, LogTypeOK
<1>1. /\ said' \in Seq(Kinds) /\ Len(said') = Len(said) + 1 /\ Len(said') <= MaxEntries
      /\ Said' = Said \cup {Len(said) + 1}
  BY LogAssumption DEF AppendLine, Said
<1>2. UNCHANGED <<old, shown, up, proc, deaths, dropped>>
      /\ file' \subseteq file \cup {Len(said) + 1}
      /\ exposed' \subseteq exposed \cup {Len(said) + 1}
  BY DEF AppendLine
<1>3. HandsFull'
  BY <1>1, <1>2 DEF HandsFull
<1>4. LogTypeOK'
  BY <1>1, <1>2
<1> QED
  BY <1>3, <1>4

\* Reading: what is kept and asked for is in the file.
LEMMA ReadWell ==
  ASSUME LogWell, NEW p \in Procs, NEW shows \in BOOLEAN, NEW kept, NEW asked,
         Read(p, shows, kept, asked), kept \subseteq file, asked \subseteq file
  PROVE  LogWell'
<1> USE DEF LogWell, LogTypeOK
<1> DEFINE errors == {n \in kept : IsError(n)}
           found  == IF shows THEN Recent(errors) ELSE {}
           work   == [pc |-> "cut", shows |-> shows, kept |-> kept, found |-> found]
<1>1. proc' = [proc EXCEPT ![p] = work] /\ said' = said
      /\ dropped' = dropped \cup asked /\ exposed' = exposed \cup Held
      /\ UNCHANGED <<old, file, shown, up, deaths>>
  BY DEF Read
<1>2. found \subseteq Said /\ Cardinality(found) <= MaxShown
  <2>1. Recent(errors) \subseteq errors /\ Cardinality(Recent(errors)) <= MaxShown
    BY RecentFew
  <2>2. Cardinality({}) = 0
    BY FS_EmptySet
  <2> QED
    BY <2>1, <2>2, LogAssumption
<1> HIDE DEF found
<1>3. work \in [pc : {"idle", "cut", "write", "show", "wipe"}, shows : BOOLEAN,
                kept : SUBSET Said, found : SUBSET Said]
      /\ work.found = found
  BY <1>2
<1> HIDE DEF work
<1>4. HandsFull' /\ proc' \in [Procs -> [pc : {"idle", "cut", "write", "show", "wipe"},
                                 shows : BOOLEAN, kept : SUBSET Lines, found : SUBSET Lines]]
  BY <1>1, <1>2, <1>3, WorkWell
<1>5. Said' = Said /\ Held \subseteq Said
  BY <1>1 DEF Said, Held, Emptied, HandsFull
<1>6. LogTypeOK'
  BY <1>1, <1>4, <1>5
<1> QED
  BY <1>4, <1>6

LEMMA RewriteWell == ASSUME LogWell, NEW p \in Procs, Rewrite(p) PROVE LogWell'
<1> USE DEF LogWell, LogTypeOK
<1>0. /\ proc[p] \in [pc : {"idle", "cut", "write", "show", "wipe"}, shows : BOOLEAN,
                      kept : SUBSET Said, found : SUBSET Said]
      /\ Cardinality(proc[p].found) <= MaxShown
  BY DEF HandsFull
<1>1. CASE Truncate(p)
  <2> DEFINE work == [proc[p] EXCEPT !.pc = "write"]
  <2>1. proc' = [proc EXCEPT ![p] = work] /\ file' = {}
        /\ UNCHANGED <<said, old, shown, up, deaths, dropped, exposed>>
    BY <1>1 DEF Truncate
  <2>2. work \in [pc : {"idle", "cut", "write", "show", "wipe"}, shows : BOOLEAN,
                  kept : SUBSET Said, found : SUBSET Said]
        /\ work.found = proc[p].found
    BY <1>0
  <2> HIDE DEF work
  <2>3. HandsFull' /\ proc' \in [Procs -> [pc : {"idle", "cut", "write", "show", "wipe"},
                                   shows : BOOLEAN, kept : SUBSET Lines, found : SUBSET Lines]]
    BY <1>0, <2>1, <2>2, WorkWell
  <2>4. Said' = Said
    BY <2>1 DEF Said
  <2> QED
    BY <2>1, <2>3, <2>4
<1>2. CASE WriteBack(p)
  <2> DEFINE work == IF proc[p].shows THEN [proc[p] EXCEPT !.pc = "show", !.kept = {}]
                                      ELSE NoWork
  <2>1. proc' = [proc EXCEPT ![p] = work] /\ file' \subseteq proc[p].kept \cup file
        /\ UNCHANGED <<said, old, shown, up, deaths, dropped, exposed>>
    BY <1>2 DEF WriteBack
  <2>2. work \in [pc : {"idle", "cut", "write", "show", "wipe"}, shows : BOOLEAN,
                  kept : SUBSET Said, found : SUBSET Said]
        /\ Cardinality(work.found) <= MaxShown
    <3>1. CASE proc[p].shows
      BY <1>0, <3>1
    <3>2. CASE ~proc[p].shows
      BY <3>2, NoWorkWell
    <3> QED
      BY <3>1, <3>2
  <2> HIDE DEF work
  <2>3. HandsFull' /\ proc' \in [Procs -> [pc : {"idle", "cut", "write", "show", "wipe"},
                                   shows : BOOLEAN, kept : SUBSET Lines, found : SUBSET Lines]]
    BY <2>1, <2>2, WorkWell
  <2>4. Said' = Said /\ file' \subseteq Said
    BY <1>0, <2>1 DEF Said
  <2> QED
    BY <2>1, <2>3, <2>4
<1>3. CASE Show(p)
  <2>1. proc' = [proc EXCEPT ![p] = NoWork] /\ shown' = proc[p].found
        /\ UNCHANGED <<said, old, file, up, deaths, dropped, exposed>>
    BY <1>3 DEF Show
  <2>2. HandsFull' /\ proc' \in [Procs -> [pc : {"idle", "cut", "write", "show", "wipe"},
                                   shows : BOOLEAN, kept : SUBSET Lines, found : SUBSET Lines]]
    BY <2>1, NoWorkWell, WorkWell
  <2>3. Said' = Said
    BY <2>1 DEF Said
  <2> QED
    BY <1>0, <2>1, <2>2, <2>3
<1> QED
  BY <1>1, <1>2, <1>3 DEF Rewrite

LEMMA ClearWell ==
  ASSUME LogWell, NEW c \in LogClients, ClearLooks(c) \/ ClearWipes(c)
  PROVE  LogWell'
<1> USE DEF LogWell, LogTypeOK
<1>0. c \in Procs
  BY DEF Procs
<1>1. CASE ClearLooks(c)
  <2> DEFINE work == [proc[c] EXCEPT !.pc = "wipe"]
  <2>1. proc' = [proc EXCEPT ![c] = work]
        /\ UNCHANGED <<said, old, file, shown, up, deaths, dropped, exposed>>
    BY <1>1 DEF ClearLooks
  <2>2. work \in [pc : {"idle", "cut", "write", "show", "wipe"}, shows : BOOLEAN,
                  kept : SUBSET Said, found : SUBSET Said]
        /\ work.found = proc[c].found /\ Cardinality(proc[c].found) <= MaxShown
    BY <1>0 DEF HandsFull
  <2> HIDE DEF work
  <2>3. HandsFull' /\ proc' \in [Procs -> [pc : {"idle", "cut", "write", "show", "wipe"},
                                   shows : BOOLEAN, kept : SUBSET Lines, found : SUBSET Lines]]
    BY <1>0, <2>1, <2>2, WorkWell
  <2>4. Said' = Said
    BY <2>1 DEF Said
  <2> QED
    BY <2>1, <2>3, <2>4
<1>2. CASE ClearWipes(c)
  <2>1. proc' = [proc EXCEPT ![c] = NoWork] /\ file' = {} /\ dropped' = dropped \cup file
        /\ UNCHANGED <<said, old, shown, up, deaths, exposed>>
    BY <1>2 DEF ClearWipes
  <2>2. HandsFull' /\ proc' \in [Procs -> [pc : {"idle", "cut", "write", "show", "wipe"},
                                   shows : BOOLEAN, kept : SUBSET Lines, found : SUBSET Lines]]
    BY <1>0, <2>1, NoWorkWell, WorkWell
  <2>3. Said' = Said
    BY <2>1 DEF Said
  <2> QED
    BY <2>1, <2>2, <2>3
<1> QED
  BY <1>1, <1>2

LEMMA DeathWell == ASSUME LogWell, NEW p \in Procs, Dies(p) PROVE LogWell'
<1> USE DEF LogWell, LogTypeOK
<1>1. proc' = [proc EXCEPT ![p] = NoWork] /\ exposed' \subseteq exposed \cup proc[p].kept
      /\ UNCHANGED <<said, old, file, shown, dropped>>
  BY DEF Dies
<1>2. HandsFull' /\ proc' \in [Procs -> [pc : {"idle", "cut", "write", "show", "wipe"},
                                 shows : BOOLEAN, kept : SUBSET Lines, found : SUBSET Lines]]
  BY <1>1, NoWorkWell, WorkWell
<1>3. Said' = Said /\ exposed' \subseteq Said
  BY <1>1 DEF Said, HandsFull
<1>4. deaths' \in 0..MaxDeaths
  BY LogAssumption DEF Dies
<1>5. up' \in BOOLEAN
  BY DEF Dies
<1> QED
  BY <1>1, <1>2, <1>3, <1>4, <1>5

LEMMA LogStepWell == ASSUME LogWell, LogNext PROVE LogWell'
<1>1. CASE \E k \in Kinds : AppendLine(k)
  BY <1>1, AppendWell
<1>2. CASE DaemonStarts \/ \E n \in Said : Ages(n)
  <2>1. Said' = Said /\ HandsFull'
    BY <1>2 DEF DaemonStarts, Ages, Said, LogWell, HandsFull
  <2> QED
    BY <1>2, <2>1 DEF DaemonStarts, Ages, LogWell, LogTypeOK
<1>3. Unexpired \subseteq file /\ WithoutErrors \subseteq file
      /\ \A L : WithoutLevels(L) \subseteq file
  BY DEF Unexpired, WithoutErrors, WithoutLevels
<1>4. CASE DaemonRound
  <2>1. PICK none \in SUBSET file : Read(Daemon, TRUE, Unexpired, none)
    BY <1>4 DEF DaemonRound
  <2>2. Daemon \in Procs
    BY DEF Procs
  <2> QED
    BY <1>3, <2>1, <2>2, ReadWell
<1>5. ASSUME NEW c \in LogClients, Command(c) PROVE LogWell'
  <2>1. c \in Procs
    BY DEF Procs
  <2>2. CASE DaemonStatus(c)
    <3>1. PICK none \in SUBSET file : Read(c, TRUE, Unexpired, none)
      BY <2>2 DEF DaemonStatus
    <3> QED
      BY <1>3, <2>1, <3>1, ReadWell
  <2>3. CASE LogStatus(c)
    <3>1. PICK none \in SUBSET file : Read(c, FALSE, Unexpired, none)
      BY <2>3 DEF LogStatus
    <3> QED
      BY <1>3, <2>1, <3>1, ReadWell
  <2>4. CASE ClearErrors(c)
    <3> DEFINE asked == {n \in file : said[n].stamped /\ said[n].level = "ERROR"}
    <3>1. Read(c, FALSE, WithoutErrors, asked) /\ asked \subseteq file
      BY <2>4 DEF ClearErrors
    <3> QED
      BY <1>3, <2>1, <3>1, ReadWell
  <2>5. ASSUME NEW L \in SUBSET {k.level : k \in Kinds}, LogPrune(c, L) PROVE LogWell'
    <3> DEFINE asked == {n \in file : said[n].level \in L}
    <3>1. Read(c, FALSE, WithoutLevels(L), asked) /\ asked \subseteq file
      BY <2>5 DEF LogPrune
    <3> QED
      BY <1>3, <2>1, <3>1, ReadWell
  <2> QED
    BY <1>5, <2>2, <2>3, <2>4, <2>5, ClearWell DEF Command
<1> QED
  BY <1>1, <1>2, <1>4, <1>5, ClearWell, RewriteWell, DeathWell DEF LogNext

-----------------------------------------------------------------------------
(* Types: the configuration *)

\* A list of a configuration replaced by another, or a priority by another.
LEMMA ListReplaced ==
  ASSUME NEW config \in Config, NEW list \in ListNames, NEW S \in SUBSET Members[list],
         NEW new, new = [config EXCEPT ![list] = S]
  PROVE  new \in Config /\ config[list] \subseteq Members[list]
<1> USE DEF Config, Rules, ListNames
<1>1. CASE list = "include_paths"
  BY <1>1 DEF Members, PathLists
<1>2. CASE list = "exclude_paths"
  BY <1>2 DEF Members, PathLists
<1>3. CASE list = "include_dirnames"
  BY <1>3 DEF Members, PathLists
<1>4. CASE list = "exclude_dirnames"
  BY <1>4 DEF Members, PathLists
<1>5. CASE list = "include_globs"
  BY <1>5 DEF Members, PathLists
<1>6. CASE list = "exclude_globs"
  BY <1>6 DEF Members, PathLists
<1> QED
  BY <1>1, <1>2, <1>3, <1>4, <1>5, <1>6

LEMMA PriorityReplaced ==
  ASSUME NEW config \in Config, NEW p \in Paths, NEW v \in Priorities \cup {0},
         NEW new, new = [config EXCEPT !.dirs[p] = v]
  PROVE  new \in Config
BY DEF Config, Rules

\* A change makes a configuration of a configuration.
LEMMA OutcomeTyped ==
  ASSUME NEW g \in Changes, NEW config \in Config, NEW new \in Outcome(g, config)
  PROVE  new \in Config
<1>0. IsChange(g)
  BY ConfigAssumption
<1>1. CASE g.op = "filter add"
  <2>1. new = [config EXCEPT ![g.list] = config[g.list] \cup {g.at}]
    BY <1>1 DEF Outcome, FilterAdd
  <2>2. g.list \in ListNames /\ g.at \in Members[g.list]
    BY <1>0, <1>1 DEF IsChange
  <2>3. config[g.list] \subseteq Members[g.list]
    BY <2>2, ListReplaced
  <2>4. config[g.list] \cup {g.at} \in SUBSET Members[g.list]
    BY <2>2, <2>3
  <2> QED
    BY <2>1, <2>2, <2>4, ListReplaced
<1>2. CASE g.op = "filter remove"
  <2>1. new = [config EXCEPT ![g.list] = config[g.list] \ {g.at}]
    BY <1>2 DEF Outcome, FilterRemove
  <2>2. g.list \in ListNames /\ g.at \in Members[g.list]
    BY <1>0, <1>2 DEF IsChange
  <2>3. config[g.list] \subseteq Members[g.list]
    BY <2>2, ListReplaced
  <2>4. config[g.list] \ {g.at} \in SUBSET Members[g.list]
    BY <2>3
  <2> QED
    BY <2>1, <2>2, <2>4, ListReplaced
<1>3. CASE g.op = "priority add"
  <2>1. new = [config EXCEPT !.dirs[g.at] = g.value]
    BY <1>3 DEF Outcome, PriorityAdd
  <2> QED
    BY <1>0, <1>3, <2>1, PriorityReplaced DEF IsChange
<1>4. CASE g.op = "priority remove"
  <2>1. new = [config EXCEPT !.dirs[g.at] = 0]
    BY <1>4 DEF Outcome, PriorityRemove
  <2> QED
    BY <1>0, <1>4, <2>1, PriorityReplaced DEF IsChange
<1>5. CASE g.op = "set"
  <2>1. new = [config EXCEPT ![g.list] = g.all]
    BY <1>5 DEF Outcome, ConfigSet
  <2> QED
    BY <1>0, <1>5, <2>1, ListReplaced DEF IsChange
<1> QED
  BY <1>0, <1>1, <1>2, <1>3, <1>4, <1>5 DEF IsChange

\* Whoever is going to save has a configuration in hand.
ConfigWell == ConfigTypeOK /\ \A c \in Busy : saver[c].config \in Config

LEMMA ConfigBegins == ConfigInit => ConfigWell
<1> SUFFICES ASSUME ConfigInit PROVE ConfigWell
  OBVIOUS
<1>1. Busy = {}
  BY DEF ConfigInit, Busy, AtRest
<1>2. \A c \in Clients : saver[c].pc = "idle" /\ saver[c].file = NoFile
  BY DEF ConfigInit, AtRest
<1>3. \A f \in Files : data[f] \in {Start, Empty}
  BY DEF ConfigInit
<1>4. changes \in 0..MaxChanges /\ failures \in 0..MaxFailures
  BY ConfigAssumption DEF ConfigInit
<1> QED
  BY <1>1, <1>2, <1>3, <1>4, ConfigAssumption DEF ConfigInit, ConfigWell, ConfigTypeOK

\* One client's work is of the right types.
SavesWell(work) ==
    /\ work.pc \in {"idle", "open", "write", "replace"}
    /\ work.file \in Files <=> work.pc = "write"
    /\ work.pc # "idle" => work.config \in Config

LEMMA SaverWell ==
  ASSUME ConfigInv, ConfigWell, NEW c \in Clients, NEW work, SavesWell(work),
         saver' = [saver EXCEPT ![c] = work]
  PROVE  /\ \A d \in Clients : /\ saver'[d].pc \in {"idle", "open", "write", "replace"}
                               /\ saver'[d].file \in Files <=> saver'[d].pc = "write"
         /\ \A d \in Busy' : saver'[d].config \in Config
<1>1. PICK values : saver \in [Clients -> Saving(values)]
  BY DEF ConfigInv, ConfigTypes
<1>2. saver'[c] = work /\ \A d \in Clients \ {c} : saver'[d] = saver[d]
  BY <1>1
<1> QED
  BY <1>2 DEF SavesWell, ConfigWell, ConfigTypeOK, Busy

LEMMA AskWell ==
  ASSUME ConfigInv, ConfigWell, NEW c \in Clients, NEW g \in Changes, Ask(c, g)
  PROVE  ConfigWell'
<1> USE DEF ConfigWell, ConfigTypeOK
<1>1. UNCHANGED <<live, tmp, data, failures>> /\ changes' \in 0..MaxChanges
  BY ConfigAssumption DEF Ask
<1>2. CASE UNCHANGED <<saver, overlap, truth>>
  BY <1>1, <1>2 DEF Busy
<1>3. CASE ~UNCHANGED <<saver, overlap, truth>>
  <2>1. PICK new \in Outcome(g, data[live]) :
          saver' = [saver EXCEPT ![c] = [pc |-> "open", change |-> g,
                                         file |-> NoFile, config |-> new]]
    BY <1>3 DEF Ask
  <2>2. Loads(data[live]) /\ overlap' \in BOOLEAN /\ truth' \in {data[live], truth}
    BY <1>3 DEF Ask
  <2>3. data[live] \in Config
    BY <2>2 DEF Loads
  <2>4. new \in Config
    BY <2>1, <2>3, OutcomeTyped
  <2> DEFINE work == [pc |-> "open", change |-> g, file |-> NoFile, config |-> new]
  <2>5. SavesWell(work) /\ saver' = [saver EXCEPT ![c] = work]
    BY <2>1, <2>4, ConfigAssumption DEF SavesWell
  <2> HIDE DEF work
  <2>6. /\ \A d \in Clients : /\ saver'[d].pc \in {"idle", "open", "write", "replace"}
                              /\ saver'[d].file \in Files <=> saver'[d].pc = "write"
        /\ \A d \in Busy' : saver'[d].config \in Config
    BY <2>5, SaverWell
  <2> QED
    BY <1>1, <2>2, <2>3, <2>6
<1> QED
  BY <1>2, <1>3

LEMMA OpenWell ==
  ASSUME ConfigInv, ConfigWell, NEW c \in Clients, Open(c)
  PROVE  ConfigWell'
<1> USE DEF ConfigWell, ConfigTypeOK
<1>1. PICK f \in Files :
        /\ tmp' = f
        /\ data' = [data EXCEPT ![f] = Empty]
        /\ saver' = [saver EXCEPT ![c].pc = "write", ![c].file = f]
  <2>1. CASE tmp = NoFile
    BY <2>1, FreshFile DEF Open, ConfigInv
  <2>2. CASE tmp # NoFile
    BY <2>2 DEF Open
  <2> QED
    BY <2>1, <2>2
<1>2. UNCHANGED <<live, changes, failures, truth, overlap>> /\ saver[c].pc = "open"
  BY DEF Open
<1> DEFINE work == [saver[c] EXCEPT !.pc = "write", !.file = f]
<1>3. PICK values : saver \in [Clients -> Saving(values)]
  BY DEF ConfigInv, ConfigTypes
<1>4. saver' = [saver EXCEPT ![c] = work]
  BY <1>1, <1>3
<1>5. SavesWell(work)
  <2>1. saver[c] \in Saving(values) /\ saver[c].config \in Config
    BY <1>2, <1>3 DEF Busy
  <2> QED
    BY <2>1 DEF Saving, SavesWell
<1> HIDE DEF work
<1>6. /\ \A d \in Clients : /\ saver'[d].pc \in {"idle", "open", "write", "replace"}
                            /\ saver'[d].file \in Files <=> saver'[d].pc = "write"
      /\ \A d \in Busy' : saver'[d].config \in Config
  BY <1>4, <1>5, SaverWell
<1>7. DOMAIN data' = Files /\ \A e \in Files : data'[e] \in {Empty, data[e]}
  BY <1>1
<1> QED
  BY <1>1, <1>2, <1>6, <1>7

LEMMA WriteWell ==
  ASSUME ConfigInv, ConfigWell, NEW c \in Clients, Write(c)
  PROVE  ConfigWell'
<1> USE DEF ConfigWell, ConfigTypeOK
<1>1. PICK text \in {saver[c].config, Torn} :
        data' = [data EXCEPT ![saver[c].file] = text]
  BY DEF Write
<1>2. /\ saver[c].pc = "write" /\ UNCHANGED <<live, tmp, changes, failures, truth, overlap>>
      /\ saver' = [saver EXCEPT ![c].pc = "replace", ![c].file = NoFile]
  BY DEF Write
<1> DEFINE work == [saver[c] EXCEPT !.pc = "replace", !.file = NoFile]
<1>3. PICK values : saver \in [Clients -> Saving(values)]
  BY DEF ConfigInv, ConfigTypes
<1>4. saver' = [saver EXCEPT ![c] = work]
  BY <1>2, <1>3
<1>5. saver[c].config \in Config
  BY <1>2 DEF Busy
<1>6. SavesWell(work)
  <2>1. saver[c] \in Saving(values)
    BY <1>3
  <2> QED
    BY <1>5, <2>1, ConfigAssumption DEF Saving, SavesWell
<1> HIDE DEF work
<1>7. /\ \A d \in Clients : /\ saver'[d].pc \in {"idle", "open", "write", "replace"}
                            /\ saver'[d].file \in Files <=> saver'[d].pc = "write"
      /\ \A d \in Busy' : saver'[d].config \in Config
  BY <1>4, <1>6, SaverWell
<1>8. DOMAIN data' = Files /\ \A e \in Files : data'[e] \in {text, data[e]}
  BY <1>1
<1> QED
  BY <1>1, <1>2, <1>5, <1>7, <1>8

\* The change comes to its end, one way or the other.
LEMMA EndWell ==
  ASSUME ConfigInv, ConfigWell, NEW c \in Clients, Replace(c) \/ SaveFails(c) \/ SaverDies(c)
  PROVE  ConfigWell'
<1> USE DEF ConfigWell, ConfigTypeOK
<1>1. saver' = [saver EXCEPT ![c] = AtRest] /\ c \in Busy
  BY DEF Replace, SaveFails, SaverDies, Rest, Busy
<1>2. SavesWell(AtRest)
  BY ConfigAssumption DEF AtRest, SavesWell
<1>3. /\ \A d \in Clients : /\ saver'[d].pc \in {"idle", "open", "write", "replace"}
                            /\ saver'[d].file \in Files <=> saver'[d].pc = "write"
      /\ \A d \in Busy' : saver'[d].config \in Config
  BY <1>1, <1>2, SaverWell
<1>4. /\ data' = data /\ overlap' = overlap /\ changes' = changes
      /\ live' \in Files /\ tmp' \in Files \cup {NoFile}
  BY DEF Replace, SaveFails, SaverDies
<1>5. failures' \in 0..MaxFailures
  BY ConfigAssumption DEF Replace, SaveFails, SaverDies
<1>6. truth' \in Config
  <2>1. CASE truth' = truth
    BY <2>1
  <2>2. CASE truth' # truth
    <3>1. truth' \in Outcome(saver[c].change, truth)
      BY <2>2 DEF Replace, SaveFails, SaverDies
    <3>2. saver[c].change \in Changes
      BY <1>1 DEF ConfigInv, ConfigTypes
    <3> QED
      BY <3>1, <3>2, OutcomeTyped
  <2> QED
    BY <2>1, <2>2
<1> QED
  BY <1>3, <1>4, <1>5, <1>6

LEMMA ConfigStepWell == ASSUME ConfigInv, ConfigWell, ConfigNext PROVE ConfigWell'
  BY AskWell, OpenWell, WriteWell, EndWell DEF ConfigNext, Save

-----------------------------------------------------------------------------
(* Types of both files *)

LEMMA ConfigKeeps == ConfigInv /\ [Next]_vars => ConfigInv'
<1> SUFFICES ASSUME ConfigInv, [Next]_vars PROVE ConfigInv'
  OBVIOUS
<1>1. CASE ConfigNext
  BY <1>1, ConfigStep
<1>2. CASE UNCHANGED configVars
  BY <1>2 DEF configVars, ConfigInv, ConfigTypes, Truthful, Busy, Purpose
<1> QED
  BY <1>1, <1>2 DEF Next, vars

LEMMA WellKeeps ==
  LogWell /\ ConfigWell /\ ConfigInv /\ [Next]_vars => LogWell' /\ ConfigWell'
<1> SUFFICES ASSUME LogWell, ConfigWell, ConfigInv, [Next]_vars PROVE LogWell' /\ ConfigWell'
  OBVIOUS
<1>1. CASE LogNext /\ UNCHANGED configVars
  BY <1>1, LogStepWell DEF configVars, ConfigWell, ConfigTypeOK, Busy
<1>2. CASE ConfigNext /\ UNCHANGED logVars
  BY <1>2, ConfigStepWell DEF logVars, LogWell, LogTypeOK, HandsFull, Said
<1>3. CASE UNCHANGED <<configVars, logVars>>
  BY <1>3 DEF configVars, ConfigWell, ConfigTypeOK, Busy, logVars, LogWell, LogTypeOK,
              HandsFull, Said
<1> QED
  BY <1>1, <1>2, <1>3 DEF Next, vars

\* The two files and everything in progress about them keep their types: what is in the
\* log, in somebody's hands or in daemon.json has been said, no status gets more errors
\* than it may show, and whatever is in config.json or about to be is a configuration
\* or the remains of two.
THEOREM TypeCorrect == Spec => []TypeOK
<1> DEFINE Well == LogWell /\ ConfigWell /\ ConfigInv /\ busy \in {"log", "config"}
<1>1. Init => Well
  BY LogBegins, ConfigBegins, ConfigInitially DEF Init
<1>2. Well /\ [Next]_vars => Well'
  BY WellKeeps, ConfigKeeps DEF Next, vars
<1>3. Well => TypeOK
  BY DEF TypeOK, LogWell, ConfigWell
<1> QED
  BY <1>1, <1>2, <1>3, PTL DEF Spec

-----------------------------------------------------------------------------
(* The tree of paths *)

\* A set of paths that has the directory of each of its members.
Rising(S) == \A r \in S : Parent[r] \in S \cup {NoPath}

LEMMA ChainRises ==
  ASSUME NEW p \in Paths
  PROVE  p \in Chain[p] /\ Chain[p] \subseteq Paths /\ Rising(Chain[p])
<1>1. Chain[p] = {q \in Paths : \A S \in SUBSET Paths :
                    p \in S /\ (\A r \in S : Parent[r] \in S \cup {NoPath}) => q \in S}
  BY DEF Chain
<1>2. p \in Chain[p] /\ Chain[p] \subseteq Paths
  BY <1>1
<1>3. ASSUME NEW r \in Chain[p], Parent[r] # NoPath PROVE Parent[r] \in Chain[p]
  <2>1. Parent[r] \in Paths
    BY <1>2, <1>3, RulesAssumption
  <2>2. ASSUME NEW S \in SUBSET Paths, p \in S, \A q \in S : Parent[q] \in S \cup {NoPath}
        PROVE  Parent[r] \in S
    BY <1>1, <1>3, <2>2
  <2> QED
    BY <1>1, <2>1, <2>2
<1> QED
  BY <1>2, <1>3 DEF Rising

\* No smaller set will do.
LEMMA ChainLeast ==
  ASSUME NEW p \in Paths, NEW S \in SUBSET Paths, p \in S, Rising(S)
  PROVE  Chain[p] \subseteq S
<1>1. Chain[p] = {q \in Paths : \A T \in SUBSET Paths :
                    p \in T /\ (\A r \in T : Parent[r] \in T \cup {NoPath}) => q \in T}
  BY DEF Chain
<1> QED
  BY <1>1 DEF Rising

\* What is above a path but the path itself is above its directory.
LEMMA ChainBelow ==
  ASSUME NEW p \in Paths, NEW q \in Chain[p], q # p
  PROVE  Parent[p] \in Paths /\ q \in Chain[Parent[p]]
<1>1. CASE Parent[p] = NoPath
  <2>1. Rising({p})
    BY <1>1 DEF Rising
  <2> QED
    BY <2>1, ChainLeast
<1>2. CASE Parent[p] # NoPath
  <2>1. Parent[p] \in Paths
    BY <1>2, RulesAssumption
  <2>2. Parent[p] \in Chain[Parent[p]] /\ Chain[Parent[p]] \subseteq Paths
        /\ Rising(Chain[Parent[p]])
    BY <2>1, ChainRises
  <2>3. Rising({p} \cup Chain[Parent[p]])
    BY <2>2 DEF Rising
  <2>4. Chain[p] \subseteq {p} \cup Chain[Parent[p]]
    BY <2>2, <2>3, ChainLeast
  <2> QED
    BY <2>1, <2>4
<1> QED
  BY <1>1, <1>2

LEMMA ChainNests ==
  ASSUME NEW p \in Paths, NEW q \in Chain[p]
  PROVE  Chain[q] \subseteq Chain[p]
BY ChainRises, ChainLeast

\* No two paths are above each other: there would be a set of paths without a way out.
LEMMA ChainOrders ==
  ASSUME NEW p \in Paths, NEW q \in Chain[p], p \in Chain[q]
  PROVE  q = p
<1> SUFFICES ASSUME q # p PROVE FALSE
  OBVIOUS
<1> DEFINE S == {r \in Chain[p] : p \in Chain[r]}
<1>1. Chain[p] \subseteq Paths /\ p \in S /\ Rising(Chain[p])
  BY ChainRises
<1>2. ASSUME NEW r \in S PROVE Parent[r] \in S
  <2>1. r \in Paths /\ p \in Chain[r] /\ r \in Chain[p]
    BY <1>1
  <2>2. Parent[r] \in Paths /\ p \in Chain[Parent[r]]
    <3>1. CASE r # p
      BY <2>1, <3>1, ChainBelow
    <3>2. CASE r = p
      <4>1. Parent[p] \in Paths /\ q \in Chain[Parent[p]]
        BY ChainBelow
      <4>2. Chain[q] \subseteq Chain[Parent[p]]
        BY <4>1, ChainNests
      <4> QED
        BY <3>2, <4>1, <4>2
    <3> QED
      BY <3>1, <3>2
  <2>3. Parent[r] \in Chain[p]
    BY <1>1, <2>1, <2>2, RulesAssumption DEF Rising
  <2> QED
    BY <2>2, <2>3
<1>3. S \in SUBSET Paths /\ S # {}
  BY <1>1
<1> HIDE DEF S
<1> QED
  BY <1>2, <1>3, RulesAssumption

\* Of some directories above a path there is a closest one.
LEMMA DeepestIs ==
  ASSUME NEW p \in Paths, NEW T \in SUBSET Chain[p], T # {}
  PROVE  Deepest(T) \in T /\ T \subseteq Chain[Deepest(T)]
<1> DEFINE S == {r \in Chain[p] : T \subseteq Chain[r]}
<1>1. Chain[p] \subseteq Paths /\ p \in S /\ Rising(Chain[p])
  BY ChainRises
<1>2. PICK r \in S : Parent[r] \notin S
  <2>1. S \in SUBSET Paths /\ S # {}
    BY <1>1
  <2> HIDE DEF S
  <2> QED
    BY <2>1, RulesAssumption
<1>3. r \in Paths /\ r \in Chain[p] /\ T \subseteq Chain[r]
  BY <1>1, <1>2
<1>4. r \in T
  <2> SUFFICES ASSUME r \notin T PROVE FALSE
    OBVIOUS
  <2>1. \A q \in T : Parent[r] \in Paths /\ q \in Chain[Parent[r]]
    BY <1>3, ChainBelow
  <2>2. Parent[r] \in Paths /\ T \subseteq Chain[Parent[r]]
    BY <2>1
  <2>3. Parent[r] \in Chain[p]
    BY <1>1, <1>3, <2>2, RulesAssumption DEF Rising
  <2> QED
    BY <1>2, <2>2, <2>3
<1> QED
  BY <1>3, <1>4 DEF Deepest

-----------------------------------------------------------------------------
(* The reach of a rule *)

\* Two configurations say the same of a path when they differ neither in names nor
\* in globs, and treat the path and what is above it alike.
LEMMA VerdictLocal ==
  ASSUME NEW p \in Paths, NEW old1 \in Config, NEW new \in Config,
         new.include_dirnames = old1.include_dirnames,
         new.exclude_dirnames = old1.exclude_dirnames,
         new.include_globs = old1.include_globs,
         new.exclude_globs = old1.exclude_globs,
         \A q \in Chain[p] : /\ q \in new.include_paths <=> q \in old1.include_paths
                             /\ q \in new.exclude_paths <=> q \in old1.exclude_paths
                             /\ new.dirs[q] = old1.dirs[q]
  PROVE  Verdict(new, p) = Verdict(old1, p)
<1> DEFINE listed(rules) == Chain[p] \cap (rules.include_paths \cup rules.exclude_paths)
<1>1. listed(new) = listed(old1)
  OBVIOUS
<1>2. RootAllows(new, p) <=> RootAllows(old1, p)
  <2>1. CASE listed(old1) = {}
    BY <1>1, <2>1 DEF RootAllows
  <2>2. CASE listed(old1) # {}
    <3>1. Deepest(listed(old1)) \in listed(old1)
      BY <2>2, DeepestIs
    <3>2. Deepest(listed(old1)) \in Chain[p]
      BY <3>1
    <3>3. Deepest(listed(new)) = Deepest(listed(old1))
      BY <1>1
    <3>4. Deepest(listed(new)) \in new.exclude_paths
            <=> Deepest(listed(old1)) \in old1.exclude_paths
      BY <3>2, <3>3
    <3> QED
      BY <1>1, <2>2, <3>4 DEF RootAllows
  <2> QED
    BY <2>1, <2>2
<1>3. NameExcludes(new, p) <=> NameExcludes(old1, p)
  BY DEF NameExcludes, Matches
<1>4. NameOverrides(new, p) <=> NameOverrides(old1, p)
  BY DEF NameOverrides, Matches
<1>5. Allowed(new, p) <=> Allowed(old1, p)
  BY <1>2, <1>3, <1>4 DEF Allowed
<1>6. PriorityDirs(new, p) = PriorityDirs(old1, p)
  BY DEF PriorityDirs
<1>7. Score(new, p) = Score(old1, p)
  <2>1. CASE PriorityDirs(old1, p) = {}
    BY <1>6, <2>1 DEF Score
  <2>2. CASE PriorityDirs(old1, p) # {}
    <3> DEFINE dir == Deepest(PriorityDirs(old1, p))
    <3>1. PriorityDirs(old1, p) \in SUBSET Chain[p]
      BY DEF PriorityDirs
    <3>2. dir \in PriorityDirs(old1, p)
      BY <2>2, <3>1, DeepestIs
    <3>3. new.dirs[dir] = old1.dirs[dir]
      BY <3>1, <3>2
    <3>4. Score(new, p) = ScoreBelow(dir, new.dirs[dir], p)
      BY <1>6, <2>2 DEF Score
    <3>5. Score(old1, p) = ScoreBelow(dir, old1.dirs[dir], p)
      BY <2>2 DEF Score
    <3> QED
      BY <3>3, <3>4, <3>5
  <2> QED
    BY <2>1, <2>2
<1> QED
  BY <1>5, <1>7 DEF Verdict

\* new is config with another list.
Relisted(new, config, list, S) == new = [config EXCEPT ![list] = S]

\* A path put into a list of paths, or taken out, changes nothing else.
LEMMA PathListed ==
  ASSUME NEW config \in Config, NEW list \in PathLists,
         NEW at \in Paths, NEW S \in SUBSET Paths,
         S \ {at} = config[list] \ {at},
         NEW new, Relisted(new, config, list, S),
         NEW p \in Paths, at \notin Chain[p]
  PROVE  Verdict(new, p) = Verdict(config, p)
<1>1. list \in ListNames /\ S \in SUBSET Members[list]
  BY DEF ListNames, PathLists, Members
<1>2. new \in Config
  BY <1>1, ListReplaced DEF Relisted
<1>3. /\ new.include_dirnames = config.include_dirnames
      /\ new.exclude_dirnames = config.exclude_dirnames
      /\ new.include_globs = config.include_globs
      /\ new.exclude_globs = config.exclude_globs
      /\ new.dirs = config.dirs
  BY DEF Relisted, Config, Rules, PathLists
<1>4. CASE list = "include_paths"
  <2>1. new.include_paths = S /\ new.exclude_paths = config.exclude_paths
    BY <1>4 DEF Relisted, Config, Rules
  <2>2. S \ {at} = config.include_paths \ {at}
    BY <1>4 DEF Relisted, Config, Rules
  <2> QED
    BY <1>2, <1>3, <2>1, <2>2, VerdictLocal
<1>5. CASE list = "exclude_paths"
  <2>1. new.exclude_paths = S /\ new.include_paths = config.include_paths
    BY <1>5 DEF Relisted, Config, Rules
  <2>2. S \ {at} = config.exclude_paths \ {at}
    BY <1>5 DEF Relisted, Config, Rules
  <2> QED
    BY <1>2, <1>3, <2>1, <2>2, VerdictLocal
<1> QED
  BY <1>4, <1>5 DEF PathLists

LEMMA PriorityGiven ==
  ASSUME NEW config \in Config, NEW at \in Paths, NEW v \in Priorities \cup {0},
         NEW new, new = [config EXCEPT !.dirs[at] = v],
         NEW p \in Paths, at \notin Chain[p]
  PROVE  Verdict(new, p) = Verdict(config, p)
<1>1. new \in Config
  BY PriorityReplaced
<1>2. /\ new.include_paths = config.include_paths
      /\ new.exclude_paths = config.exclude_paths
      /\ new.include_dirnames = config.include_dirnames
      /\ new.exclude_dirnames = config.exclude_dirnames
      /\ new.include_globs = config.include_globs
      /\ new.exclude_globs = config.exclude_globs
      /\ new.dirs = [config.dirs EXCEPT ![at] = v]
  BY DEF Config, Rules
<1>3. \A q \in Chain[p] : new.dirs[q] = config.dirs[q]
  <2>1. Chain[p] \subseteq Paths /\ config.dirs \in [Paths -> Priorities \cup {0}]
    BY ChainRises DEF Config, Rules
  <2> QED
    BY <1>2, <2>1
<1> QED
  BY <1>1, <1>2, <1>3, VerdictLocal

\* What a change of a path or a priority makes says the same of any path elsewhere.
LEMMA ChangeReaches ==
  ASSUME NEW g \in Changes, OfPath(g), NEW config \in Config, NEW new \in Outcome(g, config),
         NEW p \in Elsewhere(g)
  PROVE  Verdict(new, p) = Verdict(config, p)
<1>0. IsChange(g) /\ p \in Paths /\ g.at \notin Chain[p]
  BY ConfigAssumption DEF Elsewhere
<1>1. CASE g.op = "filter add"
  <2>1. new = [config EXCEPT ![g.list] = config[g.list] \cup {g.at}]
    BY <1>1 DEF Outcome, FilterAdd
  <2>2. g.list \in PathLists
    BY <1>1 DEF OfPath
  <2>3. g.list \in ListNames /\ Members[g.list] = Paths /\ g.at \in Paths
    BY <1>0, <1>1, <2>2 DEF IsChange, ListNames, PathLists, Members
  <2>4. config[g.list] \subseteq Paths
    BY <2>3, ListReplaced
  <2> DEFINE S == config[g.list] \cup {g.at}
  <2>5. S \in SUBSET Paths /\ Relisted(new, config, g.list, S)
    BY <2>1, <2>3, <2>4 DEF Relisted
  <2>6. S \ {g.at} = config[g.list] \ {g.at}
    OBVIOUS
  <2> HIDE DEF S
  <2> QED
    BY <1>0, <2>2, <2>3, <2>5, <2>6, PathListed
<1>2. CASE g.op = "filter remove"
  <2>1. new = [config EXCEPT ![g.list] = config[g.list] \ {g.at}]
    BY <1>2 DEF Outcome, FilterRemove
  <2>2. g.list \in PathLists
    BY <1>2 DEF OfPath
  <2>3. g.list \in ListNames /\ Members[g.list] = Paths /\ g.at \in Paths
    BY <1>0, <1>2, <2>2 DEF IsChange, ListNames, PathLists, Members
  <2>4. config[g.list] \subseteq Paths
    BY <2>3, ListReplaced
  <2> DEFINE S == config[g.list] \ {g.at}
  <2>5. S \in SUBSET Paths /\ Relisted(new, config, g.list, S)
    BY <2>1, <2>3, <2>4 DEF Relisted
  <2>6. S \ {g.at} = config[g.list] \ {g.at}
    OBVIOUS
  <2> HIDE DEF S
  <2> QED
    BY <1>0, <2>2, <2>3, <2>5, <2>6, PathListed
<1>3. CASE g.op = "priority add"
  <2>1. new = [config EXCEPT !.dirs[g.at] = g.value]
    BY <1>3 DEF Outcome, PriorityAdd
  <2>2. g.at \in Paths /\ g.value \in Priorities \cup {0}
    BY <1>0, <1>3 DEF IsChange
  <2> QED
    BY <1>0, <2>1, <2>2, PriorityGiven
<1>4. CASE g.op = "priority remove"
  <2>1. new = [config EXCEPT !.dirs[g.at] = 0]
    BY <1>4 DEF Outcome, PriorityRemove
  <2>2. g.at \in Paths /\ 0 \in Priorities \cup {0}
    BY <1>0, <1>4 DEF IsChange
  <2> QED
    BY <1>0, <2>1, <2>2, PriorityGiven
<1> QED
  BY <1>1, <1>2, <1>3, <1>4 DEF OfPath

\* What is in exclude_paths is not monitored: it is the closest directory to itself.
LEMMA ExcludedOut ==
  ASSUME NEW config \in Config, NEW p \in Paths, p \in config.exclude_paths
  PROVE  ~Allowed(config, p)
<1> DEFINE listed == Chain[p] \cap (config.include_paths \cup config.exclude_paths)
<1>1. p \in listed /\ listed \in SUBSET Chain[p] /\ Chain[p] \subseteq Paths
  BY ChainRises
<1>2. Deepest(listed) \in listed /\ listed \subseteq Chain[Deepest(listed)]
  BY <1>1, DeepestIs
<1>3. Deepest(listed) = p
  BY <1>1, <1>2, ChainOrders
<1> QED
  BY <1>3 DEF Allowed, RootAllows

\* A change of a filter path or of a priority takes effect at that path and below it
\* only, and what has been excluded is not monitored: for any tree of paths, any rules
\* and changes, whatever failed before.
THEOREM RulesReachDown == Spec => RuleReach
<1> DEFINE Well == LogWell /\ ConfigWell /\ ConfigInv
           Reaches(c) ==
             saver[c].pc = "replace" /\ live' # live /\ ~overlap /\ OfPath(saver[c].change)
               => /\ \A p \in Elsewhere(saver[c].change) :
                       Verdict(data[live'], p) = Verdict(data[live], p)
                  /\ saver[c].change.op = "filter add" /\ saver[c].change.list = "exclude_paths"
                       => ~Allowed(data[live'], saver[c].change.at)
<1>1. Init => Well
  BY LogBegins, ConfigBegins, ConfigInitially DEF Init
<1>2. Well /\ [Next]_vars => Well'
  BY WellKeeps, ConfigKeeps
<1>3. ASSUME Well, [Next]_vars, NEW c \in Clients PROVE Reaches(c)
  <2> DEFINE g == saver[c].change
  <2> SUFFICES ASSUME saver[c].pc = "replace", live' # live, ~overlap, OfPath(g)
               PROVE  /\ \A p \in Elsewhere(g) : Verdict(data[live'], p) = Verdict(data[live], p)
                      /\ g.op = "filter add" /\ g.list = "exclude_paths"
                           => ~Allowed(data[live'], g.at)
    OBVIOUS
  <2>1. PICK d \in Clients : Replace(d)
    BY <1>3 DEF Next, vars, configVars, ConfigNext, Save, Open, Write, SaveFails, SaverDies, Ask
  <2>2. c \in Busy /\ d \in Busy
    BY <2>1 DEF Replace, Busy
  <2>3. d = c /\ Purpose(c) /\ data[live] = truth /\ g \in Changes
    BY <1>3, <2>2 DEF ConfigInv, ConfigTypes, Truthful
  <2>4. live' = tmp /\ data[tmp] \in Outcome(g, data[live])
    BY <2>1, <2>3 DEF Replace, Purpose
  <2>5. data[live] \in Config
    BY <1>3, <2>3 DEF ConfigWell, ConfigTypeOK
  <2>6. \A p \in Elsewhere(g) : Verdict(data[live'], p) = Verdict(data[live], p)
    BY <2>3, <2>4, <2>5, ChangeReaches
  <2>7. ASSUME g.op = "filter add", g.list = "exclude_paths"
        PROVE  ~Allowed(data[live'], g.at)
    <3>1. data[live'] \in Config
      BY <2>3, <2>4, <2>5, OutcomeTyped
    <3>2. data[live'] = [data[live] EXCEPT !["exclude_paths"] = data[live]["exclude_paths"] \cup {g.at}]
      BY <2>4, <2>7 DEF Outcome, FilterAdd
    <3>3. g.at \in data[live'].exclude_paths
      BY <2>5, <3>2 DEF Config, Rules
    <3>4. g.at \in Paths
      BY <3>1, <3>3 DEF Config, Rules
    <3> QED
      BY <3>1, <3>3, <3>4, ExcludedOut
  <2> QED
    BY <2>6, <2>7
<1>4. Well /\ [Next]_vars => [\A c \in Clients : Reaches(c)]_configVars
  BY <1>3
<1> QED
  BY <1>1, <1>2, <1>4, PTL DEF Spec, RuleReach
=============================================================================
