-------------------------------- MODULE LogFile --------------------------------
(***************************************************************************)
(* The log of a WKS home.  Whoever has something to say appends a line; the *)
(* daemon, in every round, and the commands that inspect, prune or clear    *)
(* the log read the whole file, choose what to keep, and write the file     *)
(* anew: open("w") empties it, the text arrives when it is closed.  Nothing *)
(* keeps these processes apart.                                             *)
(*                                                                         *)
(* Source: src/wks/api/log/, with its callers in src/wks/api/daemon/.       *)
(***************************************************************************)
EXTENDS Naturals, FiniteSets, Sequences

CONSTANTS Daemon, LogClients, \* the processes that rewrite the file
          Kinds,            \* what lines there are: [level, stamped]
          MaxEntries,       \* bound: lines ever appended
          MaxShown,         \* STATUS_LOG_MESSAGE_LIMIT
          MaxDeaths         \* bound: processes that die on the way

Levels == {"DEBUG", "INFO", "WARN", "ERROR"}

ASSUME LogAssumption ==
    /\ Daemon \notin LogClients
    /\ Kinds \subseteq [level : Levels, stamped : BOOLEAN]
    /\ MaxEntries \in Nat /\ MaxShown \in Nat \ {0} /\ MaxDeaths \in Nat

VARIABLES said,     \* every line ever appended; a line is known by its number
          old,      \* the lines beyond the retention of their level
          file,     \* the lines in the file
          shown,    \* the errors in daemon.json
          up,       \* the daemon runs
          proc,     \* [Procs -> the rewriting in progress]
          deaths,
          dropped,  \* auxiliary: lines somebody has asked to remove
          exposed   \* auxiliary: lines that somebody's rewriting may have missed

logVars == <<said, old, file, shown, up, proc, deaths, dropped, exposed>>

Procs == LogClients \cup {Daemon}
Lines == 1..MaxEntries
Said  == 1..Len(said)

\* kept: the text to write; shows: does a status follow?; found: the errors in it.
NoWork == [pc |-> "idle", shows |-> FALSE, kept |-> {}, found |-> {}]

Rewriting == {p \in Procs : proc[p].pc \in {"cut", "write"}}
Emptied   == {p \in Procs : proc[p].pc = "write"}
Held      == UNION {proc[p].kept : p \in Emptied}

LogInit ==
    /\ said = <<>> /\ old = {} /\ file = {} /\ shown = {}
    /\ up \in BOOLEAN
    /\ proc = [p \in Procs |-> NoWork]
    /\ deaths = 0 /\ dropped = {} /\ exposed = {}

-----------------------------------------------------------------------------
(* Lines *)

\* append_log: one write at the end of the file.  Lines without a stamp come from
\* messages of several lines, and from the service, whose output goes to the log.
AppendLine(k) ==
    /\ Len(said) < MaxEntries
    /\ said' = Append(said, k)
    /\ file' = file \cup {Len(said) + 1}
    /\ exposed' = IF Rewriting = {} THEN exposed ELSE exposed \cup {Len(said) + 1}
    /\ UNCHANGED <<old, shown, up, proc, deaths, dropped>>

\* Lines of one level expire in the order of their stamps.
Ages(n) ==
    /\ n \in Said \ old /\ said[n].stamped
    /\ \A k \in Said : k < n /\ said[k] = said[n] => k \in old
    /\ old' = old \cup {n}
    /\ UNCHANGED <<said, file, shown, up, proc, deaths, dropped, exposed>>

-----------------------------------------------------------------------------
(* What each rewriting keeps *)

\* Mutant: lines without a stamp are not carried over.
ExpiredUnstamped(n) == n \in old \/ ~said[n].stamped

\* A line without a stamp has no age, and stays.
Expired(n) == n \in old

\* Mutant: only stamped lines are searched for errors.
IsErrorStamped(n) == said[n].level = "ERROR" /\ said[n].stamped

\* A stamped line by its level, any other by the word in it.
IsError(n) == said[n].level = "ERROR"

\* Mutant: no limit.
RecentAll(S) == S

\* summarize_status_log_messages: the most recent ones.
Recent(S) == {n \in S : Cardinality({k \in S : k > n}) < MaxShown}

\* read_log_entries, `log status`
Unexpired == {n \in file : ~Expired(n)}
\* `log prune`: the levels asked for, with or without a stamp
WithoutLevels(L) == {n \in file : said[n].level \notin L}
\* `daemon clear --errors-only`
WithoutErrors == {n \in file : ~(said[n].stamped /\ said[n].level = "ERROR")}

\* The file is read; what it lacks at this moment because someone has emptied it
\* will not be in what p writes.
Read(p, shows, kept, asked) ==
    /\ proc[p].pc = "idle"
    /\ proc' = [proc EXCEPT ![p] = [pc |-> "cut", shows |-> shows, kept |-> kept,
                      found |-> IF shows THEN Recent({n \in kept : IsError(n)}) ELSE {}]]
    /\ dropped' = dropped \cup asked
    /\ exposed' = exposed \cup Held
    /\ UNCHANGED <<said, old, file, shown, up, deaths>>

-----------------------------------------------------------------------------
(* write_text *)

Truncate(p) ==
    /\ proc[p].pc = "cut"
    /\ file' = {}
    /\ proc' = [proc EXCEPT ![p].pc = "write"]
    /\ UNCHANGED <<said, old, shown, up, deaths, dropped, exposed>>

\* The text goes to the start of the file, over what has been appended or written
\* there since: some of that may remain behind it, its first line does not.
WriteBack(p) ==
    LET kept == proc[p].kept IN
    /\ proc[p].pc = "write"
    /\ \E rest \in SUBSET file :
         /\ kept = {} => rest = file
         /\ kept # {} /\ file # {} => rest # file
         /\ file' = kept \cup rest
    /\ proc' = [proc EXCEPT ![p] = IF proc[p].shows
                                     THEN [@ EXCEPT !.pc = "show", !.kept = {}] ELSE NoWork]
    /\ UNCHANGED <<said, old, shown, up, deaths, dropped, exposed>>

\* write_status_file, by the daemon or by `daemon status`.
Show(p) ==
    /\ proc[p].pc = "show"
    /\ shown' = proc[p].found
    /\ proc' = [proc EXCEPT ![p] = NoWork]
    /\ UNCHANGED <<said, old, file, up, deaths, dropped, exposed>>

Rewrite(p) == Truncate(p) \/ WriteBack(p) \/ Show(p)

-----------------------------------------------------------------------------
(* Who rewrites *)

DaemonRound == up /\ Read(Daemon, TRUE, Unexpired, {})

\* `daemon status` when no daemon runs; otherwise it only reads daemon.json.
DaemonStatus(c) == ~up /\ Read(c, TRUE, Unexpired, {})
LogStatus(c)    == Read(c, FALSE, Unexpired, {})
LogPrune(c, L)  == Read(c, FALSE, WithoutLevels(L), {n \in file : said[n].level \in L})
ClearErrors(c)  == Read(c, FALSE, WithoutErrors,
                        {n \in file : said[n].stamped /\ said[n].level = "ERROR"})

\* `daemon clear` refuses beside a daemon; between the look and the deed there is
\* time for one to start.
ClearLooks(c) ==
    /\ ~up
    /\ proc[c].pc = "idle"
    /\ proc' = [proc EXCEPT ![c].pc = "wipe"]
    /\ UNCHANGED <<said, old, file, shown, up, deaths, dropped, exposed>>

ClearWipes(c) ==
    /\ proc[c].pc = "wipe"
    /\ file' = {}
    /\ dropped' = dropped \cup file
    /\ proc' = [proc EXCEPT ![c] = NoWork]
    /\ UNCHANGED <<said, old, shown, up, deaths, exposed>>

DaemonStarts ==
    /\ ~up /\ up' = TRUE
    /\ UNCHANGED <<said, old, file, shown, proc, deaths, dropped, exposed>>

\* A process is killed: if it has emptied the file, the text is lost with it.
Dies(p) ==
    /\ deaths < MaxDeaths /\ deaths' = deaths + 1
    /\ (p = Daemon /\ up) \/ proc[p].pc # "idle"
    /\ exposed' = IF p \in Emptied THEN exposed \cup proc[p].kept ELSE exposed
    /\ proc' = [proc EXCEPT ![p] = NoWork]
    /\ up' = (up /\ p # Daemon)
    /\ UNCHANGED <<said, old, file, shown, dropped>>

Command(c) ==
    \/ DaemonStatus(c) \/ LogStatus(c) \/ ClearErrors(c) \/ ClearLooks(c)
    \/ \E L \in SUBSET {k.level : k \in Kinds} : LogPrune(c, L)

LogNext ==
    \/ \E k \in Kinds : AppendLine(k)
    \/ \E n \in Said : Ages(n)
    \/ DaemonRound \/ DaemonStarts
    \/ \E c \in LogClients : Command(c) \/ ClearWipes(c)
    \/ \E p \in Procs : Rewrite(p) \/ Dies(p)

-----------------------------------------------------------------------------
LogTypeOK ==
    /\ said \in Seq(Kinds) /\ Len(said) <= MaxEntries
    /\ old \subseteq Said /\ file \subseteq Said
    /\ shown \subseteq Said
    /\ up \in BOOLEAN
    /\ proc \in [Procs -> [pc : {"idle", "cut", "write", "show", "wipe"},
                           shows : BOOLEAN, kept : SUBSET Lines, found : SUBSET Lines]]
    /\ deaths \in 0..MaxDeaths
    /\ dropped \subseteq Said /\ exposed \subseteq Said
    /\ Cardinality(shown) <= MaxShown

\* No line gets lost by accident: it is in the file, or in the hands of the process
\* that has just emptied it, or was left out on purpose: expired, pruned or cleared.
\* Three accidents the code allows are excepted: a line appended while someone
\* rewrites the file, a file read while someone else had emptied it, and a process
\* that dies before it has put the text back.
LossAccounted ==
    \A n \in Said : n \in file \cup Held \cup old \cup dropped \cup exposed

\* Once no command runs and no line is added, daemon.json tells the most recent
\* errors that are in the log, no others, and keeps telling them: neither what an
\* interrupted rewriting, nor what a clear beside the running daemon left there
\* goes on being reported.
Logged    == file \cup Held
Errors    == {n \in Logged : said[n].level = "ERROR" /\ n \notin old}
LastShown == {n \in Errors : Cardinality({k \in Errors : k > n}) < MaxShown}
StatusShowsErrors ==
    <>[](up /\ \A c \in LogClients : proc[c].pc = "idle") => <>[](shown = LastShown)

=============================================================================
