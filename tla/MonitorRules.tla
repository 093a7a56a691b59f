------------------------------ MODULE MonitorRules ------------------------------
(***************************************************************************)
(* Which paths the monitor takes, and how important they are: the filter of *)
(* explain_path and the score of calculate_priority, as functions of the    *)
(* rules in the configuration.                                              *)
(*                                                                         *)
(* Source: src/wks/api/monitor/.                                            *)
(***************************************************************************)
EXTENDS Naturals, FiniteSets

CONSTANTS Paths, NoPath,
          Parent,      \* [Paths -> Paths \cup {NoPath}]: the directory of a path
          Name,        \* [Paths -> Names]: its last component
          Underscores, \* [Paths -> Nat]: how many the name begins with
          Match,       \* [Globs -> SUBSET Paths]: fnmatch of the name or of the path
          Home         \* the WKS home

ASSUME RulesAssumption ==
    /\ NoPath \notin Paths /\ Home \in Paths
    /\ Parent \in [Paths -> Paths \cup {NoPath}]
    /\ DOMAIN Name = Paths
    /\ Underscores \in [Paths -> Nat]
    /\ \A g \in DOMAIN Match : Match[g] \subseteq Paths
    /\ \A S \in SUBSET Paths : S # {} => \E p \in S : Parent[p] \notin S   \* a tree

Names == {Name[p] : p \in Paths}
Globs == DOMAIN Match

\* The path and the directories above it: what every set has that has the path and,
\* of each of its members, the directory.
Chain == [p \in Paths |->
            {q \in Paths : \A S \in SUBSET Paths :
               p \in S /\ (\A r \in S : Parent[r] \in S \cup {NoPath}) => q \in S}]

\* Of directories above one path, the closest to it: the others are above it.
Deepest(S) == CHOOSE p \in S : S \subseteq Chain[p]

Rules(Values) ==
    [include_paths : SUBSET Paths, exclude_paths : SUBSET Paths,
     include_dirnames : SUBSET Names, exclude_dirnames : SUBSET Names,
     include_globs : SUBSET Globs, exclude_globs : SUBSET Globs,
     dirs : [Paths -> Values]]       \* priority.dirs; 0 for no entry
ListNames == {"include_paths", "exclude_paths", "include_dirnames", "exclude_dirnames",
              "include_globs", "exclude_globs"}

-----------------------------------------------------------------------------
\* Mutant: with nothing on the way up the path is taken, unless roots are given.
RootAllowsByDefault(rules, p) ==
    LET listed == Chain[p] \cap (rules.include_paths \cup rules.exclude_paths) IN
    IF listed = {} THEN rules.include_paths = {} ELSE Deepest(listed) \notin rules.exclude_paths

\* _evaluate_roots: the first listed directory on the way up decides; a directory
\* in both lists is excluded.
RootAllows(rules, p) ==
    LET listed == Chain[p] \cap (rules.include_paths \cup rules.exclude_paths) IN
    listed # {} /\ Deepest(listed) \notin rules.exclude_paths

Matches(globs, p) == \E g \in globs : p \in Match[g]

\* Every directory above counts, those above the root too.
NameExcludes(rules, p) ==
    \/ \E q \in Chain[p] : Name[q] \in rules.exclude_dirnames
    \/ Matches(rules.exclude_globs, p)

\* Only the directory right above can override.
NameOverrides(rules, p) ==
    \/ Parent[p] # NoPath /\ Name[Parent[p]] \in rules.include_dirnames
    \/ Matches(rules.include_globs, p)

\* explain_path
Allowed(rules, p) ==
    /\ Home \notin Chain[p]
    /\ RootAllows(rules, p)
    /\ NameExcludes(rules, p) => NameOverrides(rules, p)

-----------------------------------------------------------------------------
\* find_priority_dir: the closest directory with a priority.
PriorityDirs(rules, p) == {q \in Chain[p] : rules.dirs[q] # 0}

\* calculate_priority, as the factors of the product: how often the depth multiplier
\* enters, and the underscore multiplier.  The weight of the suffix, which depends on
\* the path alone, is left out; so is the name "_", whose multiplier is another one.
NoScore == [base |-> 0, depth |-> 0, underscores |-> 0]
ScoreBelow(dir, base, p) ==
    LET between == Chain[p] \ (Chain[dir] \cup {p})
        marked  == {q \in {p} : Underscores[p] > 0}
    IN  [base |-> base,
         depth |-> Cardinality(between \cup marked),
         underscores |-> LET n[S \in SUBSET Paths] ==
                               IF S = {} THEN 0
                               ELSE LET q == CHOOSE q \in S : TRUE
                                    IN  Underscores[q] + n[S \ {q}]
                         IN  n[between \cup marked]]
Score(rules, p) ==
    IF PriorityDirs(rules, p) = {} THEN NoScore
    ELSE LET dir == Deepest(PriorityDirs(rules, p))
         IN  ScoreBelow(dir, rules.dirs[dir], p)

\* What `monitor check` answers.
Verdict(rules, p) ==
    IF Allowed(rules, p) THEN [monitored |-> TRUE, score |-> Score(rules, p)]
                         ELSE [monitored |-> FALSE, score |-> NoScore]

-----------------------------------------------------------------------------
\* validate_value: a directory name is not to be in both lists.
Opposite == [include_dirnames |-> "exclude_dirnames", exclude_dirnames |-> "include_dirnames"]
Acceptable(rules, list, v) ==
    list \in DOMAIN Opposite => v \notin rules[Opposite[list]]
=============================================================================
