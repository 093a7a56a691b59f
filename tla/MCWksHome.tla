------------------------------- MODULE MCWksHome -------------------------------
(* A home with a document directory, the cache in it, and the WKS home beside it. *)
EXTENDS WksHome

CONSTANTS root, docs, cache, text, wks

Tree        == {root, docs, cache, text, wks}
TheParent   == [p \in Tree |-> CASE p = root          -> NoPath
                                 [] p \in {docs, wks} -> root
                                 [] p = cache         -> docs
                                 [] p = text          -> cache]
OwnName     == [p \in Tree |-> p]
Marked      == [p \in Tree |-> IF p \in {cache, text} THEN 1 ELSE 0]   \* _cache, _text
OneGlob     == [g \in {"_t*"} |-> {text}]

\* Documents are monitored, with the lowest priority.
DocsOnly == [include_paths |-> {docs}, exclude_paths |-> {}, include_dirnames |-> {},
             exclude_dirnames |-> {}, include_globs |-> {}, exclude_globs |-> {},
             dirs |-> [p \in Tree |-> IF p = docs THEN 1 ELSE 0]]

Filters ==
    [op : {"filter add", "filter remove"}, list : {"include_paths", "exclude_paths"}, at : Tree \ {wks}]
    \cup [op : {"filter add", "filter remove"}, list : {"include_dirnames", "exclude_dirnames"}, at : {cache}]
    \cup [op : {"filter add", "filter remove"}, list : {"include_globs", "exclude_globs"}, at : {"_t*"}]
Weights   == [op : {"priority add"}, at : {docs, cache}, value : {1, 2}]
             \cup [op : {"priority remove"}, at : {docs, cache}]
Settings  == [op : {"set"}, list : {"exclude_paths"}, all : SUBSET {docs, text}]
AllChanges == Filters \cup Weights \cup Settings

\* A line of the daemon's, an error, and a line of a traceback.
ThreeKinds == {[level |-> "INFO", stamped |-> TRUE], [level |-> "ERROR", stamped |-> TRUE],
               [level |-> "ERROR", stamped |-> FALSE]}
=============================================================================
