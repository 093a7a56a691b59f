\* The daemon and a command index two documents while another process searches.
SPECIFICATION Spec
CONSTANTS
    d1 = d1
    d2 = d2
    blank = blank
    t1 = t1
    t2 = t2
    term = term
    daemon = daemon
    none = none
    Docs <- MCDocs
    Texts <- MCTexts
    Start <- Indexed
    Clients <- MCClients
    Ranks <- MCRanks
    Blank = blank
    Daemon = daemon
    None = none
    MaxChanges = 1
    MaxCommands = 1
    MaxSecond = 1
SYMMETRY Symmetric
INVARIANTS TypeOK IndexSettles SearchFresh
PROPERTIES EmbedExact
