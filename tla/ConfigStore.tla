---------------------------- MODULE ConfigStore ----------------------------
(***************************************************************************)
(* What the configuration of the config daemon promises its users: a draft *)
(* that one of them changes at a time, and a committed configuration that  *)
(* only a commit or a rollback replaces, by the whole draft.  Lists are    *)
(* the exception: the code lets anyone add an entry, and admits entries    *)
(* that were never committed (ConfigTree).                                 *)
(***************************************************************************)
EXTENDS FiniteSets

CONSTANTS Users, None,
    Configs,                \* configurations
    Grown(_),               \* a configuration, or the same with more list entries
    Covers(_, _)            \* the first has all that the second names

VARIABLES committed, draft, owner, file, revisions

vars == <<committed, draft, owner, file, revisions>>

Init == /\ committed \in Configs /\ draft = committed /\ file = committed
        /\ owner = None /\ revisions = {}

MayWrite(u) == owner \in {None, u}

\* One user changes the draft.  It may admit list entries.
Change(u) ==
    /\ MayWrite(u)
    /\ owner' \in {owner, u}
    /\ draft' \in Configs
    /\ committed' \in Grown(committed)
    /\ UNCHANGED <<file, revisions>>

\* Anyone adds a list entry.
Intrude ==
    /\ draft' \in Grown(draft)
    /\ UNCHANGED <<committed, owner, file, revisions>>

\* Discards its changes, leaves, or is idle.
Discard(u) ==
    /\ MayWrite(u)
    /\ draft' = committed /\ owner' = None
    /\ UNCHANGED <<committed, file, revisions>>

Commit(u) ==
    /\ MayWrite(u)
    /\ committed' = draft /\ draft' = draft /\ owner' = None
    /\ file' \in {file, draft}
    /\ \E c \in Grown(committed) : revisions' = revisions \cup {c}

Rollback(u) ==
    /\ MayWrite(u)
    /\ draft' \in Configs /\ committed' = draft' /\ owner' = None
    /\ \E c \in revisions : Covers(draft', c)
    /\ file' \in {file, draft'}
    /\ UNCHANGED revisions

Restart ==
    /\ committed' = file /\ draft' = file /\ owner' = None
    /\ UNCHANGED <<file, revisions>>

Next == \/ \E u \in Users : Change(u) \/ Discard(u) \/ Commit(u) \/ Rollback(u)
        \/ Intrude
        \/ Restart

Spec == Init /\ [][Next]_vars
=============================================================================
