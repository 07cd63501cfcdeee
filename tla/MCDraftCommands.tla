---------------------------- MODULE MCDraftCommands ----------------------------
EXTENDS DraftCommands, TLC

Doc(id, revision, body) == [id |-> id, revision |-> revision, body |-> body]

Ask(id, command, type, body) ==
    [id |-> id, actor |-> "user", version |-> CommandVersion, command |-> command,
     parameters |-> type, profile |-> "REVIEW", body |-> body, wellFormed |-> TRUE]

\* Saves of two contents of one draft and of a draft that shares its file name, and reads:
\* two ids, each for several requests, so that a session performs two of them.
MCRequests ==
    {Ask("q1", "pfd.save", "PfdDocument", Doc("a.b", 1, "x")),
     Ask("q1", "draft.save", "Draft", Doc("a.b", 1, "x")),
     Ask("q1", "pfd.list", "ListDrafts", Doc("a.b", 1, "x")),
     Ask("q2", "pfd.save", "PfdDocument", Doc("a.b", 2, "y")),
     Ask("q2", "pfd.open", "OpenDraft", Doc("a.b", 1, "x")),
     Ask("q2", "draft.open", "OpenDraft", Doc("a.b", 1, "x")),
     Ask("q2", "draft.save", "Draft", Doc("a-b", 1, "x")),
     Ask("q1", "draft.create", "CreateDraft", Doc("a-b", 1, "x")),
     [Ask("q2", "draft.list", "ListDrafts", Doc("a.b", 1, "x")) EXCEPT !.version = "old"],
     Ask("q2", "draft.list", "ListDrafts", Doc("a.b", 1, "x"))}

MCResults == SUBSET Docs

MCSafeName == [i \in {"a.b", "a-b"} |-> "a-b"]

Symmetry == Permutations(Callers)

MCForeign == {<<"a.b", "y">>}

MCRegistries ==
    {[services |-> "full", pfd |-> TRUE, history |-> TRUE, unavailable |-> {}]}

\* Bound: what the other process saves in the browser's store meets no native file.
OneStoreShared == contested # {} \/ elsewhere # NoStep => native = {}
===============================================================================
