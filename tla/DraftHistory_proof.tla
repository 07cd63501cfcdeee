-------------------------- MODULE DraftHistory_proof --------------------------
(***************************************************************************)
(* Proofs about DraftHistory, for any number of callers, actors, documents *)
(* and entries: no update is lost, no request acts twice, journals stay    *)
(* readable, the undo stacks fit, and the history implements UndoEditor.   *)
(***************************************************************************)
EXTENDS DraftHistory, SequenceTheorems, TLAPS

\* What entry e does to the journal's head: the only five kinds of steps that _commit is
\* asked for once there is a head.
Edits(e) ==
    /\ e.after # HeadEntry.after
    /\ e.undo = Append(HeadEntry.undo, Len(journal) + 1) /\ e.redo = << >>
Undoes(e) ==
    /\ HeadEntry.undo # << >>
    /\ HeadEntry.after = journal[Last(HeadEntry.undo)].after
    /\ e.after = journal[Last(HeadEntry.undo)].before
    /\ e.undo = Front(HeadEntry.undo)
    /\ e.redo = Append(HeadEntry.redo, Last(HeadEntry.undo))
Redoes(e) ==
    /\ HeadEntry.redo # << >>
    /\ HeadEntry.after = journal[Last(HeadEntry.redo)].before
    /\ e.after = journal[Last(HeadEntry.redo)].after
    /\ e.undo = Append(HeadEntry.undo, Last(HeadEntry.redo))
    /\ e.redo = Front(HeadEntry.redo)
Keeps(e) ==
    e.after = HeadEntry.after /\ e.undo = HeadEntry.undo /\ e.redo = HeadEntry.redo
Branches(e) ==
    /\ \E i \in DOMAIN journal : e.after = journal[i].after
    /\ e.undo = << >> /\ e.redo = << >>

\* Entry e may stand next in the journal.
NextEntry(e) ==
    /\ ~ IdRecorded(e.request)
    /\ e.request.op \notin {"start", "open"} =>
         journal # << >> /\ e.request.head = Len(journal)
    /\ journal = << >> => e.undo = << >> /\ e.redo = << >>
    /\ journal # << >> =>
         /\ e.before = HeadEntry.after
         /\ Edits(e) \/ Undoes(e) \/ Redoes(e) \/ Keeps(e) \/ Branches(e)

\* The saved version of entry e is a native revision.
Named(e) == \E k \in DOMAIN native : native[k] = [revision |-> e.saved, doc |-> e.after]

\* A thread in dispatch has decided rightly unless the journal has moved on.
ProposalInv ==
    \A c \in Callers : LET p == caller[c] IN p.pc # "idle" =>
        /\ p.request \in Request
        /\ p.base \in 0 .. Len(journal) /\ p.base < MaxEntries
        /\ p.pc = "import" => p.request.op = "open" /\ p.base = 0
        /\ p.pc \in {"saving", "publish"} =>
             /\ p.entry \in Entry /\ p.entry.request = p.request
             /\ p.base = Len(journal) => NextEntry(p.entry)
        /\ p.pc = "saving" => p.request.op = "save"
        /\ p.pc = "publish" =>
             /\ p.entry.after \in checkpoints
             /\ p.request.op = "save" => Named(p.entry)

\* From document d, the undo stack u of journal J leads back and the redo stack forward,
\* each entry to where the next one takes over.
UndoChain(J, u, d) ==
    /\ u \in Seq(1 .. Len(J))
    /\ \A k \in 1 .. Len(u) :
         J[u[k]].after = IF k = Len(u) THEN d ELSE J[u[k + 1]].before
RedoChain(J, u, d) ==
    /\ u \in Seq(1 .. Len(J))
    /\ \A k \in 1 .. Len(u) :
         J[u[k]].before = IF k = Len(u) THEN d ELSE J[u[k + 1]].after

StackInv ==
    journal # << >> =>
        /\ UndoChain(journal, HeadEntry.undo, HeadEntry.after)
        /\ RedoChain(journal, HeadEntry.redo, HeadEntry.after)

JournalInv ==
    /\ Len(journal) <= MaxEntries
    /\ DecidedOnItsParent /\ RequestOnce /\ JournalReadable /\ SavedIsPublished

IInv == TypeOK /\ ProposalInv /\ StackInv /\ JournalInv /\ NoDuplicateRevision
-------------------------------------------------------------------------------
(* Lemmas about sequences *)

LEMMA AppendFacts ==
    ASSUME NEW S, NEW s \in Seq(S), NEW e \in S
    PROVE  /\ Append(s, e) \in Seq(S) /\ Append(s, e) # << >>
           /\ Len(Append(s, e)) = Len(s) + 1 /\ Len(s) \in Nat
           /\ DOMAIN Append(s, e) = 1 .. (Len(s) + 1) /\ DOMAIN s = 1 .. Len(s)
           /\ \A i \in 1 .. Len(s) : Append(s, e)[i] = s[i]
           /\ Append(s, e)[Len(s) + 1] = e
           /\ Last(Append(s, e)) = e
BY DEF Last

LEMMA FrontFacts ==
    ASSUME NEW S, NEW s \in Seq(S), s # << >>
    PROVE  /\ Len(s) \in Nat /\ Len(s) > 0 /\ Last(s) \in S /\ Last(s) = s[Len(s)]
           /\ DOMAIN s = 1 .. Len(s)
           /\ Front(s) \in Seq(S) /\ Len(Front(s)) = Len(s) - 1
           /\ \A i \in 1 .. (Len(s) - 1) : Front(s)[i] = s[i]
<1>1. Len(s) \in Nat /\ Len(s) > 0 /\ DOMAIN s = 1 .. Len(s)
    OBVIOUS
<1>2. \A i \in 1 .. Len(s) : s[i] \in S
    OBVIOUS
<1>3. /\ SubSeq(s, 1, Len(s) - 1) \in Seq(S)
      /\ Len(SubSeq(s, 1, Len(s) - 1)) = IF 1 <= Len(s) - 1 THEN Len(s) - 1 - 1 + 1 ELSE 0
      /\ \A i \in 1 .. (Len(s) - 1) - 1 + 1 : SubSeq(s, 1, Len(s) - 1)[i] = s[1 + i - 1]
    BY <1>1, <1>2, SubSeqProperties
<1> QED
    BY <1>1, <1>2, <1>3 DEF Front, Last

LEMMA PrefixOfAppend ==
    ASSUME NEW S, NEW s \in Seq(S), NEW e \in S
    PROVE  IsPrefix(s, Append(s, e))
<1>1. SubSeq(s, 1, Len(s)) = s
    BY SubSeqFull
<1>2. SubSeq(Append(s, e), 1, Len(s)) = s
    OBVIOUS
<1> QED
    BY <1>1, <1>2 DEF IsPrefix

-------------------------------------------------------------------------------
(* Lemmas about requests and threads *)

LEMMA InitInv == Init => IInv
<1> SUFFICES ASSUME Init PROVE IInv
    OBVIOUS
<1> USE HistoryAssumption
<1>1. TypeOK
    BY DEF Init, TypeOK, Call, Idle
<1>2. ProposalInv
    BY DEF Init, ProposalInv, Idle
<1>3. StackInv /\ JournalInv /\ NoDuplicateRevision
    BY DEF Init, StackInv, JournalInv, DecidedOnItsParent, RequestOnce, JournalReadable,
           SavedIsPublished, NoDuplicateRevision
<1> QED
    BY <1>1, <1>2, <1>3 DEF IInv

\* The head of a journal is its last entry, which is an entry.
LEMMA HeadFacts ==
    ASSUME TypeOK, journal # << >>
    PROVE  /\ Len(journal) \in Nat /\ Len(journal) > 0 /\ DOMAIN journal = 1 .. Len(journal)
           /\ HeadEntry = journal[Len(journal)] /\ HeadEntry \in Entry
           /\ \A i \in 1 .. Len(journal) : journal[i] \in Entry
BY DEF TypeOK, HeadEntry, Last

\* What clients ask is a request.
LEMMA RequestTyped ==
    ASSUME IInv, NEW r \in Requests
    PROVE  r \in Request
<1> USE HistoryAssumption
<1> DEFINE old == {journal[i].request : i \in DOMAIN journal}
                  \cup {caller[c].request : c \in {b \in Callers : caller[b].pc # "idle"}}
           someone == CHOOSE a \in Actors : TRUE
           head == Len(journal)
           ask(i, op, a, h, d, e) ==
             [id |-> i, op |-> op, actor |-> a, head |-> h, doc |-> d, entry |-> e]
<1>1. someone \in Actors
    OBVIOUS
<1>2. head \in 0 .. MaxEntries /\ DOMAIN journal = 1 .. head
    BY DEF IInv, JournalInv, TypeOK
<1>3. \A q \in old : q \in Request
  <2>1. \A i \in DOMAIN journal : journal[i] \in Entry
    BY DEF IInv, TypeOK
  <2>2. \A i \in DOMAIN journal : journal[i].request \in Request
    BY <2>1 DEF Entry
  <2>3. \A c \in Callers : caller[c].pc # "idle" => caller[c].request \in Request
    BY DEF IInv, ProposalInv
  <2> QED
    BY <2>2, <2>3
<1>4. \A q \in old : [q EXCEPT !.op = "snapshot"] \in Request
    BY <1>3 DEF Request, Ops
<1>5. \/ \E i \in Ids, d \in Docs : r = ask(i, "start", someone, 0, d, 0)
      \/ \E i \in Ids : r = ask(i, "open", someone, 0, NoDoc, 0)
      \/ \E i \in Ids, a \in Actors, h \in 1 .. head, d \in Docs : r = ask(i, "edit", a, h, d, 0)
      \/ \E i \in Ids, op \in {"undo", "redo"}, a \in Actors : r = ask(i, op, a, head, NoDoc, 0)
      \/ \E i \in Ids, op \in {"save", "snapshot"} : r = ask(i, op, someone, head, NoDoc, 0)
      \/ \E i \in Ids, e \in 0 .. head : r = ask(i, "branch", someone, head, NoDoc, e)
      \/ \E q \in old : r = q \/ r = [q EXCEPT !.op = "snapshot"]
    BY <1>2 DEF Requests
<1>6. \A i \in Ids, op \in Ops, a \in Actors, h \in 0 .. MaxEntries, d \in Docs \cup {NoDoc},
         e \in 0 .. MaxEntries :
        (op \in {"start", "edit"} => d \in Docs) => ask(i, op, a, h, d, e) \in Request
    BY DEF Request
<1> HIDE DEF old, someone, head, ask
<1> QED
    BY <1>1, <1>2, <1>3, <1>4, <1>5, <1>6 DEF Ops

\* A thread that answers leaves everything else as it was.
LEMMA ReplyInv ==
    ASSUME IInv, NEW c \in Callers, Reply(c), UNCHANGED <<journal, native>>
    PROVE  IInv'
<1> USE HistoryAssumption DEF Reply
<1>1. TypeOK'
    BY DEF IInv, TypeOK, Call, Idle
<1>2. ProposalInv'
    BY DEF IInv, TypeOK, ProposalInv, Idle, NextEntry, IdRecorded, HeadEntry, Named, Edits,
           Undoes, Redoes, Keeps, Branches
<1>3. StackInv' /\ JournalInv' /\ NoDuplicateRevision'
    BY DEF IInv, StackInv, JournalInv, DecidedOnItsParent, RequestOnce, JournalReadable,
           SavedIsPublished, NoDuplicateRevision, HeadEntry
<1> QED
    BY <1>1, <1>2, <1>3 DEF IInv

\* A thread that goes on with a proposal that is right at this moment.
LEMMA EnterInv ==
    ASSUME IInv, NEW c \in Callers, NEW pc \in {"import", "saving", "publish"},
           NEW r \in Request, NEW entry \in Entry \cup {NoEntry},
           Enter(c, pc, r, entry), UNCHANGED <<journal, native>>,
           checkpoints' \subseteq Docs, checkpoints \subseteq checkpoints',
           pc = "import" => r.op = "open" /\ journal = << >>,
           pc = "saving" => r.op = "save",
           pc # "import" => entry \in Entry /\ entry.request = r /\ NextEntry(entry),
           pc = "publish" => entry.after \in checkpoints' /\ r.op # "save"
    PROVE  IInv'
<1> USE HistoryAssumption
<1> DEFINE p == [pc |-> pc, request |-> r, base |-> Len(journal), entry |-> entry]
<1>1. /\ caller' = [caller EXCEPT ![c] = p] /\ caller \in [Callers -> Call]
      /\ Len(journal) < MaxEntries /\ Len(journal) \in Nat
    BY DEF Enter, IInv, TypeOK
<1>2. p \in Call
    BY <1>1 DEF Call
<1>3. TypeOK'
    BY <1>1, <1>2 DEF IInv, TypeOK
<1>4. \A e : NextEntry(e)' <=> NextEntry(e)
    BY DEF NextEntry, IdRecorded, HeadEntry, Edits, Undoes, Redoes, Keeps, Branches
<1>5. \A e : Named(e)' <=> Named(e)
    BY DEF Named
<1>6. ProposalInv'
  <2> SUFFICES ASSUME NEW b \in Callers, caller'[b].pc # "idle"
               PROVE  LET q == caller'[b] IN
                        /\ q.request \in Request
                        /\ q.base \in 0 .. Len(journal) /\ q.base < MaxEntries
                        /\ q.pc = "import" => q.request.op = "open" /\ q.base = 0
                        /\ q.pc \in {"saving", "publish"} =>
                             /\ q.entry \in Entry /\ q.entry.request = q.request
                             /\ q.base = Len(journal) => NextEntry(q.entry)
                        /\ q.pc = "saving" => q.request.op = "save"
                        /\ q.pc = "publish" =>
                             /\ q.entry.after \in checkpoints'
                             /\ q.request.op = "save" => Named(q.entry)
    BY <1>4, <1>5 DEF ProposalInv
  <2>1. CASE b = c
    BY <2>1, <1>1
  <2>2. CASE b # c
    BY <2>2, <1>1 DEF IInv, ProposalInv
  <2> QED
    BY <2>1, <2>2
<1>7. StackInv' /\ JournalInv' /\ NoDuplicateRevision'
    BY DEF IInv, StackInv, JournalInv, DecidedOnItsParent, RequestOnce, JournalReadable,
           SavedIsPublished, NoDuplicateRevision, HeadEntry
<1> QED
    BY <1>3, <1>6, <1>7 DEF IInv

-------------------------------------------------------------------------------
(* Every command that proposes an entry proposes one that may stand next *)

LEMMA EntryTyped ==
    ASSUME IInv, NEW r \in Request, NEW d \in Docs, NEW undo \in Seq(1 .. MaxEntries),
           NEW redo \in Seq(1 .. MaxEntries)
    PROVE  LET e == HistoryEntry(r, d, undo, redo, 0)
           IN  /\ e \in Entry
               /\ e.request = r /\ e.after = d /\ e.undo = undo /\ e.redo = redo
               /\ journal # << >> => e.before = HeadEntry.after
<1>1. journal # << >> => HeadEntry.after \in Docs
    BY HeadFacts DEF IInv, Entry
<1> QED
    BY <1>1 DEF HistoryEntry, Entry

\* The stacks of the head hold numbers of entries.
LEMMA StackFacts ==
    ASSUME IInv, journal # << >>, NEW stack \in {HeadEntry.undo, HeadEntry.redo},
           stack # << >>
    PROVE  /\ Last(stack) \in 1 .. Len(journal) /\ Last(stack) \in 1 .. MaxEntries
           /\ journal[Last(stack)] \in Entry
           /\ journal[Last(stack)].after \in Docs /\ journal[Last(stack)].before \in Docs
           /\ Front(stack) \in Seq(1 .. MaxEntries)
<1>1. stack \in Seq(1 .. Len(journal))
    BY DEF IInv, StackInv, UndoChain, RedoChain
<1>2. Last(stack) \in 1 .. Len(journal)
    BY <1>1, FrontFacts
<1>3. stack \in Seq(1 .. MaxEntries)
    BY HeadFacts DEF IInv, Entry
<1>4. Last(stack) \in 1 .. MaxEntries /\ Front(stack) \in Seq(1 .. MaxEntries)
    BY <1>3, FrontFacts
<1>5. journal[Last(stack)] \in Entry
    BY <1>2, HeadFacts DEF IInv
<1> QED
    BY <1>2, <1>4, <1>5 DEF Entry

\* Proposing an entry that may stand next keeps the invariant.
LEMMA ProposeInv ==
    ASSUME IInv, NEW c \in Callers, NEW r \in Request, NEW d \in Docs,
           NEW undo \in Seq(1 .. MaxEntries), NEW redo \in Seq(1 .. MaxEntries),
           Propose(c, r, HistoryEntry(r, d, undo, redo, 0)),
           NextEntry(HistoryEntry(r, d, undo, redo, 0)),
           r.op # "save", UNCHANGED <<journal, native>>
    PROVE  IInv'
<1> DEFINE entry == HistoryEntry(r, d, undo, redo, 0)
<1>1. entry \in Entry /\ entry.request = r /\ entry.after = d
    BY EntryTyped
<1>2. Enter(c, "publish", r, entry) /\ checkpoints' = checkpoints \cup {d}
    BY <1>1 DEF Propose, Checkpoint
<1>3. checkpoints' \subseteq Docs /\ checkpoints \subseteq checkpoints'
    BY <1>2 DEF IInv, TypeOK
<1> HIDE DEF entry
<1> QED
    BY <1>1, <1>2, <1>3, EnterInv DEF entry

LEMMA StartInv ==
    ASSUME IInv, NEW c \in Callers, NEW r \in Request, Start(c, r),
           UNCHANGED <<journal, native>>
    PROVE  IInv'
<1>1. CASE journal = << >>
  <2> DEFINE entry == HistoryEntry(r, r.doc, << >>, << >>, 0)
  <2>1. r.doc \in Docs /\ r.op = "start"
    BY DEF Start, Request
  <2>2. Propose(c, r, entry)
    BY <1>1 DEF Start
  <2>3. entry.request = r /\ entry.undo = << >> /\ entry.redo = << >>
    BY DEF HistoryEntry
  <2>4. NextEntry(entry)
    BY <1>1, <2>1, <2>3 DEF NextEntry, IdRecorded
  <2> QED
    BY <2>1, <2>2, <2>4, EmptySeq, ProposeInv
<1>2. CASE journal # << >>
    BY <1>2, ReplyInv DEF Start
<1> QED
    BY <1>1, <1>2

LEMMA OpenInv ==
    ASSUME IInv, NEW c \in Callers, NEW r \in Request, Open(c, r),
           UNCHANGED <<journal, native>>
    PROVE  IInv'
<1>1. CASE journal = << >>
  <2>1. Enter(c, "import", r, NoEntry) /\ checkpoints' = checkpoints /\ r.op = "open"
    BY <1>1 DEF Open
  <2>2. checkpoints' \subseteq Docs
    BY <2>1 DEF IInv, TypeOK
  <2> QED
    BY <1>1, <2>1, <2>2, EnterInv
<1>2. CASE journal # << >>
    BY <1>2, ReplyInv DEF Open
<1> QED
    BY <1>1, <1>2

\* An entry on the expected head that does one of the five things may stand next.
LEMMA MayStandNext ==
    ASSUME IInv, NEW r \in Request, NEW d \in Docs, NEW undo \in Seq(1 .. MaxEntries),
           NEW redo \in Seq(1 .. MaxEntries), ~ IdRecorded(r), journal # << >>, Expected(r),
           LET e == HistoryEntry(r, d, undo, redo, 0)
           IN  Edits(e) \/ Undoes(e) \/ Redoes(e) \/ Keeps(e) \/ Branches(e)
    PROVE  NextEntry(HistoryEntry(r, d, undo, redo, 0))
BY EntryTyped DEF NextEntry, Expected

LEMMA EditInv ==
    ASSUME IInv, NEW c \in Callers, NEW r \in Request, Edit(c, r), ~ IdRecorded(r),
           journal # << >>, Expected(r), UNCHANGED <<journal, native>>
    PROVE  IInv'
<1>1. CASE r.doc = HeadEntry.after
    BY <1>1, ReplyInv DEF Edit
<1>2. CASE r.doc # HeadEntry.after
  <2> DEFINE undo == Append(HeadEntry.undo, Next_sequence)
             entry == HistoryEntry(r, r.doc, undo, << >>, 0)
  <2>1. r.doc \in Docs /\ r.op = "edit"
    BY DEF Edit, Request
  <2>2. Propose(c, r, entry)
    BY <1>2 DEF Edit, EditEntry
  <2>3. Len(journal) < MaxEntries
    BY <2>2 DEF Propose, Enter
  <2>4. Next_sequence \in 1 .. MaxEntries
    BY <2>3, HeadFacts, HistoryAssumption DEF Next_sequence, IInv
  <2>5. HeadEntry.undo \in Seq(1 .. MaxEntries)
    BY HeadFacts DEF IInv, Entry
  <2>6. undo \in Seq(1 .. MaxEntries)
    BY <2>4, <2>5, AppendFacts
  <2>7. Edits(entry)
    <3>1. entry.after = r.doc /\ entry.undo = undo /\ entry.redo = << >>
        BY DEF HistoryEntry
    <3> HIDE DEF entry
    <3> QED
        BY <1>2, <3>1 DEF Edits, Next_sequence
  <2>8. NextEntry(entry)
    BY <2>1, <2>6, <2>7, EmptySeq, MayStandNext
  <2> QED
    BY <2>1, <2>2, <2>6, <2>8, EmptySeq, ProposeInv
<1> QED
    BY <1>1, <1>2

LEMMA UndoInv ==
    ASSUME IInv, NEW c \in Callers, NEW r \in Request, Undo(c, r), ~ IdRecorded(r),
           journal # << >>, Expected(r), UNCHANGED <<journal, native>>
    PROVE  IInv'
<1> DEFINE stack == HeadEntry.undo
           top == journal[Last(stack)]
           redo == Append(HeadEntry.redo, Last(stack))
           entry == HistoryEntry(r, top.before, Front(stack), redo, 0)
<1>1. CASE ~ (Reverses(r, stack) /\ top.after = HeadEntry.after)
    BY <1>1, ReplyInv DEF Undo
<1>2. CASE Reverses(r, stack) /\ top.after = HeadEntry.after
  <2>1. Propose(c, r, entry) /\ r.op = "undo"
    BY <1>2 DEF Undo
  <2>2. stack # << >>
    BY <1>2 DEF Reverses
  <2>3. top.before \in Docs /\ Front(stack) \in Seq(1 .. MaxEntries) /\ Last(stack) \in 1 .. MaxEntries
    BY <2>2, StackFacts
  <2>4. HeadEntry.redo \in Seq(1 .. MaxEntries)
    BY HeadFacts DEF IInv, Entry
  <2>5. redo \in Seq(1 .. MaxEntries)
    BY <2>3, <2>4, AppendFacts
  <2>6. Undoes(entry)
    <3>1. entry.after = top.before /\ entry.undo = Front(stack) /\ entry.redo = redo
        BY DEF HistoryEntry
    <3> HIDE DEF entry
    <3> QED
        BY <1>2, <2>2, <3>1 DEF Undoes
  <2>7. NextEntry(entry)
    BY <2>3, <2>5, <2>6, MayStandNext
  <2> QED
    BY <2>1, <2>3, <2>5, <2>7, ProposeInv
<1> QED
    BY <1>1, <1>2

LEMMA RedoInv ==
    ASSUME IInv, NEW c \in Callers, NEW r \in Request, Redo(c, r), ~ IdRecorded(r),
           journal # << >>, Expected(r), UNCHANGED <<journal, native>>
    PROVE  IInv'
<1> DEFINE stack == HeadEntry.redo
           top == journal[Last(stack)]
           undo == Append(HeadEntry.undo, Last(stack))
           entry == HistoryEntry(r, top.after, undo, Front(stack), 0)
<1>1. CASE ~ (Reverses(r, stack) /\ top.before = HeadEntry.after)
    BY <1>1, ReplyInv DEF Redo
<1>2. CASE Reverses(r, stack) /\ top.before = HeadEntry.after
  <2>1. Propose(c, r, entry) /\ r.op = "redo"
    BY <1>2 DEF Redo
  <2>2. stack # << >>
    BY <1>2 DEF Reverses
  <2>3. top.after \in Docs /\ Front(stack) \in Seq(1 .. MaxEntries) /\ Last(stack) \in 1 .. MaxEntries
    BY <2>2, StackFacts
  <2>4. HeadEntry.undo \in Seq(1 .. MaxEntries)
    BY HeadFacts DEF IInv, Entry
  <2>5. undo \in Seq(1 .. MaxEntries)
    BY <2>3, <2>4, AppendFacts
  <2>6. Redoes(entry)
    <3>1. entry.after = top.after /\ entry.undo = undo /\ entry.redo = Front(stack)
        BY DEF HistoryEntry
    <3> HIDE DEF entry
    <3> QED
        BY <1>2, <2>2, <3>1 DEF Redoes
  <2>7. NextEntry(entry)
    BY <2>3, <2>5, <2>6, MayStandNext
  <2> QED
    BY <2>1, <2>3, <2>5, <2>7, ProposeInv
<1> QED
    BY <1>1, <1>2

LEMMA KeepInv ==
    ASSUME IInv, NEW c \in Callers, NEW r \in Request, Keep(c, r), ~ IdRecorded(r),
           journal # << >>, Expected(r), UNCHANGED <<journal, native>>
    PROVE  IInv'
<1> DEFINE entry == HistoryEntry(r, HeadEntry.after, HeadEntry.undo, HeadEntry.redo, 0)
<1>1. /\ HeadEntry.after \in Docs
      /\ HeadEntry.undo \in Seq(1 .. MaxEntries) /\ HeadEntry.redo \in Seq(1 .. MaxEntries)
    BY HeadFacts DEF IInv, Entry
<1>2. entry \in Entry /\ entry.request = r /\ Keeps(entry)
    BY <1>1, EntryTyped DEF Keeps
<1>3. NextEntry(entry)
    BY <1>1, <1>2, MayStandNext
<1>4. CASE r.op = "snapshot"
    BY <1>1, <1>3, <1>4, ProposeInv DEF Keep
<1>5. CASE r.op = "save"
  <2>1. Enter(c, "saving", r, entry) /\ checkpoints' = checkpoints
    BY <1>5 DEF Keep
  <2>2. checkpoints' \subseteq Docs
    BY <2>1 DEF IInv, TypeOK
  <2> HIDE DEF entry
  <2> QED
    BY <1>2, <1>3, <1>5, <2>1, <2>2, EnterInv
<1> QED
    BY <1>4, <1>5 DEF Keep

LEMMA BranchInv ==
    ASSUME IInv, NEW c \in Callers, NEW r \in Request, Branch(c, r), ~ IdRecorded(r),
           journal # << >>, Expected(r), UNCHANGED <<journal, native>>
    PROVE  IInv'
<1> DEFINE d == journal[r.entry].after
           entry == HistoryEntry(r, d, << >>, << >>, 0)
<1>1. CASE r.entry \notin DOMAIN journal
    BY <1>1, ReplyInv DEF Branch
<1>2. CASE r.entry \in DOMAIN journal
  <2>1. Propose(c, r, entry) /\ r.op = "branch"
    BY <1>2 DEF Branch
  <2>2. d \in Docs
    BY <1>2, HeadFacts DEF IInv, Entry
  <2>3. Branches(entry)
    <3>1. entry.after = d /\ entry.undo = << >> /\ entry.redo = << >>
        BY DEF HistoryEntry
    <3> HIDE DEF entry
    <3> QED
        BY <1>2, <3>1 DEF Branches
  <2>4. NextEntry(entry)
    BY <2>2, <2>3, EmptySeq, MayStandNext
  <2> QED
    BY <2>1, <2>2, <2>4, EmptySeq, ProposeInv
<1> QED
    BY <1>1, <1>2

LEMMA DispatchInv ==
    ASSUME IInv, NEW c \in Callers, NEW r \in Requests, Dispatch(c, r)
    PROVE  IInv'
<1>1. r \in Request /\ UNCHANGED <<journal, native>>
    BY RequestTyped DEF Dispatch
<1>2. CASE Start(c, r)
    BY <1>1, <1>2, StartInv
<1>3. CASE Open(c, r)
    BY <1>1, <1>3, OpenInv
<1>4. CASE Repeat(c, r)
    BY <1>1, <1>4, ReplyInv DEF Repeat
<1>5. CASE Mutate(c, r)
  <2>1. CASE journal = << >> \/ ~ Expected(r)
    BY <1>1, <1>5, <2>1, ReplyInv DEF Mutate
  <2>2. CASE journal # << >> /\ Expected(r)
    BY <1>1, <1>5, <2>2, EditInv, UndoInv, RedoInv, KeepInv, BranchInv DEF Mutate
  <2> QED
    BY <2>1, <2>2
<1> QED
    BY <1>2, <1>3, <1>4, <1>5 DEF Dispatch

-------------------------------------------------------------------------------
(* Imports and native revisions *)

\* A new native revision leaves the others, so that what is named stays named.
LEMMA SavedFacts ==
    ASSUME IInv, NEW d \in Docs
    PROVE  /\ Saved(d) \in Seq([revision : Nat, doc : Docs]) /\ Saved(d) # << >>
           /\ Len(native) \in Nat /\ Len(Saved(d)) \in Nat /\ Len(native) <= Len(Saved(d))
           /\ DOMAIN native = 1 .. Len(native) /\ DOMAIN Saved(d) = 1 .. Len(Saved(d))
           /\ \A k \in 1 .. Len(native) : Saved(d)[k] = native[k]
           /\ Last(Saved(d)) = Saved(d)[Len(Saved(d))] /\ Last(Saved(d)).doc = d
           /\ Last(Saved(d)).revision \in Nat
           /\ \A k \in 1 .. Len(Saved(d)) : k > 1 =>
                /\ Saved(d)[k].doc # Saved(d)[k - 1].doc
                /\ Saved(d)[k].revision = Saved(d)[k - 1].revision + 1
<1> DEFINE Revision == [revision : Nat, doc : Docs]
           new == [revision |-> NextRevision, doc |-> d]
<1>1. native \in Seq(Revision) /\ Len(native) \in Nat /\ DOMAIN native = 1 .. Len(native)
    BY DEF IInv, TypeOK
<1>2. \A k \in 1 .. Len(native) : native[k] \in Revision
  <2> HIDE DEF Revision
  <2> QED
    BY <1>1, ElementOfSeq
<1>3. native # << >> => Len(native) > 0 /\ Last(native) = native[Len(native)]
    BY <1>1 DEF Last
<1>4. NextRevision \in Nat
  <2>1. native # << >> => Last(native).revision \in Nat
    BY <1>1, <1>2, <1>3
  <2>2. FirstRevision \in Nat
    BY HeadFacts DEF IInv, FirstRevision, Entry
  <2> QED
    BY <2>1, <2>2 DEF NextRevision
<1>5. new \in Revision
    BY <1>4
<1>6. \A k \in 1 .. Len(native) : k > 1 =>
        native[k].doc # native[k - 1].doc /\ native[k].revision = native[k - 1].revision + 1
    BY <1>1 DEF IInv, NoDuplicateRevision
<1>7. CASE AlreadySaved(d)
  <2>1. Saved(d) = native /\ native # << >> /\ Last(native).doc = d
    BY <1>7 DEF Saved, AlreadySaved
  <2> QED
    BY <1>1, <1>2, <1>3, <1>6, <2>1
<1>8. CASE ~ AlreadySaved(d)
  <2>1. Saved(d) = Append(native, new)
    BY <1>8 DEF Saved
  <2>2. native # << >> => native[Len(native)].doc # d /\ new.revision = native[Len(native)].revision + 1
    BY <1>3, <1>8 DEF AlreadySaved, NextRevision
  <2> HIDE DEF new, Revision
  <2>3. /\ Saved(d) \in Seq(Revision) /\ Saved(d) # << >> /\ Len(Saved(d)) = Len(native) + 1
        /\ DOMAIN Saved(d) = 1 .. Len(Saved(d))
        /\ \A k \in 1 .. Len(native) : Saved(d)[k] = native[k]
        /\ Saved(d)[Len(native) + 1] = new /\ Last(Saved(d)) = new
    BY <1>1, <1>5, <2>1, AppendFacts
  <2>4. \A k \in 1 .. Len(Saved(d)) : k > 1 =>
          /\ Saved(d)[k].doc # Saved(d)[k - 1].doc
          /\ Saved(d)[k].revision = Saved(d)[k - 1].revision + 1
    <3> SUFFICES ASSUME NEW k \in 1 .. Len(Saved(d)), k > 1
                 PROVE  /\ Saved(d)[k].doc # Saved(d)[k - 1].doc
                        /\ Saved(d)[k].revision = Saved(d)[k - 1].revision + 1
        OBVIOUS
    <3>1. CASE k <= Len(native)
        BY <1>1, <1>6, <2>3, <3>1
    <3>2. CASE k = Len(native) + 1
      <4>1. native # << >> /\ k - 1 = Len(native) /\ k - 1 \in 1 .. Len(native)
        BY <1>1, <3>2
      <4>2. Saved(d)[k] = new /\ Saved(d)[k - 1] = native[Len(native)] /\ new.doc = d
        BY <2>3, <3>2, <4>1 DEF new
      <4> QED
        BY <2>2, <4>1, <4>2
    <3> QED
        BY <1>1, <2>3, <3>1, <3>2
  <2>5. new.doc = d /\ new.revision \in Nat
    BY <1>4 DEF new
  <2> QED
    BY <1>1, <2>3, <2>4, <2>5 DEF Revision
<1> QED
    BY <1>7, <1>8

\* What native revisions are published touches neither the journal nor a proposal.
LEMMA NativeGrows ==
    ASSUME IInv, NEW d \in Docs, native' = Saved(d), journal' = journal
    PROVE  /\ \A e : Named(e) => Named(e)'
           /\ \A e : NextEntry(e)' <=> NextEntry(e)
           /\ StackInv' /\ NoDuplicateRevision'
           /\ checkpoints \subseteq checkpoints' => JournalInv'
<1>1. \A k \in DOMAIN native : k \in DOMAIN native' /\ native'[k] = native[k]
  <2>1. /\ Len(native) \in Nat /\ Len(Saved(d)) \in Nat /\ Len(native) <= Len(Saved(d))
        /\ DOMAIN native = 1 .. Len(native) /\ DOMAIN Saved(d) = 1 .. Len(Saved(d))
        /\ \A k \in 1 .. Len(native) : Saved(d)[k] = native[k]
    BY SavedFacts
  <2> QED
    BY <2>1
<1>2. \A e : Named(e) => Named(e)'
    BY <1>1 DEF Named
<1>3. \A e : NextEntry(e)' <=> NextEntry(e)
    BY DEF NextEntry, IdRecorded, HeadEntry, Edits, Undoes, Redoes, Keeps, Branches
<1>4. StackInv'
    BY DEF IInv, StackInv, HeadEntry
<1>5. NoDuplicateRevision'
  <2>1. /\ DOMAIN Saved(d) = 1 .. Len(Saved(d))
        /\ \A k \in 1 .. Len(Saved(d)) : k > 1 =>
             /\ Saved(d)[k].doc # Saved(d)[k - 1].doc
             /\ Saved(d)[k].revision = Saved(d)[k - 1].revision + 1
    BY SavedFacts
  <2> QED
    BY <2>1 DEF NoDuplicateRevision
<1>6. SavedIsPublished'
    BY <1>1 DEF IInv, JournalInv, SavedIsPublished
<1>7. checkpoints \subseteq checkpoints' => JournalInv'
    BY <1>6 DEF IInv, JournalInv, DecidedOnItsParent, RequestOnce, JournalReadable
<1> QED
    BY <1>2, <1>3, <1>4, <1>5, <1>7

LEMMA SaveOutsideInv ==
    ASSUME IInv, NEW d \in Docs, SaveOutside(d)
    PROVE  IInv'
<1>1. native' = Saved(d) /\ UNCHANGED <<journal, checkpoints, caller>>
    BY DEF SaveOutside
<1>2. TypeOK'
    BY <1>1, SavedFacts DEF IInv, TypeOK
<1>3. ProposalInv'
    BY <1>1, NativeGrows DEF IInv, ProposalInv
<1> QED
    BY <1>1, <1>2, <1>3, NativeGrows DEF IInv

LEMMA SaveNativeInv ==
    ASSUME IInv, NEW c \in Callers, SaveNative(c)
    PROVE  IInv'
<1> DEFINE p == caller[c]
           d == p.entry.after
           revision == Last(Saved(d)).revision
           e == [p.entry EXCEPT !.saved = revision]
           q == [p EXCEPT !.pc = "publish", !.entry = e]
<1>1. /\ p.pc = "saving" /\ native' = Saved(d) /\ checkpoints' = checkpoints \cup {d}
      /\ journal' = journal
    BY DEF SaveNative, Checkpoint
<1>2. /\ p \in Call /\ p.entry \in Entry /\ d \in Docs /\ p.request \in Request
      /\ p.request.op = "save" /\ p.entry.request = p.request
      /\ p.base \in 0 .. Len(journal) /\ p.base < MaxEntries
      /\ p.base = Len(journal) => NextEntry(p.entry)
    BY <1>1 DEF IInv, TypeOK, ProposalInv, Entry
<1>3. revision \in Nat
    BY <1>2, SavedFacts
<1>4. e \in Entry /\ e.request = p.entry.request /\ e.after = d /\ e.before = p.entry.before
      /\ e.undo = p.entry.undo /\ e.redo = p.entry.redo /\ e.saved = revision
    BY <1>2, <1>3 DEF Entry
<1>5. NextEntry(p.entry) => NextEntry(e)
    BY <1>4 DEF NextEntry, Edits, Undoes, Redoes, Keeps, Branches
<1>6. \E k \in DOMAIN native' : native'[k] = [revision |-> e.saved, doc |-> e.after]
  <2> DEFINE n == Len(Saved(d))
             Revision == [revision : Nat, doc : Docs]
  <2>0. /\ Saved(d) \in Seq(Revision) /\ Saved(d) # << >> /\ n \in Nat
        /\ DOMAIN Saved(d) = 1 .. n /\ Last(Saved(d)) = Saved(d)[n] /\ Last(Saved(d)).doc = d
    BY <1>2, SavedFacts
  <2>1. n \in DOMAIN Saved(d) /\ Saved(d)[n] \in Revision
    <3> HIDE DEF Revision
    <3> QED
        BY <2>0, EmptySeq, ElementOfSeq
  <2>2. Saved(d)[n] = [revision |-> e.saved, doc |-> e.after]
    BY <1>4, <2>0, <2>1
  <2>3. n \in DOMAIN native' /\ native'[n] = [revision |-> e.saved, doc |-> e.after]
    BY <1>1, <2>1, <2>2
  <2> QED
    BY <2>3
<1>7. caller' = [caller EXCEPT ![c] = q] /\ caller \in [Callers -> Call]
    BY <1>1 DEF SaveNative, IInv, TypeOK
<1>8. /\ q.pc = "publish" /\ q.request = p.request /\ q.base = p.base /\ q.entry = e
      /\ q \in Call
    BY <1>2, <1>4 DEF Call
<1> HIDE DEF q, e, revision
<1>9. TypeOK'
    BY <1>1, <1>2, <1>7, <1>8, SavedFacts DEF IInv, TypeOK
<1>10. /\ \A x : Named(x) => Named(x)'
       /\ \A x : NextEntry(x)' <=> NextEntry(x)
       /\ StackInv' /\ NoDuplicateRevision' /\ JournalInv'
    BY <1>1, <1>2, NativeGrows
<1>11. ProposalInv'
  <2> SUFFICES ASSUME NEW b \in Callers, caller'[b].pc # "idle"
               PROVE  LET x == caller'[b] IN
                        /\ x.request \in Request
                        /\ x.base \in 0 .. Len(journal) /\ x.base < MaxEntries
                        /\ x.pc = "import" => x.request.op = "open" /\ x.base = 0
                        /\ x.pc \in {"saving", "publish"} =>
                             /\ x.entry \in Entry /\ x.entry.request = x.request
                             /\ x.base = Len(journal) => NextEntry(x.entry)
                        /\ x.pc = "saving" => x.request.op = "save"
                        /\ x.pc = "publish" =>
                             /\ x.entry.after \in checkpoints'
                             /\ x.request.op = "save" =>
                                  \E k \in DOMAIN native' :
                                    native'[k] = [revision |-> x.entry.saved, doc |-> x.entry.after]
    BY <1>1, <1>10 DEF ProposalInv, Named
  <2>1. CASE b = c
    BY <1>1, <1>2, <1>4, <1>5, <1>6, <1>7, <1>8, <2>1
  <2>2. CASE b # c
    BY <1>1, <1>7, <1>10, <2>2 DEF IInv, ProposalInv, Named
  <2> QED
    BY <2>1, <2>2
<1> QED
    BY <1>9, <1>10, <1>11 DEF IInv

LEMMA ImportedInv ==
    ASSUME IInv, NEW c \in Callers, caller[c].pc = "import", NEW d \in Docs,
           NEW saved \in Nat, Imported(c, d, saved), UNCHANGED <<journal, native>>
    PROVE  IInv'
<1> DEFINE p == caller[c]
           e == [request |-> p.request, before |-> d, after |-> d, undo |-> << >>,
                 redo |-> << >>, saved |-> saved]
           q == [p EXCEPT !.pc = "publish", !.entry = e]
<1>1. caller' = [caller EXCEPT ![c] = q] /\ caller \in [Callers -> Call]
      /\ checkpoints' = checkpoints \cup {d}
    BY DEF Imported, Checkpoint, IInv, TypeOK
<1>2. /\ p \in Call /\ p.request \in Request /\ p.request.op = "open" /\ p.base = 0
      /\ p.base \in 0 .. Len(journal) /\ p.base < MaxEntries
    BY <1>1 DEF IInv, ProposalInv
<1>3. << >> \in Seq(1 .. MaxEntries)
    BY EmptySeq
<1>4. e \in Entry
    BY <1>2, <1>3 DEF Entry
<1>5. /\ e.request = p.request /\ e.after = d /\ e.undo = << >> /\ e.redo = << >>
    OBVIOUS
<1>6. q.pc = "publish" /\ q.request = p.request /\ q.base = 0 /\ q.entry = e /\ q \in Call
    BY <1>2, <1>4 DEF Call
<1> HIDE DEF q, e
<1>7. Len(journal) = 0 => NextEntry(e)
  <2> SUFFICES ASSUME Len(journal) = 0 PROVE NextEntry(e)
    OBVIOUS
  <2>1. journal = << >>
    BY EmptySeq DEF IInv, TypeOK
  <2> QED
    BY <1>2, <1>5, <2>1 DEF NextEntry, IdRecorded
<1>8. TypeOK'
    BY <1>1, <1>6 DEF IInv, TypeOK
<1>9. /\ \A x : NextEntry(x)' <=> NextEntry(x)
      /\ \A x : Named(x)' <=> Named(x)
    BY DEF NextEntry, IdRecorded, HeadEntry, Edits, Undoes, Redoes, Keeps, Branches, Named
<1>10. ProposalInv'
  <2> SUFFICES ASSUME NEW b \in Callers, caller'[b].pc # "idle"
               PROVE  LET x == caller'[b] IN
                        /\ x.request \in Request
                        /\ x.base \in 0 .. Len(journal) /\ x.base < MaxEntries
                        /\ x.pc = "import" => x.request.op = "open" /\ x.base = 0
                        /\ x.pc \in {"saving", "publish"} =>
                             /\ x.entry \in Entry /\ x.entry.request = x.request
                             /\ x.base = Len(journal) => NextEntry(x.entry)
                        /\ x.pc = "saving" => x.request.op = "save"
                        /\ x.pc = "publish" =>
                             /\ x.entry.after \in checkpoints'
                             /\ x.request.op = "save" => Named(x.entry)
    BY <1>9 DEF ProposalInv
  <2>1. CASE b = c
    BY <1>1, <1>2, <1>4, <1>5, <1>6, <1>7, <2>1
  <2>2. CASE b # c
    BY <1>1, <2>2 DEF IInv, ProposalInv
  <2> QED
    BY <2>1, <2>2
<1>11. StackInv' /\ JournalInv' /\ NoDuplicateRevision'
    BY <1>1 DEF IInv, StackInv, JournalInv, DecidedOnItsParent, RequestOnce, JournalReadable,
                SavedIsPublished, NoDuplicateRevision, HeadEntry
<1> QED
    BY <1>8, <1>10, <1>11 DEF IInv

LEMMA ImportInv ==
    ASSUME IInv, NEW c \in Callers, Import(c)
    PROVE  IInv'
<1> USE HistoryAssumption
<1>1. caller[c].pc = "import" /\ UNCHANGED <<journal, native>>
    BY DEF Import
<1>2. CASE native # << >> /\ Imported(c, Last(native).doc, Last(native).revision)
  <2> DEFINE Revision == [revision : Nat, doc : Docs]
  <2>1. native \in Seq(Revision)
    BY DEF IInv, TypeOK
  <2>2. Last(native) \in Revision
    <3> HIDE DEF Revision
    <3> QED
        BY <1>2, <2>1, FrontFacts
  <2>3. Last(native).doc \in Docs /\ Last(native).revision \in Nat
    BY <2>2
  <2> QED
    BY <1>1, <1>2, <2>3, ImportedInv
<1>3. CASE \E d \in Docs, revision \in LegacyRevisions \ {0} : Imported(c, d, revision)
    BY <1>1, <1>3, ImportedInv
<1>4. CASE Reply(c)
    BY <1>1, <1>4, ReplyInv
<1> QED
    BY <1>2, <1>3, <1>4 DEF Import

-------------------------------------------------------------------------------
(* Publication *)

\* Entry e, which may stand next, is published.
Published(e) ==
    /\ journal' = Append(journal, e) /\ e \in Entry /\ NextEntry(e)
    /\ Len(journal) < MaxEntries /\ e.after \in checkpoints
    /\ e.request.op = "save" => Named(e)
    /\ UNCHANGED <<checkpoints, native>>

\* A publication fails, or puts an entry that may stand there behind the head.
LEMMA PublishCases ==
    ASSUME IInv, NEW c \in Callers, Publish(c)
    PROVE  /\ Reply(c) /\ native' = native
           /\ journal' = journal \/ \E e : Published(e)
BY DEF Publish, Reply, IInv, ProposalInv, Published

LEMMA JournalAfter ==
    ASSUME IInv, NEW e, Published(e)
    PROVE  /\ journal \in Seq(Entry) /\ journal' \in Seq(Entry) /\ journal' # << >>
           /\ Len(journal) \in Nat /\ Len(journal') = Len(journal) + 1
           /\ DOMAIN journal = 1 .. Len(journal) /\ DOMAIN journal' = 1 .. Len(journal')
           /\ \A i \in 1 .. Len(journal) : journal'[i] = journal[i] /\ journal[i] \in Entry
           /\ journal'[Len(journal')] = e /\ HeadEntry' = e
<1>1. journal \in Seq(Entry) /\ e \in Entry /\ journal' = Append(journal, e)
    BY DEF IInv, TypeOK, Published
<1>2. \A i \in 1 .. Len(journal) : journal[i] \in Entry
    BY <1>1, ElementOfSeq
<1> QED
    BY <1>1, <1>2, AppendFacts DEF HeadEntry

LEMMA EmptyChain ==
    ASSUME NEW J, NEW d
    PROVE  UndoChain(J, << >>, d) /\ RedoChain(J, << >>, d)
BY DEF UndoChain, RedoChain

\* Entries that come later do not change where the stacks lead.
LEMMA ChainStays ==
    ASSUME NEW S, NEW J \in Seq(S), NEW e \in S, NEW u, NEW d
    PROVE  /\ UndoChain(J, u, d) => UndoChain(Append(J, e), u, d)
           /\ RedoChain(J, u, d) => RedoChain(Append(J, e), u, d)
<1>1. /\ Len(J) \in Nat /\ Len(Append(J, e)) = Len(J) + 1
      /\ \A i \in 1 .. Len(J) : Append(J, e)[i] = J[i]
    BY AppendFacts
<1>2. ASSUME u \in Seq(1 .. Len(J))
      PROVE  /\ u \in Seq(1 .. (Len(J) + 1)) /\ Len(u) \in Nat
             /\ \A k \in 1 .. Len(u) : u[k] \in 1 .. Len(J)
    BY <1>1, <1>2, SeqMonotonic, ElementOfSeq
<1> QED
    BY <1>1, <1>2 DEF UndoChain, RedoChain

\* An entry that leads from the document d is put on a stack.
LEMMA PushChain ==
    ASSUME NEW J, NEW u, NEW d, NEW x \in 1 .. Len(J)
    PROVE  /\ UndoChain(J, u, d) /\ J[x].before = d => UndoChain(J, Append(u, x), J[x].after)
           /\ RedoChain(J, u, d) /\ J[x].after = d => RedoChain(J, Append(u, x), J[x].before)
<1>1. ASSUME u \in Seq(1 .. Len(J))
      PROVE  /\ Append(u, x) \in Seq(1 .. Len(J)) /\ Len(Append(u, x)) = Len(u) + 1
             /\ Len(u) \in Nat /\ Append(u, x)[Len(u) + 1] = x
             /\ \A k \in 1 .. Len(u) : Append(u, x)[k] = u[k]
    BY <1>1, AppendFacts
<1>2. ASSUME UndoChain(J, u, d), J[x].before = d
      PROVE  UndoChain(J, Append(u, x), J[x].after)
  <2> DEFINE v == Append(u, x)
  <2>1. /\ v \in Seq(1 .. Len(J)) /\ Len(v) = Len(u) + 1 /\ Len(u) \in Nat
        /\ v[Len(u) + 1] = x /\ \A k \in 1 .. Len(u) : v[k] = u[k]
    BY <1>1, <1>2 DEF UndoChain
  <2>2. \A k \in 1 .. Len(u) : J[u[k]].after = IF k = Len(u) THEN d ELSE J[u[k + 1]].before
    BY <1>2 DEF UndoChain
  <2> HIDE DEF v
  <2>3. ASSUME NEW k \in 1 .. Len(v)
        PROVE  J[v[k]].after = IF k = Len(v) THEN J[x].after ELSE J[v[k + 1]].before
    <3>1. CASE k = Len(v)
        BY <2>1, <3>1
    <3>2. CASE k = Len(u)
        BY <2>1, <2>2, <3>2, <1>2
    <3>3. CASE k < Len(u)
      <4>1. k \in 1 .. Len(u) /\ k + 1 \in 1 .. Len(u) /\ k # Len(v) /\ k # Len(u)
        BY <2>1, <3>3
      <4> QED
        BY <2>1, <2>2, <4>1
    <3> QED
        BY <2>1, <3>1, <3>2, <3>3
  <2> QED
    BY <2>1, <2>3 DEF UndoChain, v
<1>3. ASSUME RedoChain(J, u, d), J[x].after = d
      PROVE  RedoChain(J, Append(u, x), J[x].before)
  <2> DEFINE v == Append(u, x)
  <2>1. /\ v \in Seq(1 .. Len(J)) /\ Len(v) = Len(u) + 1 /\ Len(u) \in Nat
        /\ v[Len(u) + 1] = x /\ \A k \in 1 .. Len(u) : v[k] = u[k]
    BY <1>1, <1>3 DEF RedoChain
  <2>2. \A k \in 1 .. Len(u) : J[u[k]].before = IF k = Len(u) THEN d ELSE J[u[k + 1]].after
    BY <1>3 DEF RedoChain
  <2> HIDE DEF v
  <2>3. ASSUME NEW k \in 1 .. Len(v)
        PROVE  J[v[k]].before = IF k = Len(v) THEN J[x].before ELSE J[v[k + 1]].after
    <3>1. CASE k = Len(v)
        BY <2>1, <3>1
    <3>2. CASE k = Len(u)
        BY <2>1, <2>2, <3>2, <1>3
    <3>3. CASE k < Len(u)
      <4>1. k \in 1 .. Len(u) /\ k + 1 \in 1 .. Len(u) /\ k # Len(v) /\ k # Len(u)
        BY <2>1, <3>3
      <4> QED
        BY <2>1, <2>2, <4>1
    <3> QED
        BY <2>1, <3>1, <3>2, <3>3
  <2> QED
    BY <2>1, <2>3 DEF RedoChain, v
<1> QED
    BY <1>2, <1>3

\* The top of a stack is taken, and the document becomes what it leads to.
LEMMA PopChain ==
    ASSUME NEW J, NEW u, u # << >>, NEW d
    PROVE  /\ UndoChain(J, u, d) => UndoChain(J, Front(u), J[Last(u)].before)
           /\ RedoChain(J, u, d) => RedoChain(J, Front(u), J[Last(u)].after)
<1>1. ASSUME u \in Seq(1 .. Len(J))
      PROVE  /\ Front(u) \in Seq(1 .. Len(J)) /\ Len(Front(u)) = Len(u) - 1
             /\ Len(u) \in Nat /\ Len(u) > 0 /\ Last(u) = u[Len(u)]
             /\ \A k \in 1 .. (Len(u) - 1) : Front(u)[k] = u[k]
    BY <1>1, FrontFacts
<1>2. ASSUME UndoChain(J, u, d)
      PROVE  UndoChain(J, Front(u), J[Last(u)].before)
  <2> DEFINE v == Front(u)
  <2>1. /\ v \in Seq(1 .. Len(J)) /\ Len(v) = Len(u) - 1 /\ Len(u) \in Nat /\ Len(u) > 0
        /\ Last(u) = u[Len(u)] /\ \A k \in 1 .. (Len(u) - 1) : v[k] = u[k]
    BY <1>1, <1>2 DEF UndoChain
  <2>2. \A k \in 1 .. Len(u) : J[u[k]].after = IF k = Len(u) THEN d ELSE J[u[k + 1]].before
    BY <1>2 DEF UndoChain
  <2> HIDE DEF v
  <2>3. ASSUME NEW k \in 1 .. Len(v)
        PROVE  J[v[k]].after = IF k = Len(v) THEN J[Last(u)].before ELSE J[v[k + 1]].before
    <3>1. k \in 1 .. Len(u) /\ k # Len(u) /\ v[k] = u[k] /\ J[u[k]].after = J[u[k + 1]].before
        BY <2>1, <2>2
    <3>2. CASE k = Len(v)
        BY <2>1, <3>1, <3>2
    <3>3. CASE k < Len(v)
        BY <2>1, <3>1, <3>3, SMTT(30)
    <3> QED
        BY <2>1, <3>2, <3>3
  <2> QED
    BY <2>1, <2>3 DEF UndoChain, v
<1>3. ASSUME RedoChain(J, u, d)
      PROVE  RedoChain(J, Front(u), J[Last(u)].after)
  <2> DEFINE v == Front(u)
  <2>1. /\ v \in Seq(1 .. Len(J)) /\ Len(v) = Len(u) - 1 /\ Len(u) \in Nat /\ Len(u) > 0
        /\ Last(u) = u[Len(u)] /\ \A k \in 1 .. (Len(u) - 1) : v[k] = u[k]
    BY <1>1, <1>3 DEF RedoChain
  <2>2. \A k \in 1 .. Len(u) : J[u[k]].before = IF k = Len(u) THEN d ELSE J[u[k + 1]].after
    BY <1>3 DEF RedoChain
  <2> HIDE DEF v
  <2>3. ASSUME NEW k \in 1 .. Len(v)
        PROVE  J[v[k]].before = IF k = Len(v) THEN J[Last(u)].after ELSE J[v[k + 1]].after
    <3>1. k \in 1 .. Len(u) /\ k # Len(u) /\ v[k] = u[k] /\ J[u[k]].before = J[u[k + 1]].after
        BY <2>1, <2>2
    <3>2. CASE k = Len(v)
        BY <2>1, <3>1, <3>2
    <3>3. CASE k < Len(v)
        BY <2>1, <3>1, <3>3, SMTT(30)
    <3> QED
        BY <2>1, <3>2, <3>3
  <2> QED
    BY <2>1, <2>3 DEF RedoChain, v
<1> QED
    BY <1>2, <1>3

\* The stacks of a published entry lead from its document.
LEMMA PublishedStacks ==
    ASSUME IInv, NEW e, Published(e)
    PROVE  StackInv'
<1> DEFINE n == Len(journal)
           H == HeadEntry
<1>1. /\ journal \in Seq(Entry) /\ e \in Entry /\ n \in Nat /\ Len(journal') = n + 1
      /\ journal' = Append(journal, e) /\ journal'[n + 1] = e /\ HeadEntry' = e
      /\ \A i \in 1 .. n : journal'[i] = journal[i]
    BY JournalAfter DEF Published
<1>2. SUFFICES UndoChain(journal', e.undo, e.after) /\ RedoChain(journal', e.redo, e.after)
    BY <1>1 DEF StackInv
<1>3. CASE journal = << >> \/ Branches(e)
    BY <1>3, EmptyChain DEF Published, NextEntry, Branches
<1>4. CASE journal # << >> /\ ~ Branches(e)
  <2>1. /\ UndoChain(journal, H.undo, H.after) /\ RedoChain(journal, H.redo, H.after)
        /\ UndoChain(journal', H.undo, H.after) /\ RedoChain(journal', H.redo, H.after)
    BY <1>1, <1>4, ChainStays DEF IInv, StackInv
  <2>2. e.before = H.after
    BY <1>4 DEF Published, NextEntry
  <2>3. CASE Edits(e)
    <3>1. n + 1 \in 1 .. Len(journal')
        BY <1>1
    <3>2. UndoChain(journal', Append(H.undo, n + 1), journal'[n + 1].after)
        BY <1>1, <2>1, <2>2, <3>1, PushChain
    <3> QED
        BY <1>1, <2>3, <3>2, EmptyChain DEF Edits
  <2>4. CASE Undoes(e)
    <3> DEFINE x == Last(H.undo)
    <3>1. x \in 1 .. n
        BY <1>4, <2>4, StackFacts DEF Undoes
    <3>2. x \in 1 .. Len(journal') /\ journal'[x] = journal[x]
        BY <1>1, <3>1
    <3>3. UndoChain(journal', Front(H.undo), journal'[x].before)
        BY <2>1, <2>4, PopChain DEF Undoes
    <3>4. RedoChain(journal', Append(H.redo, x), journal'[x].before)
        BY <2>1, <2>4, <3>2, PushChain DEF Undoes
    <3> QED
        BY <2>4, <3>2, <3>3, <3>4 DEF Undoes
  <2>5. CASE Redoes(e)
    <3> DEFINE x == Last(H.redo)
    <3>1. x \in 1 .. n
        BY <1>4, <2>5, StackFacts DEF Redoes
    <3>2. x \in 1 .. Len(journal') /\ journal'[x] = journal[x]
        BY <1>1, <3>1
    <3>3. RedoChain(journal', Front(H.redo), journal'[x].after)
        BY <2>1, <2>5, PopChain DEF Redoes
    <3>4. UndoChain(journal', Append(H.undo, x), journal'[x].after)
        BY <2>1, <2>5, <3>2, PushChain DEF Redoes
    <3> QED
        BY <2>5, <3>2, <3>3, <3>4 DEF Redoes
  <2>6. CASE Keeps(e)
    BY <2>1, <2>6 DEF Keeps
  <2> QED
    BY <1>4, <2>3, <2>4, <2>5, <2>6 DEF Published, NextEntry
<1> QED
    BY <1>3, <1>4

\* The journal with a published entry behind its head.
LEMMA PublishedJournal ==
    ASSUME IInv, NEW e, Published(e)
    PROVE  JournalInv'
<1> USE HistoryAssumption
<1> DEFINE n == Len(journal)
<1>1. /\ n \in Nat /\ Len(journal') = n + 1 /\ n < MaxEntries
      /\ DOMAIN journal = 1 .. n /\ DOMAIN journal' = 1 .. (n + 1)
      /\ \A i \in 1 .. n : journal'[i] = journal[i]
      /\ journal'[n + 1] = e
      /\ checkpoints' = checkpoints /\ native' = native
    BY JournalAfter DEF Published
<1>2. /\ DecidedOnItsParent /\ RequestOnce /\ JournalReadable /\ SavedIsPublished
    BY DEF IInv, JournalInv
<1>3. /\ \A i \in 1 .. n : journal[i].request.id # e.request.id
      /\ e.request.op \notin {"start", "open"} => e.request.head = n
      /\ n > 0 => e.before = journal[n].after
      /\ e.after \in checkpoints
    BY <1>1, EmptySeq DEF Published, NextEntry, IdRecorded, HeadEntry, Last
<1>4. DecidedOnItsParent'
    BY <1>1, <1>2, <1>3 DEF DecidedOnItsParent
<1>5. RequestOnce'
    BY <1>1, <1>2, <1>3 DEF RequestOnce
<1>6. JournalReadable'
  <2> SUFFICES ASSUME NEW i \in 1 .. (n + 1)
               PROVE  /\ journal'[i].after \in checkpoints
                      /\ i > 1 => journal'[i].before = journal'[i - 1].after
    BY <1>1 DEF JournalReadable
  <2>1. CASE i = n + 1
    <3>1. i > 1 => n \in 1 .. n /\ i - 1 = n
        BY <1>1, <2>1
    <3> QED
        BY <1>1, <1>3, <2>1, <3>1
  <2>2. CASE i \in 1 .. n
    BY <1>1, <1>2, <2>2 DEF JournalReadable
  <2> QED
    BY <1>1, <2>1, <2>2
<1>7. SavedIsPublished'
    BY <1>1, <1>2 DEF SavedIsPublished, Published, Named
<1> QED
    BY <1>1, <1>4, <1>5, <1>6, <1>7 DEF JournalInv

LEMMA PublishInv ==
    ASSUME IInv, NEW c \in Callers, Publish(c)
    PROVE  IInv'
<1>1. Reply(c) /\ native' = native
    BY PublishCases
<1>2. CASE journal' = journal
    BY <1>1, <1>2, ReplyInv
<1>3. ASSUME NEW e, Published(e)
      PROVE  IInv'
  <2>1. TypeOK'
    BY <1>1, <1>3, JournalAfter, HistoryAssumption DEF IInv, TypeOK, Call, Idle, Reply
  <2>2. ProposalInv'
    <3> SUFFICES ASSUME NEW b \in Callers, caller'[b].pc # "idle"
                 PROVE  /\ caller'[b] = caller[b] /\ caller[b].pc # "idle"
                        /\ caller[b].base \in 0 .. Len(journal')
                        /\ caller[b].base # Len(journal')
      BY <1>1, <1>3 DEF IInv, ProposalInv, Reply, Named
    <3>1. b # c /\ caller'[b] = caller[b]
      BY <1>1 DEF IInv, TypeOK, Reply, Idle
    <3> QED
      BY <1>3, <3>1, JournalAfter DEF IInv, ProposalInv
  <2>3. NoDuplicateRevision'
    BY <1>1 DEF IInv, NoDuplicateRevision
  <2> QED
    BY <1>3, <2>1, <2>2, <2>3, PublishedStacks, PublishedJournal DEF IInv
<1> QED
    BY <1>2, <1>3, PublishCases

LEMMA NextInv == IInv /\ [Next]_vars => IInv'
<1> SUFFICES ASSUME IInv, [Next]_vars PROVE IInv'
    OBVIOUS
<1>1. CASE UNCHANGED vars
    BY <1>1 DEF vars, IInv, TypeOK, ProposalInv, StackInv, JournalInv, DecidedOnItsParent,
           RequestOnce, JournalReadable, SavedIsPublished, NoDuplicateRevision, NextEntry,
           IdRecorded, HeadEntry, Edits, Undoes, Redoes, Keeps, Branches, Named
<1>2. ASSUME NEW c \in Callers, CallStep(c)
      PROVE  IInv'
  <2>1. CASE \E r \in Requests : Dispatch(c, r)
    BY <2>1, DispatchInv
  <2>2. CASE Import(c)
    BY <2>2, ImportInv
  <2>3. CASE SaveNative(c)
    BY <2>3, SaveNativeInv
  <2>4. CASE Publish(c)
    BY <2>4, PublishInv
  <2>5. CASE Fails(c)
    BY <2>5, ReplyInv DEF Fails
  <2> QED
    BY <1>2, <2>1, <2>2, <2>3, <2>4, <2>5 DEF CallStep
<1>3. ASSUME NEW d \in Docs, SaveOutside(d)
      PROVE  IInv'
    BY <1>3, SaveOutsideInv
<1> QED
    BY <1>1, <1>2, <1>3 DEF Next

\* Every reachable history satisfies the invariant, which says of each thread inside
\* dispatch that its decision is right unless the journal has moved on.
THEOREM Invariant == Spec => []IInv
BY InitInv, NextInv, PTL DEF Spec

\* The values of all variables of a history.
THEOREM TypeCorrect == Spec => []TypeOK
<1>1. IInv => TypeOK
    BY DEF IInv
<1> QED
    BY <1>1, Invariant, PTL

\* No update is lost, however many callers read, compare and extend the journal at once.
THEOREM NoLostUpdate == Spec => []DecidedOnItsParent
<1>1. IInv => DecidedOnItsParent
    BY DEF IInv, JournalInv
<1> QED
    BY <1>1, Invariant, PTL

\* No request id acts twice on a draft, repeated at any time by any thread.
THEOREM RequestsActOnce == Spec => []RequestOnce
<1>1. IInv => RequestOnce
    BY DEF IInv, JournalInv
<1> QED
    BY <1>1, Invariant, PTL

\* Every journal that callers, failures and deaths leave is accepted by entries().
THEOREM JournalStaysReadable == Spec => []JournalReadable
<1>1. IInv => JournalReadable
    BY DEF IInv, JournalInv
<1> QED
    BY <1>1, Invariant, PTL

\* Undo and redo never meet UNDO_CONFLICT on a history that the service wrote.
THEOREM ReversalsAlwaysFit == Spec => []ReversalsFit
<1>1. IInv => ReversalsFit
  <2> SUFFICES ASSUME IInv, journal # << >>
               PROVE  /\ HeadEntry.undo # << >> =>
                           journal[Last(HeadEntry.undo)].after = HeadEntry.after
                      /\ HeadEntry.redo # << >> =>
                           journal[Last(HeadEntry.redo)].before = HeadEntry.after
    BY DEF ReversalsFit
  <2>1. UndoChain(journal, HeadEntry.undo, HeadEntry.after)
        /\ RedoChain(journal, HeadEntry.redo, HeadEntry.after)
    BY DEF IInv, StackInv
  <2>2. \A u \in Seq(1 .. Len(journal)) : u # << >> =>
          Len(u) \in 1 .. Len(u) /\ Last(u) = u[Len(u)]
    BY DEF Last
  <2> QED
    BY <2>1, <2>2 DEF UndoChain, RedoChain
<1> QED
    BY <1>1, Invariant, PTL

\* A saved version names a native revision with its document.
THEOREM SavesAreNamed == Spec => []SavedIsPublished
<1>1. IInv => SavedIsPublished
    BY DEF IInv, JournalInv
<1> QED
    BY <1>1, Invariant, PTL

\* Native revisions are numbered without gaps, and no two in a row are the same document.
THEOREM RevisionsDiffer == Spec => []NoDuplicateRevision
<1>1. IInv => NoDuplicateRevision
    BY DEF IInv
<1> QED
    BY <1>1, Invariant, PTL

\* Only Publish writes the journal.
LEMMA OnlyPublish ==
    ASSUME IInv, [Next]_vars
    PROVE  journal' = journal \/ \E e : Published(e)
<1>1. CASE UNCHANGED vars
    BY <1>1 DEF vars
<1>2. ASSUME NEW c \in Callers, CallStep(c), ~ Publish(c)
      PROVE  journal' = journal
    BY <1>2 DEF CallStep, Dispatch, Import, SaveNative, Fails
<1>3. ASSUME NEW c \in Callers, Publish(c)
      PROVE  journal' = journal \/ \E e : Published(e)
    BY <1>3, PublishCases
<1>4. ASSUME NEW d \in Docs, SaveOutside(d)
      PROVE  journal' = journal
    BY <1>4 DEF SaveOutside
<1> QED
    BY <1>1, <1>2, <1>3, <1>4 DEF Next

\* What was published is never lost, replaced or reordered.
THEOREM PublishedIsKept == Spec => PublishedStays
<1>1. IInv /\ [Next]_vars => [IsPrefix(journal, journal')]_journal
  <2> SUFFICES ASSUME IInv, [Next]_vars, NEW e, Published(e)
               PROVE  IsPrefix(journal, journal')
    BY OnlyPublish
  <2>1. journal \in Seq(Entry) /\ e \in Entry /\ journal' = Append(journal, e)
    BY DEF IInv, TypeOK, Published
  <2> QED
    BY <2>1, PrefixOfAppend
<1> QED
    BY <1>1, Invariant, PTL DEF Spec, PublishedStays

-------------------------------------------------------------------------------
(* Refinement of UndoEditor *)

\* The documents that a stack leads through.
Past(J, u) == [k \in DOMAIN u |-> J[u[k]].before]
Future(J, u) == [k \in DOMAIN u |-> J[u[k]].after]

LEMMA WalkType ==
    ASSUME NEW J \in Seq(Entry), NEW u \in Seq(1 .. Len(J))
    PROVE  /\ Past(J, u) \in Seq(Docs) /\ Future(J, u) \in Seq(Docs)
           /\ Len(Past(J, u)) = Len(u) /\ Len(Future(J, u)) = Len(u) /\ Len(u) \in Nat
           /\ \A k \in 1 .. Len(u) :
                /\ u[k] \in 1 .. Len(J)
                /\ Past(J, u)[k] = J[u[k]].before /\ Future(J, u)[k] = J[u[k]].after
<1>1. Len(u) \in Nat /\ DOMAIN u = 1 .. Len(u)
    BY LenProperties
<1>2. \A k \in 1 .. Len(u) : u[k] \in 1 .. Len(J)
    BY ElementOfSeq
<1>3. \A i \in 1 .. Len(J) : J[i] \in Entry
    BY ElementOfSeq
<1>4. \A k \in 1 .. Len(u) : J[u[k]].before \in Docs /\ J[u[k]].after \in Docs
    BY <1>2, <1>3 DEF Entry
<1>5. Past(J, u) = [k \in 1 .. Len(u) |-> J[u[k]].before]
      /\ Future(J, u) = [k \in 1 .. Len(u) |-> J[u[k]].after]
    BY <1>1 DEF Past, Future
<1> QED
    BY <1>1, <1>2, <1>4, <1>5

LEMMA WalkEmpty ==
    ASSUME NEW J
    PROVE  Past(J, << >>) = << >> /\ Future(J, << >>) = << >>
BY DEF Past, Future

\* Later entries do not change it.
LEMMA WalkStays ==
    ASSUME NEW J \in Seq(Entry), NEW e \in Entry, NEW u \in Seq(1 .. Len(J))
    PROVE  Past(Append(J, e), u) = Past(J, u) /\ Future(Append(J, e), u) = Future(J, u)
<1>1. DOMAIN u = 1 .. Len(u) /\ \A k \in 1 .. Len(u) : u[k] \in 1 .. Len(J)
    BY LenProperties, ElementOfSeq
<1>2. \A i \in 1 .. Len(J) : Append(J, e)[i] = J[i]
    BY AppendFacts
<1>3. \A k \in DOMAIN u : Append(J, e)[u[k]] = J[u[k]]
    BY <1>1, <1>2
<1> QED
    BY <1>3 DEF Past, Future

LEMMA WalkPush ==
    ASSUME NEW J \in Seq(Entry), NEW u \in Seq(1 .. Len(J)), NEW x \in 1 .. Len(J)
    PROVE  /\ Past(J, Append(u, x)) = Append(Past(J, u), J[x].before)
           /\ Future(J, Append(u, x)) = Append(Future(J, u), J[x].after)
<1> DEFINE v == Append(u, x)
<1>1. /\ v \in Seq(1 .. Len(J)) /\ Len(v) = Len(u) + 1 /\ Len(u) \in Nat
      /\ v[Len(u) + 1] = x /\ \A k \in 1 .. Len(u) : v[k] = u[k]
    BY AppendFacts
<1> HIDE DEF v
<1>2. J[x].before \in Docs /\ J[x].after \in Docs
  <2>1. J[x] \in Entry
    BY ElementOfSeq
  <2> QED
    BY <2>1 DEF Entry
<1>3. \A S, s, d : s \in Seq(S) /\ d \in S =>
        /\ Append(s, d) \in Seq(S) /\ Len(Append(s, d)) = Len(s) + 1
        /\ Append(s, d)[Len(s) + 1] = d
        /\ \A k \in 1 .. Len(s) : Append(s, d)[k] = s[k]
    BY AppendFacts
<1>4. Past(J, v) = Append(Past(J, u), J[x].before)
  <2> DEFINE w == Append(Past(J, u), J[x].before)
  <2>1. /\ w \in Seq(Docs) /\ Len(w) = Len(u) + 1 /\ w[Len(u) + 1] = J[x].before
        /\ \A k \in 1 .. Len(u) : w[k] = J[u[k]].before
    BY <1>2, <1>3, WalkType
  <2>2. /\ Past(J, v) \in Seq(Docs) /\ Len(Past(J, v)) = Len(u) + 1
        /\ \A k \in 1 .. Len(u) + 1 : Past(J, v)[k] = J[v[k]].before
    BY <1>1, WalkType
  <2> HIDE DEF w
  <2>3. \A k \in 1 .. Len(u) + 1 : Past(J, v)[k] = w[k]
    <3> SUFFICES ASSUME NEW k \in 1 .. Len(u) + 1 PROVE Past(J, v)[k] = w[k]
        OBVIOUS
    <3>1. CASE k = Len(u) + 1
        BY <1>1, <2>1, <2>2, <3>1
    <3>2. CASE k \in 1 .. Len(u)
        BY <1>1, <2>1, <2>2, <3>2
    <3> QED
        BY <1>1, <3>1, <3>2
  <2> QED
    BY <2>1, <2>2, <2>3, SeqEqual DEF w
<1>5. Future(J, v) = Append(Future(J, u), J[x].after)
  <2> DEFINE w == Append(Future(J, u), J[x].after)
  <2>1. /\ w \in Seq(Docs) /\ Len(w) = Len(u) + 1 /\ w[Len(u) + 1] = J[x].after
        /\ \A k \in 1 .. Len(u) : w[k] = J[u[k]].after
    BY <1>2, <1>3, WalkType
  <2>2. /\ Future(J, v) \in Seq(Docs) /\ Len(Future(J, v)) = Len(u) + 1
        /\ \A k \in 1 .. Len(u) + 1 : Future(J, v)[k] = J[v[k]].after
    BY <1>1, WalkType
  <2> HIDE DEF w
  <2>3. \A k \in 1 .. Len(u) + 1 : Future(J, v)[k] = w[k]
    <3> SUFFICES ASSUME NEW k \in 1 .. Len(u) + 1 PROVE Future(J, v)[k] = w[k]
        OBVIOUS
    <3>1. CASE k = Len(u) + 1
        BY <1>1, <2>1, <2>2, <3>1
    <3>2. CASE k \in 1 .. Len(u)
        BY <1>1, <2>1, <2>2, <3>2
    <3> QED
        BY <1>1, <3>1, <3>2
  <2> QED
    BY <2>1, <2>2, <2>3, SeqEqual DEF w
<1> QED
    BY <1>4, <1>5 DEF v

LEMMA WalkPop ==
    ASSUME NEW J \in Seq(Entry), NEW u \in Seq(1 .. Len(J)), u # << >>
    PROVE  /\ Past(J, u) # << >> /\ Last(Past(J, u)) = J[Last(u)].before
           /\ Past(J, Front(u)) = Front(Past(J, u))
           /\ Future(J, u) # << >> /\ Last(Future(J, u)) = J[Last(u)].after
           /\ Future(J, Front(u)) = Front(Future(J, u))
<1> DEFINE v == Front(u)
<1>1. /\ v \in Seq(1 .. Len(J)) /\ Len(v) = Len(u) - 1 /\ Len(u) \in Nat /\ Len(u) > 0
      /\ Last(u) = u[Len(u)] /\ \A k \in 1 .. (Len(u) - 1) : v[k] = u[k]
    BY FrontFacts
<1> HIDE DEF v
<1>2. ASSUME NEW s \in Seq(Docs), Len(s) = Len(u)
      PROVE  /\ s # << >> /\ Last(s) = s[Len(u)]
             /\ Front(s) \in Seq(Docs) /\ Len(Front(s)) = Len(v)
             /\ \A k \in 1 .. Len(v) : Front(s)[k] = s[k]
  <2>1. s # << >>
    BY <1>1, <1>2
  <2>2. /\ Last(s) = s[Len(s)] /\ Front(s) \in Seq(Docs) /\ Len(Front(s)) = Len(s) - 1
        /\ \A i \in 1 .. (Len(s) - 1) : Front(s)[i] = s[i]
    BY <2>1, FrontFacts
  <2> QED
    BY <1>1, <1>2, <2>1, <2>2
<1>3. /\ Past(J, u) \in Seq(Docs) /\ Len(Past(J, u)) = Len(u)
      /\ Future(J, u) \in Seq(Docs) /\ Len(Future(J, u)) = Len(u)
      /\ \A k \in 1 .. Len(u) :
           Past(J, u)[k] = J[u[k]].before /\ Future(J, u)[k] = J[u[k]].after
    BY WalkType
<1>4. /\ Past(J, v) \in Seq(Docs) /\ Len(Past(J, v)) = Len(v)
      /\ Future(J, v) \in Seq(Docs) /\ Len(Future(J, v)) = Len(v)
      /\ \A k \in 1 .. Len(v) :
           Past(J, v)[k] = J[v[k]].before /\ Future(J, v)[k] = J[v[k]].after
    BY <1>1, WalkType
<1>5. \A k \in 1 .. Len(v) : k \in 1 .. Len(u) /\ v[k] = u[k]
    BY <1>1
<1>6. Past(J, v) = Front(Past(J, u))
  <2>1. /\ Front(Past(J, u)) \in Seq(Docs) /\ Len(Front(Past(J, u))) = Len(v)
        /\ \A k \in 1 .. Len(v) : Front(Past(J, u))[k] = Past(J, u)[k]
    BY <1>2, <1>3
  <2>2. \A k \in 1 .. Len(v) : Past(J, v)[k] = Front(Past(J, u))[k]
    BY <1>3, <1>4, <1>5, <2>1
  <2> QED
    BY <1>4, <2>1, <2>2, SeqEqual
<1>7. Future(J, v) = Front(Future(J, u))
  <2>1. /\ Front(Future(J, u)) \in Seq(Docs) /\ Len(Front(Future(J, u))) = Len(v)
        /\ \A k \in 1 .. Len(v) : Front(Future(J, u))[k] = Future(J, u)[k]
    BY <1>2, <1>3
  <2>2. \A k \in 1 .. Len(v) : Future(J, v)[k] = Front(Future(J, u))[k]
    BY <1>3, <1>4, <1>5, <2>1
  <2> QED
    BY <1>4, <2>1, <2>2, SeqEqual
<1>8. /\ Past(J, u) # << >> /\ Last(Past(J, u)) = J[Last(u)].before
      /\ Future(J, u) # << >> /\ Last(Future(J, u)) = J[Last(u)].after
  <2>1. Len(u) \in 1 .. Len(u)
    BY <1>1
  <2>2. /\ Past(J, u) # << >> /\ Last(Past(J, u)) = Past(J, u)[Len(u)]
        /\ Future(J, u) # << >> /\ Last(Future(J, u)) = Future(J, u)[Len(u)]
    BY <1>2, <1>3
  <2> QED
    BY <1>1, <1>3, <2>1, <2>2
<1> QED
    BY <1>6, <1>7, <1>8 DEF v

\* What an editor sees before and after entry e is published.
LEMMA EditorView ==
    ASSUME IInv, NEW e, Published(e)
    PROVE  /\ HeadDoc' = e.after /\ e.after \in Docs /\ SeenDocs' = SeenDocs \cup {e.after}
           /\ PastDocs' = Past(journal', e.undo) /\ FutureDocs' = Future(journal', e.redo)
           /\ journal = << >> =>
                HeadDoc = NoDoc /\ PastDocs = << >> /\ FutureDocs = << >>
           /\ journal # << >> =>
                /\ HeadDoc = HeadEntry.after /\ HeadDoc \in Docs
                /\ PastDocs = Past(journal, HeadEntry.undo)
                /\ FutureDocs = Future(journal, HeadEntry.redo)
<1>1. journal' # << >> /\ HeadEntry' = e /\ e \in Entry
    BY JournalAfter DEF Published
<1>2. HeadDoc' = e.after /\ e.after \in Docs
    BY <1>1 DEF HeadDoc, Entry
<1>3. SeenDocs' = SeenDocs \cup {e.after}
  <2>1. /\ Len(journal) \in Nat /\ DOMAIN journal = 1 .. Len(journal)
        /\ DOMAIN journal' = 1 .. (Len(journal) + 1)
        /\ \A i \in 1 .. Len(journal) : journal'[i] = journal[i]
        /\ journal'[Len(journal) + 1] = e
    BY JournalAfter
  <2>2. \A d \in SeenDocs' : d \in SeenDocs \cup {e.after}
    <3> SUFFICES ASSUME NEW i \in 1 .. (Len(journal) + 1)
                 PROVE  journal'[i].after \in SeenDocs \cup {e.after}
        BY <2>1 DEF SeenDocs
    <3> QED
        BY <2>1 DEF SeenDocs
  <2>3. \A d \in SeenDocs : d \in SeenDocs'
    BY <2>1 DEF SeenDocs
  <2>4. e.after \in SeenDocs'
    <3>1. Len(journal) + 1 \in DOMAIN journal'
        BY <2>1
    <3> QED
        BY <2>1, <3>1 DEF SeenDocs
  <2> QED
    BY <2>2, <2>3, <2>4
<1>4. PastDocs' = Past(journal', e.undo) /\ FutureDocs' = Future(journal', e.redo)
    BY <1>1 DEF PastDocs, FutureDocs, Past, Future
<1>5. journal = << >> => HeadDoc = NoDoc /\ PastDocs = << >> /\ FutureDocs = << >>
    BY DEF HeadDoc, PastDocs, FutureDocs
<1>6. ASSUME journal # << >>
      PROVE  /\ HeadDoc = HeadEntry.after /\ HeadDoc \in Docs
             /\ PastDocs = Past(journal, HeadEntry.undo)
             /\ FutureDocs = Future(journal, HeadEntry.redo)
  <2>1. HeadEntry \in Entry
    BY <1>6, HeadFacts DEF IInv
  <2> QED
    BY <1>6, <2>1 DEF HeadDoc, PastDocs, FutureDocs, Past, Future, Entry
<1> QED
    BY <1>2, <1>3, <1>4, <1>5, <1>6

\* The publication of an entry is a step of the editor, or shows it nothing new.
LEMMA PublishedRefines ==
    ASSUME IInv, NEW e, Published(e)
    PROVE  [Editor!Next]_(Editor!vars)
<1> DEFINE H == HeadEntry
           J == journal'
<1> USE EditorView
<1>1. /\ journal \in Seq(Entry) /\ e \in Entry /\ J \in Seq(Entry) /\ J = Append(journal, e)
      /\ Len(J) = Len(journal) + 1 /\ Len(journal) \in Nat /\ J[Len(J)] = e
      /\ \A i \in 1 .. Len(journal) : J[i] = journal[i]
    BY JournalAfter DEF Published
<1>2. CASE journal = << >>
  <2>1. e.undo = << >> /\ e.redo = << >>
    BY <1>2 DEF Published, NextEntry
  <2>2. Editor!Start(e.after)
    BY <1>2, <2>1, WalkEmpty DEF Editor!Start, Editor!Become
  <2> QED
    BY <2>2 DEF Editor!Next
<1>3. CASE journal # << >>
  <2>1. /\ H.undo \in Seq(1 .. Len(journal)) /\ H.redo \in Seq(1 .. Len(journal))
        /\ H.undo \in Seq(1 .. Len(J)) /\ H.redo \in Seq(1 .. Len(J))
    BY <1>1, <1>3, ChainStays DEF IInv, StackInv, UndoChain, RedoChain
  <2>2. Past(J, H.undo) = PastDocs /\ Future(J, H.redo) = FutureDocs
    BY <1>1, <1>3, <2>1, WalkStays
  <2>3. e.before = H.after
    BY <1>3 DEF Published, NextEntry
  <2>4. CASE Edits(e)
    <3>1. Len(J) \in 1 .. Len(J)
        BY <1>1
    <3>2. PastDocs' = Append(PastDocs, HeadDoc)
      <4>1. Past(J, Append(H.undo, Len(J))) = Append(Past(J, H.undo), J[Len(J)].before)
        BY <1>1, <2>1, <3>1, WalkPush
      <4> QED
        BY <1>1, <1>3, <2>2, <2>3, <2>4, <4>1 DEF Edits
    <3>3. FutureDocs' = << >>
        BY <2>4, WalkEmpty DEF Edits
    <3>4. Editor!Edit(e.after)
        BY <1>3, <2>4, <3>2, <3>3, HistoryAssumption DEF Edits, Editor!Edit, Editor!Become
    <3> QED
        BY <3>4 DEF Editor!Next
  <2>5. CASE Undoes(e)
    <3> DEFINE x == Last(H.undo)
    <3>1. x \in 1 .. Len(journal)
        BY <1>3, <2>5, StackFacts DEF Undoes
    <3>2. x \in 1 .. Len(J) /\ J[x] = journal[x]
        BY <1>1, <3>1
    <3>3. PastDocs # << >> /\ Last(PastDocs) = e.after /\ PastDocs' = Front(PastDocs)
      <4>1. /\ Past(J, H.undo) # << >> /\ Last(Past(J, H.undo)) = J[x].before
            /\ Past(J, Front(H.undo)) = Front(Past(J, H.undo))
        BY <1>1, <2>1, <2>5, WalkPop DEF Undoes
      <4> QED
        BY <2>2, <2>5, <3>2, <4>1 DEF Undoes
    <3>4. FutureDocs' = Append(FutureDocs, HeadDoc)
      <4>1. Future(J, Append(H.redo, x)) = Append(Future(J, H.redo), J[x].after)
        BY <1>1, <2>1, <3>2, WalkPush
      <4> QED
        BY <1>3, <2>2, <2>5, <3>2, <4>1 DEF Undoes
    <3>5. Editor!Undo
        BY <3>3, <3>4 DEF Editor!Undo, Editor!Become, Editor!Last, Editor!Front, Last, Front
    <3> QED
        BY <3>5 DEF Editor!Next
  <2>6. CASE Redoes(e)
    <3> DEFINE x == Last(H.redo)
    <3>1. x \in 1 .. Len(journal)
        BY <1>3, <2>6, StackFacts DEF Redoes
    <3>2. x \in 1 .. Len(J) /\ J[x] = journal[x]
        BY <1>1, <3>1
    <3>3. FutureDocs # << >> /\ Last(FutureDocs) = e.after /\ FutureDocs' = Front(FutureDocs)
      <4>1. /\ Future(J, H.redo) # << >> /\ Last(Future(J, H.redo)) = J[x].after
            /\ Future(J, Front(H.redo)) = Front(Future(J, H.redo))
        BY <1>1, <2>1, <2>6, WalkPop DEF Redoes
      <4> QED
        BY <2>2, <2>6, <3>2, <4>1 DEF Redoes
    <3>4. PastDocs' = Append(PastDocs, HeadDoc)
      <4>1. Past(J, Append(H.undo, x)) = Append(Past(J, H.undo), J[x].before)
        BY <1>1, <2>1, <3>2, WalkPush
      <4> QED
        BY <1>3, <2>2, <2>6, <3>2, <4>1 DEF Redoes
    <3>5. Editor!Redo
        BY <3>3, <3>4 DEF Editor!Redo, Editor!Become, Editor!Last, Editor!Front, Last, Front
    <3> QED
        BY <3>5 DEF Editor!Next
  <2>7. CASE Keeps(e)
    <3>1. HeadDoc' = HeadDoc /\ PastDocs' = PastDocs /\ FutureDocs' = FutureDocs
        BY <1>3, <2>2, <2>7 DEF Keeps
    <3>2. e.after \in SeenDocs
      <4>1. Len(journal) \in DOMAIN journal /\ HeadEntry = journal[Len(journal)]
        BY <1>3, HeadFacts DEF IInv
      <4> QED
        BY <2>7, <4>1 DEF Keeps, SeenDocs
    <3>3. SeenDocs' = SeenDocs
        BY <3>2
    <3> QED
        BY <3>1, <3>3 DEF Editor!vars
  <2>8. CASE Branches(e)
    <3>1. PastDocs' = << >> /\ FutureDocs' = << >>
        BY <2>8, WalkEmpty DEF Branches
    <3>2. e.after \in SeenDocs
        BY <2>8 DEF Branches, SeenDocs
    <3>3. Editor!Restore(e.after)
        BY <3>1, <3>2 DEF Editor!Restore, Editor!Become
    <3> QED
        BY <3>3 DEF Editor!Next
  <2> QED
    BY <1>3, <2>4, <2>5, <2>6, <2>7, <2>8 DEF Published, NextEntry
<1> QED
    BY <1>2, <1>3

\* All callers together act as one editor: docs/native/DW3_2_WORKSTATION.md's undo and redo.
THEOREM HistoryImplementsEditor == Spec => ImplementsEditor
<1>1. Init => Editor!Init
    BY DEF Init, Editor!Init, HeadDoc, PastDocs, FutureDocs, SeenDocs
<1>2. IInv /\ [Next]_vars => [Editor!Next]_(Editor!vars)
  <2> SUFFICES ASSUME IInv, [Next]_vars PROVE [Editor!Next]_(Editor!vars)
    OBVIOUS
  <2>1. CASE journal' = journal
    BY <2>1 DEF Editor!vars, HeadDoc, PastDocs, FutureDocs, SeenDocs, HeadEntry
  <2>2. CASE \E e : Published(e)
    BY <2>2, PublishedRefines
  <2> QED
    BY <2>1, <2>2, OnlyPublish
<1> QED
    BY <1>1, <1>2, Invariant, PTL DEF Spec, ImplementsEditor, Editor!Spec
===============================================================================
