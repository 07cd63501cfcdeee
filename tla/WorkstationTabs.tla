---------------------------- MODULE WorkstationTabs ----------------------------
(***************************************************************************)
(* src/bh_sim/uix/workstation_editor.py over src/bh_sim/uix/window.py: the *)
(* tabs of the open cases, unfinished input, the validation receipt and    *)
(* the results of runs.  Everything happens on the thread of the user      *)
(* interface, but run_current waits for its run by processing events: the  *)
(* other handlers, a second run_current among them, then run inside it.    *)
(* The open calls of run_current are the stack frames.                     *)
(*                                                                         *)
(* A document is its engineering content (pfd_engineering_content_hash);   *)
(* a draft's history is the sequence of the contents its entries left, and *)
(* another process may extend it.                                          *)
(* Operators on records such as Now stand for the methods that call each   *)
(* other; an action is a handler of the event loop.                        *)
(***************************************************************************)
EXTENDS Naturals, SequencesExt

CONSTANTS
    Cases, Contents,
    Initial,        \* content of a new draft
    WellPosed,      \* contents whose validation succeeds
    Loads,          \* what may be answered of the queries of a run's workbook and overlays
    None,
    MaxWork, MaxRuns, MaxSerial     \* bounds: entries and runs, runs, tabs ever opened

ASSUME ContentsAssumption == Initial \in Contents /\ WellPosed \subseteq Contents
ASSUME LoadsAssumption == Loads \subseteq SUBSET {"workbook", "overlays"}
ASSUME NoneAssumption == None \notin Cases \cup Contents \cup Nat \cup {"valid", "deficient"}
ASSUME BoundsAssumption == MaxRuns \in Nat /\ MaxSerial \in Nat

VARIABLES
    store,      \* per case: its history, or None
    tabs,       \* per case: its CaseSession, or None
    active,     \* active_id
    receipt,    \* last_receipt of the window
    view,       \* last_run_view of the window, a run
    flag,       \* active_run_id is set
    typed,      \* a modified field of the input form: [case, content], or None
    pending,    \* pending_inputs
    shown,      \* what the last refresh put on the screen
    frames,     \* open calls of run_current, the innermost last
    runs,       \* history: the submitted runs
    serial      \* tells the CaseSessions of a case apart

window == <<store, tabs, active, receipt, view, flag, typed, pending, shown, serial>>
vars == <<window, frames, runs>>

Runs == 1 .. MaxRuns
Now == [store |-> store, tabs |-> tabs, active |-> active, receipt |-> receipt, view |-> view,
        flag |-> flag, typed |-> typed, pending |-> pending, shown |-> shown,
        serial |-> serial, ok |-> TRUE]

Become(w) ==
    /\ store' = w.store /\ tabs' = w.tabs /\ active' = w.active
    /\ receipt' = w.receipt /\ view' = w.view /\ flag' = w.flag
    /\ typed' = w.typed /\ pending' = w.pending /\ shown' = w.shown /\ serial' = w.serial

\* A handler that starts no run and ends none.
Handle(w) == Become(w) /\ UNCHANGED <<frames, runs>>
Fails(w) == [w EXCEPT !.ok = FALSE]

Input(case, content) == [case |-> case, content |-> content]

-------------------------------------------------------------------------------
(* Histories: the contents their entries left, the head last               *)

Content(h) == Last(h)

\* HISTORY_CONFLICT otherwise; the entries only ever grow.
AtHead(w, c) == Len(w.tabs[c].state) = Len(w.store[c])

Unfinished(w) == Len(w.pending) + (IF w.typed # None THEN 1 ELSE 0)
\* The bound: the entries that there are, those that unfinished input will make, and the runs.
Room(w) ==
    MapThenSumSet(LAMBDA c : IF w.store[c] = None THEN 0 ELSE Len(w.store[c]), Cases)
        + Unfinished(w) + Len(runs) < MaxWork

-------------------------------------------------------------------------------
(* Sessions and the screen                                                  *)

CaseSession(h, n) ==
    [serial |-> n, state |-> h, preview |-> None, receipt |-> None, validated |-> None,
     view |-> None, workbook |-> None, overlays |-> None, validOverlays |-> None,
     sources |-> [r \in Runs |-> None]]

IsOpen(w, c) == c # None /\ w.tabs[c] # None
Session(w) == w.tabs[w.active]
Document(s) == IF s.preview # None THEN s.preview ELSE Content(s.state)

Result_is_stale(s, r) == r # None /\ s.sources[r] # Document(s)

Blank == [content |-> None, workbook |-> None, stale |-> FALSE,
          overlays |-> None, marked |-> FALSE]
Screen(s) == [content |-> Document(s), workbook |-> s.workbook,
              stale |-> Result_is_stale(s, s.workbook), overlays |-> s.overlays,
              marked |-> Result_is_stale(s, s.overlays)]

\* The input form is made anew; what was typed into it and not finished is gone.
Refresh(w) ==
    IF w.active = None
    THEN [w EXCEPT !.receipt = None, !.view = None, !.shown = Blank]
    ELSE [w EXCEPT !.receipt = Session(w).receipt, !.view = Session(w).view,
                   !.typed = None, !.shown = Screen(Session(w))]

\* Only what belongs to the active case.
Remember_view(w) ==
    IF w.active = None THEN w
    ELSE LET s == Session(w)
             own == w.receipt # None /\ w.receipt.case = w.active
             seen == w.view # None /\ runs[w.view].case = w.active
         IN  [w EXCEPT !.tabs[w.active] =
                [s EXCEPT !.receipt = IF own THEN w.receipt ELSE s.receipt,
                          !.view = IF seen THEN w.view ELSE s.view]]

Invalidated(s) == [s EXCEPT !.receipt = None, !.validated = None]

Adopt(w, c, h) ==
    LET adopted ==
            IF ~ IsOpen(w, c)
            THEN [w EXCEPT !.tabs[c] = CaseSession(h, w.serial + 1), !.serial = @ + 1]
            ELSE LET s == [w.tabs[c] EXCEPT !.state = h, !.preview = None]
                 IN  [w EXCEPT !.tabs[c] = IF s.validated = Content(h) THEN s ELSE Invalidated(s)]
    IN  Refresh([adopted EXCEPT !.active = c])

-------------------------------------------------------------------------------
(* Edits and unfinished input                                               *)

\* A history command of the active case: an entry that leaves it with content e.  A refusal
\* is noted.
Commit(w, e) ==
    LET c == w.active
        h == Append(Session(w).state, e)
    IN  IF AtHead(w, c) THEN Adopt([w EXCEPT !.store[c] = h], c, h) ELSE Fails(w)

Apply_edit(w, e) ==
    LET asked == Commit(Remember_view(w), e)
    IN  IF Session(w).preview # None THEN Fails(Refresh(w))
        ELSE IF asked.ok THEN [asked EXCEPT !.ok = w.ok]
        ELSE Refresh(asked)

Schedule_input_edit(w) ==
    IF w.typed = None THEN w
    ELSE [w EXCEPT !.pending = Append(@, w.typed), !.typed = None, !.receipt = None,
                   !.tabs[w.active] = Invalidated(@)]

\* Into the case it was typed in, whichever tab is active.
Apply_input(w, input) ==
    LET c == input.case
    IN  IF ~ IsOpen(w, c) THEN Fails(w)
        ELSE IF c = w.active THEN Apply_edit(w, input.content)
        ELSE IF AtHead(w, c)
        THEN LET h == Append(w.tabs[c].state, input.content)
             IN  [w EXCEPT !.store[c] = h, !.tabs[c].state = h]
        ELSE Fails(w)

Flush_input_edits(w) ==
    LET scheduled == Schedule_input_edit(w)
        applied[n \in 0 .. Len(scheduled.pending)] ==
            IF n = 0 THEN [scheduled EXCEPT !.pending = << >>]
            ELSE Apply_input(applied[n - 1], scheduled.pending[n])
    IN  applied[Len(scheduled.pending)]

Type(e) ==
    /\ active # None /\ tabs[active].preview = None /\ Room(Now)
    /\ pending = << >> /\ e # Content(tabs[active].state)
    /\ Handle([Now EXCEPT !.typed = Input(active, e), !.receipt = None,
                          !.tabs[active] = Invalidated(@)])

FinishInput == typed # None /\ Handle(Schedule_input_edit(Now))
FlushTimer == pending # << >> /\ Handle(Flush_input_edits(Now))

\* An edit of the layout alone leaves the content; Mutate has its steps.
Edit(e) ==
    /\ active # None /\ Room(Now) /\ e # Content(tabs[active].state)
    /\ LET w == Flush_input_edits(Now)
       IN  Handle(IF w.ok THEN Apply_edit(w, e) ELSE w)

\* undo and redo leave a content there was, save and snapshot the present one.  Historical
\* views are read-only.
Mutate ==
    LET w == Flush_input_edits(Now)
    IN  /\ active # None /\ Room(Now)
        /\ \E e \in Range(Session(w).state) :
              Handle(IF w.ok /\ Session(w).preview = None THEN Commit(Remember_view(w), e) ELSE w)

\* continue as an alternative from an entry of the list; nothing is flushed
BranchSelected ==
    /\ active # None /\ Room(Now)
    /\ \E e \in Range(tabs[active].state) :
          tabs[active].preview \in {None, e} /\ Handle(Commit(Now, e))

PreviewEntry ==
    LET w == Flush_input_edits(Now)
    IN  /\ active # None
        /\ \E e \in Range(Session(w).state) :
              Handle(IF w.ok THEN Refresh([Remember_view(w) EXCEPT !.tabs[w.active].preview = e])
                     ELSE w)

ReturnCurrent == active # None /\ Handle(Refresh([Now EXCEPT !.tabs[active].preview = None]))

-------------------------------------------------------------------------------
(* Tabs                                                                     *)

Activate(w, c) == Refresh([Remember_view(w) EXCEPT !.active = c, !.receipt = w.tabs[c].receipt,
                                                   !.view = w.tabs[c].view])

CreateDraft(c) ==
    LET w == Flush_input_edits(Now)
    IN  /\ store[c] = None /\ serial < MaxSerial /\ Room(Now)
        /\ Handle(IF w.ok
                  THEN Adopt([Remember_view(w) EXCEPT !.store[c] = <<Initial>>],
                             c, <<Initial>>)
                  ELSE w)

\* A case that has no tab is opened at its durable head.
OpenDraft(c) ==
    LET w == Flush_input_edits(Now)
    IN  /\ store[c] # None /\ tabs[c] = None /\ serial < MaxSerial
        /\ Handle(IF w.ok THEN Adopt(Remember_view(w), c, w.store[c]) ELSE w)

\* mutant: a tab is left with its input unfinished
SwitchAtOnce(c) ==
    /\ IsOpen(Now, c) /\ c # active
    /\ Handle(Activate(Now, c))

SwitchTab(c) ==
    LET w == Flush_input_edits(Now)
    IN  /\ IsOpen(Now, c) /\ c # active
        /\ Handle(IF w.ok THEN Activate(w, c) ELSE w)

CloseTab(c) ==
    LET w == Flush_input_edits(Now)
        closed == [Remember_view(w) EXCEPT !.tabs[c] = None]
        left == [closed EXCEPT !.active = None]
        rest == {d \in Cases : IsOpen(closed, d)}
    IN  /\ IsOpen(Now, c)
        /\ IF ~ w.ok THEN Handle(w)
           ELSE IF active # c THEN Handle(closed)
           ELSE IF rest = {} THEN Handle(Refresh(left))
           ELSE \E d \in rest : Handle(Activate(left, d))

\* The window is closed and started again: the cases that were open are opened at their
\* durable heads, the active one last.
Relaunch ==
    LET w == Flush_input_edits(Now)
        opened == [c \in Cases |-> IF IsOpen(w, c) THEN CaseSession(w.store[c], w.serial + 1)
                                   ELSE None]
    IN  /\ frames = << >> /\ active # None /\ serial < MaxSerial
        /\ Handle(IF w.ok
                  THEN Refresh([w EXCEPT !.tabs = opened, !.flag = FALSE, !.serial = @ + 1])
                  ELSE w)

-------------------------------------------------------------------------------
(* Validation and runs                                                      *)

Receipt(c, e) == [case |-> c, content |-> e]

ValidateCurrent ==
    LET w == Flush_input_edits(Now)
        e == w.shown.content
    IN  /\ active # None /\ ~ flag
        /\ \/ Handle(IF w.ok
                     THEN Refresh([w EXCEPT !.receipt = Receipt(w.active, e),
                             !.tabs[w.active].receipt = Receipt(w.active, e),
                             !.tabs[w.active].validated = e])
                     ELSE w)
           \* draft.validate is rejected
           \/ w.ok /\ Handle(Refresh([w EXCEPT !.receipt = None, !.tabs[w.active] = Invalidated(@)]))

\* mutant: the receipt's case is compared, its content is not
ReceiptOfTheCase(w) ==
    /\ w.receipt # None /\ w.receipt.case = w.active /\ w.receipt.content \in WellPosed
    /\ w.pending = << >> /\ w.typed = None

Has_valid_receipt(w) ==
    /\ w.receipt # None /\ w.receipt.case = w.active /\ w.receipt.content \in WellPosed
    /\ w.pending = << >> /\ w.typed = None
    /\ Session(w).validated = w.shown.content

Submitted(w) == [case |-> w.active, serial |-> Session(w).serial, receipt |-> w.receipt,
                 content |-> w.shown.content, source |-> Content(Session(w).state),
                 historical |-> Session(w).preview # None, result |-> None]

\* The action is disabled while active_run_id is set.
RunCurrent ==
    LET w == Flush_input_edits(Now)
    IN  /\ active # None /\ ~ flag /\ Len(runs) < MaxRuns /\ Room(Now)
        /\ IF w.ok /\ Has_valid_receipt(w)
           THEN /\ Become(Refresh([w EXCEPT !.flag = TRUE]))
                /\ runs' = Append(runs, Submitted(w))
                /\ frames' = Append(frames, [run |-> Len(runs) + 1, at |-> "sent"])
           ELSE Handle(w)

\* Its thread answers: solved, well or not; or busy, cancelled or failed.  One run at a time is
\* solved, so runs may be taken to be solved in one step.
AnswerRun(i) ==
    /\ frames[i].at = "sent"
    /\ \/ frames' = [frames EXCEPT ![i].at = "rejected"] /\ UNCHANGED runs
       \/ /\ frames' = [frames EXCEPT ![i].at = "completed"]
          /\ \E result \in {"valid", "deficient"} : runs' = [runs EXCEPT ![frames[i].run].result = result]
    /\ UNCHANGED window

CancelCurrentRun == flag /\ Handle(Refresh([Now EXCEPT !.flag = FALSE]))

\* mutant: what has converged is valid
Is_converged(r) == r # None /\ runs[r].result # None

Is_valid_run(r) == r # None /\ runs[r].result = "valid"

\* mutant: the results are loaded for the tab in front
Load_into_active(w, r, c, answered) ==
    IF w.active = None THEN w
    ELSE LET s == Session(w)
             kept == IF Is_valid_run(s.view) THEN r ELSE s.validOverlays
         IN  [w EXCEPT !.tabs[w.active] =
                [s EXCEPT !.workbook = IF "workbook" \in answered THEN r ELSE s.workbook,
                          !.overlays = IF "overlays" \in answered THEN kept ELSE s.overlays]]

\* The queries may be rejected.
Load_run_results(w, r, c, answered) ==
    IF ~ IsOpen(w, c) THEN w
    ELSE LET s == w.tabs[c]
             kept == IF Is_valid_run(s.view) THEN r ELSE s.validOverlays
         IN  [w EXCEPT !.tabs[c] =
                [s EXCEPT !.workbook = IF "workbook" \in answered THEN r ELSE s.workbook,
                          !.overlays = IF "overlays" \in answered THEN kept ELSE s.overlays]]

\* The CaseSession the run was started from; its tab may be closed, and opened again.
Attached(w, run) == IsOpen(w, run.case) /\ w.tabs[run.case].serial = run.serial

\* mutant: the source is read when the answer is there
SourceAtTheEnd(w, r) == Content(w.tabs[runs[r].case].state)

SourceHash(w, r) == runs[r].source

Completed(w, r, answered) ==
    LET run == runs[r]
        started == IF Attached(w, run)
                   THEN [w EXCEPT !.tabs[run.case].sources[r] = SourceHash(w, r),
                                  !.tabs[run.case].view = r]
                   ELSE w
        loaded == Load_run_results(started, r, run.case, answered)
    IN  IF ~ Attached(w, run) THEN loaded
        ELSE IF Is_valid_run(r)
        THEN [loaded EXCEPT !.tabs[run.case].validOverlays = loaded.tabs[run.case].overlays]
        ELSE [loaded EXCEPT !.tabs[run.case].overlays = loaded.tabs[run.case].validOverlays]

\* The innermost call of run_current goes on after its loop.
FinishRun ==
    /\ frames # << >> /\ Last(frames).at # "sent"
    /\ frames' = Front(frames) /\ UNCHANGED runs
    /\ LET w == [Now EXCEPT !.flag = FALSE]
       IN  IF Last(frames).at = "rejected" THEN Become(Refresh(w))
           ELSE \E answered \in Loads : Become(Refresh(Completed(w, Last(frames).run, answered)))

\* Another process edits a case (it has a CaseSession of its own); bounded to one entry beyond
\* what an open tab knows.
ForeignEdit(c, e) ==
    /\ IsOpen(Now, c) /\ AtHead(Now, c) /\ Room(Now)
    /\ Handle([Now EXCEPT !.store[c] = Append(store[c], e)])

-------------------------------------------------------------------------------

Init ==
    /\ store = [c \in Cases |-> None] /\ tabs = [c \in Cases |-> None]
    /\ active = None /\ receipt = None /\ view = None /\ flag = FALSE
    /\ typed = None /\ pending = << >> /\ shown = Blank
    /\ frames = << >> /\ runs = << >> /\ serial = 0

Editing ==
    \/ \E e \in Contents : Type(e) \/ Edit(e)
    \/ FinishInput \/ FlushTimer \/ Mutate
    \/ BranchSelected \/ PreviewEntry \/ ReturnCurrent
Tabs ==
    \/ \E c \in Cases : CreateDraft(c) \/ OpenDraft(c) \/ SwitchTab(c) \/ CloseTab(c)
    \/ Relaunch
Running ==
    \/ ValidateCurrent \/ RunCurrent \/ CancelCurrentRun \/ FinishRun
    \/ \E i \in DOMAIN frames : AnswerRun(i)

Next == Editing \/ Tabs \/ Running \/ \E c \in Cases, e \in Contents : ForeignEdit(c, e)

Spec == Init /\ [][Next]_vars

-------------------------------------------------------------------------------
(* Properties                                                               *)

SessionType ==
    [serial : 1 .. MaxSerial, state : Seq(Contents) \ {<< >>}, preview : Contents \cup {None},
     receipt : [case : Cases, content : Contents] \cup {None},
     validated : Contents \cup {None}, view : Runs \cup {None}, workbook : Runs \cup {None},
     overlays : Runs \cup {None}, validOverlays : Runs \cup {None},
     sources : [Runs -> Contents \cup {None}]]

\* None is neither of what a case's entry of tabs and of store may be.
ASSUME NoneIsNoSession == None \notin SessionType \cup Seq(Contents)

\* Every session is well formed, a tab is active exactly while one is open, and the screen
\* shows the document of the active tab.
TypeOK ==
    /\ \A c \in Cases : tabs[c] # None => tabs[c] \in SessionType /\ store[c] # None
    /\ IF active = None THEN \A c \in Cases : tabs[c] = None
       ELSE tabs[active] # None /\ shown.content = Document(tabs[active])
    /\ serial <= MaxSerial /\ Len(runs) <= MaxRuns /\ Len(frames) <= Len(runs)

\* What is submitted to a run is the very content its receipt validated, of the same case,
\* whatever was edited, undone, previewed, typed or switched since (has_valid_receipt,
\* _check_receipt_engineering_identity).
RunnableIsValidated ==
    \A r \in DOMAIN runs :
        /\ runs[r].receipt = Receipt(runs[r].case, runs[r].content)
        /\ runs[r].content \in WellPosed

\* Input that was typed and not finished when the user goes to another case is in the history
\* of the case it was typed in by then: no tab change loses it or takes it along
\* (flush_input_edits: "Finish focused input before saving/navigating, never against another
\* case").
NavigationKeepsInputs ==
    [][active' # active =>
        \A input \in Range(pending) \cup ({typed} \ {None}) :
            input.content \in {store'[input.case][i] :
                i \in Len(store[input.case]) + 1 .. Len(store'[input.case])}]_vars

\* Results and receipts stay with the case they belong to, whichever tab was in front when they
\* arrived, and also when that case was closed or opened again meanwhile.
ResultsStayWithTheirCase ==
    \A c \in Cases : tabs[c] # None =>
        /\ \A r \in {tabs[c].view, tabs[c].workbook, tabs[c].overlays} : r # None => runs[r].case = c
        /\ tabs[c].receipt # None => tabs[c].receipt.case = c

Unflagged == {r \in {shown.workbook} : ~ shown.stale} \cup {r \in {shown.overlays} : ~ shown.marked}

\* Results that are shown without a stale mark were computed from the document on the screen
\* (docs/PFD_SPECIFICATION.md:167), unless they were submitted from a historical view.
UnflaggedIsCurrent ==
    \A r \in Unflagged \ {None} : runs[r].historical \/ runs[r].content = shown.content

\* docs/PFD_SPECIFICATION.md:167 "Workbooks and canvas badges carry the run's submitted native
\* engineering identity": no exception.
UnflaggedIsSubmitted == \A r \in Unflagged \ {None} : runs[r].content = shown.content

\* The overlays of a tab are those of a run of it that was valid in all four respects,
\* whatever runs, failures and rejected queries came after it.  (A run of an earlier tab of
\* the case is judged by the last run of the new one.)
OverlaysFromValidRuns ==
    \A c \in Cases : tabs[c] # None /\ tabs[c].overlays # None =>
        LET run == runs[tabs[c].overlays]
        IN  run.serial = tabs[c].serial => run.result = "valid"
===============================================================================
