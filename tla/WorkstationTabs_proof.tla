------------------------- MODULE WorkstationTabs_proof -------------------------
(***************************************************************************)
(* Proofs about WorkstationTabs, for any cases, contents, answers and      *)
(* numbers of runs and tabs: results, receipts and unfinished input stay   *)
(* with the case they belong to, however tabs are switched, closed and     *)
(* opened inside the event loops of runs.                                  *)
(***************************************************************************)
EXTENDS WorkstationTabs, TLAPS

-------------------------------------------------------------------------------
(* The invariant *)

Histories == Seq(Contents) \ {<< >>}
Receipts == [case : Cases, content : Contents]
Screens == [content : Contents \cup {None}, workbook : Runs \cup {None}, stale : BOOLEAN,
            overlays : Runs \cup {None}, marked : BOOLEAN]

\* The window between two calls of its methods; Now is one.
Windows ==
    [store : [Cases -> Histories \cup {None}], tabs : [Cases -> SessionType \cup {None}],
     active : Cases \cup {None}, receipt : Receipts \cup {None}, view : Runs \cup {None},
     flag : BOOLEAN, typed : Receipts \cup {None}, pending : Seq(Receipts),
     shown : Screens, serial : 0 .. MaxSerial, ok : BOOLEAN]

Submissions ==
    [case : Cases, serial : 1 .. MaxSerial, receipt : Receipts, content : Contents,
     source : Contents, historical : BOOLEAN, result : {None, "valid", "deficient"}]

Results(s) == {s.view, s.workbook, s.overlays, s.validOverlays} \ {None}
Overlays(s) == {s.overlays, s.validOverlays} \ {None}

\* What the session of case c keeps of the submitted runs, and its receipt.
SessionGood(c, s, rs) ==
    /\ \A r \in Results(s) : r \in DOMAIN rs /\ rs[r].case = c
    /\ \A r \in Overlays(s) : rs[r].serial = s.serial => rs[r].result = "valid"
    /\ \A r \in Runs : s.sources[r] # None => r \in DOMAIN rs /\ rs[r].source = s.sources[r]
    /\ s.receipt # None => s.receipt.case = c /\ s.receipt.content = s.validated

\* A tab is active while one is open, and only its fields can hold unfinished input.
Fronted(w) == IF w.active = None THEN w.typed = None /\ \A c \in Cases : w.tabs[c] = None
              ELSE w.tabs[w.active] # None
\* One input at a time is unfinished.
Form(w) == Len(w.pending) <= 1 /\ (w.typed # None => w.pending = << >>)
Backed(w) == \A c \in Cases : w.tabs[c] # None => w.store[c] # None
Sessions(w, rs) == \A c \in Cases : w.tabs[c] # None => SessionGood(c, w.tabs[c], rs)

\* What is kept between two refreshes.
Sound(w, rs) == w \in Windows /\ Fronted(w) /\ Backed(w) /\ Sessions(w, rs) /\ Form(w)

\* The window's own receipt and view, which an activation hands to a session.
FrontReceipt(w) ==
    w.receipt # None /\ w.receipt.case = w.active =>
        w.receipt.content = w.tabs[w.active].validated
FrontView(w, rs) == w.view # None => w.view \in DOMAIN rs
OnScreen(w) == w.shown = IF w.active = None THEN Blank ELSE Screen(w.tabs[w.active])

Good(w, rs) == Sound(w, rs) /\ FrontReceipt(w) /\ FrontView(w, rs) /\ OnScreen(w)

\* What is submitted, and how it is marked.
RunsGood(rs) ==
    /\ rs \in Seq(Submissions) /\ Len(rs) <= MaxRuns
    /\ \A r \in DOMAIN rs :
          /\ rs[r].receipt = Receipt(rs[r].case, rs[r].content) /\ rs[r].content \in WellPosed
          /\ rs[r].historical \/ rs[r].content = rs[r].source

\* Every open call has a run of its own, without a result until it is answered.
FramesGood(fs, rs) ==
    /\ fs \in Seq([run : Runs, at : {"sent", "rejected", "completed"}])
    /\ \A i \in DOMAIN fs :
          /\ i <= fs[i].run /\ fs[i].run \in DOMAIN rs
          /\ fs[i].at = "sent" => rs[fs[i].run].result = None
    /\ \A i, k \in DOMAIN fs : i < k => fs[i].run < fs[k].run

IInv == Good(Now, runs) /\ RunsGood(runs) /\ FramesGood(frames, runs)

-------------------------------------------------------------------------------
(* Sessions and the screen *)

LEMMA Apart ==
    /\ None \notin Cases /\ None \notin Contents /\ None \notin Nat /\ None \notin Runs
    /\ None \notin SessionType /\ None \notin Histories /\ None # "valid"
    /\ Runs \subseteq Nat
BY NoneAssumption, NoneIsNoSession, BoundsAssumption DEF Runs, Histories

\* The fields of a window.
LEMMA WindowFields ==
    ASSUME NEW w \in Windows
    PROVE  /\ w.store \in [Cases -> Histories \cup {None}]
           /\ w.tabs \in [Cases -> SessionType \cup {None}]
           /\ w.active \in Cases \cup {None} /\ w.receipt \in Receipts \cup {None}
           /\ w.view \in Runs \cup {None} /\ w.flag \in BOOLEAN
           /\ w.typed \in Receipts \cup {None} /\ w.pending \in Seq(Receipts)
           /\ w.shown \in Screens /\ w.serial \in 0 .. MaxSerial /\ w.ok \in BOOLEAN
BY DEF Windows

LEMMA SessionFields ==
    ASSUME NEW s \in SessionType
    PROVE  /\ s.serial \in 1 .. MaxSerial /\ s.state \in Histories
           /\ s.preview \in Contents \cup {None} /\ s.receipt \in Receipts \cup {None}
           /\ s.validated \in Contents \cup {None}
           /\ s.view \in Runs \cup {None} /\ s.workbook \in Runs \cup {None}
           /\ s.overlays \in Runs \cup {None} /\ s.validOverlays \in Runs \cup {None}
           /\ s.sources \in [Runs -> Contents \cup {None}]
BY DEF SessionType, Histories, Receipts

\* What is shown of a session is a content, and its results are marked or not.
LEMMA ScreenIs ==
    ASSUME NEW s \in SessionType
    PROVE  Screen(s) \in Screens /\ Document(s) \in Contents
<1>1. Content(s.state) \in Contents
  BY SessionFields DEF Content, Last, Histories
<1>2. Document(s) \in Contents
  BY <1>1, SessionFields DEF Document
<1>3. \A r \in Runs \cup {None} : Result_is_stale(s, r) \in BOOLEAN
  BY DEF Result_is_stale
<1> QED
  BY <1>2, <1>3, SessionFields DEF Screen, Screens

\* The window that a refresh leaves.
LEMMA RefreshDoes ==
    ASSUME NEW w, NEW rs, Sound(w, rs)
    PROVE  /\ Good(Refresh(w), rs)
           /\ Refresh(w).store = w.store /\ Refresh(w).tabs = w.tabs
           /\ Refresh(w).active = w.active /\ Refresh(w).pending = w.pending
           /\ Refresh(w).ok = w.ok /\ Refresh(w).serial = w.serial /\ Refresh(w).flag = w.flag
           /\ Refresh(w).typed \in {None, w.typed}
<1> DEFINE n == Refresh(w)
<1>1. w \in Windows
  BY DEF Sound
<1>2. CASE w.active = None
  <2>1. n = [w EXCEPT !.receipt = None, !.view = None, !.shown = Blank]
    BY <1>2 DEF Refresh
  <2>2. Blank \in Screens
    BY DEF Blank, Screens
  <2>3. /\ n \in Windows /\ n.receipt = None /\ n.view = None /\ n.shown = Blank
        /\ n.typed = w.typed
        /\ n.store = w.store /\ n.tabs = w.tabs /\ n.active = w.active /\ n.pending = w.pending
        /\ n.ok = w.ok /\ n.serial = w.serial /\ n.flag = w.flag
    BY <1>1, <2>1, <2>2 DEF Windows
  <2> HIDE DEF n
  <2> QED
    BY <1>2, <2>3
    DEF n, Good, Sound, Form, Fronted, Backed, Sessions, FrontReceipt, FrontView, OnScreen
<1>3. CASE w.active # None
  <2> DEFINE s == w.tabs[w.active]
  <2>1. w.active \in Cases /\ s \in SessionType /\ SessionGood(w.active, s, rs)
    BY <1>1, <1>3, WindowFields DEF Sound, Fronted, Sessions
  <2>2. Screen(s) \in Screens /\ s.receipt \in Receipts \cup {None} /\ s.view \in Runs \cup {None}
    BY <2>1, ScreenIs, SessionFields
  <2>3. n = [w EXCEPT !.receipt = s.receipt, !.view = s.view, !.typed = None, !.shown = Screen(s)]
    BY <1>3 DEF Refresh, Session
  <2>4. /\ s.receipt # None => s.receipt.content = s.validated
        /\ s.view # None => s.view \in DOMAIN rs
    BY <2>1 DEF SessionGood, Results
  <2> HIDE DEF s
  <2>5. /\ n \in Windows /\ n.receipt = s.receipt /\ n.view = s.view /\ n.shown = Screen(s)
        /\ n.typed = None
        /\ n.store = w.store /\ n.tabs = w.tabs /\ n.active = w.active /\ n.pending = w.pending
        /\ n.ok = w.ok /\ n.serial = w.serial /\ n.flag = w.flag
    BY <1>1, <2>2, <2>3 DEF Windows
  <2> HIDE DEF n
  <2>6. n.tabs[n.active] = s /\ n.active # None
    BY <1>3, <2>5 DEF s
  <2> QED
    BY <2>4, <2>5, <2>6
    DEF n, Good, Sound, Form, Fronted, Backed, Sessions, FrontReceipt, FrontView, OnScreen
<1> QED
  BY <1>2, <1>3

-------------------------------------------------------------------------------
(* What the methods make of one session *)

LEMMA InvalidatedDoes ==
    ASSUME NEW s \in SessionType
    PROVE  /\ Invalidated(s) \in SessionType
           /\ Screen(Invalidated(s)) = Screen(s)
           /\ Invalidated(s).state = s.state /\ Invalidated(s).preview = s.preview
           /\ \A c, rs : SessionGood(c, s, rs) => SessionGood(c, Invalidated(s), rs)
<1> DEFINE n == Invalidated(s)
<1>1. /\ n \in SessionType /\ n.state = s.state /\ n.preview = s.preview /\ n.receipt = None
      /\ n.view = s.view /\ n.workbook = s.workbook /\ n.overlays = s.overlays
      /\ n.validOverlays = s.validOverlays /\ n.sources = s.sources /\ n.serial = s.serial
  BY DEF SessionType, Invalidated
<1> HIDE DEF n
<1>2. Screen(n) = Screen(s)
  BY <1>1 DEF Screen, Result_is_stale, Document
<1>3. \A c, rs : SessionGood(c, s, rs) => SessionGood(c, n, rs)
  BY <1>1 DEF SessionGood, Results, Overlays
<1> QED
  BY <1>1, <1>2, <1>3 DEF n

\* A new session has no results.
LEMMA CaseSessionDoes ==
    ASSUME NEW h \in Histories, NEW n \in 1 .. MaxSerial
    PROVE  /\ CaseSession(h, n) \in SessionType /\ CaseSession(h, n).state = h
           /\ CaseSession(h, n).preview = None /\ CaseSession(h, n) # None
           /\ \A c, rs : SessionGood(c, CaseSession(h, n), rs)
<1>1. CaseSession(h, n) \in SessionType
  BY DEF SessionType, Histories, CaseSession
<1> QED
  BY <1>1, Apart DEF CaseSession, SessionGood, Results, Overlays

\* A session that is at another entry, and shows it.
Moved(s, h) == [s EXCEPT !.state = h, !.preview = None]

LEMMA MovedDoes ==
    ASSUME NEW s \in SessionType, NEW h \in Histories
    PROVE  /\ Moved(s, h) \in SessionType /\ Moved(s, h).state = h /\ Moved(s, h).preview = None
           /\ Moved(s, h).validated = s.validated
           /\ \A c, rs : SessionGood(c, s, rs) => SessionGood(c, Moved(s, h), rs)
<1> DEFINE n == Moved(s, h)
<1>1. /\ n \in SessionType /\ n.state = h /\ n.preview = None /\ n.receipt = s.receipt
      /\ n.view = s.view /\ n.workbook = s.workbook /\ n.overlays = s.overlays
      /\ n.validOverlays = s.validOverlays /\ n.sources = s.sources /\ n.serial = s.serial
      /\ n.validated = s.validated
  BY DEF SessionType, Moved, Histories
<1> HIDE DEF n
<1>2. \A c, rs : SessionGood(c, s, rs) => SessionGood(c, n, rs)
  BY <1>1 DEF SessionGood, Results, Overlays
<1> QED
  BY <1>1, <1>2 DEF n

-------------------------------------------------------------------------------
(* The methods, one by one *)

\* A window with another session of case c, which it has a history of.
With(w, c, s) == [w EXCEPT !.tabs[c] = s]

LEMMA WithDoes ==
    ASSUME NEW w \in Windows, NEW c \in Cases, NEW s \in SessionType \cup {None}
    PROVE  LET n == With(w, c, s) IN
           /\ n \in Windows /\ n.tabs[c] = s
           /\ \A d \in Cases : d # c => n.tabs[d] = w.tabs[d]
           /\ n.store = w.store /\ n.active = w.active /\ n.receipt = w.receipt /\ n.view = w.view
           /\ n.flag = w.flag /\ n.typed = w.typed /\ n.pending = w.pending /\ n.shown = w.shown
           /\ n.serial = w.serial /\ n.ok = w.ok
<1> DEFINE t == [w.tabs EXCEPT ![c] = s]
<1>1. t \in [Cases -> SessionType \cup {None}] /\ t[c] = s /\ \A d \in Cases : d # c => t[d] = w.tabs[d]
  BY WindowFields
<1>2. With(w, c, s) = [w EXCEPT !.tabs = t]
  BY DEF With, Windows
<1> HIDE DEF t
<1> QED
  BY <1>1, <1>2 DEF Windows

LEMMA WithSound ==
    ASSUME NEW w, NEW rs, Sound(w, rs), NEW c \in Cases, w.store[c] # None,
           NEW s \in SessionType, SessionGood(c, s, rs), w.active # None
    PROVE  Sound(With(w, c, s), rs)
<1> DEFINE n == With(w, c, s)
<1>1. w \in Windows /\ s # None
  BY Apart DEF Sound
<1>2. /\ n \in Windows /\ n.tabs[c] = s /\ n.store = w.store /\ n.active = w.active
      /\ n.typed = w.typed /\ n.pending = w.pending
      /\ \A d \in Cases : d # c => n.tabs[d] = w.tabs[d]
  BY <1>1, WithDoes
<1> HIDE DEF n
<1>3. w.active \in Cases
  BY <1>1, WindowFields
<1> QED
  BY <1>1, <1>2, <1>3 DEF n, Sound, Form, Fronted, Backed, Sessions

LEMMA SerialDoes ==
    ASSUME NEW v \in Windows, NEW n \in 0 .. MaxSerial
    PROVE  LET b == [v EXCEPT !.serial = n] IN
           /\ b \in Windows /\ b.tabs = v.tabs /\ b.store = v.store /\ b.pending = v.pending
           /\ b.ok = v.ok /\ b.typed = v.typed
BY DEF Windows

LEMMA FrontDoes ==
    ASSUME NEW v \in Windows, NEW c \in Cases
    PROVE  LET b == [v EXCEPT !.active = c] IN
           /\ b \in Windows /\ b.tabs = v.tabs /\ b.store = v.store /\ b.pending = v.pending
           /\ b.ok = v.ok /\ b.typed = v.typed /\ b.active = c /\ b.serial = v.serial
BY DEF Windows

LEMMA AdoptDoes ==
    ASSUME NEW w \in Windows, NEW rs, Backed(w), Sessions(w, rs), Form(w), NEW c \in Cases,
           NEW h \in Histories, w.store[c] # None, w.serial < MaxSerial \/ w.tabs[c] # None
    PROVE  LET n == Adopt(w, c, h) IN
           /\ Good(n, rs) /\ n.store = w.store /\ n.active = c /\ n.pending = w.pending
           /\ n.ok = w.ok /\ n.typed \in {None, w.typed}
           /\ n.tabs[c] # None /\ \A d \in Cases : d # c => n.tabs[d] = w.tabs[d]
           /\ w.tabs[c] # None => n.serial = w.serial
<1>1. c # None
  BY Apart
<1>2. \E a \in Windows :
         /\ a.tabs[c] # None /\ SessionGood(c, a.tabs[c], rs)
         /\ \A d \in Cases : d # c => a.tabs[d] = w.tabs[d]
         /\ a.store = w.store /\ a.pending = w.pending /\ a.ok = w.ok /\ a.typed = w.typed
         /\ Adopt(w, c, h) = Refresh([a EXCEPT !.active = c])
         /\ w.tabs[c] # None => a.serial = w.serial
  <2>2. CASE w.tabs[c] = None
    <3> DEFINE s == CaseSession(h, w.serial + 1)
               a == [w EXCEPT !.tabs[c] = s, !.serial = @ + 1]
    <3>1. w.serial + 1 \in 1 .. MaxSerial /\ w.serial + 1 \in 0 .. MaxSerial
      BY <2>2, WindowFields, BoundsAssumption
    <3>2. s \in SessionType /\ s # None /\ SessionGood(c, s, rs)
      BY <3>1, CaseSessionDoes
    <3>3. Adopt(w, c, h) = Refresh([a EXCEPT !.active = c])
      BY <1>1, <2>2 DEF Adopt, IsOpen
    <3> HIDE DEF s
    <3>4. a = [With(w, c, s) EXCEPT !.serial = w.serial + 1]
      BY DEF With, Windows
    <3> HIDE DEF a
    <3>5. With(w, c, s) \in Windows
      BY <3>2, WithDoes
    <3>6. /\ a \in Windows /\ a.tabs = With(w, c, s).tabs /\ a.store = With(w, c, s).store
          /\ a.pending = With(w, c, s).pending /\ a.ok = With(w, c, s).ok
          /\ a.typed = With(w, c, s).typed
      BY <3>1, <3>4, <3>5, SerialDoes
    <3>7. /\ a.tabs[c] = s /\ \A d \in Cases : d # c => a.tabs[d] = w.tabs[d]
          /\ a.store = w.store /\ a.pending = w.pending /\ a.ok = w.ok /\ a.typed = w.typed
      BY <3>2, <3>6, WithDoes
    <3> QED
      BY <2>2, <3>2, <3>3, <3>6, <3>7
  <2>3. CASE w.tabs[c] # None
    <3> DEFINE m == Moved(w.tabs[c], h)
               s == IF m.validated = Content(h) THEN m ELSE Invalidated(m)
               a == With(w, c, s)
    <3>1. w.tabs[c] \in SessionType /\ SessionGood(c, w.tabs[c], rs)
      BY <2>3, WindowFields DEF Sessions
    <3>2. m \in SessionType /\ SessionGood(c, m, rs)
      BY <3>1, MovedDoes
    <3>3. Adopt(w, c, h) = Refresh([a EXCEPT !.active = c])
      BY <1>1, <2>3 DEF Adopt, IsOpen, Moved, With
    <3> HIDE DEF m
    <3>4. s \in SessionType /\ SessionGood(c, s, rs) /\ s # None
      BY <3>2, InvalidatedDoes, Apart
    <3> HIDE DEF s
    <3>5. /\ a \in Windows /\ a.tabs[c] = s /\ \A d \in Cases : d # c => a.tabs[d] = w.tabs[d]
          /\ a.store = w.store /\ a.pending = w.pending /\ a.ok = w.ok /\ a.typed = w.typed
          /\ a.serial = w.serial
      BY <3>4, WithDoes
    <3> HIDE DEF a
    <3> QED
      BY <3>3, <3>4, <3>5
  <2> QED
    BY <2>2, <2>3
<1>3. PICK a \in Windows :
         /\ a.tabs[c] # None /\ SessionGood(c, a.tabs[c], rs)
         /\ \A d \in Cases : d # c => a.tabs[d] = w.tabs[d]
         /\ a.store = w.store /\ a.pending = w.pending /\ a.ok = w.ok /\ a.typed = w.typed
         /\ Adopt(w, c, h) = Refresh([a EXCEPT !.active = c])
         /\ w.tabs[c] # None => a.serial = w.serial
  BY <1>2
<1> DEFINE b == [a EXCEPT !.active = c]
<1>4. /\ b \in Windows /\ b.tabs = a.tabs /\ b.store = w.store /\ b.pending = w.pending
      /\ b.ok = w.ok /\ b.typed = w.typed /\ b.active = c /\ b.serial = a.serial
  BY <1>3, FrontDoes
<1>5. Adopt(w, c, h) = Refresh(b)
  BY <1>3
<1> HIDE DEF b
<1>6. Sound(b, rs)
  BY <1>1, <1>3, <1>4 DEF Sound, Form, Fronted, Backed, Sessions
<1> DEFINE n == Refresh(b)
<1>7. /\ Good(n, rs) /\ n.store = b.store /\ n.tabs = b.tabs /\ n.active = b.active
      /\ n.pending = b.pending /\ n.ok = b.ok /\ n.serial = b.serial /\ n.typed \in {None, b.typed}
  BY <1>6, RefreshDoes
<1> HIDE DEF n
<1>8. n.tabs[c] # None /\ \A d \in Cases : d # c => n.tabs[d] = w.tabs[d]
  BY <1>3, <1>4, <1>7
<1>9. w.tabs[c] # None => n.serial = w.serial
  BY <1>3, <1>4, <1>7
<1>10. n.typed \in {None, w.typed}
  BY <1>4, <1>7
<1> QED
  BY <1>4, <1>5, <1>7, <1>8, <1>9, <1>10 DEF n

\* One of the plain fields is set.
LEMMA OkDoes ==
    ASSUME NEW w, NEW rs, Good(w, rs), NEW b \in BOOLEAN
    PROVE  LET n == [w EXCEPT !.ok = b] IN
           /\ Good(n, rs) /\ n.ok = b /\ n.store = w.store /\ n.tabs = w.tabs
           /\ n.active = w.active /\ n.pending = w.pending /\ n.typed = w.typed
           /\ n.serial = w.serial
<1> DEFINE n == [w EXCEPT !.ok = b]
<1>1. /\ n \in Windows /\ n.ok = b /\ n.store = w.store /\ n.tabs = w.tabs
      /\ n.active = w.active /\ n.pending = w.pending /\ n.typed = w.typed
      /\ n.receipt = w.receipt /\ n.view = w.view /\ n.shown = w.shown /\ n.serial = w.serial
  BY DEF Good, Sound, Windows
<1> HIDE DEF n
<1>2. Good(n, rs)
  BY <1>1 DEF Good, Sound, Form, Fronted, Backed, Sessions, FrontReceipt, FrontView, OnScreen
<1> QED
  BY <1>1, <1>2 DEF n

LEMMA PendingDoes ==
    ASSUME NEW w, NEW rs, Good(w, rs)
    PROVE  LET n == [w EXCEPT !.pending = << >>] IN
           /\ Good(n, rs) /\ n.ok = w.ok /\ n.store = w.store /\ n.tabs = w.tabs
           /\ n.active = w.active /\ n.pending = << >> /\ n.typed = w.typed /\ n.serial = w.serial
<1> DEFINE n == [w EXCEPT !.pending = << >>]
<1>1. /\ n \in Windows /\ n.ok = w.ok /\ n.store = w.store /\ n.tabs = w.tabs
      /\ n.active = w.active /\ n.pending = << >> /\ n.typed = w.typed
      /\ n.receipt = w.receipt /\ n.view = w.view /\ n.shown = w.shown /\ n.serial = w.serial
  <2>1. << >> \in Seq(Receipts) /\ w \in Windows
    BY DEF Good, Sound
  <2> QED
    BY <2>1 DEF Windows
<1> HIDE DEF n
<1>2. Good(n, rs)
  BY <1>1 DEF Good, Sound, Form, Fronted, Backed, Sessions, FrontReceipt, FrontView, OnScreen
<1> QED
  BY <1>1, <1>2 DEF n

LEMMA StoreDoes ==
    ASSUME NEW w \in Windows, NEW c \in Cases, NEW h \in Histories
    PROVE  LET n == [w EXCEPT !.store[c] = h] IN
           /\ n \in Windows /\ n.store[c] = h
           /\ \A d \in Cases : d # c => n.store[d] = w.store[d]
           /\ n.ok = w.ok /\ n.tabs = w.tabs /\ n.active = w.active /\ n.pending = w.pending
           /\ n.typed = w.typed /\ n.receipt = w.receipt /\ n.view = w.view /\ n.shown = w.shown
           /\ n.serial = w.serial
<1> DEFINE t == [w.store EXCEPT ![c] = h]
<1>1. /\ t \in [Cases -> Histories \cup {None}] /\ t[c] = h
      /\ \A d \in Cases : d # c => t[d] = w.store[d]
  BY WindowFields
<1>2. [w EXCEPT !.store[c] = h] = [w EXCEPT !.store = t]
  BY DEF Windows
<1> HIDE DEF t
<1> QED
  BY <1>1, <1>2 DEF Windows

\* The window is about the same tabs, and nothing new is typed.
Follows(w, n) ==
    /\ n.active = w.active /\ n.serial = w.serial /\ n.typed \in {None, w.typed}
    /\ \A d \in Cases : n.tabs[d] = None <=> w.tabs[d] = None

\* The history of case c has one more entry, of content e.
Grown(old, new, c, e) ==
    /\ c \in Cases /\ old[c] # None /\ new[c] # None
    /\ Len(new[c]) = Len(old[c]) + 1 /\ Len(old[c]) \in Nat /\ new[c][Len(new[c])] = e
    /\ \A d \in Cases : d # c => new[d] = old[d]

\* The session in front takes the receipt and the view of the window, if they are its own.
Remembered(s, r, v) == [s EXCEPT !.receipt = r, !.view = v]

LEMMA RememberedDoes ==
    ASSUME NEW s \in SessionType, NEW r \in Receipts \cup {None}, NEW v \in Runs \cup {None},
           NEW c, NEW rs, SessionGood(c, s, rs),
           r # None => r.case = c /\ r.content = s.validated,
           v # None => v \in DOMAIN rs /\ rs[v].case = c
    PROVE  LET n == Remembered(s, r, v) IN
           /\ n \in SessionType /\ SessionGood(c, n, rs) /\ Screen(n) = Screen(s)
           /\ n.validated = s.validated
<1> DEFINE n == Remembered(s, r, v)
<1>1. /\ n \in SessionType /\ n.state = s.state /\ n.preview = s.preview /\ n.receipt = r
      /\ n.view = v /\ n.workbook = s.workbook /\ n.overlays = s.overlays
      /\ n.validOverlays = s.validOverlays /\ n.sources = s.sources /\ n.serial = s.serial
      /\ n.validated = s.validated
  BY DEF SessionType, Remembered, Receipts
<1> HIDE DEF n
<1>2. Screen(n) = Screen(s)
  BY <1>1 DEF Screen, Result_is_stale, Document
<1>3. SessionGood(c, n, rs)
  BY <1>1 DEF SessionGood, Results, Overlays
<1> QED
  BY <1>1, <1>2, <1>3 DEF n

\* The front of a window with another session, which shows the same.
LEMMA FrontWith ==
    ASSUME NEW w, NEW rs, Good(w, rs), w.active # None, NEW s \in SessionType,
           SessionGood(w.active, s, rs), Screen(s) = Screen(w.tabs[w.active]),
           w.receipt # None /\ w.receipt.case = w.active => w.receipt.content = s.validated
    PROVE  Good(With(w, w.active, s), rs) /\ Follows(w, With(w, w.active, s))
<1> DEFINE n == With(w, w.active, s)
<1>1. w \in Windows /\ w.active \in Cases /\ w.tabs[w.active] # None /\ s # None
  BY WindowFields, Apart DEF Good, Sound, Fronted
<1>2. w.store[w.active] # None
  BY <1>1 DEF Good, Sound, Backed
<1>3. Sound(n, rs)
  BY <1>1, <1>2, WithSound DEF Good
<1>4. /\ n.tabs[w.active] = s /\ \A d \in Cases : d # w.active => n.tabs[d] = w.tabs[d]
      /\ n.active = w.active /\ n.receipt = w.receipt /\ n.view = w.view /\ n.shown = w.shown
      /\ n.serial = w.serial /\ n.typed = w.typed
  BY <1>1, WithDoes
<1> HIDE DEF n
<1>5. Good(n, rs) /\ Follows(w, n)
  BY <1>1, <1>3, <1>4 DEF Good, FrontReceipt, FrontView, OnScreen, Follows
<1> QED
  BY <1>5 DEF n

LEMMA RememberDoes ==
    ASSUME NEW w, Good(w, runs)
    PROVE  LET n == Remember_view(w) IN
           /\ Good(n, runs) /\ Follows(w, n) /\ n.store = w.store /\ n.pending = w.pending
           /\ n.ok = w.ok /\ n.typed = w.typed
<1>1. CASE w.active = None
  BY <1>1 DEF Remember_view, Follows
<1>2. CASE w.active # None
  <2> DEFINE s == w.tabs[w.active]
             r == IF w.receipt # None /\ w.receipt.case = w.active THEN w.receipt ELSE s.receipt
             v == IF w.view # None /\ runs[w.view].case = w.active THEN w.view ELSE s.view
             m == Remembered(s, r, v)
  <2>1. w \in Windows /\ w.active \in Cases /\ s \in SessionType /\ SessionGood(w.active, s, runs)
    BY <1>2, WindowFields DEF Good, Sound, Fronted, Sessions
  <2>2. /\ r \in Receipts \cup {None} /\ v \in Runs \cup {None}
        /\ r # None => r.case = w.active /\ r.content = s.validated
        /\ v # None => v \in DOMAIN runs /\ runs[v].case = w.active
    BY <2>1, WindowFields, SessionFields
    DEF Good, FrontReceipt, FrontView, SessionGood, Results
  <2>3. /\ m \in SessionType /\ SessionGood(w.active, m, runs) /\ Screen(m) = Screen(s)
        /\ m.validated = s.validated
    <3> HIDE DEF s, r, v
    <3> QED
      BY <2>1, <2>2, RememberedDoes
  <2>4. Remember_view(w) = With(w, w.active, m)
    BY <1>2, Zenon DEF Remember_view, With, Remembered, Session
  <2>5. w.receipt # None /\ w.receipt.case = w.active => w.receipt.content = m.validated
    BY <2>3 DEF Good, FrontReceipt
  <2> HIDE DEF m
  <2>6. Good(With(w, w.active, m), runs) /\ Follows(w, With(w, w.active, m))
    BY <1>2, <2>3, <2>5, FrontWith
  <2> QED
    BY <2>1, <2>3, <2>4, <2>6, WithDoes
<1> QED
  BY <1>1, <1>2

\* The content that is appended to a history is its last.
LEMMA Extended ==
    ASSUME NEW h \in Histories, NEW e \in Contents
    PROVE  LET n == Append(h, e) IN
           /\ n \in Histories /\ Len(n) = Len(h) + 1 /\ n[Len(n)] = e /\ Len(h) \in Nat
BY DEF Histories

\* The active tab is open, and its case has a history.
LEMMA FrontIs ==
    ASSUME NEW w, NEW rs, Good(w, rs), w.active # None
    PROVE  /\ w.active \in Cases /\ w.tabs[w.active] # None /\ w.tabs[w.active] \in SessionType
           /\ SessionGood(w.active, w.tabs[w.active], rs)
           /\ w.store[w.active] # None /\ w.store[w.active] \in Histories
           /\ w.tabs[w.active].state \in Histories
           /\ w.shown = Screen(w.tabs[w.active])
<1>1. w \in Windows /\ w.active \in Cases /\ w.tabs[w.active] # None
  BY WindowFields DEF Good, Sound, Fronted
<1>2. w.tabs[w.active] \in SessionType /\ w.store[w.active] # None
  BY <1>1, WindowFields DEF Good, Sound, Backed
<1> QED
  BY <1>1, <1>2, WindowFields, SessionFields DEF Good, Sound, Sessions, OnScreen

LEMMA CommitDoes ==
    ASSUME NEW w, NEW rs, Good(w, rs), w.active # None, NEW e \in Contents
    PROVE  LET n == Commit(w, e) IN
           /\ Good(n, rs) /\ Follows(w, n) /\ n.pending = w.pending
           /\ n.store = w.store \/ Grown(w.store, n.store, w.active, e)
           /\ n.ok => w.ok /\ Grown(w.store, n.store, w.active, e)
<1> DEFINE c == w.active
           h == Append(w.tabs[c].state, e)
           v == [w EXCEPT !.store[c] = h]
<1>1. w \in Windows /\ Backed(w) /\ Sessions(w, rs) /\ Form(w)
  BY DEF Good, Sound
<1>2. CASE AtHead(w, c)
  <2>1. /\ h \in Histories /\ h # None /\ Len(h) = Len(w.store[c]) + 1 /\ h[Len(h)] = e
        /\ Len(w.store[c]) \in Nat
    BY <1>2, Extended, FrontIs, Apart, ZenonT(40) DEF AtHead
  <2>2. Commit(w, e) = Adopt(v, c, h)
    BY <1>2 DEF Commit, Session
  <2> HIDE DEF h
  <2>3. /\ v \in Windows /\ v.store[c] = h /\ \A d \in Cases : d # c => v.store[d] = w.store[d]
        /\ v.ok = w.ok /\ v.tabs = w.tabs /\ v.pending = w.pending /\ v.typed = w.typed
        /\ v.serial = w.serial
    BY <1>1, <2>1, FrontIs, StoreDoes
  <2> HIDE DEF v
  <2>4. c \in Cases /\ v.tabs[c] # None /\ w.store[c] # None
    BY <2>3, FrontIs
  <2>5. Backed(v) /\ Sessions(v, rs) /\ Form(v)
    BY <1>1, <2>1, <2>3 DEF Backed, Sessions, Form
  <2> DEFINE n == Adopt(v, c, h)
  <2>6. /\ Good(n, rs) /\ n.store = v.store /\ n.active = c /\ n.pending = v.pending
        /\ n.ok = v.ok /\ n.typed \in {None, v.typed}
        /\ n.tabs[c] # None /\ \A d \in Cases : d # c => n.tabs[d] = v.tabs[d]
        /\ n.serial = v.serial
    BY <2>1, <2>3, <2>4, <2>5, AdoptDoes
  <2> HIDE DEF n
  <2>7. Follows(w, n)
    BY <2>3, <2>4, <2>6 DEF Follows
  <2>8. Grown(w.store, n.store, c, e)
    BY <2>1, <2>3, <2>4, <2>6 DEF Grown
  <2> QED
    BY <2>2, <2>3, <2>6, <2>7, <2>8 DEF n
<1>3. CASE ~ AtHead(w, c)
  <2>1. Commit(w, e) = [w EXCEPT !.ok = FALSE]
    BY <1>3 DEF Commit, Fails
  <2> QED
    BY <2>1, OkDoes, ZenonT(40) DEF Follows
<1> QED
  BY <1>2, <1>3

LEMMA FollowsBoth ==
    ASSUME NEW u, NEW v, NEW w, Follows(u, v), Follows(v, w)
    PROVE  Follows(u, w)
BY DEF Follows

LEMMA Refreshed ==
    ASSUME NEW w, NEW rs, Good(w, rs)
    PROVE  /\ Good(Refresh(w), rs) /\ Follows(w, Refresh(w)) /\ Refresh(w).store = w.store
           /\ Refresh(w).pending = w.pending /\ Refresh(w).ok = w.ok
BY RefreshDoes DEF Good, Follows

LEMMA ApplyEditDoes ==
    ASSUME NEW w, Good(w, runs), w.active # None, NEW e \in Contents
    PROVE  LET n == Apply_edit(w, e) IN
           /\ Good(n, runs) /\ Follows(w, n) /\ n.pending = w.pending
           /\ n.store = w.store \/ Grown(w.store, n.store, w.active, e)
           /\ n.ok => w.ok /\ Grown(w.store, n.store, w.active, e)
<1> DEFINE m == Remember_view(w)
           asked == Commit(m, e)
<1>1. Good(m, runs) /\ Follows(w, m) /\ m.store = w.store /\ m.pending = w.pending /\ m.ok = w.ok
  BY RememberDoes
<1>2. w.ok \in BOOLEAN
  BY WindowFields DEF Good, Sound
<1>3. /\ Apply_edit(w, e) = IF Session(w).preview # None THEN Fails(Refresh(w))
                            ELSE IF asked.ok THEN [asked EXCEPT !.ok = w.ok] ELSE Refresh(asked)
  BY DEF Apply_edit
<1> HIDE DEF m
<1>4. m.active = w.active
  BY <1>1 DEF Follows
<1>5. /\ Good(asked, runs) /\ Follows(m, asked) /\ asked.pending = m.pending
      /\ asked.store = m.store \/ Grown(m.store, asked.store, m.active, e)
      /\ asked.ok => m.ok /\ Grown(m.store, asked.store, m.active, e)
  BY <1>1, <1>4, CommitDoes
<1> HIDE DEF asked
<1>6. CASE Session(w).preview # None
  <2> DEFINE n == Refresh(w)
  <2>1. Good(n, runs) /\ Follows(w, n) /\ n.store = w.store /\ n.pending = w.pending
    BY Refreshed
  <2> HIDE DEF n
  <2>2. LET f == [n EXCEPT !.ok = FALSE] IN
        /\ Good(f, runs) /\ Follows(n, f) /\ f.store = n.store /\ f.pending = n.pending /\ ~ f.ok
    BY <2>1, OkDoes DEF Follows
  <2>3. Apply_edit(w, e) = [n EXCEPT !.ok = FALSE]
    BY <1>3, <1>6 DEF Fails, n
  <2> QED
    BY <2>1, <2>2, <2>3, FollowsBoth
<1>7. CASE Session(w).preview = None /\ asked.ok
  <2>1. LET f == [asked EXCEPT !.ok = w.ok] IN
        /\ Good(f, runs) /\ Follows(asked, f) /\ f.store = asked.store
        /\ f.pending = asked.pending /\ f.ok = w.ok
    BY <1>2, <1>5, OkDoes DEF Follows
  <2>2. Apply_edit(w, e) = [asked EXCEPT !.ok = w.ok]
    BY <1>3, <1>7
  <2> DEFINE f == [asked EXCEPT !.ok = w.ok]
  <2>3. Good(f, runs) /\ Follows(asked, f) /\ f.store = asked.store /\ f.pending = asked.pending /\ f.ok = w.ok
    BY <2>1
  <2> HIDE DEF f
  <2>4. Follows(w, f)
    BY <1>1, <1>5, <2>3, FollowsBoth
  <2>5. Grown(w.store, f.store, w.active, e)
    BY <1>1, <1>4, <1>5, <1>7, <2>3
  <2> QED
    BY <1>1, <1>5, <2>2, <2>3, <2>4, <2>5 DEF f
<1>8. CASE Session(w).preview = None /\ ~ asked.ok
  <2> DEFINE f == Refresh(asked)
  <2>1. /\ Good(f, runs) /\ Follows(asked, f) /\ f.store = asked.store
        /\ f.pending = asked.pending /\ f.ok = asked.ok
    BY <1>5, Refreshed
  <2>2. Apply_edit(w, e) = f
    BY <1>3, <1>8
  <2> HIDE DEF f
  <2>3. Follows(w, f)
    BY <1>1, <1>5, <2>1, FollowsBoth
  <2> QED
    BY <1>1, <1>4, <1>5, <1>8, <2>1, <2>2, <2>3
<1> QED
  BY <1>6, <1>7, <1>8

\* A finished input waits for the history; nothing that is shown changes.
LEMMA ScheduleDoes ==
    ASSUME NEW w, NEW rs, Good(w, rs)
    PROVE  LET n == Schedule_input_edit(w) IN
           /\ Good(n, rs) /\ Follows(w, n) /\ n.store = w.store /\ n.ok = w.ok /\ n.typed = None
           /\ n.pending = IF w.typed = None THEN w.pending ELSE <<w.typed>>
<1>1. w \in Windows /\ Form(w)
  BY DEF Good, Sound
<1>2. CASE w.typed = None
  BY <1>2 DEF Schedule_input_edit, Follows
<1>3. CASE w.typed # None
  <2> DEFINE c == w.active
             s == Invalidated(w.tabs[c])
             u == With(w, c, s)
             n == [w EXCEPT !.pending = Append(@, w.typed), !.typed = None, !.receipt = None,
                            !.tabs[w.active] = Invalidated(@)]
  <2>1. c # None
    BY <1>3 DEF Good, Sound, Fronted
  <2>2. /\ c \in Cases /\ w.tabs[c] \in SessionType /\ w.store[c] # None
        /\ SessionGood(c, w.tabs[c], rs) /\ w.shown = Screen(w.tabs[c])
    BY <2>1, FrontIs
  <2>3. s \in SessionType /\ s # None /\ SessionGood(c, s, rs) /\ Screen(s) = Screen(w.tabs[c])
    BY <2>2, InvalidatedDoes, Apart
  <2>4. /\ w.pending = << >> /\ Append(w.pending, w.typed) = <<w.typed>>
        /\ <<w.typed>> \in Seq(Receipts) /\ Len(<<w.typed>>) = 1
    <3>1. w.pending = << >> /\ w.typed \in Receipts
      BY <1>1, <1>3, WindowFields DEF Form
    <3> QED
      BY <3>1
  <2>5. Schedule_input_edit(w) = n
    BY <1>3 DEF Schedule_input_edit
  <2>6. n = [u EXCEPT !.pending = <<w.typed>>, !.typed = None, !.receipt = None]
    BY <1>1, <2>4 DEF With, Windows
  <2> HIDE DEF n, s
  <2>7. Sound(u, rs)
    BY <2>1, <2>2, <2>3, WithSound DEF Good
  <2>8. /\ u \in Windows /\ u.tabs[c] = s /\ \A d \in Cases : d # c => u.tabs[d] = w.tabs[d]
        /\ u.store = w.store /\ u.active = c /\ u.view = w.view /\ u.shown = w.shown
        /\ u.serial = w.serial /\ u.ok = w.ok
    BY <1>1, <2>2, <2>3, WithDoes
  <2> HIDE DEF u
  <2>9. /\ n \in Windows /\ n.pending = <<w.typed>> /\ n.typed = None /\ n.receipt = None
        /\ n.tabs = u.tabs /\ n.store = u.store /\ n.active = u.active /\ n.view = u.view
        /\ n.shown = u.shown /\ n.serial = u.serial /\ n.ok = u.ok
    BY <2>4, <2>6, <2>8 DEF Windows
  <2>10. Sound(n, rs)
    BY <2>1, <2>4, <2>7, <2>8, <2>9 DEF Sound, Form, Fronted, Backed, Sessions
  <2>11. Good(n, rs)
    BY <2>1, <2>2, <2>3, <2>8, <2>9, <2>10 DEF Good, FrontReceipt, FrontView, OnScreen
  <2>12. Follows(w, n)
    BY <2>2, <2>3, <2>8, <2>9, Apart DEF Follows
  <2> QED
    BY <1>3, <2>5, <2>8, <2>9, <2>11, <2>12
<1> QED
  BY <1>2, <1>3

\* Another session that shows nothing is told of the new state of its history.
Stated(s, h) == [s EXCEPT !.state = h]

LEMMA StatedDoes ==
    ASSUME NEW s \in SessionType, NEW h \in Histories
    PROVE  /\ Stated(s, h) \in SessionType
           /\ \A c, rs : SessionGood(c, s, rs) => SessionGood(c, Stated(s, h), rs)
<1> DEFINE n == Stated(s, h)
<1>1. /\ n \in SessionType /\ n.receipt = s.receipt
      /\ n.view = s.view /\ n.workbook = s.workbook /\ n.overlays = s.overlays
      /\ n.validOverlays = s.validOverlays /\ n.sources = s.sources /\ n.serial = s.serial
      /\ n.validated = s.validated
  BY DEF SessionType, Stated, Histories
<1> HIDE DEF n
<1>2. \A c, rs : SessionGood(c, s, rs) => SessionGood(c, n, rs)
  BY <1>1 DEF SessionGood, Results, Overlays
<1> QED
  BY <1>1, <1>2 DEF n

LEMMA ApplyInputDoes ==
    ASSUME NEW w, Good(w, runs), NEW input \in Receipts
    PROVE  LET n == Apply_input(w, input) IN
           /\ Good(n, runs) /\ Follows(w, n) /\ n.pending = w.pending
           /\ n.store = w.store \/ Grown(w.store, n.store, input.case, input.content)
           /\ n.ok => w.ok /\ Grown(w.store, n.store, input.case, input.content)
<1> DEFINE c == input.case
           e == input.content
<1>1. c \in Cases /\ e \in Contents /\ c # None
  BY Apart DEF Receipts
<1>2. w \in Windows /\ Backed(w)
  BY DEF Good, Sound
<1>3. CASE w.tabs[c] = None \/ (c # w.active /\ ~ AtHead(w, c))
  <2>1. Apply_input(w, input) = [w EXCEPT !.ok = FALSE]
    <3>1. c # w.active
      BY <1>1, <1>3, FrontIs
    <3> QED
      BY <1>3, <3>1 DEF Apply_input, IsOpen, Fails
  <2> QED
    BY <2>1, OkDoes, ZenonT(40) DEF Follows
<1>4. CASE w.tabs[c] # None /\ c = w.active
  <2>1. Apply_input(w, input) = Apply_edit(w, e)
    BY <1>1, <1>4 DEF Apply_input, IsOpen
  <2> HIDE DEF e
  <2> QED
    BY <1>1, <1>4, <2>1, ApplyEditDoes DEF e
<1>5. CASE w.tabs[c] # None /\ c # w.active /\ AtHead(w, c)
  <2> DEFINE h == Append(w.tabs[c].state, e)
             s == Stated(w.tabs[c], h)
             v == [w EXCEPT !.store[c] = h]
             n == With(v, c, s)
  <2>1. /\ w.tabs[c] \in SessionType /\ w.tabs[c].state \in Histories /\ w.store[c] # None
        /\ SessionGood(c, w.tabs[c], runs) /\ w.store[c] \in Histories
    BY <1>1, <1>2, <1>5, WindowFields, SessionFields DEF Good, Sound, Sessions, Backed
  <2>2. /\ h \in Histories /\ h # None /\ Len(h) = Len(w.store[c]) + 1 /\ h[Len(h)] = e
        /\ Len(w.store[c]) \in Nat
    BY <1>1, <1>5, <2>1, Extended, Apart, ZenonT(40) DEF AtHead
  <2>3. Apply_input(w, input) = n
    <3>1. Apply_input(w, input) = [w EXCEPT !.store[c] = h, !.tabs[c].state = h]
      BY <1>1, <1>5 DEF Apply_input, IsOpen
    <3> QED
      BY <1>2, <3>1 DEF Windows, With, Stated
  <2> HIDE DEF h
  <2>4. s \in SessionType /\ SessionGood(c, s, runs) /\ s # None
    BY <2>1, <2>2, StatedDoes, Apart
  <2> HIDE DEF s
  <2>5. /\ v \in Windows /\ v.store[c] = h /\ \A d \in Cases : d # c => v.store[d] = w.store[d]
        /\ v.ok = w.ok /\ v.tabs = w.tabs /\ v.active = w.active /\ v.pending = w.pending
        /\ v.typed = w.typed /\ v.receipt = w.receipt /\ v.view = w.view /\ v.shown = w.shown
        /\ v.serial = w.serial
    BY <1>1, <1>2, <2>2, StoreDoes
  <2> HIDE DEF v
  <2>6. /\ n \in Windows /\ n.tabs[c] = s /\ \A d \in Cases : d # c => n.tabs[d] = w.tabs[d]
        /\ n.store = v.store /\ n.active = w.active /\ n.receipt = w.receipt /\ n.view = w.view
        /\ n.typed = w.typed /\ n.pending = w.pending /\ n.shown = w.shown
        /\ n.serial = w.serial /\ n.ok = w.ok
    BY <1>1, <2>4, <2>5, WithDoes
  <2> HIDE DEF n
  <2>7. w.active \in Cases \/ w.active = None
    BY <1>2, WindowFields
  <2>8. Sound(n, runs)
    BY <1>1, <1>5, <2>2, <2>4, <2>5, <2>6, <2>7 DEF Good, Sound, Form, Fronted, Backed, Sessions
  <2>9. FrontReceipt(n) /\ OnScreen(n) /\ FrontView(n, runs)
    <3>1. w.active # None => n.tabs[w.active] = w.tabs[w.active]
      BY <1>5, <2>6, <2>7
    <3>2. w.receipt # None => w.receipt.case # None
      BY <1>2, WindowFields, Apart DEF Receipts
    <3>3. FrontReceipt(n)
      BY <2>6, <3>1, <3>2 DEF Good, FrontReceipt
    <3>4. OnScreen(n)
      BY <2>6, <3>1 DEF Good, OnScreen
    <3> QED
      BY <2>6, <3>3, <3>4 DEF Good, FrontView
  <2>10. Follows(w, n)
    BY <1>5, <2>4, <2>6 DEF Follows
  <2>11. Grown(w.store, n.store, c, e)
    BY <1>1, <2>1, <2>2, <2>5, <2>6 DEF Grown
  <2> QED
    BY <2>3, <2>6, <2>8, <2>9, <2>10, <2>11 DEF Good
<1> QED
  BY <1>3, <1>4, <1>5

\* The input that is finished before a step of another kind.  Each of it is an entry of its
\* own case afterwards, if that is said.
LEMMA FlushDoes ==
    ASSUME NEW w, Good(w, runs)
    PROVE  LET n == Flush_input_edits(w) IN
           /\ Good(n, runs) /\ Follows(w, n) /\ n.typed = None /\ n.pending = << >>
           /\ n.store = w.store \/ \E input \in Receipts :
                                     Grown(w.store, n.store, input.case, input.content)
           /\ n.ok => w.ok /\ \A input \in Range(w.pending) \cup ({w.typed} \ {None}) :
                                Grown(w.store, n.store, input.case, input.content)
<1> DEFINE u == Schedule_input_edit(w)
           v == [u EXCEPT !.pending = << >>]
           p == u.pending
<1>1. /\ Good(u, runs) /\ Follows(w, u) /\ u.store = w.store /\ u.ok = w.ok /\ u.typed = None
      /\ p = IF w.typed = None THEN w.pending ELSE <<w.typed>>
  BY ScheduleDoes
<1>2. /\ w.typed \in Receipts \cup {None} /\ w.pending \in Seq(Receipts) /\ Len(w.pending) <= 1
      /\ w.typed # None => w.pending = << >>
  BY WindowFields DEF Good, Sound, Form
<1>3. p \in Seq(Receipts) /\ Len(p) \in {0, 1}
  BY <1>1, <1>2
<1>4. \A input \in Range(w.pending) \cup ({w.typed} \ {None}) : Len(p) = 1 /\ input = p[1]
  BY <1>1, <1>2 DEF Range
<1>5. Flush_input_edits(w) = IF Len(p) = 0 THEN v ELSE Apply_input(v, p[1])
  <2> DEFINE Steps(f) == [n \in 0 .. Len(p) |-> IF n = 0 THEN v ELSE Apply_input(f[n - 1], p[n])]
             applied == CHOOSE f : f = Steps(f)
             g == [n \in 0 .. Len(p) |-> IF n = 0 THEN v ELSE Apply_input(v, p[n])]
  <2>1. Flush_input_edits(w) = applied[Len(p)]
    BY DEF Flush_input_edits
  <2> HIDE DEF u, v, p
  <2>2. g = Steps(g)
    <3>1. \A n \in 0 .. Len(p) : n = 0 \/ (n = 1 /\ n - 1 = 0)
      <4>1. \A k \in {0, 1} : \A n \in 0 .. k : n = 0 \/ (n = 1 /\ n - 1 = 0)
        OBVIOUS
      <4> QED
        BY <1>3, <4>1, Zenon
    <3>2. 0 \in 0 .. Len(p) /\ g[0] = v
      BY <1>3
    <3>3. \A n \in 0 .. Len(p) : g[n] = Steps(g)[n]
      BY <3>1, <3>2
    <3> QED
      BY <3>3
  <2>3. applied = Steps(applied)
    BY <2>2
  <2> HIDE DEF applied
  <2>4. applied[0] = v
    BY <1>3, <2>3
  <2>5. Len(p) = 1 => applied[1] = Apply_input(v, p[1])
    BY <2>3, <2>4
  <2> QED
    BY <1>3, <2>1, <2>4, <2>5
<1> HIDE DEF p, u
<1>6. /\ Good(v, runs) /\ v.ok = u.ok /\ v.store = u.store /\ v.pending = << >>
      /\ v.typed = None /\ Follows(u, v)
  BY <1>1, PendingDoes DEF Follows
<1> HIDE DEF v
<1>7. Follows(w, v)
  BY <1>1, <1>6, FollowsBoth
<1>8. CASE Len(p) = 0
  BY <1>1, <1>4, <1>5, <1>6, <1>7, <1>8
<1>9. CASE Len(p) = 1
  <2> DEFINE n == Apply_input(v, p[1])
  <2>1. p[1] \in Receipts
    BY <1>3, <1>9
  <2>2. /\ Good(n, runs) /\ Follows(v, n) /\ n.pending = << >>
        /\ n.store = v.store \/ Grown(v.store, n.store, p[1].case, p[1].content)
        /\ n.ok => v.ok /\ Grown(v.store, n.store, p[1].case, p[1].content)
    BY <1>6, <2>1, ApplyInputDoes
  <2>3. Flush_input_edits(w) = n
    BY <1>5, <1>9
  <2> HIDE DEF n
  <2>4. Follows(w, n) /\ n.typed = None
    BY <1>6, <1>7, <2>2, FollowsBoth DEF Follows
  <2> QED
    BY <1>1, <1>4, <1>6, <2>1, <2>2, <2>3, <2>4
<1> QED
  BY <1>3, <1>8, <1>9

\* Other plain fields are set.
LEMMA FlagDoes ==
    ASSUME NEW w, NEW rs, Good(w, rs), NEW b \in BOOLEAN
    PROVE  LET n == [w EXCEPT !.flag = b] IN
           /\ Good(n, rs) /\ n.store = w.store /\ n.tabs = w.tabs /\ n.active = w.active
<1> DEFINE n == [w EXCEPT !.flag = b]
<1>1. /\ n \in Windows /\ n.store = w.store /\ n.tabs = w.tabs
      /\ n.active = w.active /\ n.pending = w.pending /\ n.typed = w.typed
      /\ n.receipt = w.receipt /\ n.view = w.view /\ n.shown = w.shown
  BY DEF Good, Sound, Windows
<1> HIDE DEF n
<1>2. Good(n, rs)
  BY <1>1 DEF Good, Sound, Form, Fronted, Backed, Sessions, FrontReceipt, FrontView, OnScreen
<1> QED
  BY <1>1, <1>2 DEF n

LEMMA ReceiptDoes ==
    ASSUME NEW w, NEW rs, Sound(w, rs), NEW r \in Receipts \cup {None}
    PROVE  LET n == [w EXCEPT !.receipt = r] IN
           /\ Sound(n, rs) /\ n.receipt = r /\ n.store = w.store /\ n.tabs = w.tabs
           /\ n.active = w.active /\ n.pending = w.pending /\ n.typed = w.typed
           /\ n.view = w.view /\ n.shown = w.shown
<1> DEFINE n == [w EXCEPT !.receipt = r]
<1>1. /\ n \in Windows /\ n.store = w.store /\ n.tabs = w.tabs
      /\ n.active = w.active /\ n.pending = w.pending /\ n.typed = w.typed
      /\ n.receipt = r /\ n.view = w.view /\ n.shown = w.shown
  BY DEF Sound, Windows
<1> HIDE DEF n
<1>2. Sound(n, rs)
  BY <1>1 DEF Sound, Form, Fronted, Backed, Sessions
<1> QED
  BY <1>1, <1>2 DEF n

\* Another tab comes to the front of a window whose tabs are sound.
InFront(w, c, r, v) == Refresh([w EXCEPT !.active = c, !.receipt = r, !.view = v])

LEMMA InFrontDoes ==
    ASSUME NEW w \in Windows, NEW rs, Backed(w), Sessions(w, rs), Form(w), NEW c \in Cases,
           w.tabs[c] # None, NEW r \in Receipts \cup {None}, NEW v \in Runs \cup {None}
    PROVE  Good(InFront(w, c, r, v), rs) /\ InFront(w, c, r, v).store = w.store
<1> DEFINE a == [w EXCEPT !.active = c, !.receipt = r, !.view = v]
<1>1. /\ a \in Windows /\ a.active = c /\ a.tabs = w.tabs /\ a.store = w.store
      /\ a.pending = w.pending /\ a.typed = w.typed
  BY DEF Windows
<1> HIDE DEF a
<1>2. Sound(a, rs)
  BY <1>1, Apart DEF Sound, Form, Fronted, Backed, Sessions
<1>3. Good(Refresh(a), rs) /\ Refresh(a).store = w.store
  BY <1>1, <1>2, RefreshDoes
<1> QED
  BY <1>3 DEF a, InFront

LEMMA ActivateDoes ==
    ASSUME NEW w, Good(w, runs), NEW c \in Cases, w.tabs[c] # None
    PROVE  Good(Activate(w, c), runs) /\ Activate(w, c).store = w.store
<1> DEFINE m == Remember_view(w)
           r == w.tabs[c].receipt
           v == w.tabs[c].view
<1>1. Good(m, runs) /\ Follows(w, m) /\ m.store = w.store
  BY RememberDoes
<1>2. w.tabs[c] \in SessionType
  BY WindowFields DEF Good, Sound
<1>3. r \in Receipts \cup {None} /\ v \in Runs \cup {None}
  BY <1>2, SessionFields
<1>4. Activate(w, c) = InFront(m, c, r, v)
  BY DEF Activate, InFront
<1> HIDE DEF m, r, v
<1>5. m \in Windows /\ Backed(m) /\ Sessions(m, runs) /\ Form(m) /\ m.tabs[c] # None
  BY <1>1 DEF Good, Sound, Follows
<1> QED
  BY <1>1, <1>3, <1>4, <1>5, InFrontDoes

\* A session in front shows another document.
Previewed(s, e) == [s EXCEPT !.preview = e]

LEMMA PreviewedDoes ==
    ASSUME NEW s \in SessionType, NEW e \in Contents \cup {None}
    PROVE  /\ Previewed(s, e) \in SessionType
           /\ \A c, rs : SessionGood(c, s, rs) => SessionGood(c, Previewed(s, e), rs)
<1> DEFINE n == Previewed(s, e)
<1>1. /\ n \in SessionType /\ n.receipt = s.receipt
      /\ n.view = s.view /\ n.workbook = s.workbook /\ n.overlays = s.overlays
      /\ n.validOverlays = s.validOverlays /\ n.sources = s.sources /\ n.serial = s.serial
      /\ n.validated = s.validated
  BY DEF SessionType, Previewed
<1> HIDE DEF n
<1>2. \A c, rs : SessionGood(c, s, rs) => SessionGood(c, n, rs)
  BY <1>1 DEF SessionGood, Results, Overlays
<1> QED
  BY <1>1, <1>2 DEF n

LEMMA PreviewDoes ==
    ASSUME NEW w, NEW rs, Good(w, rs), w.active # None, NEW e \in Contents \cup {None}
    PROVE  LET n == Refresh([w EXCEPT !.tabs[w.active].preview = e]) IN
           Good(n, rs) /\ n.active = w.active
<1> DEFINE c == w.active
           s == Previewed(w.tabs[c], e)
           n == With(w, c, s)
<1>1. /\ c \in Cases /\ w.tabs[c] \in SessionType /\ w.store[c] # None
      /\ SessionGood(c, w.tabs[c], rs)
  BY FrontIs
<1>2. w \in Windows
  BY DEF Good, Sound
<1>3. [w EXCEPT !.tabs[w.active].preview = e] = n
  BY <1>1, <1>2 DEF Windows, With, Previewed
<1>4. s \in SessionType /\ SessionGood(c, s, rs)
  BY <1>1, PreviewedDoes
<1> HIDE DEF s
<1>5. Sound(n, rs)
  BY <1>1, <1>4, WithSound DEF Good
<1>6. n.active = w.active
  BY <1>1, <1>2, <1>4, WithDoes
<1> HIDE DEF n
<1>7. Good(Refresh(n), rs) /\ Refresh(n).active = n.active
  BY <1>5, RefreshDoes
<1> QED
  BY <1>3, <1>6, <1>7

-------------------------------------------------------------------------------
(* The results of a run *)

\* A session with the results that were answered of a run, and with the run in view.
Loaded(s, r, answered) ==
    LET kept == IF Is_valid_run(s.view) THEN r ELSE s.validOverlays
    IN  [s EXCEPT !.workbook = IF "workbook" \in answered THEN r ELSE s.workbook,
                  !.overlays = IF "overlays" \in answered THEN kept ELSE s.overlays]
Viewed(s, r) == [s EXCEPT !.sources[r] = runs[r].source, !.view = r]
Settled(s, r) ==
    IF Is_valid_run(r) THEN [s EXCEPT !.validOverlays = s.overlays]
                       ELSE [s EXCEPT !.overlays = s.validOverlays]

LEMMA LoadedDoes ==
    ASSUME NEW s \in SessionType, NEW r \in DOMAIN runs, DOMAIN runs \subseteq Runs, NEW answered,
           SessionGood(runs[r].case, s, runs),
           s.serial # runs[r].serial \/ s.view = r
    PROVE  Loaded(s, r, answered) \in SessionType
           /\ SessionGood(runs[r].case, Loaded(s, r, answered), runs)
<1> DEFINE b == IF "workbook" \in answered THEN r ELSE s.workbook
           kept == IF Is_valid_run(s.view) THEN r ELSE s.validOverlays
           o == IF "overlays" \in answered THEN kept ELSE s.overlays
           n == [s EXCEPT !.workbook = b, !.overlays = o]
<1>1. /\ Loaded(s, r, answered) = n
      /\ b \in {r, s.workbook} /\ o \in {r, s.validOverlays, s.overlays}
      /\ r \in Runs /\ r # None
  BY Apart DEF Loaded
<1>2. o = r => s.serial # runs[r].serial \/ runs[r].result = "valid"
                \/ o \in {s.validOverlays, s.overlays}
  BY DEF Is_valid_run
<1> HIDE DEF b, o
<1>3. b \in Runs \cup {None} /\ o \in Runs \cup {None}
  BY <1>1, SessionFields
<1>4. /\ n \in SessionType /\ n.workbook = b /\ n.overlays = o /\ n.receipt = s.receipt
      /\ n.view = s.view /\ n.validOverlays = s.validOverlays /\ n.sources = s.sources
      /\ n.serial = s.serial /\ n.validated = s.validated
  BY <1>3 DEF SessionType
<1> HIDE DEF n
<1>5. SessionGood(runs[r].case, n, runs)
  BY <1>1, <1>2, <1>4 DEF SessionGood, Results, Overlays
<1> QED
  BY <1>1, <1>4, <1>5

LEMMA ViewedDoes ==
    ASSUME NEW s \in SessionType, NEW r \in DOMAIN runs, DOMAIN runs \subseteq Runs,
           runs[r].source \in Contents, SessionGood(runs[r].case, s, runs)
    PROVE  /\ Viewed(s, r) \in SessionType /\ SessionGood(runs[r].case, Viewed(s, r), runs)
           /\ Viewed(s, r).view = r
<1> DEFINE t == [s.sources EXCEPT ![r] = runs[r].source]
           n == Viewed(s, r)
<1>1. r \in Runs /\ t \in [Runs -> Contents \cup {None}]
      /\ \A q \in Runs : t[q] = IF q = r THEN runs[r].source ELSE s.sources[q]
  BY SessionFields
<1>2. n = [s EXCEPT !.sources = t, !.view = r]
  BY DEF Viewed, SessionType
<1> HIDE DEF t, n
<1>3. /\ n \in SessionType /\ n.view = r /\ n.sources = t /\ n.receipt = s.receipt
      /\ n.workbook = s.workbook /\ n.overlays = s.overlays
      /\ n.validOverlays = s.validOverlays
      /\ n.serial = s.serial /\ n.validated = s.validated
  BY <1>1, <1>2 DEF SessionType
<1>4. SessionGood(runs[r].case, n, runs)
  BY <1>1, <1>3 DEF SessionGood, Results, Overlays
<1> QED
  BY <1>3, <1>4 DEF n

LEMMA SettledDoes ==
    ASSUME NEW s \in SessionType, NEW r, NEW c, NEW rs, SessionGood(c, s, rs)
    PROVE  Settled(s, r) \in SessionType /\ SessionGood(c, Settled(s, r), rs)
<1>1. \A o \in {s.overlays, s.validOverlays} :
         LET n == [s EXCEPT !.overlays = o] IN n \in SessionType /\ SessionGood(c, n, rs)
  <2> SUFFICES ASSUME NEW o \in {s.overlays, s.validOverlays}
               PROVE  LET n == [s EXCEPT !.overlays = o] IN n \in SessionType /\ SessionGood(c, n, rs)
    OBVIOUS
  <2> DEFINE n == [s EXCEPT !.overlays = o]
  <2>1. /\ n \in SessionType /\ n.workbook = s.workbook /\ n.overlays = o
        /\ n.receipt = s.receipt /\ n.view = s.view /\ n.validOverlays = s.validOverlays
        /\ n.sources = s.sources /\ n.serial = s.serial /\ n.validated = s.validated
    BY DEF SessionType
  <2> HIDE DEF n
  <2>2. SessionGood(c, n, rs)
    BY <2>1 DEF SessionGood, Results, Overlays
  <2> QED
    BY <2>1, <2>2 DEF n
<1>2. LET n == [s EXCEPT !.validOverlays = s.overlays] IN n \in SessionType /\ SessionGood(c, n, rs)
  <2> DEFINE n == [s EXCEPT !.validOverlays = s.overlays]
  <2>1. /\ n \in SessionType /\ n.workbook = s.workbook /\ n.overlays = s.overlays
        /\ n.receipt = s.receipt /\ n.view = s.view /\ n.validOverlays = s.overlays
        /\ n.sources = s.sources /\ n.serial = s.serial /\ n.validated = s.validated
    BY DEF SessionType
  <2> HIDE DEF n
  <2>2. SessionGood(c, n, rs)
    BY <2>1 DEF SessionGood, Results, Overlays
  <2> QED
    BY <2>1, <2>2 DEF n
<1> QED
  BY <1>1, <1>2 DEF Settled

LEMMA RunsAre ==
    ASSUME NEW rs, RunsGood(rs)
    PROVE  /\ DOMAIN rs \subseteq Runs /\ DOMAIN rs = 1 .. Len(rs) /\ Len(rs) \in Nat
           /\ \A r \in DOMAIN rs : /\ rs[r] \in Submissions
                                  /\ rs[r].case \in Cases /\ rs[r].source \in Contents
<1>1. rs \in Seq(Submissions) /\ Len(rs) <= MaxRuns
  BY DEF RunsGood
<1>2. DOMAIN rs = 1 .. Len(rs) /\ Len(rs) \in Nat /\ \A r \in DOMAIN rs : rs[r] \in Submissions
  BY <1>1
<1>3. DOMAIN rs \subseteq Runs
  BY <1>1, <1>2, BoundsAssumption DEF Runs
<1> QED
  BY <1>2, <1>3 DEF Submissions

\* The results go to the tab of the run's case, if there is one, whichever is in front.
LEMMA CompletedDoes ==
    ASSUME NEW w, Good(w, runs), RunsGood(runs), NEW r \in DOMAIN runs, NEW answered
    PROVE  /\ Sound(Completed(w, r, answered), runs)
           /\ Completed(w, r, answered).active = w.active
<1> DEFINE run == runs[r]
           c == run.case
           s == w.tabs[c]
<1>1. DOMAIN runs \subseteq Runs /\ c \in Cases /\ run.source \in Contents /\ c # None
  BY Apart, RunsAre
<1>2. w \in Windows /\ Backed(w) /\ Sessions(w, runs)
  BY DEF Good, Sound
<1>3. CASE s = None
  <2>1. Completed(w, r, answered) = w
    BY <1>3 DEF Completed, Attached, IsOpen, Load_run_results
  <2> QED
    BY <2>1 DEF Good
<1>4. CASE s # None
  <2>1. /\ s \in SessionType /\ SessionGood(c, s, runs) /\ w.store[c] # None /\ w.active # None
    BY <1>1, <1>2, <1>4, WindowFields DEF Sessions, Backed, Good, Sound, Fronted
  <2>2. \E m \in SessionType : SessionGood(c, m, runs) /\ Completed(w, r, answered) = With(w, c, m)
    <3>1. CASE ~ Attached(w, run)
      <4> DEFINE m == Loaded(s, r, answered)
      <4>1. s.serial # run.serial
        BY <1>1, <1>4, <3>1 DEF Attached, IsOpen
      <4>2. m \in SessionType /\ SessionGood(c, m, runs)
        BY <1>1, <2>1, <4>1, LoadedDoes
      <4>3. Completed(w, r, answered) = With(w, c, m)
        BY <1>1, <1>4, <3>1 DEF Completed, Load_run_results, IsOpen, With, Loaded
      <4> HIDE DEF m
      <4> QED
        BY <4>2, <4>3
    <3>2. CASE Attached(w, run)
      <4> DEFINE v == Viewed(s, r)
                 l == Loaded(v, r, answered)
                 m == Settled(l, r)
                 u == With(w, c, v)
                 k == With(u, c, l)
      <4>1. v \in SessionType /\ SessionGood(c, v, runs) /\ v.view = r
        BY <1>1, <2>1, ViewedDoes
      <4>2. u = [w EXCEPT !.tabs[run.case].sources[r] = SourceHash(w, r), !.tabs[run.case].view = r]
        BY <1>1, <1>2, <2>1 DEF SourceHash, With, Viewed, Windows, SessionType
      <4>3. Completed(w, r, answered) =
              LET loaded == Load_run_results(u, r, run.case, answered)
              IN  IF Is_valid_run(r)
                  THEN [loaded EXCEPT !.tabs[run.case].validOverlays = loaded.tabs[run.case].overlays]
                  ELSE [loaded EXCEPT !.tabs[run.case].overlays = loaded.tabs[run.case].validOverlays]
        BY <3>2, <4>2, SMTT(30) DEF Completed
      <4> HIDE DEF v
      <4>4. l \in SessionType /\ SessionGood(c, l, runs)
        BY <1>1, <4>1, LoadedDoes
      <4>5. u \in Windows /\ u.tabs[c] = v /\ v # None
        BY <1>1, <1>2, <4>1, WithDoes, Apart
      <4> HIDE DEF u
      <4>6. Load_run_results(u, r, c, answered) = k
        BY <1>1, <4>5 DEF Load_run_results, IsOpen, With, Loaded
      <4> HIDE DEF l
      <4>7. m \in SessionType /\ SessionGood(c, m, runs)
        BY <4>4, SettledDoes
      <4>8. k \in Windows /\ k.tabs[c] = l
        BY <1>1, <4>4, <4>5, WithDoes
      <4>9. Completed(w, r, answered) = With(k, c, m)
        <5> HIDE DEF k
        <5> QED
          BY <1>1, <4>3, <4>6, <4>8 DEF With, Settled, Windows
      <4>10. With(k, c, m) = With(w, c, m)
        BY <1>1, <1>2 DEF u, With, Windows
      <4> HIDE DEF m, k
      <4> QED
        BY <4>7, <4>9, <4>10
    <3> QED
      BY <3>1, <3>2
  <2>3. PICK m \in SessionType :
           SessionGood(c, m, runs) /\ Completed(w, r, answered) = With(w, c, m)
    BY <2>2
  <2>4. Sound(With(w, c, m), runs) /\ With(w, c, m).active = w.active
    BY <1>1, <1>2, <2>1, <2>3, WithSound, WithDoes DEF Good
  <2> QED
    BY <2>3, <2>4
<1> QED
  BY <1>3, <1>4

-------------------------------------------------------------------------------
(* The steps *)

\* Runs are added, and get their results.
Continues(rs, ts) ==
    /\ DOMAIN rs \subseteq DOMAIN ts
    /\ \A r \in DOMAIN rs :
          /\ ts[r].case = rs[r].case /\ ts[r].serial = rs[r].serial /\ ts[r].source = rs[r].source
          /\ rs[r].result = "valid" => ts[r].result = "valid"

LEMMA StaysGood ==
    ASSUME NEW w, NEW rs, NEW ts, Good(w, rs), Continues(rs, ts)
    PROVE  Good(w, ts)
<1>1. \A c, s : SessionGood(c, s, rs) => SessionGood(c, s, ts)
  BY DEF SessionGood, Results, Overlays, Continues
<1>2. Sessions(w, ts)
  BY <1>1 DEF Good, Sound, Sessions
<1>3. FrontView(w, ts)
  BY DEF Good, FrontView, Continues
<1> QED
  BY <1>2, <1>3 DEF Good, Sound

LEMMA Becomes ==
    ASSUME NEW w, NEW rs, Good(w, rs), Become(w)
    PROVE  Good(Now', rs)
<1> DEFINE n == [store |-> w.store, tabs |-> w.tabs, active |-> w.active, receipt |-> w.receipt,
                 view |-> w.view, flag |-> w.flag, typed |-> w.typed, pending |-> w.pending,
                 shown |-> w.shown, serial |-> w.serial, ok |-> TRUE]
<1>1. w \in Windows
  BY DEF Good, Sound
<1>2. n \in Windows
  BY <1>1, WindowFields DEF Windows
<1>3. /\ n.store = w.store /\ n.tabs = w.tabs /\ n.active = w.active /\ n.receipt = w.receipt
      /\ n.view = w.view /\ n.typed = w.typed /\ n.pending = w.pending /\ n.shown = w.shown
  OBVIOUS
<1>4. Now' = n
  BY DEF Become, Now
<1> HIDE DEF n
<1>5. Good(n, rs)
  BY <1>2, <1>3
  DEF Good, Sound, Form, Fronted, Backed, Sessions, FrontReceipt, FrontView, OnScreen
<1> QED
  BY <1>4, <1>5

\* The input that is unfinished, and the history that has an entry of it at its end.
Inputs == Range(pending) \cup ({typed} \ {None})
Entered(old, new, c, e) ==
    Len(old[c]) \in Nat /\ Len(new[c]) = Len(old[c]) + 1 /\ new[c][Len(new[c])] = e

\* Another tab comes to the front when each input is an entry of its own case.
Keeps ==
    active' # active =>
        \A input \in Inputs : Entered(store, store', input.case, input.content)

\* A step that ends in a good window, with the runs as they are.
LEMMA Handled ==
    ASSUME IInv, NEW w, Good(w, runs), Handle(w),
           \/ w.active = active
           \/ \A input \in Inputs : Entered(store, w.store, input.case, input.content)
    PROVE  IInv' /\ Keeps
<1>1. Good(Now', runs)
  BY Becomes DEF Handle
<1>2. active' = w.active /\ store' = w.store
  BY DEF Handle, Become
<1> QED
  BY <1>1, <1>2 DEF Handle, IInv, Keeps

\* What an action begins with.
LEMMA Begins ==
    ASSUME IInv
    PROVE  LET w == Flush_input_edits(Now) IN
           /\ Good(w, runs) /\ Follows(Now, w) /\ w.active = active /\ w.serial = serial
           /\ \A c \in Cases : w.tabs[c] = None <=> tabs[c] = None
           /\ \A c \in Cases : store[c] # None => w.store[c] # None
           /\ w.typed = None /\ w.pending = << >>
           /\ w.ok => \A input \in Inputs :
                         /\ Entered(store, w.store, input.case, input.content)
                         /\ store[input.case] # None
<1> DEFINE w == Flush_input_edits(Now)
<1>1. /\ Good(w, runs) /\ Follows(Now, w) /\ w.typed = None /\ w.pending = << >>
      /\ w.store = Now.store \/ \E input \in Receipts :
                                   Grown(Now.store, w.store, input.case, input.content)
      /\ w.ok => \A input \in Range(Now.pending) \cup ({Now.typed} \ {None}) :
                    Grown(Now.store, w.store, input.case, input.content)
  BY FlushDoes DEF IInv
<1> HIDE DEF w
<1>2. /\ Now.active = active /\ Now.serial = serial /\ Now.tabs = tabs /\ Now.store = store
      /\ Now.pending = pending /\ Now.typed = typed
  BY DEF Now
<1>3. \A c \in Cases : store[c] # None => w.store[c] # None
  BY <1>1, <1>2 DEF Grown
<1>4. w.ok => \A input \in Inputs :
                 Entered(store, w.store, input.case, input.content) /\ store[input.case] # None
  BY <1>1, <1>2 DEF Grown, Entered, Inputs
<1> QED
  BY <1>1, <1>2, <1>3, <1>4 DEF w, Follows

LEMMA InputCases ==
    ASSUME IInv
    PROVE  \A input \in Inputs : input.case \in Cases
<1>1. pending \in Seq(Receipts) /\ typed \in Receipts \cup {None}
  BY WindowFields DEF IInv, Good, Sound, Now
<1>2. Range(pending) \subseteq Receipts
  BY <1>1 DEF Range
<1>3. \A input \in Receipts : input.case \in Cases
  BY DEF Receipts
<1> QED
  BY <1>1, <1>2, <1>3 DEF Inputs

LEMMA NowIs ==
    /\ Now.active = active /\ Now.serial = serial /\ Now.tabs = tabs /\ Now.store = store
    /\ Now.shown = shown /\ Now.pending = pending /\ Now.typed = typed /\ Now.receipt = receipt
    /\ Now.view = view /\ Now.ok
BY DEF Now

LEMMA TypeStep ==
    ASSUME IInv, NEW e \in Contents, Type(e)
    PROVE  IInv' /\ Keeps
<1> DEFINE c == active
           s == Invalidated(tabs[c])
           u == With(Now, c, s)
           n == [Now EXCEPT !.typed = Input(active, e), !.receipt = None,
                            !.tabs[active] = Invalidated(@)]
<1>1. Good(Now, runs) /\ active # None /\ pending = << >> /\ Handle(n)
  BY DEF IInv, Type
<1>2. /\ c \in Cases /\ tabs[c] \in SessionType /\ store[c] # None
      /\ SessionGood(c, tabs[c], runs) /\ shown = Screen(tabs[c])
  BY <1>1, FrontIs, NowIs
<1>3. s \in SessionType /\ s # None /\ SessionGood(c, s, runs) /\ Screen(s) = Screen(tabs[c])
  BY <1>2, InvalidatedDoes, Apart
<1>4. Now \in Windows
  BY <1>1 DEF Good, Sound
<1>5. n = [u EXCEPT !.typed = Input(active, e), !.receipt = None]
  BY <1>4, NowIs DEF With, Windows
<1>6. Input(active, e) \in Receipts
  BY <1>2 DEF Input, Receipts
<1> HIDE DEF n, s
<1>7. Sound(u, runs)
  BY <1>1, <1>2, <1>3, WithSound, NowIs DEF Good
<1>8. /\ u \in Windows /\ u.tabs[c] = s
      /\ u.active = c /\ u.view = view /\ u.shown = shown /\ u.pending = << >>
  BY <1>1, <1>2, <1>3, <1>4, WithDoes, NowIs
<1> HIDE DEF u
<1>9. /\ n \in Windows /\ n.pending = << >> /\ n.typed = Input(active, e) /\ n.receipt = None
      /\ n.tabs = u.tabs /\ n.store = u.store /\ n.active = u.active /\ n.view = u.view
      /\ n.shown = u.shown
  BY <1>5, <1>6, <1>8 DEF Windows
<1>10. Sound(n, runs)
  BY <1>1, <1>7, <1>8, <1>9 DEF Sound, Form, Fronted, Backed, Sessions
<1>11. FrontView(n, runs)
  BY <1>1, <1>8, <1>9, NowIs DEF Good, FrontView
<1>12. Good(n, runs)
  BY <1>1, <1>2, <1>3, <1>8, <1>9, <1>10, <1>11 DEF Good, FrontReceipt, OnScreen
<1> QED
  BY <1>1, <1>8, <1>9, <1>12, Handled

LEMMA EditStep ==
    ASSUME IInv, NEW e \in Contents, Edit(e)
    PROVE  IInv' /\ Keeps
<1> DEFINE w == Flush_input_edits(Now)
<1>1. active # None /\ Handle(IF w.ok THEN Apply_edit(w, e) ELSE w)
  BY DEF Edit
<1>2. Good(w, runs) /\ w.active = active
  BY Begins
<1> HIDE DEF w
<1>3. Good(Apply_edit(w, e), runs) /\ Apply_edit(w, e).active = active
  BY <1>1, <1>2, ApplyEditDoes DEF Follows
<1> QED
  BY <1>1, <1>2, <1>3, Handled

\* The contents of a history.
LEMMA Entries ==
    ASSUME NEW h \in Histories
    PROVE  Range(h) \subseteq Contents
BY DEF Histories, Range

LEMMA MutateStep ==
    ASSUME IInv, Mutate
    PROVE  IInv' /\ Keeps
<1> DEFINE w == Flush_input_edits(Now)
           m == Remember_view(w)
<1>1. active # None
  BY DEF Mutate
<1>2. PICK e \in Range(Session(w).state) :
         Handle(IF w.ok /\ Session(w).preview = None THEN Commit(m, e) ELSE w)
  BY DEF Mutate
<1>3. Good(w, runs) /\ w.active = active
  BY Begins
<1> HIDE DEF w
<1>4. e \in Contents
  BY <1>1, <1>2, <1>3, FrontIs, Entries DEF Session
<1>5. Good(m, runs) /\ m.active = active
  BY <1>3, RememberDoes DEF Follows
<1> HIDE DEF m
<1>6. Good(Commit(m, e), runs) /\ Commit(m, e).active = active
  BY <1>1, <1>4, <1>5, CommitDoes DEF Follows
<1> QED
  BY <1>2, <1>3, <1>6, Handled

LEMMA BranchStep ==
    ASSUME IInv, BranchSelected
    PROVE  IInv' /\ Keeps
<1>1. active # None
  BY DEF BranchSelected
<1>2. PICK e \in Range(tabs[active].state) : Handle(Commit(Now, e))
  BY DEF BranchSelected
<1>3. Good(Now, runs)
  BY DEF IInv
<1>4. e \in Contents
  BY <1>1, <1>2, <1>3, FrontIs, Entries, NowIs
<1>5. Good(Commit(Now, e), runs) /\ Commit(Now, e).active = active
  BY <1>1, <1>3, <1>4, CommitDoes, NowIs DEF Follows
<1> QED
  BY <1>2, <1>5, Handled

LEMMA PreviewStep ==
    ASSUME IInv, PreviewEntry
    PROVE  IInv' /\ Keeps
<1> DEFINE w == Flush_input_edits(Now)
           m == Remember_view(w)
<1>1. active # None
  BY DEF PreviewEntry
<1>2. PICK e \in Range(Session(w).state) :
         Handle(IF w.ok THEN Refresh([m EXCEPT !.tabs[w.active].preview = e]) ELSE w)
  BY DEF PreviewEntry
<1>3. Good(w, runs) /\ w.active = active
  BY Begins
<1> HIDE DEF w
<1>4. e \in Contents
  BY <1>1, <1>2, <1>3, FrontIs, Entries DEF Session
<1>5. Good(m, runs) /\ m.active = w.active
  BY <1>3, RememberDoes DEF Follows
<1> HIDE DEF m
<1>6. LET n == Refresh([m EXCEPT !.tabs[m.active].preview = e])
      IN  Good(n, runs) /\ n.active = active
  BY <1>1, <1>3, <1>4, <1>5, PreviewDoes
<1> QED
  BY <1>2, <1>3, <1>5, <1>6, Handled

LEMMA ReturnStep ==
    ASSUME IInv, ReturnCurrent
    PROVE  IInv' /\ Keeps
<1>1. active # None /\ Handle(Refresh([Now EXCEPT !.tabs[active].preview = None]))
  BY DEF ReturnCurrent
<1>2. Good(Now, runs) /\ Now.active = active
  BY NowIs DEF IInv
<1>3. LET n == Refresh([Now EXCEPT !.tabs[Now.active].preview = None])
      IN  Good(n, runs) /\ n.active = active
  BY <1>1, <1>2, PreviewDoes
<1> QED
  BY <1>1, <1>2, <1>3, Handled

LEMMA CreateStep ==
    ASSUME IInv, NEW c \in Cases, CreateDraft(c)
    PROVE  IInv' /\ Keeps
<1> DEFINE w == Flush_input_edits(Now)
           m == Remember_view(w)
           h == <<Initial>>
           v == [m EXCEPT !.store[c] = h]
<1>1. serial < MaxSerial /\ Handle(IF w.ok THEN Adopt(v, c, h) ELSE w)
  BY DEF CreateDraft
<1>2. Good(w, runs) /\ w.serial = serial /\ w.active = active
  BY Begins
<1>3. h \in Histories
  BY ContentsAssumption DEF Histories
<1>9. /\ store[c] = None
      /\ w.ok => \A input \in Inputs : /\ Entered(store, w.store, input.case, input.content)
                                       /\ store[input.case] # None
  BY Begins DEF CreateDraft
<1> HIDE DEF w, h
<1>4. Good(m, runs) /\ m.serial = serial /\ m.store = w.store
  BY <1>2, RememberDoes DEF Follows
<1> HIDE DEF m
<1>5. m \in Windows /\ Backed(m) /\ Sessions(m, runs) /\ Form(m) /\ h # None
  BY <1>3, <1>4, Apart DEF Good, Sound
<1>6. /\ v \in Windows /\ v.store[c] = h /\ \A d \in Cases : d # c => v.store[d] = m.store[d]
      /\ v.tabs = m.tabs /\ v.pending = m.pending /\ v.typed = m.typed /\ v.serial = m.serial
  BY <1>3, <1>5, StoreDoes
<1> HIDE DEF v
<1>7. Backed(v) /\ Sessions(v, runs) /\ Form(v)
  BY <1>5, <1>6 DEF Backed, Sessions, Form
<1>10. w.ok => \A input \in Inputs : Entered(store, v.store, input.case, input.content)
  BY <1>4, <1>6, <1>9, InputCases DEF Entered
<1>8. Good(Adopt(v, c, h), runs) /\ Adopt(v, c, h).store = v.store
  BY <1>1, <1>3, <1>4, <1>5, <1>6, <1>7, AdoptDoes
<1> QED
  BY <1>1, <1>2, <1>8, <1>10, Handled

LEMMA OpenStep ==
    ASSUME IInv, NEW c \in Cases, OpenDraft(c)
    PROVE  IInv' /\ Keeps
<1> DEFINE w == Flush_input_edits(Now)
           m == Remember_view(w)
           h == w.store[c]
<1>1. store[c] # None /\ serial < MaxSerial /\ Handle(IF w.ok THEN Adopt(m, c, h) ELSE w)
  BY DEF OpenDraft
<1>2. /\ Good(w, runs) /\ w.serial = serial /\ w.active = active /\ h # None
      /\ w.ok => \A input \in Inputs : Entered(store, w.store, input.case, input.content)
  BY <1>1, Begins
<1> HIDE DEF w
<1>3. h \in Histories
  BY <1>2, WindowFields DEF Good, Sound
<1>4. Good(m, runs) /\ m.serial = serial /\ m.store[c] = h /\ m.store = w.store
  BY <1>2, RememberDoes DEF Follows
<1> HIDE DEF m, h
<1>5. m \in Windows /\ Backed(m) /\ Sessions(m, runs) /\ Form(m)
  BY <1>4 DEF Good, Sound
<1>6. Good(Adopt(m, c, h), runs) /\ Adopt(m, c, h).store = w.store
  BY <1>1, <1>2, <1>3, <1>4, <1>5, AdoptDoes
<1> QED
  BY <1>1, <1>2, <1>6, Handled

LEMMA SwitchStep ==
    ASSUME IInv, NEW c \in Cases, SwitchTab(c)
    PROVE  IInv' /\ Keeps
<1> DEFINE w == Flush_input_edits(Now)
<1>1. tabs[c] # None /\ Handle(IF w.ok THEN Activate(w, c) ELSE w)
  BY NowIs DEF SwitchTab, IsOpen
<1>2. /\ Good(w, runs) /\ w.active = active /\ w.tabs[c] # None
      /\ w.ok => \A input \in Inputs : Entered(store, w.store, input.case, input.content)
  BY <1>1, Begins
<1> HIDE DEF w
<1>3. Good(Activate(w, c), runs) /\ Activate(w, c).store = w.store
  BY <1>2, ActivateDoes
<1> QED
  BY <1>1, <1>2, <1>3, Handled

\* No tab is in front: what is remembered is nothing.
LEMMA LeftDoes ==
    ASSUME NEW w \in Windows
    PROVE  LET n == [w EXCEPT !.active = None] IN
           /\ n \in Windows /\ n.active = None /\ n.tabs = w.tabs /\ n.store = w.store
           /\ n.pending = w.pending /\ n.typed = w.typed
BY DEF Windows

LEMMA CloseStep ==
    ASSUME IInv, NEW c \in Cases, CloseTab(c)
    PROVE  IInv' /\ Keeps
<1> DEFINE w == Flush_input_edits(Now)
           m == Remember_view(w)
           k == [m EXCEPT !.tabs[c] = None]
           l == [k EXCEPT !.active = None]
           rest == {d \in Cases : IsOpen(k, d)}
<1>1. /\ tabs[c] # None
      /\ IF ~ w.ok THEN Handle(w)
         ELSE IF active # c THEN Handle(k)
         ELSE IF rest = {} THEN Handle(Refresh(l))
         ELSE \E d \in rest : Handle(Activate(l, d))
  BY NowIs DEF CloseTab, IsOpen
<1>2. /\ Good(w, runs) /\ w.active = active /\ w.tabs[c] # None /\ w.typed = None
      /\ w.ok => \A input \in Inputs : Entered(store, w.store, input.case, input.content)
  BY <1>1, Begins
<1> HIDE DEF w
<1>3. Good(m, runs) /\ m.store = w.store /\ m.active = active /\ m.tabs[c] # None /\ m.typed = None
  BY <1>2, RememberDoes DEF Follows
<1> HIDE DEF m
<1>4. m \in Windows /\ Backed(m) /\ Sessions(m, runs) /\ Form(m)
  BY <1>3 DEF Good, Sound
<1>5. k = With(m, c, None)
  BY DEF With
<1> HIDE DEF k, l, rest
<1>6. /\ k \in Windows /\ k.tabs[c] = None /\ \A d \in Cases : d # c => k.tabs[d] = m.tabs[d]
      /\ k.store = m.store /\ k.active = m.active /\ k.receipt = m.receipt /\ k.view = m.view
      /\ k.typed = m.typed /\ k.pending = m.pending /\ k.shown = m.shown
  BY <1>4, <1>5, WithDoes
<1>7. Backed(k) /\ Sessions(k, runs) /\ Form(k)
  BY <1>4, <1>6 DEF Backed, Sessions, Form
<1>8. active \in Cases
  <2>1. m.active # None
    BY <1>3 DEF Good, Sound, Fronted
  <2> QED
    BY <1>3, <2>1, FrontIs
<1>9. ASSUME active # c PROVE Good(k, runs) /\ k.active = active
  <2>1. k.active # None /\ k.tabs[active] = m.tabs[active]
    BY <1>3, <1>6, <1>8, <1>9, Apart
  <2>2. Sound(k, runs)
    BY <1>3, <1>6, <1>7, <2>1 DEF Good, Sound, Fronted
  <2>3. FrontReceipt(k) /\ FrontView(k, runs) /\ OnScreen(k)
    BY <1>3, <1>6, <2>1 DEF Good, FrontReceipt, FrontView, OnScreen
  <2> QED
    BY <1>3, <1>6, <2>2, <2>3 DEF Good
<1>10. /\ l \in Windows /\ l.active = None /\ l.tabs = k.tabs /\ l.store = k.store
       /\ l.pending = k.pending /\ l.typed = k.typed
  BY <1>6, LeftDoes DEF l
<1>11. Backed(l) /\ Sessions(l, runs) /\ Form(l)
  BY <1>7, <1>10 DEF Backed, Sessions, Form
<1>12. ASSUME rest = {} PROVE Good(Refresh(l), runs) /\ Refresh(l).store = w.store
  <2>1. \A d \in Cases : l.tabs[d] = None
    BY <1>10, <1>12, Apart DEF rest, IsOpen
  <2>2. Sound(l, runs)
    BY <1>3, <1>6, <1>10, <1>11, <2>1 DEF Sound, Fronted
  <2> QED
    BY <1>3, <1>6, <1>10, <2>2, RefreshDoes
<1>13. ASSUME NEW d \in rest PROVE Good(Activate(l, d), runs) /\ Activate(l, d).store = w.store
  <2> DEFINE r == l.tabs[d].receipt
             v == l.tabs[d].view
  <2>1. d \in Cases /\ l.tabs[d] # None
    BY <1>10 DEF rest, IsOpen
  <2>2. r \in Receipts \cup {None} /\ v \in Runs \cup {None}
    BY <1>10, <2>1, WindowFields, SessionFields
  <2>3. Activate(l, d) = InFront(l, d, r, v)
    BY <1>10 DEF Activate, InFront, Remember_view
  <2> HIDE DEF r, v
  <2> QED
    BY <1>3, <1>6, <1>10, <1>11, <2>1, <2>2, <2>3, InFrontDoes
<1> QED
  BY <1>1, <1>2, <1>9, <1>12, <1>13, Handled

LEMMA RelaunchStep ==
    ASSUME IInv, Relaunch
    PROVE  IInv' /\ Keeps
<1> DEFINE w == Flush_input_edits(Now)
           opened == [c \in Cases |-> IF IsOpen(w, c) THEN CaseSession(w.store[c], w.serial + 1)
                                      ELSE None]
           n == [w EXCEPT !.tabs = opened, !.flag = FALSE, !.serial = @ + 1]
<1>1. active # None /\ serial < MaxSerial /\ Handle(IF w.ok THEN Refresh(n) ELSE w)
  BY DEF Relaunch
<1>2. Good(w, runs) /\ w.active = active /\ w.serial = serial
  BY Begins
<1> HIDE DEF w
<1>3. w \in Windows /\ Backed(w) /\ Form(w) /\ w.typed \in Receipts \cup {None}
  BY <1>2, WindowFields DEF Good, Sound
<1>4. w.serial + 1 \in 1 .. MaxSerial /\ w.serial + 1 \in 0 .. MaxSerial
  BY <1>1, <1>2, <1>3, WindowFields, BoundsAssumption
<1>5. \A c \in Cases : IsOpen(w, c) =>
         LET s == CaseSession(w.store[c], w.serial + 1) IN
         s \in SessionType /\ s # None /\ SessionGood(c, s, runs) /\ w.store[c] # None
  <2> SUFFICES ASSUME NEW c \in Cases, IsOpen(w, c)
               PROVE  LET s == CaseSession(w.store[c], w.serial + 1) IN
                      s \in SessionType /\ s # None /\ SessionGood(c, s, runs) /\ w.store[c] # None
    OBVIOUS
  <2>1. w.store[c] \in Histories /\ w.store[c] # None
    BY <1>3, WindowFields DEF IsOpen, Backed
  <2> QED
    BY <1>4, <2>1, CaseSessionDoes
<1>6. /\ opened \in [Cases -> SessionType \cup {None}]
      /\ \A c \in Cases : opened[c] # None =>
            IsOpen(w, c) /\ SessionGood(c, opened[c], runs) /\ w.store[c] # None
      /\ \A c \in Cases : IsOpen(w, c) => opened[c] # None
  BY <1>5
<1>7. n = [w EXCEPT !.tabs = opened, !.flag = FALSE, !.serial = w.serial + 1]
  BY <1>3 DEF Windows
<1> HIDE DEF opened, n
<1>8. /\ n \in Windows /\ n.tabs = opened /\ n.active = w.active /\ n.store = w.store
      /\ n.pending = w.pending /\ n.typed = w.typed
  BY <1>3, <1>4, <1>6, <1>7 DEF Windows
<1>9. active \in Cases /\ IsOpen(w, active)
  BY <1>1, <1>2, FrontIs DEF IsOpen
<1>10. Sound(n, runs)
  BY <1>1, <1>2, <1>3, <1>6, <1>8, <1>9 DEF Sound, Form, Fronted, Backed, Sessions
<1>11. Good(Refresh(n), runs) /\ Refresh(n).active = active
  BY <1>2, <1>8, <1>10, RefreshDoes
<1> QED
  BY <1>1, <1>2, <1>11, Handled

LEMMA ForeignStep ==
    ASSUME IInv, NEW c \in Cases, NEW e \in Contents, ForeignEdit(c, e)
    PROVE  IInv' /\ Keeps
<1> DEFINE h == Append(store[c], e)
           n == [Now EXCEPT !.store[c] = h]
<1>1. tabs[c] # None /\ Handle(n)
  BY NowIs DEF ForeignEdit, IsOpen
<1>2. Good(Now, runs) /\ Now \in Windows
  BY DEF IInv, Good, Sound
<1>3. store[c] \in Histories
  BY <1>1, <1>2, WindowFields, NowIs DEF Good, Sound, Backed
<1>4. h \in Histories /\ h # None
  BY <1>3, Extended, Apart
<1> HIDE DEF h
<1>5. /\ n \in Windows /\ n.store[c] = h /\ \A d \in Cases : d # c => n.store[d] = Now.store[d]
      /\ n.tabs = Now.tabs /\ n.active = Now.active /\ n.pending = Now.pending
      /\ n.typed = Now.typed /\ n.receipt = Now.receipt /\ n.view = Now.view
      /\ n.shown = Now.shown
  BY <1>2, <1>4, StoreDoes
<1> HIDE DEF n
<1>6. Good(n, runs)
  BY <1>2, <1>4, <1>5
  DEF Good, Sound, Form, Fronted, Backed, Sessions, FrontReceipt, FrontView, OnScreen
<1> QED
  BY <1>1, <1>5, <1>6, NowIs, Handled

LEMMA FinishInputStep ==
    ASSUME IInv, FinishInput \/ FlushTimer
    PROVE  IInv' /\ Keeps
<1>1. Handle(Schedule_input_edit(Now)) \/ Handle(Flush_input_edits(Now))
  BY DEF FinishInput, FlushTimer
<1>2. Good(Schedule_input_edit(Now), runs) /\ Schedule_input_edit(Now).active = active
  BY ScheduleDoes, NowIs DEF IInv, Follows
<1>3. Good(Flush_input_edits(Now), runs) /\ Flush_input_edits(Now).active = active
  BY Begins
<1> QED
  BY <1>1, <1>2, <1>3, Handled

\* A session is validated, and has its receipt.
Validated(s, r, e) == [s EXCEPT !.receipt = r, !.validated = e]

LEMMA ValidatedDoes ==
    ASSUME NEW s \in SessionType, NEW r \in Receipts, NEW c, NEW rs, SessionGood(c, s, rs),
           r.case = c
    PROVE  /\ Validated(s, r, r.content) \in SessionType
           /\ SessionGood(c, Validated(s, r, r.content), rs)
<1> DEFINE n == Validated(s, r, r.content)
<1>1. /\ n \in SessionType /\ n.receipt = r
      /\ n.view = s.view /\ n.workbook = s.workbook /\ n.overlays = s.overlays
      /\ n.validOverlays = s.validOverlays /\ n.sources = s.sources /\ n.serial = s.serial
      /\ n.validated = r.content
  BY DEF SessionType, Validated, Receipts
<1> HIDE DEF n
<1>2. SessionGood(c, n, rs)
  BY <1>1 DEF SessionGood, Results, Overlays
<1> QED
  BY <1>1, <1>2 DEF n

LEMMA ValidateStep ==
    ASSUME IInv, ValidateCurrent
    PROVE  IInv' /\ Keeps
<1> DEFINE w == Flush_input_edits(Now)
           c == w.active
           e == w.shown.content
           r == Receipt(c, e)
           s == w.tabs[c]
           t == Validated(s, r, e)
           a == [w EXCEPT !.receipt = r, !.tabs[w.active].receipt = r,
                          !.tabs[w.active].validated = e]
           b == [w EXCEPT !.receipt = None, !.tabs[w.active] = Invalidated(@)]
<1>1. /\ active # None
      /\ Handle(IF w.ok THEN Refresh(a) ELSE w) \/ (w.ok /\ Handle(Refresh(b)))
  BY DEF ValidateCurrent
<1>2. Good(w, runs) /\ c = active
  BY Begins
<1> HIDE DEF w
<1>3. /\ c \in Cases /\ s \in SessionType /\ w.store[c] # None /\ w.active # None
      /\ SessionGood(c, s, runs) /\ w.shown = Screen(s)
  BY <1>1, <1>2, FrontIs
<1>4. w \in Windows
  BY <1>2 DEF Good, Sound
<1>5. e \in Contents
  BY <1>3, ScreenIs DEF Screen
<1>6. r \in Receipts /\ r.case = c /\ r.content = e
  BY <1>3, <1>5 DEF Receipt, Receipts
<1>7. Good(Refresh(a), runs) /\ Refresh(a).active = active
  <2>1. a = [With(w, c, t) EXCEPT !.receipt = r]
    BY <1>3, <1>4 DEF With, Validated, Windows
  <2> HIDE DEF r, e, a, s
  <2>2. t \in SessionType /\ SessionGood(c, t, runs)
    BY <1>3, <1>6, ValidatedDoes
  <2> HIDE DEF t
  <2> DEFINE u == With(w, c, t)
  <2>3. Sound(u, runs) /\ u.active = active
    BY <1>2, <1>3, <1>4, <2>2, WithSound, WithDoes DEF Good
  <2> HIDE DEF u
  <2>4. LET n == [u EXCEPT !.receipt = r] IN Sound(n, runs) /\ n.active = active
    BY <1>6, <2>3, ReceiptDoes
  <2> QED
    BY <2>1, <2>4, RefreshDoes DEF u
<1>8. Good(Refresh(b), runs) /\ Refresh(b).active = active
  <2> DEFINE i == Invalidated(s)
  <2>1. b = [With(w, c, i) EXCEPT !.receipt = None]
    BY <1>3, <1>4 DEF With, Windows
  <2> HIDE DEF r, e, b, s
  <2>2. i \in SessionType /\ SessionGood(c, i, runs)
    BY <1>3, InvalidatedDoes
  <2> HIDE DEF i
  <2> DEFINE u == With(w, c, i)
  <2>3. Sound(u, runs) /\ u.active = active
    BY <1>2, <1>3, <1>4, <2>2, WithSound, WithDoes DEF Good
  <2> HIDE DEF u
  <2>4. LET n == [u EXCEPT !.receipt = None] IN Sound(n, runs) /\ n.active = active
    BY <2>3, ReceiptDoes
  <2> QED
    BY <2>1, <2>4, RefreshDoes DEF u
<1> HIDE DEF a, b
<1> QED
  BY <1>1, <1>2, <1>7, <1>8, Handled

\* What is submitted is what was validated, and the document of the run but for a preview.
LEMMA SubmittedIs ==
    ASSUME NEW w, NEW rs, Good(w, rs), w.active # None, Has_valid_receipt(w)
    PROVE  LET s == Submitted(w) IN
           /\ s \in Submissions /\ s.result = None
           /\ s.receipt = Receipt(s.case, s.content) /\ s.content \in WellPosed
           /\ s.historical \/ s.content = s.source
<1> DEFINE c == w.active
           s == w.tabs[c]
           e == w.shown.content
<1>1. c \in Cases /\ s \in SessionType /\ w.shown = Screen(s)
  BY FrontIs
<1>2. /\ w.receipt \in Receipts /\ w.receipt.case = c /\ w.receipt.content \in WellPosed
      /\ s.validated = e /\ w.receipt.content = s.validated
  BY WindowFields DEF Has_valid_receipt, Session, Good, Sound, FrontReceipt
<1>3. e = Document(s) /\ e \in Contents
  BY <1>1, ScreenIs DEF Screen
<1>4. Content(s.state) \in Contents /\ s.serial \in 1 .. MaxSerial
  BY <1>1, SessionFields DEF Content, Last, Histories
<1>5. (s.preview # None) \/ e = Content(s.state)
  BY <1>3 DEF Document
<1>6. w.receipt = Receipt(c, e)
  BY <1>2 DEF Receipt, Receipts
<1>7. Submitted(w) = [case |-> c, serial |-> s.serial, receipt |-> w.receipt, content |-> e,
                      source |-> Content(s.state), historical |-> s.preview # None,
                      result |-> None]
  BY DEF Submitted, Session
<1> DEFINE past == s.preview # None
           src == Content(s.state)
<1>8. past \in BOOLEAN
  OBVIOUS
<1> HIDE DEF c, s, e, past, src
<1>9. [case |-> c, serial |-> s.serial, receipt |-> w.receipt, content |-> e,
       source |-> src, historical |-> past, result |-> None] \in Submissions
  BY <1>1, <1>2, <1>3, <1>4, <1>8 DEF Submissions, src
<1>10. Submitted(w) \in Submissions
  BY <1>7, <1>9 DEF past, src
<1>11. /\ Submitted(w).case = c /\ Submitted(w).receipt = w.receipt /\ Submitted(w).content = e
       /\ Submitted(w).source = src /\ Submitted(w).historical = past
       /\ Submitted(w).result = None
  BY <1>7 DEF past, src
<1>12. past \/ e = src
  BY <1>5 DEF past, src
<1> QED
  BY <1>2, <1>6, <1>10, <1>11, <1>12 DEF c, s, e

\* A run is added.
LEMMA MoreRuns ==
    ASSUME NEW rs, RunsGood(rs), Len(rs) < MaxRuns, NEW s \in Submissions,
           s.receipt = Receipt(s.case, s.content), s.content \in WellPosed,
           s.historical \/ s.content = s.source
    PROVE  RunsGood(Append(rs, s)) /\ Continues(rs, Append(rs, s))
<1> DEFINE ts == Append(rs, s)
<1>1. rs \in Seq(Submissions) /\ Len(rs) \in Nat
  BY DEF RunsGood
<1>2. /\ ts \in Seq(Submissions) /\ Len(ts) = Len(rs) + 1 /\ DOMAIN ts = 1 .. Len(rs) + 1
      /\ DOMAIN rs = 1 .. Len(rs)
      /\ \A r \in 1 .. Len(rs) : ts[r] = rs[r]
      /\ ts[Len(rs) + 1] = s
  BY <1>1
<1> HIDE DEF ts
<1>3. Len(ts) <= MaxRuns
  BY <1>1, <1>2, BoundsAssumption
<1>4. \A r \in DOMAIN ts : r \in DOMAIN rs \/ r = Len(rs) + 1
  BY <1>1, <1>2
<1>5. RunsGood(ts)
  BY <1>2, <1>3, <1>4 DEF RunsGood
<1>6. Continues(rs, ts)
  BY <1>1, <1>2 DEF Continues
<1> QED
  BY <1>5, <1>6 DEF ts

LEMMA FramesAre ==
    ASSUME NEW fs, NEW rs, FramesGood(fs, rs), RunsGood(rs)
    PROVE  /\ DOMAIN fs = 1 .. Len(fs) /\ Len(fs) \in Nat /\ Len(fs) <= Len(rs)
           /\ \A i \in DOMAIN fs : /\ fs[i] \in [run : Runs, at : {"sent", "rejected", "completed"}]
                                  /\ fs[i].run \in DOMAIN rs /\ fs[i].run \in Nat
<1>1. fs \in Seq([run : Runs, at : {"sent", "rejected", "completed"}])
  BY DEF FramesGood
<1>2. DOMAIN fs = 1 .. Len(fs) /\ Len(fs) \in Nat
  BY <1>1
<1>3. DOMAIN rs = 1 .. Len(rs) /\ Len(rs) \in Nat
  BY RunsAre
<1>4. \A i \in DOMAIN fs : i <= fs[i].run /\ fs[i].run \in DOMAIN rs
  BY DEF FramesGood
<1>5. Len(fs) <= Len(rs)
  <2>1. CASE Len(fs) = 0
    BY <1>3, <2>1
  <2>2. CASE Len(fs) # 0
    <3> DEFINE k == Len(fs)
    <3>1. k \in DOMAIN fs
      BY <1>2, <2>2
    <3>2. k <= fs[k].run /\ fs[k].run \in 1 .. Len(rs)
      BY <1>3, <1>4, <3>1
    <3> HIDE DEF k
    <3>3. k <= Len(rs)
      BY <1>2, <1>3, <3>2 DEF k
    <3> QED
      BY <3>3 DEF k
  <2> QED
    BY <2>1, <2>2
<1>6. \A i \in DOMAIN fs : fs[i] \in [run : Runs, at : {"sent", "rejected", "completed"}]
  <2> DEFINE F == [run : Runs, at : {"sent", "rejected", "completed"}]
  <2>1. fs \in Seq(F)
    BY <1>1
  <2> HIDE DEF F
  <2>2. \A i \in DOMAIN fs : fs[i] \in F
    BY <2>1
  <2> QED
    BY <2>2 DEF F
<1> QED
  BY <1>2, <1>3, <1>4, <1>5, <1>6

Frames == [run : Runs, at : {"sent", "rejected", "completed"}]

LEMMA RunStep ==
    ASSUME IInv, RunCurrent
    PROVE  IInv' /\ Keeps
<1> DEFINE w == Flush_input_edits(Now)
           n == [w EXCEPT !.flag = TRUE]
           s == Submitted(w)
           f == [run |-> Len(runs) + 1, at |-> "sent"]
<1>1. /\ active # None /\ Len(runs) < MaxRuns
      /\ IF w.ok /\ Has_valid_receipt(w)
         THEN Become(Refresh(n)) /\ runs' = Append(runs, s) /\ frames' = Append(frames, f)
         ELSE Handle(w)
  BY DEF RunCurrent
<1>2. Good(w, runs) /\ w.active # None /\ w.active = active
  BY <1>1, Begins
<1> HIDE DEF w
<1>3. CASE ~ (w.ok /\ Has_valid_receipt(w))
  BY <1>1, <1>2, <1>3, Handled
<1>4. CASE w.ok /\ Has_valid_receipt(w)
  <2>1. Become(Refresh(n)) /\ runs' = Append(runs, s) /\ frames' = Append(frames, f)
    BY <1>1, <1>4
  <2>2. Good(Refresh(n), runs) /\ Refresh(n).active = active
    <3>1. Good(n, runs) /\ n.active = active
      BY <1>2, FlagDoes
    <3> HIDE DEF n
    <3> QED
      BY <3>1, Refreshed DEF Follows
  <2>3. /\ s \in Submissions /\ s.receipt = Receipt(s.case, s.content) /\ s.content \in WellPosed
        /\ s.historical \/ s.content = s.source
    BY <1>2, <1>4, SubmittedIs
  <2>4. s.result = None
    BY <1>2, <1>4, SubmittedIs
  <2> HIDE DEF s, n
  <2>5. RunsGood(runs') /\ Continues(runs, runs')
    <3>1. RunsGood(runs)
      BY DEF IInv
    <3> QED
      BY <1>1, <2>1, <2>3, <3>1, MoreRuns
  <2>6. Good(Now', runs')
    <3>1. Good(Now', runs)
      BY <2>1, <2>2, Becomes
    <3> QED
      BY <2>5, <3>1, StaysGood
  <2>7. FramesGood(frames', runs')
    <3> DEFINE k == Len(runs) + 1
               m == Len(frames)
    <3>1. /\ DOMAIN runs = 1 .. Len(runs) /\ Len(runs) \in Nat
          /\ runs \in Seq(Submissions)
      BY RunsAre DEF IInv, RunsGood
    <3>2. /\ DOMAIN frames = 1 .. m /\ m \in Nat /\ m <= Len(runs)
          /\ \A i \in DOMAIN frames : frames[i].run \in DOMAIN runs /\ frames[i].run \in Nat
      BY FramesAre DEF IInv
    <3>3. /\ DOMAIN runs' = 1 .. k /\ runs'[k] = s /\ \A r \in DOMAIN runs : runs'[r] = runs[r]
      BY <2>1, <3>1
    <3>4. frames \in Seq(Frames)
      BY DEF IInv, FramesGood, Frames
    <3>5. k \in Runs
      BY <1>1, <3>1, BoundsAssumption DEF Runs
    <3>6. f \in Frames /\ f.run = k /\ f.at = "sent"
      BY <3>5 DEF Frames
    <3> HIDE DEF f
    <3>7. /\ frames' \in Seq(Frames) /\ DOMAIN frames' = 1 .. m + 1
          /\ frames'[m + 1] = f /\ \A i \in DOMAIN frames : frames'[i] = frames[i]
      BY <2>1, <3>2, <3>4, <3>6
    <3>8. \A i \in 1 .. m + 1 : i \in DOMAIN frames \/ i = m + 1
      BY <3>2
    <3>9. \A i \in DOMAIN frames : /\ i <= frames[i].run
                                   /\ frames[i].at = "sent" => runs[frames[i].run].result = None
      BY DEF IInv, FramesGood
    <3>10. \A i \in DOMAIN frames' :
             /\ i <= frames'[i].run /\ frames'[i].run \in DOMAIN runs'
             /\ frames'[i].at = "sent" => runs'[frames'[i].run].result = None
      <4> SUFFICES ASSUME NEW i \in DOMAIN frames'
                   PROVE  /\ i <= frames'[i].run /\ frames'[i].run \in DOMAIN runs'
                          /\ frames'[i].at = "sent" => runs'[frames'[i].run].result = None
        OBVIOUS
      <4>1. CASE i \in DOMAIN frames
        BY <3>1, <3>2, <3>3, <3>7, <3>9, <4>1
      <4>2. CASE i = m + 1
        BY <2>4, <3>1, <3>2, <3>3, <3>6, <3>7, <4>2
      <4> QED
        BY <3>7, <3>8, <4>1, <4>2
    <3>11. \A i, j \in DOMAIN frames' : i < j => frames'[i].run < frames'[j].run
      <4> SUFFICES ASSUME NEW i \in DOMAIN frames', NEW j \in DOMAIN frames', i < j
                   PROVE  frames'[i].run < frames'[j].run
        OBVIOUS
      <4>1. i \in DOMAIN frames
        BY <3>2, <3>7
      <4>2. CASE j \in DOMAIN frames
        BY <3>7, <4>1, <4>2 DEF IInv, FramesGood
      <4>3. CASE j = m + 1
        BY <3>1, <3>2, <3>6, <3>7, <4>1, <4>3
      <4> QED
        BY <3>7, <3>8, <4>2, <4>3
    <3> QED
      BY <3>7, <3>10, <3>11 DEF FramesGood, Frames
  <2>8. active' = active
    BY <2>1, <2>2 DEF Become
  <2> QED
    BY <2>5, <2>6, <2>7, <2>8 DEF IInv, Keeps
<1> QED
  BY <1>3, <1>4

\* The frames after the answer of one of them.
Answered(fs, i, at) == [fs EXCEPT ![i].at = at]

LEMMA AnsweredFrames ==
    ASSUME NEW fs, NEW rs, NEW ts, FramesGood(fs, rs), RunsGood(rs), NEW i \in DOMAIN fs,
           NEW at \in {"rejected", "completed"}, DOMAIN ts = DOMAIN rs,
           \A r \in DOMAIN rs : r # fs[i].run => ts[r] = rs[r]
    PROVE  FramesGood(Answered(fs, i, at), ts)
<1> DEFINE f == [fs[i] EXCEPT !.at = at]
           n == [fs EXCEPT ![i].at = at]
<1>1. /\ fs \in Seq(Frames) /\ DOMAIN fs = 1 .. Len(fs) /\ Len(fs) \in Nat
      /\ fs[i] \in Frames
      /\ \A j \in DOMAIN fs : fs[j].run \in DOMAIN rs /\ fs[j].run \in Nat
  BY FramesAre DEF FramesGood, Frames
<1>2. f \in Frames /\ f.run = fs[i].run /\ f.at = at
  BY <1>1 DEF Frames
<1>3. n = [fs EXCEPT ![i] = f]
  BY <1>1
<1> HIDE DEF f, n
<1>4. /\ n \in Seq(Frames) /\ DOMAIN n = DOMAIN fs /\ n[i] = f
      /\ \A j \in DOMAIN fs : j # i => n[j] = fs[j]
  BY <1>1, <1>2, <1>3
<1>5. \A j \in DOMAIN fs : n[j].run = fs[j].run
  BY <1>2, <1>4
<1>6. \A j, k \in DOMAIN fs : j # k => fs[j].run # fs[k].run
  BY <1>1 DEF FramesGood
<1>7. \A j \in DOMAIN fs : n[j].at = "sent" => j # i /\ fs[j].at = "sent"
  BY <1>2, <1>4
<1>8. \A j \in DOMAIN n :
          /\ j <= n[j].run /\ n[j].run \in DOMAIN ts
          /\ n[j].at = "sent" => ts[n[j].run].result = None
  BY <1>1, <1>4, <1>5, <1>6, <1>7 DEF FramesGood
<1>9. \A j, k \in DOMAIN n : j < k => n[j].run < n[k].run
  BY <1>4, <1>5 DEF FramesGood
<1>10. FramesGood(n, ts)
  BY <1>4, <1>8, <1>9 DEF FramesGood, Frames
<1> QED
  BY <1>10 DEF n, Answered

\* A run gets its result once.
LEMMA ResultDoes ==
    ASSUME NEW rs, RunsGood(rs), NEW r \in DOMAIN rs, rs[r].result = None,
           NEW result \in {"valid", "deficient"}
    PROVE  LET ts == [rs EXCEPT ![r].result = result] IN
           /\ RunsGood(ts) /\ Continues(rs, ts) /\ DOMAIN ts = DOMAIN rs
           /\ \A q \in DOMAIN rs : q # r => ts[q] = rs[q]
<1> DEFINE s == [rs[r] EXCEPT !.result = result]
           ts == [rs EXCEPT ![r].result = result]
<1>1. rs \in Seq(Submissions) /\ DOMAIN rs = 1 .. Len(rs) /\ Len(rs) \in Nat /\ rs[r] \in Submissions
  BY RunsAre DEF RunsGood
<1>2. /\ s \in Submissions /\ s.case = rs[r].case /\ s.serial = rs[r].serial
      /\ s.receipt = rs[r].receipt /\ s.content = rs[r].content /\ s.source = rs[r].source
      /\ s.historical = rs[r].historical
  BY <1>1 DEF Submissions
<1>3. ts = [rs EXCEPT ![r] = s]
  BY <1>1
<1> HIDE DEF s, ts
<1>4. /\ ts \in Seq(Submissions) /\ DOMAIN ts = DOMAIN rs /\ Len(ts) = Len(rs) /\ ts[r] = s
      /\ \A q \in DOMAIN rs : q # r => ts[q] = rs[q]
  BY <1>1, <1>2, <1>3
<1>5. \A q \in DOMAIN rs :
         /\ ts[q].case = rs[q].case /\ ts[q].serial = rs[q].serial
         /\ ts[q].receipt = rs[q].receipt /\ ts[q].content = rs[q].content
         /\ ts[q].source = rs[q].source /\ ts[q].historical = rs[q].historical
         /\ rs[q].result = "valid" => ts[q].result = "valid"
  BY <1>2, <1>4, Apart
<1>6. RunsGood(ts)
  BY <1>4, <1>5 DEF RunsGood
<1>7. Continues(rs, ts)
  BY <1>4, <1>5 DEF Continues
<1> QED
  BY <1>4, <1>6, <1>7 DEF ts

LEMMA AnswerStep ==
    ASSUME IInv, NEW i \in DOMAIN frames, AnswerRun(i)
    PROVE  IInv' /\ Keeps
<1>1. frames[i].at = "sent" /\ UNCHANGED window
  BY DEF AnswerRun
<1>6. Keeps
  BY <1>1 DEF window, Keeps
<1>2. Good(Now, runs) /\ RunsGood(runs) /\ FramesGood(frames, runs)
  BY DEF IInv
<1>3. Now' = Now
  BY <1>1 DEF Now, window
<1>4. CASE frames' = [frames EXCEPT ![i].at = "rejected"] /\ UNCHANGED runs
  <2>1. FramesGood(frames', runs)
    BY <1>2, <1>4, AnsweredFrames DEF Answered
  <2> QED
    BY <1>2, <1>3, <1>4, <1>6, <2>1 DEF IInv
<1>5. CASE /\ frames' = [frames EXCEPT ![i].at = "completed"]
           /\ \E result \in {"valid", "deficient"} :
                 runs' = [runs EXCEPT ![frames[i].run].result = result]
  <2>1. PICK result \in {"valid", "deficient"} :
           runs' = [runs EXCEPT ![frames[i].run].result = result]
    BY <1>5
  <2>2. frames[i].run \in DOMAIN runs /\ runs[frames[i].run].result = None
    BY <1>1, <1>2 DEF FramesGood
  <2>3. /\ RunsGood(runs') /\ Continues(runs, runs') /\ DOMAIN runs' = DOMAIN runs
        /\ \A q \in DOMAIN runs : q # frames[i].run => runs'[q] = runs[q]
    BY <1>2, <2>1, <2>2, ResultDoes
  <2>4. FramesGood(frames', runs')
    <3> DEFINE ts == runs'
    <3>1. frames' = Answered(frames, i, "completed")
      BY <1>5 DEF Answered
    <3>2. DOMAIN ts = DOMAIN runs /\ \A q \in DOMAIN runs : q # frames[i].run => ts[q] = runs[q]
      BY <2>3
    <3> HIDE DEF ts
    <3>3. FramesGood(Answered(frames, i, "completed"), ts)
      BY <1>2, <3>2, AnsweredFrames
    <3> QED
      BY <3>1, <3>3 DEF ts
  <2>5. Good(Now', runs')
    BY <1>2, <1>3, <2>3, StaysGood
  <2> QED
    BY <1>6, <2>3, <2>4, <2>5 DEF IInv
<1> QED
  BY <1>4, <1>5 DEF AnswerRun

LEMMA CancelStep ==
    ASSUME IInv, CancelCurrentRun
    PROVE  IInv' /\ Keeps
<1> DEFINE n == [Now EXCEPT !.flag = FALSE]
<1>1. Handle(Refresh(n))
  BY DEF CancelCurrentRun
<1>2. Good(n, runs) /\ n.active = active
  BY FlagDoes, NowIs DEF IInv
<1> HIDE DEF n
<1>3. Good(Refresh(n), runs) /\ Refresh(n).active = active
  BY <1>2, Refreshed DEF Follows
<1> QED
  BY <1>1, <1>3, Handled

LEMMA FinishRunStep ==
    ASSUME IInv, FinishRun
    PROVE  IInv' /\ Keeps
<1> DEFINE n == [Now EXCEPT !.flag = FALSE]
           r == Last(frames).run
<1>1. /\ frames # << >> /\ frames' = Front(frames) /\ UNCHANGED runs
      /\ Become(Refresh(n)) \/ \E answered \in Loads : Become(Refresh(Completed(n, r, answered)))
  BY DEF FinishRun
<1>2. Good(Now, runs) /\ RunsGood(runs) /\ FramesGood(frames, runs)
  BY DEF IInv
<1>3. Good(n, runs) /\ n.active = active
  BY <1>2, FlagDoes, NowIs
<1>4. /\ DOMAIN frames = 1 .. Len(frames) /\ Len(frames) \in Nat /\ frames \in Seq(Frames)
      /\ \A i \in DOMAIN frames : frames[i].run \in DOMAIN runs
  BY <1>2, FramesAre DEF FramesGood, Frames
<1>5. r \in DOMAIN runs /\ Len(frames) # 0
  BY <1>1, <1>4 DEF Last
<1> HIDE DEF n, r
<1>6. Good(Now', runs) /\ active' = active
  <2>1. Good(Refresh(n), runs) /\ Refresh(n).active = active
    BY <1>3, Refreshed DEF Follows
  <2>2. \A answered : LET m == Refresh(Completed(n, r, answered))
                      IN  Good(m, runs) /\ m.active = active
    BY <1>2, <1>3, <1>5, CompletedDoes, RefreshDoes
  <2>3. PICK m : Good(m, runs) /\ m.active = active /\ Become(m)
    BY <1>1, <2>1, <2>2
  <2>4. Good(Now', runs)
    BY <2>3, Becomes
  <2> QED
    BY <2>3, <2>4 DEF Become
<1>7. FramesGood(frames', runs)
  <2> DEFINE g == Front(frames)
  <2>1. /\ g \in Seq(Frames) /\ DOMAIN g \subseteq DOMAIN frames
        /\ \A i \in DOMAIN g : g[i] = frames[i]
    BY <1>4, <1>5 DEF Front
  <2> HIDE DEF g
  <2>2. FramesGood(g, runs)
    BY <1>2, <2>1 DEF FramesGood, Frames
  <2> QED
    BY <1>1, <2>2 DEF g
<1> QED
  BY <1>1, <1>2, <1>6, <1>7 DEF IInv, Keeps

LEMMA Starts == Init => IInv
<1> SUFFICES ASSUME Init PROVE IInv
  OBVIOUS
<1>1. /\ store = [c \in Cases |-> None] /\ tabs = [c \in Cases |-> None] /\ active = None
      /\ receipt = None /\ view = None /\ flag = FALSE /\ typed = None /\ pending = << >>
      /\ shown = Blank /\ frames = << >> /\ runs = << >> /\ serial = 0
  BY DEF Init
<1>2. Blank \in Screens /\ << >> \in Seq(Receipts)
  BY DEF Blank, Screens
<1>3. serial \in 0 .. MaxSerial
  BY <1>1, BoundsAssumption
<1>4. Now \in Windows
  BY <1>1, <1>2, <1>3 DEF Now, Windows
<1>5. Good(Now, runs)
  BY <1>1, <1>4, NowIs
  DEF Good, Sound, Form, Fronted, Backed, Sessions, FrontReceipt, FrontView, OnScreen
<1>6. RunsGood(runs)
  BY <1>1, BoundsAssumption DEF RunsGood
<1>7. FramesGood(frames, runs)
  BY <1>1 DEF FramesGood
<1> QED
  BY <1>5, <1>6, <1>7 DEF IInv

LEMMA Steps == IInv /\ [Next]_vars => IInv' /\ (Keeps \/ UNCHANGED vars)
<1> SUFFICES ASSUME IInv, [Next]_vars PROVE IInv' /\ (Keeps \/ UNCHANGED vars)
  OBVIOUS
<1>1. CASE Editing
  BY <1>1, TypeStep, EditStep, FinishInputStep, MutateStep, BranchStep, PreviewStep, ReturnStep
  DEF Editing
<1>2. CASE Tabs
  BY <1>2, CreateStep, OpenStep, SwitchStep, CloseStep, RelaunchStep DEF Tabs
<1>3. CASE Running
  BY <1>3, ValidateStep, RunStep, CancelStep, FinishRunStep, AnswerStep DEF Running
<1>4. CASE \E c \in Cases, e \in Contents : ForeignEdit(c, e)
  BY <1>4, ForeignStep
<1>5. CASE UNCHANGED vars
  <2>1. Now' = Now /\ frames' = frames /\ runs' = runs
    BY <1>5 DEF vars, window, Now
  <2> QED
    BY <1>5, <2>1 DEF IInv
<1> QED
  BY <1>1, <1>2, <1>3, <1>4, <1>5 DEF Next

-------------------------------------------------------------------------------
(* The theorems *)

\* Whatever is edited, switched, closed, submitted and answered in which order, the window is
\* good: every session keeps results and receipts of its own case only, the screen shows the
\* session in front, and every open call of run_current has a run of its own.
THEOREM Invariant == Spec => []IInv
<1>1. IInv /\ [Next]_vars => IInv'
  BY Steps
<1> QED
  BY <1>1, Starts, PTL DEF Spec

\* The sessions are well formed, one is in front while there is one, and the screen shows its
\* document.
THEOREM TypeCorrect == Spec => []TypeOK
<1>1. IInv => TypeOK
  <2> SUFFICES ASSUME IInv PROVE TypeOK
    OBVIOUS
  <2>1. Good(Now, runs)
    BY DEF IInv
  <2>2. \A c \in Cases : tabs[c] # None => tabs[c] \in SessionType /\ store[c] # None
    BY <2>1, WindowFields, NowIs DEF Good, Sound, Backed
  <2>3. active = None => \A c \in Cases : tabs[c] = None
    BY <2>1, NowIs DEF Good, Sound, Fronted
  <2>4. active # None => tabs[active] # None /\ shown.content = Document(tabs[active])
    <3>1. active # None => tabs[active] # None /\ shown = Screen(tabs[active])
      BY <2>1, NowIs, FrontIs
    <3>2. \A s : Screen(s).content = Document(s)
      BY DEF Screen
    <3> QED
      BY <3>1, <3>2
  <2>5. serial \in 0 .. MaxSerial
    BY <2>1, WindowFields, NowIs DEF Good, Sound
  <2>6. serial <= MaxSerial
    BY <2>5, BoundsAssumption
  <2>7. Len(runs) <= MaxRuns /\ Len(frames) <= Len(runs)
    BY FramesAre DEF IInv, RunsGood
  <2> QED
    BY <2>2, <2>3, <2>4, <2>6, <2>7 DEF TypeOK
<1> QED
  BY <1>1, Invariant, PTL

\* What is submitted to a run is the very content its receipt validated (has_valid_receipt,
\* _check_receipt_engineering_identity).
THEOREM SubmissionsAreValidated == Spec => []RunnableIsValidated
<1>1. IInv => RunnableIsValidated
  BY DEF IInv, RunsGood, RunnableIsValidated
<1> QED
  BY <1>1, Invariant, PTL

\* Results and receipts stay with the case they belong to, whichever tab is in front when they
\* arrive (_load_run_results, remember_view).
THEOREM ResultsStay == Spec => []ResultsStayWithTheirCase
<1>1. IInv => ResultsStayWithTheirCase
  <2> SUFFICES ASSUME IInv, NEW c \in Cases, tabs[c] # None
               PROVE  /\ \A r \in {tabs[c].view, tabs[c].workbook, tabs[c].overlays} :
                            r # None => runs[r].case = c
                      /\ tabs[c].receipt # None => tabs[c].receipt.case = c
    BY DEF ResultsStayWithTheirCase
  <2>1. SessionGood(c, tabs[c], runs)
    BY NowIs DEF IInv, Good, Sound, Sessions
  <2> QED
    BY <2>1 DEF SessionGood, Results
<1> QED
  BY <1>1, Invariant, PTL

\* The overlays of a tab are of a run of it that was valid in all four respects (run_current
\* keeps the last valid ones).
THEOREM OverlaysAreValid == Spec => []OverlaysFromValidRuns
<1>1. IInv => OverlaysFromValidRuns
  <2> SUFFICES ASSUME IInv, NEW c \in Cases, tabs[c] # None, tabs[c].overlays # None,
                      runs[tabs[c].overlays].serial = tabs[c].serial
               PROVE  runs[tabs[c].overlays].result = "valid"
    BY DEF OverlaysFromValidRuns
  <2>1. SessionGood(c, tabs[c], runs)
    BY NowIs DEF IInv, Good, Sound, Sessions
  <2> QED
    BY <2>1 DEF SessionGood, Overlays
<1> QED
  BY <1>1, Invariant, PTL

\* Results that are shown without a stale mark are of the document on the screen, unless they
\* were submitted from a historical view (result_is_stale, refresh).
THEOREM UnflaggedAreCurrent == Spec => []UnflaggedIsCurrent
<1>1. IInv => UnflaggedIsCurrent
  <2> SUFFICES ASSUME IInv, NEW r \in Unflagged, r # None
               PROVE  runs[r].historical \/ runs[r].content = shown.content
    BY DEF UnflaggedIsCurrent
  <2>1. Good(Now, runs) /\ RunsGood(runs)
    BY DEF IInv
  <2>2. (r = shown.workbook /\ ~ shown.stale) \/ (r = shown.overlays /\ ~ shown.marked)
    BY DEF Unflagged
  <2>3. active # None
    <3>1. active = None => shown = Blank
      BY <2>1, NowIs DEF Good, OnScreen
    <3> QED
      BY <2>2, <3>1 DEF Blank
  <2> DEFINE s == tabs[active]
  <2>4. s \in SessionType /\ SessionGood(active, s, runs) /\ shown = Screen(s)
    BY <2>1, <2>3, FrontIs, NowIs
  <2>5. Document(s) \in Contents
    BY <2>4, ScreenIs
  <2> HIDE DEF s
  <2>6. /\ r \in {s.workbook, s.overlays} /\ s.sources[r] = Document(s)
        /\ shown.content = Document(s)
    BY <2>2, <2>4 DEF Screen, Result_is_stale
  <2>7. r \in DOMAIN runs /\ r \in Runs
    BY <2>4, <2>6, SessionFields DEF SessionGood, Results
  <2>8. runs[r].source = shown.content
    BY <2>4, <2>5, <2>6, <2>7, Apart DEF SessionGood
  <2> QED
    BY <2>1, <2>7, <2>8 DEF RunsGood
<1> QED
  BY <1>1, Invariant, PTL

\* No tab change loses unfinished input or takes it along to another case (flush_input_edits).
THEOREM InputsAreKept == Spec => NavigationKeepsInputs
<1>1. IInv /\ [Next]_vars =>
         [active' # active =>
            \A input \in Range(pending) \cup ({typed} \ {None}) :
               input.content \in {store'[input.case][i] :
                   i \in Len(store[input.case]) + 1 .. Len(store'[input.case])}]_vars
  <2> SUFFICES ASSUME Keeps, active' # active, NEW input \in Inputs
               PROVE  input.content \in {store'[input.case][i] :
                         i \in Len(store[input.case]) + 1 .. Len(store'[input.case])}
    BY Steps DEF Inputs
  <2>1. Entered(store, store', input.case, input.content)
    BY DEF Keeps
  <2> QED
    BY <2>1 DEF Entered
<1> QED
  BY <1>1, Invariant, PTL DEF Spec, NavigationKeepsInputs
===============================================================================
