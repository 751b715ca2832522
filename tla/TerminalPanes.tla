--------------------------- MODULE TerminalPanes ----------------------------
(***************************************************************************)
(* What stands behind a terminal pane of the cockpit (XtermPane.tsx, the   *)
(* attach epochs of ProjectView.tsx, lib/terminal-renderer.ts).  A pane    *)
(* attaches to its session's shell when it is mounted and never again:     *)
(* after a restart of the shell, or of the daemon's connection, it hears   *)
(* the shell only if a load of the session list mounts it anew.  And the   *)
(* panes of a window share a few GPU renderers.                            *)
(***************************************************************************)
EXTENDS Integers, SequencesExt

CONSTANTS
    MaxShellMoves,  \* bound: starts and stops of the shell, connections lost
    MaxLooks,       \* bound: changes of the pane's box and of the font
    GlPanes,        \* the window's panes
    GlBudget        \* live WebGL contexts

ASSUME PanesAssumption ==
    /\ {MaxShellMoves, MaxLooks} \subseteq Nat /\ GlBudget \in Nat \ {0} /\ IsFiniteSet(GlPanes)

VARIABLES
    pty,        \* the session's shell: [no |-> which start, on, size |-> what it was told]
    wire,       \* which connection to the daemon stands, counted
    paneLoads,  \* the loads so far: [bump, wire, saw |-> start seen running, st]
    taken,      \* the last load the gate accepted
    rowStart,        \* the start the list shows running, 0 for none
    ears,       \* the start and connection the daemon streams from: [no, wire]
    asked,      \* a mount's attach is in flight
    missed,     \* no load has told the pane of a restart
    box,        \* the pane's box: "hidden", "small" or "big"
    seenBox,    \* what its ResizeObserver last told
    font,
    grid,       \* the terminal's size
    lastGrid,   \* the size last sent
    looks,
    gl          \* the panes with a context, least recently used first

linkVars == <<pty, wire, paneLoads, taken, rowStart, ears, asked, missed>>
sizeVars == <<box, seenBox, font, grid, lastGrid, looks>>
paneVars == <<linkVars, sizeVars, gl>>

NoSize == <<"none">>
Spawned == <<"80x24">>
Fit(b) == <<b, font>>
ShellMoves == pty.no + wire + (IF pty.on THEN 0 ELSE 1)

PanesInit ==
    /\ pty = [no |-> 1, on |-> TRUE, size |-> <<"small", 0>>]
    /\ wire = 1 /\ paneLoads = <<>> /\ taken = 0 /\ rowStart = 1
    /\ ears = [no |-> 1, wire |-> 1] /\ asked = FALSE /\ missed = FALSE
    /\ box = "small" /\ seenBox = "small" /\ font = 0
    /\ grid = <<"small", 0>> /\ lastGrid = grid /\ looks = 0
    /\ gl = <<>>

-----------------------------------------------------------------------------
(* The size *)

Showing(b) == b # "hidden"

(* A size is sent when it is not the one sent last; with no shell to take it,
   the call is refused and the refusal swallowed. *)
ApplyFit(b, last) ==
    IF Showing(b)
    THEN /\ grid' = Fit(b) /\ lastGrid' = grid'
         /\ pty' = [pty EXCEPT !.size = IF pty.on /\ grid' # last THEN grid' ELSE @]
    ELSE lastGrid' = last /\ UNCHANGED <<grid, pty>>

(* Its tab or project is switched, or the window resized; the observer is
   told in a later task. *)
BoxChanges ==
    /\ looks < MaxLooks /\ looks' = looks + 1
    /\ box' \in {"hidden", "small", "big"} \ {box}
    /\ UNCHANGED <<seenBox, font, grid, lastGrid, linkVars, gl>>

Observed ==
    /\ seenBox # box /\ seenBox' = box /\ ApplyFit(box, lastGrid)
    /\ UNCHANGED <<box, font, looks, gl>>
    /\ UNCHANGED <<wire, paneLoads, taken, rowStart, ears, asked, missed>>

(* A new look refits the terminal, which tells the shell nothing. *)
LookChanges ==
    /\ looks < MaxLooks /\ looks' = looks + 1
    /\ font' = 1 - font /\ grid' = IF Showing(box) THEN <<box, font'>> ELSE grid
    /\ UNCHANGED <<box, seenBox, lastGrid, linkVars, gl>>

-----------------------------------------------------------------------------
(* Attaching *)

NewPaneLoad(bump, w) == Append(paneLoads, [bump |-> bump, wire |-> w, saw |-> 0, st |-> "asked"])

(* The daemon says so to every window, and they load. *)
PtyStarts ==
    /\ ~pty.on /\ ShellMoves < MaxShellMoves
    /\ pty' = [no |-> pty.no + 1, on |-> TRUE, size |-> Spawned]
    /\ paneLoads' = NewPaneLoad(FALSE, wire)
    /\ UNCHANGED <<wire, taken, rowStart, ears, asked, missed, sizeVars, gl>>

PtyStops ==
    /\ pty.on /\ pty' = [pty EXCEPT !.on = FALSE]
    /\ paneLoads' = NewPaneLoad(FALSE, wire)
    /\ UNCHANGED <<wire, taken, rowStart, ears, asked, missed, sizeVars, gl>>

(* daemon.gone: the connection is lost, with what was in flight on it. *)
ConnectionLost ==
    /\ ShellMoves < MaxShellMoves /\ wire' = wire + 1
    /\ paneLoads' = NewPaneLoad(TRUE, wire') /\ asked' = FALSE
    /\ UNCHANGED <<pty, taken, rowStart, ears, missed, sizeVars, gl>>

LoadReads(i) ==
    /\ paneLoads[i].st = "asked" /\ paneLoads[i].wire = wire
    /\ paneLoads' = [paneLoads EXCEPT ![i].st = "read", ![i].saw = IF pty.on THEN pty.no ELSE 0]
    /\ UNCHANGED <<pty, wire, taken, rowStart, ears, asked, missed, sizeVars, gl>>

(* A load that fails says so on the stage; what it was to bump is forgotten. *)
LoadIsLost(i) ==
    /\ \/ paneLoads[i].st = "asked" /\ (paneLoads[i].wire # wire \/ paneLoads[i].bump)
       \/ paneLoads[i].st = "read" /\ i <= taken
    /\ paneLoads' = [paneLoads EXCEPT ![i].st = "over"]
    /\ missed' = (missed \/ paneLoads[i].bump)
    /\ UNCHANGED <<pty, wire, taken, rowStart, ears, asked, sizeVars, gl>>

(* Status is compared, not the process: a shell that stopped and started again
   between two lists was running in both. *)
StartedRunning(saw) == rowStart = 0 /\ saw # 0

LoadIsTaken(i) ==
    /\ paneLoads[i].st = "read" /\ i > taken /\ taken' = i
    /\ paneLoads' = [paneLoads EXCEPT ![i].st = "over"]
    /\ rowStart' = paneLoads[i].saw
    /\ LET mounts == paneLoads[i].bump \/ StartedRunning(paneLoads[i].saw) IN
       /\ asked' = (asked \/ mounts)
       /\ missed' = IF mounts THEN FALSE
                    ELSE missed \/ (rowStart # 0 /\ rowStart' # 0 /\ rowStart' # rowStart)
    /\ UNCHANGED <<pty, wire, ears, sizeVars, gl>>

(* The attach of a mount reaches the daemon, the mount's size behind it. *)
AttachAnswered ==
    /\ asked /\ asked' = FALSE
    /\ ears' = IF pty.on THEN [no |-> pty.no, wire |-> wire] ELSE ears
    /\ ApplyFit(box, NoSize) /\ seenBox' = box
    /\ UNCHANGED <<wire, paneLoads, taken, rowStart, missed, box, font, looks, gl>>

LinkNext ==
    \/ BoxChanges \/ Observed \/ LookChanges
    \/ PtyStarts \/ PtyStops \/ ConnectionLost \/ AttachAnswered
    \/ \E i \in DOMAIN paneLoads : LoadReads(i) \/ LoadIsLost(i) \/ LoadIsTaken(i)

-----------------------------------------------------------------------------
(* RendererCoordinator.  `gl` is in the order of `used`; `visible` is what the
   pane's observer last told. *)

Holder(p) == SelectInSeq(gl, LAMBDA h : h.pane = p)
HasGl(p) == Holder(p) # 0
Held(p, v) == [pane |-> p, visible |-> v]

(* Hidden before visible, then the least recently used. *)
Victim ==
    LET hidden == {i \in DOMAIN gl : ~gl[i].visible} IN
    IF gl = <<>> THEN 0 ELSE IF hidden = {} THEN 1 ELSE Min(hidden)

SetVisible(p, v) ==
    LET i == Holder(p) IN
    IF v THEN Append(RemoveAt(gl, i), Held(p, TRUE)) ELSE [gl EXCEPT ![i].visible = FALSE]

(* `made` is whether the addon could be created and loaded: the victim is gone
   either way. *)
Acquired(p, v, made) ==
    LET full == Len(gl) >= GlBudget
        room == IF full THEN RemoveAt(gl, Victim) ELSE gl IN
    IF full /\ gl[Victim].visible /\ ~v THEN gl
    ELSE IF made THEN Append(room, Held(p, v)) ELSE room

SyncRenderer(p) ==
    \E v, made \in BOOLEAN :
       gl' = IF HasGl(p) THEN SetVisible(p, v) ELSE Acquired(p, v, made)

Released(p) == HasGl(p) /\ gl' = RemoveAt(gl, Holder(p))

GlNext == (\E p \in GlPanes : SyncRenderer(p) \/ Released(p)) /\ UNCHANGED <<linkVars, sizeVars>>

-----------------------------------------------------------------------------
PanesTypeOK ==
    /\ pty.no \in Nat /\ pty.on \in BOOLEAN /\ wire \in Nat /\ taken \in 0..Len(paneLoads)
    /\ {asked, missed} \subseteq BOOLEAN /\ font \in 0..1
    /\ {box, seenBox} \subseteq {"hidden", "small", "big"}
    /\ \A i \in DOMAIN gl : gl[i].pane \in GlPanes /\ gl[i].visible \in BOOLEAN

Quiet == ~asked /\ seenBox = box /\ \A i \in DOMAIN paneLoads : paneLoads[i].st = "over"

(* Once the loads are over, a pane whose shell runs hears it, unless no load
   told it: the shell restarted between two lists, or the load of a lost
   connection failed or was overtaken by a later one. *)
PaneHearsItsShell ==
    Quiet /\ pty.on /\ ~missed => ears = [no |-> pty.no, wire |-> wire]

(* And the shell was told the pane's size, unless the look changed since;
   never that of a hidden pane, which is none. *)
ShellKnowsItsSize ==
    /\ pty.size[1] # "hidden"
    /\ Quiet /\ pty.on /\ ~missed /\ Showing(box) => pty.size = lastGrid /\ lastGrid[1] = box

(* No more contexts than Chromium allows, one for a pane; and none is taken
   from a pane on screen for one that is not, or while a hidden one has one. *)
ContextsInBudget == Len(gl) <= GlBudget /\ IsInjective([i \in DOMAIN gl |-> gl[i].pane])
Evicted == {i \in DOMAIN gl : \A j \in DOMAIN gl' : gl'[j].pane # gl[i].pane}
OnScreenKeepsItsGl ==
    [][\A i \in Evicted : gl[i].visible /\ Len(gl) = GlBudget /\ Len(gl') = GlBudget =>
          gl'[Len(gl')].visible /\ \A j \in DOMAIN gl : gl[j].visible]_gl

-----------------------------------------------------------------------------
(***************************************************************************)
(* tmux's copy mode (src/core/layout/copy-mode.ts, driven by the key       *)
(* handler of XtermPane.tsx): keys move a cursor through a pane's          *)
(* scrollback, search it, select and yank, while the shell goes on writing *)
(* into that scrollback.  A line is a sequence of cells; rows and columns  *)
(* count from 0, as in the code.                                           *)
(***************************************************************************)

CONSTANTS
    Texts,          \* scrollbacks: sequences of lines, a line a sequence of Chars
    PaneRows,       \* the visible height
    MaxQuery        \* bound: characters of a query

(* A letter, a mark and a blank: what a word, a gap and a match are made of. *)
Chars == {"b", ".", " "}

ASSUME CopyModeAssumption ==
    /\ PaneRows \in Nat \ {0} /\ MaxQuery \in Nat
    /\ \A t \in Texts : t \in Seq(Seq(Chars)) /\ Len(t) > 0

VARIABLES
    text,       \* the pane's buffer now
    copy,       \* the pane's CopyState, or NotCopying
    yanked      \* what the last key copied to the clipboard, or NoYank

copyVars == <<text, copy, yanked>>

NotCopying == [row |-> -1]
NoYank == <<>>
NoAnchor == [row |-> -1, col |-> -1]
NoSearch == [typing |-> FALSE, dir |-> 1, query |-> <<>>]

-----------------------------------------------------------------------------
(* Positions *)

LastRow == Len(text) - 1
LineAt(r) == IF r \in 0..LastRow THEN text[r + 1] ELSE <<>>
AtMost(a, b) == IF a < b THEN a ELSE b
AtLeast(a, b) == IF a > b THEN a ELSE b
Place(r, c) == [row |-> r, col |-> c]
Before(p, q) == p.row < q.row \/ (p.row = q.row /\ p.col < q.col)
Foremost(S) == CHOOSE p \in S : \A q \in S \ {p} : Before(p, q)
Hindmost(S) == CHOOSE p \in S : \A q \in S \ {p} : Before(q, p)

ClampPos(r, c) ==
    LET row == AtLeast(0, AtMost(LastRow, r)) IN
    Place(row, AtLeast(0, AtMost(AtLeast(0, Len(LineAt(row)) - 1), c)))

EndOfText == ClampPos(LastRow, Len(LineAt(LastRow)))

Cells == UNION {{Place(r, c) : c \in 0..(Len(LineAt(r)) - 1)} : r \in 0..LastRow}
EmptyUpTo(last) == {Place(r, 0) : r \in {x \in 0..last : LineAt(x) = <<>>}}
Cell(p) == IF p.col \in 0..(Len(LineAt(p.row)) - 1) THEN LineAt(p.row)[p.col + 1] ELSE " "
Kind(p) == CASE Cell(p) = " " -> 0 [] Cell(p) = "b" -> 1 [] OTHER -> 2
WordStarts == {p \in Cells : Kind(p) # 0 /\ (p.col = 0 \/ Kind(Place(p.row, p.col - 1)) # Kind(p))}
WordEnds == {p \in Cells : Kind(p) # 0 /\ Kind(Place(p.row, p.col + 1)) # Kind(p)}

(* An empty line is a word of its own for w and b, as in vi, and not for e. *)
NextWordStart(p) ==
    LET S == {q \in WordStarts \cup EmptyUpTo(LastRow) : Before(p, q)} IN
    IF S = {} THEN EndOfText ELSE Foremost(S)

PrevWordStart(p) ==
    LET S == {q \in WordStarts \cup EmptyUpTo(p.row - 1) : Before(q, p)} IN
    IF S = {} THEN Place(0, 0) ELSE Hindmost(S)

WordEnd(p) ==
    LET S == {q \in WordEnds : Before(p, q)} IN
    IF S = {} THEN EndOfText ELSE Foremost(S)

IsBlank(r) == \A i \in DOMAIN LineAt(r) : LineAt(r)[i] = " "

(* { and }: the nearest blank line, or the edge of the text. *)
ParagraphDown(r) ==
    AtMost(LastRow, Min({x \in (r + 1)..LastRow : IsBlank(x)} \cup {AtLeast(r + 1, LastRow)}))

ParagraphUp(r) == Max({x \in 0..(r - 1) : IsBlank(x)} \cup {0})

-----------------------------------------------------------------------------
(* Searching *)

(* A query in lower case finds either case; the texts here have one. *)
Matches(row, q) ==
    {c \in 0..(Len(LineAt(row)) - Len(q)) : SubSeq(LineAt(row), c + 1, c + Len(q)) = q}

RowAfter(r, dir, step) == (r + dir * step) % Len(text)

(* On the line it starts from, a search looks past the cursor; when it has
   come round to it again, at the rest.                                    *)
MatchOnStep(p, q, dir, step) ==
    LET row == RowAfter(p.row, dir, step)
        m == Matches(row, q)
        ahead == IF step > 0 THEN m
                 ELSE {c \in m : IF dir = 1 THEN c > p.col ELSE c < p.col}
        found == IF ahead = {} THEN -1 ELSE IF dir = 1 THEN Min(ahead) ELSE Max(ahead) IN
    IF found >= 0 /\ (step < Len(text) \/ (IF dir = 1 THEN found <= p.col ELSE found >= p.col))
    THEN {Place(row, found)} ELSE {}

\* Mutant: the search does not come round the end of the text.
MatchBelow(p, q, dir) ==
    LET steps == {i \in 0..Len(text) : p.row + dir * i \in 0..LastRow /\ MatchOnStep(p, q, dir, i) # {}} IN
    IF q = <<>> \/ steps = {} THEN {} ELSE MatchOnStep(p, q, dir, Min(steps))

FindMatch(p, q, dir) ==
    LET steps == {i \in 0..Len(text) : MatchOnStep(p, q, dir, i) # {}} IN
    IF q = <<>> \/ steps = {} THEN {} ELSE MatchOnStep(p, q, dir, Min(steps))

-----------------------------------------------------------------------------
(* CopyKeys.  Each operator gives the CopyState after the key. *)

Cursor == Place(copy.row, copy.col)

PutAt(s, p, want) == [s EXCEPT !.row = p.row, !.col = p.col, !.want = want]

MoveTo(s, r, c) == LET p == ClampPos(r, c) IN PutAt(s, p, p.col)

Vertical(s, delta) ==
    PutAt(s, ClampPos(AtLeast(0, AtMost(LastRow, s.row + delta)), s.want), s.want)

RunSearch(s, q, dir) ==
    LET hit == FindMatch(Cursor, q, dir)
        next == [s EXCEPT !.search = NoSearch, !.last = [query |-> q, dir |-> dir]] IN
    IF hit = {} THEN [next EXCEPT !.notice = TRUE]
    ELSE LET p == CHOOSE p \in hit : TRUE IN MoveTo(next, p.row, p.col)

Moved(s, k) ==
    CASE k = "h" -> MoveTo(s, s.row, s.col - 1)
      [] k = "l" -> MoveTo(s, s.row, s.col + 1)
      [] k = "j" -> Vertical(s, 1)
      [] k = "k" -> Vertical(s, -1)
      [] k = "0" -> MoveTo(s, s.row, 0)
      [] k = "$" -> MoveTo(s, s.row, Len(LineAt(s.row)) - 1)
      [] k = "w" -> LET p == NextWordStart(Cursor) IN MoveTo(s, p.row, p.col)
      [] k = "b" -> LET p == PrevWordStart(Cursor) IN MoveTo(s, p.row, p.col)
      [] k = "e" -> LET p == WordEnd(Cursor) IN MoveTo(s, p.row, p.col)
      [] k = "G" -> MoveTo(s, LastRow, 0)
      [] k = "}" -> MoveTo(s, ParagraphDown(s.row), 0)
      [] k = "{" -> MoveTo(s, ParagraphUp(s.row), 0)
Motions == {"h", "l", "j", "k", "0", "$", "w", "b", "e", "G", "}", "{"}

HalfPage == AtLeast(1, PaneRows \div 2)
Paged(s, k) ==
    CASE k = "^d" -> Vertical(s, HalfPage) [] k = "^u" -> Vertical(s, -HalfPage)
      [] k = "^f" -> Vertical(s, PaneRows) [] k = "^b" -> Vertical(s, -PaneRows)
Pages == {"^d", "^u", "^f", "^b"}

Selecting(s, v) ==
    IF s.visual = v THEN [s EXCEPT !.visual = "none", !.anchor = NoAnchor]
    ELSE [s EXCEPT !.visual = v, !.anchor = IF @ = NoAnchor THEN Cursor ELSE @]

Asks(s, dir) == [s EXCEPT !.search = [typing |-> TRUE, dir |-> dir, query |-> <<>>]]

Again(s, flip) == IF s.last.query = <<>> THEN s ELSE RunSearch(s, s.last.query, s.last.dir * flip)

(* While a query is typed every key is text, Enter and Escape excepted. *)
Typing(s, k) ==
    CASE k = "Enter" -> IF s.search.query = <<>> THEN [s EXCEPT !.search = NoSearch]
                        ELSE RunSearch(s, s.search.query, s.search.dir)
      [] k = "Escape" -> [s EXCEPT !.search = NoSearch]
      [] k = "Backspace" -> [s EXCEPT !.search.query = IF @ = <<>> THEN @ ELSE Front(@)]
      [] k \in {"b", "."} -> [s EXCEPT !.search.query = Append(@, k)]
      [] OTHER -> s

Command(s, k) ==
    CASE k \in Motions -> Moved(s, k)
      [] k = "g" -> [s EXCEPT !.pending = TRUE]
      [] k = "/" -> Asks(s, 1)
      [] k = "?" -> Asks(s, -1)
      [] k = "n" -> Again(s, 1)
      [] k = "N" -> Again(s, -1)
      [] k = "v" -> Selecting(s, "char")
      [] k = "V" -> Selecting(s, "line")
      [] k = "y" -> IF s.visual = "none" THEN s ELSE NotCopying
      [] k \in {"Y", "q"} -> NotCopying
      [] k = "Escape" -> IF s.visual = "none" THEN NotCopying
                         ELSE [s EXCEPT !.visual = "none", !.anchor = NoAnchor]
      [] OTHER -> s

(* A `g` that is not followed by another is dropped: the key stands on its own. *)
CopyModeStep(prev, k) ==
    LET s == [prev EXCEPT !.notice = FALSE]
        cleared == [s EXCEPT !.pending = FALSE] IN
    CASE s.search.typing -> Typing(s, k)
      [] ~s.search.typing /\ k \in Pages -> Paged(cleared, k)
      [] ~s.search.typing /\ k \notin Pages /\ s.pending /\ k = "g" -> MoveTo(cleared, 0, 0)
      [] OTHER -> Command(cleared, k)

(* The characters from the anchor to the cursor, both included, or the whole
   lines they are on; blanks at the end of a line are not taken.           *)
Selection(s) ==
    LET c == Place(s.row, s.col)
        a == IF Before(c, s.anchor) THEN c ELSE s.anchor
        z == IF Before(c, s.anchor) THEN s.anchor ELSE c IN
    IF s.visual = "line" THEN [from |-> Place(a.row, 0), to |-> Place(z.row, AtLeast(0, Len(LineAt(z.row)) - 1))]
    ELSE [from |-> a, to |-> z]

TrimEnd(l) == SubSeq(l, 1, Max({0} \cup {i \in DOMAIN l : l[i] # " "}))

SelectedText(s) ==
    LET sel == Selection(s)
        part(r) == SubSeq(LineAt(r),
                      IF r = sel.from.row THEN sel.from.col + 1 ELSE 1,
                      IF r = sel.to.row THEN AtMost(sel.to.col + 1, Len(LineAt(r))) ELSE Len(LineAt(r))) IN
    [i \in 1..(sel.to.row - sel.from.row + 1) |-> TrimEnd(part(sel.from.row + i - 1))]

Yank(s, k) ==
    CASE ~s.search.typing /\ k = "y" /\ s.visual # "none" -> SelectedText(s)
      [] ~s.search.typing /\ k = "Y" -> <<TrimEnd(LineAt(s.row))>>
      [] OTHER -> NoYank

-----------------------------------------------------------------------------
CopyKeys == Motions \cup Pages \cup
        {"g", "/", "?", "n", "N", "v", "V", "y", "Y", "q", "Escape", "Enter", "Backspace", "."}

CopyInit == text \in Texts /\ copy = NotCopying /\ yanked = NoYank

(* The cursor starts where the shell's is: on the last line, here. *)
EnterCopy ==
    /\ copy = NotCopying
    /\ copy' = [row |-> EndOfText.row, col |-> EndOfText.col, want |-> EndOfText.col,
                visual |-> "none", anchor |-> NoAnchor, pending |-> FALSE,
                search |-> NoSearch, last |-> [query |-> <<>>, dir |-> 1], notice |-> FALSE]
    /\ yanked' = NoYank /\ UNCHANGED text

CopyKey(k) ==
    /\ copy # NotCopying
    /\ (copy.search.typing /\ k \in {"b", "."}) => Len(copy.search.query) < MaxQuery
    /\ copy' = CopyModeStep(copy, k) /\ yanked' = Yank(copy, k)
    /\ UNCHANGED text

(* The shell writes on, or clears its scrollback, or the oldest lines are dropped. *)
Output == text' \in Texts \ {text} /\ UNCHANGED <<copy, yanked>>

CopyNext == EnterCopy \/ Output \/ \E k \in CopyKeys : CopyKey(k)

CopySpec == CopyInit /\ [][CopyNext]_copyVars

-----------------------------------------------------------------------------
CopyTypeOK == text \in Texts /\ (copy # NotCopying => Len(copy.search.query) <= MaxQuery)

(* In a buffer that stands still the cursor and the anchor are on it, and a
   key that moved the cursor put it on the text of that moment. *)
InText(p) == ClampPos(p.row, p.col) = p
MovesStayInText == [][copy' # NotCopying /\ copy # NotCopying /\ Cursor' # Cursor => InText(Cursor)']_copyVars

(* w and e get on to the end of the text, b back to its start. *)
WordsGetOn ==
    [][(copy # NotCopying /\ copy' # NotCopying) =>
         LET goes(k) == CopyKey(k) /\ ~copy.search.typing /\ InText(Cursor) IN
         /\ goes("w") \/ goes("e") => Before(Cursor, Cursor') \/ Cursor' = EndOfText
         /\ goes("b") => Before(Cursor', Cursor) \/ Cursor' = Place(0, 0)]_copyVars

(* Whatever was begun - a query, a `g`, a selection - three Escapes give the
   keyboard back to the shell. *)
EscapesGiveKeysBack ==
    copy # NotCopying =>
       LET esc(s) == IF s = NotCopying THEN s ELSE CopyModeStep(s, "Escape") IN
       esc(esc(esc(copy))) = NotCopying

(* n, N and Enter land on an occurrence, the nearest in the direction of the
   search counted round the text, and say "not found" only when there is none. *)
Occurrences(q) == UNION {{Place(r, c) : c \in Matches(r, q)} : r \in 0..LastRow}
Nearest(p, S, dir) ==
    LET ahead == {q \in S : IF dir = 1 THEN Before(p, q) ELSE Before(q, p)}
        from == IF ahead = {} THEN S ELSE ahead IN
    IF dir = 1 THEN Foremost(from) ELSE Hindmost(from)
SearchFindsNearest ==
    [][(copy # NotCopying /\ copy' # NotCopying) =>
         LET q == copy'.last.query
             searched == \/ CopyKey("Enter") /\ copy.search.query # <<>>
                         \/ \E k \in {"n", "N"} : CopyKey(k) /\ ~copy.search.typing /\ q # <<>>
             all == Occurrences(q) IN
         searched /\ InText(Cursor) =>
            IF all = {} THEN copy'.notice ELSE Cursor' = Nearest(Cursor, all, copy'.last.dir)]_copyVars

(* Every line yanked is a stretch of a line of the text, and the key that
   yanked it has left copy mode. *)
YankIsText ==
    [][yanked' # NoYank /\ yanked' # yanked =>
         /\ copy' = NotCopying
         /\ \A i \in DOMAIN yanked' : \E r \in 0..LastRow : \E a \in 1..(Len(LineAt(r)) + 1), b \in 0..Len(LineAt(r)) :
               yanked'[i] = SubSeq(LineAt(r), a, b)]_copyVars

(* The cursor of copy mode goes where its keys say, in the text of that moment
   (copy-mode.ts).                                                          *)
CopyModeIsExact == MovesStayInText /\ WordsGetOn /\ SearchFindsNearest /\ YankIsText
=============================================================================
