------------------------------- MODULE Layout -------------------------------
(***************************************************************************)
(* The stage of a cockpit window (src/core/layout/index.ts): tabs, each    *)
(* holding a tree of split panes, as pure operators over one stage record. *)
(* Sizes, directions and titles of splits are left out: a split is the     *)
(* sequence of its children.  Ids are given by the caller, never reused.   *)
(***************************************************************************)
EXTENDS Integers, SequencesExt

NoNode == [kind |-> "none"]
Leaf(id, shows) == [kind |-> "pane", id |-> id, shows |-> shows]
SplitOf(kids) == [kind |-> "split", kids |-> kids]

(* One child is that child, none is no node. *)
Collapsed(kids) ==
    LET kept == SelectSeq(kids, LAMBDA k : k.kind # "none")
    IN  CASE Len(kept) = 0 -> NoNode
          [] Len(kept) = 1 -> kept[1]
          [] OTHER -> SplitOf(kept)

RECURSIVE PanesOf(_)
PanesOf(n) ==
    IF n.kind = "pane" THEN <<n>> ELSE FlattenSeq([i \in DOMAIN n.kids |-> PanesOf(n.kids[i])])

PaneIds(n) == {p.id : p \in Range(PanesOf(n))}
PaneAt(n, id) == CHOOSE p \in Range(PanesOf(n)) : p.id = id

(* mapNode: the pane `id` becomes `new`. *)
RECURSIVE MapNode(_, _, _)
MapNode(n, id, new) ==
    IF n.kind = "pane" THEN IF n.id = id THEN new ELSE n
    ELSE [n EXCEPT !.kids = [i \in DOMAIN @ |-> MapNode(@[i], id, new)]]

(* Only the panes `ids`: without, and saveNode and loadNode for what is kept. *)
RECURSIVE KeepPanes(_, _)
KeepPanes(n, ids) ==
    IF n.kind = "pane" THEN IF n.id \in ids THEN n ELSE NoNode
    ELSE Collapsed([i \in DOMAIN n.kids |-> KeepPanes(n.kids[i], ids)])

Without(n, id) == KeepPanes(n, PaneIds(n) \ {id})

-----------------------------------------------------------------------------
(* Stages *)

NoTab == 0
EmptyStage == [tabs |-> <<>>, active |-> NoTab]
NotZoomed == 0

NewTab(id, pane) ==
    [id |-> id, pinned |-> FALSE, root |-> pane, focused |-> pane.id, zoomed |-> NotZoomed]

TabIds(st) == {t.id : t \in Range(st.tabs)}
TabOf(st, t) == CHOOSE b \in Range(st.tabs) : b.id = t
TabIndex(st, t) == CHOOSE i \in DOMAIN st.tabs : st.tabs[i].id = t

StagePanes(st) == FlattenSeq([i \in DOMAIN st.tabs |-> PanesOf(st.tabs[i].root)])
Shown(st) == {p.shows : p \in Range(StagePanes(st))}

(* locatePane: the first tab and pane that show this, when one does. *)
Located(st, shows) ==
    LET holds(b) == \E p \in Range(PanesOf(b.root)) : p.shows = shows
        b == SelectSeq(st.tabs, holds)[1]
    IN  [tab |-> b.id, pane |-> SelectSeq(PanesOf(b.root), LAMBDA p : p.shows = shows)[1].id]

PinnedFirst(tabs) ==
    SelectSeq(tabs, LAMBDA b : b.pinned) \o SelectSeq(tabs, LAMBDA b : ~b.pinned)

(* withTab with a new tab; a tab that is gone changes nothing. *)
WithTab(st, new) ==
    [st EXCEPT !.tabs = [i \in DOMAIN @ |-> IF @[i].id = new.id THEN new ELSE @[i]]]

(* withTab with null: the tab goes, its neighbour is shown. *)
CloseTab(st, t) ==
    IF t \notin TabIds(st) THEN st
    ELSE LET at == TabIndex(st, t)
             left == RemoveAt(st.tabs, at)
         IN  [tabs |-> left,
              active |-> IF st.active # t THEN st.active
                         ELSE IF left = <<>> THEN NoTab
                         ELSE left[IF at <= Len(left) THEN at ELSE Len(left)].id]

OpenInNewTab(st, id, pane) == [tabs |-> Append(st.tabs, NewTab(id, pane)), active |-> id]

SetPinned(st, t, pinned) ==
    [st EXCEPT !.tabs =
        PinnedFirst([i \in DOMAIN @ |-> IF @[i].id = t THEN [@[i] EXCEPT !.pinned = pinned] ELSE @[i]])]

MoveTab(st, t, to) ==
    LET rest == RemoveAt(st.tabs, TabIndex(st, t))
    IN  [st EXCEPT !.tabs = PinnedFirst(InsertAt(rest, to, TabOf(st, t)))]

CloseOthers(st, t) ==
    [tabs |-> SelectSeq(st.tabs, LAMBDA b : b.id = t \/ b.pinned), active |-> t]

CloseToRight(st, t) ==
    LET kept == SelectSeq(st.tabs, LAMBDA b : TabIndex(st, b.id) <= TabIndex(st, t) \/ b.pinned)
    IN  [tabs |-> kept,
         active |-> IF \E b \in Range(kept) : b.id = st.active THEN st.active ELSE t]

FocusPane(st, t, id) ==
    [tabs |-> IF t \in TabIds(st) THEN WithTab(st, [TabOf(st, t) EXCEPT !.focused = id]).tabs ELSE st.tabs,
     active |-> t]

(* The new pane beside `id`; the focus goes to it even when `id` is gone. *)
SplitPane(st, t, id, pane) ==
    IF t \notin TabIds(st) THEN st
    ELSE LET b == TabOf(st, t)
             beside == IF id \in PaneIds(b.root)
                       THEN MapNode(b.root, id, SplitOf(<<PaneAt(b.root, id), pane>>)) ELSE b.root
         IN  WithTab(st, [b EXCEPT !.root = beside, !.focused = pane.id])

\* Mutant: the focus stays where it was.
ClosePaneFocused(st, t, id) ==
    IF t \notin TabIds(st) THEN st
    ELSE LET root == Without(TabOf(st, t).root, id)
         IN  IF root.kind = "none" THEN CloseTab(st, t) ELSE WithTab(st, [TabOf(st, t) EXCEPT !.root = root])

(* Closing the zoomed pane unzooms; the tab closes with its last pane. *)
ClosePane(st, t, id) ==
    IF t \notin TabIds(st) THEN st
    ELSE LET b == TabOf(st, t)
             root == Without(b.root, id)
         IN  IF root.kind = "none" THEN CloseTab(st, t)
             ELSE WithTab(st, [b EXCEPT
                    !.root = root,
                    !.focused = IF @ \in PaneIds(root) THEN @ ELSE PanesOf(root)[1].id,
                    !.zoomed = IF @ = id THEN NotZoomed ELSE @])

(* Panes of what is no longer alive go, with the tabs left empty. *)
Reconcile(st, alive) ==
    LET places == FlattenSeq([i \in DOMAIN st.tabs |->
                    [j \in DOMAIN PanesOf(st.tabs[i].root) |->
                        [tab |-> st.tabs[i].id, pane |-> PanesOf(st.tabs[i].root)[j]]]])
        dead == SelectSeq(places, LAMBDA at : at.pane.shows \notin alive)
    IN  FoldLeft(LAMBDA acc, at : ClosePane(acc, at.tab, at.pane.id), st, dead)

PlaceBeside(st, id, pane) ==
    IF st.active \in TabIds(st) /\ TabOf(st, st.active).root.kind = "pane"
    THEN SplitPane(st, st.active, TabOf(st, st.active).focused, pane)
    ELSE OpenInNewTab(st, id, pane)

-----------------------------------------------------------------------------
(* tmux-like operations *)

ToggleZoom(st, t, id) ==
    LET b == TabOf(st, t)
    IN  IF b.zoomed = id \/ id \notin PaneIds(b.root) THEN WithTab(st, [b EXCEPT !.zoomed = NotZoomed])
        ELSE WithTab(st, [b EXCEPT !.zoomed = id, !.focused = id])

(* select-layout: in a line, the focused pane beside the others, or a grid;
   panes keep their ids, the zoom goes. *)
PresetOf(b, preset) ==
    LET leaves == PanesOf(b.root)
        main == IF b.focused \in PaneIds(b.root) THEN PaneAt(b.root, b.focused) ELSE leaves[1]
        others == SelectSeq(leaves, LAMBDA p : p # main)
        cols == CHOOSE c \in 1..Len(leaves) : c * c >= Len(leaves) /\ (c - 1) * (c - 1) < Len(leaves)
        rows == [r \in 1..((Len(leaves) + cols - 1) \div cols) |->
                    Collapsed(SubSeq(leaves, (r - 1) * cols + 1,
                                     IF r * cols <= Len(leaves) THEN r * cols ELSE Len(leaves)))]
    IN  CASE preset = "even" -> SplitOf(leaves)
          [] preset = "main-left" -> SplitOf(<<main, Collapsed(others)>>)
          [] preset = "tiled" -> Collapsed(rows)

ApplyPreset(st, t, preset) ==
    LET b == [TabOf(st, t) EXCEPT !.zoomed = NotZoomed]
    IN  WithTab(st, IF Len(PanesOf(b.root)) < 2 THEN b ELSE [b EXCEPT !.root = PresetOf(b, preset)])

AdjacentTab(st, step) ==
    IF Len(st.tabs) < 2 THEN st
    ELSE LET at == IF st.active \in TabIds(st) THEN TabIndex(st, st.active) ELSE 1
         IN  [st EXCEPT !.active = st.tabs[((at - 1 + step) % Len(st.tabs)) + 1].id]

(* The pane trades its contents with the next one, and the focus follows. *)
SwapNext(st, t, id) ==
    LET b == TabOf(st, t)
        leaves == PanesOf(b.root)
        at == CHOOSE i \in DOMAIN leaves : leaves[i].id = id
        mine == leaves[at]
        other == leaves[(at % Len(leaves)) + 1]
        once == MapNode(b.root, mine.id, Leaf(mine.id, other.shows))
    IN  IF id \notin PaneIds(b.root) \/ Len(leaves) < 2 THEN st
        ELSE WithTab(st, [b EXCEPT !.root = MapNode(once, other.id, Leaf(other.id, mine.shows)),
                                   !.focused = other.id])

(* break-pane: into a tab of its own, under new ids. *)
PaneToTab(st, t, id, new) ==
    LET b == TabOf(st, t)
    IN  IF id \notin PaneIds(b.root) \/ Len(PanesOf(b.root)) < 2 THEN st
        ELSE OpenInNewTab(ClosePane(st, t, id), new, Leaf(new, PaneAt(b.root, id).shows))

(* Beside what the other tab has focused; if that has vanished, its first pane. *)
Anchor(b) == IF b.focused \in PaneIds(b.root) THEN b.focused ELSE PanesOf(b.root)[1].id

MovePaneToTab(st, from, id, to, new) ==
    IF from = to \/ to \notin TabIds(st) \/ id \notin PaneIds(TabOf(st, from).root) THEN st
    ELSE [SplitPane(ClosePane(st, from, id), to, Anchor(TabOf(st, to)),
                    Leaf(new, PaneAt(TabOf(st, from).root, id).shows)) EXCEPT !.active = to]

\* Mutant: the pane stays in its old place too.
MovePaneCopied(st, t, from, to, before) ==
    LET b == TabOf(st, t)
    IN  IF from = to \/ {from, to} \ PaneIds(b.root) # {} THEN st
        ELSE WithTab(st, [b EXCEPT !.root =
               MapNode(@, to, SplitOf(<<PaneAt(b.root, from), PaneAt(b.root, to)>>)), !.focused = from])

(* A drag onto a side of another pane of the tab, which is split. *)
MovePane(st, t, from, to, before) ==
    LET b == TabOf(st, t)
        moving == PaneAt(b.root, from)
        target == PaneAt(b.root, to)
    IN  IF from = to \/ {from, to} \ PaneIds(b.root) # {} THEN st
        ELSE WithTab(st, [b EXCEPT
               !.root = MapNode(Without(b.root, from), to,
                                SplitOf(IF before THEN <<moving, target>> ELSE <<target, moving>>)),
               !.focused = from, !.zoomed = NotZoomed])

-----------------------------------------------------------------------------
(* Layouts kept under a name: what a saved layout can bring back, on new ids
   from `new` on, the first pane of each tab focused. *)
RECURSIVE Renumbered(_, _)
Renumbered(n, ids) ==
    IF n.kind = "pane" THEN [n EXCEPT !.id = ids[n.id]]
    ELSE [n EXCEPT !.kids = [i \in DOMAIN @ |-> Renumbered(@[i], ids)]]

SavedLayout(st, keeps) ==
    LET roots == [i \in DOMAIN st.tabs |->
                    KeepPanes(st.tabs[i].root, {p.id : p \in {q \in Range(PanesOf(st.tabs[i].root)) : q.shows \in keeps}})]
        kept == SelectSeq([i \in DOMAIN st.tabs |-> [st.tabs[i] EXCEPT !.root = roots[i]]],
                          LAMBDA b : b.root.kind # "none")
    IN  kept

FromSavedLayout(saved, new) ==
    LET panes == FlattenSeq([i \in DOMAIN saved |-> PanesOf(saved[i].root)])
        ids == [id \in {p.id : p \in Range(panes)} |->
                    new + (CHOOSE i \in DOMAIN panes : panes[i].id = id)]
        tab(b) == LET root == Renumbered(b.root, ids)
                  IN  [NewTab(PanesOf(root)[1].id, Leaf(PanesOf(root)[1].id, ""))
                         EXCEPT !.root = root, !.pinned = b.pinned]
        tabs == [i \in DOMAIN saved |-> tab(saved[i])]
    IN  [tabs |-> PinnedFirst(tabs), active |-> IF tabs = <<>> THEN NoTab ELSE tabs[1].id]
=============================================================================
