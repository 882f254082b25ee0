------------------------------ MODULE SoundMap ------------------------------
(***************************************************************************)
(* The soundboard's part of midi_map.txt, and the requests that edit it:   *)
(* which note plays which sound or action, where each tile lies on the     *)
(* grid, the order, lights and modes of the sounds (src/http/api.cpp,      *)
(* src/config/midi_map.cpp).                                               *)
(*                                                                         *)
(* Requests run one at a time on the main loop.  Every one of them reads   *)
(* the whole file, edits a copy and writes the whole file in place; only a *)
(* write that succeeds also replaces midi->cachedMidiMap, the copy the     *)
(* controller plays from.  A write may fail before it truncates the file,  *)
(* after it has, or when only fx_params.txt is left to write.              *)
(*                                                                         *)
(* The grid is drawn as a 2x2 pad controller, whose four pads are the four *)
(* corners to learn; the smaller size is one row, which has no corners.    *)
(***************************************************************************)
EXTENDS Naturals, SequencesExt

CONSTANTS
    Sound,          \* sequence: every file name there may be, sorted
    Action,         \* {"stop_all", "sampler_toggle"}: the tiles that are no file
    Note,           \* MIDI notes
    MaxMappings,    \* MIDI_MAPPINGS_MAX
    LayoutRequest,  \* bodies of PUT /api/soundboard/layout
    Seed,           \* setups a run starts from
    MaxRequests,    \* bound: requests that edit
    MaxFaults       \* bound: writes that fail

VARIABLES
    files,          \* sounds that are files of SFX_ROOT_DIR
    disk,           \* midi_map.txt
    mem,            \* midi->cachedMidiMap
    owed,           \* history: files have gone and no clean-up has succeeded since
    cut,            \* history: a failed write has left midi_map.txt truncated
    left            \* requests and faults that may still happen

vars == <<files, disk, mem, owed, cut, left>>

None == "none"
Unlearned == 128          \* a corner that is not in gridCornerMask
NoCorners == <<Unlearned, Unlearned, Unlearned, Unlearned>>
Sounds == ToSet(Sound)
Pads(q) == [i \in DOMAIN q |-> q[i].note]
Els(q)  == {q[i].el : i \in DOMAIN q}

\* MidiMapData, as it is when there is no file.
EmptyMap == [mappings |-> <<>>, actions |-> <<>>, cells |-> <<>>, size |-> 4,
             corner |-> NoCorners, layout |-> "normal", initialized |-> FALSE,
             order |-> <<>>, lights |-> {}, modes |-> {}]

-----------------------------------------------------------------------------
(* The grid.  Cells 1..size are numbered row by row.                       *)

\* validSoundboardGridCalibration: the corners are all learned, the fourth
\* follows from the other three, no note is found twice.
Calibrated(m) ==
    /\ m.size = 4 /\ Unlearned \notin ToSet(m.corner)
    /\ m.corner[2] + m.corner[3] = m.corner[1] + m.corner[4]
    /\ IsInjective(m.corner)

FreeCells(m, out) == {k \in 1..m.size : \A i \in DOMAIN out : out[i].cell # k}
Lowest(S) == CHOOSE k \in S : \A j \in S : k <= j

PutLowest(m, out, el) ==
    IF FreeCells(m, out) = {} THEN out
    ELSE Append(out, [el |-> el, cell |-> Lowest(FreeCells(m, out))])

\* One note mapping proposes the cell of its pad.
PlacePad(m, tiles, fill, out, p) ==
    LET at == {k \in 1..m.size : m.corner[k] = p.note}
    IN  IF /\ at \cap FreeCells(m, out) # {} /\ p.el \in tiles \ Els(out)
           /\ fill \/ p.el \in Els(m.cells)
        THEN Append(out, [el |-> p.el, cell |-> Lowest(at)]) ELSE out

\* One saved cell keeps its place; if that is taken it is dropped, or moved
\* to a free one when the notes had the first choice.
PlaceSaved(m, tiles, prefer, out, c) ==
    IF c.cell > m.size \/ c.el \in Els(out) \/ c.el \notin tiles THEN out
    ELSE IF c.cell \in FreeCells(m, out) THEN Append(out, c)
    ELSE IF prefer THEN PutLowest(m, out, c.el) ELSE out

PlaceFile(m, out, s) == IF s \in Els(out) THEN out ELSE PutLowest(m, out, s)

\* buildSoundboardGridCells: the cells the layout m has, from the files there are.
Cells(m, list, prefer, fill) ==
    LET tiles == ToSet(list) \cup Action
        noted == IF prefer /\ Calibrated(m)
                 THEN FoldLeft(LAMBDA out, p : PlacePad(m, tiles, fill, out, p), <<>>, m.mappings \o m.actions)
                 ELSE <<>>
        saved == FoldLeft(LAMBDA out, c : PlaceSaved(m, tiles, prefer, out, c), noted, m.cells)
    IN  IF fill THEN FoldLeft(LAMBDA out, s : PlaceFile(m, out, s), saved, list) ELSE saved

\* listSoundboardFiles: in the saved order, then the others by name.
Listed(m) ==
    SelectSeq(m.order, LAMBDA s : s \in files) \o
    SelectSeq(Sound, LAMBDA s : s \in files /\ s \notin ToSet(m.order))

\* removeSoundboardGridMidiMappings
Unmap(m, el) ==
    IF el \in Action THEN [m EXCEPT !.actions = SelectSeq(@, LAMBDA p : p.el # el)]
    ELSE [m EXCEPT !.mappings = SelectSeq(@, LAMBDA p : p.el # el)]

\* replaceSoundboardGridMidiMapping: el gets the note, and no other; the
\* note gets el, and nothing else.  No result when the table is full.
Remap(m, el, note) ==
    LET a == SelectSeq(m.actions, LAMBDA p : p.note # note /\ p.el # el)
        s == SelectSeq(m.mappings, LAMBDA p : p.note # note /\ p.el # el)
        p == [note |-> note, el |-> el]
    IN  IF el \in Action
        THEN IF Len(a) >= MaxMappings THEN {} ELSE {[m EXCEPT !.actions = Append(a, p), !.mappings = s]}
        ELSE IF Len(s) >= MaxMappings THEN {} ELSE {[m EXCEPT !.actions = a, !.mappings = Append(s, p)]}

-----------------------------------------------------------------------------
(* PUT /api/soundboard/layout: a request holds any of mode, size, corner   *)
(* and tile, taken in that order; each step returns the maps it may leave, *)
(* none where the request is refused and nothing is written.               *)

SetMode(m, r) == IF r.mode = None THEN {m} ELSE {[m EXCEPT !.layout = r.mode]}

SetSize(m, r) ==
    IF r.size = 0 THEN {m}
    ELSE {[m EXCEPT !.size = r.size,
                    !.corner = IF m.size = r.size THEN @ ELSE NoCorners]}

\* The last corner to be learned moves the tiles to where their notes are.
LearnCorner(m, r) ==
    IF r.corner = 0 THEN {m}
    ELSE LET n == [m EXCEPT !.corner[r.corner] = r.note]
         IN  IF Calibrated(n) THEN {[n EXCEPT !.cells = Cells(n, Listed(disk), TRUE, FALSE)]}
             ELSE IF Unlearned \in ToSet(n.corner) THEN {n} ELSE {}

At(cells, el) == {i \in DOMAIN cells : cells[i].el = el}
DropCell(cells, i) == SubSeq([cells EXCEPT ![i] = cells[Len(cells)]], 1, Len(cells) - 1)

Unassign(m, el) ==
    LET at == At(m.cells, el)
    IN  Unmap(IF at = {} THEN m ELSE [m EXCEPT !.cells = DropCell(@, Lowest(at))], el)

\* Mutant of MapPlaced: the tile that had to move keeps its own note.
MapPlacedOnly(m, el, k, displaced, from) ==
    IF ~(m.layout = "grid" /\ Calibrated(m)) THEN {m} ELSE Remap(Unmap(m, el), el, m.corner[k])

\* The notes of a tile placed on cell k, and of the tile it changes places with.
MapPlaced(m, el, k, displaced, from) ==
    LET n == Unmap(IF displaced = None THEN m ELSE Unmap(m, displaced), el)
    IN  IF ~(m.layout = "grid" /\ Calibrated(m)) THEN {m}
        ELSE UNION {IF displaced = None \/ from = 0 THEN {o} ELSE Remap(o, displaced, m.corner[from])
                    : o \in Remap(n, el, m.corner[k])}

\* A tile from another cell swaps with the one that is there; a tile that
\* had no cell pushes it out, and its notes with it.
Place(m, el, k) ==
    LET own    == At(m.cells, el)
        from   == IF own = {} THEN 0 ELSE m.cells[Lowest(own)].cell
        there  == {i \in DOMAIN m.cells : m.cells[i].cell = k} \ own
        displaced == IF there = {} THEN None ELSE m.cells[Lowest(there)].el
        moved  == IF there = {} THEN m.cells
                  ELSE IF own = {} THEN DropCell(m.cells, Lowest(there))
                  ELSE [m.cells EXCEPT ![Lowest(there)].cell = from]
        cells  == IF own = {} THEN Append(moved, [el |-> el, cell |-> k])
                  ELSE [moved EXCEPT ![Lowest(own)].cell = k]
        n      == [m EXCEPT !.cells = cells]
        p      == IF displaced # None /\ own = {} THEN Unmap(n, displaced) ELSE n
    IN  MapPlaced(p, el, k, displaced, from)

SetTile(m, r) ==
    LET n == [m EXCEPT !.cells = Cells(m, Listed(disk), FALSE, FALSE)]
    IN  IF r.el = None THEN {m}
        ELSE IF r.el \notin files \cup Action \/ r.cell > m.size THEN {}
        ELSE IF r.cell = 0 THEN {Unassign(n, r.el)} ELSE Place(n, r.el, r.cell)

\* What every request ends with: the cells of the grid as it is now, filled
\* with the sounds in their order the first time, and no note left to a tile
\* that had a cell and has none.
Settle(m, r) ==
    LET grid == m.layout = "grid"
        n == IF grid \/ r.size # 0
             THEN [m EXCEPT !.cells = Cells(m, Listed(disk), FALSE, grid /\ ~m.initialized /\ m.cells = <<>>),
                            !.initialized = @ \/ grid]
             ELSE m
    IN  FoldLeft(LAMBDA o, c : IF c.el \in Els(o.cells) THEN o ELSE Unmap(o, c.el), n, disk.cells)

Layout(r) ==
    {Settle(t, r) : t \in UNION {SetTile(c, r) : c \in
                          UNION {LearnCorner(s, r) : s \in
                          UNION {SetSize(m, r) : m \in SetMode(disk, r)}}}}

-----------------------------------------------------------------------------
(* The other edits.                                                        *)

\* A note given to one table is taken from the other: "a note can map to
\* one clip OR one action".
SetPad(q, note, el) ==
    LET at == {i \in DOMAIN q : q[i].note = note}
    IN  IF at # {} THEN {[q EXCEPT ![Lowest(at)].el = el]}
        ELSE IF Len(q) >= MaxMappings THEN {} ELSE {Append(q, [note |-> note, el |-> el])}

NotOn(q, note) == SelectSeq(q, LAMBDA p : p.note # note)

MappingSet(note, s) ==
    {[disk EXCEPT !.mappings = q, !.actions = NotOn(@, note)] : q \in SetPad(disk.mappings, note, s)}
MappingDelete(note) ==
    IF note \in ToSet(Pads(disk.mappings)) THEN {[disk EXCEPT !.mappings = NotOn(@, note)]} ELSE {}
ActionSet(note, a) ==
    {[disk EXCEPT !.actions = q, !.mappings = NotOn(@, note)] : q \in SetPad(disk.actions, note, a)}
ActionDelete(note) ==
    IF note \in ToSet(Pads(disk.actions)) THEN {[disk EXCEPT !.actions = NotOn(@, note)]} ELSE {}

\* handleSoundboardOrder takes exactly the files there are.
OrderSet(q) == IF ToSet(q) = files THEN {[disk EXCEPT !.order = q]} ELSE {}
LightSet(s) == {[disk EXCEPT !.lights = @ \cup {s}]}
LightDelete(s) == IF s \in disk.lights THEN {[disk EXCEPT !.lights = @ \ {s}]} ELSE {}
SoundMode(s, hold) == {[disk EXCEPT !.modes = IF hold THEN @ \cup {s} ELSE @ \ {s}]}

\* purgeMissingSoundMappings: every table forgets the sounds that are gone.
Purged(m, there) ==
    [m EXCEPT !.mappings = SelectSeq(@, LAMBDA p : p.el \in there),
              !.cells = SelectSeq(@, LAMBDA c : c.el \in there \cup Action),
              !.order = SelectSeq(@, LAMBDA s : s \in there),
              !.lights = @ \cap there, !.modes = @ \cap there]

-----------------------------------------------------------------------------
(* Writing.                                                                *)

\* writeMidiMapFile(m): it is refused before the file is touched, it fails
\* with the file truncated, or midi_map.txt is written and fx_params.txt not.
WriteFails(m) ==
    /\ left.faults > 0 /\ left' = [left EXCEPT !.requests = @ - 1, !.faults = @ - 1]
    /\ \/ UNCHANGED <<disk, cut>>
       \/ disk' = EmptyMap /\ cut' = TRUE
       \/ disk' = m /\ UNCHANGED cut
    /\ UNCHANGED mem

Saved(m) == disk' = m /\ mem' = m /\ cut' = FALSE /\ left' = [left EXCEPT !.requests = @ - 1]

Save(results) == \E m \in results : Saved(m) \/ WriteFails(m)

Edit ==
    /\ left.requests > 0 /\ UNCHANGED <<files, owed>>
    /\ \/ \E r \in LayoutRequest : Save(Layout(r))
       \/ \E n \in Note, s \in Sounds : Save(MappingSet(n, s))
       \/ \E n \in Note, a \in Action : Save(ActionSet(n, a))
       \/ \E n \in Note : Save(MappingDelete(n)) \/ Save(ActionDelete(n))
       \/ \E q \in {<<>>} \cup {<<s>> : s \in Sounds} \cup {<<s, t>> : s, t \in Sounds} :
             IsInjective(q) /\ Save(OrderSet(q))
       \/ \E s \in Sounds : Save(LightSet(s)) \/ Save(LightDelete(s))
       \/ \E s \in Sounds, hold \in BOOLEAN : Save(SoundMode(s, hold))

\* MidiContext::reloadSoundboardMappings: it writes only what changes, and
\* takes what the file holds in any case.
CleanUp(there) ==
    LET m == Purged(disk, there)
    IN  \/ /\ IF m = disk THEN UNCHANGED <<disk, cut>> ELSE disk' = m /\ cut' = FALSE
           /\ mem' = m /\ owed' = FALSE /\ left' = [left EXCEPT !.requests = @ - 1]
        \/ m # disk /\ WriteFails(m) /\ owed' = TRUE

\* PUT /api/rootfs/sfx/... neither reads nor writes the map.
Upload(s) ==
    /\ left.requests > 0 /\ s \notin files
    /\ files' = files \cup {s} /\ left' = [left EXCEPT !.requests = @ - 1]
    /\ UNCHANGED <<disk, mem, owed, cut>>

\* DELETE /api/rootfs/sfx/...: the file goes first.
Delete(s) ==
    /\ left.requests > 0 /\ s \in files
    /\ files' = files \ {s} /\ CleanUp(files \ {s})

\* POST /api/soundboard/reload, which a failed clean-up asks for.
Reload == left.requests > 0 /\ CleanUp(files) /\ UNCHANGED files

\* readMidiMapFile as the program starts, or a controller is plugged in.
Restart == mem # disk /\ mem' = disk /\ UNCHANGED <<files, disk, owed, cut, left>>

Init ==
    /\ disk \in Seed /\ mem = disk /\ files = Sounds
    /\ owed = FALSE /\ cut = FALSE
    /\ left = [requests |-> MaxRequests, faults |-> MaxFaults]

Next ==
    \/ Edit \/ Reload \/ Restart
    \/ \E s \in Sounds : Upload(s) \/ Delete(s)

Spec == Init /\ [][Next]_vars

-----------------------------------------------------------------------------
(* What must hold.                                                         *)

TypeOK ==
    /\ files \subseteq Sounds /\ owed \in BOOLEAN /\ cut \in BOOLEAN
    /\ \A m \in {disk, mem} :
          /\ Els(m.mappings) \subseteq Sounds /\ Len(m.mappings) <= MaxMappings
          /\ Els(m.actions) \subseteq Action /\ Len(m.actions) <= MaxMappings
          /\ Els(m.cells) \subseteq Sounds \cup Action
          /\ m.size \in {2, 4} /\ m.layout \in {"normal", "grid"}

\* A note plays one thing: no two mappings of a note, in one table or over
\* both, whatever mixture of note requests, grid placements, swaps, corner
\* learning and clean-ups led there ("a note can map to one clip OR one
\* action", api.cpp handleMidiActionSet).
NoteHasOneMeaning ==
    \A m \in {disk, mem} : IsInjective(Pads(m.mappings \o m.actions))

\* The tiles of a grid lie on different cells of it, one tile each, and a
\* tile of a sound is a file, unless a clean-up failed and is still to be
\* repeated.
CellsExist ==
    /\ IsInjective([i \in DOMAIN disk.cells |-> disk.cells[i].cell])
    /\ IsInjective([i \in DOMAIN disk.cells |-> disk.cells[i].el])
    /\ \A i \in DOMAIN disk.cells : disk.cells[i].cell <= disk.size
    /\ ~owed => Els(disk.cells) \subseteq files \cup Action

\* A pad of the learned grid plays the tile drawn there, if it plays any.
Drawn(m)   == m.layout = "grid" /\ Calibrated(m)
PlayedBy(m) == ToSet(m.mappings \o m.actions)
PadsAgree(m) ==
    \A i \in DOMAIN m.cells : \A p \in PlayedBy(m) :
        p.note = m.corner[m.cells[i].cell] => p.el = m.cells[i].el

\* The tiles that the pad of their own cell plays.
OnTheirPads(m) ==
    {m.cells[i].el : i \in {j \in DOMAIN m.cells :
        [note |-> m.corner[m.cells[j].cell], el |-> m.cells[j].el] \in PlayedBy(m)}}

\* docs/guide/soundboard.md: placing, swapping, displacing and unassigning
\* take the notes along with the tiles: once the pads play what is drawn on
\* them, no request that moves tiles leaves a pad that plays another, and a
\* tile that is still on the grid is played by the pad it is on.  (Learning
\* the corners moves tiles "where possible", and is excepted.)
GridKeepsItsPads ==
    [][ /\ Drawn(disk) /\ Drawn(disk') /\ PadsAgree(disk)
        /\ \E r \in LayoutRequest : r.corner = 0 /\ disk' \in Layout(r)
        => PadsAgree(disk') /\ OnTheirPads(disk) \cap Els(disk'.cells) \subseteq OnTheirPads(disk') ]_vars
=============================================================================
