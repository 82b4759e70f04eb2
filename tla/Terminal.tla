------------------------------ MODULE Terminal ------------------------------
(***************************************************************************)
(* pkg/vt: the terminal emulator.  Bytes of the program under test in, a   *)
(* grid of cells out.                                                      *)
(*                                                                         *)
(* The operations are functions of a buffer (screen.go) and of a terminal  *)
(* (terminal.go), as in the code.  A byte is named by its meaning; the     *)
(* digits of a number arrive as one byte, and a cell is what its width and *)
(* being blank tell apart.  Attributes, the title, mouse reporting and the *)
(* counters are left out.                                                  *)
(***************************************************************************)
EXTENDS Integers, Sequences, SequencesExt

CONSTANTS
    VtSizes,      \* sizes, <<cols, rows>>
    VtFirst,      \* the size a terminal starts with
    VtWrites,     \* what a program writes: sequences of bytes
    VtParams,     \* MaxParams
    VtString,     \* MaxString
    VtOps         \* writes and resizes

VARIABLES
    vtTerm,       \* Terminal
    vtDone,       \* writes and resizes so far
    vtErased      \* the last of them could erase the display

vtVars == <<vtTerm, vtDone, vtErased>>

Least(a, b) == IF a < b THEN a ELSE b
clamp(v, lo, hi) == IF v < lo THEN lo ELSE Least(v, hi)

-----------------------------------------------------------------------------
(* screen.go *)

width(cell) == CASE cell = "wide" -> 2 [] cell = "half" -> 0 [] OTHER -> 1
RuneWidth(r) == CASE r = "wide" -> 2 [] r = "mark" -> 0 [] OTHER -> 1

newBuffer(cols, rows) ==
    [cols |-> cols, rows |-> rows, cells |-> [i \in 0..cols * rows - 1 |-> "blank"],
     x |-> 0, y |-> 0, wrapNext |-> FALSE, top |-> 0, bottom |-> rows - 1,
     savedX |-> 0, savedY |-> 0, savedValid |-> FALSE]

inside(b, x, y) == x \in 0..b.cols - 1 /\ y \in 0..b.rows - 1
at(b, x, y) == b.cells[y * b.cols + x]
set(b, x, y, cell) ==
    IF inside(b, x, y) THEN [b EXCEPT !.cells[y * b.cols + x] = cell] ELSE b

fill(b, from, to) ==
    [b EXCEPT !.cells = [i \in DOMAIN b.cells |->
                            IF i >= from /\ i < to THEN "blank" ELSE b.cells[i]]]

setCursor(b, x, y) ==
    [b EXCEPT !.x = clamp(x, 0, b.cols - 1), !.y = clamp(y, 0, b.rows - 1), !.wrapNext = FALSE]

\* The rows of the region move by n, up or down, and the rows left are blank.
shifted(b, top, bottom, n) ==
    LET from(i) == i + n * b.cols
        edge(i) == i \in top * b.cols..(bottom + 1) * b.cols - 1
    IN  [b EXCEPT !.cells = [i \in DOMAIN b.cells |->
            IF ~edge(i) THEN b.cells[i] ELSE IF edge(from(i)) THEN b.cells[from(i)] ELSE "blank"]]
noRegion(b, top, bottom, n) == n <= 0 \/ top > bottom \/ top < 0 \/ bottom >= b.rows

scrollRegionUp(b, top, bottom, n) ==
    IF noRegion(b, top, bottom, n) THEN b ELSE shifted(b, top, bottom, n)
scrollRegionDown(b, top, bottom, n) ==
    IF noRegion(b, top, bottom, n) THEN b ELSE shifted(b, top, bottom, -n)
scrollUp(b, n) == scrollRegionUp(b, b.top, b.bottom, n)
scrollDown(b, n) == scrollRegionDown(b, b.top, b.bottom, n)

\* Mistake: the line feed at the bottom of the region scrolls the screen.
lineFeedAll(b) ==
    [(CASE b.y = b.bottom -> scrollRegionUp(b, 0, b.rows - 1, 1)
        [] b.y # b.bottom /\ b.y < b.rows - 1 -> [b EXCEPT !.y = b.y + 1]
        [] OTHER -> b) EXCEPT !.wrapNext = FALSE]

lineFeed(b) ==
    [(CASE b.y = b.bottom -> scrollUp(b, 1)
        [] b.y # b.bottom /\ b.y < b.rows - 1 -> [b EXCEPT !.y = b.y + 1]
        [] OTHER -> b) EXCEPT !.wrapNext = FALSE]

reverseIndex(b) ==
    [(CASE b.y = b.top -> scrollDown(b, 1)
        [] b.y # b.top /\ b.y > 0 -> [b EXCEPT !.y = b.y - 1]
        [] OTHER -> b) EXCEPT !.wrapNext = FALSE]

\* Overwriting one half of a wide character clears the other.
breakWide(b, x, y) ==
    CASE inside(b, x, y) /\ width(at(b, x, y)) = 2 /\ inside(b, x + 1, y) /\ at(b, x + 1, y) = "half" ->
            set(b, x + 1, y, "blank")
      [] inside(b, x, y) /\ width(at(b, x, y)) = 0 /\ inside(b, x - 1, y) /\ at(b, x - 1, y) = "wide" ->
            set(b, x - 1, y, "blank")
      [] OTHER -> b

\* A character is placed at the cursor, which moves on or waits to wrap.
placed(b, r) ==
    LET w == RuneWidth(r)
        clear == IF w = 2 THEN breakWide(breakWide(b, b.x, b.y), b.x + 1, b.y)
                 ELSE breakWide(b, b.x, b.y)
        drawn == IF w = 2 THEN set(set(clear, b.x, b.y, r), b.x + 1, b.y, "half")
                 ELSE set(clear, b.x, b.y, r)
    IN  IF b.x + w >= b.cols THEN [drawn EXCEPT !.x = b.cols - 1, !.wrapNext = TRUE]
        ELSE [drawn EXCEPT !.x = b.x + w]

\* A combining mark leaves the grid as it is.  A character too wide for a screen
\* that does not wrap is given up after the cursor was moved for it.
put(b, r, autowrap) ==
    LET w == RuneWidth(r)
        wrapped == IF b.wrapNext /\ autowrap THEN lineFeed([b EXCEPT !.x = 0]) ELSE b
        moved == [wrapped EXCEPT !.x = b.cols - w]
    IN  CASE w = 0 -> b
          [] w # 0 /\ wrapped.x + w <= b.cols -> placed(wrapped, r)
          [] w # 0 /\ wrapped.x + w > b.cols /\ autowrap -> placed(lineFeed([wrapped EXCEPT !.x = 0]), r)
          [] OTHER -> IF moved.x < 0 THEN moved ELSE placed(moved, r)

\* Where a row is cut to insert or delete n cells; a negative column panics.
cut(b, n) == Least(n, b.cols - b.x)
rowShifted(b, from(_), kept(_)) ==
    [b EXCEPT !.cells = [i \in DOMAIN b.cells |->
        LET x == i % b.cols IN
        IF i \div b.cols # b.y \/ x < b.x THEN b.cells[i]
        ELSE IF kept(x) THEN b.cells[from(i)] ELSE "blank"]]

insertBlanks(b, n) ==
    IF n <= 0 THEN b
    ELSE LET back(i) == i - cut(b, n)
             moved(x) == x >= b.x + cut(b, n)
         IN  rowShifted(b, back, moved)

deleteChars(b, n) ==
    IF n <= 0 THEN b
    ELSE LET ahead(i) == i + cut(b, n)
             moved(x) == x < b.cols - cut(b, n)
         IN  rowShifted(b, ahead, moved)

\* Mistake: the cursor is left where it was.
resizeKeepsCursor(b, cols, rows) ==
    IF cols = b.cols /\ rows = b.rows THEN b
    ELSE [b EXCEPT !.cols = cols, !.rows = rows, !.top = 0, !.bottom = rows - 1,
              !.cells = [i \in 0..cols * rows - 1 |->
                  IF inside(b, i % cols, i \div cols) THEN at(b, i % cols, i \div cols) ELSE "blank"]]

resize(b, cols, rows) ==
    IF cols = b.cols /\ rows = b.rows THEN b
    ELSE setCursor([b EXCEPT !.cols = cols, !.rows = rows, !.top = 0, !.bottom = rows - 1,
              !.cells = [i \in 0..cols * rows - 1 |->
                  IF inside(b, i % cols, i \div cols) THEN at(b, i % cols, i \div cols) ELSE "blank"]],
              b.x, b.y)

-----------------------------------------------------------------------------
(* terminal.go: what a terminal does to the buffer that is showing. *)

cleanParser == [state |-> "ground", params |-> <<>>, param |-> 0, hasNum |-> FALSE, priv |-> FALSE,
                inter |-> <<>>, str |-> 0, strEsc |-> FALSE, u8n |-> 0]

\* softReset, and New.
softReset(cols, rows) ==
    [cols |-> cols, rows |-> rows, shown |-> "primary",
     bufs |-> [primary |-> newBuffer(cols, rows), alt |-> newBuffer(cols, rows)],
     autowrap |-> TRUE, insertMode |-> FALSE, originMode |-> FALSE, parse |-> cleanParser]

New == \E s \in {VtFirst} : vtTerm = softReset(s[1], s[2])

buf(t) == t.bufs[t.shown]
onBuf(t, b) == [t EXCEPT !.bufs[t.shown] = b]

emit(t, r) ==
    onBuf(t, put(IF t.insertMode /\ RuneWidth(r) > 0 THEN insertBlanks(buf(t), RuneWidth(r))
                 ELSE buf(t), r, t.autowrap))

\* n tab stops of eight columns, forward and back.
tab(t, n) ==
    onBuf(t, [buf(t) EXCEPT !.x = Least((buf(t).x \div 8 + n) * 8, t.cols - 1), !.wrapNext = FALSE])
backTab(t, n) ==
    onBuf(t, [buf(t) EXCEPT !.x = clamp(((buf(t).x + 7) \div 8) * 8 - 8 * n, 0, t.cols - 1),
                            !.wrapNext = FALSE])

control(t, c) ==
    LET b == buf(t) IN
    CASE c = "BS" -> onBuf(t, [b EXCEPT !.wrapNext = FALSE,
                                        !.x = IF b.wrapNext THEN b.x ELSE IF b.x > 0 THEN b.x - 1 ELSE b.x])
      [] c = "HT" -> tab(t, 1)
      [] c = "LF" -> onBuf(t, lineFeed(b))
      [] c = "CR" -> onBuf(t, [b EXCEPT !.x = 0, !.wrapNext = FALSE])
      [] OTHER -> t

save(t) == onBuf(t, [buf(t) EXCEPT !.savedX = buf(t).x, !.savedY = buf(t).y, !.savedValid = TRUE])
restore(t) ==
    onBuf(t, IF buf(t).savedValid THEN setCursor(buf(t), buf(t).savedX, buf(t).savedY)
             ELSE setCursor(buf(t), 0, 0))

moveTo(t, x, y) ==
    onBuf(t, setCursor(buf(t), x, IF t.originMode THEN clamp(y + buf(t).top, buf(t).top, buf(t).bottom)
                                  ELSE y))

eraseDisplay(t, mode) ==
    LET b == buf(t)
        here == b.y * b.cols + b.x
        end == b.cols * b.rows
        cleared == CASE mode = 0 -> fill(b, here, end)
                     [] mode = 1 -> fill(b, 0, here + 1)
                     [] mode \in {2, 3} -> fill(b, 0, end)
                     [] OTHER -> b
    IN  onBuf(t, [cleared EXCEPT !.wrapNext = FALSE])

eraseLine(t, mode) ==
    LET b == buf(t)
        start == b.y * b.cols
        cleared == CASE mode = 0 -> fill(b, start + b.x, start + b.cols)
                     [] mode = 1 -> fill(b, start, start + b.x + 1)
                     [] mode = 2 -> fill(b, start, start + b.cols)
                     [] OTHER -> b
    IN  onBuf(t, [cleared EXCEPT !.wrapNext = FALSE])

eraseChars(t, n) ==
    LET b == buf(t)
        start == b.y * b.cols + b.x
    IN  onBuf(t, fill(b, start, Least(start + n, (b.y + 1) * b.cols)))

\* arg takes a missing parameter and zero for the default, argRaw for zero.
arg(params, i, def) == IF i > Len(params) THEN def ELSE IF params[i] = 0 THEN def ELSE params[i]
argRaw(params, i) == IF i > Len(params) THEN 0 ELSE params[i]

setRegion(t, params) ==
    LET top == arg(params, 1, 1) - 1
        bottom == Least(arg(params, 2, t.rows) - 1, t.rows - 1)
    IN  IF top < 0 \/ top >= bottom THEN t
        ELSE moveTo(onBuf(t, [buf(t) EXCEPT !.top = top, !.bottom = bottom]), 0, 0)

\* The alternate screen is new each time it is entered.
setAlternate(t, on, withCursor) ==
    LET left == IF withCursor THEN save(t) ELSE t IN
    CASE on = (t.shown = "alt") -> t
      [] on /\ t.shown # "alt" ->
            [left EXCEPT !.bufs.alt = newBuffer(t.cols, t.rows), !.shown = "alt"]
      [] ~on /\ t.shown = "alt" ->
            IF withCursor THEN restore([t EXCEPT !.shown = "primary"]) ELSE [t EXCEPT !.shown = "primary"]

mode(t, priv, p, on) ==
    CASE ~priv -> [t EXCEPT !.insertMode = IF p = 4 THEN on ELSE @]
      [] priv /\ p = 6 -> moveTo([t EXCEPT !.originMode = on], 0, 0)
      [] priv /\ p = 7 -> [t EXCEPT !.autowrap = on]
      [] priv /\ p \in {47, 1047, 1049} -> setAlternate(t, on, p = 1049)
      [] priv /\ p = 1048 -> IF on THEN save(t) ELSE restore(t)
      [] OTHER -> t
setMode(t, priv, params, on) == FoldLeft(LAMBDA u, p : mode(u, priv, p, on), t, params)

dispatch(t, priv, inter, params, final) ==
    LET b == buf(t)
        n == arg(params, 1, 1)
        within == b.y >= b.top /\ b.y <= b.bottom
    IN
    CASE inter # <<>> -> IF final = "p" /\ inter = <<"!">> THEN softReset(t.cols, t.rows) ELSE t
      [] inter = <<>> /\ final = "A" -> onBuf(t, setCursor(b, b.x, b.y - n))
      [] inter = <<>> /\ final = "B" -> onBuf(t, setCursor(b, b.x, b.y + n))
      [] inter = <<>> /\ final = "C" -> onBuf(t, setCursor(b, b.x + n, b.y))
      [] inter = <<>> /\ final = "D" -> onBuf(t, setCursor(b, b.x - n, b.y))
      [] inter = <<>> /\ final = "E" -> onBuf(t, setCursor(b, 0, b.y + n))
      [] inter = <<>> /\ final = "F" -> onBuf(t, setCursor(b, 0, b.y - n))
      [] inter = <<>> /\ final = "G" -> onBuf(t, setCursor(b, n - 1, b.y))
      [] inter = <<>> /\ final = "H" -> moveTo(t, arg(params, 2, 1) - 1, n - 1)
      [] inter = <<>> /\ final = "I" -> tab(t, n)
      [] inter = <<>> /\ final = "J" -> eraseDisplay(t, argRaw(params, 1))
      [] inter = <<>> /\ final = "K" -> eraseLine(t, argRaw(params, 1))
      [] inter = <<>> /\ final = "L" -> IF within THEN onBuf(t, scrollRegionDown(b, b.y, b.bottom, n)) ELSE t
      [] inter = <<>> /\ final = "M" -> IF within THEN onBuf(t, scrollRegionUp(b, b.y, b.bottom, n)) ELSE t
      [] inter = <<>> /\ final = "P" -> onBuf(t, deleteChars(b, n))
      [] inter = <<>> /\ final = "S" -> onBuf(t, scrollUp(b, n))
      [] inter = <<>> /\ final = "T" -> onBuf(t, scrollDown(b, n))
      [] inter = <<>> /\ final = "X" -> eraseChars(t, n)
      [] inter = <<>> /\ final = "Z" -> backTab(t, n)
      [] inter = <<>> /\ final = "@" -> onBuf(t, insertBlanks(b, n))
      [] inter = <<>> /\ final = "d" -> moveTo(t, b.x, n - 1)
      [] inter = <<>> /\ final = "h" -> setMode(t, priv, params, TRUE)
      [] inter = <<>> /\ final = "l" -> setMode(t, priv, params, FALSE)
      [] inter = <<>> /\ final = "r" -> setRegion(t, params)
      [] inter = <<>> /\ final = "s" -> save(t)
      [] inter = <<>> /\ final = "u" -> restore(t)
      [] OTHER -> t

-----------------------------------------------------------------------------
(* terminal.go: the parser. *)

numbers == [n1 |-> 1, n2 |-> 2, n3 |-> 3, n4 |-> 4, n6 |-> 6, n7 |-> 7, n47 |-> 47, n1048 |-> 1048,
            n1049 |-> 1049]
controls == {"BEL", "BS", "HT", "LF", "CR"}

enter(t, state) == [t EXCEPT !.parse = [cleanParser EXCEPT !.state = state]]
ground(t) == [t EXCEPT !.parse = cleanParser]
invalid(t) == emit(t, "char")

\* A byte in the ground state: text, a control, or part of a UTF-8 sequence.  The
\* sequences of the model are two bytes long and encode a wide character or, after
\* "mark2", one of no width.
groundByte(t, c) ==
    LET p == t.parse
        whole == [t EXCEPT !.parse.u8n = 0]
    IN
    CASE c = "lead" -> [(IF p.u8n > 0 THEN invalid(t) ELSE t) EXCEPT !.parse.u8n = 1]
      [] c \in {"ST8", "mark2"} ->
            IF p.u8n = 0 THEN invalid(whole) ELSE emit(whole, IF c = "mark2" THEN "mark" ELSE "wide")
      [] c \in controls -> control(whole, c)
      [] c = "CAN" -> whole
      [] OTHER -> emit(whole, "char")

escape(t, c) ==
    LET g == ground(t)
        b == buf(t)
    IN
    CASE c = "[" -> enter(t, "csi")
      [] c = "]" -> enter(t, "osc")
      [] c = "P" -> enter(t, "string")
      [] c = "(" -> enter(t, "charset")
      [] c = "D" -> onBuf(g, lineFeed(b))
      [] c = "E" -> onBuf(g, lineFeed([b EXCEPT !.x = 0]))
      [] c = "M" -> onBuf(g, reverseIndex(b))
      [] c = "n7" -> save(g)
      [] c = "n8" -> restore(g)
      [] c = "c" -> softReset(t.cols, t.rows)
      [] OTHER -> g

\* endString: only a title comes of a string, and the title is left out.
stringByte(t, c) ==
    LET p == t.parse IN
    CASE p.strEsc -> IF c = "\\" THEN ground(t) ELSE escape(enter(t, "escape"), c)
      [] ~p.strEsc /\ c \in {"BEL", "ST8"} -> ground(t)
      [] ~p.strEsc /\ c \notin {"BEL", "ST8"} -> [t EXCEPT !.parse.str = Least(p.str + 1, VtString)]

pushParam(p) ==
    [p EXCEPT !.params = IF Len(p.params) < VtParams THEN Append(p.params, p.param) ELSE p.params,
              !.param = 0, !.hasNum = FALSE]

csi(t, c) ==
    LET p == t.parse
        last == pushParam(p)
    IN
    CASE c \in DOMAIN numbers -> [t EXCEPT !.parse.param = numbers[c], !.parse.hasNum = TRUE]
      [] c = ";" -> [t EXCEPT !.parse = pushParam(p)]
      [] c = "?" -> [t EXCEPT !.parse.priv = IF p.params = <<>> /\ ~p.hasNum THEN TRUE ELSE p.priv]
      [] c = "!" -> [t EXCEPT !.parse.inter = IF Len(p.inter) < 2 THEN Append(p.inter, c) ELSE p.inter]
      [] c \in controls -> control(t, c)
      [] OTHER -> ground(dispatch(t, p.priv, p.inter, last.params, c))

step(t, c) ==
    LET state == t.parse.state IN
    CASE c = "CAN" /\ state # "ground" -> ground(t)
      [] c = "ESC" -> IF state \in {"osc", "string"} THEN [t EXCEPT !.parse.strEsc = TRUE]
                      ELSE enter(t, "escape")
      [] c # "ESC" /\ state = "ground" -> groundByte(t, c)
      [] c \notin {"CAN", "ESC"} /\ state = "escape" -> escape(t, c)
      [] c \notin {"CAN", "ESC"} /\ state = "csi" -> csi(t, c)
      [] c \notin {"CAN", "ESC"} /\ state \in {"osc", "string"} -> stringByte(t, c)
      [] c \notin {"CAN", "ESC"} /\ state = "charset" -> ground(t)

-----------------------------------------------------------------------------
(* The terminal of a session: the program writes, the driver resizes. *)

Init == New /\ vtDone = 0 /\ vtErased = FALSE

Write(p) ==
    /\ vtDone < VtOps
    /\ vtTerm' = FoldLeft(step, vtTerm, p)
    /\ vtErased' = \E i \in DOMAIN p : p[i] \in {"J", "p", "c"}
    /\ vtDone' = vtDone + 1

Resize(s) ==
    /\ vtDone < VtOps
    /\ s # <<vtTerm.cols, vtTerm.rows>>
    /\ vtTerm' = [vtTerm EXCEPT !.cols = s[1], !.rows = s[2],
                                !.bufs.primary = resize(vtTerm.bufs.primary, s[1], s[2]),
                                !.bufs.alt = resize(vtTerm.bufs.alt, s[1], s[2])]
    /\ vtErased' = TRUE
    /\ vtDone' = vtDone + 1

Next == (\E p \in VtWrites : Write(p)) \/ (\E s \in VtSizes : Resize(s))

-----------------------------------------------------------------------------
(***************************************************************************)
(* Whatever the program writes and however the driver resizes, both grids  *)
(* are whole, the cursor and the scrolling region are inside them, and the *)
(* parser holds no more than its limits (New, step, Resize; what the test  *)
(* of the emulator asserts of one screen, of both and after every byte).   *)
(***************************************************************************)
ScreenIsSound ==
    /\ \A name \in {"primary", "alt"} :
         LET b == vtTerm.bufs[name] IN
         /\ b.cols = vtTerm.cols /\ b.rows = vtTerm.rows
         /\ DOMAIN b.cells = 0..b.cols * b.rows - 1
         /\ inside(b, b.x, b.y)
         /\ b.wrapNext => b.x = b.cols - 1
         /\ 0 <= b.top /\ b.top <= b.bottom /\ b.bottom < b.rows
    /\ Len(vtTerm.parse.params) <= VtParams /\ vtTerm.parse.str <= VtString
    /\ vtTerm.parse.state = "ground" => [vtTerm.parse EXCEPT !.u8n = 0] = cleanParser

(***************************************************************************)
(* A line is lost only off the edge of the scrolling region: outside it a  *)
(* sequence changes no row but the cursor's own (lineFeed, reverseIndex,   *)
(* put, scrollUp, scrollDown, dispatch; the exceptions are eraseDisplay    *)
(* and softReset, a resize and a change of screen).                        *)
(***************************************************************************)
RegionHolds ==
    [][ LET b == buf(vtTerm)
            c == buf(vtTerm')
        IN  (vtTerm'.shown = vtTerm.shown /\ ~vtErased') =>
            \A i \in DOMAIN b.cells :
                i \div b.cols \notin (b.top..b.bottom) \cup {b.y, c.y} => c.cells[i] = b.cells[i]
      ]_vtVars
=============================================================================
