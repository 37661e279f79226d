----------------------------- MODULE OLEDDisplay -----------------------------
(***************************************************************************)
(* The display of the Heltec library: shapes are drawn into a buffer of    *)
(* bytes, each a column of eight pixels, and display() sends the part that *)
(* differs from what it sent the last time.  A byte is the set of its lit  *)
(* bits, the buffer the set of its lit pixels.  One shape is drawn on one  *)
(* of a few pictures, as every shape is drawn alone.                       *)
(***************************************************************************)
EXTENDS Integers

CONSTANTS Width, Pages,       \* of the display, in pixels and in bytes
          Xs, Ys, Lengths     \* bound: arguments of the shapes

VARIABLES buffer,        \* the lit pixels
          buffer_back,   \* the picture that display() has sent
          screen,        \* what the panel shows
          drawn          \* history: the picture the sketch has asked for

displayVars == <<buffer, buffer_back, screen, drawn>>

Height == 8 * Pages
Colors == {"WHITE", "BLACK", "INVERSE"}
Screen == {<<x, y>> : x \in 0 .. Width - 1, y \in 0 .. Height - 1}
Pictures == {{}, Screen, {p \in Screen : (p[1] + p[2]) % 2 = 0}}
Greater(a, b) == IF a > b THEN a ELSE b
Lesser(a, b) == IF a < b THEN a ELSE b

Paint(picture, color, pixels) ==
    CASE color = "WHITE" -> picture \cup pixels
      [] color = "BLACK" -> picture \ pixels
      [] OTHER -> (picture \ pixels) \cup (pixels \ picture)

-----------------------------------------------------------------------------
(* The shapes: the pixels that the code touches.                           *)

Bits(x, page, bits) == {<<x, 8 * page + b>> : b \in bits}

HorizontalLine(x, y, length) ==
    LET x1  == Greater(x, 0)
        len == Lesser(length + Lesser(x, 0), Width - x1)
    IN  IF y \notin 0 .. Height - 1 THEN {}
        ELSE UNION {Bits(x1 + i, y \div 8, {y % 8}) : i \in 0 .. len - 1}

\* Mutant: the first byte is taken to its end.
VerticalLineToByteEnd(x, y, length) ==
    LET y1 == Greater(y, 0) IN
    IF x \notin 0 .. Width - 1 \/ length <= 0 \/ y1 >= Height THEN {}
    ELSE Bits(x, y1 \div 8, (y1 % 8) .. 7)

\* A first byte from bit y & 7 on, whole bytes, and the low bits of a last one.
VerticalLine(x, y, length) ==
    LET y1   == Greater(y, 0)
        len  == Lesser(length + Lesser(y, 0), Height - y1)
        off  == y1 % 8
        head == IF off = 0 THEN {} ELSE {b \in off .. 7 : b < off + len}
        page == IF off = 0 THEN y1 \div 8 ELSE (y1 \div 8) + 1
        rest == IF off = 0 THEN len ELSE len - (8 - off)
    IN  IF x \notin 0 .. Width - 1 \/ len <= 0 THEN {}
        ELSE Bits(x, y1 \div 8, head)
             \cup UNION {Bits(x, page + i, 0 .. 7) : i \in 0 .. (rest \div 8) - 1}
             \cup (IF rest > 0 THEN Bits(x, page + (rest \div 8), 0 .. (rest % 8) - 1) ELSE {})

FillRect(x, y, w, h) == UNION {VerticalLine(i, y, h) : i \in x .. x + w - 1}

\* Bresenham: the pixel of each step along the longer side.
Line(x0, y0, x1, y1) ==
    LET abs(n) == IF n < 0 THEN -n ELSE n
        steep == abs(y1 - y0) > abs(x1 - x0)
        p == IF steep THEN <<y0, x0>> ELSE <<x0, y0>>
        q == IF steep THEN <<y1, x1>> ELSE <<x1, y1>>
        a == IF p[1] > q[1] THEN q ELSE p
        b == IF p[1] > q[1] THEN p ELSE q
        dx == b[1] - a[1]  dy == abs(b[2] - a[2])
        walk[k \in 0 .. dx] ==      \* y0 and err
            IF k = 0 THEN [y |-> a[2], err |-> dx \div 2]
            ELSE LET w == walk[k - 1] IN
                 IF w.err - dy < 0
                 THEN [y |-> w.y + (IF a[2] < b[2] THEN 1 ELSE -1), err |-> w.err - dy + dx]
                 ELSE [w EXCEPT !.err = @ - dy]
    IN  {IF steep THEN <<walk[k].y, a[1] + k>> ELSE <<a[1] + k, walk[k].y>> : k \in 0 .. dx} \cap Screen

\* The octant of a circle, from the top: x, y and dp of each round.
Octant(r) ==
    LET walk[k \in 0 .. r] ==
            IF k = 0 THEN [x |-> 0, y |-> r, dp |-> 1 - r]
            ELSE LET o == walk[k - 1] IN
                 IF o.dp < 0 THEN [x |-> k, y |-> o.y, dp |-> o.dp + (2 * k) + 3]
                 ELSE [x |-> k, y |-> o.y - 1, dp |-> o.dp + (2 * k) - (2 * (o.y - 1)) + 5]
    IN  {<<walk[k].x, walk[k].y>> : k \in {j \in 1 .. r : j = 1 \/ walk[j - 1].x < walk[j - 1].y}}

Circle(x0, y0, r) ==
    LET o == Octant(r) \cup {<<c[2], c[1]>> : c \in Octant(r)} \cup {<<r, 0>>, <<0, r>>}
    IN  {<<x0 + (i * c[1]), y0 + (j * c[2])>> : c \in o, i \in {-1, 1}, j \in {-1, 1}} \cap Screen

\* drawCircleQuads: which quarters, from the upper right one anticlockwise.
CircleQuads(x0, y0, r, quads) ==
    LET o == Octant(r) \cup {<<c[2], c[1]>> : c \in Octant(r)}
        of(i, j) == {<<x0 + (i * c[1]), y0 + (j * c[2])>> : c \in o}
        ends == {e \in {<<{1, 8}, <<x0 + r, y0>>>>, <<{4, 8}, <<x0, y0 + r>>>>,
                        <<{2, 4}, <<x0 - r, y0>>>>, <<{1, 2}, <<x0, y0 - r>>>>} : e[1] \subseteq quads}
    IN  ((IF 1 \in quads THEN of(1, -1) ELSE {}) \cup (IF 2 \in quads THEN of(-1, -1) ELSE {})
         \cup (IF 4 \in quads THEN of(-1, 1) ELSE {}) \cup (IF 8 \in quads THEN of(1, 1) ELSE {})
         \cup {e[2] : e \in ends}) \cap Screen

\* fillCircle: spans above and below, each one pixel short on the right.
FillCircle(x0, y0, r) ==
    LET o == Octant(r) \cup {<<c[2], c[1]>> : c \in Octant(r)} \cup {<<r, 0>>} IN
    UNION {HorizontalLine(x0 - c[1], y0 + (j * c[2]), 2 * c[1]) : c \in o, j \in {-1, 1}}

\* drawInternal: an image of w columns of bytes, each byte over two pages.
Image(xMove, yMove, w, rows, data) ==
    LET off == yMove % 8
        byte(i, row) ==
            LET x == xMove + i  page == (yMove \div 8) + row IN
            IF x \notin 0 .. Width - 1 \/ page \notin 0 .. Pages - 1 THEN {}
            ELSE Bits(x, page, {b + off : b \in data} \cap 0 .. 7)
                 \cup (IF page < Pages - 1 THEN Bits(x, page + 1, {b + off - 8 : b \in data} \cap 0 .. 7) ELSE {})
    IN  UNION {byte(i, row) : i \in 0 .. w - 1, row \in 0 .. rows - 1}

-----------------------------------------------------------------------------
(* What the shapes should be.                                              *)

Box(x, y, w, h) == {p \in Screen : p[1] \in x .. x + w - 1 /\ p[2] \in y .. y + h - 1}

\* The nearest pixel of every step, the lower one of two.
Nearest(x0, y0, x1, y1) ==
    LET abs(n) == IF n < 0 THEN -n ELSE n
        dx == x1 - x0  dy == y1 - y0
        n == Greater(abs(dx), abs(dy))
        first == IF (abs(dy) > abs(dx) /\ dy < 0) \/ (abs(dy) <= abs(dx) /\ dx < 0) THEN <<x1, y1>> ELSE <<x0, y0>>
        sx == IF first = <<x0, y0>> THEN dx ELSE -dx
        sy == IF first = <<x0, y0>> THEN dy ELSE -dy
        near(k, d) == IF d < 0 THEN -(((k * (-d)) + n - 1 - (n \div 2)) \div n) ELSE ((k * d) + n - 1 - (n \div 2)) \div n
    IN  IF n = 0 THEN {<<x0, y0>>} \cap Screen
        ELSE {<<first[1] + near(k, sx), first[2] + near(k, sy)>> : k \in 0 .. n} \cap Screen

\* The pixels between the left and the right side of a circle, the right one left out.
Disc(x0, y0, r) ==
    LET o == Octant(r) \cup {<<c[2], c[1]>> : c \in Octant(r)} \cup {<<r, 0>>}
        half(y) == CHOOSE x \in 0 .. r : /\ <<x, y>> \in o
                                         /\ \A c \in o : c[2] = y => c[1] <= x
        rows == {c[2] : c \in o}
    IN  {p \in Screen : \E y \in rows : p[2] - y0 \in {y, -y} /\ p[1] - x0 \in -half(y) .. half(y) - 1}

\* A byte of an image that begins above the display is not drawn.
Picture(xMove, yMove, w, rows, data) ==
    {<<xMove + i, yMove + (8 * row) + b>> : i \in 0 .. w - 1, row \in {r \in 0 .. rows - 1 : yMove + (8 * r) >= 0},
                                           b \in data} \cap Screen

-----------------------------------------------------------------------------

\* The sketch has drawn a picture and may have sent it.
DisplayInit ==
    /\ buffer \in Pictures /\ drawn = buffer
    /\ buffer_back \in {{}, buffer} /\ screen = buffer_back

Draw(color, pixels, asked) ==
    /\ buffer \in Pictures
    /\ buffer' = Paint(buffer, color, pixels)
    /\ drawn' = Paint(buffer, color, asked)
    /\ UNCHANGED <<buffer_back, screen>>

DrawLines ==
    \E color \in Colors, x \in Xs, y \in Ys, n \in Lengths :
        \/ Draw(color, HorizontalLine(x, y, n), Box(x, y, n, 1))
        \/ Draw(color, VerticalLine(x, y, n), Box(x, y, 1, n))
        \/ Draw(color, FillRect(x, y, 2, n), Box(x, y, 2, n))
        \/ \E x1 \in Xs : Draw(color, Line(x, y, x1, n), Nearest(x, y, x1, n))

\* A circle touches some pixels twice: it is not drawn with INVERSE.
DrawCircles ==
    \E color \in Colors \ {"INVERSE"}, x \in Xs, y \in Ys, r \in 1 .. Height \div 3 :
        \/ Draw(color, Circle(x, y, r), CircleQuads(x, y, r, {1, 2, 4, 8}))
        \/ Draw(color, FillCircle(x, y, r), Disc(x, y, r))

DrawImage ==
    \E color \in Colors, x \in Xs, y \in Ys, rows \in 1 .. 2, data \in {{0, 7}, {1, 2, 5}} :
        Draw(color, Image(x, y, 2, rows, data), Picture(x, y, 2, rows, data))

\* The panel takes the bytes of a window that holds all that differ.
Display ==
    LET changed == (buffer \ buffer_back) \cup (buffer_back \ buffer)
        columns == {p[1] : p \in changed}
        pages   == {p[2] \div 8 : p \in changed}
        sent    == {p \in Screen : /\ \E l, r \in columns : l <= p[1] /\ p[1] <= r
                                   /\ \E t, b \in pages : t <= p[2] \div 8 /\ p[2] \div 8 <= b}
    IN
    /\ buffer_back' = buffer
    /\ screen' = (screen \ sent) \cup (buffer \cap sent)
    /\ UNCHANGED <<buffer, drawn>>

\* resetDisplay(): every byte is taken to differ, and the buffer is sent.
ResetDisplay ==
    /\ buffer' = {} /\ drawn' = {} /\ buffer_back' = {} /\ screen' = {}

DisplayNext == DrawLines \/ DrawCircles \/ DrawImage \/ Display \/ ResetDisplay

-----------------------------------------------------------------------------

\* A line, a box, a circle or an image lights, clears or inverts the pixels it
\* should and no other, wherever it crosses the bytes and the edges of the
\* display, and what was sent is what the panel shows.
PictureRight == buffer = drawn /\ screen = buffer_back
=============================================================================
