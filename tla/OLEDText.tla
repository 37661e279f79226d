------------------------------ MODULE OLEDText ------------------------------
(***************************************************************************)
(* Text on the display of the Heltec library: drawStringMaxWidth wraps it  *)
(* at spaces and dashes, and the log buffer keeps the last lines that were *)
(* written, for drawLogBuffer.  A character is a letter by its width, a    *)
(* space, or in the log a number; positions count from zero.               *)
(***************************************************************************)
EXTENDS Integers, Sequences, SequencesExt

CONSTANTS MaxText,     \* bound: characters of a text
          LineWidths,  \* bound: widths of a line, wider than a character
          LogSizes,    \* bound: lines and characters of setLogBuffer
          MaxLogged,   \* bound: characters written to the log
          FontHeight,  \* textHeight, lineHeight
          CursorSpan,  \* the values of cursorX: 256 in the code
          TextSpan,    \* width() of the display
          TextXs, TextYs, MaxDrawn   \* bound: where drawString draws, and how much

VARIABLES wrapped,     \* what was wrapped: text, width, and the start and end of each line
          placed,      \* what drawString drew: its arguments, and the glyphs of each line
          logBuffer,   \* logBuffer, logBufferLine, logBufferMaxLines and logBufferSize
          logged       \* history: the characters since setLogBuffer

textVars == <<wrapped, placed, logBuffer, logged>>

Letters == {"i", "w", " "}
WidthOf(c) == IF c = "w" THEN 2 ELSE 1
NewLine == 0

-----------------------------------------------------------------------------
(* Wrapping.                                                               *)

\* One character of the loop: at a full line draw up to the break, or to here.
WrapChar(s, text, max, i) ==
    LET c     == text[i + 1]
        width == s.width + WidthOf(c)
        break == IF c = " " THEN [at |-> i, width |-> width] ELSE s.break
        cut   == IF break.at = 0 THEN [at |-> i, width |-> width] ELSE break
    IN  IF width < max THEN [s EXCEPT !.width = width, !.break = break]
        ELSE [last  |-> cut.at + 1, width |-> width - cut.width, break |-> [at |-> 0, width |-> 0],
              lines |-> Append(s.lines, <<s.last, cut.at>>)]

\* The lines, and the last part if there is one.
Wrap(text, max) ==
    LET loop[i \in 0 .. Len(text)] ==
            IF i = 0 THEN [last |-> 0, width |-> 0, break |-> [at |-> 0, width |-> 0], lines |-> <<>>]
            ELSE WrapChar(loop[i - 1], text, max, i - 1)
        s == loop[Len(text)]
    IN  IF s.last < Len(text) THEN Append(s.lines, <<s.last, Len(text)>>) ELSE s.lines

DrawStringMaxWidth ==
    /\ wrapped.text = <<>>
    /\ \E n \in 1 .. MaxText, max \in LineWidths : \E text \in [1 .. n -> Letters] :
          wrapped' = [text |-> text, max |-> max, lines |-> Wrap(text, max)]
    /\ UNCHANGED <<placed, logBuffer, logged>>

-----------------------------------------------------------------------------
(* drawString: the parts between line ends, each line aligned on its own.  *)

Alignments == {"LEFT", "RIGHT", "CENTER", "CENTER_BOTH"}
TextWidth(chars) == FoldSeq(LAMBDA c, w : WidthOf(c) + w, 0, chars)

\* strtok: what lies between line ends, with no empty part.
TextParts(text) ==
    LET starts == {i \in DOMAIN text : text[i] # "\n" /\ (i = 1 \/ text[i - 1] = "\n")}
        end(i) == CHOOSE j \in i .. Len(text) : /\ j = Len(text) \/ text[j + 1] = "\n"
                                               /\ \A k \in i .. j : text[k] # "\n"
        sorted == SetToSortSeq(starts, <)
    IN  [k \in DOMAIN sorted |-> SubSeq(text, sorted[k], end(sorted[k]))]

\* The glyphs of one line; nothing of a line that is not on the screen.
DrawStringInternal(x, y, chars, alignment) ==
    LET width == TextWidth(chars)
        left  == CASE alignment = "LEFT"  -> x
                   [] alignment = "RIGHT" -> x - width
                   [] OTHER               -> x - (width \div 2)
        top   == IF alignment = "CENTER_BOTH" THEN y - (FontHeight \div 2) ELSE y
    IN  IF left + width < 0 \/ left > TextSpan \/ top + FontHeight < 0 \/ top > TextSpan THEN <<>>
        ELSE [i \in DOMAIN chars |->
                 [x |-> left + (TextWidth(SubSeq(chars, 1, i - 1)) % CursorSpan), y |-> top]]

\* The offset of a text between both counts every line end, blank lines too.
DrawString ==
    /\ placed.text = <<>>
    /\ \E n \in 1 .. MaxDrawn, x \in TextXs, y \in TextYs, alignment \in Alignments :
       \E text \in [1 .. n -> {"i", "w", "\n"}] :
          LET ends   == Len(SelectSeq(text, LAMBDA c : c = "\n"))
              offset == IF alignment = "CENTER_BOTH" THEN (ends * FontHeight) \div 2 ELSE 0
              parts  == TextParts(text)
          IN  placed' = [text |-> text, x |-> x, y |-> y, alignment |-> alignment,
                         lines |-> [k \in DOMAIN parts |->
                             DrawStringInternal(x, y - offset + ((k - 1) * FontHeight), parts[k], alignment)]]
    /\ UNCHANGED <<wrapped, logBuffer, logged>>

-----------------------------------------------------------------------------
(* The log.                                                                *)

\* size 0 frees the buffer and keeps the old size: the sketch does not ask it.
SetLogBuffer ==
    \E lines \in LogSizes, chars \in LogSizes :
        /\ logBuffer' = [chars |-> <<>>, line |-> 0, maxLines |-> lines, size |-> lines * chars]
        /\ logged' = <<>>
        /\ UNCHANGED <<wrapped, placed>>

\* The first line goes, or all of a full buffer that has no line end.
FirstLineGone(l) ==
    LET ends == {i \in 1 .. Len(l.chars) : l.chars[i] = NewLine}
        end  == CHOOSE i \in ends : \A j \in ends : i <= j
    IN  [l EXCEPT !.line = IF l.line < l.maxLines THEN @ ELSE @ - 1,
                  !.chars = IF ends # {} THEN SubSeq(@, end + 1, Len(@))
                            ELSE IF Len(@) < l.size THEN @ ELSE <<>>]

\* write() calls itself until there is room.
RoomMade[l \in [chars : Seq(0 .. MaxLogged), line : Nat, maxLines : Nat, size : Nat]] ==
    IF Len(l.chars) < l.size /\ l.line < l.maxLines THEN l ELSE RoomMade[FirstLineGone(l)]

WriteChar(c) ==
    /\ logBuffer.size > 0
    /\ Len(logged) < MaxLogged
    /\ LET l == RoomMade[logBuffer] IN
       logBuffer' = [l EXCEPT !.chars = Append(@, c), !.line = IF c = NewLine THEN @ + 1 ELSE @]
    /\ logged' = Append(logged, c)
    /\ UNCHANGED <<wrapped, placed>>

\* drawLogBuffer: a line after the first begins with the line end before it, and
\* the remaining string is as long as if it did not.
LogLines(chars) ==
    LET ends == {i \in 1 .. Len(chars) : chars[i] = NewLine}
        before(i) == {j \in ends : j < i}
        prev(i) == IF before(i) = {} THEN 0 ELSE CHOOSE j \in before(i) : \A k \in before(i) : k <= j
        from(i) == IF prev(i) = 0 THEN 1 ELSE prev(i)
        line(i, length) == SubSeq(chars, from(i), from(i) + length - 1)
    IN  {line(i, i - prev(i)) : i \in ends}
        \cup (IF prev(Len(chars) + 1) = Len(chars) THEN {}
              ELSE {line(Len(chars) + 1, Len(chars) - prev(Len(chars) + 1))})

TextInit ==
    /\ wrapped = [text |-> <<>>, max |-> 1, lines |-> <<>>]
    /\ placed = [text |-> <<>>, x |-> 0, y |-> 0, alignment |-> "LEFT", lines |-> <<>>]
    /\ logBuffer = [chars |-> <<>>, line |-> 0, maxLines |-> 0, size |-> 0]
    /\ logged = <<>>

TextNext ==
    \/ logBuffer.size = 0 /\ wrapped.text = <<>> /\ placed.text = <<>> /\ (DrawStringMaxWidth \/ DrawString)
    \/ wrapped.text = <<>> /\ placed.text = <<>> /\ (SetLogBuffer \/ \E c \in {NewLine, Len(logged) + 1} : WriteChar(c))

-----------------------------------------------------------------------------

\* A line of a wrapped text is narrower than the width asked for, or would be
\* without its last character; the lines are the text but for one character at
\* each break, a space unless the line has none after its first character.
LinesFit ==
    LET text == wrapped.text  lines == wrapped.lines
        widthOf(l) == FoldSeq(LAMBDA c, w : WidthOf(c) + w, 0, SubSeq(text, l[1] + 1, l[2] - 1))
    IN  /\ \A k \in 1 .. Len(lines) : widthOf(lines[k]) < wrapped.max
        /\ lines # <<>> => lines[1][1] = 0
        /\ \A k \in 1 .. Len(lines) - 1 :
              /\ lines[k + 1][1] = lines[k][2] + 1
              /\ text[lines[k][2] + 1] = " "
                 \/ \A i \in lines[k][1] + 1 .. lines[k][2] : text[i] = " " => i = 1

\* The log holds the last characters written, in no more room and no more lines
\* than it has, from the start of a line unless one line filled the buffer; and
\* every character of a line that is complete is drawn.
LogKept ==
    LET chars == logBuffer.chars
        ends  == {i \in 1 .. Len(chars) : chars[i] = NewLine}
        cut   == Len(logged) - Len(chars)
    IN  /\ IsSuffix(chars, logged)
        /\ Len(chars) <= logBuffer.size
        /\ Len(SelectSeq(chars, LAMBDA c : c = NewLine)) <= logBuffer.line
        /\ logBuffer.line <= logBuffer.maxLines
        /\ cut = 0 \/ logged[cut] = NewLine \/ \A i \in cut - logBuffer.size + 1 .. cut : logged[i] # NewLine
        /\ \A e \in ends : \A i \in 1 .. e - 1 : \E line \in LogLines(chars) : Contains(line, chars[i])

\* Where drawString puts the glyphs: those of a line next to one another, the
\* line to the left, to the right or on both sides of x as asked, one line
\* below the other, and on both sides of y when that was asked and no line is
\* blank.  (A line wider than cursorX can say starts again at its left end.)
TextPlaced ==
    LET parts == TextParts(placed.text)  lines == placed.lines
        ends  == Len(SelectSeq(placed.text, LAMBDA c : c = "\n"))
        left(k)  == lines[k][1].x
        right(k) == left(k) + TextWidth(parts[k])
    IN
    \A k \in DOMAIN lines : lines[k] # <<>> /\ TextWidth(parts[k]) <= CursorSpan =>
        /\ \A i \in DOMAIN lines[k] \ {1} : lines[k][i].x = lines[k][i - 1].x + WidthOf(parts[k][i - 1])
        /\ CASE placed.alignment = "LEFT"  -> left(k) = placed.x
             [] placed.alignment = "RIGHT" -> right(k) = placed.x
             [] OTHER -> left(k) + right(k) - (2 * placed.x) \in {0, 1}
        /\ \A j \in DOMAIN lines : j > k /\ lines[j] # <<>> =>
               lines[j][1].y = lines[k][1].y + ((j - k) * FontHeight)
        /\ placed.alignment = "CENTER_BOTH" /\ ends = Len(lines) - 1 =>
               (2 * lines[k][1].y) + (FontHeight * (Len(lines) - (2 * (k - 1)))) = 2 * placed.y
        /\ placed.alignment # "CENTER_BOTH" => lines[k][1].y = placed.y + ((k - 1) * FontHeight)

\* Text is wrapped, placed and logged as it should be.
TextKept == LinesFit /\ TextPlaced /\ LogKept
=============================================================================
