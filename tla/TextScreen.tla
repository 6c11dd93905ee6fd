----------------------------- MODULE TextScreen -----------------------------
(***************************************************************************)
(* What the text screen promises: a page of lines on which whole strings   *)
(* appear one after the other.  A line that is full or ended by a newline  *)
(* is followed by an empty one, and the oldest line leaves a full page.    *)
(* Garbled pages are those about which nothing is promised any more.       *)
(***************************************************************************)
EXTENDS Sequences, Naturals, SequencesExt

CONSTANTS Blank,    \* an empty cell
          LineEnd,  \* the character that ends a line
          Columns,  \* cells of a line
          Height,   \* lines of the page
          Strings   \* what may be printed at once

VARIABLES rows,     \* the lines, the oldest first; text goes to the last
          column,   \* the cells of the last line that are taken
          garbled

vars == <<rows, column, garbled>>

EmptyRow == [k \in 1..Columns |-> Blank]

Page(r, c) == [rows |-> r, column |-> c]

(* One line more, one line less when the page is full.                     *)
NextLine(p) ==
  Page(IF Len(p.rows) = Height THEN Append(Tail(p.rows), EmptyRow)
                               ELSE Append(p.rows, EmptyRow), 0)

Write(p, ch) ==
  LET r == [p.rows EXCEPT ![Len(p.rows)][p.column + 1] = ch]
  IN  IF p.column + 1 = Columns THEN NextLine(Page(r, 0)) ELSE Page(r, p.column + 1)

Feed(p, ch) == IF ch = LineEnd THEN NextLine(p) ELSE Write(p, ch)

(* The page after the characters of s.                                     *)
Show(p, s) == FoldLeft(Feed, p, s)

Init == /\ rows = <<EmptyRow>>
        /\ column = 0
        /\ garbled = FALSE

PrintText(s) == Page(rows', column') = Show(Page(rows, column), s)

Clear == rows' = <<EmptyRow>> /\ column' = 0

Next == \/ garbled'
        \/ ~garbled' /\ ((\E s \in Strings : PrintText(s)) \/ Clear)

Spec == Init /\ [][Next]_vars
=============================================================================
