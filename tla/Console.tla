------------------------------ MODULE Console ------------------------------
(***************************************************************************)
(* The text screen (Kernel/console/console.cpp).  PrintString holds        *)
(* VgaSpinLock over the whole string, character by character; VGAInit      *)
(* takes no lock: it stores 1 into the lock word, clears the screen and    *)
(* stores 0, whoever is printing.                                          *)
(*                                                                         *)
(* The actions are those of a context x, which is at most in one call; at  *)
(* says where.  Offsets and cells count characters, not bytes.  A string   *)
(* has one character at least (of an empty one the code would print what   *)
(* is behind its end).                                                     *)
(***************************************************************************)
EXTENDS Naturals, Sequences, FiniteSets, Functions

CONSTANTS Context,  \* what can be in a call of the console at the same time
          Rows,     \* lines of the screen (25)
          Columns,  \* cells of a line (80)
          Char,     \* what is printed, the newline aside
          Strings   \* strings that are printed

Blank == " "        \* an empty cell, or one that holds 0
Newline == "\n"

ASSUME ConsoleAssumption ==
  /\ IsFiniteSet(Context)
  /\ Rows \in Nat /\ Rows > 1 /\ Columns \in Nat \ {0}
  /\ Newline \notin Char /\ Blank \notin Char
  /\ Strings \subseteq Seq(Char \cup {Newline}) \ {<<>>}

VARIABLES screen,         \* the cells, from 0
          CurrentOffset,  \* the cursor
          VgaSpinLock,
          at, text,       \* where each context is, and what it has yet to print
          shown,          \* history: the page when the last call ended
          crossed         \* history: a VGAInit and a print went on at once

consoleVars == <<screen, CurrentOffset, VgaSpinLock, at, text, shown, crossed>>

Cell == 0..(Rows * Columns - 1)
Limit == (Rows - 1) * Columns   \* where the screen is scrolled

(* All offsets below 0, which are huge unsigned numbers.                   *)
Wild == (Rows + Cardinality(Context)) * Columns

InPrint == {"put", "check", "scroll", "unlock"}
InClear == {"lock", "clear"}
Places == {"out", "wantVga", "reset"} \cup InPrint \cup InClear

(* The page as lines up to the cursor's.                                   *)
Page(cells, offset) ==
  [rows |-> [r \in 1..(offset \div Columns + 1) |->
               [k \in 1..Columns |-> cells[((r - 1) * Columns + (k - 1)) % (Rows * Columns)]]],
   column |-> offset % Columns]

ConsoleTypeOK ==
  /\ screen \in [Cell -> Char \cup {Blank}]
  /\ CurrentOffset \in 0..Wild
  /\ VgaSpinLock \in {0, 1}
  /\ at \in [Context -> Places]
  /\ text \in [Context -> Seq(Char \cup {Newline})]
  /\ crossed \in BOOLEAN

ConsoleInit ==
  /\ screen = [i \in Cell |-> Blank]
  /\ CurrentOffset = 0
  /\ VgaSpinLock = 0
  /\ at = [x \in Context |-> "out"]
  /\ text = [x \in Context |-> <<>>]
  /\ shown = Page(screen, 0)
  /\ crossed = FALSE
-----------------------------------------------------------------------------
(* PrintInt's text of a number: its digits, "0" for 0.                     *)
Digit == <<"0", "1", "2", "3", "4", "5", "6", "7", "8", "9">>

IntText(n) ==
  LET digits[m \in Nat] ==
        IF m < 10 THEN <<Digit[m + 1]>> ELSE Append(digits[m \div 10], Digit[(m % 10) + 1])
  IN  digits[n]
-----------------------------------------------------------------------------
Go(x, l) == at' = [at EXCEPT ![x] = l]

PrintString(x, s) ==
  /\ at[x] = "out"
  /\ Go(x, "wantVga")
  /\ text' = [text EXCEPT ![x] = s]
  /\ UNCHANGED <<screen, CurrentOffset, VgaSpinLock, shown, crossed>>

Somewhere(S) == \E y \in Context : at[y] \in S

(* Faulty variant: the lock is not waited for. *)
TakeVga_NoWait(x) ==
  /\ at[x] = "wantVga"
  /\ VgaSpinLock' = 1
  /\ Go(x, "put")
  /\ crossed' = (crossed \/ Somewhere(InClear))
  /\ UNCHANGED <<screen, CurrentOffset, text, shown>>

TakeVga(x) ==
  /\ at[x] = "wantVga"
  /\ VgaSpinLock = 0
  /\ VgaSpinLock' = 1
  /\ Go(x, "put")
  /\ crossed' = (crossed \/ Somewhere(InClear))
  /\ UNCHANGED <<screen, CurrentOffset, text, shown>>

NewLine(offset) == (offset \div Columns + 1) * Columns

(* One character into the cell at the cursor, which may be of no use.      *)
PutChar(x) ==
  /\ at[x] = "put"
  /\ LET ch == Head(text[x])
         offset == CurrentOffset
     IN  IF ch = Newline
           THEN /\ CurrentOffset' = IF offset = Wild THEN Wild ELSE NewLine(offset)
                /\ UNCHANGED screen
           ELSE /\ CurrentOffset' = IF offset = Wild THEN Wild ELSE offset + 1
                /\ screen' = [i \in Cell |-> IF i = offset THEN ch ELSE screen[i]]
  /\ text' = [text EXCEPT ![x] = Tail(@)]
  /\ Go(x, "check")
  /\ UNCHANGED <<VgaSpinLock, shown, crossed>>

AfterChar(x) == IF text[x] = <<>> THEN "unlock" ELSE "put"

(* Faulty variant: the cursor may stand behind the last line. *)
CheckLimit_TooLate(x) ==
  /\ at[x] = "check"
  /\ Go(x, IF CurrentOffset > Limit THEN "scroll" ELSE AfterChar(x))
  /\ UNCHANGED <<screen, CurrentOffset, VgaSpinLock, text, shown, crossed>>

CheckLimit(x) ==
  /\ at[x] = "check"
  /\ Go(x, IF CurrentOffset >= Limit THEN "scroll" ELSE AfterChar(x))
  /\ UNCHANGED <<screen, CurrentOffset, VgaSpinLock, text, shown, crossed>>

(* Faulty variant: the line that is free again keeps its text. *)
ScrollScreen_KeepLast(x) ==
  /\ at[x] = "scroll"
  /\ screen' = [i \in Cell |-> IF i < Limit - Columns THEN screen[i + Columns] ELSE screen[i]]
  /\ CurrentOffset' = IF CurrentOffset \in Columns..(Wild - 1)
                        THEN CurrentOffset - Columns ELSE Wild
  /\ Go(x, AfterChar(x))
  /\ UNCHANGED <<VgaSpinLock, text, shown, crossed>>

(* Every line goes up by one; the last one, which nothing is printed on,   *)
(* loses its first character.                                              *)
ScrollScreen(x) ==
  /\ at[x] = "scroll"
  /\ screen' = [i \in Cell |-> IF i < Limit THEN screen[i + Columns]
                               ELSE IF i = Limit THEN Blank ELSE screen[i]]
  /\ CurrentOffset' = IF CurrentOffset \in Columns..(Wild - 1)
                        THEN CurrentOffset - Columns ELSE Wild
  /\ Go(x, AfterChar(x))
  /\ UNCHANGED <<VgaSpinLock, text, shown, crossed>>

(* The hardware's cursor is set, the lock given back.                      *)
EndPrint(x) ==
  /\ at[x] = "unlock"
  /\ VgaSpinLock' = 0
  /\ Go(x, "out")
  /\ shown' = Page(screen, CurrentOffset)
  /\ UNCHANGED <<screen, CurrentOffset, text, crossed>>
-----------------------------------------------------------------------------
(* VGAInit: the cursor, the lock word, then the cells and the lock word.   *)
VGAInit(x) ==
  /\ at[x] = "out"
  /\ Go(x, "reset")
  /\ UNCHANGED <<screen, CurrentOffset, VgaSpinLock, text, shown, crossed>>

ResetOffset(x) ==
  /\ at[x] = "reset"
  /\ CurrentOffset' = 0
  /\ crossed' = (crossed \/ Somewhere(InPrint))
  /\ Go(x, "lock")
  /\ UNCHANGED <<screen, VgaSpinLock, text, shown>>

SetLock(x) ==
  /\ at[x] = "lock"
  /\ VgaSpinLock' = 1
  /\ Go(x, "clear")
  /\ UNCHANGED <<screen, CurrentOffset, text, shown, crossed>>

ClearCells(x) ==
  /\ at[x] = "clear"
  /\ screen' = [i \in Cell |-> Blank]
  /\ VgaSpinLock' = 0
  /\ Go(x, "out")
  /\ shown' = Page(screen', CurrentOffset)
  /\ UNCHANGED <<CurrentOffset, text, crossed>>

(* What a context does on its own once it is in a call, the wait aside.    *)
ConsoleStep(x) == \/ PutChar(x) \/ CheckLimit(x) \/ ScrollScreen(x) \/ EndPrint(x)
                  \/ ResetOffset(x) \/ SetLock(x) \/ ClearCells(x)

ConsoleNext == \E x \in Context : \/ \E s \in Strings : PrintString(x, s)
                                  \/ VGAInit(x) \/ TakeVga(x) \/ ConsoleStep(x)

ConsoleSpec == ConsoleInit /\ [][ConsoleNext]_consoleVars
-----------------------------------------------------------------------------
(* As long as no VGAInit crosses a print, one context at most is in the    *)
(* section that the lock guards, and the lock word says so.                *)
OnePrinter ==
  ~crossed =>
    /\ \A x, y \in Context : at[x] \in InPrint /\ at[y] \in InPrint => x = y
    /\ Somewhere(InPrint) => VgaSpinLock = 1 /\ ~Somewhere(InClear)

(* Nothing is written outside the lines of text: the cursor is on one      *)
(* whenever a character is put, and never below 0 (console.cpp:27 takes a  *)
(* line off an unsigned number).                                           *)
CursorOnScreen ==
  ~crossed => /\ Somewhere({"put", "unlock"}) => CurrentOffset < Limit
              /\ CurrentOffset < Limit + Columns

(* The strings of all contexts appear one after the other, whole and in    *)
(* order, as on an endless page of which the last lines are seen; until a  *)
(* VGAInit crosses a print.                                                *)
Text == INSTANCE TextScreen
          WITH rows <- shown.rows, column <- shown.column, garbled <- crossed,
               Blank <- Blank, LineEnd <- Newline, Columns <- Columns,
               Height <- Rows - 1, Strings <- Strings

ScreenIsText == Text!Spec
=============================================================================
