-------------------------------- MODULE Screen --------------------------------
(***************************************************************************)
(* The text screen: what a character does to the cursor, the attribute and   *)
(* the video memory, and the state machine that takes escape sequences out   *)
(* of the output.  The kernel's Print, Put_String and Put_Buf hold interrupts *)
(* disabled, so a system call prints all of its characters at once; the user  *)
(* library's Print makes one system call for each character, and what others  *)
(* print may come between them.                                             *)
(*                                                                         *)
(* A character is "x", which stands for all that have no meaning of their     *)
(* own, a control character, a digit, or a letter that ends a sequence.      *)
(* An attribute is what sets it: a color, with or without bright.            *)
(***************************************************************************)
EXTENDS Integers, Sequences, SequencesExt, FiniteSets

CONSTANTS
  NUMROWS, NUMCOLS, TABWIDTH, MAXARGS,
  Programs,       (* the user programs that print                            *)
  Texts,          (* what the kernel and Print_String print                  *)
  Messages,       (* what programs print with Print                          *)
  Places,         (* the positions that user programs send the cursor to      *)
  Colors,         (* the colors that user programs set                       *)
  Behind,         (* what the memory behind s_cons may hold                  *)
  MaxCalls        (* bound: calls                                            *)

Rows   == 0..(NUMROWS - 1)
Cols   == 0..(NUMCOLS - 1)
Numeral == <<"0", "1", "2", "3", "4", "5", "6", "7", "8", "9">>
Digits == Range(Numeral)
Value(d) == CHOOSE i \in 0..9 : Numeral[i + 1] = d
DefaultAttr == [fg |-> 37, bg |-> 40, bright |-> FALSE]
Unset  == -1        (* an element of argList nothing was written to          *)

VARIABLES
  cons,           (* s_cons                                                  *)
  video,          (* the characters in VIDMEM                                *)
  hw,             (* the position of the hardware's cursor                    *)
  rest,           (* what a program inside Print has still to print          *)
  calls

vars == <<cons, video, hw, rest, calls>>

Cleared == [r \in Rows |-> [c \in Cols |-> " "]]

(* Init_Screen, which leaves the hardware's cursor where the boot loader had it.  *)
Init ==
  /\ cons = [row |-> 0, col |-> 0, saveRow |-> 0, saveCol |-> 0, attr |-> DefaultAttr,
             state |-> "normal", argList |-> [i \in 0..(MAXARGS - 1) |-> Unset], numArgs |-> 0]
  /\ video = Cleared /\ hw = <<0, 0>>
  /\ rest = [p \in Programs |-> <<>>] /\ calls = 0

(* The functions below take and give a console: s_cons, the video memory and the  *)
(* word behind s_cons.                                                         *)
Console(word) == [s |-> cons, v |-> video, behind |-> word]

Clear_To_EOL(k) == [k EXCEPT !.v[k.s.row] = [c \in Cols |-> IF c >= k.s.col THEN " " ELSE @[c]]]

Scroll(v) == [r \in Rows |-> IF r < NUMROWS - 1 THEN v[r + 1] ELSE [c \in Cols |-> " "]]

Newline(k) == IF k.s.row + 1 = NUMROWS THEN [k EXCEPT !.s.col = 0, !.v = Scroll(@)]
              ELSE [k EXCEPT !.s.row = @ + 1, !.s.col = 0]

Put_Graphic_Char(k, ch) ==
  LET put == [k EXCEPT !.v[k.s.row][k.s.col] = ch]
  IN IF k.s.col < NUMCOLS - 1 THEN [put EXCEPT !.s.col = @ + 1] ELSE Newline(put)

Output_Literal_Character(k, ch) ==
  CASE ch = "\n" -> Newline(Clear_To_EOL(k))
    [] ch = "\t" -> FoldLeft(LAMBDA j, i : Put_Graphic_Char(j, " "), k,
                             [i \in 1..(TABWIDTH - (k.s.col % TABWIDTH)) |-> i])
    [] OTHER     -> Put_Graphic_Char(k, ch)

Within(x, n) == IF x < 0 THEN 0 ELSE IF x >= n THEN n - 1 ELSE x
Move_Cursor(k, row, col) == [k EXCEPT !.s.row = Within(row, NUMROWS), !.s.col = Within(col, NUMCOLS)]

(* One argument of an escape sequence m.                                       *)
Update_Attribute(attr, value) ==
  CASE value = 0      -> DefaultAttr
    [] value = 1      -> [attr EXCEPT !.bright = TRUE]
    [] value \in 30..37 -> [attr EXCEPT !.fg = value]
    [] value \in 40..47 -> [attr EXCEPT !.bg = value]
    [] OTHER          -> attr

(* What lies at argList[i]: behind the array numArgs, and behind that anything.    *)
Argument(k, i) == IF i < MAXARGS THEN k.s.argList[i]
                  ELSE IF i = MAXARGS THEN k.s.numArgs ELSE k.behind
Update_Attributes(k) ==
  [k EXCEPT !.s.attr = FoldLeft(Update_Attribute, [@ EXCEPT !.bright = FALSE],
                                [i \in 1..k.s.numArgs |-> Argument(k, i - 1)])]

Reset(k)        == [k EXCEPT !.s.state = "normal", !.s.numArgs = 0]
Start_Escape(k) == [k EXCEPT !.s.state = "esc", !.s.numArgs = 0]
Start_Arg(k) ==
  LET next == [k EXCEPT !.s.state = "arg", !.s.numArgs = @ + 1]
  IN IF k.s.numArgs < MAXARGS THEN [next EXCEPT !.s.argList[k.s.numArgs] = 0] ELSE next

(* The last argument that fits in the list gets no digits.                      *)
Add_Digit(k, d) == IF k.s.numArgs < MAXARGS
                   THEN [k EXCEPT !.s.argList[k.s.numArgs - 1] = @ * 10 + Value(d)] ELSE k

Get_Arg(k, i) == IF i < k.s.numArgs THEN k.s.argList[i] ELSE 0

Save_Cursor(k)    == [k EXCEPT !.s.saveRow = k.s.row, !.s.saveCol = k.s.col]
Restore_Cursor(k) == [k EXCEPT !.s.row = k.s.saveRow, !.s.col = k.s.saveCol]

Command(k, ch) ==
  CASE ch = "K" -> Clear_To_EOL(k)
    [] ch = "s" -> Save_Cursor(k)
    [] ch = "u" -> Restore_Cursor(k)
    [] ch = "A" -> Move_Cursor(k, k.s.row - Get_Arg(k, 0), k.s.col)
    [] ch = "B" -> Move_Cursor(k, k.s.row + Get_Arg(k, 0), k.s.col)
    [] ch = "C" -> Move_Cursor(k, k.s.row, k.s.col + Get_Arg(k, 0))
    [] ch = "D" -> Move_Cursor(k, k.s.row, k.s.col - Get_Arg(k, 0))
    [] ch = "m" -> Update_Attributes(k)
    [] ch \in {"f", "H"} /\ k.s.numArgs = 2 -> Move_Cursor(k, Get_Arg(k, 0) - 1, Get_Arg(k, 1) - 1)
    [] ch = "J" /\ k.s.numArgs = 1 /\ Get_Arg(k, 0) = 2 -> [Move_Cursor(k, 0, 0) EXCEPT !.v = Cleared]
    [] OTHER    -> k

(* Mutant of Finish: a position without its two arguments is still waited for.    *)
FinishComplete(k, ch) == IF ch \in {"f", "H"} /\ k.s.numArgs # 2 THEN k ELSE Reset(Command(k, ch))

Finish(k, ch) == Reset(Command(k, ch))

Put_Char_Imp(k, ch) ==
  CASE k.s.state = "normal" -> IF ch = "\\e" THEN Start_Escape(k) ELSE Output_Literal_Character(k, ch)
    [] k.s.state = "esc"  -> IF ch = "[" THEN [k EXCEPT !.s.state = "esc2"] ELSE Reset(k)
    [] k.s.state = "esc2" -> IF ch \in Digits THEN Add_Digit(Start_Arg(k), ch)
                             ELSE IF ch = ";" THEN Start_Arg(Add_Digit(Start_Arg(k), "1"))
                             ELSE Finish(k, ch)
    [] k.s.state = "arg"  -> IF ch \in Digits THEN Add_Digit(k, ch)
                             ELSE IF ch = ";" THEN Start_Arg(k) ELSE Finish(k, ch)

(* A call of the kernel's Print, Put_String, Put_Buf or Put_Char.               *)
PutText(text) ==
  \E word \in Behind :
    LET k == FoldLeft(Put_Char_Imp, Console(word), text)
    IN cons' = k.s /\ video' = k.v /\ hw' = <<k.s.row, k.s.col>>

-----------------------------------------------------------------------------
(* The calls of a user program that is not inside Print *)

Call(p) == rest[p] = <<>> /\ calls < MaxCalls /\ calls' = calls + 1

Print_String(p, text) == Call(p) /\ UNCHANGED rest /\ PutText(text)

(* Put_Cursor of the user library prints a sequence, in one system call.         *)
Decimal(i) == IF i < 10 THEN <<Numeral[i + 1]>> ELSE <<Numeral[1 + (i \div 10)], Numeral[1 + (i % 10)]>>
Put_Cursor(p, row, col) ==
  Print_String(p, <<"\\e", "[">> \o Decimal(row + 1) \o <<";">> \o Decimal(col + 1) \o <<"f">>)

(* Print of the user library, and one character of it.                           *)
StartPrint(p, text) ==
  /\ Call(p)
  /\ rest' = [rest EXCEPT ![p] = text]
  /\ UNCHANGED <<cons, video, hw>>

Print_Emit(p) ==
  /\ rest[p] # <<>>
  /\ PutText(<<Head(rest[p])>>)
  /\ rest' = [rest EXCEPT ![p] = Tail(@)]
  /\ UNCHANGED calls

(* The system call that sets the attribute to color fg.                         *)
Set_Current_Attr(p, fg) ==
  /\ Call(p)
  /\ cons' = [cons EXCEPT !.attr = [DefaultAttr EXCEPT !.fg = fg]]
  /\ UNCHANGED <<video, hw, rest>>

Next ==
  \E p \in Programs :
    \/ \E text \in Texts : Print_String(p, text)
    \/ \E place \in Places : Put_Cursor(p, place[1], place[2])
    \/ \E text \in Messages : StartPrint(p, text)
    \/ Print_Emit(p)
    \/ \E fg \in Colors : Set_Current_Attr(p, fg)

Spec == Init /\ [][Next]_vars

-----------------------------------------------------------------------------
(* Properties *)

(* i is the position x among n, or the border on its side.                        *)
Reached(i, x, n) == i \in 0..(n - 1) /\ (i < x => i = n - 1) /\ (i > x => i = 0)

(* Put_Cursor sends the cursor where the program asks, to the border when that is *)
(* off the screen, whatever was printed before: sequences of several programs     *)
(* mixed character by character, with too few, too many or unknown arguments and  *)
(* commands, never leave the console inside one (conio.c:30, 225, screen.c:278).  *)
(* It says so only when no program is inside Print: a sequence that another has   *)
(* half printed takes the one of Put_Cursor for its end, and the cursor is lost.  *)
CursorFollows ==
  \A p \in Programs, place \in Places :
    (rest \in [Programs -> {<<>>}] /\ Put_Cursor(p, place[1], place[2])) =>
      Reached(hw'[1], place[1], NUMROWS) /\ Reached(hw'[2], place[2], NUMCOLS)
CursorGoesThere == [][CursorFollows]_vars
=============================================================================
