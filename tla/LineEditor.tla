----------------------------- MODULE LineEditor -----------------------------
(***************************************************************************)
(* Read_Line of the user library: the line a user types at a prompt, edited  *)
(* in an array and on a row of the screen, and the ring of earlier commands.  *)
(*                                                                         *)
(* A step is one key.  The editor knows its place in the line only from the  *)
(* column of the cursor, which it asks the kernel for; no other process      *)
(* prints meanwhile.  A line stays in one row of the screen and holds no     *)
(* tabs.  Keys are echoed: with Echo(false), which no program of the          *)
(* repository calls, Backspace would do nothing (conio.c:131).               *)
(***************************************************************************)
EXTENDS Integers, Sequences

CONSTANTS
  Letters,        (* the characters that are typed                           *)
  Programs,       (* the lines that are programs to run                       *)
  Blank, Nul, Junk,
  BufSize,        (* the characters a line may have: one less than the array,   *)
                  (* which Read_Line sets aside for the nul (conio.c:65)      *)
  Boundary,       (* the column behind the prompt                            *)
  ClearedTo,      (* the column Clear_Line stops at                          *)
  NumCols,
  HISTORY_SIZE

VARIABLES
  buf, n,         (* the array and the length of the line, ptr being buf + n;    *)
                  (* the last place of the array is for the nul of a full line *)
  row, col,       (* the row of the screen and the column of its cursor       *)
  history,        (* list, front, rear and cursor                            *)
  slipped,        (* Delete was pressed behind the end of the line            *)
  lost            (* and the next access is outside the array                   *)

vars == <<buf, n, row, col, history, slipped, lost>>

Up     == -1      (* the direction history is gone through                    *)
Down   == 1
Ring   == 0..(HISTORY_SIZE - 1)
Prompt == [c \in 0..(NumCols - 1) |-> Blank]

NoHistory == [list |-> [i \in Ring |-> <<>>], front |-> 0, rear |-> 0, cursor |-> 0]

Add_History_Item(h, command) ==
  LET Following(i) == (i + 1) % HISTORY_SIZE
      rear == Following(h.rear)
  IN [list   |-> [h.list EXCEPT ![h.rear] = command, ![rear] = <<>>],
      front  |-> IF rear = h.front THEN Following(h.front) ELSE h.front,
      rear   |-> rear, cursor |-> rear]

(* The shell puts commands of its own in the history, and calls Read_Line.      *)
Init ==
  /\ buf = [i \in 0..BufSize |-> Junk] /\ n = 0
  /\ row = Prompt /\ col = Boundary
  /\ history \in {Add_History_Item(NoHistory, command) : command \in Programs}
  /\ slipped = FALSE /\ lost = FALSE

(* buf[i + 1], which for the last place of the array is read from behind it: the  *)
(* character ends up behind the line.                                          *)
After(i) == IF i + 1 \in DOMAIN buf THEN buf[i + 1] ELSE Junk

(* Clear_Line, then every character of the line again.                         *)
Redrawn(text, len) ==
  [c \in DOMAIN row |-> IF c - Boundary \in 0..(len - 1) THEN text[c - Boundary]
                        ELSE IF c \in Boundary..(ClearedTo - 1) THEN Blank ELSE row[c]]

(* The line becomes text, of length len, and the cursor goes to column c.       *)
Show(text, len, c) == buf' = text /\ n' = len /\ row' = Redrawn(text, len) /\ col' = c

(* Where the cursor is in the line.                                            *)
Place == col - Boundary

(* Mutant of Closed: the character at the cursor stays.                        *)
ClosedBehind(from) == [i \in DOMAIN buf |-> IF i \in (from + 1)..n THEN After(i) ELSE buf[i]]
Closed(from)       == [i \in DOMAIN buf |-> IF i \in from..n THEN After(i) ELSE buf[i]]

Left  == /\ col' = IF col > Boundary THEN col - 1 ELSE col
         /\ UNCHANGED <<buf, n, row, history, slipped, lost>>
Right == /\ col' = IF col <= Boundary + n - 1 THEN col + 1 ELSE col
         /\ UNCHANGED <<buf, n, row, history, slipped, lost>>

Insert(c) ==
  /\ IF n < BufSize /\ Place \in DOMAIN buf
     THEN Show([i \in DOMAIN buf |-> IF i = Place THEN c
                                     ELSE IF i \in (Place + 1)..(n + 1) THEN buf[i - 1] ELSE buf[i]],
               n + 1, col + 1)
     ELSE UNCHANGED <<buf, n, row, col>>
  /\ lost' = (n < BufSize /\ Place \notin DOMAIN buf)
  /\ UNCHANGED <<history, slipped>>

Backspace ==
  /\ IF n > 0 /\ col > Boundary THEN Show(Closed(Place - 1), n - 1, col - 1)
     ELSE UNCHANGED <<buf, n, row, col>>
  /\ UNCHANGED <<history, slipped, lost>>

Delete ==
  /\ slipped' = (slipped \/ Place >= n) /\ lost' = (n = 0)
  /\ IF n > 0 THEN Show(Closed(Place), n - 1, col) ELSE UNCHANGED <<buf, n, row, col>>
  /\ UNCHANGED history

Get_History_Item(step) ==
  IF history.cursor = (IF step = Up THEN history.front ELSE history.rear) THEN history
  ELSE [history EXCEPT !.cursor = (@ + step) % HISTORY_SIZE]

Recall(step) ==
  /\ history' = Get_History_Item(step)
  /\ LET item == history'.list[history'.cursor]
     IN Show([i \in DOMAIN buf |-> IF i < Len(item) THEN item[i + 1]
                                   ELSE IF i = Len(item) THEN Nul ELSE buf[i]],
             Len(item), Boundary + Len(item))
  /\ UNCHANGED <<slipped, lost>>

Text == [i \in 1..n |-> buf[i - 1]]

(* Return ends the line; the shell remembers it if it has a program to run, and   *)
(* prompts again on a row of its own.                                          *)
Return ==
  /\ history' = IF Text \in Programs THEN Add_History_Item(history, Text) ELSE history
  /\ buf' = [buf EXCEPT ![n] = Nul] /\ n' = 0
  /\ row' = Prompt /\ col' = Boundary /\ slipped' = FALSE /\ UNCHANGED lost

Next ==
  /\ ~lost
  /\ \/ Left \/ Right \/ Backspace \/ Delete \/ Return
     \/ \E c \in Letters : Insert(c)
     \/ Recall(Up) \/ Recall(Down)

Spec == Init /\ [][Next]_vars

-----------------------------------------------------------------------------
(* Properties *)

Commands  == [i \in 1..((history.rear - history.front) % HISTORY_SIZE) |->
                history.list[(history.front + i - 1) % HISTORY_SIZE]]
Recalled  == 1 + ((history.cursor - history.front) % HISTORY_SIZE)
(* Text and place after key k, the text being a sequence and nothing else: what  *)
(* the loops over the array must come to.                                      *)
Before == SubSeq(Text, 1, Place)
Behind == SubSeq(Text, Place + 1, n)
Item(i) == LET item == IF i <= Len(Commands) THEN Commands[i] ELSE <<>> IN <<item, Len(item)>>
Edited(k) ==
  CASE k = "left"      -> <<Text, IF Place > 0 THEN Place - 1 ELSE 0>>
    [] k = "right"     -> <<Text, IF Place < n THEN Place + 1 ELSE n>>
    [] k = "backspace" -> IF Place = 0 THEN <<Text, 0>>
                                       ELSE <<SubSeq(Text, 1, Place - 1) \o Behind, Place - 1>>
    [] k = "delete"    -> IF Place = n THEN <<Text, n>> ELSE <<Before \o Tail(Behind), Place>>
    [] k = "up"        -> Item(IF Recalled = 1 THEN 1 ELSE Recalled - 1)
    [] k = "down"      -> Item(IF Recalled = Len(Commands) + 1 THEN Recalled ELSE Recalled + 1)
    [] k = "return"    -> <<<<>>, 0>>
Typed(c) == IF n < BufSize THEN <<Append(Before, c) \o Behind, Place + 1>> ELSE <<Text, Place>>

(* Every key edits the line as a user expects, at the place of the cursor (the     *)
(* array and the column are meant, not what the row of the screen shows), and    *)
(* the arrows go through the last commands in order (conio.c:101, history.c:29);  *)
(* only Delete behind the end of the line breaks it (conio.c:98).               *)
Becomes(edited) == <<Text, Place>>' = edited
Remembered == LET all == Append(Commands, Text) IN IF Len(all) = HISTORY_SIZE THEN Tail(all) ELSE all
EditsTheLine ==
  ~slipped /\ ~slipped' =>
    /\ (Left => Becomes(Edited("left"))) /\ (Right => Becomes(Edited("right")))
    /\ (Backspace => Becomes(Edited("backspace"))) /\ (Delete => Becomes(Edited("delete")))
    /\ (Recall(Up) => Becomes(Edited("up"))) /\ (Recall(Down) => Becomes(Edited("down")))
    /\ \A c \in Letters : Insert(c) => Becomes(Typed(c))
    /\ Return => Becomes(Edited("return"))
    /\ Commands' = Commands \/ (Return /\ Commands' = Remembered)
=============================================================================
