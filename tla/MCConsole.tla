------------------------------ MODULE MCConsole ------------------------------
(* An instance for TLC of what stands between a user and a program: the screen,   *)
(* the shell with the arguments it passes on, and printf.  The parts do not touch *)
(* each other's state: a behaviour is one of a single part, chosen at the start.  *)
EXTENDS Integers, Sequences

VARIABLES part,
          cons, video, hw, unprinted, calls,
          path, shell, line, block, background,
          format, value, text, rest, state, flags, width, prec, rank, out

(* Texts with every kind of character and sequence: no arguments, arguments left   *)
(* out, more than the list has room for, and such as lead off the screen.        *)
WholeTexts ==
  {<<"x">>, <<"\n">>, <<"\t">>, <<"\\e", "x">>} \cup
  {<<"\\e", "[", end>> : end \in {"K", "s", "u", "m"}} \cup
  {<<"\\e", "[", "2", "A">>, <<"\\e", "[", "2", "J">>} \cup
  {<<"\\e", "[", "9", end>> : end \in {"B", "C", "D"}} \cup
  {<<"\\e", "[", "1", ";", "3", "6", "m">>, <<"\\e", "[", ";", "2", "H">>,
   <<"\\e", "[", "2", ";", "3", ";", "4", "f">>, <<"\\e", "[", "0", ";", "1", ";", ";", ";", "m">>}

(* What two programs print at the same time.                                    *)
Mixed == {<<"1">>, <<"\\e", "[", "2", "J">>, <<"\\e", "[", ";", "2", "H">>,
          <<"\\e", "[", "2", ";", ";", ";", "f">>}
S == INSTANCE Screen WITH NUMROWS <- 2, NUMCOLS <- 12, TABWIDTH <- 8, MAXARGS <- 3,
       Programs <- {"p", "q"}, Texts <- WholeTexts, Messages <- Mixed,
       Places <- {<<0, 0>>, <<1, 9>>, <<2, 11>>, <<0, -1>>}, Colors <- {36}, Behind <- {44},
       rest <- unprinted, MaxCalls <- 3

C == INSTANCE CommandLine WITH Letters <- {"a", "b"}, MaxLine <- 5, MAXPROC <- 2, Dirs <- {"bin"},
       MaxPath <- 1, Here <- "here", Base <- 4096

(* Every conversion with flags, widths, precisions and modifiers that interact,  *)
(* and ordinary text.                                                         *)
OneConversion ==
  {<<"%">> \o f \o w \o p \o m \o <<conversion>> :
     f \in {<<>>, <<"0">>, <<"-">>, <<"+", "0">>, <<" ">>, <<"#", "'">>, <<"#", "-", "+">>, <<"0", "'">>},
     w \in {<<>>, <<"1", "1">>, <<"*">>},
     p \in {<<>>, <<".", "5">>, <<".", "*">>},
     m \in {<<>>, <<"h">>, <<"l", "l">>},
     conversion \in {"d", "u", "o", "x", "X", "p", "s", "c"}}
  \cup {<<"%", "6", "z", "i">>, <<"%", "L", "P">>, <<"s", "%", "%", "s">>}
F == INSTANCE Format WITH Formats <- OneConversion, Numbers <- {-16, -3, 0, 5, 15},
       Strings <- {<<"s">>, <<"s", "t">>}, LongBits <- 5, IntBits <- 5, ShortBits <- 4, CharBits <- 3,
       PointerDigits <- 2

screenVars   == <<cons, video, hw, unprinted, calls>>
shellVars    == <<path, shell, line, block, background>>
formatVars   == <<format, value, text, rest, state, flags, width, prec, rank, out>>

(* A part that is not looked at starts in one way only.                         *)
MCInit ==
  /\ part \in {"screen", "shell", "printf"}
  /\ S!Init /\ C!Init
  /\ part # "shell" => path = <<>>
  /\ IF part = "printf" THEN F!Init ELSE F!Start(<<"s">>, 0, <<"s">>)

ScreenStep   == /\ part = "screen" /\ S!Next
                /\ UNCHANGED <<part, shellVars, formatVars>>
ShellStep    == /\ part = "shell" /\ C!Next
                /\ UNCHANGED <<part, screenVars, formatVars>>
PrintfStep   == /\ part = "printf" /\ F!Next
                /\ UNCHANGED <<part, screenVars, shellVars>>

MCNext == ScreenStep \/ ShellStep \/ PrintfStep

MCSpec ==
  MCInit /\ [][MCNext]_<<part, screenVars, shellVars, formatVars>>

(* The cursor goes where Put_Cursor sends it, whatever was printed before and     *)
(* unless a program is inside Print (conio.c:30, 225, screen.c:278).             *)
CursorGoesThere == [][part = "screen" => S!CursorFollows]_screenVars
(* A program is started with the words of the line, in a block of the size that   *)
(* was asked for (argblock.c:74, 117).                                         *)
ProgramsGetTheirWords == C!ProgramsGetTheirWords
(* A number is printed as its value in the type the format names (fmtout.c:131). *)
NumbersReadBack == F!NumbersReadBack
=============================================================================
