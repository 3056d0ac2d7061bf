----------------------------- MODULE CommandLine -----------------------------
(***************************************************************************)
(* From a line typed at the shell to the arguments of a program: the shell   *)
(* parses the line (shell.c) and looks for the program on its path           *)
(* (process.c), the kernel lays the words of the line out as the argument     *)
(* block of the process (argblock.c), and the shell waits for the process.    *)
(*                                                                         *)
(* A line is a sequence of characters, of which all that separate nothing are *)
(* alike.  It holds blanks and tabs but no line ends, which the kernel takes  *)
(* for space and Read_Line never leaves in a line.  An address counts bytes.  *)
(***************************************************************************)
EXTENDS Integers, Sequences, SequencesExt, FiniteSets, FiniteSetsExt, TLC

CONSTANTS
  Letters,        (* the characters of words                                 *)
  MaxLine,        (* bound: characters of a line                              *)
  MAXPROC,
  Dirs,           (* the directories that may be on the path                  *)
  MaxPath,        (* bound: directories on the path                          *)
  Here,           (* the program name as it was typed, in no directory        *)
  Base            (* where the argument block is in user memory               *)

Spaces    == {" ", "\t"}
Operators == {"<", ">", "|"}
Chars     == Letters \cup Operators \cup Spaces \cup {"&"}
Lines     == UNION {[1..k -> Chars] : k \in 0..MaxLine}
NoBlock   == [size |-> 0, argc |-> 0, argv |-> <<>>, text |-> <<>>, end |-> 0]
NotFound  == "not found"

VARIABLES
  path,           (* the shell's path                                        *)
  shell,          (* "prompt", "spawn", "started", "exited"                   *)
  line,           (* commandBuf                                              *)
  block,          (* the argument block of the process spawned last            *)
  background      (* whether that one was spawned detached                    *)

vars == <<path, shell, line, block, background>>

Init == /\ path \in UNION {[1..k -> Dirs] : k \in 0..MaxPath}
        /\ shell = "prompt" /\ line = <<>> /\ block = NoBlock /\ background = FALSE

-----------------------------------------------------------------------------
(* The shell's parser *)

(* The first place of s that has one of S, or the one behind the end.           *)
First(s, S) == Min({i \in DOMAIN s : s[i] \in S} \cup {Len(s) + 1})
From(s, i)  == SubSeq(s, i, Len(s))
Strip_Leading_Whitespace(s) == From(s, First(s, Chars \ Spaces))
(* The token that s starts with, none if it is empty, and what follows it.       *)
Copy_Token(s) ==
  LET t == Strip_Leading_Whitespace(s)   i == First(t, Spaces)
  IN [token |-> SubSeq(t, 1, i - 1), rest |-> From(t, i)]

Failed == [flags |-> {"error"}, program |-> <<>>, command |-> <<>>]

(* One process of the pipeline, from a command that is not empty, and what is left. *)
InputFile(s) ==
  LET t == Copy_Token(From(s, 2))
  IN [bad |-> t.token = <<>>, flags |-> {"INFILE"}, rest |-> Strip_Leading_Whitespace(t.rest)]
Output(s) ==
  IF s = <<>> \/ Head(s) \notin {">", "|"} THEN [bad |-> FALSE, flags |-> {}, rest |-> s]
  ELSE IF Head(s) = "|" THEN [bad |-> FALSE, flags |-> {"PIPE"}, rest |-> Tail(s)]
  ELSE LET t == Copy_Token(Tail(s))
       IN [bad |-> t.token = <<>>, flags |-> {"OUTFILE"}, rest |-> t.rest]
Process(command) ==
  LET i  == First(command, Operators)
      s  == From(command, i)
      in == IF s # <<>> /\ Head(s) = "<" THEN InputFile(s) ELSE [bad |-> FALSE, flags |-> {}, rest |-> s]
      out == Output(in.rest)
      own == SubSeq(command, 1, i - 1)
      program == Copy_Token(own).token
  IN [proc |-> IF in.bad \/ out.bad \/ program = <<>> THEN Failed
               ELSE [flags |-> in.flags \cup out.flags, program |-> program, command |-> own],
      rest |-> IF s = <<>> THEN <<>> ELSE out.rest]

(* The processes of the pipeline, or <<Failed>>.                                 *)
Pipeline(command) ==
  LET step[k \in 0..MAXPROC] ==
        IF k = 0 THEN [procs |-> <<>>, rest |-> command]
        ELSE LET before == step[k - 1]   rest == Strip_Leading_Whitespace(before.rest)
                 next == Process(rest)
             IN IF Failed \in Range(before.procs) THEN before
                ELSE IF rest = <<>> THEN [before EXCEPT !.rest = <<>>]
                ELSE [procs |-> Append(before.procs, next.proc), rest |-> next.rest]
      all == step[MAXPROC]
      n == Len(all.procs)
      Misplaced(i) == \/ i > 1 /\ "INFILE" \in all.procs[i].flags
                      \/ i < n /\ "OUTFILE" \in all.procs[i].flags
                      \/ i = n /\ "PIPE" \in all.procs[i].flags
  IN IF all.rest # <<>> \/ Failed \in Range(all.procs) \/ \E i \in 1..n : Misplaced(i) THEN <<Failed>>
     ELSE all.procs

(* Spawn_Single_Command runs a single process, and one without redirections only.  *)
Runs(procs) == Len(procs) = 1 /\ procs[1].flags = {}

-----------------------------------------------------------------------------
(* The kernel's argument block *)

Is_Space(ch) == ch \in Spaces
(* Both walk along the command c, the one behind its last character being its nul. *)
Skip_Whitespace(c, i)  == Min({k \in i..Len(c) : ~Is_Space(c[k])} \cup {Len(c) + 1})
Get_Argument_Len(c, i) == Min({k \in i..Len(c) : Is_Space(c[k])} \cup {Len(c) + 1}) - i

(* Mutant of Get_Argument_Block_Size: blanks at the end count as a word.         *)
CountBlanks(c) ==
  LET Count[i \in 1..(Len(c) + 1)] ==
        LET s == Skip_Whitespace(c, i)   len == Get_Argument_Len(c, s)   others == Count[s + len]
        IN IF i > Len(c) THEN [argCount |-> 0, size |-> 4]
           ELSE [argCount |-> others.argCount + 1, size |-> others.size + 4 + len + 1]
  IN [Count[1] EXCEPT !.size = 4 + 4 + @]

(* How many words there are, and the bytes of argc and argv, of a pointer and a   *)
(* string for each, and of the null that ends them.                              *)
Get_Argument_Block_Size(c) ==
  LET Count[i \in 1..(Len(c) + 1)] ==
        LET s == Skip_Whitespace(c, i)   len == Get_Argument_Len(c, s)   others == Count[s + len]
        IN IF s > Len(c) THEN [argCount |-> 0, size |-> 4]
           ELSE [argCount |-> others.argCount + 1, size |-> others.size + 4 + len + 1]
  IN [Count[1] EXCEPT !.size = 4 + 4 + @]

(* The words, each with its nul, from dst on, behind room for as many pointers as  *)
(* were counted.                                                                *)
Format_Argument_Block(c, numArgs) ==
  LET Fill[i \in 1..(Len(c) + 1), dst \in Nat] ==
        LET s == Skip_Whitespace(c, i)   len == Get_Argument_Len(c, s)   others == Fill[s + len, dst + len + 1]
        IN IF s > Len(c) THEN [argv |-> <<>>, text |-> <<>>, end |-> dst]
           ELSE [argv |-> <<Base + dst>> \o others.argv, end |-> others.end,
                 text |-> [a \in dst..(dst + len) |-> IF a < dst + len THEN c[s + a - dst] ELSE "nul"] @@ others.text]
  IN [argc |-> numArgs] @@ Fill[1, 4 + 4 + 4 * (numArgs + 1)]

-----------------------------------------------------------------------------
(* The shell *)

Prompt == shell' = "prompt" /\ line' = <<>> /\ block' = NoBlock /\ background' = FALSE

(* A line is read; what the shell cannot run, or does itself, leaves it at the      *)
(* prompt.                                                                     *)
ReadLine ==
  /\ shell = "prompt"
  /\ \E text \in Lines :
       LET command == Strip_Leading_Whitespace(text)
       IN IF Runs(Pipeline(command)) THEN line' = command /\ shell' = "spawn" /\ UNCHANGED <<block, background>>
          ELSE Prompt
  /\ UNCHANGED path

SetPath ==
  /\ shell = "prompt"
  /\ path' \in UNION {[1..k -> Dirs] : k \in 0..MaxPath}
  /\ UNCHANGED <<shell, line, block, background>>

ExitShell ==
  /\ shell = "prompt" /\ shell' = "exited"
  /\ UNCHANGED <<path, line, block, background>>

(* Spawn_With_Path tries the name as it is, then behind the directories of the    *)
(* path until a program is found or fails to start otherwise than by absence.     *)
Spawn_With_Path(results) ==
  LET tried == <<Here>> \o path
      found == SelectInSeq(tried, LAMBDA d : results[d] # NotFound)
  IN IF found = 0 THEN NotFound ELSE results[tried[found]]

SpawnCommand ==
  /\ shell = "spawn"
  /\ \E results \in [{Here} \cup Dirs -> {NotFound, "no memory", "started"}] :
       IF Spawn_With_Path(results) # "started" THEN Prompt
       ELSE /\ \E command \in {Pipeline(line)[1].command} :
                 /\ \E counted \in {Get_Argument_Block_Size(command)} :
                      block' = [size |-> counted.size] @@ Format_Argument_Block(command, counted.argCount)
                 /\ background' = (command # <<>> /\ Last(command) = "&")
            /\ shell' = "started" /\ UNCHANGED line
  /\ UNCHANGED path

(* Wait returns, or the shell does not call it.                                 *)
Proceed == shell = "started" /\ Prompt /\ UNCHANGED path

Next == ReadLine \/ SetPath \/ ExitShell \/ SpawnCommand \/ Proceed

Spec == Init /\ [][Next]_vars

-----------------------------------------------------------------------------
(* Properties *)

(* The argument at address a, which ends at the first nul.                       *)
StringAt(a) ==
  LET end == Min({b \in DOMAIN block.text : b >= a - Base /\ block.text[b] = "nul"})
  IN [i \in 1..(end - (a - Base)) |-> block.text[a - Base + i - 1]]

(* The words of a line, from a blank or the start of the line to a blank or its end. *)
Words(c) ==
  LET From_To == {<<i, j>> \in (DOMAIN c) \X (DOMAIN c) :
                    /\ i <= j /\ \A k \in i..j : ~Is_Space(c[k])
                    /\ i > 1 => Is_Space(c[i - 1])
                    /\ j < Len(c) => Is_Space(c[j + 1])}
      inOrder == SetToSortSeq(From_To, LAMBDA a, b : a[1] < b[1])
  IN [k \in DOMAIN inOrder |-> SubSeq(c, inOrder[k][1], inOrder[k][2])]

(* What a process is started with are the words of the line, each where argv says, *)
(* in a block of exactly the size that memory was taken for and behind as many      *)
(* pointers as were counted, although the words are found once to count them and   *)
(* again to copy them; and no line with a redirection or a pipe in it is run, which *)
(* the shell cannot do (argblock.c:74, 135, shell.c:345).                         *)
ProgramsGetTheirWords ==
  shell = "started" =>
    /\ block.end = block.size /\ block.argc = Len(block.argv)
    /\ DOMAIN block.text = (4 + 4 + 4 * (block.argc + 1))..(block.size - 1)
    /\ [i \in DOMAIN block.argv |-> StringAt(block.argv[i])] = Words(line)
    /\ Range(line) \cap Operators = {}
=============================================================================
