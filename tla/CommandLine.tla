---------------------------- MODULE CommandLine ----------------------------
(***************************************************************************)
(* The main loop of the debugger as its user sees it (main.c, command.c):  *)
(* get_command reads at most a buffer of characters and splits them into   *)
(* the array dbug->cmd, play_command looks the first entry up in cmd_set   *)
(* and calls the function found with the whole array.                      *)
(*                                                                         *)
(* The array is emptied by nelts = 0 alone: its elements stay where they   *)
(* are, and the functions read elements without looking at nelts.  What a  *)
(* command does to processes is module Debugger; here it is recorded with  *)
(* the words it was given.                                                 *)
(*                                                                         *)
(* A character is a blank, a tab, a newline or a run of letters that is    *)
(* never taken apart; a word is a sequence of runs.                        *)
(***************************************************************************)
EXTENDS Integers, SequencesExt, FiniteSetsExt

CONSTANTS
    Letters,   \* runs of letters the user types
    Lines,     \* what the user may type in one go, the newline included
    BufSize,   \* sizeof(buf) in get_command (50 in the code)
    MaxWords,  \* bound: elements of the array (it grows; see module Pool)
    Symbols    \* names of the functions of the program, in table order

Blank   == " "
Tab     == "\t"
Newline == "\n"
Spaces  == {Blank, Tab, Newline}   \* isspace

Unset == <<"NULL">>   \* an element never written: the pool's memory is zero

ASSUME LettersAssumption == Letters \cap (Spaces \cup {"NULL"}) = {}
\* fgets stops behind a newline.
ASSUME LinesAssumption ==
    \A l \in Lines : /\ l \in Seq(Letters \cup Spaces) /\ l # <<>>
                     /\ \A i \in 1..(Len(l) - 1) : l[i] # Newline
\* There is room for a word of each character of a buffer.
ASSUME SizeAssumption == /\ BufSize \in Nat \ {0, 1} /\ MaxWords \in Nat
                         /\ BufSize - 1 <= MaxWords + 1
ASSUME SymbolsAssumption == Symbols \in Seq(Seq(Letters))

VARIABLES
    input,  \* typed and not read yet
    open,   \* stdin has not ended
    buf,    \* what fgets returned last
    elts,   \* dbug->cmd->elts
    nelts,  \* dbug->cmd->nelts
    funs,   \* dbug->funs: <<>> for NULL, then the names of Symbols
    call,   \* the function called last and what it took from the array
    pc      \* "prompt": in get_command; "play": in play_command; or how it ended

vars == <<input, open, buf, elts, nelts, funs, call, pc>>

cmd_set == <<[name |-> <<"b">>, fun |-> "break"],
             [name |-> <<"c">>, fun |-> "continue"],
             [name |-> <<"show">>, fun |-> "show"],
             [name |-> <<"dbug">>, fun |-> "dbug"],
             [name |-> <<"attach">>, fun |-> "attach"],
             [name |-> <<"show", "reg">>, fun |-> "showreg"],
             [name |-> <<"watch">>, fun |-> "watch"],
             [name |-> <<"q">>, fun |-> "exit"],
             [name |-> <<"exit">>, fun |-> "exit"],
             [name |-> <<"quit">>, fun |-> "exit"],
             [name |-> <<"show", "bps">>, fun |-> "showbps"]>>

NoCall == [fun |-> "none"]

Init == /\ input = <<>> /\ open = TRUE /\ buf = <<>>
        /\ elts = [k \in 0..MaxWords |-> Unset]
        /\ nelts = 0
        /\ funs = <<>>
        /\ call = NoCall
        /\ pc = "prompt"

-----------------------------------------------------------------------------
(* get_command                                                             *)

\* Where the word that starts at i ends: at the first space, if any.
EndOf(b, i) == {j \in i..Len(b) : b[j] \in Spaces}

\* Fault: the search goes on behind the first character of the word it has
\* just taken.
SplitOverlapping(b) ==
    LET from[i \in 1..Len(b) + 1] ==
            IF i > Len(b) THEN <<>>
            ELSE IF b[i] = Blank \/ EndOf(b, i) = {} THEN from[i + 1]
            ELSE <<SubSeq(b, i, Min(EndOf(b, i)) - 1)>> \o from[i + 1]
    IN from[1]

\* Words of the buffer.  Blanks before a word are skipped, but no other
\* space is: a tab or newline there makes an empty word.  What follows the
\* last space is dropped.
Split(b) ==
    LET from[i \in 1..Len(b) + 1] ==
            IF i > Len(b) THEN <<>>
            ELSE IF b[i] = Blank \/ EndOf(b, i) = {} THEN from[i + 1]
            ELSE <<SubSeq(b, i, Min(EndOf(b, i)) - 1)>> \o from[Min(EndOf(b, i)) + 1]
    IN from[1]

\* The words are pushed into the emptied array; elements behind them stay.
Push(words) ==
    /\ nelts' = Len(words)
    /\ elts' = [k \in 0..MaxWords |-> IF k < Len(words) THEN words[k + 1] ELSE elts[k]]

\* The user types a line, or ends the input; get_command is waiting for it.
Type == /\ pc = "prompt" /\ open /\ input = <<>>
        /\ \/ /\ \E l \in Lines : input' = l /\ open' = (Last(l) = Newline)
           \/ open' = FALSE /\ UNCHANGED input
        /\ UNCHANGED <<buf, elts, nelts, funs, call, pc>>

\* fgets takes a buffer full from the line, or nothing when the input has
\* ended; buf was cleared before.
get_command ==
    /\ pc = "prompt" /\ (input # <<>> \/ ~open)
    /\ LET n == Min({BufSize - 1, Len(input)}) IN
       /\ buf' = SubSeq(input, 1, n)
       /\ input' = SubSeq(input, n + 1, Len(input))
       /\ Push(Split(SubSeq(input, 1, n)))
    /\ pc' = "play"
    /\ call' = NoCall
    /\ UNCHANGED <<open, funs>>

-----------------------------------------------------------------------------
(* play_command and what the functions take from the array                 *)

\* Index in cmd_set of the first entry that answers to the word, or 0.
\* Fault: only as many characters are compared as the entry's name has.
PrefixLookup(word) == SelectInSeq(cmd_set, LAMBDA c : IsPrefix(c.name, word))

Lookup(word) == SelectInSeq(cmd_set, LAMBDA c : c.name = word)

\* find_func: index of the first symbol that begins with the word, or 0.
find_func(word) ==
    IF word = Unset THEN 0 ELSE SelectInSeq(funs, LAMBDA s : IsPrefix(word, s))

\* command_break: nothing is inserted when no symbol is found.
command_break == /\ call' = [fun |-> "break", arg |-> elts[1], sym |-> find_func(elts[1])]
                 /\ pc' = "prompt"
                 /\ UNCHANGED funs

\* command_dbug: as many entries as the array has elements, from the one
\* behind the command on.  The launch may fail and leave funs as it is.
Argv == [k \in 0..(nelts - 1) |-> elts[k + 1]]

command_dbug == /\ call' = [fun |-> "dbug", arg |-> elts[1], argv |-> Argv]
                /\ funs' \in {funs, Symbols}
                /\ pc' = "prompt"

\* command_attach and command_watch convert the argument without looking
\* whether there is one: atoi and sscanf of NULL end the debugger.
ConvertArgument(fun) == /\ call' = [fun |-> fun, arg |-> elts[1]]
                        /\ pc' = IF elts[1] = Unset THEN "crashed" ELSE "prompt"

command_attach == /\ ConvertArgument("attach")
                  /\ funs' \in {funs, Symbols}

command_watch == ConvertArgument("watch") /\ UNCHANGED funs

command_exit == /\ call' = [fun |-> "exit"]
                /\ pc' = "exited"
                /\ UNCHANGED funs

\* continue, show, showreg and showbps take no argument.  (That continue may
\* end the debugger is left to module Debugger.)
Argumentless(fun) == /\ call' = [fun |-> fun]
                     /\ pc' = "prompt"
                     /\ UNCHANGED funs

play_command ==
    /\ pc = "play"
    /\ LET it  == Lookup(elts[0])
           fun == IF it = 0 THEN "none" ELSE cmd_set[it].fun
       IN \/ fun = "break" /\ command_break
          \/ fun = "dbug" /\ command_dbug
          \/ fun = "attach" /\ command_attach
          \/ fun = "watch" /\ command_watch
          \/ fun = "exit" /\ command_exit
          \/ fun \in {"continue", "show", "showreg", "showbps", "none"} /\ Argumentless(fun)
    /\ UNCHANGED <<input, open, buf, elts, nelts>>

\* The debugger has exited or crashed.
Ended == pc \in {"exited", "crashed"} /\ UNCHANGED vars

Next == Type \/ get_command \/ play_command \/ Ended

Spec == Init /\ [][Next]_vars
=============================================================================
