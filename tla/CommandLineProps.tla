-------------------------- MODULE CommandLineProps --------------------------
(* What the user may expect of module CommandLine.                         *)
EXTENDS CommandLine

-----------------------------------------------------------------------------
(* What was typed, told from the characters without a left-to-right scan.  *)

\* Longest runs of letters that a space follows, as first and last position.
Runs(b) == {r \in (1..Len(b)) \X (1..Len(b)) :
               /\ r[1] <= r[2] /\ r[2] < Len(b)
               /\ \A i \in r[1]..r[2] : b[i] \notin Spaces
               /\ r[1] = 1 \/ b[r[1] - 1] \in Spaces
               /\ b[r[2] + 1] \in Spaces}

Typed(b) ==
    LET Before(r) == {s \in Runs(b) : s[1] < r[1]}
        Nth(k)    == CHOOSE r \in Runs(b) : Cardinality(Before(r)) = k - 1
    IN [k \in 1..Cardinality(Runs(b)) |-> SubSeq(b, Nth(k)[1], Nth(k)[2])]

Tabbed(b) == \E i \in DOMAIN b : b[i] = Tab

Read == [k \in 1..nelts |-> elts[k - 1]]

\* The words split off a buffer are the words typed in it, in order and
\* whole, and nothing of an earlier line; only tabs and trailing spaces can
\* add empty ones, and without tabs every word is in its place (get_command).
SplitIsRight ==
    LET Words == {i \in DOMAIN Read : Read[i] # <<>>}
        Nth(i) == Cardinality({j \in Words : j <= i})
    IN pc = "play" =>
         /\ Cardinality(Words) = Len(Typed(buf))
         /\ \A i \in Words : Read[i] = Typed(buf)[Nth(i)]
         /\ ~Tabbed(buf) => IsPrefix(Typed(buf), Read)

\* A buffer with a command in it runs the function of exactly that name and
\* gives it the words that were typed after it, whatever earlier lines left
\* in the array; b takes a symbol that begins with what was typed, and finds
\* one whenever there is one (play_command and the functions it calls).
PlayedAsTyped ==
    LET typed == Typed(buf) IN
    play_command /\ ~Tabbed(buf) /\ typed # <<>> =>
      /\ LET named == {c \in ToSet(cmd_set) : c.name = typed[1]}
         IN IF named = {} THEN call'.fun = "none" ELSE \E c \in named : call'.fun = c.fun
      /\ call'.fun \in {"break", "attach", "watch", "dbug"} /\ Len(typed) > 1 =>
           call'.arg = typed[2]
      /\ call'.fun = "dbug" =>
           \A k \in 2..Len(typed) : call'.argv[k - 2] = typed[k]
      /\ call'.fun = "break" /\ Len(typed) > 1 =>
           LET matches == {i \in DOMAIN funs : IsPrefix(typed[2], funs[i])}
           IN IF matches = {} THEN call'.sym = 0 ELSE call'.sym \in matches

CallsWhatWasTyped == [][PlayedAsTyped]_vars

\* A program named on the line is started with words of this line only
\* (command_dbug, which says it builds the arguments of the process).
ArgvIsTyped ==
    [][play_command /\ call'.fun = "dbug" /\ Len(Typed(buf)) > 1 =>
         \A k \in DOMAIN call'.argv : call'.argv[k] \in ToSet(Read) \cup {Unset}]_vars

-----------------------------------------------------------------------------
(* The inductive invariant.                                                *)

IsLine(s) == /\ s \in Seq(Letters \cup Spaces)
             /\ \A i \in 1..(Len(s) - 1) : s[i] # Newline

\* What is read is a piece of a line that fits into the buffer, and while it is
\* being played the array begins with its words, whatever is behind them.
IInv == /\ IsLine(input)
        /\ funs \in {<<>>, Symbols} /\ nelts \in 0..(MaxWords + 1)
        /\ pc = "play" => IsLine(buf) /\ Len(buf) < BufSize /\ Read = Split(buf)
=============================================================================
