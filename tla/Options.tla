------------------------------ MODULE Options ------------------------------
(***************************************************************************)
(* The options of droidvncserver that decide how the screen is turned, as  *)
(* main reads them.  A command line is a sequence of words.                *)
(***************************************************************************)
EXTENDS Integers, Sequences, SequencesExt

All == 0 .. 3

\* atoi, and the words it makes rotations of; it makes 0 of all the others.
Degrees == [deg90 |-> 90, deg180 |-> 180, deg270 |-> 270, deg360 |-> 360, deg45 |-> 45]
AtoiWord(word) == IF word \in DOMAIN Degrees THEN Degrees[word] ELSE 0

\* -r: the quarter turn of a rotation, none if it is refused.
ForcedRotation(word) ==
  LET r == AtoiWord(word)
  IN IF r \in {0, 90, 180, 270, 360} THEN {(r \div 90) % 4} ELSE {}

\* -o
ForcedOrientation(word) ==
  CASE word = "portrait"  -> {0, 2}
    [] word = "landscape" -> {1, 3}
    [] OTHER              -> {}

\* What has been read: the words a pending option takes, and FATAL.
Start == [allowed |-> All, rotate180 |-> FALSE, takes |-> "none", fatal |-> FALSE]

Allow(state, turns) ==
  [state EXCEPT !.takes = "none", !.allowed = turns, !.fatal = turns = {}]

\* A word where an option is expected; other words are passed over.
Option(state, word) ==
  CASE word \in {"-r", "-o"} -> [state EXCEPT !.fatal = state.allowed # All,
                                              !.takes = word]
    [] word = "-z" -> [state EXCEPT !.rotate180 = TRUE, !.takes = "skip"]
    [] word = "-P" -> [state EXCEPT !.takes = "value"]
    [] OTHER       -> state

\* The value of the option before it.
Value(state, word) ==
  CASE state.takes = "-r" -> Allow(state, ForcedRotation(word))
    [] state.takes = "-o" -> Allow(state, ForcedOrientation(word))
    [] OTHER              -> [state EXCEPT !.takes = "none"]

\* Mutant of Read: -r and -o may both be given.
ReadLenient(state, word) ==
  IF state.fatal THEN state
  ELSE IF state.takes = "none" THEN [Option(state, word) EXCEPT !.fatal = FALSE]
  ELSE Value(state, word)

Read(state, word) ==
  IF state.fatal THEN state
  ELSE IF state.takes = "none" THEN Option(state, word)
  ELSE Value(state, word)

\* A missing value is FATAL, except after -z.
Parse(argv) ==
  LET end == FoldLeft(Read, Start, argv)
  IN [end EXCEPT !.fatal = @ \/ end.takes \notin {"none", "skip"}]

-----------------------------------------------------------------------------
(* What the usage says of a command line.                                  *)

\* The words that are options: those that are not the value of one.  -z takes
\* no value.
OptionAt(argv) ==
  LET is[i \in Nat] == \/ i = 1
                       \/ i > 1 /\ ~(is[i - 1] /\ argv[i - 1] \in {"-r", "-o", "-P"})
  IN {i \in DOMAIN argv : is[i]}

\* Every option of a command line has been given its meaning.
Honours(argv, allowed, rotate180) ==
  LET at == OptionAt(argv)
  IN /\ rotate180 <=> \E i \in at : argv[i] = "-z"
     /\ \A i \in at : argv[i] = "-r" =>
          i < Len(argv) /\ allowed = ForcedRotation(argv[i + 1])
     /\ \A i \in at : argv[i] = "-o" =>
          i < Len(argv) /\ allowed = ForcedOrientation(argv[i + 1])
     /\ (\A i \in at : argv[i] \notin {"-r", "-o"}) => allowed = All

\* main passes over the word after -z, which it should read: the command lines
\* where this word is an option are left out of Honours.  Of the options this module
\* does not tell apart, -P stands for those with a value and -f for the others.
ZLast(argv) ==
  \A i \in DOMAIN argv :
    argv[i] = "-z" /\ i < Len(argv) => argv[i + 1] \notin {"-r", "-o", "-z", "-P", "-f"}
=============================================================================
