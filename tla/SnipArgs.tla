------------------------------ MODULE SnipArgs ------------------------------
(***************************************************************************)
(* The command line of codesnip: ParaArgs, ProcessOptArgs and AdjustArgs of  *)
(* codesnip/src/snip.cpp, and the settings of class Snip.                    *)
(*                                                                         *)
(* An argument is abstracted to what the scan tells apart: a word (anything  *)
(* that is not key=number with a known key), an option with the number       *)
(* std::stoi makes of it, or an option on which std::stoi throws although    *)
(* StringIsDigit accepts it (".5", or a number too large for an int), which  *)
(* nobody catches.  The settings are of type uint8_t.                        *)
(***************************************************************************)
EXTENDS Integers, Sequences, SequencesExt

CONSTANTS
    Commands,   \* first-level words: the keys of snip_to_func
    Keys,       \* the keys of para_num
    Nums,       \* numbers an option may carry
    Default,    \* the value of each setting in the constructor's call
    MaxArgs     \* longest command line, a bound of the model

ASSUME DefaultAssumption == Default \in [Keys -> 0..255]
ASSUME NumsAssumption == Nums \subseteq Int /\ MaxArgs \in Nat

Word == [kind : {"word"}, word : Commands \cup {"other"}]
Option == [kind : {"option"}, key : Keys, num : Nums]
Throwing == [kind : {"throws"}, key : Keys]

Arguments == Word \cup Option \cup Throwing

\* argv[0] is the path of the program.
CommandLines ==
    UNION {{line \in [1..n -> Arguments] : line[1] = [kind |-> "word", word |-> "other"]} : n \in 1..MaxArgs}

VARIABLES
    given,      \* the command line as it was given
    argv,       \* what is left of it: argc is its length
    i,          \* the scan index of ProcessOptArgs
    settings,   \* server_type, blockio_type, ipc_type, fsapi_type
    at          \* "start", "scan", "usage", "terminated", or "run" and then "called"

argVars == <<given, argv, i, settings, at>>

ARG_NUM == 2

Uint8(n) == n % 256

ArgsInit ==
    /\ given \in CommandLines
    /\ argv = given
    /\ i = 1
    /\ settings = Default
    /\ at = "start"

\* argv[1], the second argument, names a sample.
IsCommand(arg) == arg.kind = "word" /\ arg.word \in Commands

ParaArgs ==
    /\ at = "start"
    /\ at' = CASE Len(argv) < ARG_NUM -> "usage"
               [] Len(argv) >= ARG_NUM /\ ~IsCommand(argv[2]) -> "usage"
               [] Len(argv) = ARG_NUM /\ IsCommand(argv[2]) -> "run"
               [] Len(argv) > ARG_NUM /\ IsCommand(argv[2]) -> "scan"
    /\ UNCHANGED <<given, argv, i, settings>>

ScanWord ==
    /\ at = "scan" /\ i <= Len(argv)
    /\ argv[i].kind = "word"
    /\ i' = i + 1
    /\ UNCHANGED <<given, argv, settings, at>>

\* AdjustArgs: the arguments behind move up.
AdjustArgs(k) == RemoveAt(argv, k)

\* Mutant: the first of several options with one key is kept.
ScanOptionFirstWins ==
    /\ at = "scan" /\ i <= Len(argv)
    /\ argv[i].kind = "option"
    /\ settings' = [settings EXCEPT ![argv[i].key] = IF @ = Default[argv[i].key] THEN Uint8(argv[i].num) ELSE @]
    /\ argv' = AdjustArgs(i)
    /\ i' = 1
    /\ UNCHANGED <<given, at>>

\* The option is stored and taken out, and the scan starts again.
ScanOption ==
    /\ at = "scan" /\ i <= Len(argv)
    /\ argv[i].kind = "option"
    /\ settings' = [settings EXCEPT ![argv[i].key] = Uint8(argv[i].num)]
    /\ argv' = AdjustArgs(i)
    /\ i' = 1
    /\ UNCHANGED <<given, at>>

ScanThrows ==
    /\ at = "scan" /\ i <= Len(argv)
    /\ argv[i].kind = "throws"
    /\ at' = "terminated"
    /\ UNCHANGED <<given, argv, i, settings>>

ScanEnds ==
    /\ at = "scan" /\ i > Len(argv)
    /\ at' = IF Len(argv) = ARG_NUM THEN "run" ELSE "usage"
    /\ UNCHANGED <<given, argv, i, settings>>

ArgsNext == ParaArgs \/ ScanWord \/ ScanOption \/ ScanThrows \/ ScanEnds

-----------------------------------------------------------------------------
(* Properties                                                              *)

\* Every variable keeps its type; a setting is a byte.
ArgsTypeOK ==
    /\ argv \in Seq(Arguments) /\ Len(argv) <= MaxArgs
    /\ i \in 1..(MaxArgs + 1)
    /\ settings \in [Keys -> 0..255]
    /\ at \in {"start", "scan", "usage", "terminated", "run", "called"}

\* The number a command line gives for a key, without a scan: its last option counts.
Given(key) == {k \in 1..Len(given) : given[k].kind = "option" /\ given[k].key = key}
Meaning(key) ==
    IF Given(key) = {} THEN Default[key]
    ELSE given[CHOOSE k \in Given(key) : \A j \in Given(key) : j <= k].num

\* The sample that runs is the one named, with the numbers the command line gives, in
\* whatever order options come and however often the scan starts again.  A number that
\* is no byte sets something else: 256 asks for type 0.
RunsAsAsked ==
    at = "run" =>
        /\ argv = SubSeq(given, 1, ARG_NUM)
        /\ \A key \in Keys : Meaning(key) \in 0..255 => settings[key] = Meaning(key)

\* A sample runs exactly if the command line has two words, a command in second
\* place, and numbers std::stoi takes.  Every command line is decided.
Wellformed ==
    /\ Len(given) >= ARG_NUM /\ IsCommand(given[2])
    /\ \A k \in (ARG_NUM + 1)..Len(given) : given[k].kind = "option"

EveryLineDecided ==
    <>(at \in {"run", "usage", "terminated"} /\ (at = "run" <=> Wellformed))
=============================================================================
