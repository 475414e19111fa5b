------------------------------- MODULE Flags --------------------------------
(***************************************************************************)
(* Command-line flags, src/src/flags.cpp: every DEFINE_ macro constructs a *)
(* static Flag, whose constructor enters it into the registries (the      *)
(* instances list, the short and long name maps, the getopt option table  *)
(* and the short option string "codes"); Flag::parse then runs           *)
(* getopt_long over argv and dispatches each option it returns to the     *)
(* Flag's set, and finally moves the arguments that are not options to    *)
(* the front of argv.                                                     *)
(*                                                                         *)
(* getopt_long is the C library's, not code of this repository: it is     *)
(* modelled by what it returns for one option word.  An argument word is  *)
(* a token: a short option "-c", a long option "--name", or a plain word, *)
(* each optionally followed by one more word, which getopt takes as the   *)
(* option's argument when the option has one, and which is otherwise an   *)
(* argument that is not an option.  Names are the registry's or unknown.  *)
(***************************************************************************)
EXTENDS Integers, Sequences, SequencesExt

CONSTANTS
    Defs,        \* the DEFINE_ macros in order: long, short ("" for 0), kind, default
    UnknownName, \* a name no DEFINE_ declares
    ArgValues,   \* words an option argument may be
    NoValue,
    MaxArgv      \* tokens on the command line

Kinds == {"int", "string", "bool", "flag"}

ASSUME /\ \A i \in DOMAIN Defs : Defs[i].kind \in Kinds
       /\ MaxArgv \in Nat

\* has_arg of the Flag: DEFINE_flag declares a BoolFlag without one.
HasArg(kind) == kind # "flag"

\* atoi of an argument word.
Atoi(s) == IF s = "1" THEN 1 ELSE 0

\* StringFlag::set: a NULL optarg clears the value.
SetString(optarg) == IF optarg = NoValue THEN "" ELSE optarg

\* BoolFlag::set: no argument sets it; with one, only "true" and "false"
\* are taken, anything else is reported and leaves the value as it was.
SetBool(optarg, old) ==
    IF optarg = NoValue \/ optarg = "true" THEN TRUE
    ELSE IF optarg = "false" THEN FALSE ELSE old

\* The set method of the flag's class.
Set(kind, optarg, old) ==
    CASE kind = "int"    -> Atoi(optarg)
      [] kind = "string" -> SetString(optarg)
      [] OTHER           -> SetBool(optarg, old)

Shorts == {Defs[i].short : i \in DOMAIN Defs} \ {""}
Longs == {Defs[i].long : i \in DOMAIN Defs}

Tokens ==
    [k : {"short"}, name : Shorts \cup {UnknownName}, arg : {NoValue} \cup ArgValues]
    \cup [k : {"long"}, name : Longs \cup {UnknownName}, arg : {NoValue} \cup ArgValues]
    \cup [k : {"word"}, name : {""}, arg : {NoValue}]

VARIABLES
    reg,         \* the next DEFINE_ to construct
    shortNames,  \* Flag::short_names(): char -> flag
    longNames,   \* Flag::long_names(): name -> flag
    options,     \* Flag::options(): name, has_arg, val
    codes,       \* Flag::codes(): the short option string
    value,       \* the FLAGS_ variables
    argv,        \* the command line
    pos,         \* the next token getopt reads
    leftover,    \* the arguments that are not options, in order
    argc,        \* *p_argc after parse
    exitCode     \* NoValue unless parse called exit

vars == <<reg, shortNames, longNames, options, codes, value, argv, pos,
          leftover, argc, exitCode>>

Init ==
    /\ reg = 1
    /\ shortNames = <<>> /\ longNames = <<>>
    /\ options = <<>> /\ codes = <<>>
    /\ value = [i \in DOMAIN Defs |-> NoValue]
    /\ argv \in BoundedSeq(Tokens, MaxArgv)
    /\ pos = 1
    /\ leftover = <<>>
    /\ argc = NoValue
    /\ exitCode = NoValue

\* Mutant: the ':' after the short name of a flag with an argument left out.
ConstructNoColon ==
    /\ reg <= Len(Defs)
    /\ LET d == Defs[reg] IN
       /\ shortNames' = IF d.short # "" THEN (d.short :> reg) @@ shortNames ELSE shortNames
       /\ longNames' = (d.long :> reg) @@ longNames
       /\ options' = Append(options, [name |-> d.long, hasArg |-> HasArg(d.kind), val |-> d.short])
       /\ codes' = IF d.short # "" THEN Append(codes, d.short) ELSE codes
       /\ value' = [value EXCEPT ![reg] = d.dflt]
    /\ reg' = reg + 1
    /\ UNCHANGED <<argv, pos, leftover, argc, exitCode>>

\* Flag::Flag (with the subclass constructor storing the default): the
\* names enter the maps through safe_add, which reports a duplicate and
\* lets the later Flag win; the option entry is {ln, has_arg, 0, sn}; the
\* short name, followed by ':' when the flag has an argument, is appended
\* to codes.  Every name in the registries is isgraph.
Construct ==
    /\ reg <= Len(Defs)
    /\ LET d == Defs[reg] IN
       /\ shortNames' = IF d.short # "" THEN (d.short :> reg) @@ shortNames ELSE shortNames
       /\ longNames' = (d.long :> reg) @@ longNames
       /\ options' = Append(options, [name |-> d.long, hasArg |-> HasArg(d.kind), val |-> d.short])
       /\ codes' = IF d.short # ""
                   THEN codes \o <<d.short>> \o (IF HasArg(d.kind) THEN <<":">> ELSE <<>>)
                   ELSE codes
       /\ value' = [value EXCEPT ![reg] = d.dflt]
    /\ reg' = reg + 1
    /\ UNCHANGED <<argv, pos, leftover, argc, exitCode>>

\* getopt_long's reading of codes: whether short option c is declared, and
\* whether a ':' follows it.
Declared(c) == \E i \in DOMAIN codes : codes[i] = c
TakesArg(c) == \E i \in DOMAIN codes : codes[i] = c /\ i < Len(codes) /\ codes[i + 1] = ":"

\* What getopt_long returns for a token: the option's val (the short
\* name, "" for 0) and optarg, or "?" for an unknown option or a missing
\* argument; and the word after the option that is left as an argument.
Getopt(t) ==
    IF t.k = "short"
    THEN IF ~Declared(t.name) \/ (TakesArg(t.name) /\ t.arg = NoValue)
         THEN [ret |-> "?", optarg |-> NoValue, index |-> 0, rest |-> NoValue]
         ELSE [ret |-> t.name, index |-> 0,
               optarg |-> IF TakesArg(t.name) THEN t.arg ELSE NoValue,
               rest |-> IF TakesArg(t.name) THEN NoValue ELSE t.arg]
    ELSE LET ix == {i \in DOMAIN options : options[i].name = t.name} IN
         IF ix = {} \/ \E i \in ix : options[i].hasArg /\ t.arg = NoValue
         THEN [ret |-> "?", optarg |-> NoValue, index |-> 0, rest |-> NoValue]
         ELSE LET i == CHOOSE i \in ix : TRUE IN
              [ret |-> options[i].val, index |-> i,
               optarg |-> IF options[i].hasArg THEN t.arg ELSE NoValue,
               rest |-> IF options[i].hasArg THEN NoValue ELSE t.arg]

Parsing == reg > Len(Defs) /\ exitCode = NoValue /\ argc = NoValue

\* A plain word: GNU getopt_long permutes it behind the options.
Word ==
    /\ Parsing /\ pos <= Len(argv) /\ argv[pos].k = "word"
    /\ leftover' = Append(leftover, argv[pos])
    /\ pos' = pos + 1
    /\ UNCHANGED <<reg, shortNames, longNames, options, codes, value, argv, argc, exitCode>>

\* The following word of an option that takes none is an argument.
Rest(g) == IF g.rest = NoValue THEN leftover
           ELSE Append(leftover, [k |-> "word", name |-> "", arg |-> NoValue])

\* case 0: a long option without a short name; --help shows the help
\* and exits 0.
LongOnly ==
    /\ Parsing /\ pos <= Len(argv) /\ argv[pos].k # "word"
    /\ LET g == Getopt(argv[pos])
           f == longNames[options[g.index].name]
       IN  /\ g.ret = ""
           /\ value' = [value EXCEPT ![f] = Set(Defs[f].kind, g.optarg, @)]
           /\ exitCode' = IF Defs[f].long = "help" THEN 0 ELSE exitCode
           /\ leftover' = Rest(g)
    /\ pos' = pos + 1
    /\ UNCHANGED <<reg, shortNames, longNames, options, codes, argv, argc>>

\* case '?': an unknown option or a missing argument: help and exit(1).
Unknown ==
    /\ Parsing /\ pos <= Len(argv) /\ argv[pos].k # "word"
    /\ Getopt(argv[pos]).ret = "?"
    /\ exitCode' = 1
    /\ pos' = pos + 1
    /\ UNCHANGED <<reg, shortNames, longNames, options, codes, value, argv, leftover, argc>>

\* default: the short name (also what a long option with one returns)
\* is looked up in short_names and the Flag set.
ShortName ==
    /\ Parsing /\ pos <= Len(argv) /\ argv[pos].k # "word"
    /\ LET g == Getopt(argv[pos]) IN
       /\ g.ret \notin {"", "?"}
       /\ value' = IF g.ret \in DOMAIN shortNames
                   THEN [value EXCEPT ![shortNames[g.ret]] =
                           Set(Defs[shortNames[g.ret]].kind, g.optarg, @)]
                   ELSE value
       /\ leftover' = Rest(g)
    /\ pos' = pos + 1
    /\ UNCHANGED <<reg, shortNames, longNames, options, codes, argv, argc, exitCode>>

\* getopt_long returns -1: the remaining arguments are moved to the front
\* of argv and counted in *p_argc.
Done ==
    /\ Parsing /\ pos > Len(argv)
    /\ argc' = Len(leftover)
    /\ UNCHANGED <<reg, shortNames, longNames, options, codes, value, argv, pos,
                   leftover, exitCode>>

Next ==
    \/ Construct
    \/ Word \/ LongOnly \/ Unknown \/ ShortName \/ Done

Spec == Init /\ [][Next]_vars

-----------------------------------------------------------------------------
(* Properties *)

\* Whether token t names flag i, by its short or its long name.
Names(t, i) ==
    \/ t.k = "short" /\ Defs[i].short # "" /\ t.name = Defs[i].short
    \/ t.k = "long" /\ t.name = Defs[i].long

\* When parse returns, every FLAGS_ variable holds what the last option
\* naming it on the command line says (its argument, or true for a flag
\* without one), and its DEFINE_ default when none names it, whichever of
\* its names was used.
LastWins ==
    argc # NoValue =>
      \A i \in DOMAIN Defs :
        LET at == {j \in DOMAIN argv : Names(argv[j], i)}
            t  == argv[Max(at)]
        IN  value[i] = IF at = {} THEN Defs[i].dflt
                       ELSE Set(Defs[i].kind, IF HasArg(Defs[i].kind) THEN t.arg ELSE NoValue,
                                Defs[i].dflt)

====
