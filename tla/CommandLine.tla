---------------------------- MODULE CommandLine ----------------------------
(***************************************************************************)
(* From the arguments of myruntime to the request of a subcommand:          *)
(* src/main.go, Execute (src/cmd/root.go), and the beginnings of runCreate, *)
(* runStart, runState, runKill and runDelete, up to the first thing each of *)
(* them does with a container.                                              *)
(*                                                                         *)
(* Flags are read twice, by the global flag set and by the subcommand's.    *)
(* The flag package reads one argument at a time and stops for good at the  *)
(* first that is no flag: what follows are operands, whatever they look     *)
(* like.                                                                    *)
(***************************************************************************)
EXTENDS Integers, Sequences, SequencesExt

CONSTANTS
    Dashed,     \* Dashed[a]: what an argument a that begins with "-" spells: a
                \* flag's name and its value, <<>> without a "="
    Spelled     \* Spelled[a]: what an argument a spells to kill: a name, in
                \* capitals and without SIG, and the number it begins with

\* "--" ends the flags, and "init" has no dash.
ASSUME DashedAssumption == {"--", "init"} \cap DOMAIN Dashed = {}

VARIABLES
    line,       \* the arguments, os.Args[1:]
    asRoot,     \* the effective user is root
    phase,      \* what is done with them next
    sub,        \* whose flags are read: "global", or the subcommand's
    flags,      \* the values of those flags
    rest,       \* the arguments that are still to be read
    request     \* what the subcommand has been asked to do

lineVars == <<line, asRoot, phase, sub, flags, rest, request>>

\* The flags of every flag set, with their defaults.
Defaults ==
    [global |-> [debug |-> FALSE],
     create |-> [bundle |-> "", overlay |-> FALSE],
     start  |-> [detach |-> FALSE],
     state  |-> <<>>,
     kill   |-> <<>>,
     delete |-> [force |-> FALSE]]

Subcommands == DOMAIN Defaults \ {"global"}

\* A string flag takes the next argument when it has no "=".
StringFlags == {"bundle"}

\* What strconv.ParseBool takes for the value of any other flag, and what that
\* value is; without a "=" it is true.
Truths     == {"1", "t", "T", "TRUE", "true", "True"}
Falsehoods == {"0", "f", "F", "FALSE", "false", "False"}

IsBool(value) == value = <<>> \/ Head(value) \in Truths \cup Falsehoods
BoolOf(value) == value = <<>> \/ Head(value) \in Truths

SignalNumber ==
    [HUP |-> 1, INT |-> 2, QUIT |-> 3, ILL |-> 4, ABRT |-> 6, FPE |-> 8,
     KILL |-> 9, USR1 |-> 10, SEGV |-> 11, USR2 |-> 12, PIPE |-> 13,
     ALRM |-> 14, TERM |-> 15, CHLD |-> 17, CONT |-> 18, STOP |-> 19,
     TSTP |-> 20, TTIN |-> 21, TTOU |-> 22, WINCH |-> 28]

\* parseSignal: the number of a signal as a sequence, <<>> if a spells none.
\* Sscanf takes the number an argument begins with, and ignores the rest.
ParseSignal(a) ==
    IF a \notin DOMAIN Spelled THEN <<>>
    ELSE IF Spelled[a].name \in DOMAIN SignalNumber
         THEN <<SignalNumber[Spelled[a].name]>>
    ELSE Spelled[a].number

NoRequest == [op |-> "none", id |-> "", flags |-> <<>>, signal |-> 0]

----------------------------------------------------------------------------
\* The shell runs myruntime.  "init" is looked for before any flag.
Type(l, r) ==
    /\ line' = l
    /\ asRoot' = r
    /\ phase' = IF l # <<>> /\ Head(l) = "init" THEN "init" ELSE "flags"
    /\ sub' = "global"
    /\ flags' = Defaults.global
    /\ rest' = l
    /\ request' = NoRequest

\* The process exits: with the usage text, or with an error.
Exits(how) ==
    /\ phase' = how
    /\ UNCHANGED <<line, asRoot, sub, flags, rest, request>>

\* Nobody has put a configuration into the environment of such an "init".
InitByHand == phase = "init" /\ Exits("error")

----------------------------------------------------------------------------
(* One step of flag.Parse. *)

NextIsFlag == phase = "flags" /\ rest # <<>> /\ Head(rest) \in DOMAIN Dashed
NextFlag   == Dashed[Head(rest)]
IsDefined  == NextIsFlag /\ NextFlag.name \in DOMAIN flags

Set(v, taken) ==
    /\ flags' = [flags EXCEPT ![NextFlag.name] = v]
    /\ rest' = SubSeq(rest, taken + 1, Len(rest))
    /\ UNCHANGED <<line, asRoot, phase, sub, request>>

UndefinedFlag ==
    /\ NextIsFlag /\ ~IsDefined
    /\ Exits(IF NextFlag.name \in {"h", "help"} /\ sub = "global"
             THEN "usage" ELSE "error")

BoolFlag ==
    /\ IsDefined /\ NextFlag.name \notin StringFlags
    /\ IF IsBool(NextFlag.value) THEN Set(BoolOf(NextFlag.value), 1)
       ELSE Exits("error")

StringFlag ==
    /\ IsDefined /\ NextFlag.name \in StringFlags
    /\ IF NextFlag.value # <<>> THEN Set(Head(NextFlag.value), 1)
       ELSE IF Len(rest) > 1 THEN Set(rest[2], 2)
       ELSE Exits("error")

\* An argument that is no flag, or "--", which is dropped.
FlagsEnd ==
    /\ phase = "flags" /\ ~NextIsFlag
    /\ phase' = "operands"
    /\ rest' = IF rest # <<>> /\ Head(rest) = "--" THEN Tail(rest) ELSE rest
    /\ UNCHANGED <<line, asRoot, sub, flags, request>>

----------------------------------------------------------------------------
\* Variant that hands all of its arguments on, the subcommand with them.
DispatchWhole ==
    /\ phase = "operands" /\ sub = "global"
    /\ IF rest = <<>> THEN Exits("usage")
       ELSE IF Head(rest) \in {"help", "--help", "-h"} THEN Exits("usage")
       ELSE IF Head(rest) \in Subcommands /\ (asRoot \/ Head(rest) = "state")
       THEN /\ sub' = Head(rest)
            /\ flags' = Defaults[Head(rest)]
            /\ phase' = "flags"
            /\ UNCHANGED <<line, asRoot, rest, request>>
       ELSE Exits("error")

\* Execute's switch.  Only state works without root.
Dispatch ==
    /\ phase = "operands" /\ sub = "global"
    /\ IF rest = <<>> THEN Exits("usage")
       ELSE IF Head(rest) \in {"help", "--help", "-h"} THEN Exits("usage")
       ELSE IF Head(rest) \in Subcommands /\ (asRoot \/ Head(rest) = "state")
       THEN /\ sub' = Head(rest)
            /\ rest' = Tail(rest)
            /\ flags' = Defaults[Head(rest)]
            /\ phase' = "flags"
            /\ UNCHANGED <<line, asRoot, request>>
       ELSE Exits("error")

\* kill's second operand, SIGTERM without one.
Signal == IF Len(rest) >= 2 THEN ParseSignal(rest[2]) ELSE <<15>>

\* The first operand is the container's ID; others are ignored.
Operands ==
    /\ phase = "operands" /\ sub # "global"
    /\ IF \/ rest = <<>>
          \/ sub = "create" /\ flags.bundle = ""
          \/ sub = "kill" /\ Signal = <<>>
       THEN Exits("error")
       ELSE /\ request' = [op |-> sub, id |-> Head(rest), flags |-> flags,
                           signal |-> IF sub = "kill" THEN Head(Signal) ELSE 0]
            /\ phase' = "run"
            /\ UNCHANGED <<line, asRoot, sub, flags, rest>>

Parse ==
    \/ InitByHand \/ UndefinedFlag \/ BoolFlag \/ StringFlag \/ FlagsEnd
    \/ Dispatch \/ Operands

----------------------------------------------------------------------------
(* What a line says, without reading it from left to right. *)

\* The first k arguments are flags of set s, in the places F, and their values.
FlagPart(s, args, k, F) ==
    LET f(p)  == Dashed[args[p]]
        takes == {p \in F : f(p).name \in StringFlags /\ f(p).value = <<>>}
        taken == {p + 1 : p \in takes}
    IN  /\ \A p \in F : args[p] \in DOMAIN Dashed
        /\ \A p \in F : f(p).name \in DOMAIN Defaults[s]
        /\ \A p \in F : f(p).name \in StringFlags
                          \/ IsBool(f(p).value)
        /\ F \cup taken = 1..k /\ F \cap taken = {}
        /\ k < Len(args) => args[k + 1] \notin DOMAIN Dashed

\* The value that the last of several equal flags gives it.
ValueOf(s, args, F, name) ==
    LET named == {p \in F : Dashed[args[p]].name = name}
        last  == CHOOSE p \in named : \A q \in named : q <= p
        value == Dashed[args[last]].value
    IN  IF named = {} THEN Defaults[s][name]
        ELSE IF name \notin StringFlags THEN BoolOf(value)
        ELSE IF value # <<>> THEN Head(value)
        ELSE args[last + 1]

\* The flags of s that args begins with, and the operands after them: one
\* reading, or none.
Readings(s, args) ==
    LET after(k) == IF k < Len(args) /\ args[k + 1] = "--" THEN k + 2 ELSE k + 1
    IN  UNION {{[flags |-> [n \in DOMAIN Defaults[s] |-> ValueOf(s, args, F, n)],
                 operands |-> SubSeq(args, after(k), Len(args))] :
                    F \in {G \in SUBSET (1..k) : FlagPart(s, args, k, G)}} :
                k \in 0..Len(args)}

\* The subcommand's own part can be carried out, and as what.
Complete(op, s) ==
    /\ s.operands # <<>>
    /\ op = "create" => s.flags.bundle # ""
    /\ op = "kill" /\ Len(s.operands) > 1 => ParseSignal(s.operands[2]) # <<>>

RequestOf(op, s) ==
    [op |-> op, id |-> Head(s.operands), flags |-> s.flags,
     signal |-> IF op # "kill" THEN 0
                ELSE IF Len(s.operands) = 1 THEN 15
                ELSE Head(ParseSignal(s.operands[2]))]

RequestsOf(op, args) == {RequestOf(op, s) : s \in {t \in Readings(op, args) : Complete(op, t)}}

\* The requests that a line can be read as.
Requests(l, r) ==
    UNION {RequestsOf(Head(g.operands), Tail(g.operands)) :
             g \in {h \in Readings("global", l) :
                      /\ h.operands # <<>>
                      /\ Head(h.operands) \in Subcommands
                      /\ r \/ Head(h.operands) = "state"}}

\* A subcommand is run exactly when its line, read as flags, subcommand,
\* flags and operands, has a reading, and then with that reading's request
\* (root.go:24-57): an argument after the ID is never a flag, a string flag
\* takes the next argument whatever it looks like, and the last of several
\* equal flags counts.  The usage text describes other lines (UsageWorks).
FollowsGrammar ==
    /\ phase = "run" => Requests(line, asRoot) = {request}
    /\ phase \in {"error", "usage"} => Requests(line, asRoot) = {}

----------------------------------------------------------------------------
(* What the usage text says and the code does not do. *)

\* root types a line of the usage text: op, an ID, and k - 2 more arguments.
Typed(op, k) ==
    asRoot /\ Len(line) = k /\ line[1] = op /\ line[2] \notin DOMAIN Dashed \cup {"--"}

\* The line is not refused, and sets flag to v.
Obeys(flag, v) == phase # "error" /\ (phase = "run" => request.flags[flag] = v)

\* A flag may follow the container's ID: "create <id> --bundle <dir>"
\* (root.go:68, root.go:79, create.go:44, README.md:555), "start mybox --detach"
\* and "delete mybox --force" (README.md:564-565).
UsageWorks ==
    /\ Typed("create", 4) /\ line[3] = "--bundle" /\ line[4] # ""
         => Obeys("bundle", line[4])
    /\ Typed("start", 3) /\ line[3] = "--detach" => Obeys("detach", TRUE)
    /\ Typed("delete", 3) /\ line[3] = "--force" => Obeys("force", TRUE)
=============================================================================
