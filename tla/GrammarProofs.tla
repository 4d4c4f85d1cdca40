--------------------------- MODULE GrammarProofs ---------------------------
(***************************************************************************)
(* FollowsGrammar, for any arguments and flags: reading from left to right  *)
(* finds the one reading that a line has, or ends where it has none.        *)
(***************************************************************************)
EXTENDS InvocationProofs

----------------------------------------------------------------------------
(* FlagPart is two things: the first k arguments are flags with their       *)
(* values, and no flag follows.                                             *)

Takes(args, F) == {p \in F : /\ Dashed[args[p]].name \in StringFlags
                             /\ Dashed[args[p]].value = <<>>}
Taken(args, F) == {p + 1 : p \in Takes(args, F)}

IsFlagOf(s, a) ==
    /\ a \in DOMAIN Dashed
    /\ Dashed[a].name \in DOMAIN Defaults[s]
    /\ \/ Dashed[a].name \in StringFlags
       \/ IsBool(Dashed[a].value)

Prefix(s, args, k, F) ==
    /\ \A p \in F : IsFlagOf(s, args[p])
    /\ F \cup Taken(args, F) = 1..k /\ F \cap Taken(args, F) = {}

Stops(args, k) == k < Len(args) => args[k + 1] \notin DOMAIN Dashed

LEMMA FlagPartIs ==
    ASSUME NEW s, NEW args, NEW k, NEW F
    PROVE  FlagPart(s, args, k, F) <=> Prefix(s, args, k, F) /\ Stops(args, k)
BY DEF FlagPart, Prefix, Stops, Takes, Taken, IsFlagOf

\* The places of a flag's name, the last of them, and the value there.
Named(args, F, n) == {p \in F : Dashed[args[p]].name = n}
LastOf(S) == CHOOSE p \in S : \A q \in S : q <= p

ValueAt(args, p) ==
    LET f == Dashed[args[p]]
    IN  IF f.name \notin StringFlags THEN BoolOf(f.value)
        ELSE IF f.value # <<>> THEN Head(f.value)
        ELSE args[p + 1]

LEMMA ValueOfIs ==
    ASSUME NEW s, NEW args, NEW F, NEW n
    PROVE  ValueOf(s, args, F, n) =
             IF Named(args, F, n) = {} THEN Defaults[s][n]
             ELSE LET last == LastOf(Named(args, F, n))
                  IN  IF n \notin StringFlags THEN BoolOf(Dashed[args[last]].value)
                      ELSE IF Dashed[args[last]].value # <<>>
                      THEN Head(Dashed[args[last]].value)
                      ELSE args[last + 1]
BY DEF ValueOf, Named, LastOf

Values(s, args, F) == [n \in DOMAIN Defaults[s] |-> ValueOf(s, args, F, n)]

LEMMA NoFlagsYet ==
    ASSUME NEW s \in DOMAIN Defaults, NEW args
    PROVE  Prefix(s, args, 0, {}) /\ Values(s, args, {}) = Defaults[s]
<1>1. Prefix(s, args, 0, {})
  BY DEF Prefix, Taken, Takes
<1>2. \A n : ValueOf(s, args, {}, n) = Defaults[s][n]
  BY ValueOfIs DEF Named
<1>3. Defaults[s] = [n \in DOMAIN Defaults[s] |-> Defaults[s][n]]
  <2>1. Defaults["state"] = <<>> /\ Defaults["kill"] = <<>>
    BY DEF Defaults
  <2>2. <<>> = [n \in {} |-> <<>>[n]] /\ DOMAIN <<>> = {}
    OBVIOUS
  <2>3. /\ Defaults["global"] = [debug |-> FALSE]
        /\ Defaults["create"] = [bundle |-> "", overlay |-> FALSE]
        /\ Defaults["start"] = [detach |-> FALSE]
        /\ Defaults["delete"] = [force |-> FALSE]
    BY DEF Defaults
  <2>4. CASE s \in {"state", "kill"}
    BY <2>1, <2>2, <2>4
  <2>5. CASE s = "global"
    BY <2>3, <2>5
  <2>6. CASE s = "create"
    BY <2>3, <2>6
  <2>7. CASE s = "start"
    BY <2>3, <2>7
  <2>8. CASE s = "delete"
    BY <2>3, <2>8
  <2> QED
    BY <2>4, <2>5, <2>6, <2>7, <2>8, DefaultsFacts
<1> QED
  BY <1>1, <1>2, <1>3 DEF Values

LEMMA LastIs ==
    ASSUME NEW k \in Nat, NEW F \in SUBSET (1..k), NEW S \in SUBSET (F \cup {k + 1}),
           k + 1 \in S
    PROVE  LastOf(S) = k + 1
<1>1. ASSUME NEW q \in S PROVE q \in Int /\ q <= k + 1
  <2>1. CASE q \in F
    <3>1. q \in 1..k
      BY <2>1
    <3> QED
      BY <3>1
  <2>2. CASE q = k + 1
    BY <2>2
  <2> QED
    BY <2>1, <2>2
<1>2. LastOf(S) \in S /\ \A q \in S : q <= LastOf(S)
  BY <1>1 DEF LastOf
<1>3. LastOf(S) <= k + 1 /\ k + 1 <= LastOf(S) /\ LastOf(S) \in Int
  BY <1>1, <1>2
<1> QED
  BY <1>3

\* One more flag changes the value of its name, and of no other.
LEMMA OneMoreValue ==
    ASSUME NEW s \in DOMAIN Defaults, NEW args, NEW k \in Nat, NEW F \in SUBSET (1..k),
           Dashed[args[k + 1]].name \in DOMAIN Defaults[s]
    PROVE  Values(s, args, F \cup {k + 1})
             = [Values(s, args, F) EXCEPT ![Dashed[args[k + 1]].name] = ValueAt(args, k + 1)]
<1> DEFINE name == Dashed[args[k + 1]].name
           G == F \cup {k + 1}
<1>1. ASSUME NEW n, n # name
      PROVE  ValueOf(s, args, G, n) = ValueOf(s, args, F, n)
  <2>1. Named(args, G, n) = Named(args, F, n)
    BY <1>1 DEF Named
  <2> QED
    BY <2>1, ValueOfIs
<1>2. ValueOf(s, args, G, name) = ValueAt(args, k + 1)
  <2> DEFINE S == Named(args, G, name)
  <2>1. k + 1 \in S /\ S \subseteq G
    BY DEF Named
  <2>2. LastOf(S) = k + 1
    BY <2>1, LastIs
  <2> QED
    BY <2>1, <2>2, ValueOfIs DEF ValueAt
<1> QED
  BY <1>1, <1>2 DEF Values

----------------------------------------------------------------------------
(* The readings of args. *)

Reading(s, args, k, F) ==
    [flags |-> Values(s, args, F),
     operands |-> SubSeq(args, IF k < Len(args) /\ args[k + 1] = "--" THEN k + 2 ELSE k + 1,
                         Len(args))]

LEMMA ReadingsAre ==
    ASSUME NEW s, NEW args
    PROVE  \A r : r \in Readings(s, args) <=>
             \E k \in 0..Len(args) : \E F \in SUBSET (1..k) :
               FlagPart(s, args, k, F) /\ r = Reading(s, args, k, F)
<1>1. Readings(s, args) =
        UNION {{Reading(s, args, k, F) : F \in {G \in SUBSET (1..k) : FlagPart(s, args, k, G)}} :
                 k \in 0..Len(args)}
  BY DEF Readings, Reading, Values
<1> QED
  BY <1>1

\* F are the flags among the first k arguments, in every reading of args.
Begins(s, args, k, F) ==
    /\ Prefix(s, args, k, F)
    /\ \A m \in 0..Len(args) : \A G \in SUBSET (1..m) :
         FlagPart(s, args, m, G) => k <= m /\ G \cap (1..k) = F

LEMMA NothingRead ==
    ASSUME NEW s \in DOMAIN Defaults, NEW args
    PROVE  Begins(s, args, 0, {})
BY NoFlagsYet DEF Begins

\* What follows the first k arguments in a longer reading is a flag.
LEMMA FlagFollows ==
    ASSUME NEW s, NEW args \in Seq(STRING), NEW k \in 0..Len(args), NEW F \in SUBSET (1..k),
           Begins(s, args, k, F),
           NEW m \in 0..Len(args), NEW G \in SUBSET (1..m), FlagPart(s, args, m, G), k # m
    PROVE  /\ k < m /\ k + 1 \in G /\ G \cap (1..(k + 1)) = F \cup {k + 1}
           /\ IsFlagOf(s, args[k + 1])
           /\ k + 1 \in Takes(args, G) => k + 2 \in 1..m /\ k + 2 \notin G
<1>1. k <= m /\ G \cap (1..k) = F /\ k \in Nat /\ m \in Nat
  BY DEF Begins
<1>2. /\ \A p \in G : IsFlagOf(s, args[p])
      /\ G \cup Taken(args, G) = 1..m /\ G \cap Taken(args, G) = {}
  BY FlagPartIs DEF Prefix
<1>3. F \cup Taken(args, F) = 1..k
  BY DEF Begins, Prefix
<1>4. k + 1 \in 1..m
  BY <1>1
<1>5. k + 1 \notin Taken(args, G)
  <2> SUFFICES ASSUME k + 1 \in Taken(args, G) PROVE FALSE
    OBVIOUS
  <2>1. k \in Takes(args, G)
    BY <1>1 DEF Taken, Takes
  <2>2. k \in F
    BY <1>1, <2>1 DEF Takes
  <2>3. k + 1 \in Taken(args, F)
    BY <2>1, <2>2 DEF Taken, Takes
  <2> QED
    BY <1>1, <1>3, <2>3
<1>6. k + 1 \in G
  BY <1>2, <1>4, <1>5
<1>7. k + 1 \in Takes(args, G) => k + 2 \in Taken(args, G)
  BY <1>1 DEF Taken
<1> QED
  BY <1>1, <1>2, <1>6, <1>7

\* The end of the flags is the end of the only reading.
LEMMA OneReading ==
    ASSUME NEW s, NEW args \in Seq(STRING), NEW k \in 0..Len(args), NEW F \in SUBSET (1..k),
           Begins(s, args, k, F), Stops(args, k)
    PROVE  Readings(s, args) = {Reading(s, args, k, F)}
<1>1. FlagPart(s, args, k, F)
  BY FlagPartIs DEF Begins
<1>2. ASSUME NEW m \in 0..Len(args), NEW G \in SUBSET (1..m), FlagPart(s, args, m, G)
      PROVE  m = k /\ G = F
  <2>1. m = k
    <3> SUFFICES ASSUME k # m PROVE FALSE
      OBVIOUS
    <3>1. k < m /\ IsFlagOf(s, args[k + 1])
      BY <1>2, FlagFollows
    <3> QED
      BY <3>1 DEF IsFlagOf, Stops
  <2> QED
    BY <1>2, <2>1 DEF Begins
<1> QED
  BY <1>1, <1>2, ReadingsAre

\* A flag that this set has not, or has with no such value, or that has its
\* value missing, leaves no reading.
LEMMA NoReading ==
    ASSUME NEW s, NEW args \in Seq(STRING), NEW k \in 0..Len(args), NEW F \in SUBSET (1..k),
           Begins(s, args, k, F), ~Stops(args, k),
           IsFlagOf(s, args[k + 1]) =>
             Takes(args, {k + 1}) # {} /\ k + 1 = Len(args)
    PROVE  Readings(s, args) = {}
<1>1. ASSUME NEW m \in 0..Len(args), NEW G \in SUBSET (1..m), FlagPart(s, args, m, G)
      PROVE  FALSE
  <2>1. k # m
    BY <1>1, FlagPartIs
  <2>2. /\ k + 1 \in G /\ IsFlagOf(s, args[k + 1])
        /\ k + 1 \in Takes(args, G) => k + 2 \in 1..m /\ k + 2 \notin G
    BY <1>1, <2>1, FlagFollows
  <2>3. k + 1 \in Takes(args, G)
    BY <2>2 DEF Takes
  <2> QED
    BY <2>2, <2>3
<1> QED
  BY <1>1, ReadingsAre

\* A flag, by itself or with the argument that it takes, is read on.
LEMMA OneMoreFlag ==
    ASSUME NEW s, NEW args \in Seq(STRING), NEW k \in 0..Len(args), NEW F \in SUBSET (1..k),
           Begins(s, args, k, F), IsFlagOf(s, args[k + 1]), k < Len(args),
           NEW n \in {1, 2}, k + n <= Len(args),
           Takes(args, {k + 1}) = {} => n = 1, Takes(args, {k + 1}) # {} => n = 2
    PROVE  Begins(s, args, k + n, F \cup {k + 1})
<1> DEFINE H == F \cup {k + 1}
<1>1. /\ \A p \in F : IsFlagOf(s, args[p])
      /\ F \cup Taken(args, F) = 1..k /\ F \cap Taken(args, F) = {}
  BY DEF Begins, Prefix
<1>2. k \in Nat
  OBVIOUS
<1>3. Taken(args, H) = Taken(args, F) \cup (IF n = 2 THEN {k + 2} ELSE {})
  <2>1. Takes(args, H) = Takes(args, F) \cup Takes(args, {k + 1})
    BY DEF Takes
  <2>2. Takes(args, {k + 1}) = IF n = 2 THEN {k + 1} ELSE {}
    BY DEF Takes
  <2>3. Taken(args, H) = Taken(args, F) \cup {p + 1 : p \in Takes(args, {k + 1})}
    BY <2>1 DEF Taken
  <2>4. {p + 1 : p \in Takes(args, {k + 1})} = IF n = 2 THEN {k + 2} ELSE {}
    <3>1. k + 1 + 1 = k + 2
      BY <1>2
    <3>2. CASE n = 2
      BY <2>2, <3>1, <3>2
    <3>3. CASE n # 2
      BY <2>2, <3>3
    <3> QED
      BY <3>2, <3>3
  <2> QED
    BY <2>3, <2>4
<1>4. Prefix(s, args, k + n, H)
  <2>1. H \cup Taken(args, H) = 1..(k + n)
    <3>1. CASE n = 1
      BY <1>1, <1>2, <1>3, <3>1
    <3>2. CASE n = 2
      <4>1. H \cup Taken(args, H) = (1..k) \cup {k + 1, k + 2}
        BY <1>1, <1>3, <3>2
      <4>2. 1..(k + 2) = (1..k) \cup {k + 1, k + 2}
        BY <1>2
      <4> QED
        BY <3>2, <4>1, <4>2
    <3> QED
      BY <3>1, <3>2
  <2>2. H \cap Taken(args, H) = {}
    <3>1. \A p \in F \cup Taken(args, F) : p \in 1..k /\ p # k + 1 /\ p # k + 2
      BY <1>1, <1>2
    <3>2. k + 1 # k + 2
      BY <1>2
    <3> QED
      BY <1>1, <1>3, <3>1, <3>2
  <2> QED
    BY <1>1, <2>1, <2>2 DEF Prefix
<1>5. ASSUME NEW m \in 0..Len(args), NEW G \in SUBSET (1..m), FlagPart(s, args, m, G)
      PROVE  k + n <= m /\ G \cap (1..(k + n)) = H
  <2>1. k # m
    BY <1>5, FlagPartIs DEF Stops, IsFlagOf
  <2>2. /\ k < m /\ k + 1 \in G /\ G \cap (1..(k + 1)) = H
        /\ k + 1 \in Takes(args, G) => k + 2 \in 1..m /\ k + 2 \notin G
    BY <1>5, <2>1, FlagFollows
  <2>3. n = 2 => k + 1 \in Takes(args, G)
    BY <2>2 DEF Takes
  <2> QED
    BY <1>2, <2>2, <2>3
<1> QED
  BY <1>4, <1>5 DEF Begins

----------------------------------------------------------------------------
(* What a line is a request for, from the reading of its parts. *)

\* The arguments that the flags of sub are read from: the line, or what the
\* one reading of the line leaves after the subcommand.
IsRead(args) ==
    \/ sub = "global" /\ args = line
    \/ \E g : /\ Readings("global", line) = {g} /\ g.operands # <<>>
              /\ sub = Head(g.operands) /\ sub \in Subcommands
              /\ asRoot \/ sub = "state"
              /\ args = Tail(g.operands)

LEMMA RequestsOfSub ==
    ASSUME NEW args, IsRead(args), sub # "global"
    PROVE  Requests(line, asRoot) = RequestsOf(sub, args)
<1>1. PICK g : /\ Readings("global", line) = {g} /\ g.operands # <<>>
               /\ sub = Head(g.operands) /\ sub \in Subcommands
               /\ asRoot \/ sub = "state"
               /\ args = Tail(g.operands)
  BY DEF IsRead
<1>2. {h \in Readings("global", line) :
          /\ h.operands # <<>> /\ Head(h.operands) \in Subcommands
          /\ asRoot \/ Head(h.operands) = "state"} = {g}
  BY <1>1
<1> QED
  BY <1>1, <1>2 DEF Requests

LEMMA NoRequests ==
    ASSUME NEW l, NEW r,
           \A g \in Readings("global", l) :
             ~(/\ g.operands # <<>> /\ Head(g.operands) \in Subcommands
               /\ r \/ Head(g.operands) = "state")
    PROVE  Requests(l, r) = {}
BY DEF Requests

\* Without a reading of the flags there is nothing to carry out.
LEMMA NoReadingNoRequest ==
    ASSUME NEW args, IsRead(args), Readings(sub, args) = {}
    PROVE  Requests(line, asRoot) = {}
<1>1. CASE sub = "global"
  <2>1. args = line
    BY <1>1, DefaultsFacts DEF IsRead
  <2> QED
    BY <1>1, <2>1, NoRequests
<1>2. CASE sub # "global"
  BY <1>2, RequestsOfSub DEF RequestsOf
<1> QED
  BY <1>1, <1>2

\* The state of the reading, and the property.
ReadingOK ==
    /\ phase = "init" => line # <<>> /\ Head(line) = "init"
    /\ phase \in {"flags", "operands"} =>
         \E args \in Seq(STRING) :
           /\ IsRead(args)
           /\ phase = "flags" =>
                \E k \in 0..Len(args) : \E F \in SUBSET (1..k) :
                  /\ Begins(sub, args, k, F)
                  /\ rest = SubSeq(args, k + 1, Len(args))
                  /\ flags = Values(sub, args, F)
           /\ phase = "operands" =>
                Readings(sub, args) = {[flags |-> flags, operands |-> rest]}
    /\ FollowsGrammar

----------------------------------------------------------------------------
LEMMA Refuses ==
    ASSUME NEW how \in {"usage", "error"}, Exits(how), Requests(line, asRoot) = {}
    PROVE  ReadingOK'
<1>1. phase' = how /\ Requests(line', asRoot') = {}
  BY DEF Exits
<1> QED
  BY <1>1 DEF ReadingOK, FollowsGrammar

LEMMA InitHasNoRequest ==
    ASSUME LineOK, line # <<>>, Head(line) = "init"
    PROVE  Requests(line, asRoot) = {}
<1>1. line \in Seq(STRING) /\ 0 < Len(line) /\ line[1] = "init"
      /\ SubSeq(line, 1, Len(line)) = line
  BY SubSeqFull DEF LineOK
<1>2. Readings("global", line) = {Reading("global", line, 0, {})}
  <2>1. Begins("global", line, 0, {}) /\ Stops(line, 0)
    BY <1>1, NothingRead, DefaultsFacts, DashedAssumption DEF Stops
  <2>2. 0 \in 0..Len(line) /\ {} \in SUBSET (1..0)
    BY <1>1
  <2> QED
    BY <1>1, <2>1, <2>2, OneReading
<1>3. Reading("global", line, 0, {}).operands = line
  BY <1>1 DEF Reading
<1> QED
  BY <1>2, <1>3, NoRequests, DefaultsFacts

\* The beginning of a flag set's part.
LEMMA BeginsToRead ==
    ASSUME NEW args \in Seq(STRING), IsRead(args)', phase' = "flags", rest' = args,
           sub' \in DOMAIN Defaults, flags' = Defaults[sub']
    PROVE  ReadingOK'
<1>1. 0 \in 0..Len(args) /\ {} \in SUBSET (1..0) /\ SubSeq(args, 1, Len(args)) = args
  BY SubSeqFull
<1>2. Begins(sub', args, 0, {}) /\ Values(sub', args, {}) = Defaults[sub']
  BY NothingRead, NoFlagsYet
<1>3. FollowsGrammar'
  BY DEF FollowsGrammar
<1>4. \E k \in 0..Len(args) : \E F \in SUBSET (1..k) :
        /\ Begins(sub', args, k, F)
        /\ rest' = SubSeq(args, k + 1, Len(args))
        /\ flags' = Values(sub', args, F)
  BY <1>1, <1>2
<1> QED
  BY <1>3, <1>4 DEF ReadingOK

\* A step over a flag, of one argument or two, or an error at one.
LEMMA FlagIsRead ==
    ASSUME LineOK, ReadingOK, BoolFlag \/ StringFlag \/ UndefinedFlag
    PROVE  ReadingOK'
<1>1. phase = "flags" /\ rest # <<>> /\ Head(rest) \in DOMAIN Dashed
  BY DEF BoolFlag, StringFlag, UndefinedFlag, IsDefined, NextIsFlag
<1>a. PICK args \in Seq(STRING) :
        /\ IsRead(args)
        /\ \E k \in 0..Len(args) : \E F \in SUBSET (1..k) :
              /\ Begins(sub, args, k, F)
              /\ rest = SubSeq(args, k + 1, Len(args))
              /\ flags = Values(sub, args, F)
  BY <1>1 DEF ReadingOK
<1>b. PICK k \in 0..Len(args) : \E F \in SUBSET (1..k) :
        /\ Begins(sub, args, k, F)
        /\ rest = SubSeq(args, k + 1, Len(args))
        /\ flags = Values(sub, args, F)
  BY <1>a
<1>2. PICK F \in SUBSET (1..k) :
        /\ IsRead(args)
        /\ Begins(sub, args, k, F)
        /\ rest = SubSeq(args, k + 1, Len(args))
        /\ flags = Values(sub, args, F)
  BY <1>a, <1>b
<1>3. sub \in DOMAIN Defaults /\ DOMAIN flags = DOMAIN Defaults[sub]
  BY <1>1 DEF LineOK, FlagsOK
<1>4. /\ k < Len(args) /\ Head(rest) = args[k + 1] /\ Len(rest) = Len(args) - k
      /\ \A j \in 1..(Len(args) - k) : rest[j] = args[k + j]
      /\ \A n \in 0..(Len(args) - k) : SubSeq(rest, n + 1, Len(rest)) = SubSeq(args, k + n + 1, Len(args))
  BY <1>1, <1>2, Remainder
<1>5. NextFlag = Dashed[args[k + 1]] /\ args[k + 1] \in DOMAIN Dashed /\ ~Stops(args, k)
  BY <1>1, <1>4 DEF NextFlag, Stops
<1>6. \A how \in {"usage", "error"} : Exits(how) /\ Readings(sub, args) = {} => ReadingOK'
  BY <1>2, NoReadingNoRequest, Refuses
<1>12. Len(args) \in Nat /\ k \in Nat /\ Len(rest) \in Nat
  BY <1>4, LenProperties
<1>7. ASSUME NEW n \in {1, 2}, n <= Len(rest), IsFlagOf(sub, args[k + 1]),
             Takes(args, {k + 1}) = {} => n = 1, Takes(args, {k + 1}) # {} => n = 2,
             Set(ValueAt(args, k + 1), n)
      PROVE  ReadingOK'
  <2>1. k + n \in 0..Len(args) /\ k + n <= Len(args) /\ k \in Nat
    BY <1>4, <1>7, <1>12
  <2>2. Begins(sub, args, k + n, F \cup {k + 1})
    BY <1>2, <1>4, <1>7, <2>1, OneMoreFlag
  <2>3. rest' = SubSeq(args, (k + n) + 1, Len(args))
    <3>1. n \in 0..(Len(args) - k)
      BY <1>4, <1>7, <1>12
    <3>2. SubSeq(rest, n + 1, Len(rest)) = SubSeq(args, k + n + 1, Len(args))
      BY <1>4, <3>1
    <3> QED
      BY <1>7, <3>2 DEF Set
  <2>4. flags' = Values(sub, args, F \cup {k + 1})
    <3>1. Values(sub, args, F \cup {k + 1})
            = [Values(sub, args, F) EXCEPT ![Dashed[args[k + 1]].name] = ValueAt(args, k + 1)]
      BY <1>3, <1>7, <2>1, OneMoreValue DEF IsFlagOf
    <3>2. flags' = [flags EXCEPT ![Dashed[args[k + 1]].name] = ValueAt(args, k + 1)]
      BY <1>5, <1>7 DEF Set
    <3> QED
      BY <1>2, <3>1, <3>2
  <2>5. F \cup {k + 1} \in SUBSET (1..(k + n))
    BY <2>1
  <2>6. sub' = sub /\ phase' = "flags" /\ IsRead(args)'
    BY <1>1, <1>2, <1>7 DEF Set, IsRead
  <2>7. FollowsGrammar'
    BY <2>6 DEF FollowsGrammar
  <2>8. \E j \in 0..Len(args) : \E G \in SUBSET (1..j) :
          /\ Begins(sub', args, j, G)
          /\ rest' = SubSeq(args, j + 1, Len(args))
          /\ flags' = Values(sub', args, G)
    BY <2>1, <2>2, <2>3, <2>4, <2>5, <2>6
  <2> QED
    BY <2>6, <2>7, <2>8 DEF ReadingOK
<1>8. ASSUME IsFlagOf(sub, args[k + 1]) => Takes(args, {k + 1}) # {} /\ k + 1 = Len(args)
      PROVE  Readings(sub, args) = {}
  BY <1>2, <1>5, <1>8, NoReading
<1>9. CASE UndefinedFlag
  <2>1. ~IsFlagOf(sub, args[k + 1])
    BY <1>1, <1>3, <1>5, <1>9 DEF UndefinedFlag, IsDefined, NextIsFlag, IsFlagOf
  <2> QED
    BY <1>6, <1>8, <1>9, <2>1 DEF UndefinedFlag
<1>10. CASE BoolFlag
  <2>1. /\ NextFlag.name \in DOMAIN Defaults[sub] /\ NextFlag.name \notin StringFlags
        /\ Takes(args, {k + 1}) = {}
    BY <1>3, <1>5, <1>10 DEF BoolFlag, IsDefined, Takes
  <2>2. CASE IsBool(NextFlag.value)
    <3>1. Set(ValueAt(args, k + 1), 1)
      BY <1>5, <1>10, <2>1, <2>2 DEF BoolFlag, ValueAt
    <3>2. IsFlagOf(sub, args[k + 1])
      BY <1>5, <2>1, <2>2 DEF IsFlagOf
    <3>3. 1 <= Len(rest)
      BY <1>4, <1>12
    <3> QED
      BY <1>7, <2>1, <3>1, <3>2, <3>3
  <2>3. CASE ~IsBool(NextFlag.value)
    <3>1. ~IsFlagOf(sub, args[k + 1])
      BY <1>5, <2>1, <2>3 DEF IsFlagOf
    <3> QED
      BY <1>6, <1>8, <1>10, <2>3, <3>1 DEF BoolFlag
  <2> QED
    BY <2>2, <2>3
<1>11. CASE StringFlag
  <2>1. NextFlag.name \in DOMAIN Defaults[sub] /\ NextFlag.name \in StringFlags
    BY <1>3, <1>11 DEF StringFlag, IsDefined
  <2>2. IsFlagOf(sub, args[k + 1])
    BY <1>5, <2>1 DEF IsFlagOf
  <2>3. CASE NextFlag.value # <<>>
    <3>1. Set(ValueAt(args, k + 1), 1)
      BY <1>5, <1>11, <2>1, <2>3 DEF StringFlag, ValueAt
    <3>2. Takes(args, {k + 1}) = {}
      BY <1>5, <2>3 DEF Takes
    <3>3. 1 <= Len(rest)
      BY <1>4, <1>12
    <3> QED
      BY <1>7, <2>2, <3>1, <3>2, <3>3
  <2>4. CASE NextFlag.value = <<>>
    <3>1. Takes(args, {k + 1}) # {}
      BY <1>5, <2>1, <2>4 DEF Takes
    <3>2. CASE Len(rest) > 1
      <4>1. rest[2] = args[(k + 1) + 1] /\ 2 <= Len(rest)
        <5>1. 2 \in 1..(Len(args) - k) /\ (k + 1) + 1 = k + 2
          BY <1>4, <1>12, <3>2
        <5> QED
          BY <1>4, <1>12, <3>2, <5>1
      <4>2. Set(ValueAt(args, k + 1), 2)
        BY <1>5, <1>11, <2>1, <2>4, <3>2, <4>1 DEF StringFlag, ValueAt
      <4> QED
        BY <1>7, <2>2, <3>1, <4>1, <4>2
    <3>3. CASE ~(Len(rest) > 1)
      <4>1. k + 1 = Len(args)
        BY <1>4, <1>12, <3>3
      <4>2. Exits("error")
        BY <1>11, <2>4, <3>3 DEF StringFlag
      <4> QED
        BY <1>6, <1>8, <3>1, <4>1, <4>2
    <3> QED
      BY <3>2, <3>3
  <2> QED
    BY <2>3, <2>4
<1> QED
  BY <1>9, <1>10, <1>11

\* The end of the flags.
LEMMA FlagsAreRead ==
    ASSUME LineOK, ReadingOK, FlagsEnd
    PROVE  ReadingOK'
<1>1. phase = "flags" /\ phase' = "operands" /\ UNCHANGED <<line, asRoot, sub, flags>>
      /\ ~(rest # <<>> /\ Head(rest) \in DOMAIN Dashed)
      /\ rest' = IF rest # <<>> /\ Head(rest) = "--" THEN Tail(rest) ELSE rest
  BY DEF FlagsEnd, NextIsFlag
<1>a. PICK args \in Seq(STRING) :
        /\ IsRead(args)
        /\ \E k \in 0..Len(args) : \E F \in SUBSET (1..k) :
              /\ Begins(sub, args, k, F)
              /\ rest = SubSeq(args, k + 1, Len(args))
              /\ flags = Values(sub, args, F)
  BY <1>1 DEF ReadingOK
<1>b. PICK k \in 0..Len(args) : \E F \in SUBSET (1..k) :
        /\ Begins(sub, args, k, F)
        /\ rest = SubSeq(args, k + 1, Len(args))
        /\ flags = Values(sub, args, F)
  BY <1>a
<1>2. PICK F \in SUBSET (1..k) :
        /\ IsRead(args)
        /\ Begins(sub, args, k, F)
        /\ rest = SubSeq(args, k + 1, Len(args))
        /\ flags = Values(sub, args, F)
  BY <1>a, <1>b
<1>3. /\ (rest # <<>>) = (k # Len(args))
      /\ k < Len(args) => Head(rest) = args[k + 1] /\ Tail(rest) = SubSeq(args, k + 2, Len(args))
  <2>1. rest = SubSeq(args, k + 1, Len(args))
    BY <1>2
  <2>4. Len(rest) = Len(args) - k /\ rest \in Seq(STRING)
    BY <2>1, Remainder
  <2>5. Len(<<>>) = 0 /\ (rest # <<>> => Len(rest) # 0)
    BY <2>4, EmptySeq
  <2>6. Len(rest) # 0 <=> k # Len(args)
    BY <2>4
  <2>2. (rest # <<>>) = (k # Len(args))
    BY <2>5, <2>6
  <2>3. k < Len(args) => Head(rest) = args[k + 1] /\ Tail(rest) = SubSeq(args, k + 2, Len(args))
    BY <2>1, Remainder
  <2> QED
    BY <2>2, <2>3
<1>4. Stops(args, k)
  BY <1>1, <1>3 DEF Stops
<1>5. Readings(sub, args) = {Reading(sub, args, k, F)}
  BY <1>2, <1>4, OneReading
<1>6. Reading(sub, args, k, F) = [flags |-> flags', operands |-> rest']
  <2>1. rest # <<>> <=> k < Len(args)
    BY <1>3
  <2>2. CASE k < Len(args) /\ args[k + 1] = "--"
    BY <1>1, <1>2, <1>3, <2>1, <2>2 DEF Reading
  <2>3. CASE ~(k < Len(args) /\ args[k + 1] = "--")
    BY <1>1, <1>2, <1>3, <2>1, <2>3 DEF Reading
  <2> QED
    BY <2>2, <2>3
<1>7. IsRead(args)' /\ FollowsGrammar' /\ sub' = sub
  BY <1>1, <1>2 DEF IsRead, FollowsGrammar
<1> QED
  BY <1>1, <1>5, <1>6, <1>7 DEF ReadingOK

LEMMA RestIsASeq == LineOK => rest \in Seq(STRING)
BY Remainder DEF LineOK, Unread

\* The subcommand, and its request.
LEMMA DispatchReads ==
    ASSUME LineOK, ReadingOK, Dispatch
    PROVE  ReadingOK'
<1>1. phase = "operands" /\ sub = "global" /\ rest \in Seq(STRING)
  BY RestIsASeq DEF Dispatch
<1>2. Readings("global", line) = {[flags |-> flags, operands |-> rest]}
  BY <1>1, DefaultsFacts DEF ReadingOK, IsRead
<1>3. CASE rest # <<>> /\ Head(rest) \in Subcommands /\ (asRoot \/ Head(rest) = "state")
  <2>1. /\ sub' = Head(rest) /\ rest' = Tail(rest) /\ flags' = Defaults[Head(rest)]
        /\ phase' = "flags" /\ UNCHANGED <<line, asRoot>>
    BY <1>3, DefaultsFacts DEF Dispatch
  <2>2. PICK args \in Seq(STRING) : args = Tail(rest)
    <3>1. Tail(rest) \in Seq(STRING)
      BY <1>1, <1>3, HeadTailProperties
    <3> QED
      BY <3>1
  <2>3. sub' = Head(rest) /\ sub' \in Subcommands /\ sub' \in DOMAIN Defaults
        /\ (asRoot' \/ sub' = "state")
    BY <1>3, <2>1, DefaultsFacts
  <2>4. IsRead(args)'
    <3> DEFINE g == [flags |-> flags, operands |-> rest]
    <3>1. Readings("global", line') = {g} /\ g.operands # <<>> /\ sub' = Head(g.operands)
          /\ args = Tail(g.operands)
      BY <1>2, <1>3, <2>1, <2>2
    <3> HIDE DEF g
    <3> QED
      BY <2>3, <3>1 DEF IsRead
  <2> QED
    BY <2>1, <2>2, <2>3, <2>4, BeginsToRead
<1>4. CASE ~(rest # <<>> /\ Head(rest) \in Subcommands /\ (asRoot \/ Head(rest) = "state"))
  <2>1. Requests(line, asRoot) = {}
    BY <1>2, <1>4, NoRequests
  <2>2. \E how \in {"usage", "error"} : Exits(how)
    BY <1>4 DEF Dispatch
  <2> QED
    BY <2>1, <2>2, Refuses
<1> QED
  BY <1>3, <1>4

LEMMA OperandsRead ==
    ASSUME LineOK, ReadingOK, Operands
    PROVE  ReadingOK'
<1> DEFINE g == [flags |-> flags, operands |-> rest]
           Refused == \/ rest = <<>>
                      \/ sub = "create" /\ flags.bundle = ""
                      \/ sub = "kill" /\ Signal = <<>>
<1>1. phase = "operands" /\ sub # "global" /\ rest \in Seq(STRING)
  BY RestIsASeq DEF Operands
<1>2. PICK args \in Seq(STRING) : IsRead(args) /\ Readings(sub, args) = {g}
  BY <1>1 DEF ReadingOK
<1>3. Requests(line, asRoot) = {RequestOf(sub, t) : t \in {s \in {g} : Complete(sub, s)}}
  BY <1>1, <1>2, RequestsOfSub DEF RequestsOf
<1>4. g.operands = rest /\ g.flags = flags /\ (rest # <<>> => Len(rest) \in Nat \ {0})
  BY <1>1, EmptySeq
<1>5. rest # <<>> => IF Len(rest) >= 2 THEN Len(rest) > 1 /\ Len(rest) # 1
                     ELSE ~(Len(rest) > 1) /\ Len(rest) = 1
  <2>1. rest # <<>> => Len(rest) \in Nat \ {0}
    BY <1>1, EmptySeq
  <2>2. \A n \in Nat \ {0} : IF n >= 2 THEN n > 1 /\ n # 1 ELSE ~(n > 1) /\ n = 1
    OBVIOUS
  <2> QED
    BY <2>1, <2>2
<1>6. Signal = IF Len(rest) >= 2 THEN ParseSignal(rest[2]) ELSE <<15>>
  BY DEF Signal
<1>7. <<15>> # <<>> /\ Head(<<15>>) = 15
  OBVIOUS
<1>8. Complete(sub, g) <=> ~Refused
  BY <1>4, <1>5, <1>6, <1>7 DEF Complete
<1>9. CASE ~Complete(sub, g)
  <2>1. Requests(line, asRoot) = {}
    BY <1>3, <1>9
  <2>2. Exits("error")
    BY <1>8, <1>9 DEF Operands
  <2> QED
    BY <2>1, <2>2, Refuses
<1>10. CASE Complete(sub, g)
  <2>1. Requests(line, asRoot) = {RequestOf(sub, g)}
    BY <1>3, <1>10
  <2>2. /\ request' = [op |-> sub, id |-> Head(rest), flags |-> flags,
                       signal |-> IF sub = "kill" THEN Head(Signal) ELSE 0]
        /\ phase' = "run" /\ UNCHANGED <<line, asRoot>>
    BY <1>8, <1>10 DEF Operands
  <2>3. rest # <<>>
    BY <1>8, <1>10
  <2>4. (IF sub = "kill" THEN Head(Signal) ELSE 0)
          = IF sub # "kill" THEN 0
            ELSE IF Len(rest) = 1 THEN 15 ELSE Head(ParseSignal(rest[2]))
    BY <1>5, <1>6, <1>7, <2>3
  <2>5. request' = RequestOf(sub, g)
    BY <1>4, <2>2, <2>4 DEF RequestOf
  <2>6. Requests(line', asRoot') = {request'}
    BY <2>1, <2>2, <2>5
  <2> QED
    BY <2>2, <2>6 DEF ReadingOK, FollowsGrammar
<1> QED
  BY <1>9, <1>10

----------------------------------------------------------------------------
LEMMA InitReads == Init => ReadingOK
<1> SUFFICES ASSUME Init PROVE ReadingOK
  OBVIOUS
<1>1. line \in Seq(STRING) /\ rest = line /\ sub = "global" /\ flags = Defaults["global"]
  BY InitLineOK DEF Init, LineOK
<1>2. phase = IF line # <<>> /\ Head(line) = "init" THEN "init" ELSE "flags"
  BY DEF Init
<1>3. Begins("global", line, 0, {}) /\ Values("global", line, {}) = Defaults["global"]
  BY NothingRead, NoFlagsYet, DefaultsFacts
<1>4. 0 \in 0..Len(line) /\ {} \in SUBSET (1..0) /\ SubSeq(line, 0 + 1, Len(line)) = line
  BY <1>1, SubSeqFull
<1>5. \E k \in 0..Len(line) : \E F \in SUBSET (1..k) :
        /\ Begins(sub, line, k, F)
        /\ rest = SubSeq(line, k + 1, Len(line))
        /\ flags = Values(sub, line, F)
  BY <1>1, <1>3, <1>4
<1> QED
  BY <1>1, <1>2, <1>5 DEF ReadingOK, IsRead, FollowsGrammar

LEMMA NextReads == LineOK /\ ReadingOK /\ [Next]_vars => ReadingOK'
<1> SUFFICES ASSUME LineOK, ReadingOK, [Next]_vars PROVE ReadingOK'
  OBVIOUS
<1>1. CASE UNCHANGED lineVars
  BY <1>1 DEF lineVars, ReadingOK, IsRead, FollowsGrammar
<1>2. CASE TypeNext
  <2>1. PICK l \in Script[typed + 1] : Type(l, TRUE)
    BY <1>2 DEF TypeNext
  <2>2. /\ line' = l /\ rest' = l /\ sub' = "global" /\ flags' = Defaults["global"]
        /\ phase' = IF l # <<>> /\ Head(l) = "init" THEN "init" ELSE "flags"
    BY <2>1 DEF Type
  <2>3. l \in Seq(STRING)
    BY <2>2, NextLineOK DEF LineOK
  <2>4. CASE phase' = "init"
    BY <2>2, <2>4 DEF ReadingOK, FollowsGrammar
  <2>5. CASE phase' = "flags"
    BY <2>2, <2>3, <2>5, BeginsToRead, DefaultsFacts DEF IsRead
  <2> QED
    BY <2>2, <2>4, <2>5
<1>3. CASE Forget
  BY <1>3 DEF Forget, ReadingOK, FollowsGrammar
<1>4. CASE InitByHand
  BY <1>4, InitHasNoRequest, Refuses DEF InitByHand, ReadingOK
<1>5. CASE Parse
  BY <1>4, <1>5, FlagIsRead, FlagsAreRead, DispatchReads, OperandsRead DEF Parse
<1> QED
  BY <1>1, <1>2, <1>3, <1>5 DEF Next, Run, Exit, vars

\* A line that is a request for a subcommand is carried out as that request,
\* and only then (root.go:24-57): for lines of any length, with any arguments
\* and any values of flags.
THEOREM GrammarIsFollowed == Spec => []FollowsGrammar
<1>1. Init => LineOK /\ ReadingOK
  BY InitLineOK, InitReads
<1>2. LineOK /\ ReadingOK /\ [Next]_vars => (LineOK /\ ReadingOK)'
  BY NextLineOK, NextReads
<1>3. ReadingOK => FollowsGrammar
  BY DEF ReadingOK
<1> QED
  BY <1>1, <1>2, <1>3, PTL DEF Spec
=============================================================================
