-------------------------- MODULE InvocationProofs --------------------------
(***************************************************************************)
(* Theorems about Invocation, for any lines and any specs: the types, the   *)
(* limits in force (LimitsInForce) and the root of the child                *)
(* (RootAsVerified).                                                        *)
(***************************************************************************)
EXTENDS Invocation, SequenceTheorems, TLAPS

----------------------------------------------------------------------------
(* The command line: what is left of it, and the flags of a set. *)

Phases == {"idle", "init", "flags", "operands", "run", "usage", "error"}

\* The first k arguments have been read.
Unread(k) == rest = SubSeq(line, k + 1, Len(line))

FlagsOK(s, f) == /\ DOMAIN f = DOMAIN Defaults[s]
                 /\ s = "create" => f.overlay \in BOOLEAN

LineOK ==
    /\ phase \in Phases
    /\ typed \in 1..Len(Script)
    /\ line \in Seq(STRING)
    /\ \E k \in 0..Len(line) : Unread(k)
    /\ sub \in DOMAIN Defaults
    /\ phase \in {"flags", "operands"} => FlagsOK(sub, flags)
    /\ request.op \in Subcommands \cup {"none"}
    /\ phase = "run" => FlagsOK(request.op, request.flags)

LEMMA DefaultsFacts ==
    /\ DOMAIN Defaults = {"global", "create", "start", "state", "kill", "delete"}
    /\ Subcommands = {"create", "start", "state", "kill", "delete"}
    /\ \A s \in DOMAIN Defaults : FlagsOK(s, Defaults[s])
<1>1. DOMAIN Defaults = {"global", "create", "start", "state", "kill", "delete"}
  BY DEF Defaults
<1>2. Subcommands = {"create", "start", "state", "kill", "delete"}
  BY <1>1 DEF Subcommands
<1>3. Defaults["create"].overlay = FALSE
  BY DEF Defaults
<1> QED
  BY <1>1, <1>2, <1>3 DEF FlagsOK

\* What is left of l after k arguments, and after n more.
LEMMA Remainder ==
    ASSUME NEW l \in Seq(STRING), NEW k \in 0..Len(l), NEW r, r = SubSeq(l, k + 1, Len(l))
    PROVE  /\ r \in Seq(STRING)
           /\ Len(r) = Len(l) - k
           /\ \A j \in 1..(Len(l) - k) : r[j] = l[k + j]
           /\ \A n \in 0..(Len(l) - k) : SubSeq(r, n + 1, Len(r)) = SubSeq(l, k + n + 1, Len(l))
           /\ r = <<>> <=> k = Len(l)
           /\ k < Len(l) => Head(r) = l[k + 1] /\ Tail(r) = SubSeq(l, k + 2, Len(l))
<1>1. r \in Seq(STRING) /\ Len(r) = Len(l) - k
  OBVIOUS
<1>2. \A j \in 1..(Len(l) - k) : r[j] = l[k + j]
  OBVIOUS
<1>3. r = <<>> <=> k = Len(l)
  <2>1. Len(<<>>) = 0 /\ (r # <<>> => Len(r) # 0)
    BY <1>1, EmptySeq
  <2>2. Len(r) = 0 <=> k = Len(l)
    BY <1>1
  <2> QED
    BY <2>1, <2>2
<1>4. \A n \in 0..(Len(l) - k) : SubSeq(r, n + 1, Len(r)) = SubSeq(l, k + n + 1, Len(l))
  BY <1>1, <1>2
<1>5. k < Len(l) => Head(r) = l[k + 1]
  BY <1>1, <1>2
<1>6. k < Len(l) => Tail(r) = SubSeq(l, k + 2, Len(l))
  BY <1>1, <1>3, HeadTailOfSubSeq
<1> QED
  BY <1>1, <1>2, <1>3, <1>4, <1>5, <1>6

\* Reading n more arguments of the line.
LEMMA ReadOn ==
    ASSUME line \in Seq(STRING), NEW k \in 0..Len(line), Unread(k),
           NEW n \in 0..(Len(line) - k)
    PROVE  /\ Len(rest) = Len(line) - k
           /\ SubSeq(rest, n + 1, Len(rest)) = SubSeq(line, k + n + 1, Len(line))
           /\ rest = <<>> <=> k = Len(line)
           /\ k < Len(line) => Tail(rest) = SubSeq(line, k + 2, Len(line))
BY Remainder DEF Unread

LEMMA InitLineOK == Init => LineOK
<1> SUFFICES ASSUME Init PROVE LineOK
  OBVIOUS
<1>1. PICK l \in Script[1] : line = l /\ rest = l /\ phase \in {"init", "flags"}
  BY DEF Init
<1>2. 1 \in 1..Len(Script) /\ Script[1] \in SUBSET Seq(STRING)
  BY ScriptAssumption
<1>3. line \in Seq(STRING)
  BY <1>1, <1>2
<1>4. Unread(0)
  BY <1>1, <1>3, SubSeqFull DEF Unread
<1>5. typed = 1 /\ sub = "global" /\ flags = Defaults["global"] /\ request.op = "none"
  BY DEF Init, NoRequest
<1> QED
  BY <1>1, <1>2, <1>3, <1>4, <1>5, DefaultsFacts DEF LineOK, Phases

\* Any step of the command line, and Bundle's own.
LEMMA NextLineOK == LineOK /\ [Next]_vars => LineOK'
<1> SUFFICES ASSUME LineOK, [Next]_vars PROVE LineOK'
  OBVIOUS
<1>1. CASE UNCHANGED <<lineVars, typed>>
  BY <1>1 DEF LineOK, lineVars, Unread, FlagsOK
<1>2. CASE TypeNext
  <2>1. PICK l \in Script[typed + 1] : Type(l, TRUE)
    BY <1>2 DEF TypeNext
  <2>2. typed + 1 \in 1..Len(Script) /\ Script[typed + 1] \in SUBSET Seq(STRING)
    BY <1>2, ScriptAssumption DEF TypeNext, LineOK
  <2>3. l \in Seq(STRING) /\ l = SubSeq(l, 1, Len(l))
    BY <2>2, SubSeqFull
  <2>4. line' = l /\ rest' = l /\ sub' = "global" /\ flags' = Defaults["global"]
        /\ request'.op = "none" /\ phase' \in {"init", "flags"} /\ typed' = typed + 1
    BY <2>1, <1>2 DEF Type, NoRequest, TypeNext
  <2>5. Unread(0)'
    BY <2>3, <2>4 DEF Unread
  <2> QED
    BY <2>2, <2>3, <2>4, <2>5, DefaultsFacts DEF LineOK, Phases
<1>3. CASE Forget /\ UNCHANGED typed
  <2>1. Unread(0)'
    BY <1>3 DEF Forget, Unread
  <2>3. line' = <<>> /\ request' = NoRequest
    BY <1>3 DEF Forget
  <2>4. Len(line') = 0 /\ line' \in Seq(STRING)
    BY <2>3
  <2>5. request'.op = "none"
    BY <2>3 DEF NoRequest
  <2>2. 0 \in 0..Len(line') /\ line' \in Seq(STRING) /\ request'.op = "none"
    BY <2>4, <2>5
  <2> QED
    BY <1>3, <2>1, <2>2, DefaultsFacts DEF Forget, LineOK, Phases
<1>4. CASE Parse /\ UNCHANGED typed
  <2>1. PICK k \in 0..Len(line) : Unread(k)
    BY DEF LineOK
  <2>2. line \in Seq(STRING) /\ Len(line) \in Nat
    BY DEF LineOK
  <2>3. CASE \E how \in {"usage", "error"} : Exits(how)
    BY <2>1, <2>3, <1>4 DEF Exits, LineOK, Phases, Unread, FlagsOK
  <2>4. ASSUME NEW v, NEW n \in {1, 2}, Set(v, n), IsDefined, n <= Len(rest),
               sub = "create" /\ NextFlag.name = "overlay" => v \in BOOLEAN
        PROVE  LineOK'
    <3>1. k + n \in 0..Len(line) /\ Unread(k + n)'
      BY <2>1, <2>2, <2>4, ReadOn DEF Set, Unread
    <3>2. phase = "flags" /\ FlagsOK(sub, flags)
      BY <2>4 DEF IsDefined, NextIsFlag, LineOK
    <3>3. flags' = [flags EXCEPT ![NextFlag.name] = v]
      BY <2>4 DEF Set
    <3>4. FlagsOK(sub, flags')
      BY <3>2, <3>3, <2>4 DEF FlagsOK
    <3> QED
      BY <3>1, <3>2, <3>4, <2>4, <1>4 DEF Set, LineOK, FlagsOK
  <2>11. rest \in Seq(STRING) /\ (IsDefined => 1 <= Len(rest))
    BY <2>1, <2>2 DEF Unread, IsDefined, NextIsFlag
  <2>5. CASE BoolFlag
    <3>1. BoolOf(NextFlag.value) \in BOOLEAN /\ IsDefined
      BY <2>5 DEF BoolFlag, BoolOf
    <3>2. Set(BoolOf(NextFlag.value), 1) \/ Exits("error")
      BY <2>5 DEF BoolFlag
    <3> QED
      BY <2>3, <2>4, <2>11, <3>1, <3>2
  <2>6. CASE StringFlag
    <3>1. IsDefined /\ NextFlag.name # "overlay"
      BY <2>6 DEF StringFlag, StringFlags
    <3>2. Set(Head(NextFlag.value), 1) \/ Exits("error")
          \/ (Len(rest) > 1 /\ Set(rest[2], 2))
      BY <2>6 DEF StringFlag
    <3> QED
      BY <2>3, <2>4, <2>11, <3>1, <3>2
  <2>7. CASE FlagsEnd
    <3>1. k < Len(line) /\ rest # <<>> => Unread(k + 1)' \/ Unread(k)'
      BY <2>1, <2>2, <2>7, ReadOn DEF FlagsEnd, Unread
    <3>2. k = Len(line) \/ rest = <<>> => Unread(k)'
      BY <2>1, <2>2, <2>7, ReadOn DEF FlagsEnd, Unread
    <3> QED
      BY <2>1, <2>2, <2>7, <3>1, <3>2, <1>4 DEF FlagsEnd, LineOK, Phases, FlagsOK
  <2>8. CASE Dispatch /\ phase' = "flags"
    <3>4. rest # <<>> /\ rest' = Tail(rest)
      BY <2>8 DEF Dispatch, Exits
    <3>5. line' = line
      BY <2>8 DEF Dispatch, Exits
    <3>6. k < Len(line) /\ Tail(rest) = SubSeq(line, k + 2, Len(line))
      <4>1. 0 \in 0..(Len(line) - k) /\ k <= Len(line)
        BY <2>2
      <4>2. /\ rest = <<>> <=> k = Len(line)
            /\ k < Len(line) => Tail(rest) = SubSeq(line, k + 2, Len(line))
        BY <2>1, <2>2, <4>1, ReadOn
      <4> QED
        BY <2>2, <3>4, <4>1, <4>2
    <3>1. k < Len(line) /\ Unread(k + 1)'
      BY <3>4, <3>5, <3>6 DEF Unread
    <3>2. sub' \in DOMAIN Defaults /\ flags' = Defaults[sub'] /\ UNCHANGED <<line, request>>
      BY <2>8, DefaultsFacts DEF Dispatch, Exits
    <3> QED
      BY <2>2, <2>8, <3>1, <3>2, <1>4, DefaultsFacts DEF LineOK, Phases
  <2>9. CASE Operands /\ phase' = "run"
    <3>4. ~Exits("error")
      BY <2>9 DEF Exits
    <3>5. /\ request' = [op |-> sub, id |-> Head(rest), flags |-> flags,
                         signal |-> IF sub = "kill" THEN Head(Signal) ELSE 0]
          /\ UNCHANGED <<line, sub, flags, rest>>
      BY <2>9, <3>4 DEF Operands
    <3>1. request'.op = sub /\ request'.flags = flags /\ UNCHANGED <<line, sub, flags, rest>>
      BY <3>5
    <3>2. sub \in Subcommands
      BY <2>9, DefaultsFacts DEF Operands, LineOK
    <3> QED
      BY <2>1, <2>9, <3>1, <3>2, <1>4 DEF LineOK, Phases, Unread, FlagsOK, Operands
  <2> QED
    BY <1>4, <2>3, <2>5, <2>6, <2>7, <2>8, <2>9
       DEF Parse, InitByHand, UndefinedFlag, Dispatch, Operands
<1> QED
  BY <1>1, <1>2, <1>3, <1>4 DEF Next, Run, Exit, vars

----------------------------------------------------------------------------
(* The bundle: the specs in use, and who has verified what. *)

CompleteSpecs == {s \in Specs : /\ s.process # Nil /\ s.root # Nil
                                /\ s.process.args # <<>> /\ s.root.path # ""}

FileNames == {"cpu.max", "memory.max", "pids.max"}
Verifying == FileNames \cup {"cgroup", "save"}
Creating  == Verifying \cup {"root"}

CmdOK ==
    /\ cmd \in [pc : Creating \cup {"idle", "fork"}, overlay : BOOLEAN,
                spec : Specs \cup {Nil}, root : Roots \cup {<<>>}]
    /\ cmd.pc = "idle" => cmd = Idle
    /\ cmd.pc # "idle" => cmd.spec \in CompleteSpecs

\* The record comes last in create, and first in start.
RecordOK ==
    /\ record # Nil => record \in Records
    /\ record = Nil => child = Nil
    /\ cmd.pc \in Creating => record = Nil
    /\ cmd.pc = "fork" => record # Nil

\* A root that create has seen: the merged overlay, or else a path outside
\* of the overlay directories.
RootOK(root, overlay) ==
    /\ root \in Roots \ {<<>>} /\ root \in dirs
    /\ overlay <=> root = Layer("merged")

\* What is verified reaches the record, and from there the child.
VerifiedOK ==
    /\ cmd.pc \in Verifying =>
         /\ verified = [root |-> cmd.root, overlay |-> cmd.overlay,
                        resources |-> Resources(cmd.spec)]
         /\ RootOK(cmd.root, cmd.overlay)
    /\ record # Nil =>
         /\ verified.root = record.rootfs /\ verified.overlay = record.useOverlay
         /\ RootOK(record.rootfs, record.useOverlay)
         /\ IsResources(verified.resources)
    /\ child # Nil =>
         /\ child.root = record.rootfs /\ child.overlay = record.useOverlay
         /\ child.spec \in CompleteSpecs

Amounts == {NoMax} \cup (Nat \ {0})

IsLimits(l) ==
    /\ l = [f \in FileNames |-> l[f]]
    /\ l["cpu.max"] \in Amounts \X Amounts
    /\ l["memory.max"] \in Amounts
    /\ l["pids.max"] \in Amounts

\* What resources r ask of control file f, if anything, is what it holds.
InForce(r, f) == Text(r, f) # Nil => limits[f] = Text(r, f)

\* The control files that create has passed.
Passed(pc) == CASE pc = "memory.max" -> {"cpu.max"}
                [] pc = "pids.max" -> {"cpu.max", "memory.max"}
                [] pc = "save" -> FileNames
                [] OTHER -> {}

LimitsOK ==
    /\ limits # Nil => IsLimits(limits)
    /\ cmd.pc \in FileNames \cup {"save"} => IsLimits(limits)
    /\ \A f \in Passed(cmd.pc) : InForce(Resources(cmd.spec), f)
    /\ record # Nil => IsLimits(limits)
                       /\ \A f \in FileNames : InForce(verified.resources, f)

BundleOK == /\ config \in Specs \cup {Nil}
            /\ CmdOK /\ RecordOK /\ VerifiedOK /\ LimitsOK

IInv == LineOK /\ BundleOK

----------------------------------------------------------------------------
LEMMA FileFacts ==
    /\ ToSet(Files) = FileNames /\ Files[1] = "cpu.max"
    /\ \A f \in FileNames : After(f) \in FileNames \cup {"save"}
    /\ \A f \in FileNames : Passed(After(f)) = Passed(f) \cup {f}
<1>1. DOMAIN Files = {1, 2, 3}
  BY DEF Files
<1>2. Files[1] = "cpu.max" /\ Files[2] = "memory.max" /\ Files[3] = "pids.max"
  BY DEF Files
<1>3. ToSet(Files) = FileNames
  BY <1>1, <1>2 DEF ToSet, FileNames
<1>4. After("cpu.max") = "memory.max" /\ After("memory.max") = "pids.max"
      /\ After("pids.max") = "save"
  BY DEF After
<1>5. Passed("cpu.max") = {} /\ Passed("memory.max") = {"cpu.max"}
      /\ Passed("pids.max") = {"cpu.max", "memory.max"} /\ Passed("save") = FileNames
  BY DEF Passed
<1> QED
  BY <1>2, <1>3, <1>4, <1>5 DEF FileNames

\* A spec that LoadSpec returns is one of Specs, and complete.
LEMMA Loaded ==
    ASSUME config \in Specs \cup {Nil}, NEW dir, NEW s \in LoadSpec(dir)
    PROVE  s \in CompleteSpecs
BY DEF LoadSpec, CompleteSpecs

LEMMA SpecFacts ==
    ASSUME NEW s \in CompleteSpecs
    PROVE  /\ s \in Specs
           /\ IsResources(Resources(s))
           /\ RootFSPath(s, Dir) \in Roots \ {<<>>}
           /\ RootFSPath(s, Dir) # Layer("merged")
<1>1. s \in Specs /\ IsSpec(s) /\ s.root # Nil
  BY SpecAssumption DEF CompleteSpecs
<1>2. IsResources(Resources(s))
  <2>1. CASE s.linux = Nil
    BY <2>1 DEF Resources, IsResources
  <2>2. CASE s.linux # Nil
    BY <1>1, <2>2 DEF IsSpec, IsLinux, Resources
  <2> QED
    BY <2>1, <2>2
<1>3. RootFSPath(s, Dir) \in Roots
  BY <1>1 DEF Roots
<1>4. Len(RootFSPath(s, Dir)) \in {1, 2}
  BY DEF RootFSPath
<1>5. Len(Layer("merged")) = 3 /\ Len(<<>>) = 0
  BY DEF Layer
<1>6. RootFSPath(s, Dir) # <<>> /\ RootFSPath(s, Dir) # Layer("merged")
  BY <1>4, <1>5
<1> QED
  BY <1>1, <1>2, <1>3, <1>6

\* What is written into a control file is an amount, or "max".
LEMMA TextFacts ==
    ASSUME NEW r, IsResources(r)
    PROVE  /\ Text(r, "cpu.max") \in (Amounts \X Amounts) \cup {Nil}
           /\ Text(r, "memory.max") \in Amounts \cup {Nil}
           /\ Text(r, "pids.max") \in Amounts \cup {Nil}
<1>1. \A p, d : IsInt(p) /\ d \in Amounts => Positive(p, d) \in Amounts
  BY DEF Positive, Amounts, IsInt
<1>2. NoMax \in Amounts /\ 100000 \in Amounts /\ \A p : IsNat(p) => IsInt(p)
  BY DEF Amounts, IsNat, IsInt
<1>3. CASE r = Nil
  BY <1>3 DEF Text
<1>4. CASE r # Nil
  <2>1. Text(r, "cpu.max") \in (Amounts \X Amounts) \cup {Nil}
    <3>1. CASE r.cpu = Nil
      BY <1>4, <3>1 DEF Text
    <3>2. CASE r.cpu # Nil
      BY <1>1, <1>2, <1>4, <3>2 DEF Text, IsResources
    <3> QED
      BY <3>1, <3>2
  <2>2. Text(r, "memory.max") \in Amounts \cup {Nil}
    BY <1>1, <1>2, <1>4 DEF Text, IsResources
  <2>3. Text(r, "pids.max") \in Amounts \cup {Nil}
    BY <1>1, <1>2, <1>4 DEF Text, IsResources, IsInt
  <2> QED
    BY <2>1, <2>2, <2>3
<1> QED
  BY <1>3, <1>4

----------------------------------------------------------------------------
\* What a step does to the bundle.
LEMMA BundleStep ==
    ASSUME LineOK, [Next]_vars
    PROVE  \/ UNCHANGED bundleVars
           \/ request.flags.overlay \in BOOLEAN /\ CreateBegin(request)
           \/ StartBegin(request)
           \/ Step
           \/ Edit
           \/ Populate
<1>1. CASE Run /\ request.op = "create"
  BY <1>1 DEF Run, LineOK, FlagsOK
<1>2. CASE Run /\ request.op # "create"
  BY <1>2 DEF Run
<1> QED
  BY <1>1, <1>2 DEF Next, TypeNext, Exit, vars

LEMMA InitBundleOK == Init => BundleOK
<1> SUFFICES ASSUME Init PROVE BundleOK
  OBVIOUS
<1>1. config = Nil /\ record = Nil /\ child = Nil /\ limits = Nil /\ cmd = Idle
  BY DEF Init, BundleInit
<1>2. Idle \in [pc : {"idle"}, overlay : BOOLEAN, spec : {Nil}, root : {<<>>}]
  BY DEF Idle
<1>3. Passed("idle") = {}
  BY DEF Passed
<1>4. cmd.pc = "idle" /\ CmdOK
  BY <1>1, <1>2 DEF CmdOK, Idle
<1> QED
  BY <1>1, <1>3, <1>4 DEF BundleOK, RecordOK, VerifiedOK, LimitsOK, Creating,
     Verifying, FileNames

\* A command that has ended, or failed, before it saved anything.
LEMMA Ended ==
    ASSUME BundleOK, cmd' = Idle, config' = config, dirs \subseteq dirs',
           UNCHANGED <<record, child>>,
           limits' # Nil => IsLimits(limits'),
           record # Nil => UNCHANGED <<limits, verified>>
    PROVE  BundleOK'
<1>1. Idle \in [pc : {"idle"}, overlay : BOOLEAN, spec : {Nil}, root : {<<>>}]
  BY DEF Idle
<1>2. Passed("idle") = {} /\ Idle.pc = "idle"
  BY DEF Passed, Idle
<1>3. CmdOK' /\ cmd'.pc = "idle"
  BY <1>1, <1>2 DEF CmdOK
<1>4. RecordOK'
  BY <1>3 DEF BundleOK, RecordOK, Creating, Verifying, FileNames
<1>5. VerifiedOK'
  <2>1. record # Nil => dirs \subseteq dirs' /\ verified' = verified
    OBVIOUS
  <2> QED
    BY <1>3, <2>1 DEF BundleOK, RecordOK, VerifiedOK, RootOK, Verifying, FileNames
<1>6. LimitsOK'
  BY <1>2, <1>3 DEF BundleOK, LimitsOK, InForce, FileNames
<1> QED
  BY <1>3, <1>4, <1>5, <1>6 DEF BundleOK

LEMMA OwnerStep == BundleOK /\ (Edit \/ Populate) => BundleOK'
<1> SUFFICES ASSUME BundleOK, Edit \/ Populate PROVE BundleOK'
  OBVIOUS
<1>1. config' \in Specs \cup {Nil} /\ dirs \subseteq dirs'
      /\ UNCHANGED <<limits, record, cmd, child, verified>>
  BY DEF Edit, Populate, BundleOK
<1>2. CmdOK' /\ RecordOK' /\ LimitsOK'
  BY <1>1 DEF BundleOK, CmdOK, RecordOK, LimitsOK, InForce
<1>3. VerifiedOK'
  BY <1>1 DEF BundleOK, VerifiedOK, RootOK
<1> QED
  BY <1>1, <1>2, <1>3 DEF BundleOK

\* create and start, which begin with a load of config.json.
LEMMA CreateBegins ==
    ASSUME NEW r, r.flags.overlay \in BOOLEAN, BundleOK, CreateBegin(r)
    PROVE  BundleOK'
<1>1. UNCHANGED <<config, dirs, limits, record, child, verified>>
  BY DEF CreateBegin
<1>2. CASE End
  BY <1>1, <1>2, Ended DEF End, BundleOK, LimitsOK
<1>3. CASE ~End
  <2>1. PICK s \in LoadSpec(r.flags.bundle) :
          cmd' = [pc |-> "root", overlay |-> r.flags.overlay, spec |-> s, root |-> <<>>]
    BY <1>3 DEF CreateBegin
  <2>2. record = Nil
    BY <1>3 DEF CreateBegin
  <2>3. s \in CompleteSpecs /\ s \in Specs
    BY Loaded DEF BundleOK, CompleteSpecs
  <2>4. CmdOK' /\ cmd'.pc = "root"
    BY <2>1, <2>3 DEF CmdOK, Creating
  <2>5. RecordOK' /\ VerifiedOK'
    BY <1>1, <2>2, <2>4 DEF BundleOK, RecordOK, VerifiedOK, Verifying, FileNames
  <2>6. LimitsOK'
    BY <1>1, <2>2, <2>4 DEF BundleOK, LimitsOK, Passed, FileNames
  <2> QED
    BY <1>1, <2>4, <2>5, <2>6 DEF BundleOK
<1> QED
  BY <1>2, <1>3

LEMMA StartBegins ==
    ASSUME NEW r, BundleOK, StartBegin(r)
    PROVE  BundleOK'
<1>1. UNCHANGED <<config, dirs, limits, record, child, verified>>
  BY DEF StartBegin
<1>2. CASE End
  BY <1>1, <1>2, Ended DEF End, BundleOK, LimitsOK
<1>3. CASE ~End
  <2>1. PICK s \in LoadSpec(record.bundle) : cmd' = [Idle EXCEPT !.pc = "fork", !.spec = s]
    BY <1>3 DEF StartBegin
  <2>2. record # Nil
    BY <1>3 DEF StartBegin
  <2>3. s \in CompleteSpecs /\ s \in Specs
    BY Loaded DEF BundleOK, CompleteSpecs
  <2>4. cmd' = [pc |-> "fork", overlay |-> FALSE, spec |-> s, root |-> <<>>]
    BY <2>1 DEF Idle
  <2>5. CmdOK' /\ cmd'.pc = "fork"
    BY <2>3, <2>4 DEF CmdOK
  <2>6. RecordOK' /\ VerifiedOK'
    BY <1>1, <2>2, <2>5 DEF BundleOK, RecordOK, VerifiedOK, RootOK, Creating,
       Verifying, FileNames
  <2>7. LimitsOK'
    BY <1>1, <2>2, <2>5 DEF BundleOK, LimitsOK, InForce, Passed, FileNames
  <2> QED
    BY <1>1, <2>5, <2>6, <2>7 DEF BundleOK
<1> QED
  BY <1>2, <1>3

\* create has seen its root.
LEMMA VerifiesRoot ==
    ASSUME NEW path, BundleOK, cmd.pc = "root", Verified(path),
           UNCHANGED <<config, limits, record, child>>,
           path \in Roots \ {<<>>}, path \in dirs',
           cmd.overlay <=> path = Layer("merged")
    PROVE  BundleOK'
<1>1. record = Nil /\ child = Nil
  BY DEF BundleOK, RecordOK, Creating
<1>2. cmd' = [cmd EXCEPT !.pc = "cgroup", !.root = path]
  BY DEF Verified
<1>3. /\ CmdOK' /\ cmd'.pc = "cgroup" /\ cmd'.root = path
      /\ cmd'.overlay = cmd.overlay /\ cmd'.spec = cmd.spec
  BY <1>2 DEF BundleOK, CmdOK, Creating, Verifying
<1>4. RecordOK'
  BY <1>1, <1>3 DEF RecordOK, Creating, Verifying
<1>5. VerifiedOK'
  BY <1>1, <1>3 DEF Verified, VerifiedOK, RootOK
<1>6. LimitsOK'
  BY <1>1, <1>3 DEF BundleOK, LimitsOK, Passed, FileNames
<1> QED
  BY <1>3, <1>4, <1>5, <1>6 DEF BundleOK

LEMMA CreateFindsRoot == BundleOK /\ (CreateRootFS \/ CreateOverlay) => BundleOK'
<1> SUFFICES ASSUME BundleOK, CreateRootFS \/ CreateOverlay PROVE BundleOK'
  OBVIOUS
<1>1. cmd.pc = "root" /\ record = Nil /\ UNCHANGED <<config, limits, record, child>>
  BY DEF CreateRootFS, CreateOverlay, BundleOK, RecordOK, Creating
<1>2. dirs \subseteq dirs'
  BY DEF CreateRootFS, CreateOverlay
<1>3. CASE End
  BY <1>1, <1>2, <1>3, Ended DEF End, BundleOK, LimitsOK
<1>4. CASE CreateRootFS /\ ~End
  <2>1. Verified(RootFSPath(cmd.spec, Dir)) /\ RootFSPath(cmd.spec, Dir) \in dirs'
    BY <1>4 DEF CreateRootFS
  <2>2. cmd.spec \in CompleteSpecs
    BY <1>1 DEF BundleOK, CmdOK
  <2>3. /\ RootFSPath(cmd.spec, Dir) \in Roots \ {<<>>}
        /\ RootFSPath(cmd.spec, Dir) # Layer("merged") /\ cmd.overlay = FALSE
    BY <1>4, <2>2, SpecFacts DEF CreateRootFS, BundleOK, CmdOK
  <2> QED
    BY <1>1, <2>1, <2>3, VerifiesRoot
<1>5. CASE CreateOverlay /\ ~End
  <2>1. Verified(Layer("merged")) /\ dirs' = dirs \cup Prepared(3) /\ cmd.overlay
    BY <1>5 DEF CreateOverlay
  <2>2. Layer("merged") \in dirs'
    BY <2>1 DEF Prepared
  <2>3. Layer("merged") \in Roots \ {<<>>}
    <3>1. Len(Layer("merged")) = 3 /\ Len(<<>>) = 0
      BY DEF Layer
    <3> QED
      BY <3>1 DEF Roots
  <2> QED
    BY <1>1, <2>1, <2>2, <2>3, VerifiesRoot
<1> QED
  BY <1>3, <1>4, <1>5

LEMMA CreateMakesCgroup == BundleOK /\ CreateCgroup => BundleOK'
<1> SUFFICES ASSUME BundleOK, CreateCgroup PROVE BundleOK'
  OBVIOUS
<1>1. /\ cmd.pc = "cgroup" /\ record = Nil /\ child = Nil
      /\ UNCHANGED <<config, dirs, record, child, verified>>
  BY DEF CreateCgroup, BundleOK, RecordOK, Creating, Verifying
<1>2. CASE End
  <2>1. cmd' # [cmd EXCEPT !.pc = "cpu.max"]
    BY <1>2 DEF End, BundleOK, CmdOK, Idle
  <2>2. UNCHANGED limits
    BY <2>1, FileFacts DEF CreateCgroup
  <2> QED
    BY <1>1, <1>2, <2>2, Ended DEF End, BundleOK, LimitsOK
<1>3. CASE ~End
  <2>1. /\ cmd' = [cmd EXCEPT !.pc = "cpu.max"]
        /\ limits' = IF limits # Nil THEN limits
                     ELSE [f \in FileNames |->
                             IF f = "cpu.max" THEN <<NoMax, 100000>> ELSE NoMax]
    BY <1>3, FileFacts DEF CreateCgroup
  <2>2. /\ CmdOK' /\ cmd'.pc = "cpu.max" /\ cmd'.root = cmd.root
        /\ cmd'.overlay = cmd.overlay /\ cmd'.spec = cmd.spec
    BY <1>1, <2>1 DEF BundleOK, CmdOK, Creating, Verifying, FileNames
  <2>3. IsLimits(limits')
    BY <2>1 DEF BundleOK, LimitsOK, IsLimits, FileNames, Amounts
  <2>4. RecordOK' /\ VerifiedOK'
    BY <1>1, <2>2 DEF BundleOK, RecordOK, VerifiedOK, RootOK, Verifying
  <2>5. LimitsOK'
    BY <1>1, <2>2, <2>3 DEF LimitsOK, Passed
  <2> QED
    BY <1>1, <2>2, <2>4, <2>5 DEF BundleOK
<1> QED
  BY <1>2, <1>3

LEMMA CreateWritesLimit == BundleOK /\ WriteLimit => BundleOK'
<1> SUFFICES ASSUME BundleOK, WriteLimit PROVE BundleOK'
  OBVIOUS
<1> DEFINE text == Text(Resources(cmd.spec), cmd.pc)
<1>1. /\ cmd.pc \in FileNames /\ record = Nil /\ child = Nil
      /\ UNCHANGED <<config, dirs, record, child, verified>>
  BY FileFacts DEF WriteLimit, BundleOK, RecordOK, Creating, Verifying
<1>2. IsLimits(limits)
  BY <1>1 DEF BundleOK, LimitsOK
<1>3. CASE End /\ UNCHANGED limits
  BY <1>1, <1>2, <1>3, Ended DEF End
<1>4. CASE ~(End /\ UNCHANGED limits)
  <2>1. /\ limits' = IF text = Nil THEN limits ELSE [limits EXCEPT ![cmd.pc] = text]
        /\ cmd' = [cmd EXCEPT !.pc = After(cmd.pc)]
    BY <1>4 DEF WriteLimit
  <2>2. After(cmd.pc) \in FileNames \cup {"save"}
    BY <1>1, FileFacts
  <2>3. /\ CmdOK' /\ cmd'.pc = After(cmd.pc) /\ cmd'.root = cmd.root
        /\ cmd'.overlay = cmd.overlay /\ cmd'.spec = cmd.spec
    BY <1>1, <2>1, <2>2 DEF BundleOK, CmdOK, Creating, Verifying, FileNames
  <2>4. cmd.spec \in CompleteSpecs /\ IsResources(Resources(cmd.spec))
    BY <1>1, SpecFacts DEF BundleOK, CmdOK, FileNames
  <2>5. IsLimits(limits')
    <3>1. CASE text = Nil
      BY <1>2, <2>1, <3>1
    <3>2. CASE text # Nil
      <4>1. limits' = [limits EXCEPT ![cmd.pc] = text]
        BY <2>1, <3>2
      <4>2. /\ cmd.pc = "cpu.max" => text \in Amounts \X Amounts
            /\ cmd.pc \in {"memory.max", "pids.max"} => text \in Amounts
        BY <2>4, <3>2, TextFacts
      <4> QED
        BY <1>1, <1>2, <4>1, <4>2 DEF IsLimits, FileNames
    <3> QED
      BY <3>1, <3>2
  <2>6. \A f \in Passed(cmd.pc) \cup {cmd.pc} :
          Text(Resources(cmd.spec), f) # Nil => limits'[f] = Text(Resources(cmd.spec), f)
    <3> SUFFICES ASSUME NEW f \in Passed(cmd.pc) \cup {cmd.pc},
                        Text(Resources(cmd.spec), f) # Nil
                 PROVE  limits'[f] = Text(Resources(cmd.spec), f)
      OBVIOUS
    <3>1. f \in FileNames
      BY <1>1 DEF Passed, FileNames
    <3>2. f # cmd.pc => limits[f] = Text(Resources(cmd.spec), f)
      BY DEF BundleOK, LimitsOK, InForce
    <3> QED
      BY <1>2, <2>1, <3>1, <3>2 DEF IsLimits
  <2>7. Passed(cmd'.pc) = Passed(cmd.pc) \cup {cmd.pc}
    BY <1>1, <2>3, FileFacts
  <2>8. LimitsOK'
    BY <1>1, <2>3, <2>5, <2>6, <2>7 DEF LimitsOK, InForce
  <2>9. RecordOK' /\ VerifiedOK'
    BY <1>1, <2>2, <2>3 DEF BundleOK, RecordOK, VerifiedOK, RootOK, Verifying, Creating,
       FileNames
  <2> QED
    BY <1>1, <2>3, <2>8, <2>9 DEF BundleOK
<1> QED
  BY <1>3, <1>4

LEMMA CreateSaves == BundleOK /\ CreateSave => BundleOK'
<1> SUFFICES ASSUME BundleOK, CreateSave PROVE BundleOK'
  OBVIOUS
<1>1. /\ cmd.pc = "save" /\ record = Nil /\ child = Nil /\ cmd' = Idle
      /\ UNCHANGED <<config, dirs, limits, child, verified>>
  BY DEF CreateSave, End, BundleOK, RecordOK, Creating, Verifying
<1>2. CASE record' = record
  BY <1>1, <1>2, Ended DEF BundleOK, LimitsOK
<1>3. CASE record' # record
  <2>1. record' = [status |-> "created", bundle |-> Dir, rootfs |-> cmd.root,
                   useOverlay |-> cmd.overlay]
    BY <1>3 DEF CreateSave
  <2>2. cmd.root \in Roots /\ cmd.overlay \in BOOLEAN /\ cmd.spec \in CompleteSpecs
    BY <1>1 DEF BundleOK, CmdOK, VerifiedOK, RootOK, Verifying
  <2>3. record' \in Records
    BY <2>1, <2>2 DEF Records
  <2>4. Idle \in [pc : {"idle"}, overlay : BOOLEAN, spec : {Nil}, root : {<<>>}]
    BY DEF Idle
  <2>5. CmdOK' /\ cmd'.pc = "idle"
    BY <1>1, <2>4 DEF CmdOK
  <2>6. RecordOK'
    BY <1>1, <2>3, <2>5, NilAssumption DEF RecordOK, Creating, Verifying, FileNames
  <2>7. VerifiedOK'
    <3>1. /\ verified' = [root |-> cmd.root, overlay |-> cmd.overlay,
                          resources |-> Resources(cmd.spec)]
          /\ RootOK(cmd.root, cmd.overlay)
      BY <1>1 DEF BundleOK, VerifiedOK, Verifying
    <3>2. IsResources(verified'.resources)
      BY <2>2, <3>1, SpecFacts
    <3> QED
      BY <1>1, <2>1, <2>5, <3>1, <3>2 DEF VerifiedOK, RootOK, Verifying, FileNames
  <2>8. LimitsOK'
    <3>1. verified'.resources = Resources(cmd.spec)
      BY <1>1 DEF BundleOK, VerifiedOK, Verifying
    <3>2. IsLimits(limits) /\ \A f \in FileNames : InForce(Resources(cmd.spec), f)
      BY <1>1 DEF BundleOK, LimitsOK, Passed
    <3> QED
      BY <1>1, <2>5, <3>1, <3>2 DEF LimitsOK, InForce, Passed, FileNames
  <2> QED
    BY <1>1, <2>5, <2>6, <2>7, <2>8 DEF BundleOK
<1> QED
  BY <1>2, <1>3

LEMMA StartForks == BundleOK /\ StartFork => BundleOK'
<1> SUFFICES ASSUME BundleOK, StartFork PROVE BundleOK'
  OBVIOUS
<1>1. /\ cmd.pc = "fork" /\ record # Nil /\ record \in Records /\ cmd' = Idle
      /\ UNCHANGED <<config, dirs, limits, verified>>
  BY DEF StartFork, End, BundleOK, RecordOK
<1>2. CASE UNCHANGED <<child, record>>
  BY <1>1, <1>2, Ended DEF BundleOK, LimitsOK
<1>3. CASE ~UNCHANGED <<child, record>>
  <2>1. /\ record' \in {record, [record EXCEPT !.status = "running"]}
        /\ child'.root = EffectiveRoot /\ child'.overlay = record.useOverlay
        /\ child'.spec = cmd.spec
    BY <1>3 DEF StartFork
  <2>2. record.rootfs # <<>> /\ EffectiveRoot = record.rootfs /\ cmd.spec \in CompleteSpecs
    BY <1>1 DEF BundleOK, VerifiedOK, RootOK, CmdOK, EffectiveRoot
  <2>3. record' \in Records /\ record'.rootfs = record.rootfs
        /\ record'.useOverlay = record.useOverlay
    BY <1>1, <2>1 DEF Records
  <2>4. Idle \in [pc : {"idle"}, overlay : BOOLEAN, spec : {Nil}, root : {<<>>}]
    BY DEF Idle
  <2>5. CmdOK' /\ cmd'.pc = "idle"
    BY <1>1, <2>4 DEF CmdOK
  <2>6. record' # Nil
    BY <2>3, NilAssumption
  <2>7. RecordOK'
    BY <2>3, <2>5, <2>6 DEF RecordOK, Creating, Verifying, FileNames
  <2>8. VerifiedOK'
    BY <1>1, <2>1, <2>2, <2>3, <2>5 DEF BundleOK, VerifiedOK, RootOK, Verifying, FileNames
  <2>9. LimitsOK'
    BY <1>1, <2>5 DEF BundleOK, LimitsOK, InForce, Passed, FileNames
  <2> QED
    BY <1>1, <2>5, <2>7, <2>8, <2>9 DEF BundleOK
<1> QED
  BY <1>2, <1>3

LEMMA NextBundleOK == IInv /\ [Next]_vars => BundleOK'
<1> SUFFICES ASSUME IInv, [Next]_vars PROVE BundleOK'
  OBVIOUS
<1>1. LineOK /\ BundleOK
  BY DEF IInv
<1>2. CASE UNCHANGED bundleVars
  BY <1>1, <1>2 DEF bundleVars, BundleOK, CmdOK, RecordOK, VerifiedOK, RootOK, LimitsOK, InForce
<1>3. CASE Step
  BY <1>1, <1>3, CreateFindsRoot, CreateMakesCgroup, CreateWritesLimit, CreateSaves,
     StartForks DEF Step
<1> QED
  BY <1>1, <1>2, <1>3, BundleStep, CreateBegins, StartBegins, OwnerStep

\* The invariant of lines and bundle, which the theorems below follow from.
LEMMA Invariance == Spec => []IInv
<1>1. Init => IInv
  BY InitLineOK, InitBundleOK DEF IInv
<1>2. IInv /\ [Next]_vars => IInv'
  BY NextLineOK, NextBundleOK DEF IInv
<1> QED
  BY <1>1, <1>2, PTL DEF Spec

----------------------------------------------------------------------------
LEMMA SuffixOfSubSeq ==
    ASSUME NEW S, NEW s \in Seq(S), NEW k \in 0..Len(s)
    PROVE  IsSuffix(SubSeq(s, k + 1, Len(s)), s)
<1> DEFINE r == SubSeq(s, k + 1, Len(s))
           m == Len(s) - k
<1>1. r \in Seq(S) /\ Len(r) = m /\ m \in Nat /\ m <= Len(s)
      /\ \A i \in 1..m : r[i] = s[k + i]
  OBVIOUS
<1>2. Reverse(r) = [i \in 1..m |-> s[Len(s) - i + 1]]
  <2>1. \A i \in 1..m : r[(m - i) + 1] = s[Len(s) - i + 1]
    BY <1>1
  <2> QED
    BY <1>1, <2>1 DEF Reverse
<1>3. Reverse(s) = [i \in 1..Len(s) |-> s[Len(s) - i + 1]]
  BY DEF Reverse
<1>4. Reverse(r) \in Seq(S) /\ Len(Reverse(r)) = m
  BY <1>1, <1>2
<1>5. Reverse(s) \in Seq(S) /\ Len(Reverse(s)) = Len(s)
  BY <1>3
<1>6. SubSeq(Reverse(r), 1, m) = SubSeq(Reverse(s), 1, m)
  BY <1>1, <1>2, <1>3, <1>4, <1>5
<1> QED
  BY <1>1, <1>4, <1>5, <1>6 DEF IsSuffix, IsPrefix

\* The type invariant: what a command or a child works with is a spec that
\* may be dereferenced without looking (config.go:213-236).
THEOREM TypeCorrect == Spec => []TypeOK
<1>1. IInv => TypeOK
  <2> SUFFICES ASSUME IInv PROVE TypeOK
    OBVIOUS
  <2>1. IsSuffix(rest, line)
    BY SuffixOfSubSeq DEF IInv, LineOK, Unread
  <2>2. limits # Nil => DOMAIN limits = ToSet(Files)
    BY FileFacts DEF IInv, BundleOK, LimitsOK, IsLimits
  <2>3. /\ config \in Specs \cup {Nil}
        /\ cmd.pc \in {"idle", "root", "cgroup", "save", "fork"} \cup ToSet(Files)
    BY FileFacts DEF IInv, BundleOK, CmdOK, Creating, Verifying
  <2>4. /\ cmd # Idle => cmd.spec \in CompleteSpecs
        /\ child # Nil => child.spec \in CompleteSpecs
    BY DEF IInv, BundleOK, CmdOK, VerifiedOK
  <2> QED
    BY <2>1, <2>2, <2>3, <2>4 DEF TypeOK, IInv, LineOK, Phases, CompleteSpecs
<1> QED
  BY <1>1, Invariance, PTL

\* The limits that a container was created with are in force for as long as
\* its record exists, and no file is given zero or less (cgroup.go:57-111).
THEOREM LimitsAreInForce == Spec => []LimitsInForce
<1>1. IInv => LimitsInForce
  <2> SUFFICES ASSUME IInv PROVE LimitsInForce
    OBVIOUS
  <2> DEFINE r == verified.resources
  <2>1. limits # Nil =>
           {limits["cpu.max"][1], limits["cpu.max"][2], limits["memory.max"],
            limits["pids.max"]} \subseteq {NoMax} \cup (Nat \ {0})
    BY DEF IInv, BundleOK, LimitsOK, IsLimits, Amounts
  <2>2. ASSUME record # Nil, r # Nil
        PROVE  /\ r.cpu # Nil =>
                    /\ r.cpu.quota \in Nat \ {0} => limits["cpu.max"][1] = r.cpu.quota
                    /\ r.cpu.period \in Nat \ {0} => limits["cpu.max"][2] = r.cpu.period
               /\ r.memory # Nil /\ r.memory.limit \in Nat \ {0}
                    => limits["memory.max"] = r.memory.limit
               /\ r.pids # Nil /\ r.pids.limit \in Nat \ {0}
                    => limits["pids.max"] = r.pids.limit
    <3>1. IsResources(r) /\ \A f \in FileNames : InForce(r, f)
      BY <2>2 DEF IInv, BundleOK, VerifiedOK, LimitsOK
    <3>2. \A p, d : p \in Nat \ {0} => Positive(p, d) = p
      BY NilAssumption DEF Positive
    <3>3. Text(r, "cpu.max") # Nil => limits["cpu.max"] = Text(r, "cpu.max")
      BY <3>1 DEF InForce, FileNames
    <3>4. Text(r, "memory.max") # Nil => limits["memory.max"] = Text(r, "memory.max")
      BY <3>1 DEF InForce, FileNames
    <3>5. Text(r, "pids.max") # Nil => limits["pids.max"] = Text(r, "pids.max")
      BY <3>1 DEF InForce, FileNames
    <3>6. ASSUME r.cpu # Nil
          PROVE  /\ r.cpu.quota \in Nat \ {0} => limits["cpu.max"][1] = r.cpu.quota
                 /\ r.cpu.period \in Nat \ {0} => limits["cpu.max"][2] = r.cpu.period
      <4>1. Text(r, "cpu.max") = <<Positive(r.cpu.quota, NoMax), Positive(r.cpu.period, 100000)>>
        BY <2>2, <3>6 DEF Text
      <4>2. Text(r, "cpu.max") \in (Int \cup {NoMax}) \X (Int \cup {NoMax})
        BY <3>1, <2>2, <3>6, <4>1 DEF IsResources, IsInt, IsNat, Positive
      <4>3. limits["cpu.max"] = Text(r, "cpu.max")
        BY <3>3, <4>2, NilAssumption
      <4> QED
        BY <3>2, <4>1, <4>3
    <3>7. ASSUME r.memory # Nil, r.memory.limit \in Nat \ {0}
          PROVE  limits["memory.max"] = r.memory.limit
      <4>1. r.memory.limit # Nil
        BY <3>7, NilAssumption
      <4>2. Text(r, "memory.max") = r.memory.limit
        BY <2>2, <3>2, <3>7, <4>1 DEF Text
      <4> QED
        BY <3>4, <4>1, <4>2
    <3>8. ASSUME r.pids # Nil, r.pids.limit \in Nat \ {0}
          PROVE  limits["pids.max"] = r.pids.limit
      <4>1. r.pids.limit # Nil
        BY <3>8, NilAssumption
      <4>2. Text(r, "pids.max") = r.pids.limit
        BY <2>2, <3>2, <3>8 DEF Text
      <4> QED
        BY <3>5, <4>1, <4>2
    <3> QED
      BY <3>6, <3>7, <3>8
  <2> QED
    BY <2>1, <2>2 DEF LimitsInForce
<1> QED
  BY <1>1, Invariance, PTL

\* The child is given the root that create has verified, although start
\* loads config.json again (start.go:61-72).
THEOREM RootIsAsVerified == Spec => []RootAsVerified
<1>1. IInv => RootAsVerified
  BY DEF IInv, BundleOK, RecordOK, VerifiedOK, RootOK, RootAsVerified
<1> QED
  BY <1>1, Invariance, PTL
=============================================================================
