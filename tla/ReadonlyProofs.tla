--------------------------- MODULE ReadonlyProofs ---------------------------
(***************************************************************************)
(* What parseMountOptions makes of a list of options (mount.go:168), and    *)
(* the theorem about ContainerInit that depends on it: "ro" counts wherever *)
(* it stands among the options (ReadonlyHonoured).                          *)
(***************************************************************************)
EXTENDS ContainerInitProofs, WellFoundedInduction

----------------------------------------------------------------------------
(* The fold over the options. *)

\* A set of naturals has a least member, a bounded one a greatest.
LEMMA LeastMember ==
    ASSUME NEW S \in SUBSET Nat, S # {}
    PROVE  \E m \in S : \A x \in S : m <= x
<1>1. PICK m \in S : \A x \in S : ~(<<x, m>> \in OpToRel(<, Nat))
  BY NatLessThanWellFounded, WFMin
<1>2. ASSUME NEW x \in S, x < m PROVE FALSE
  <2>1. <<x, m>> \in OpToRel(<, Nat)
    BY <1>2, Zenon DEF OpToRel
  <2> QED
    BY <1>1, <2>1
<1>3. \A x \in S : ~(x < m)
  BY <1>2
<1>4. \A x \in S : x \in Nat
  OBVIOUS
<1>5. m \in Nat
  OBVIOUS
<1>6. \A x \in S : m <= x
  BY <1>3, <1>4, <1>5, SMT
<1> QED
  BY <1>6

LEMMA MaxMember ==
    ASSUME NEW n \in Nat, NEW S \in SUBSET (1..n), S # {}
    PROVE  Max(S) \in S /\ \A x \in S : Max(S) >= x
<1> DEFINE T == {n - x : x \in S}
<1>0. \A x \in S : x \in 1..n /\ n - x \in Nat
  OBVIOUS
<1>1. T \in SUBSET Nat /\ T # {}
  BY <1>0
<1>2. PICK t \in T : \A u \in T : t <= u
  BY <1>1, LeastMember
<1>3. PICK m \in S : t = n - m
  BY <1>2
<1>4. \A x \in S : m >= x
  BY <1>2, <1>3
<1> QED
  BY <1>4 DEF Max

\* What one option adds.
FlagsOf(o) ==
    IF ToLower(o) \in DOMAIN KnownFlags THEN KnownFlags[ToLower(o)] ELSE {}

LEMMA WithOptionIs ==
    ASSUME NEW flags, NEW o
    PROVE  WithOption(flags, o) = flags \cup FlagsOf(o)
<1> PICK known : known = KnownFlags
  OBVIOUS
<1> QED
  BY DEF WithOption, FlagsOf

\* FoldLeft in terms of the function that it stands for.
FoldsOf(options) ==
    CHOOSE iter : iter = [s \in SUBSET DOMAIN options |->
                            IF s = {} THEN {}
                            ELSE WithOption(iter[s \ {Max(s)}], options[Max(s)])]

LEMMA ParseIsFold ==
    ASSUME NEW options
    PROVE  ParseMountOptions(options) = FoldsOf(options)[DOMAIN options]
BY DEF ParseMountOptions, FoldLeft, MapThenFoldSet, FoldsOf

\* The flags of the options with a number in s.
FlagsAt(options, s) == UNION {FlagsOf(options[i]) : i \in s}

LEMMA FoldEquation ==
    ASSUME NEW options \in Seq(STRING), NEW s \in SUBSET DOMAIN options
    PROVE  FoldsOf(options)[s]
             = IF s = {} THEN {}
               ELSE FoldsOf(options)[s \ {Max(s)}] \cup FlagsOf(options[Max(s)])
<1> DEFINE D == DOMAIN options
           E(iter) == [t \in SUBSET D |->
                         IF t = {} THEN {}
                         ELSE WithOption(iter[t \ {Max(t)}], options[Max(t)])]
           G == [t \in SUBSET D |-> FlagsAt(options, t)]
<1>1. Len(options) \in Nat /\ D = 1..Len(options)
  OBVIOUS
<1>2. G = E(G)
  <2>1. ASSUME NEW t \in SUBSET D
        PROVE  G[t] = IF t = {} THEN {}
                      ELSE WithOption(G[t \ {Max(t)}], options[Max(t)])
    <3>1. CASE t = {}
      BY <3>1 DEF FlagsAt
    <3>2. CASE t # {}
      <4>1. PICK m : m = Max(t)
        OBVIOUS
      <4>2. m \in t
        BY <1>1, <3>2, <4>1, MaxMember
      <4>3. t \ {m} \in SUBSET D
        OBVIOUS
      <4>4. G[t] = FlagsAt(options, t) /\ G[t \ {m}] = FlagsAt(options, t \ {m})
        BY <4>3
      <4>5. FlagsAt(options, t) = FlagsAt(options, t \ {m}) \cup FlagsOf(options[m])
        BY <4>2 DEF FlagsAt
      <4>6. G[t] = WithOption(G[t \ {m}], options[m])
        BY <4>4, <4>5, WithOptionIs
      <4> QED
        BY <3>2, <4>1, <4>6
    <3> QED
      BY <3>1, <3>2
  <2> HIDE DEF G
  <2>2. G = [t \in SUBSET D |-> G[t]]
    BY DEF G
  <2> QED
    BY <2>1, <2>2
<1> HIDE DEF G
<1>3. \E iter : iter = E(iter)
  BY <1>2
<1>4. FoldsOf(options) = CHOOSE iter : iter = E(iter)
  BY DEF FoldsOf
<1>5. FoldsOf(options) = E(FoldsOf(options))
  BY <1>3, <1>4
<1>6. FoldsOf(options)[s]
        = IF s = {} THEN {} ELSE WithOption(FoldsOf(options)[s \ {Max(s)}], options[Max(s)])
  BY <1>5
<1> QED
  BY <1>6, WithOptionIs

\* The fold gathers the flags of all the options, in whatever order they stand.
LEMMA ParseGathers ==
    ASSUME NEW options \in Seq(STRING)
    PROVE  ParseMountOptions(options) = FlagsAt(options, DOMAIN options)
<1>1. Len(options) \in Nat /\ DOMAIN options = 1..Len(options)
  OBVIOUS
<1> DEFINE n == Len(options)
           Bad == {k \in 0..n : FoldsOf(options)[1..k] # FlagsAt(options, 1..k)}
<1>2. Bad = {}
  <2> SUFFICES ASSUME Bad # {} PROVE FALSE
    OBVIOUS
  <2>1. Bad \in SUBSET Nat
    BY <1>1
  <2>2. PICK k \in Bad : \A x \in Bad : k <= x
    BY <2>1, LeastMember
  <2>3. k \in 0..n /\ FoldsOf(options)[1..k] # FlagsAt(options, 1..k)
    BY <2>2
  <2>4. CASE k = 0
    <3>1. 1..k = {} /\ 1..k \in SUBSET DOMAIN options
      BY <2>4
    <3>2. FoldsOf(options)[1..k] = {}
      BY <3>1, FoldEquation
    <3>3. FlagsAt(options, 1..k) = {}
      BY <3>1 DEF FlagsAt
    <3> QED
      BY <2>3, <3>2, <3>3
  <2>5. CASE k # 0
    <3>0. k \in Nat /\ k - 1 \in Nat /\ k >= 1 /\ k \in 1..k /\ k <= n
      BY <1>1, <2>3, <2>5
    <3>1. 1..k \in SUBSET DOMAIN options /\ 1..k # {}
      <4>1. \A i \in 1..k : i \in 1..n
        BY <1>1, <3>0
      <4> QED
        BY <1>1, <3>0, <4>1
    <3>2. Max(1..k) = k
      <4>1. Max(1..k) \in 1..k /\ \A x \in 1..k : Max(1..k) >= x
        BY <3>0, <3>1, MaxMember
      <4> QED
        BY <3>0, <4>1
    <3>3. (1..k) \ {k} = 1..(k - 1)
      BY <3>0
    <3>4. FoldsOf(options)[1..k]
            = FoldsOf(options)[1..(k - 1)] \cup FlagsOf(options[k])
      <4>1. PICK s \in SUBSET DOMAIN options : s = 1..k
        BY <3>1
      <4>2. FoldsOf(options)[s]
              = FoldsOf(options)[s \ {Max(s)}] \cup FlagsOf(options[Max(s)])
        BY <3>1, <4>1, FoldEquation
      <4> QED
        BY <3>2, <3>3, <4>1, <4>2
    <3>5. FoldsOf(options)[1..(k - 1)] = FlagsAt(options, 1..(k - 1))
      <4>1. k - 1 \in 0..n /\ ~(k <= k - 1)
        BY <1>1, <3>0
      <4> QED
        BY <2>2, <4>1
    <3>6. FlagsAt(options, 1..k) = FlagsAt(options, 1..(k - 1)) \cup FlagsOf(options[k])
      BY <3>0, <3>3 DEF FlagsAt
    <3> QED
      BY <2>3, <3>4, <3>5, <3>6
  <2> QED
    BY <2>4, <2>5
<1>3. n \in 0..n
  BY <1>1
<1>4. FoldsOf(options)[1..n] = FlagsAt(options, 1..n)
  BY <1>2, <1>3
<1> QED
  BY <1>1, <1>4, ParseIsFold

\* Options without a bind and without a propagation, in capitals or not, stand
\* for a new mount or a remount; "ro" among them makes it read-only.
Lowered(options) == {ToLower(o) : o \in Range(options)}

PlainReadonly(m) ==
    /\ m.dest # <<"proc">>
    /\ "ro" \in Lowered(m.options)
    /\ Lowered(m.options) \cap ({"bind", "rbind"} \cup Propagation) = {}

LEMMA ReadonlyOption ==
    ASSUME NEW o, ToLower(o) = "ro"
    PROVE  "rdonly" \in FlagsOf(o)
<1>1. "ro" \in DOMAIN KnownFlags /\ KnownFlags["ro"] = {"rdonly"}
  BY DEF KnownFlags
<1> QED
  BY <1>1 DEF FlagsOf

LEMMA OtherOptions ==
    ASSUME NEW o, ToLower(o) \notin {"bind", "rbind"} \cup Propagation
    PROVE  "bind" \notin FlagsOf(o) /\ FlagsOf(o) \cap Propagation = {}
<1>q. PICK low : low = ToLower(o)
  OBVIOUS
<1>1. CASE low \in DOMAIN KnownFlags
  <2>1. low \in {"ro", "rw", "nosuid", "nodev", "noexec", "sync", "dirsync", "remount",
                 "mand", "noatime", "nodiratime", "relatime", "strictatime"}
    BY <1>q, <1>1 DEF KnownFlags, Propagation
  <2>2. KnownFlags[low]
          \in {{"rdonly"}, {}, {"nosuid"}, {"nodev"}, {"noexec"}, {"synchronous"},
               {"dirsync"}, {"remount"}, {"mandlock"}, {"noatime"},
               {"nodiratime"}, {"relatime"}, {"strictatime"}}
    BY <2>1 DEF KnownFlags
  <2>3. FlagsOf(o) = KnownFlags[low]
    BY <1>q, <1>1 DEF FlagsOf
  <2> QED
    BY <2>2, <2>3 DEF Propagation
<1>2. CASE low \notin DOMAIN KnownFlags
  BY <1>q, <1>2 DEF FlagsOf
<1> QED
  BY <1>1, <1>2

LEMMA PlainReadonlyFlags ==
    ASSUME NEW m \in [dest : Seq(STRING), options : Seq(STRING)], PlainReadonly(m)
    PROVE  /\ "rdonly" \in ParseMountOptions(m.options)
           /\ Kind(ParseMountOptions(m.options)) \in {"new", "remount"}
<1> DEFINE D == DOMAIN m.options
           flags == ParseMountOptions(m.options)
<1>1. flags = FlagsAt(m.options, D)
  BY ParseGathers
<1>2. Lowered(m.options) = {ToLower(m.options[i]) : i \in D}
  BY DEF Lowered, Range
<1>3. "rdonly" \in flags
  <2>1. PICK i \in D : ToLower(m.options[i]) = "ro"
    BY <1>2 DEF PlainReadonly
  <2> QED
    BY <1>1, <2>1, ReadonlyOption DEF FlagsAt
<1>4. \A i \in D : "bind" \notin FlagsOf(m.options[i])
                   /\ FlagsOf(m.options[i]) \cap Propagation = {}
  BY <1>2, OtherOptions DEF PlainReadonly
<1>5. "bind" \notin flags /\ flags \cap Propagation = {}
  BY <1>1, <1>4 DEF FlagsAt
<1> HIDE DEF flags
<1>6. Kind(flags) \in {"new", "remount"}
  BY <1>5 DEF Kind
<1> QED
  BY <1>3, <1>6 DEF flags

----------------------------------------------------------------------------
(* ReadonlyHonoured, of which the invariant speaks entry by entry. *)

ReadOK(q) ==
    /\ q.pc \notin {"mounts", "exec", "user", "dead"} => q.next = 1
    /\ q.pc \in {"exec", "user"} => q.next = Len(mounts) + 1
    /\ q.pc # "dead" =>
         \A k \in 1..(q.next - 1) :
           OnTopBefore(k, q.next) /\ PlainReadonly(mounts[k])
             => [at |-> mounts[k].dest, ro |-> TRUE] \in q.tree

ReadonlyShown == \A n \in Inits : ReadOK(init[n])

LEMMA ReadDead == ASSUME NEW q, q.pc = "dead" PROVE ReadOK(q)
BY DEF ReadOK

\* A change of the mounts before the first entry of the spec.
LEMMA ReadFirst ==
    ASSUME NEW q, q.next = 1, q.pc \notin {"exec", "user"}
    PROVE  ReadOK(q)
<1>1. 1..(q.next - 1) = {}
  OBVIOUS
<1> QED
  BY <1>1 DEF ReadOK

LEMMA EarlySteps ==
    ASSUME IInv, NEW n \in Inits, ReadOK(init[n]),
           \/ MakeRootPrivate(n) \/ MountOverlay(n) \/ MountProc(n)
           \/ PivotMkdir(n) \/ SelfBind(n) \/ Pivot(n)
           \/ Chdir(n) \/ UnmountOld(n) \/ RemoveOld(n) \/ FallbackChroot(n)
           \/ Exec(n) \/ RunOnHost(n) \/ Terminate(n) \/ UserExit(n)
    PROVE  ReadOK(init'[n])
<1> DEFINE inner == FallbackChroot(n) /\ init[n].root = "new"
<1>1. init \in [Inits -> Procs]
  BY DEF IInv, TypeOK
<1>2. CASE init'[n].pc = "dead"
  BY <1>2, ReadDead
<1>3. CASE init'[n].pc # "dead" /\ (MountOverlay(n) \/ MountProc(n) \/ inner)
  <2>0. ~Exit(n)
    BY <1>1, <1>3 DEF Exit, Procs
  <2>1. /\ init[n].pc \in {"overlay", "proc", "chroot"}
        /\ init'[n].pc \in {"proc", "pivotdir", "mounts"}
        /\ init'[n].next = init[n].next
    <3>1. CASE MountOverlay(n)
      <4>1. PICK tree : init' = [init EXCEPT ![n].pc = "proc", ![n].tree = tree]
        BY <2>0, <3>1 DEF MountOverlay
      <4> QED
        BY <1>1, <3>1, <4>1 DEF MountOverlay, At, Procs
    <3>2. CASE MountProc(n)
      <4>1. PICK tree : init' = [init EXCEPT ![n].pc = "pivotdir", ![n].tree = tree]
        BY <2>0, <3>2 DEF MountProc
      <4> QED
        BY <1>1, <3>2, <4>1 DEF MountProc, At, Procs
    <3>3. CASE inner
      BY <1>1, <2>0, <3>3 DEF FallbackChroot, At, Procs
    <3> QED
      BY <1>3, <3>1, <3>2, <3>3
  <2>2. init'[n].next = 1 /\ init'[n].pc \notin {"exec", "user"}
    BY <2>1 DEF ReadOK
  <2> QED
    BY <2>2, ReadFirst
<1>4. CASE init'[n].pc # "dead" /\ ~(MountOverlay(n) \/ MountProc(n) \/ inner)
  <2>1. /\ init'[n].tree = init[n].tree /\ init'[n].next = init[n].next
        /\ init[n].pc # "dead"
        /\ \/ init'[n].pc = init[n].pc
           \/ init[n].pc = "exec" /\ init'[n].pc = "user"
           \/ init[n].pc \notin {"mounts", "exec", "user", "dead"}
              /\ init'[n].pc \notin {"exec", "user", "dead"}
    BY <1>4, RootStepsKeep DEF AfterPrivate
  <2> QED
    BY <2>1 DEF ReadOK
<1> QED
  BY <1>2, <1>3, <1>4

\* One more entry has been dealt with.
LEMMA EntryReads ==
    ASSUME IInv, NEW n \in Inits, ReadOK(init[n]),
           At(n, "mounts"), init[n].next <= Len(mounts),
           NEW q, q.pc = "mounts", q.next = init[n].next + 1,
           PlainReadonly(Entry(n)) => [at |-> Entry(n).dest, ro |-> TRUE] \in q.tree,
           \A t \in init[n].tree : t \in q.tree \/ IsPrefix(Entry(n).dest, t.at)
    PROVE  ReadOK(q)
<1> DEFINE k0 == init[n].next
<1>1. k0 \in 1..Len(mounts) /\ Len(mounts) \in Nat
  BY EntryPlace DEF IInv, Listed
<1>2. Entry(n) = mounts[k0]
  BY DEF Entry
<1>3. ASSUME NEW k \in 1..(q.next - 1), OnTopBefore(k, q.next), PlainReadonly(mounts[k])
      PROVE  [at |-> mounts[k].dest, ro |-> TRUE] \in q.tree
  <2>1. CASE k = k0
    BY <1>2, <1>3, <2>1
  <2>2. CASE k # k0
    <3>1. k \in 1..(k0 - 1) /\ k0 \in (k + 1)..(q.next - 1)
      BY <1>1, <2>2
    <3>2. OnTopBefore(k, k0) /\ ~IsPrefix(mounts[k0].dest, mounts[k].dest)
      BY <1>1, <1>3, <3>1 DEF OnTopBefore
    <3>3. PICK t : t = [at |-> mounts[k].dest, ro |-> TRUE]
      OBVIOUS
    <3>4. t \in init[n].tree /\ t.at = mounts[k].dest
      BY <1>3, <3>1, <3>2, <3>3 DEF ReadOK, At
    <3> QED
      BY <1>2, <3>2, <3>3, <3>4
  <2> QED
    BY <2>1, <2>2
<1> QED
  BY <1>3 DEF ReadOK

LEMMA MountSpecReads ==
    ASSUME IInv, NEW n \in Inits, ReadOK(init[n]), MountSpec(n)
    PROVE  ReadOK(init'[n])
<1>1. init \in [Inits -> Procs] /\ init[n] \in Procs /\ Len(mounts) \in Nat
  BY DEF IInv, TypeOK, Listed
<1>2. At(n, "mounts")
  BY DEF MountSpec, MountNew, MountBind, MountAgain, MountPropagation,
         MountNothing, Mounting
<1>3. CASE Refused(n)
  <2>1. init'[n].pc = "dead"
    BY <1>1, <1>3 DEF Refused, Exit, Procs
  <2> QED
    BY <2>1, ReadDead
<1>4. init[n].next <= Len(mounts) /\ PlainReadonly(Entry(n))
        => EntryIsRO(n) /\ EntryKind(n) \in {"new", "remount"}
  <2> SUFFICES ASSUME init[n].next <= Len(mounts), PlainReadonly(Entry(n))
               PROVE  EntryIsRO(n) /\ EntryKind(n) \in {"new", "remount"}
    OBVIOUS
  <2>1. init[n].next \in 1..Len(mounts)
    BY EntryPlace DEF IInv, Listed
  <2>2. Entry(n) \in [dest : Seq(STRING), options : Seq(STRING)]
    <3>1. mounts[init[n].next] \in [dest : Seq(STRING), options : Seq(STRING)]
      BY <2>1, ElementOfSeq DEF IInv, Listed
    <3> QED
      BY <3>1 DEF Entry
  <2> QED
    BY <2>2, PlainReadonlyFlags DEF EntryIsRO, EntryKind
<1>d. init[n].next <= Len(mounts) => IsPrefix(Entry(n).dest, Entry(n).dest)
  <2> SUFFICES ASSUME init[n].next <= Len(mounts)
               PROVE  IsPrefix(Entry(n).dest, Entry(n).dest)
    OBVIOUS
  <2>1. init[n].next \in 1..Len(mounts)
    BY EntryPlace DEF IInv, Listed
  <2>2. mounts[init[n].next] \in [dest : Seq(STRING), options : Seq(STRING)]
    BY <2>1, ElementOfSeq DEF IInv, Listed
  <2>3. PICK d \in Seq(STRING) : d = Entry(n).dest
    BY <2>2 DEF Entry
  <2>4. Len(d) \in Nat
    OBVIOUS
  <2> QED
    BY <2>3, <2>4 DEF IsPrefix
<1>5. ASSUME NEW ro, NEW tree, Applies(n, tree), init[n].next <= Len(mounts),
             \/ tree = Mounted(init[n].tree, Entry(n).dest, ro)
             \/ tree = Remounted(init[n].tree, Entry(n).dest, ro),
             PlainReadonly(Entry(n)) => ro = TRUE
      PROVE  ReadOK(init'[n])
  <2>1. init' = [init EXCEPT ![n].tree = tree, ![n].next = @ + 1]
    BY <1>5 DEF Applies
  <2>2. /\ init'[n].pc = "mounts" /\ init'[n].next = init[n].next + 1
        /\ init'[n].tree = tree
    BY <1>1, <1>2, <2>1 DEF At, Procs
  <2>3. /\ [at |-> Entry(n).dest, ro |-> ro] \in tree
        /\ \A t \in init[n].tree : t \in tree \/ IsPrefix(Entry(n).dest, t.at)
    <3>1. CASE tree = Mounted(init[n].tree, Entry(n).dest, ro)
      BY <3>1 DEF Mounted
    <3>2. CASE tree = Remounted(init[n].tree, Entry(n).dest, ro)
      BY <1>5, <1>d, <3>2 DEF Remounted
    <3> QED
      BY <1>5, <3>1, <3>2
  <2> QED
    BY <1>2, <1>5, <2>2, <2>3, EntryReads
<1>6. ASSUME init[n].next <= Len(mounts), ~PlainReadonly(Entry(n)),
             init' = [init EXCEPT ![n].next = @ + 1]
      PROVE  ReadOK(init'[n])
  <2>1. /\ init'[n].pc = "mounts" /\ init'[n].next = init[n].next + 1
        /\ init'[n].tree = init[n].tree
    BY <1>1, <1>2, <1>6 DEF At, Procs
  <2> QED
    BY <1>2, <1>6, <2>1, EntryReads
<1>7. CASE (MountNew(n) \/ MountAgain(n)) /\ ~Refused(n)
  <2>1. EntryIsRO(n) \in BOOLEAN
    BY DEF EntryIsRO
  <2>2. /\ init[n].next <= Len(mounts)
        /\ PlainReadonly(Entry(n)) => EntryIsRO(n) = TRUE
        /\ \/ Applies(n, Mounted(init[n].tree, Entry(n).dest, EntryIsRO(n)))
           \/ Applies(n, Remounted(init[n].tree, Entry(n).dest, EntryIsRO(n)))
    BY <1>4, <1>7, <2>1 DEF MountNew, MountAgain, Mounting
  <2> QED
    BY <1>5, <2>2
<1>8. CASE MountBind(n) /\ ~Refused(n)
  <2>1. /\ init[n].next <= Len(mounts)
        /\ ~PlainReadonly(Entry(n))
        /\ Applies(n, Mounted(init[n].tree, Entry(n).dest, FALSE))
    BY <1>4, <1>8 DEF MountBind, Mounting
  <2> QED
    BY <1>5, <2>1
<1>9. CASE MountPropagation(n) /\ ~Refused(n)
  BY <1>4, <1>6, <1>9 DEF MountPropagation, Mounting
<1>10. CASE MountNothing(n)
  <2>1. CASE init[n].next > Len(mounts)
    <3>1. Goto(n, "exec") /\ init[n].next = Len(mounts) + 1
      BY <1>1, <1>10, <2>1 DEF MountNothing, Procs
    <3>2. /\ init'[n].pc = "exec" /\ init'[n].next = init[n].next
          /\ init'[n].tree = init[n].tree
      BY <1>1, <3>1 DEF Goto, Procs
    <3> QED
      BY <1>2, <3>1, <3>2 DEF ReadOK, At
  <2>2. CASE ~(init[n].next > Len(mounts))
    <3>1. /\ init[n].next <= Len(mounts)
          /\ Entry(n).dest = <<"proc">>
          /\ init' = [init EXCEPT ![n].next = @ + 1]
      BY <1>1, <1>10, <2>2 DEF MountNothing, Procs
    <3> QED
      BY <1>6, <3>1 DEF PlainReadonly
  <2> QED
    BY <2>1, <2>2
<1> QED
  BY <1>3, <1>7, <1>8, <1>9, <1>10 DEF MountSpec

LEMMA NextReadonlyShown ==
    ASSUME IInv, ReadonlyShown, [Next]_vars
    PROVE  ReadonlyShown'
<1>1. CASE UNCHANGED vars
  BY <1>1 DEF ReadonlyShown, ReadOK, OnTopBefore, vars
<1>2. CASE Next
  <2>1. PICK n \in Inits : RunInitProcess(n) \/ Terminate(n) \/ UserExit(n)
    BY <1>2 DEF Next
  <2>2. mounts' = mounts
    BY <2>1 DEF RunInitProcess, MakeRootPrivate, MountOverlay, MountProc, PivotMkdir,
       SelfBind, Pivot, Chdir, UnmountOld, RemoveOld, FallbackChroot, MountSpec, MountNew,
       MountBind, MountAgain, MountPropagation, MountNothing, Applies, Refused, Exec,
       RunOnHost, Terminate, UserExit
  <2>3. ASSUME NEW m \in Inits PROVE ReadOK(init'[m])
    <3>1. ReadOK(init[m])
      BY DEF ReadonlyShown
    <3>2. CASE m # n
      <4>1. /\ init'[m].pc = init[m].pc /\ init'[m].tree = init[m].tree
            /\ init'[m].next = init[m].next
        BY <2>1, <3>2, OthersSame
      <4> QED
        BY <3>1, <4>1 DEF ReadOK
    <3>3. CASE m = n
      BY <2>1, <3>1, <3>3, EarlySteps, MountSpecReads DEF RunInitProcess
    <3> QED
      BY <3>2, <3>3
  <2> QED
    BY <2>2, <2>3 DEF ReadonlyShown, ReadOK, OnTopBefore
<1> QED
  BY <1>1, <1>2

\* A filesystem that the spec mounts or remounts with "ro" among its options,
\* in any place, before or after any others and in capitals or not, is
\* read-only for the user's program unless a later entry covers it or one of
\* the options, in capitals or not, makes it a bind mount or a change of the
\* propagation (mount.go:100-175).
THEOREM ReadonlyIsHonoured == Spec => []ReadonlyHonoured
<1>1. Init => ReadonlyShown
  <2> SUFFICES ASSUME Init, NEW n \in Inits PROVE ReadOK(init[n])
    BY DEF ReadonlyShown
  <2>1. init[n].pc = "private" /\ init[n].next = 1
    BY DEF Init
  <2> QED
    BY <2>1 DEF ReadOK
<1>2. IInv /\ ReadonlyShown /\ [Next]_vars => ReadonlyShown'
  BY NextReadonlyShown
<1>3. IInv /\ ReadonlyShown => ReadonlyHonoured
  <2> SUFFICES ASSUME IInv, ReadonlyShown, NEW n \in Inits, NEW k \in DOMAIN mounts,
                      At(n, "user"), OnTop(k), PlainReadonly(mounts[k])
               PROVE  [at |-> mounts[k].dest, ro |-> TRUE] \in init[n].tree
    BY DEF ReadonlyHonoured, PlainReadonly, Lowered
  <2>1. DOMAIN mounts = 1..Len(mounts) /\ Len(mounts) \in Nat
    BY DEF IInv, Listed
  <2>2. ReadOK(init[n]) /\ init[n].next = Len(mounts) + 1
    BY DEF ReadonlyShown, ReadOK, At
  <2>3. k \in 1..(init[n].next - 1) /\ OnTopBefore(k, init[n].next)
    BY <2>1, <2>2 DEF OnTop, OnTopBefore
  <2> QED
    BY <2>2, <2>3 DEF ReadOK, At
<1> QED
  BY <1>1, <1>2, <1>3, Inductive, PTL DEF Spec
=============================================================================
