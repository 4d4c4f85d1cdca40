------------------------ MODULE ContainerInitProofs ------------------------
(***************************************************************************)
(* Theorems about ContainerInit, for any number of containers, any lists of *)
(* mounts, and system calls that fail or do not: the types, what a user's   *)
(* program cannot reach (Inside), what it sees (MountsVisible), and what    *)
(* the containers leave on the host (HostMountsUntouched, PivotDirRemoved). *)
(***************************************************************************)
EXTENDS ContainerInit, SequenceTheorems, TLAPS

----------------------------------------------------------------------------
(* The inductive invariant. *)

\* What the step that a process has reached says about its root.
PhaseOK(q) ==
    /\ q.pc \in {"chdir", "unmount", "rmdir"} => q.root = "new"
    /\ q.pc = "rmdir" => ~q.old
    /\ q.pc \in {"mounts", "exec", "user"} =>
         q.root # "host" /\ (q.old => q.root = "inner")
    /\ q.pc \notin {"private", "dead"} => q.private
    /\ q.old => q.root \in {"new", "inner"}
    /\ q.root = "inner" => q.pc \in {"mounts", "exec", "user", "dead"}

Phases == \A n \in Inits : PhaseOK(init[n])

\* A process that may have made a .pivot_old which it has not removed.
MayHold(q) ==
    \/ q.pc \in {"selfbind", "pivot", "chdir", "unmount", "rmdir", "chroot",
                 "shared", "dead"}
    \/ q.root \in {"jail", "inner"}

Held ==
    \A r \in Roots : pivotDir[r] => \E n \in Inits : RootFS(n) = r /\ MayHold(init[n])

OldHasDir == \A n \in Inits : init[n].old => pivotDir[RootFS(n)]

Listed == mounts \in Seq([dest : Seq(STRING), options : Seq(STRING)])

IInv == TypeOK /\ Listed /\ Phases /\ Held /\ HostMountsUntouched

----------------------------------------------------------------------------
(* Steps that many actions share. *)

\* A mount keeps the types of the table.
LEMMA MountedType ==
    ASSUME NEW tree \in SUBSET [at : Places, ro : BOOLEAN],
           NEW d \in Places, NEW ro \in BOOLEAN
    PROVE  Mounted(tree, d, ro) \in SUBSET [at : Places, ro : BOOLEAN]
BY DEF Mounted

LEMMA RemountedType ==
    ASSUME NEW tree \in SUBSET [at : Places, ro : BOOLEAN],
           NEW d \in Places, NEW ro \in BOOLEAN
    PROVE  Remounted(tree, d, ro) \in SUBSET [at : Places, ro : BOOLEAN]
BY DEF Remounted

\* Nor do the changes of a process that the steps below make.
Later == {"overlay", "proc", "pivotdir", "selfbind", "pivot", "chdir", "unmount",
          "rmdir", "chroot", "mounts", "exec", "user", "shared"}

LEMMA PcChange ==
    ASSUME NEW p \in Procs, NEW pc \in Later, NEW q, q = [p EXCEPT !.pc = pc]
    PROVE  /\ q \in Procs /\ q.pc = pc /\ q.root = p.root
           /\ q.old = p.old /\ q.private = p.private
BY DEF Procs, Later

LEMMA TreeChange ==
    ASSUME NEW p \in Procs, NEW pc \in Later,
           NEW tree \in SUBSET [at : Places, ro : BOOLEAN],
           NEW next \in 1..(Len(mounts) + 1),
           NEW q, q = [p EXCEPT !.pc = pc, !.tree = tree, !.next = next]
    PROVE  /\ q \in Procs /\ q.pc = pc /\ q.root = p.root
           /\ q.old = p.old /\ q.private = p.private
           /\ q.tree = tree /\ q.next = next
BY DEF Procs, Later

LEMMA RootFSType == ASSUME NEW n \in Inits PROVE RootFS(n) \in Roots
BY DEF RootFS, Roots

\* One process moves on; it may make the directory, and need it.
LEMMA LocalStep ==
    ASSUME IInv, NEW n \in Inits, NEW q \in Procs,
           init' = [init EXCEPT ![n] = q],
           PhaseOK(q),
           MayHold(init[n]) => MayHold(q),
           UNCHANGED <<mounts, conf, lower>>,
           \/ pivotDir' = pivotDir
           \/ pivotDir' = [pivotDir EXCEPT ![RootFS(n)] = TRUE] /\ MayHold(q),
           q.old => init[n].old \/ pivotDir[RootFS(n)],
           host' \subseteq {"mounts", "signal"},
           "mounts" \in host' => "mounts" \in host \/ ~conf[n].mountNs
    PROVE  IInv'
<1> USE DEF IInv, TypeOK
<1>1. init'[n] = q /\ \A m \in Inits \ {n} : init'[m] = init[m]
  OBVIOUS
<1>2. \A m \in Inits : RootFS(m)' = RootFS(m) /\ RootFS(m) \in Roots
  BY RootFSType DEF RootFS
<1>3. pivotDir' \in [Roots -> BOOLEAN] /\ \A r \in Roots : pivotDir[r] => pivotDir'[r]
  BY <1>2
<1>4. init' \in [Inits -> Procs]'
  BY DEF Procs, Places
<1>5. \A m \in Inits :
        init'[m].old => init'[m].root \in {"new", "inner"} /\ pivotDir'[RootFS(m)']
  BY <1>1, <1>2, <1>3 DEF PhaseOK
<1>6. TypeOK'
  BY <1>3, <1>4, <1>5
<1>7. Phases' /\ Listed'
  BY <1>1 DEF Phases, PhaseOK, Listed
<1>8. Held'
  <2> SUFFICES ASSUME NEW r \in Roots, pivotDir'[r]
               PROVE  \E m \in Inits : RootFS(m)' = r /\ MayHold(init'[m])
    BY DEF Held, MayHold
  <2>1. CASE pivotDir[r]
    <3>1. PICK m \in Inits : RootFS(m) = r /\ MayHold(init[m])
      BY <2>1 DEF Held
    <3> QED
      BY <3>1, <1>1, <1>2
  <2>2. CASE ~pivotDir[r]
    <3>1. r = RootFS(n) /\ MayHold(q)
      BY <2>2, <1>2
    <3> QED
      BY <3>1, <1>1, <1>2
  <2> QED
    BY <2>1, <2>2
<1>9. HostMountsUntouched'
  BY DEF HostMountsUntouched
<1> QED
  BY <1>6, <1>7, <1>8, <1>9

LEMMA HostOfMount ==
    ASSUME IInv, NEW n \in Inits, ~At(n, "private"), ~At(n, "dead"),
           host' = HostAfterMount(n) \/ host' = host
    PROVE  /\ host' \subseteq {"mounts", "signal"}
           /\ "mounts" \in host' => "mounts" \in host \/ ~conf[n].mountNs
BY DEF IInv, TypeOK, Phases, PhaseOK, At, HostAfterMount

LEMMA ExitStep ==
    ASSUME IInv, NEW n \in Inits, Exit(n),
           UNCHANGED <<mounts, conf, lower, pivotDir, host>>
    PROVE  IInv'
<1> USE DEF IInv, TypeOK
<1> DEFINE q == [init[n] EXCEPT !.pc = "dead", !.old = FALSE, !.tree = {}]
<1>1. q \in Procs /\ q.pc = "dead" /\ ~q.old
  BY ZenonT(40) DEF Procs
<1>2. init' = [init EXCEPT ![n] = q]
  BY DEF Exit
<1> HIDE DEF q
<1>3. PhaseOK(q) /\ MayHold(q)
  BY <1>1 DEF PhaseOK, MayHold
<1> QED
  BY <1>1, <1>2, <1>3, LocalStep

\* Only the program counter changes, and perhaps what is mounted.
LEMMA MoveStep ==
    ASSUME IInv, NEW n \in Inits, NEW pc, NEW tree, NEW next,
           init[n].pc \notin {"private", "dead"},
           LET q == [init[n] EXCEPT !.pc = pc, !.tree = tree, !.next = next]
           IN  /\ q \in Procs
               /\ init' = [init EXCEPT ![n] = q]
               /\ PhaseOK(q)
               /\ MayHold(init[n]) => MayHold(q),
           UNCHANGED <<mounts, conf, lower, pivotDir>>,
           host' = HostAfterMount(n) \/ host' = host
    PROVE  IInv'
<1> DEFINE q == [init[n] EXCEPT !.pc = pc, !.tree = tree, !.next = next]
<1>1. q.old = init[n].old
  BY DEF IInv, TypeOK, Procs
<1>2. /\ host' \subseteq {"mounts", "signal"}
      /\ "mounts" \in host' => "mounts" \in host \/ ~conf[n].mountNs
  BY HostOfMount DEF At
<1>3. q \in Procs /\ init' = [init EXCEPT ![n] = q] /\ PhaseOK(q)
      /\ (MayHold(init[n]) => MayHold(q))
  OBVIOUS
<1> HIDE DEF q
<1> QED
  BY <1>1, <1>2, <1>3, LocalStep

----------------------------------------------------------------------------
(* The invariant is inductive: one lemma per group of actions. *)

LEMMA InitIInv == Init => IInv
<1> SUFFICES ASSUME Init PROVE IInv
  OBVIOUS
<1> USE DEF Init
<1>1. Listed
  BY MountAssumption DEF Listed
<1>2. 1 \in 1..(Len(mounts) + 1)
  BY <1>1 DEF Listed
<1>3. [pc |-> "private", root |-> "host", old |-> FALSE, private |-> FALSE,
       tree |-> {}, next |-> 1, termed |-> FALSE] \in Procs
  BY <1>2 DEF Procs
<1>4. TypeOK
  BY <1>3 DEF TypeOK
<1>5. Phases /\ Held /\ HostMountsUntouched
  BY DEF Phases, PhaseOK, Held, HostMountsUntouched
<1> QED
  BY <1>1, <1>4, <1>5 DEF IInv

LEMMA PrivateIInv ==
    ASSUME IInv, NEW n \in Inits, MakeRootPrivate(n)
    PROVE  IInv'
<1> USE DEF IInv, TypeOK
<1>1. CASE Exit(n) /\ host' = host
  BY <1>1, ExitStep DEF MakeRootPrivate
<1>2. CASE ~(Exit(n) /\ host' = host)
  <2>0. PICK pc \in {"overlay", "proc", "shared"} :
            init' = [init EXCEPT ![n].private = TRUE, ![n].pc = pc]
    BY <1>2 DEF MakeRootPrivate, AfterPrivate
  <2>q. PICK q : q = [init[n] EXCEPT !.private = TRUE, !.pc = pc]
    OBVIOUS
  <2>1. /\ q \in Procs /\ q.pc = pc /\ q.private
        /\ q.old = init[n].old /\ q.root = init[n].root
    BY <2>q, init[n] \in Procs DEF Procs
  <2>2. init' = [init EXCEPT ![n] = q]
    BY <2>0, <2>q
  <2>3. init[n].pc = "private"
    BY DEF MakeRootPrivate, At
  <2>4. PhaseOK(q) /\ (MayHold(init[n]) => MayHold(q))
    BY <2>1, <2>3 DEF Phases, PhaseOK, MayHold
  <2>5. /\ host' \subseteq {"mounts", "signal"}
        /\ "mounts" \in host' => "mounts" \in host \/ ~conf[n].mountNs
    BY <1>2 DEF MakeRootPrivate
  <2> QED
    BY <2>1, <2>2, <2>4, <2>5, LocalStep DEF MakeRootPrivate
<1> QED
  BY <1>1, <1>2

\* The mounts before the root changes.
LEMMA EarlyMountIInv ==
    ASSUME IInv, NEW n \in Inits, MountOverlay(n) \/ MountProc(n)
    PROVE  IInv'
<1> USE DEF IInv, TypeOK
<1>1. CASE Exit(n) /\ host' = host
  BY <1>1, ExitStep DEF MountOverlay, MountProc
<1>2. CASE ~(Exit(n) /\ host' = host)
  <2>1. PICK d \in {<<>>, <<"proc">>}, pc \in {"proc", "pivotdir"} :
            init' = [init EXCEPT ![n].pc = pc, ![n].tree = Mounted(@, d, FALSE)]
    BY <1>2 DEF MountOverlay, MountProc
  <2> DEFINE t == Mounted(init[n].tree, d, FALSE)
             q == [init[n] EXCEPT !.pc = pc, !.tree = t]
  <2>2. t \in SUBSET [at : Places, ro : BOOLEAN]
    BY MountedType DEF Procs, Places
  <2> HIDE DEF t
  <2>3. /\ q \in Procs /\ q.pc = pc /\ q.old = init[n].old
        /\ q.root = init[n].root /\ q.private = init[n].private
    BY <2>2, init[n] \in Procs DEF Procs
  <2>4. init' = [init EXCEPT ![n] = q]
    BY <2>1 DEF t
  <2>5. init[n].pc \in {"overlay", "proc"}
    BY DEF MountOverlay, MountProc, At
  <2> HIDE DEF q
  <2>6. PhaseOK(q) /\ (MayHold(init[n]) => MayHold(q))
    BY <2>3, <2>5 DEF Phases, PhaseOK, MayHold
  <2>7. /\ host' \subseteq {"mounts", "signal"}
        /\ "mounts" \in host' => "mounts" \in host \/ ~conf[n].mountNs
    BY <1>2, <2>5, HostOfMount DEF MountOverlay, MountProc, At
  <2> QED
    BY <2>3, <2>4, <2>6, <2>7, LocalStep DEF MountOverlay, MountProc
<1> QED
  BY <1>1, <1>2

\* A step that changes the program counter only.
LEMMA GotoStep ==
    ASSUME IInv, NEW n \in Inits,
           NEW pc \in {"selfbind", "pivot", "chdir", "unmount", "rmdir", "chroot",
                       "mounts", "exec", "user"},
           Goto(n, pc),
           init[n].pc \notin {"private", "dead"},
           PhaseOK([init[n] EXCEPT !.pc = pc]),
           MayHold(init[n]) => MayHold([init[n] EXCEPT !.pc = pc]),
           UNCHANGED <<mounts, conf, lower>>,
           \/ pivotDir' = pivotDir
           \/ /\ pivotDir' = [pivotDir EXCEPT ![RootFS(n)] = TRUE]
              /\ MayHold([init[n] EXCEPT !.pc = pc]),
           host' = HostAfterMount(n) \/ host' = host
    PROVE  IInv'
<1> DEFINE q == [init[n] EXCEPT !.pc = pc]
<1>0. init[n] \in Procs
  BY DEF IInv, TypeOK
<1>1. q \in Procs /\ q.old = init[n].old
  BY <1>0, PcChange DEF Later
<1>2. init' = [init EXCEPT ![n] = q]
  BY DEF Goto, IInv, TypeOK
<1>3. /\ host' \subseteq {"mounts", "signal"}
      /\ "mounts" \in host' => "mounts" \in host \/ ~conf[n].mountNs
  BY HostOfMount DEF At
<1>4. /\ PhaseOK(q)
      /\ MayHold(init[n]) => MayHold(q)
      /\ \/ pivotDir' = pivotDir
         \/ pivotDir' = [pivotDir EXCEPT ![RootFS(n)] = TRUE] /\ MayHold(q)
  OBVIOUS
<1> HIDE DEF q
<1> QED
  BY <1>1, <1>2, <1>3, <1>4, LocalStep

\* PivotRoot up to pivot_root(2), and its chdir.
LEMMA PivotIInv ==
    ASSUME IInv, NEW n \in Inits,
           PivotMkdir(n) \/ SelfBind(n) \/ Pivot(n) \/ Chdir(n)
    PROVE  IInv'
<1>1. /\ init[n].pc \in {"pivotdir", "selfbind", "pivot", "chdir"}
      /\ UNCHANGED <<mounts, conf, lower>>
      /\ host' = HostAfterMount(n) \/ host' = host
  BY DEF PivotMkdir, SelfBind, Pivot, Chdir, At
<1>2. init[n] \in Procs
  BY DEF IInv, TypeOK
<1>3. ASSUME NEW pc \in {"selfbind", "pivot", "unmount", "chroot"}, Goto(n, pc),
             pc = "unmount" => init[n].pc = "chdir",
             \/ pivotDir' = pivotDir
             \/ pivotDir' = [pivotDir EXCEPT ![RootFS(n)] = TRUE]
      PROVE  IInv'
  <2> DEFINE q == [init[n] EXCEPT !.pc = pc]
  <2>1. /\ q \in Procs /\ q.pc = pc /\ q.root = init[n].root
        /\ q.old = init[n].old /\ q.private = init[n].private
    BY <1>2, PcChange DEF Later
  <2> HIDE DEF q
  <2>2. PhaseOK(init[n])
    BY DEF IInv, Phases
  <2>3. PhaseOK(q) /\ MayHold(q)
    BY <1>1, <1>3, <2>1, <2>2 DEF PhaseOK, MayHold
  <2> QED
    BY <1>1, <1>3, <2>3, GotoStep DEF q
<1>4. CASE PivotMkdir(n)
  BY <1>3, <1>4 DEF PivotMkdir
<1>5. CASE SelfBind(n)
  BY <1>3, <1>5 DEF SelfBind
<1>6. CASE Chdir(n)
  BY <1>3, <1>6 DEF Chdir, At
<1>7. CASE Pivot(n)
  <2>1. CASE Goto(n, "chroot")
    BY <1>3, <1>7, <2>1 DEF Pivot
  <2>2. CASE pivotDir[RootFS(n)] /\ ~Goto(n, "chroot")
    <3>q. PICK q : q = [init[n] EXCEPT !.pc = "chdir", !.root = "new", !.old = TRUE]
      OBVIOUS
    <3>1. init' = [init EXCEPT ![n] = q] /\ pivotDir' = pivotDir
      BY <1>7, <2>2, <3>q DEF Pivot, IInv, TypeOK
    <3>2. /\ q \in Procs /\ q.pc = "chdir" /\ q.root = "new"
          /\ q.private = init[n].private
      BY <1>2, <3>q DEF Procs
    <3>3. PhaseOK(q) /\ MayHold(q)
      BY <1>1, <3>2 DEF IInv, Phases, PhaseOK, MayHold
    <3>4. /\ host' \subseteq {"mounts", "signal"}
          /\ "mounts" \in host' => "mounts" \in host \/ ~conf[n].mountNs
      BY <1>1, HostOfMount DEF At
    <3> QED
      BY <1>1, <2>2, <3>1, <3>2, <3>3, <3>4, LocalStep
  <2> QED
    BY <1>7, <2>1, <2>2 DEF Pivot
<1> QED
  BY <1>4, <1>5, <1>6, <1>7

LEMMA UnmountIInv ==
    ASSUME IInv, NEW n \in Inits, UnmountOld(n)
    PROVE  IInv'
<1>1. init[n].pc = "unmount" /\ init[n] \in Procs /\ PhaseOK(init[n])
  BY DEF UnmountOld, At, IInv, TypeOK, Phases
<1>2. CASE Goto(n, "chroot")
  <2>q. PICK q : q = [init[n] EXCEPT !.pc = "chroot"]
    OBVIOUS
  <2>1. /\ q \in Procs /\ q.pc = "chroot" /\ q.root = init[n].root
        /\ q.old = init[n].old /\ q.private = init[n].private
    BY <1>1, <2>q, PcChange DEF Later
  <2>2. PhaseOK(q) /\ MayHold(q)
    BY <1>1, <2>1 DEF PhaseOK, MayHold
  <2> QED
    BY <1>1, <1>2, <2>q, <2>2, GotoStep DEF UnmountOld
<1>3. CASE ~Goto(n, "chroot")
  <2>q. PICK q : q = [init[n] EXCEPT !.pc = "rmdir", !.old = FALSE]
    OBVIOUS
  <2>1. init' = [init EXCEPT ![n] = q]
    BY <1>3, <2>q DEF UnmountOld, IInv, TypeOK
  <2>2. /\ q \in Procs /\ q.pc = "rmdir" /\ q.root = "new"
        /\ ~q.old /\ q.private
    BY <1>1, <2>q DEF Procs, PhaseOK
  <2>3. PhaseOK(q) /\ MayHold(q)
    BY <2>2 DEF PhaseOK, MayHold
  <2> QED
    BY <2>1, <2>2, <2>3, LocalStep DEF UnmountOld, IInv, TypeOK
<1> QED
  BY <1>2, <1>3

\* The directory is taken away, and with it what others have mounted there.
LEMMA DetachStep ==
    ASSUME IInv, NEW n \in Inits, NEW q \in Procs, ~q.old, PhaseOK(q),
           pivotDir' = [pivotDir EXCEPT ![RootFS(n)] = FALSE],
           init' = [Detached(RootFS(n)) EXCEPT ![n] = q],
           UNCHANGED <<mounts, conf, lower, host>>
    PROVE  IInv'
<1>1. init' = [m \in Inits |->
                 IF m = n THEN q
                 ELSE IF RootFS(m) = RootFS(n) THEN [init[m] EXCEPT !.old = FALSE]
                 ELSE init[m]]
  BY DEF Detached
<1>2. ASSUME NEW m \in Inits
      PROVE  /\ init'[m] \in Procs /\ PhaseOK(init'[m])
             /\ init'[m].old => init[m].old /\ RootFS(m) # RootFS(n)
             /\ m # n => init'[m].pc = init[m].pc /\ init'[m].root = init[m].root
  <2>1. init[m] \in Procs /\ PhaseOK(init[m])
    BY DEF IInv, TypeOK, Phases
  <2>2. CASE m = n
    BY <1>1, <2>2
  <2>3. CASE m # n /\ RootFS(m) = RootFS(n)
    <3>q. PICK s : s = [init[m] EXCEPT !.old = FALSE]
      OBVIOUS
    <3>1. /\ s \in Procs /\ s.pc = init[m].pc /\ s.root = init[m].root
          /\ ~s.old /\ s.private = init[m].private
      BY <2>1, <3>q DEF Procs
    <3>2. init'[m] = s
      BY <1>1, <2>3, <3>q
    <3> QED
      BY <2>1, <3>1, <3>2 DEF PhaseOK
  <2>4. CASE m # n /\ RootFS(m) # RootFS(n)
    <3>1. init'[m] = init[m]
      BY <1>1, <2>4
    <3> QED
      BY <2>1, <2>4, <3>1
  <2> QED
    BY <2>2, <2>3, <2>4
<1>3. \A m \in Inits : RootFS(m)' = RootFS(m) /\ RootFS(m) \in Roots
  BY RootFSType DEF RootFS
<1>4. pivotDir \in [Roots -> BOOLEAN]
  BY DEF IInv, TypeOK
<1>5. ASSUME NEW m \in Inits, init'[m].old
      PROVE  init'[m].root \in {"new", "inner"} /\ pivotDir'[RootFS(m)']
  <2>1. init[m].old /\ RootFS(m) # RootFS(n) /\ PhaseOK(init'[m])
    BY <1>2, <1>5
  <2>2. pivotDir[RootFS(m)]
    BY <2>1 DEF IInv, TypeOK
  <2>3. pivotDir'[RootFS(m)']
    BY <1>3, <1>4, <2>1, <2>2
  <2> QED
    BY <1>5, <2>1, <2>3 DEF PhaseOK
<1>6. TypeOK'
  <2>1. init' \in [Inits -> Procs]'
    BY <1>1, <1>2, ZenonT(40) DEF Procs, Places
  <2>2. pivotDir' \in [Roots -> BOOLEAN]
    BY <1>4
  <2> QED
    BY <1>5, <2>1, <2>2 DEF IInv, TypeOK
<1>7. Phases' /\ Listed' /\ HostMountsUntouched'
  BY <1>2 DEF IInv, Phases, PhaseOK, Listed, HostMountsUntouched
<1>8. Held'
  <2> SUFFICES ASSUME NEW r \in Roots, pivotDir'[r]
               PROVE  \E m \in Inits : RootFS(m)' = r /\ MayHold(init'[m])
    BY DEF Held, MayHold
  <2>1. r # RootFS(n) /\ pivotDir[r]
    BY <1>3, <1>4
  <2>2. PICK m \in Inits : RootFS(m) = r /\ MayHold(init[m])
    BY <2>1 DEF IInv, Held
  <2>3. m # n
    BY <2>1, <2>2
  <2> QED
    BY <1>2, <1>3, <2>2, <2>3 DEF MayHold
<1> QED
  BY <1>6, <1>7, <1>8 DEF IInv

\* The rmdir changes the other containers of the root too.
LEMMA RemoveIInv ==
    ASSUME IInv, NEW n \in Inits, RemoveOld(n)
    PROVE  IInv'
<1>1. init[n].pc = "rmdir" /\ init[n] \in Procs /\ PhaseOK(init[n])
  BY DEF RemoveOld, At, IInv, TypeOK, Phases
<1>2. CASE Goto(n, "chroot") /\ pivotDir' = pivotDir
  <2>q. PICK q : q = [init[n] EXCEPT !.pc = "chroot"]
    OBVIOUS
  <2>1. /\ q \in Procs /\ q.pc = "chroot" /\ q.root = init[n].root
        /\ q.old = init[n].old /\ q.private = init[n].private
    BY <1>1, <2>q, PcChange DEF Later
  <2>2. PhaseOK(q) /\ MayHold(q)
    BY <1>1, <2>1 DEF PhaseOK, MayHold
  <2> QED
    BY <1>1, <1>2, <2>q, <2>2, GotoStep DEF RemoveOld
<1>3. CASE ~(Goto(n, "chroot") /\ pivotDir' = pivotDir)
  <2>1. /\ pivotDir' = [pivotDir EXCEPT ![RootFS(n)] = FALSE]
        /\ init' = [Detached(RootFS(n)) EXCEPT ![n].pc = "mounts"]
        /\ UNCHANGED <<mounts, conf, lower, host>>
    BY <1>3 DEF RemoveOld
  <2>q. PICK q : q = [init[n] EXCEPT !.old = FALSE, !.pc = "mounts"]
    OBVIOUS
  <2>2. init' = [Detached(RootFS(n)) EXCEPT ![n] = q]
    BY <2>1, <2>q DEF Detached
  <2>3. /\ q \in Procs /\ q.pc = "mounts" /\ q.root = "new"
        /\ ~q.old /\ q.private
    BY <1>1, <2>q DEF Procs, PhaseOK
  <2>4. PhaseOK(q)
    BY <2>3 DEF PhaseOK
  <2> QED
    BY <2>1, <2>2, <2>3, <2>4, DetachStep
<1> QED
  BY <1>2, <1>3

\* A container on the host's mount table makes and removes the directory.
LEMMA RunOnHostIInv ==
    ASSUME IInv, NEW n \in Inits, RunOnHost(n)
    PROVE  IInv'
<1>1. init[n].pc = "shared" /\ init[n] \in Procs /\ PhaseOK(init[n])
  BY DEF RunOnHost, At, IInv, TypeOK, Phases
<1>2. CASE pivotDir' = [pivotDir EXCEPT ![RootFS(n)] = TRUE] /\ init' = init
  <2>1. init' = [init EXCEPT ![n] = init[n]]
    BY <1>2 DEF IInv, TypeOK
  <2>2. MayHold(init[n])
    BY <1>1 DEF MayHold
  <2>3. /\ host' \subseteq {"mounts", "signal"}
        /\ "mounts" \in host' => "mounts" \in host
    BY DEF RunOnHost, IInv, TypeOK
  <2> QED
    BY <1>1, <1>2, <2>1, <2>2, <2>3, LocalStep DEF RunOnHost
<1>3. CASE ~(pivotDir' = [pivotDir EXCEPT ![RootFS(n)] = TRUE] /\ init' = init)
  <2>1. /\ pivotDir' = [pivotDir EXCEPT ![RootFS(n)] = FALSE]
        /\ init' = Detached(RootFS(n))
        /\ UNCHANGED <<mounts, conf, lower, host>>
    BY <1>3 DEF RunOnHost
  <2>q. PICK q : q = [init[n] EXCEPT !.old = FALSE]
    OBVIOUS
  <2>2. init' = [Detached(RootFS(n)) EXCEPT ![n] = q]
    BY <2>1, <2>q DEF Detached
  <2>3. /\ q \in Procs /\ q.pc = "shared" /\ ~q.old /\ q.private
        /\ q.root # "inner"
    BY <1>1, <2>q DEF Procs, PhaseOK
  <2>4. PhaseOK(q)
    BY <2>3 DEF PhaseOK
  <2> QED
    BY <2>1, <2>2, <2>3, <2>4, DetachStep
<1> QED
  BY <1>2, <1>3

LEMMA ChrootIInv ==
    ASSUME IInv, NEW n \in Inits, FallbackChroot(n)
    PROVE  IInv'
<1>1. init[n].pc = "chroot" /\ init[n] \in Procs /\ PhaseOK(init[n])
  BY DEF FallbackChroot, At, IInv, TypeOK, Phases
<1>2. CASE Exit(n)
  BY <1>2, ExitStep DEF FallbackChroot
<1>3. CASE ~Exit(n) /\ init[n].root # "new"
  <2>q. PICK q : q = [init[n] EXCEPT !.pc = "mounts", !.root = "jail"]
    OBVIOUS
  <2>1. init' = [init EXCEPT ![n] = q] /\ init[n].root = "host"
    BY <1>3, <2>q DEF FallbackChroot, IInv, TypeOK
  <2>2. /\ q \in Procs /\ q.pc = "mounts" /\ q.root = "jail"
        /\ q.old = init[n].old /\ q.private = init[n].private
    BY <1>1, <2>q DEF Procs
  <2>3. PhaseOK(q) /\ MayHold(q) /\ ~q.old
    BY <1>1, <2>1, <2>2 DEF PhaseOK, MayHold
  <2> QED
    BY <2>1, <2>2, <2>3, LocalStep DEF FallbackChroot, IInv, TypeOK
<1>4. CASE ~Exit(n) /\ init[n].root = "new"
  <2>q. PICK q : q = [init[n] EXCEPT !.pc = "mounts", !.root = "inner", !.tree = {}]
    OBVIOUS
  <2>1. init' = [init EXCEPT ![n] = q]
    BY <1>4, <2>q DEF FallbackChroot, IInv, TypeOK
  <2>2. /\ q \in Procs /\ q.pc = "mounts" /\ q.root = "inner"
        /\ q.old = init[n].old /\ q.private = init[n].private
    BY <1>1, <2>q, ZenonT(40) DEF Procs
  <2>3. PhaseOK(q) /\ MayHold(q)
    BY <1>1, <2>2 DEF PhaseOK, MayHold
  <2> QED
    BY <2>1, <2>2, <2>3, LocalStep DEF FallbackChroot, IInv, TypeOK
<1> QED
  BY <1>2, <1>3, <1>4

\* Each entry of the list is within it, and has a place among the mounts.
LEMMA EntryPlace ==
    ASSUME IInv, NEW n \in Inits, init[n].next <= Len(mounts)
    PROVE  /\ init[n].next \in 1..Len(mounts)
           /\ init[n].next + 1 \in 1..(Len(mounts) + 1)
           /\ Entry(n).dest \in Places
<1>1. /\ init[n].next \in 1..(Len(mounts) + 1) /\ Len(mounts) \in Nat
      /\ DOMAIN mounts = 1..Len(mounts)
  BY DEF IInv, TypeOK, Listed, Procs
<1> QED
  BY <1>1 DEF Entry, Places, Range

\* An entry that is mounted, or leaves the table as it is.
LEMMA EntryStep ==
    ASSUME IInv, NEW n \in Inits, At(n, "mounts"), init[n].next <= Len(mounts),
           NEW tree \in SUBSET [at : Places, ro : BOOLEAN],
           init' = [init EXCEPT ![n].tree = tree, ![n].next = @ + 1],
           UNCHANGED <<mounts, conf, lower, pivotDir>>,
           host' = HostAfterMount(n) \/ host' = host
    PROVE  IInv'
<1>1. init[n].pc = "mounts" /\ init[n] \in Procs /\ PhaseOK(init[n])
  BY DEF At, IInv, TypeOK, Phases
<1>q. PICK q : q = [init[n] EXCEPT !.tree = tree, !.next = @ + 1]
  OBVIOUS
<1>2. /\ q \in Procs /\ q.pc = "mounts" /\ q.root = init[n].root
      /\ q.old = init[n].old /\ q.private = init[n].private
  BY <1>1, <1>q, EntryPlace DEF Procs
<1>3. init' = [init EXCEPT ![n] = q]
  BY <1>q DEF IInv, TypeOK
<1>4. PhaseOK(q) /\ (MayHold(init[n]) => MayHold(q))
  BY <1>1, <1>2 DEF PhaseOK, MayHold
<1>5. /\ host' \subseteq {"mounts", "signal"}
      /\ "mounts" \in host' => "mounts" \in host \/ ~conf[n].mountNs
  BY <1>1, HostOfMount DEF At
<1> QED
  BY <1>2, <1>3, <1>4, <1>5, LocalStep

LEMMA MountSpecIInv ==
    ASSUME IInv, NEW n \in Inits, MountSpec(n)
    PROVE  IInv'
<1>0. EntryIsRO(n) \in BOOLEAN
  BY DEF EntryIsRO
<1>1. At(n, "mounts") /\ init[n] \in Procs /\ PhaseOK(init[n])
  BY DEF MountSpec, MountNew, MountBind, MountAgain, MountPropagation,
         MountNothing, Mounting, IInv, TypeOK, Phases
<1>2. CASE Refused(n)
  BY <1>2, ExitStep DEF Refused
<1>3. ASSUME NEW tree \in SUBSET [at : Places, ro : BOOLEAN], Applies(n, tree),
             init[n].next <= Len(mounts)
      PROVE  IInv'
  BY <1>1, <1>3, EntryStep DEF Applies
<1>t. ASSUME NEW ro \in BOOLEAN, init[n].next <= Len(mounts)
      PROVE  /\ Mounted(init[n].tree, Entry(n).dest, ro)
                   \in SUBSET [at : Places, ro : BOOLEAN]
             /\ Remounted(init[n].tree, Entry(n).dest, ro)
                   \in SUBSET [at : Places, ro : BOOLEAN]
  BY <1>1, <1>t, EntryPlace, MountedType, RemountedType DEF Procs
<1>4. CASE MountNew(n) /\ ~Refused(n)
  BY <1>0, <1>3, <1>t, <1>4 DEF MountNew, Mounting
<1>5. CASE MountBind(n) /\ ~Refused(n)
  BY <1>3, <1>t, <1>5 DEF MountBind, Mounting
<1>6. CASE MountAgain(n) /\ ~Refused(n)
  BY <1>0, <1>3, <1>t, <1>6 DEF MountAgain, Mounting
<1>7. ASSUME init[n].next <= Len(mounts),
             init' = [init EXCEPT ![n].next = @ + 1],
             UNCHANGED <<mounts, conf, lower, pivotDir, host>>
      PROVE  IInv'
  <2>1. init' = [init EXCEPT ![n].tree = init[n].tree, ![n].next = @ + 1]
    BY <1>1, <1>7 DEF IInv, TypeOK, Procs
  <2>2. init[n].tree \in SUBSET [at : Places, ro : BOOLEAN]
    BY <1>1 DEF Procs
  <2> QED
    BY <1>1, <1>7, <2>1, <2>2, EntryStep
<1>8. CASE MountPropagation(n) /\ ~Refused(n)
  BY <1>7, <1>8 DEF MountPropagation, Mounting
<1>9. CASE MountNothing(n)
  <2>1. CASE init[n].next > Len(mounts)
    <3>q. PICK q : q = [init[n] EXCEPT !.pc = "exec"]
      OBVIOUS
    <3>1. /\ q \in Procs /\ q.pc = "exec" /\ q.root = init[n].root
          /\ q.old = init[n].old /\ q.private = init[n].private
      BY <1>1, <3>q, PcChange DEF Later
    <3>2. PhaseOK(q) /\ (MayHold(init[n]) => MayHold(q))
      BY <1>1, <3>1 DEF PhaseOK, MayHold, At
    <3> QED
      BY <1>1, <1>9, <2>1, <3>q, <3>2, GotoStep DEF MountNothing, At
  <2>2. CASE ~(init[n].next > Len(mounts))
    <3>1. init[n].next <= Len(mounts)
      BY <1>1, <2>2 DEF Procs, IInv, Listed
    <3> QED
      BY <1>7, <1>9, <2>2, <3>1 DEF MountNothing
  <2> QED
    BY <2>1, <2>2
<1> QED
  BY <1>2, <1>4, <1>5, <1>6, <1>8, <1>9 DEF MountSpec

\* Exec, and the ends of a process.
LEMMA EndIInv ==
    ASSUME IInv, NEW n \in Inits, Exec(n) \/ Terminate(n) \/ UserExit(n)
    PROVE  IInv'
<1>1. init[n] \in Procs /\ PhaseOK(init[n])
  BY DEF IInv, TypeOK, Phases
<1>2. CASE Exec(n)
  <2>1. CASE Exit(n)
    BY <1>2, <2>1, ExitStep DEF Exec
  <2>2. CASE ~Exit(n)
    <3>q. PICK q : q = [init[n] EXCEPT !.pc = "user"]
      OBVIOUS
    <3>1. /\ q \in Procs /\ q.pc = "user" /\ q.root = init[n].root
          /\ q.old = init[n].old /\ q.private = init[n].private
      BY <1>1, <3>q, PcChange DEF Later
    <3>2. PhaseOK(q) /\ (MayHold(init[n]) => MayHold(q))
      BY <1>1, <1>2, <3>1 DEF PhaseOK, MayHold, Exec, At
    <3> QED
      BY <1>2, <2>2, <3>q, <3>2, GotoStep DEF Exec, At
  <2> QED
    BY <2>1, <2>2
<1>3. CASE UserExit(n)
  BY <1>3, ExitStep DEF UserExit
<1>4. CASE Terminate(n) /\ conf[n].pidNs
  <2>q. PICK q : q = [init[n] EXCEPT !.termed = TRUE]
    OBVIOUS
  <2>1. init' = [init EXCEPT ![n] = q]
    BY <1>4, <2>q DEF Terminate, IInv, TypeOK
  <2>2. /\ q \in Procs /\ q.pc = init[n].pc /\ q.root = init[n].root
        /\ q.old = init[n].old /\ q.private = init[n].private
    BY <1>1, <2>q DEF Procs
  <2>3. PhaseOK(q) /\ (MayHold(init[n]) => MayHold(q))
    BY <1>1, <2>2 DEF PhaseOK, MayHold
  <2> QED
    BY <1>4, <2>1, <2>2, <2>3, LocalStep DEF Terminate, IInv, TypeOK
<1>5. CASE Terminate(n) /\ ~conf[n].pidNs
  <2>q. PICK q : q = [init[n] EXCEPT !.termed = TRUE, !.pc = "dead",
                                     !.old = FALSE, !.tree = {}]
    OBVIOUS
  <2>1. init' = [init EXCEPT ![n] = q]
    BY <1>5, <2>q DEF Terminate, IInv, TypeOK
  <2>2. q \in Procs /\ q.pc = "dead" /\ ~q.old
    BY <1>1, <2>q DEF Procs
  <2>3. PhaseOK(q) /\ MayHold(q)
    BY <2>2 DEF PhaseOK, MayHold
  <2>4. /\ host' \subseteq {"mounts", "signal"}
        /\ "mounts" \in host' => "mounts" \in host
    BY <1>5 DEF Terminate, IInv, TypeOK
  <2> QED
    BY <1>5, <2>1, <2>2, <2>3, <2>4, LocalStep DEF Terminate
<1> QED
  BY <1>2, <1>3, <1>4, <1>5

LEMMA StutterIInv == IInv /\ UNCHANGED vars => IInv'
BY DEF IInv, TypeOK, Listed, Phases, PhaseOK, Held, MayHold, HostMountsUntouched,
       vars, RootFS, Procs, Places

LEMMA NextIInv == IInv /\ [Next]_vars => IInv'
<1> SUFFICES ASSUME IInv, Next PROVE IInv'
  BY StutterIInv
<1>1. PICK n \in Inits : RunInitProcess(n) \/ Terminate(n) \/ UserExit(n)
  BY DEF Next
<1> QED
  BY <1>1, PrivateIInv, EarlyMountIInv, PivotIInv, UnmountIInv, RemoveIInv,
     ChrootIInv, MountSpecIInv, EndIInv, RunOnHostIInv DEF RunInitProcess

LEMMA Inductive == Spec => []IInv
BY InitIInv, NextIInv, PTL DEF Spec

----------------------------------------------------------------------------
(* The theorems. *)

\* The types of the variables, and where the old root can be mounted: on an
\* existing .pivot_old, in a process that has pivoted, whether or not it has
\* been taken into a directory of its new root since (exec.go:119-219).
THEOREM TypeCorrect == Spec => []TypeOK
<1>1. IInv => TypeOK
  BY DEF IInv
<1> QED
  BY <1>1, Inductive, PTL

\* Whichever system call of PivotRoot fails (mount.go:184-223), and whatever
\* the containers of the same bundle do to .pivot_old, the program of a
\* container with a mount namespace does not run on the host's root, nor in a
\* pivoted root with the host's mounted in it; the latter may be so outside of
\* the directory that the fallback found inside the pivoted root (exec.go:161).
THEOREM AlwaysInside == Spec => []Inside
<1>1. IInv => Inside
  BY DEF IInv, Phases, PhaseOK, Inside, At
<1> QED
  BY <1>1, Inductive, PTL

\* Containers with a mount namespace leave the host's mount table alone
\* (mount.go:34-48).
THEOREM HostIsUntouched == Spec => []HostMountsUntouched
<1>1. IInv => HostMountsUntouched
  BY DEF IInv
<1> QED
  BY <1>1, Inductive, PTL

\* A .pivot_old that outlives a start belongs to a container that ended, or
\* fell back to chroot, on the way (mount.go:189-219).
THEOREM PivotDirIsRemoved == Spec => []PivotDirRemoved
<1>1. IInv => PivotDirRemoved
  BY DEF IInv, TypeOK, Held, MayHold, PivotDirRemoved, At, Procs
<1> QED
  BY <1>1, Inductive, PTL

----------------------------------------------------------------------------
(* MountsVisible, of which the invariant speaks entry by entry: after the   *)
(* first of them, every entry that none of these covers is in the table.    *)

Spots(tree) == {t.at : t \in tree}

Seen(q) == Spots(q.tree)

\* None of the entries after the k-th and before entry next covers it.
OnTopBefore(k, next) ==
    \A j \in (k + 1)..(next - 1) : ~IsPrefix(mounts[j].dest, mounts[k].dest)

ShowOK(q, overlay) ==
    /\ q.root # "inner" =>
         /\ q.pc \notin {"private", "shared", "overlay", "dead"} /\ overlay
              => <<>> \in Seen(q)
         /\ q.pc \notin {"private", "shared", "overlay", "proc", "dead"}
              => <<"proc">> \in Seen(q)
    /\ q.pc \notin {"mounts", "exec", "user", "dead"} => q.next = 1
    /\ q.pc \in {"exec", "user"} => q.next = Len(mounts) + 1
    /\ q.pc # "dead" =>
         \A k \in 1..(q.next - 1) :
           /\ OnTopBefore(k, q.next)
           /\ q.root = "inner" => mounts[k].dest # <<"proc">>
           => mounts[k].dest \in Seen(q)

Shown == \A n \in Inits : ShowOK(init[n], conf[n].overlay)

\* No entry is mounted over the container's root itself.
NothingOnRoot == \A l \in MountLists : \A k \in DOMAIN l : l[k].dest # <<>>

RootIsFree == \A k \in DOMAIN mounts : mounts[k].dest # <<>>

\* What a mount at a path other than / and /proc leaves in sight.
LEMMA NotCovered ==
    ASSUME NEW d \in Seq(STRING), d # <<>>
    PROVE  /\ ~IsPrefix(d, <<>>)
           /\ d # <<"proc">> => ~IsPrefix(d, <<"proc">>)
<1>1. Len(d) \in Nat /\ Len(d) # 0
  OBVIOUS
<1>2. ~IsPrefix(d, <<>>)
  BY <1>1 DEF IsPrefix
<1>3. ASSUME IsPrefix(d, <<"proc">>) PROVE d = <<"proc">>
  <2>1. Len(d) = 1 /\ SubSeq(d, 1, 1) = SubSeq(<<"proc">>, 1, 1)
    BY <1>1, <1>3 DEF IsPrefix
  <2>2. d[1] = "proc"
    BY <2>1
  <2> QED
    BY <2>1, <2>2
<1> QED
  BY <1>2, <1>3

LEMMA NotSelf == ~IsPrefix(<<"proc">>, <<>>)
<1>1. Len(<<"proc">>) = 1 /\ Len(<<>>) = 0
  OBVIOUS
<1> QED
  BY <1>1 DEF IsPrefix

LEMMA MountedSeen ==
    ASSUME NEW tree, NEW d, NEW ro, NEW at
    PROVE  at \in Spots(Mounted(tree, d, ro))
             <=> at = d \/ (at \in Spots(tree) /\ ~IsPrefix(d, at))
<1> DEFINE new == [at |-> d, ro |-> ro]
<1>1. Mounted(tree, d, ro) = {t \in tree : ~IsPrefix(d, t.at)} \cup {new}
  BY DEF Mounted
<1>2. new.at = d
  OBVIOUS
<1> HIDE DEF new
<1>3. (\E t \in Mounted(tree, d, ro) : t.at = at)
        <=> at = d \/ \E t \in tree : t.at = at /\ ~IsPrefix(d, at)
  BY <1>1, <1>2
<1> QED
  BY <1>3 DEF Spots

\* A remount leaves everything in sight.
LEMMA RemountedSeen ==
    ASSUME NEW tree, NEW d, NEW ro, NEW at
    PROVE  at \in Spots(Remounted(tree, d, ro)) <=> at = d \/ at \in Spots(tree)
<1> DEFINE new == [at |-> d, ro |-> ro]
<1>1. Remounted(tree, d, ro) = {t \in tree : t.at # d} \cup {new}
  BY DEF Remounted
<1>2. new.at = d
  OBVIOUS
<1> HIDE DEF new
<1>3. (\E t \in Remounted(tree, d, ro) : t.at = at)
        <=> at = d \/ \E t \in tree : t.at = at
  BY <1>1, <1>2
<1> QED
  BY <1>3 DEF Spots

\* A step that changes no mount of the process.
LEMMA ShowSame ==
    ASSUME NEW p, NEW q, NEW overlay, ShowOK(p, overlay),
           q.tree = p.tree, q.next = p.next, p.pc # "dead",
           p.root = "inner" => q.root = "inner",
           overlay /\ q.pc \notin {"private", "shared", "overlay", "dead"}
             => p.pc \notin {"private", "shared", "overlay"},
           q.pc \notin {"private", "shared", "overlay", "proc", "dead"}
             => p.pc \notin {"private", "shared", "overlay", "proc"},
           q.pc \notin {"mounts", "exec", "user", "dead"}
             => p.pc \notin {"mounts", "exec", "user"},
           q.pc \in {"exec", "user"}
             => p.pc \in {"exec", "user"} \/ p.next = Len(mounts) + 1
    PROVE  ShowOK(q, overlay)
BY DEF ShowOK, Seen

LEMMA ShowDead == ASSUME NEW q, NEW overlay, q.pc = "dead" PROVE ShowOK(q, overlay)
BY DEF ShowOK

\* The processes that do not take the step.
LEMMA OthersSame ==
    ASSUME IInv, NEW n \in Inits, NEW m \in Inits, m # n,
           RunInitProcess(n) \/ Terminate(n) \/ UserExit(n)
    PROVE  /\ init'[m].pc = init[m].pc
           /\ init'[m].tree = init[m].tree
           /\ init'[m].next = init[m].next
           /\ init'[m].root = init[m].root
<1>1. init \in [Inits -> Procs]
  BY DEF IInv, TypeOK
<1>2. CASE RemoveOld(n) \/ RunOnHost(n)
  <2>1. init'[m] \in {init[m], [init[m] EXCEPT !.old = FALSE]}
    BY <1>1, <1>2 DEF RemoveOld, RunOnHost, Detached, Goto
  <2> QED
    BY <1>1, <2>1 DEF Procs
<1>3. CASE ~(RemoveOld(n) \/ RunOnHost(n))
  BY <1>1, <1>3 DEF RunInitProcess, MakeRootPrivate, MountOverlay, MountProc, PivotMkdir,
     SelfBind, Pivot, Chdir, UnmountOld, FallbackChroot, MountSpec, MountNew, MountBind,
     MountAgain, MountPropagation, MountNothing, Applies, Refused, Exec, Terminate,
     UserExit, Goto, Exit
<1> QED
  BY <1>2, <1>3

\* The steps of a process before its first entry and after its last change none
\* of its mounts, unless they end it or take it into a directory of its root.
LEMMA RootStepsKeep ==
    ASSUME IInv, NEW n \in Inits, init'[n].pc # "dead",
           \/ MakeRootPrivate(n) \/ PivotMkdir(n) \/ SelfBind(n) \/ Pivot(n)
           \/ Chdir(n) \/ UnmountOld(n) \/ RemoveOld(n) \/ RunOnHost(n)
           \/ FallbackChroot(n) /\ init[n].root # "new"
           \/ Exec(n) \/ Terminate(n) \/ UserExit(n)
    PROVE  /\ init'[n].tree = init[n].tree /\ init'[n].next = init[n].next
           /\ init[n].pc # "dead"
           /\ init[n].root = "inner" => init'[n].root = "inner"
           /\ \/ init'[n].pc = init[n].pc
              \/ init[n].pc = "private" /\ init'[n].pc = AfterPrivate(n)
              \/ /\ init[n].pc \in {"pivotdir", "selfbind", "pivot", "chdir",
                                    "unmount", "rmdir", "chroot"}
                 /\ init'[n].pc \in {"pivotdir", "selfbind", "pivot", "chdir",
                                     "unmount", "rmdir", "chroot", "mounts"}
              \/ init[n].pc = "exec" /\ init'[n].pc = "user"
<1>1. init \in [Inits -> Procs] /\ PhaseOK(init[n])
  BY DEF IInv, TypeOK, Phases
<1>2. CASE RemoveOld(n)
  <2>1. /\ init[n].pc = "rmdir"
        /\ \/ init'[n] = [init[n] EXCEPT !.pc = "chroot"]
           \/ init'[n] = [init[n] EXCEPT !.old = FALSE, !.pc = "mounts"]
    BY <1>1, <1>2 DEF RemoveOld, Detached, Goto, At
  <2> QED
    BY <1>1, <2>1 DEF Procs
<1>h. CASE RunOnHost(n)
  <2>1. /\ init[n].pc = "shared"
        /\ init'[n] \in {init[n], [init[n] EXCEPT !.old = FALSE]}
    BY <1>1, <1>h DEF RunOnHost, Detached, At
  <2> QED
    BY <1>1, <2>1 DEF Procs
<1>3. CASE MakeRootPrivate(n)
  BY <1>1, <1>3 DEF MakeRootPrivate, Exit, At, Procs
<1>4. CASE PivotMkdir(n) \/ SelfBind(n) \/ Chdir(n) \/ UnmountOld(n)
  BY <1>1, <1>4 DEF PivotMkdir, SelfBind, Chdir, UnmountOld, Goto, At, Procs
<1>5. CASE Pivot(n)
  BY <1>1, <1>5 DEF Pivot, Goto, At, PhaseOK, Procs
<1>6. CASE FallbackChroot(n) /\ init[n].root # "new"
  BY <1>1, <1>6 DEF FallbackChroot, Exit, At, PhaseOK, Procs
<1>7. CASE Exec(n) \/ Terminate(n) \/ UserExit(n)
  BY <1>1, <1>7 DEF Exec, Terminate, UserExit, Goto, Exit, At, Procs
<1> QED
  BY <1>2, <1>h, <1>3, <1>4, <1>5, <1>6, <1>7

\* The fallback inside the pivoted root is followed by all the mounts there are.
LEMMA InnerChrootShows ==
    ASSUME IInv, NEW n \in Inits, ShowOK(init[n], conf[n].overlay),
           FallbackChroot(n), init[n].root = "new"
    PROVE  ShowOK(init'[n], conf[n].overlay)
<1>1. init \in [Inits -> Procs] /\ init[n].pc = "chroot"
  BY DEF IInv, TypeOK, FallbackChroot, At
<1>2. CASE Exit(n)
  <2>1. init'[n].pc = "dead"
    BY <1>1, <1>2 DEF Exit, Procs
  <2> QED
    BY <2>1, ShowDead
<1>3. CASE ~Exit(n)
  <2>1. init'[n].pc = "mounts" /\ init'[n].root = "inner" /\ init'[n].next = init[n].next
    BY <1>1, <1>3 DEF FallbackChroot, Procs
  <2>2. init[n].next = 1
    BY <1>1 DEF ShowOK
  <2> QED
    BY <2>1, <2>2 DEF ShowOK
<1> QED
  BY <1>2, <1>3

LEMMA RootSteps ==
    ASSUME IInv, NEW n \in Inits, ShowOK(init[n], conf[n].overlay),
           \/ MakeRootPrivate(n) \/ PivotMkdir(n) \/ SelfBind(n) \/ Pivot(n)
           \/ Chdir(n) \/ UnmountOld(n) \/ RemoveOld(n) \/ RunOnHost(n)
           \/ FallbackChroot(n) \/ Exec(n) \/ Terminate(n) \/ UserExit(n)
    PROVE  ShowOK(init'[n], conf[n].overlay)
<1>1. CASE init'[n].pc = "dead"
  BY <1>1, ShowDead
<1>2. CASE FallbackChroot(n) /\ init[n].root = "new"
  BY <1>2, InnerChrootShows
<1>3. CASE init'[n].pc # "dead" /\ ~(FallbackChroot(n) /\ init[n].root = "new")
  <2>1. /\ init'[n].tree = init[n].tree /\ init'[n].next = init[n].next
        /\ init[n].pc # "dead"
        /\ init[n].root = "inner" => init'[n].root = "inner"
        /\ \/ init'[n].pc = init[n].pc
           \/ init[n].pc = "private" /\ init'[n].pc = AfterPrivate(n)
           \/ /\ init[n].pc \in {"pivotdir", "selfbind", "pivot", "chdir",
                                 "unmount", "rmdir", "chroot"}
              /\ init'[n].pc \in {"pivotdir", "selfbind", "pivot", "chdir",
                                  "unmount", "rmdir", "chroot", "mounts"}
           \/ init[n].pc = "exec" /\ init'[n].pc = "user"
    BY <1>3, RootStepsKeep
  <2> QED
    BY <2>1, ShowSame DEF AfterPrivate
<1> QED
  BY <1>1, <1>2, <1>3

LEMMA EarlyMountShows ==
    ASSUME IInv, NEW n \in Inits, ShowOK(init[n], conf[n].overlay),
           MountOverlay(n) \/ MountProc(n)
    PROVE  ShowOK(init'[n], conf[n].overlay)
<1>1. init \in [Inits -> Procs]
  BY DEF IInv, TypeOK
<1>0. Exit(n) => init'[n].pc = "dead"
  BY <1>1 DEF Exit, Procs
<1>2. CASE init'[n].pc = "dead"
  BY <1>2, ShowDead
<1>3. CASE MountOverlay(n) /\ init'[n].pc # "dead"
  <2>q. PICK tree : tree = Mounted(init[n].tree, <<>>, FALSE)
    OBVIOUS
  <2>0. /\ init' = [init EXCEPT ![n].pc = "proc", ![n].tree = tree]
        /\ init[n].pc = "overlay"
    BY <1>0, <1>3, <2>q DEF MountOverlay, At
  <2>1. /\ init'[n].pc = "proc" /\ init'[n].next = init[n].next
        /\ init'[n].tree = Mounted(init[n].tree, <<>>, FALSE)
        /\ init[n].pc = "overlay"
    BY <1>1, <2>0, <2>q DEF Procs
  <2>2. <<>> \in Seen(init'[n])
    BY <2>1, MountedSeen DEF Seen
  <2> QED
    BY <2>1, <2>2 DEF ShowOK
<1>4. CASE MountProc(n) /\ init'[n].pc # "dead"
  <2>q. PICK tree : tree = Mounted(init[n].tree, <<"proc">>, FALSE)
    OBVIOUS
  <2>0. /\ init' = [init EXCEPT ![n].pc = "pivotdir", ![n].tree = tree]
        /\ init[n].pc = "proc"
    BY <1>0, <1>4, <2>q DEF MountProc, At
  <2>1. /\ init'[n].pc = "pivotdir" /\ init'[n].next = init[n].next
        /\ init'[n].tree = Mounted(init[n].tree, <<"proc">>, FALSE)
        /\ init[n].pc = "proc"
    BY <1>1, <2>0, <2>q DEF Procs
  <2>2. <<"proc">> \in Seen(init'[n])
    BY <2>1, MountedSeen DEF Seen
  <2>3. ~IsPrefix(<<"proc">>, <<>>)
    BY NotSelf
  <2>4. conf[n].overlay => <<>> \in Seen(init'[n])
    <3>0. init[n].root # "inner"
      BY <2>1 DEF IInv, Phases, PhaseOK
    <3>1. conf[n].overlay => <<>> \in Spots(init[n].tree)
      BY <2>1, <3>0 DEF ShowOK, Seen
    <3>2. <<>> \in Spots(init[n].tree) => <<>> \in Spots(init'[n].tree)
      BY <2>1, <2>3, MountedSeen, ZenonT(40)
    <3> QED
      BY <3>1, <3>2 DEF Seen
  <2> QED
    BY <2>1, <2>2, <2>4 DEF ShowOK
<1> QED
  BY <1>2, <1>3, <1>4

\* One more entry has been dealt with, and is in the table.
LEMMA EntryShows ==
    ASSUME IInv, NEW n \in Inits, RootIsFree, ShowOK(init[n], conf[n].overlay),
           At(n, "mounts"), init[n].next <= Len(mounts),
           NEW q, q.pc = "mounts", q.next = init[n].next + 1,
           q.root = init[n].root,
           \/ Entry(n).dest \in Seen(q)
           \/ q.root = "inner" /\ Entry(n).dest = <<"proc">>,
           \A at \in Seen(init[n]) : at \in Seen(q) \/ IsPrefix(Entry(n).dest, at),
           Entry(n).dest = <<"proc">> => Seen(init[n]) \subseteq Seen(q)
    PROVE  ShowOK(q, conf[n].overlay)
<1> DEFINE k0 == init[n].next
<1>1. k0 \in 1..Len(mounts) /\ DOMAIN mounts = 1..Len(mounts) /\ Len(mounts) \in Nat
  BY EntryPlace DEF IInv, Listed
<1>2. /\ Entry(n) = mounts[k0]
      /\ mounts[k0].dest \in Seq(STRING)
      /\ mounts[k0].dest # <<>>
  <2>1. Entry(n) = mounts[k0] /\ mounts[k0].dest # <<>>
    BY <1>1 DEF Entry, RootIsFree
  <2>2. mounts[k0] \in [dest : Seq(STRING), options : Seq(STRING)]
    BY <1>1, ElementOfSeq DEF IInv, Listed
  <2> QED
    BY <2>1, <2>2
<1>3. q.root # "inner" => /\ <<"proc">> \in Seen(q)
                          /\ conf[n].overlay => <<>> \in Seen(q)
  BY <1>2, NotCovered DEF ShowOK, At
<1>4. ASSUME NEW k \in 1..(q.next - 1), OnTopBefore(k, q.next),
             q.root = "inner" => mounts[k].dest # <<"proc">>
      PROVE  mounts[k].dest \in Seen(q)
  <2>1. CASE k = k0
    BY <1>2, <1>4, <2>1
  <2>2. CASE k # k0
    <3>1. k \in 1..(k0 - 1) /\ k0 \in (k + 1)..(q.next - 1)
      BY <1>1, <2>2
    <3>2. OnTopBefore(k, k0) /\ ~IsPrefix(mounts[k0].dest, mounts[k].dest)
      BY <1>1, <1>4, <3>1 DEF OnTopBefore
    <3>3. mounts[k].dest \in Seen(init[n])
      BY <1>4, <3>1, <3>2 DEF ShowOK, At
    <3> QED
      BY <1>2, <3>2, <3>3
  <2> QED
    BY <2>1, <2>2
<1> QED
  BY <1>3, <1>4 DEF ShowOK

LEMMA MountSpecShows ==
    ASSUME IInv, NEW n \in Inits, RootIsFree, ShowOK(init[n], conf[n].overlay),
           MountSpec(n)
    PROVE  ShowOK(init'[n], conf[n].overlay)
<1>1. init \in [Inits -> Procs] /\ init[n] \in Procs /\ Len(mounts) \in Nat
  BY DEF IInv, TypeOK, Listed
<1>2. At(n, "mounts")
  BY DEF MountSpec, MountNew, MountBind, MountAgain, MountPropagation,
         MountNothing, Mounting
<1>3. CASE Refused(n)
  <2>1. init'[n].pc = "dead"
    BY <1>1, <1>3 DEF Refused, Exit, Procs
  <2> QED
    BY <2>1, ShowDead
<1>4. ASSUME NEW tree, Applies(n, tree), init[n].next <= Len(mounts),
             Entry(n).dest # <<"proc">>, Entry(n).dest \in Spots(tree),
             \A at \in Seen(init[n]) : at \in Spots(tree) \/ IsPrefix(Entry(n).dest, at)
      PROVE  ShowOK(init'[n], conf[n].overlay)
  <2>1. init' = [init EXCEPT ![n].tree = tree, ![n].next = @ + 1]
    BY <1>4 DEF Applies
  <2>2. /\ init'[n].pc = "mounts" /\ init'[n].next = init[n].next + 1
        /\ init'[n].tree = tree /\ init'[n].root = init[n].root
    BY <1>1, <1>2, <2>1 DEF At, Procs
  <2>3. Seen(init'[n]) = Spots(tree)
    BY <2>2 DEF Seen
  <2> QED
    BY <1>2, <1>4, <2>2, <2>3, EntryShows
<1>5. ASSUME init[n].next <= Len(mounts),
             init' = [init EXCEPT ![n].next = @ + 1],
             \/ Entry(n).dest \in Seen(init[n])
             \/ init[n].root = "inner" /\ Entry(n).dest = <<"proc">>
      PROVE  ShowOK(init'[n], conf[n].overlay)
  <2>1. /\ init'[n].pc = "mounts" /\ init'[n].next = init[n].next + 1
        /\ init'[n].tree = init[n].tree /\ init'[n].root = init[n].root
    BY <1>1, <1>2, <1>5 DEF At, Procs
  <2>2. Seen(init'[n]) = Seen(init[n])
    BY <2>1 DEF Seen
  <2> QED
    BY <1>2, <1>5, <2>1, <2>2, EntryShows
<1>m. ASSUME NEW ro, Applies(n, Mounted(init[n].tree, Entry(n).dest, ro)),
             init[n].next <= Len(mounts), Entry(n).dest # <<"proc">>
      PROVE  ShowOK(init'[n], conf[n].overlay)
  <2>q. PICK tree : tree = Mounted(init[n].tree, Entry(n).dest, ro)
    OBVIOUS
  <2>1. /\ Entry(n).dest \in Spots(tree)
        /\ \A at \in Seen(init[n]) : at \in Spots(tree) \/ IsPrefix(Entry(n).dest, at)
    BY <2>q, MountedSeen DEF Seen
  <2> QED
    BY <1>m, <1>4, <2>q, <2>1
<1>r. ASSUME NEW ro, Applies(n, Remounted(init[n].tree, Entry(n).dest, ro)),
             init[n].next <= Len(mounts), Entry(n).dest # <<"proc">>
      PROVE  ShowOK(init'[n], conf[n].overlay)
  <2>q. PICK tree : tree = Remounted(init[n].tree, Entry(n).dest, ro)
    OBVIOUS
  <2>1. Entry(n).dest \in Spots(tree) /\ \A at \in Seen(init[n]) : at \in Spots(tree)
    BY <2>q, RemountedSeen DEF Seen
  <2> QED
    BY <1>r, <1>4, <2>q, <2>1
<1>6. CASE (MountNew(n) \/ MountBind(n) \/ MountAgain(n)) /\ ~Refused(n)
  <2>1. init[n].next <= Len(mounts) /\ Entry(n).dest # <<"proc">>
    BY <1>6 DEF MountNew, MountBind, MountAgain, Mounting
  <2> QED
    BY <1>m, <1>r, <1>6, <2>1 DEF MountNew, MountBind, MountAgain
<1>7. CASE MountPropagation(n) /\ ~Refused(n)
  <2>0. init[n].next \in DOMAIN mounts
    BY <1>7, EntryPlace DEF MountPropagation, Mounting, IInv, Listed
  <2>1. Entry(n).dest \in Seen(init[n])
    BY <1>7, <2>0 DEF MountPropagation, HasTarget, Seen, Spots, RootIsFree, Entry
  <2> QED
    BY <1>5, <1>7, <2>1 DEF MountPropagation, Mounting
<1>8. CASE MountNothing(n)
  <2>1. CASE init[n].next > Len(mounts)
    <3>1. Goto(n, "exec") /\ init[n].next = Len(mounts) + 1
      BY <1>1, <1>8, <2>1 DEF MountNothing, Procs
    <3>2. /\ init'[n].pc = "exec" /\ init'[n].next = init[n].next
          /\ init'[n].tree = init[n].tree /\ init'[n].root = init[n].root
      BY <1>1, <3>1 DEF Goto, Procs
    <3> QED
      BY <1>2, <3>1, <3>2, ShowSame DEF At
  <2>2. CASE ~(init[n].next > Len(mounts))
    <3>1. /\ init[n].next <= Len(mounts)
          /\ Entry(n).dest = <<"proc">>
          /\ init' = [init EXCEPT ![n].next = @ + 1]
      BY <1>1, <1>8, <2>2 DEF MountNothing, Procs
    <3>2. \/ Entry(n).dest \in Seen(init[n])
          \/ init[n].root = "inner" /\ Entry(n).dest = <<"proc">>
      BY <1>2, <3>1 DEF ShowOK, At
    <3> QED
      BY <1>5, <3>1, <3>2
  <2> QED
    BY <2>1, <2>2
<1> QED
  BY <1>3, <1>6, <1>7, <1>8 DEF MountSpec

LEMMA NextShown ==
    ASSUME IInv, Shown, RootIsFree, [Next]_vars
    PROVE  Shown' /\ RootIsFree'
<1>1. CASE UNCHANGED vars
  BY <1>1 DEF Shown, ShowOK, OnTopBefore, RootIsFree, vars
<1>2. CASE Next
  <2>1. PICK n \in Inits : RunInitProcess(n) \/ Terminate(n) \/ UserExit(n)
    BY <1>2 DEF Next
  <2>2. mounts' = mounts /\ conf' = conf
    BY <2>1 DEF RunInitProcess, MakeRootPrivate, MountOverlay, MountProc, PivotMkdir,
       SelfBind, Pivot, Chdir, UnmountOld, RemoveOld, FallbackChroot, MountSpec, MountNew,
       MountBind, MountAgain, MountPropagation, MountNothing, Applies, Refused, Exec,
       RunOnHost, Terminate, UserExit
  <2>3. ASSUME NEW m \in Inits PROVE ShowOK(init'[m], conf[m].overlay)
    <3>1. ShowOK(init[m], conf[m].overlay)
      BY DEF Shown
    <3>2. CASE m # n
      <4>1. /\ init'[m].pc = init[m].pc /\ init'[m].tree = init[m].tree
            /\ init'[m].next = init[m].next /\ init'[m].root = init[m].root
        BY <2>1, <3>2, OthersSame
      <4> QED
        BY <3>1, <4>1 DEF ShowOK, Seen
    <3>3. CASE m = n
      BY <2>1, <3>1, <3>3, RootSteps, EarlyMountShows, MountSpecShows DEF RunInitProcess
    <3> QED
      BY <3>2, <3>3
  <2> QED
    BY <2>2, <2>3 DEF Shown, ShowOK, OnTopBefore, RootIsFree
<1> QED
  BY <1>1, <1>2

LEMMA InitShown ==
    ASSUME NothingOnRoot, Init
    PROVE  Shown /\ RootIsFree
<1>1. RootIsFree
  BY DEF Init, NothingOnRoot, RootIsFree
<1>2. \A n \in Inits : init[n].pc = "private" /\ init[n].next = 1
  BY DEF Init
<1> QED
  BY <1>1, <1>2 DEF Shown, ShowOK

\* Unless an entry of the spec is mounted over "/" itself, the program of a
\* container with a mount namespace sees the /proc and the overlay that were
\* mounted before the root changed, and every mount of its spec that no later
\* one covers (exec.go:141-178, mount.go:100-108); the former two not in a
\* directory inside the pivoted root.
THEOREM MountsAreVisible == NothingOnRoot => (Spec => []MountsVisible)
<1> SUFFICES ASSUME NothingOnRoot PROVE Spec => []MountsVisible
  OBVIOUS
<1>1. Init => Shown /\ RootIsFree
  BY InitShown
<1>2. IInv /\ (Shown /\ RootIsFree) /\ [Next]_vars => (Shown /\ RootIsFree)'
  BY NextShown
<1>3. IInv /\ Shown => MountsVisible
  <2> SUFFICES ASSUME IInv, Shown, NEW n \in Inits, At(n, "user")
               PROVE  /\ init[n].root # "inner" =>
                           /\ <<"proc">> \in Seen(init[n])
                           /\ conf[n].overlay => <<>> \in Seen(init[n])
                      /\ \A k \in DOMAIN mounts :
                           OnTop(k) /\ (init[n].root = "inner" => mounts[k].dest # <<"proc">>)
                             => mounts[k].dest \in Seen(init[n])
    BY DEF MountsVisible, Seen, Spots
  <2>1. DOMAIN mounts = 1..Len(mounts) /\ Len(mounts) \in Nat
    BY DEF IInv, Listed
  <2>2. ShowOK(init[n], conf[n].overlay) /\ init[n].next = Len(mounts) + 1
    BY DEF Shown, ShowOK, At
  <2>3. ASSUME NEW k \in DOMAIN mounts, OnTop(k),
               init[n].root = "inner" => mounts[k].dest # <<"proc">>
        PROVE  mounts[k].dest \in Seen(init[n])
    <3>1. k \in 1..(init[n].next - 1) /\ OnTopBefore(k, init[n].next)
      BY <2>1, <2>2, <2>3 DEF OnTop, OnTopBefore
    <3> QED
      BY <2>2, <2>3, <3>1 DEF ShowOK, At
  <2> QED
    BY <2>2, <2>3 DEF ShowOK, At
<1> QED
  BY <1>1, <1>2, <1>3, Inductive, PTL DEF Spec
=============================================================================
