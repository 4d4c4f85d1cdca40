-------------------------- MODULE RefinementProofs --------------------------
(***************************************************************************)
(* Lifecycle implements OciLifecycle, step by step, for every set of IDs,   *)
(* commands and PIDs, when commands are issued one at a time and IDs are    *)
(* not reused.                                                              *)
(***************************************************************************)
EXTENDS LifecycleRefinement, OneAtATimeProofs

Inv == IInv /\ SInv

\* What AbstractProcess looks at.
AliveIn(p, i) == proc[p].id = i /\ Live(p) /\ ~proc[p].killed
Holds(c, i) == cmd[c].id = i /\ cmd[c].child # NoPid

----------------------------------------------------------------------------
(* One container takes a step of OciLifecycle, or none does. *)

Life(i, s, q) ==
    AbstractStatus(i)' = s /\ AbstractProcess(i)' = q /\ retired' = retired

StepOf(i) ==
    LET s == AbstractStatus(i)
        q == AbstractProcess(i)
    IN  \/ Life(i, s, q)
        \/ s = "none" /\ q = "none" /\ i \notin retired /\ Life(i, "created", q)
        \/ s = "created" /\ q = "none" /\ Life(i, s, "alive")
        \/ s = "created" /\ q # "none" /\ Life(i, "running", q)
        \/ q = "alive" /\ Life(i, s, "ended")
        \/ q # "none" /\ Life(i, s, "none")
        \/ s \in {"running", "lost"} /\ q # "alive" /\ Life(i, "stopped", q)
        \/ /\ s # "none" /\ q # "alive"
           /\ AbstractStatus(i)' = "none" /\ AbstractProcess(i)' = q
           /\ retired' = retired \cup {i}
        \/ s # "none" /\ Life(i, "lost", q)
        \/ s = "running" /\ q # "none" /\ Life(i, "lost", "none")
        \/ s = "none" /\ i \in retired /\ q = "none" /\ Life(i, "stopped", q)

Apart(i) ==
    \A j \in Ids \ {i} : /\ AbstractStatus(j)' = AbstractStatus(j)
                         /\ AbstractProcess(j)' = AbstractProcess(j)

LEMMA Simulated ==
    ASSUME NEW i \in Ids, Apart(i), StepOf(i)
    PROVE  [Oci!Next]_Oci!vars
<1> DEFINE S == [j \in Ids |-> AbstractStatus(j)]
           P == [j \in Ids |-> AbstractProcess(j)]
           s == AbstractStatus(i)
           q == AbstractProcess(i)
<1>1. /\ S' = [S EXCEPT ![i] = AbstractStatus(i)']
      /\ P' = [P EXCEPT ![i] = AbstractProcess(i)']
      /\ S[i] = s /\ P[i] = q
  BY DEF Apart
<1>2. s = AbstractStatus(i)' => S' = S
  BY DEF Apart
<1>3. q = AbstractProcess(i)' => P' = P
  BY DEF Apart
<1> QED
  BY <1>1, <1>2, <1>3 DEF StepOf, Life, Oci!Next, Oci!vars, Oci!Becomes, Oci!Create,
     Oci!Fork, Oci!Start, Oci!End, Oci!Release, Oci!Stop, Oci!Delete, Oci!Lose,
     Oci!LoseBoth, Oci!Reappear

\* No container takes a step.
LEMMA Stuttered ==
    ASSUME \A j \in Ids : /\ AbstractStatus(j)' = AbstractStatus(j)
                          /\ AbstractProcess(j)' = AbstractProcess(j),
           retired' = retired
    PROVE  [Oci!Next]_Oci!vars
BY DEF Oci!vars

----------------------------------------------------------------------------
(* What the abstraction makes of a state. *)

\* Two commands that have the same file open write the same status.
LEMMA WritersAgree ==
    ASSUME Inv, NEW i \in Ids, NEW c \in Cmds, NEW d \in Cmds,
           Writes(c, i), Writes(d, i)
    PROVE  cmd[c].snap = cmd[d].snap
<1>1. Saving(c) /\ Saving(d) /\ cmd[c].id = cmd[d].id
  BY DEF Writes, Saving
<1>2. CASE c # d
  <2>1. ~Claims(c) /\ ~Claims(d)
    BY <1>1, <1>2, SavingAlone DEF Inv
  <2> QED
    BY <1>1, <2>1, SavingFacts DEF Inv
<1> QED
  BY <1>2

LEMMA StatusOfWriter ==
    Inv => \A i \in Ids, c \in Cmds :
             Writes(c, i) /\ json[i].status = "empty"
               => AbstractStatus(i) = cmd[c].snap.status
<1> SUFFICES ASSUME Inv, NEW i \in Ids, NEW c \in Cmds,
                    Writes(c, i), json[i].status = "empty"
             PROVE  AbstractStatus(i) = cmd[c].snap.status
  OBVIOUS
<1> DEFINE writers == {d \in Cmds : Writes(d, i)}
           w == CHOOSE d \in writers : TRUE
<1>1. AbstractStatus(i) = cmd[w].snap.status
  BY DEF AbstractStatus
<1>2. w \in writers
  OBVIOUS
<1> QED
  BY <1>1, <1>2, WritersAgree

LEMMA StatusOfWriterNext ==
    Inv' => \A i \in Ids, c \in Cmds :
              (Writes(c, i) /\ json[i].status = "empty")'
                => AbstractStatus(i)' = cmd'[c].snap.status
<1>1. (Inv => \A i \in Ids, c \in Cmds :
             Writes(c, i) /\ json[i].status = "empty"
               => AbstractStatus(i) = cmd[c].snap.status)'
  BY StatusOfWriter, PTL
<1> QED
  BY <1>1

\* A container has at most one command that holds its process.
LEMMA OneHolder ==
    ASSUME Inv, NEW c \in Cmds, NEW d \in Cmds, HasChild(c), HasChild(d),
           cmd[c].id = cmd[d].id
    PROVE  c = d
<1> SUFFICES ASSUME c # d PROVE FALSE
  OBVIOUS
<1>1. PairOK(c, d) /\ PairOK(d, c)
  BY DEF Inv, SInv
<1>2. \A x \in {c, d} : \/ cmd[x].op = "start" /\ Claims(x) /\ Busy(x)
                        \/ cmd[x].op = "wait"
  BY DEF HasChild, Claims, Busy, At
<1> QED
  BY <1>1, <1>2 DEF PairOK

\* A live process has its holder.
LEMMA HolderOf ==
    ASSUME Inv, NEW p \in Pids, Alive(p)
    PROVE  \E c \in Cmds : HasChild(c) /\ cmd[c].child = p /\ cmd[c].id = proc[p].id
BY HolderOfLive, NullAssumption DEF Inv, IInv, Ownership, ChildPhase

LEMMA StatusKept ==
    ASSUME NEW i \in Ids,
           \/ json'[i].status = json[i].status
           \/ {json'[i].status, json[i].status} \subseteq {"nodir", "nofile"},
           \A c \in Cmds : /\ Writes(c, i)' <=> Writes(c, i)
                           /\ Writes(c, i) => cmd'[c].snap = cmd[c].snap
    PROVE  AbstractStatus(i)' = AbstractStatus(i)
<1> DEFINE writers == {c \in Cmds : Writes(c, i)}
<1>1. writers' = writers
  OBVIOUS
<1>2. writers # {} => (CHOOSE c \in writers : TRUE) \in writers
  OBVIOUS
<1> QED
  BY <1>1, <1>2 DEF AbstractStatus

LEMMA ProcessKept ==
    ASSUME NEW i \in Ids,
           \A p \in Pids : AliveIn(p, i)' <=> AliveIn(p, i),
           \A c \in Cmds : Holds(c, i)' <=> Holds(c, i)
    PROVE  AbstractProcess(i)' = AbstractProcess(i)
BY DEF AbstractProcess, AliveIn, Holds, Live

----------------------------------------------------------------------------
(* Steps that many actions share. *)

\* A move of one command that concerns neither its file nor its child.
LEMMA QuietLife ==
    ASSUME Inv, NEW c \in Cmds, NEW r,
           cmd' = [cmd EXCEPT ![c] = r],
           cmd[c].pc # "write", r.pc # "write",
           r.child = cmd[c].child, r.id = cmd[c].id \/ r.child = NoPid,
           \A p \in Pids : /\ proc'[p].id = proc[p].id
                           /\ Alive(p)' <=> Alive(p),
           \A i \in Ids : \/ json'[i].status = json[i].status
                          \/ {json'[i].status, json[i].status} \subseteq {"nodir", "nofile"},
           retired' = retired
    PROVE  [Oci!Next]_Oci!vars
<1>1. cmd'[c] = r /\ \A d \in Cmds \ {c} : cmd'[d] = cmd[d]
  BY DEF Inv, IInv, TypeOK
<1>2. ASSUME NEW i \in Ids PROVE AbstractStatus(i)' = AbstractStatus(i)
  <2>1. \A d \in Cmds : /\ Writes(d, i)' <=> Writes(d, i)
                        /\ Writes(d, i) => cmd'[d].snap = cmd[d].snap
    BY <1>1 DEF Writes
  <2> QED
    BY <2>1, StatusKept
<1>3. ASSUME NEW i \in Ids PROVE AbstractProcess(i)' = AbstractProcess(i)
  <2>1. \A p \in Pids : AliveIn(p, i)' <=> AliveIn(p, i)
    BY DEF AliveIn, Alive, Live
  <2>2. \A d \in Cmds : Holds(d, i)' <=> Holds(d, i)
    BY <1>1 DEF Holds
  <2> QED
    BY <2>1, <2>2, ProcessKept
<1> QED
  BY <1>2, <1>3, Stuttered

\* When a command ends, nobody is left alive that it held.
LEMMA EndProcess ==
    ASSUME Inv, NEW c \in Cmds, Return(c), NEW i \in Ids
    PROVE  /\ ~Holds(c, i) => AbstractProcess(i)' = AbstractProcess(i)
           /\ Holds(c, i) => AbstractProcess(i) # "none" /\ AbstractProcess(i)' = "none"
<1>1. cmd'[c] = Idle /\ \A d \in Cmds \ {c} : cmd'[d] = cmd[d]
  BY DEF Return, Inv, IInv, TypeOK
<1>2. ~Holds(c, i)' /\ \A d \in Cmds \ {c} : Holds(d, i)' <=> Holds(d, i)
  BY <1>1 DEF Holds, Idle
<1>3. ASSUME NEW p \in Pids
      PROVE  AliveIn(p, i)' <=> AliveIn(p, i) /\ proc[p].parent # c
  <2>1. proc'[p] = IF proc[p].parent # c THEN proc[p]
                   ELSE IF proc[p].state = "zombie" THEN Free
                   ELSE [proc[p] EXCEPT !.killed = TRUE, !.parent = NoCmd]
    BY DEF Return, Orphaned
  <2>2. CASE proc[p].parent # c
    BY <2>1, <2>2 DEF AliveIn, Live
  <2>3. CASE proc[p].parent = c /\ proc[p].state = "zombie"
    BY <2>1, <2>3 DEF AliveIn, Live, Free
  <2>4. CASE proc[p].parent = c /\ proc[p].state # "zombie"
    <3>1. proc'[p].killed
      BY <2>1, <2>4 DEF Inv, IInv, TypeOK, Procs
    <3> QED
      BY <2>4, <3>1 DEF AliveIn
  <2> QED
    BY <2>2, <2>3, <2>4
<1>4. ASSUME NEW p \in Pids, proc[p].parent = c
      PROVE  cmd[c].child = p /\ proc[p].id = cmd[c].id /\ cmd[c].child # NoPid
  BY <1>4, NullAssumption DEF Inv, IInv, Ownership, ParentHasChild, ChildHandle
<1>5. CASE ~Holds(c, i)
  <2>1. \A p \in Pids : AliveIn(p, i) => proc[p].parent # c
    BY <1>4, <1>5 DEF Holds, AliveIn
  <2> QED
    BY <1>2, <1>3, <1>5, <2>1, ProcessKept
<1>6. CASE Holds(c, i)
  <2>1. HasChild(c) /\ cmd[c].id = i
    BY <1>6 DEF Holds, Inv, IInv, Ownership, ChildPhase
  <2>2. \A d \in Cmds \ {c} : ~Holds(d, i)
    BY <2>1, OneHolder DEF Holds, Inv, IInv, Ownership, ChildPhase
  <2>3. ASSUME NEW p \in Pids PROVE ~AliveIn(p, i)'
    <3> SUFFICES ASSUME AliveIn(p, i) PROVE proc[p].parent = c
      BY <1>3
    <3>1. PICK d \in Cmds : HasChild(d) /\ cmd[d].child = p /\ cmd[d].id = i
      BY HolderOf DEF AliveIn, Alive
    <3>2. d = c
      BY <2>1, <3>1, OneHolder
    <3> QED
      BY <1>6, <3>1, <3>2 DEF Holds, Inv, IInv, Ownership, ChildHandle
  <2>4. AbstractProcess(i)' = "none"
    BY <1>2, <2>2, <2>3 DEF AbstractProcess, AliveIn, Holds, Live
  <2>5. AbstractProcess(i) # "none"
    BY <1>6 DEF AbstractProcess, Holds
  <2> QED
    BY <1>6, <2>4, <2>5
<1> QED
  BY <1>5, <1>6

\* The end of a command that leaves what its container's record says.
LEMMA EndLife ==
    ASSUME Inv, NEW c \in Cmds, Return(c), retired' = retired,
           \A i \in Ids : AbstractStatus(i)' = AbstractStatus(i)
    PROVE  [Oci!Next]_Oci!vars
<1>1. CASE \A i \in Ids : ~Holds(c, i)
  BY <1>1, EndProcess, Stuttered
<1>2. CASE \E i \in Ids : Holds(c, i)
  <2>1. PICK i \in Ids : Holds(c, i)
    BY <1>2
  <2>2. \A j \in Ids \ {i} : ~Holds(c, j)
    BY <2>1 DEF Holds
  <2>3. Apart(i)
    BY <2>2, EndProcess DEF Apart
  <2>4. StepOf(i)
    BY <2>1, EndProcess DEF StepOf, Life
  <2> QED
    BY <2>3, <2>4, Simulated
<1> QED
  BY <1>1, <1>2

\* The common case: the command writes nothing.
LEMMA QuietEndLife ==
    ASSUME Inv, NEW c \in Cmds, Return(c), retired' = retired,
           ~(cmd[c].pc = "write" /\ cmd[c].linked),
           \A i \in Ids : \/ json'[i].status = json[i].status
                          \/ {json'[i].status, json[i].status} \subseteq {"nodir", "nofile"}
    PROVE  [Oci!Next]_Oci!vars
<1>1. cmd'[c] = Idle /\ \A d \in Cmds \ {c} : cmd'[d] = cmd[d]
  BY DEF Return, Inv, IInv, TypeOK
<1>2. ASSUME NEW i \in Ids PROVE AbstractStatus(i)' = AbstractStatus(i)
  <2>1. \A d \in Cmds : /\ Writes(d, i)' <=> Writes(d, i)
                        /\ Writes(d, i) => cmd'[d].snap = cmd[d].snap
    BY <1>1 DEF Writes, Idle
  <2> QED
    BY <2>1, StatusKept
<1> QED
  BY <1>2, EndLife

----------------------------------------------------------------------------
(* Each action is a step of OciLifecycle, or stutters. *)

LEMMA LaunchLife ==
    ASSUME Inv, NEW c \in Cmds, NEW op \in Ops \ {"wait"}, NEW i \in Ids,
           NEW opt \in BOOLEAN, Launch(c, op, i, opt)
    PROVE  [Oci!Next]_Oci!vars
<1> DEFINE r == [Idle EXCEPT !.op = op, !.id = i, !.opt = opt,
                             !.pc = IF op = "create" THEN "check" ELSE "load"]
<1>1. /\ cmd' = [cmd EXCEPT ![c] = r] /\ json' = json /\ proc' = proc
      /\ retired' = retired
  BY DEF Launch
<1>2. cmd[c].pc # "write" /\ r.pc # "write" /\ r.child = cmd[c].child /\ r.child = NoPid
  BY DEF Launch, Idle
<1>3. \A p \in Pids : proc'[p].id = proc[p].id /\ (Alive(p)' <=> Alive(p))
  BY <1>1 DEF Alive, Live
<1> HIDE DEF r
<1> QED
  BY <1>1, <1>2, <1>3, QuietLife

\* The steps that only move a command on.
LEMMA MoveLife ==
    ASSUME Inv, NEW c \in Cmds, ~Return(c),
           \/ CreateCheck(c) \/ SetupCgroup(c) \/ ApplyLimits(c) \/ SaveMkdir(c)
           \/ StartLoad(c) \/ KillLoad(c) \/ StateLoad(c) \/ DeleteLoad(c) \/ WaitLoad(c)
           \/ AddProcessToCgroup(c) \/ StateProbe(c) \/ RemoveCgroup(c)
    PROVE  [Oci!Next]_Oci!vars
<1>a. PICK pc \in Pcs \ {"write"} : \E s :
        /\ cmd' = [cmd EXCEPT ![c] = [cmd[c] EXCEPT !.pc = pc, !.snap = s]]
        /\ cmd[c].pc # "write"
        /\ retired' = retired
  <2>1. cmd[c] \in Records
    BY DEF Inv, IInv, TypeOK
  <2>2. PICK pc \in Pcs \ {"write"} : Goto(c, pc) \/ \E s : GotoWith(c, pc, s)
    BY DEF CreateCheck, SetupCgroup, ApplyLimits, SaveMkdir, StartLoad, KillLoad,
       StateLoad, DeleteLoad, WaitLoad, AddProcessToCgroup, StateProbe, RemoveCgroup, Pcs
  <2>3. cmd[c].pc # "write" /\ retired' = retired
    BY DEF CreateCheck, SetupCgroup, ApplyLimits, SaveMkdir, StartLoad, KillLoad, LoadState,
       StateLoad, DeleteLoad, WaitLoad, AddProcessToCgroup, StateProbe, RemoveCgroup, At
  <2>4. CASE Goto(c, pc)
    <3>1. cmd' = [cmd EXCEPT ![c] = [cmd[c] EXCEPT !.pc = pc, !.snap = cmd[c].snap]]
      BY <2>1, <2>4 DEF Goto, Records
    <3> QED
      BY <2>3, <3>1
  <2>5. ASSUME NEW s, GotoWith(c, pc, s)
        PROVE  cmd' = [cmd EXCEPT ![c] = [cmd[c] EXCEPT !.pc = pc, !.snap = s]]
    BY <2>5 DEF GotoWith
  <2> QED
    BY <2>2, <2>3, <2>4, <2>5
<1>1. PICK s : /\ cmd' = [cmd EXCEPT ![c] = [cmd[c] EXCEPT !.pc = pc, !.snap = s]]
               /\ cmd[c].pc # "write"
               /\ retired' = retired
  BY <1>a
<1> DEFINE r == [cmd[c] EXCEPT !.pc = pc, !.snap = s]
<1>2. r.pc = pc /\ r.child = cmd[c].child /\ r.id = cmd[c].id
  BY DEF Inv, IInv, TypeOK, Records
<1>3. cmd' = [cmd EXCEPT ![c] = r]
  BY <1>1
<1> HIDE DEF r
<1>4. ASSUME NEW p \in Pids PROVE proc'[p].id = proc[p].id /\ (Alive(p)' <=> Alive(p))
  <2>1. CASE AddProcessToCgroup(c)
    <3>1. proc'[p] = proc[p] \/ proc'[p] = [proc[p] EXCEPT !.confined = TRUE]
      BY <2>1 DEF AddProcessToCgroup, Inv, IInv, TypeOK
    <3> QED
      BY <3>1 DEF Alive, Live, Inv, IInv, TypeOK, Procs
  <2>2. CASE ~AddProcessToCgroup(c)
    <3>1. proc' = proc
      BY <2>2 DEF CreateCheck, SetupCgroup, ApplyLimits, SaveMkdir, StartLoad, KillLoad,
         StateLoad, DeleteLoad, WaitLoad, StateProbe, RemoveCgroup
    <3> QED
      BY <3>1 DEF Alive, Live
  <2> QED
    BY <2>1, <2>2
<1>5. ASSUME NEW i \in Ids
      PROVE  \/ json'[i].status = json[i].status
             \/ {json'[i].status, json[i].status} \subseteq {"nodir", "nofile"}
  <2>1. CASE SaveMkdir(c)
    BY <2>1 DEF SaveMkdir, Inv, IInv, TypeOK, NoState, Blank
  <2>2. CASE ~SaveMkdir(c)
    BY <2>2 DEF CreateCheck, SetupCgroup, ApplyLimits, AddProcessToCgroup, StartLoad,
       KillLoad, StateLoad, DeleteLoad, WaitLoad, StateProbe, RemoveCgroup
  <2> QED
    BY <2>1, <2>2
<1> QED
  BY <1>1, <1>2, <1>3, <1>4, <1>5, QuietLife

----------------------------------------------------------------------------
(* What the record alone says. *)

LEMMA StatusOfRecord ==
    ASSUME NEW i \in Ids
    PROVE  /\ json[i].status \in {"created", "running", "stopped"}
                => AbstractStatus(i) = json[i].status
           /\ json[i].status \in {"nodir", "nofile"} => AbstractStatus(i) = "none"
           /\ json[i].status = "empty" /\ (\A c \in Cmds : ~Writes(c, i))
                => AbstractStatus(i) = "lost"
BY DEF AbstractStatus

LEMMA StatusOfRecordNext ==
    ASSUME NEW i \in Ids
    PROVE  /\ json'[i].status \in {"created", "running", "stopped"}
                => AbstractStatus(i)' = json'[i].status
           /\ json'[i].status \in {"nodir", "nofile"} => AbstractStatus(i)' = "none"
           /\ json'[i].status = "empty" /\ (\A c \in Cmds : ~Writes(c, i)')
                => AbstractStatus(i)' = "lost"
BY DEF AbstractStatus

LEMMA StatusInRange ==
    ASSUME Inv, NEW i \in Ids
    PROVE  /\ json[i].status \in {"created", "running", "stopped", "nodir", "nofile", "empty"}
           /\ ContainerExists(i) => AbstractStatus(i) # "none"
<1>1. json[i].status \in {"created", "running", "stopped", "nodir", "nofile", "empty"}
  <2>1. json[i] \in Contents /\ json[i].status # "corrupt"
    BY DEF Inv, SInv, NeverCorrupt, IInv, TypeOK
  <2>2. \A s \in Contents : s.status \in {"created", "running", "stopped", "nodir",
                                          "nofile", "empty", "corrupt"}
    BY DEF Contents, States, Blank, Stopped, Running
  <2> QED
    BY <2>1, <2>2
<1>2. CASE json[i].status = "empty" /\ \E c \in Cmds : Writes(c, i)
  <2>1. PICK c \in Cmds : Writes(c, i)
    BY <1>2
  <2>2. cmd[c].snap \in States /\ AbstractStatus(i) = cmd[c].snap.status
    BY <1>2, <2>1, StatusOfWriter DEF Inv, IInv, SaveReady, Saving, Writes
  <2>3. \A s \in States : s.status # "none"
    BY DEF States, Blank, Stopped, Running
  <2> QED
    BY <1>1, <2>2, <2>3
<1>3. CASE ~(json[i].status = "empty" /\ \E c \in Cmds : Writes(c, i))
  BY <1>1, <1>3, StatusOfRecord DEF ContainerExists
<1> QED
  BY <1>1, <1>2, <1>3

LEMMA NoProcess ==
    ASSUME Inv, NEW i \in Ids, \A d \in Cmds : HasChild(d) => cmd[d].id # i
    PROVE  AbstractProcess(i) = "none"
<1>1. \A p \in Pids : ~AliveIn(p, i)
  BY HolderOf DEF AliveIn, Alive
<1>2. \A d \in Cmds : ~Holds(d, i)
  BY DEF Holds, Inv, IInv, Ownership, ChildPhase
<1> QED
  BY <1>1, <1>2 DEF AbstractProcess, AliveIn, Holds

LEMMA NotAlive ==
    ASSUME NEW i \in Ids, \A p \in Pids : ~AliveIn(p, i)
    PROVE  AbstractProcess(i) # "alive"
BY DEF AbstractProcess, AliveIn

LEMMA HolderPhases ==
    ASSUME NEW d \in Cmds, HasChild(d)
    PROVE  (cmd[d].op = "start" /\ Claims(d) /\ Busy(d)) \/ At(d, "wait", "wait")
BY DEF HasChild, Claims, Busy

----------------------------------------------------------------------------
LEMMA ForkLife ==
    ASSUME Inv, NEW c \in Cmds, StartContainer(c), ~Return(c)
    PROVE  [Oci!Next]_Oci!vars
<1>0. PICK i \in Ids : cmd[c].id = i
  BY DEF StartContainer, At, Inv, IInv, HasId
<1>1. PICK p \in Pids :
        /\ proc[p] = Free
        /\ proc' = [proc EXCEPT ![p] =
                      [Free EXCEPT !.state = "init", !.id = i, !.parent = c]]
        /\ cmd' = [cmd EXCEPT ![c].pc = "attach", ![c].child = p]
        /\ json' = json /\ retired' = retired
        /\ cmd[c].op = "start" /\ cmd[c].pc = "fork"
  BY <1>0 DEF StartContainer, At
<1>2. json[i].status = "created"
  BY <1>0, <1>1 DEF Inv, SInv, FileOK, Blank
<1>3. /\ cmd'[c].id = i /\ cmd'[c].pc = "attach"
      /\ \A d \in Cmds \ {c} : cmd'[d] = cmd[d]
  BY <1>0, <1>1 DEF Inv, IInv, TypeOK, Records
<1>4. /\ proc'[p].id = i /\ proc'[p].state = "init" /\ ~proc'[p].killed
      /\ \A x \in Pids \ {p} : proc'[x] = proc[x]
  BY <1>1 DEF Inv, IInv, TypeOK, Free
<1>5. \A j \in Ids : AbstractStatus(j)' = AbstractStatus(j)
  BY <1>1, <1>3, StatusKept DEF Writes
<1>6. AbstractProcess(i) = "none"
  <2>1. Claims(c) /\ Busy(c) /\ ~HasChild(c)
    BY <1>1 DEF Claims, Busy, HasChild, At
  <2>2. \A d \in Cmds : HasChild(d) => cmd[d].id # i
    BY <1>0, <2>1, HolderPhases DEF Inv, SInv, PairOK, At
  <2> QED
    BY <2>2, NoProcess
<1>7. AbstractProcess(i)' = "alive"
  BY <1>4 DEF AbstractProcess, Live
<1>8. ASSUME NEW j \in Ids \ {i} PROVE AbstractProcess(j)' = AbstractProcess(j)
  <2>1. ASSUME NEW x \in Pids PROVE AliveIn(x, j)' <=> AliveIn(x, j)
    BY <1>1, <1>4 DEF AliveIn, Live, Free
  <2>2. \A d \in Cmds : Holds(d, j)' <=> Holds(d, j)
    BY <1>0, <1>1, <1>3 DEF Holds
  <2> QED
    BY <2>1, <2>2, ProcessKept
<1>9. StepOf(i)
  BY <1>1, <1>2, <1>5, <1>6, <1>7, StatusOfRecord DEF StepOf, Life
<1> QED
  BY <1>5, <1>8, <1>9, Simulated DEF Apart

\* The truncating open is where the new status takes effect.
LEMMA SaveOpenLife ==
    ASSUME Inv, Inv', NEW c \in Cmds, SaveOpen(c)
    PROVE  [Oci!Next]_Oci!vars
<1>0. cmd[c].pc = "open" /\ Saving(c) /\ retired' = retired
  BY DEF SaveOpen, Saving
<1>1. PICK i \in Ids : cmd[c].id = i /\ cmd[c].pc = "open" /\ Saving(c) /\ retired' = retired
  BY <1>0, SavingFacts DEF Inv
<1> DEFINE s == AbstractStatus(i)
           q == AbstractProcess(i)
<1>2. CASE json[i] = NoState
  BY <1>1, <1>2, QuietEndLife DEF SaveOpen
<1>3. CASE json[i] # NoState
  <2>1. /\ json' = [json EXCEPT ![i] = Blank("empty")]
        /\ cmd' = [cmd EXCEPT ![c].pc = "write", ![c].linked = TRUE]
        /\ proc' = proc
    BY <1>1, <1>3 DEF SaveOpen
  <2>2. /\ cmd'[c].id = i /\ cmd'[c].pc = "write" /\ cmd'[c].linked
        /\ cmd'[c].child = cmd[c].child /\ cmd'[c].snap = cmd[c].snap
        /\ \A d \in Cmds \ {c} : cmd'[d] = cmd[d]
    BY <1>1, <2>1 DEF Inv, IInv, TypeOK, Records
  <2>3. json'[i].status = "empty" /\ \A j \in Ids \ {i} : json'[j] = json[j]
    BY <1>1, <2>1 DEF Inv, IInv, TypeOK, Blank
  <2>4. ASSUME NEW j \in Ids PROVE AbstractProcess(j)' = AbstractProcess(j)
    <3>1. \A p \in Pids : AliveIn(p, j)' <=> AliveIn(p, j)
      BY <2>1 DEF AliveIn, Live
    <3>2. \A d \in Cmds : Holds(d, j)' <=> Holds(d, j)
      BY <1>1, <2>2 DEF Holds
    <3> QED
      BY <3>1, <3>2, ProcessKept
  <2>5. ASSUME NEW j \in Ids \ {i} PROVE AbstractStatus(j)' = AbstractStatus(j)
    BY <1>1, <2>2, <2>3, StatusKept DEF Writes
  <2>6. AbstractStatus(i)' = cmd[c].snap.status
    <3>1. (Writes(c, i) /\ json[i].status = "empty")'
      BY <2>2, <2>3 DEF Writes
    <3> QED
      BY <1>1, <2>2, <2>3, StatusOfWriterNext DEF Writes
  <2>7. Life(i, cmd[c].snap.status, q)
    BY <1>1, <2>2, <2>4, <2>6 DEF Life
  <2>8. ASSUME cmd[c].op = "create" PROVE StepOf(i)
    <3>1. ~ContainerExists(i) /\ i \notin retired /\ cmd[c].snap.status = "created"
      BY <1>1, <2>8 DEF Inv, SInv, FileOK, SnapOK, Blank
    <3>2. \A d \in Cmds : HasChild(d) => cmd[d].id # i
      <4>1. Busy(c) /\ ~HasChild(c)
        BY <2>8 DEF Busy, HasChild, At
      <4>2. \A d \in Cmds : cmd[d].op = "wait" => cmd[d].id # i
        BY <3>1 DEF Inv, SInv, FileOK
      <4> QED
        BY <1>1, <4>1, <4>2, HolderPhases DEF Inv, SInv, PairOK, At
    <3>3. s = "none" /\ q = "none"
      BY <1>1, <3>1, <3>2, NoProcess, StatusOfRecord DEF ContainerExists
    <3> QED
      BY <2>7, <3>1, <3>3 DEF StepOf
  <2>9. ASSUME cmd[c].op = "start" PROVE StepOf(i)
    <3>1. json[i].status = "created" /\ cmd[c].snap.status = "running"
      <4>1. FileOK(c) /\ SnapOK(c)
        BY DEF Inv, SInv
      <4>2. json[i] = Blank("created") /\ cmd[c].snap = Running(cmd[c].child)
        BY <1>1, <2>9, <4>1 DEF FileOK, SnapOK
      <4> QED
        BY <4>2 DEF Blank, Running
    <3>2. Holds(c, i)
      BY <1>1, <2>9 DEF Holds, HasChild, Inv, IInv, Ownership, ChildPhase
    <3>3. s = "created" /\ q # "none"
      BY <1>1, <3>1, <3>2, StatusOfRecord DEF AbstractProcess, Holds
    <3> QED
      BY <2>7, <3>1, <3>3 DEF StepOf
  <2>10. ASSUME cmd[c].op \in {"wait", "kill", "state"} PROVE StepOf(i)
    <3>1. cmd[c].snap.status = "stopped"
      BY <1>1, <2>10, SavingFacts DEF Inv, Stopped, Blank
    <3>2. ~HasChild(c)
      BY <1>1, <2>10 DEF HasChild, At
    <3>3. \A d \in Cmds : HasChild(d) /\ cmd[d].id = i =>
            At(d, "wait", "wait") /\ ~Alive(cmd[d].child) /\ cmd[c].op # "wait"
      BY <1>1, <3>2, HolderPhases, SavingAlone DEF Inv, Awaited, At
    <3>4. q # "alive"
      BY <1>1, <3>3, HolderOf, NotAlive DEF AliveIn, Alive
    <3>5. CASE ~ContainerExists(i)
      <4>1. cmd[c].op = "wait" /\ i \in retired
        BY <1>1, <2>10, <3>5 DEF Inv, SInv, FileOK
      <4>2. s = "none" /\ q = "none"
        BY <1>1, <3>3, <3>5, <4>1, NoProcess, StatusOfRecord DEF ContainerExists
      <4> QED
        BY <2>7, <3>1, <4>1, <4>2 DEF StepOf
    <3>6. CASE ContainerExists(i)
      <4>1. json[i].status # "created"
        <5>1. json[i] # Blank("created") /\ json[i] \in Contents
          BY <1>1, <2>10 DEF Inv, SInv, FileOK, IInv, TypeOK
        <5>2. \A x \in Contents : x.status = "created" => x = Blank("created")
          BY DEF Contents, States, Blank, Running, Stopped
        <5> QED
          BY <5>1, <5>2
      <4>2. s \in {"running", "stopped", "lost"}
        <5>1. CASE json[i].status = "empty" /\ \E d \in Cmds : Writes(d, i)
          <6>1. PICK d \in Cmds : Writes(d, i)
            BY <5>1
          <6>2. d # c /\ Saving(d) /\ cmd[d].id = i
            BY <1>1, <6>1 DEF Writes, Saving
          <6>3. ~Claims(d)
            BY <1>1, <6>2, SavingAlone DEF Inv
          <6>4. cmd[d].snap = Stopped
            BY <6>2, <6>3, SavingFacts DEF Inv
          <6> QED
            BY <1>1, <5>1, <6>1, <6>4, StatusOfWriter DEF Stopped, Blank
        <5>2. CASE ~(json[i].status = "empty" /\ \E d \in Cmds : Writes(d, i))
          BY <1>1, <3>6, <4>1, <5>2, StatusInRange, StatusOfRecord DEF ContainerExists
        <5> QED
          BY <5>1, <5>2
      <4> QED
        BY <2>7, <3>1, <3>4, <4>2 DEF StepOf
    <3> QED
      BY <3>5, <3>6
  <2>11. StepOf(i)
    BY <1>1, <2>8, <2>9, <2>10, SavingFacts DEF Inv
  <2> QED
    BY <1>1, <2>4, <2>5, <2>11, Simulated DEF Apart
<1> QED
  BY <1>2, <1>3

LEMMA SaveWriteLife ==
    ASSUME Inv, NEW c \in Cmds, SaveWrite(c)
    PROVE  [Oci!Next]_Oci!vars
<1>1. cmd[c].pc = "write" /\ Saving(c) /\ retired' = retired
  BY DEF SaveWrite, Saving
<1>2. /\ cmd'[c].pc # "write" /\ \A d \in Cmds \ {c} : cmd'[d] = cmd[d]
      /\ Return(c) \/ (cmd'[c].id = cmd[c].id /\ cmd'[c].child = cmd[c].child /\ proc' = proc)
  <2>1. CASE Return(c)
    BY <2>1 DEF Return, Idle, Inv, IInv, TypeOK
  <2>2. CASE ~Return(c)
    BY <2>2 DEF SaveWrite, Inv, IInv, TypeOK, Records
  <2> QED
    BY <2>1, <2>2
<1>3. ASSUME NEW i \in Ids PROVE AbstractStatus(i)' = AbstractStatus(i)
  <2>1. CASE ~Writes(c, i)
    <3>1. json'[i] = json[i]
      BY <1>1, <2>1, WriteFills DEF Writes, Inv, IInv, TypeOK
    <3>2. \A d \in Cmds : /\ Writes(d, i)' <=> Writes(d, i)
                          /\ Writes(d, i) => cmd'[d].snap = cmd[d].snap
      BY <1>2, <2>1 DEF Writes
    <3> QED
      BY <3>1, <3>2, StatusKept
  <2>2. CASE Writes(c, i)
    <3>1. json'[i] = cmd[c].snap /\ cmd[c].snap \in States
      BY <2>2, WriteFills DEF Writes, Inv, IInv, TypeOK
    <3>2. AbstractStatus(i)' = cmd[c].snap.status
      <4>1. \A s \in States : s.status \in {"created", "running", "stopped"}
        BY DEF States, Blank, Stopped, Running
      <4> QED
        BY <3>1, <4>1, StatusOfRecordNext
    <3>3. AbstractStatus(i) = cmd[c].snap.status
      <4>1. CASE json[i] = Blank("empty")
        BY <2>2, <4>1, StatusOfWriter DEF Blank
      <4>2. CASE json[i] # Blank("empty")
        <5>1. FileOK(c)
          BY DEF Inv, SInv
        <5>2. json[i] = Stopped /\ cmd[c].snap = Stopped
          BY <1>1, <2>2, <4>2, <5>1, SavingFacts DEF FileOK, Writes, Inv
        <5> QED
          BY <5>2, StatusOfRecord DEF Stopped, Blank
      <4> QED
        BY <4>1, <4>2
    <3> QED
      BY <3>2, <3>3
  <2> QED
    BY <2>1, <2>2
<1>4. CASE Return(c)
  BY <1>1, <1>3, <1>4, EndLife
<1>5. CASE cmd'[c].id = cmd[c].id /\ cmd'[c].child = cmd[c].child /\ proc' = proc
  <2>1. ASSUME NEW i \in Ids PROVE AbstractProcess(i)' = AbstractProcess(i)
    <3>1. \A p \in Pids : AliveIn(p, i)' <=> AliveIn(p, i)
      BY <1>5 DEF AliveIn, Live
    <3>2. \A d \in Cmds : Holds(d, i)' <=> Holds(d, i)
      BY <1>2, <1>5 DEF Holds
    <3> QED
      BY <3>1, <3>2, ProcessKept
  <2> QED
    BY <1>1, <1>3, <2>1, Stuttered
<1> QED
  BY <1>2, <1>4, <1>5

LEMMA WaitExitLife ==
    ASSUME Inv, NEW c \in Cmds, WaitExit(c)
    PROVE  [Oci!Next]_Oci!vars
<1>1. HasChild(c) /\ cmd[c].op = "wait" /\ cmd[c].pc = "wait" /\ retired' = retired /\ json' = json
  BY DEF WaitExit, HasChild, At
<1>2. PICK i \in Ids : cmd[c].id = i
  BY <1>1 DEF Inv, IInv, HasId
<1>3. cmd[c].child \in Pids /\ cmd[c].child # NoPid
  BY <1>1 DEF Inv, IInv, TypeOK, Records, Ownership, ChildPhase
<1>4. PICK p \in Pids : /\ cmd[c].child = p
                        /\ proc' = [proc EXCEPT ![p] = Free]
                        /\ proc[p].state = "zombie"
  BY <1>3 DEF WaitExit
<1>5. /\ cmd'[c].child = NoPid /\ cmd'[c].pc = "load"
      /\ \A d \in Cmds \ {c} : cmd'[d] = cmd[d]
  BY DEF WaitExit, Inv, IInv, TypeOK, Records
<1>6. proc'[p] = Free /\ \A x \in Pids \ {p} : proc'[x] = proc[x]
  BY <1>4 DEF Inv, IInv, TypeOK
<1>7. ASSUME NEW j \in Ids, NEW x \in Pids PROVE AliveIn(x, j)' <=> AliveIn(x, j)
  BY <1>4, <1>6 DEF AliveIn, Live, Free
<1>8. \A j \in Ids : AbstractStatus(j)' = AbstractStatus(j)
  BY <1>1, <1>5, StatusKept DEF Writes
<1>9. ASSUME NEW j \in Ids \ {i} PROVE AbstractProcess(j)' = AbstractProcess(j)
  <2>1. \A d \in Cmds : Holds(d, j)' <=> Holds(d, j)
    BY <1>2, <1>5 DEF Holds
  <2> QED
    BY <1>7, <2>1, ProcessKept
<1>10. AbstractProcess(i) # "none"
  BY <1>2, <1>3 DEF AbstractProcess
<1>11. AbstractProcess(i)' = "none"
  <2>1. \A d \in Cmds : HasChild(d) /\ cmd[d].id = i => d = c
    BY <1>1, <1>2, OneHolder
  <2>2. \A x \in Pids : ~AliveIn(x, i)
    BY <1>4, <2>1, HolderOf DEF AliveIn, Alive, Live
  <2>3. \A d \in Cmds : ~Holds(d, i)'
    BY <1>5, <2>1 DEF Holds, Inv, IInv, Ownership, ChildPhase
  <2> QED
    BY <1>7, <2>2, <2>3 DEF AbstractProcess, AliveIn, Holds, Live
<1> QED
  BY <1>1, <1>8, <1>9, <1>10, <1>11, Simulated DEF Apart, StepOf, Life

\* A process that ends, or gets SIGKILL.
LEMMA DiesLife ==
    ASSUME Inv, NEW p \in Pids, ~Alive(p)',
           \A x \in Pids \ {p} : proc'[x] = proc[x],
           \A i \in Ids : AbstractStatus(i)' = AbstractStatus(i),
           \A d \in Cmds : cmd'[d].id = cmd[d].id /\ cmd'[d].child = cmd[d].child,
           retired' = retired
    PROVE  [Oci!Next]_Oci!vars
<1>1. \A j \in Ids, d \in Cmds : Holds(d, j)' <=> Holds(d, j)
  BY DEF Holds
<1>2. ASSUME NEW j \in Ids, NEW x \in Pids
      PROVE  AliveIn(x, j)' <=> AliveIn(x, j) /\ x # p
  BY DEF AliveIn, Alive, Live
<1>3. CASE ~Alive(p)
  <2>1. \A j \in Ids : AbstractProcess(j)' = AbstractProcess(j)
    BY <1>1, <1>2, <1>3, ProcessKept DEF AliveIn, Alive
  <2> QED
    BY <2>1, Stuttered
<1>4. CASE Alive(p)
  <2>1. PICK c \in Cmds : HasChild(c) /\ cmd[c].child = p /\ cmd[c].id = proc[p].id
    BY <1>4, HolderOf
  <2>2. PICK i \in Ids : proc[p].id = i /\ cmd[c].id = i
    BY <2>1 DEF Inv, IInv, HasId, HasChild, At
  <2>3. ASSUME NEW j \in Ids \ {i} PROVE AbstractProcess(j)' = AbstractProcess(j)
    BY <1>1, <1>2, <2>2, ProcessKept DEF AliveIn
  <2>4. AbstractProcess(i) = "alive"
    BY <1>4, <2>2 DEF AbstractProcess, Alive
  <2>5. AbstractProcess(i)' = "ended"
    <3>1. \A x \in Pids : ~AliveIn(x, i)'
      <4>1. ASSUME NEW x \in Pids, AliveIn(x, i) PROVE x = p
        <5>1. PICK d \in Cmds : HasChild(d) /\ cmd[d].child = x /\ cmd[d].id = i
          BY <4>1, HolderOf DEF AliveIn, Alive
        <5> QED
          BY <2>1, <2>2, <5>1, OneHolder
      <4> QED
        BY <1>2, <4>1
    <3>2. Holds(c, i)'
      BY <1>1, <2>1, <2>2, NullAssumption DEF Holds
    <3> QED
      BY <3>1, <3>2 DEF AbstractProcess, AliveIn, Holds, Live
  <2> QED
    BY <2>3, <2>4, <2>5, Simulated DEF Apart, StepOf, Life
<1> QED
  BY <1>3, <1>4

\* A command that ends, apart from its crash.
LEMMA ReturnLife ==
    ASSUME Inv, NEW c \in Cmds, Step(c), Return(c)
    PROVE  [Oci!Next]_Oci!vars
<1>1. CASE SaveOpen(c) \/ SaveWrite(c) \/ WaitExit(c)
  <2>1. CASE SaveWrite(c)
    BY <2>1, SaveWriteLife
  <2>2. CASE WaitExit(c)
    BY <2>2, WaitExitLife
  <2>3. CASE SaveOpen(c)
    <3>1. cmd'[c].pc = "idle"
      BY DEF Return, Idle, Inv, IInv, TypeOK
    <3>2. json' = json /\ retired' = retired /\ cmd[c].pc = "open"
      BY <2>3, <3>1 DEF SaveOpen, Inv, IInv, TypeOK, Records
    <3> QED
      BY <3>2, QuietEndLife
  <2> QED
    BY <1>1, <2>1, <2>2, <2>3
<1>2. CASE DeleteRmdir(c)
  <2>1. cmd[c].pc # "write" /\ retired' = retired
    BY <1>2 DEF DeleteRmdir, At
  <2>2. ASSUME NEW i \in Ids
        PROVE  \/ json'[i].status = json[i].status
               \/ {json'[i].status, json[i].status} \subseteq {"nodir", "nofile"}
    <3>1. json'[i] = json[i] \/ (json'[i] = NoState /\ ~ContainerExists(i))
      BY <1>2 DEF DeleteRmdir, Inv, IInv, TypeOK
    <3> QED
      BY <3>1 DEF NoState, Blank, ContainerExists
  <2> QED
    BY <2>1, <2>2, QuietEndLife
<1>3. CASE ~(SaveOpen(c) \/ SaveWrite(c) \/ WaitExit(c) \/ DeleteRmdir(c))
  <2>1. cmd'[c].pc = "idle"
    BY DEF Return, Idle, Inv, IInv, TypeOK
  <2>2. ~SaveMkdir(c) /\ ~DeleteUnlink(c)
    BY <2>1 DEF SaveMkdir, DeleteUnlink, Goto, Inv, IInv, TypeOK, Records
  <2>3. json' = json /\ retired' = retired /\ cmd[c].pc # "write"
    BY <1>3, <2>2 DEF Step, CreateCheck, SetupCgroup, ApplyLimits, LoadFails, StartLoad,
       KillLoad, StateLoad, DeleteLoad, WaitLoad, StartContainer, AddProcessToCgroup,
       KillSignal, DeleteSignal, StateProbe, RemoveCgroup, LoadState, At
  <2> QED
    BY <2>3, QuietEndLife
<1> QED
  BY <1>1, <1>2, <1>3

\* SIGKILL, from kill or delete --force.
LEMMA SignalLife ==
    ASSUME Inv, NEW c \in Cmds, KillSignal(c) \/ DeleteSignal(c), ~Return(c)
    PROVE  [Oci!Next]_Oci!vars
<1>1. PICK p \in Pids : cmd[c].snap = Running(p)
  BY DEF KillSignal, DeleteSignal, At, Inv, SInv, SnapOK, Snapped
<1>2. cmd[c].snap.pid = p
  BY <1>1 DEF Running
<1>3. /\ proc' = [proc EXCEPT ![p] = Killed(@)]
      /\ json' = json /\ retired' = retired /\ cmd[c].pc = "signal"
  BY <1>2 DEF KillSignal, DeleteSignal, At
<1>4. /\ \A d \in Cmds \ {c} : cmd'[d] = cmd[d]
      /\ cmd'[c].id = cmd[c].id /\ cmd'[c].child = cmd[c].child /\ cmd'[c].pc # "write"
  BY DEF KillSignal, DeleteSignal, Goto, GotoWith, Inv, IInv, TypeOK, Records
<1>5. \A i \in Ids : AbstractStatus(i)' = AbstractStatus(i)
  BY <1>3, <1>4, StatusKept DEF Writes
<1>6. ~Alive(p)' /\ \A x \in Pids \ {p} : proc'[x] = proc[x]
  BY <1>3 DEF Alive, Live, Killed, Inv, IInv, TypeOK, Procs
<1> QED
  BY <1>3, <1>4, <1>5, <1>6, DiesLife

\* The unlink is where a container stops being there.
LEMMA UnlinkLife ==
    ASSUME Inv, NEW c \in Cmds, DeleteUnlink(c)
    PROVE  [Oci!Next]_Oci!vars
<1>1. cmd[c].op = "delete" /\ cmd[c].pc = "unlink"
  BY DEF DeleteUnlink, At
<1>2. PICK i \in Ids : cmd[c].id = i
  BY <1>1 DEF Inv, IInv, HasId
<1>3. ContainerExists(i)
  BY <1>1, <1>2 DEF Inv, SInv, FileOK
<1>4. /\ json' = [json EXCEPT ![i] = Blank("nofile")]
      /\ cmd' = [d \in Cmds |->
                 IF d = c THEN [cmd[d] EXCEPT !.pc = "rmdir"]
                 ELSE IF cmd[d].id = i THEN [cmd[d] EXCEPT !.linked = FALSE]
                 ELSE cmd[d]]
      /\ retired' = retired \cup {i} /\ proc' = proc
  BY <1>2, <1>3 DEF DeleteUnlink
<1>5. json'[i].status = "nofile" /\ \A j \in Ids \ {i} : json'[j] = json[j]
  BY <1>4 DEF Inv, IInv, TypeOK, Blank
<1>6. \A d \in Cmds : cmd'[d].id = cmd[d].id /\ cmd'[d].child = cmd[d].child
  BY <1>4 DEF Inv, IInv, TypeOK, Records
<1>7. ASSUME NEW d \in Cmds, cmd[d].id # i PROVE cmd'[d] = cmd[d]
  BY <1>2, <1>4, <1>7
<1>8. ASSUME NEW j \in Ids \ {i} PROVE AbstractStatus(j)' = AbstractStatus(j)
  <2>1. \A d \in Cmds : /\ Writes(d, j)' <=> Writes(d, j)
                        /\ Writes(d, j) => cmd'[d].snap = cmd[d].snap
    BY <1>6, <1>7 DEF Writes
  <2> QED
    BY <1>5, <2>1, StatusKept
<1>9. ASSUME NEW j \in Ids PROVE AbstractProcess(j)' = AbstractProcess(j)
  <2>1. \A p \in Pids : AliveIn(p, j)' <=> AliveIn(p, j)
    BY <1>4 DEF AliveIn, Live
  <2>2. \A d \in Cmds : Holds(d, j)' <=> Holds(d, j)
    BY <1>6 DEF Holds
  <2> QED
    BY <2>1, <2>2, ProcessKept
<1>10. AbstractStatus(i) # "none" /\ AbstractStatus(i)' = "none"
  BY <1>3, <1>5, StatusInRange, StatusOfRecordNext
<1>11. AbstractProcess(i) # "alive"
  <2>1. Busy(c) /\ Settles(c) /\ ~HasChild(c)
    BY <1>1 DEF Busy, Settles, HasChild, At
  <2>2. \A d \in Cmds : HasChild(d) /\ cmd[d].id = i =>
          At(d, "wait", "wait") /\ ~Alive(cmd[d].child)
    BY <1>2, <2>1, HolderPhases DEF Inv, SInv, PairOK, Awaited, At
  <2> QED
    BY <2>2, HolderOf, NotAlive DEF AliveIn, Alive
<1> QED
  BY <1>4, <1>8, <1>9, <1>10, <1>11, Simulated DEF Apart, StepOf

\* A command that dies between the open and the write of a save takes the
\* record with it, unless another one has the file open too.
LEMMA CrashLife ==
    ASSUME Inv, Inv', NEW c \in Cmds, Crash(c)
    PROVE  [Oci!Next]_Oci!vars
<1>1. Return(c) /\ json' = json /\ retired' = retired
  BY DEF Crash
<1>2. cmd'[c] = Idle /\ \A d \in Cmds \ {c} : cmd'[d] = cmd[d]
  BY <1>1 DEF Return, Inv, IInv, TypeOK
<1>3. CASE ~(cmd[c].pc = "write" /\ cmd[c].linked)
  BY <1>1, <1>3, QuietEndLife
<1>4. CASE cmd[c].pc = "write" /\ cmd[c].linked
  <2>0. Saving(c)
    BY <1>4 DEF Saving
  <2>1. PICK i \in Ids : cmd[c].id = i
    BY <2>0, SavingFacts DEF Inv
  <2>2. Writes(c, i) /\ ~Writes(c, i)'
    BY <1>2, <1>4, <2>1 DEF Writes, Idle
  <2>3. \A d \in Cmds \ {c}, j \in Ids : Writes(d, j)' <=> Writes(d, j)
    BY <1>2 DEF Writes
  <2>4. ASSUME NEW j \in Ids \ {i} PROVE AbstractStatus(j)' = AbstractStatus(j)
    <3>1. \A d \in Cmds : /\ Writes(d, j)' <=> Writes(d, j)
                          /\ Writes(d, j) => cmd'[d].snap = cmd[d].snap
      BY <1>2, <2>1 DEF Writes, Idle
    <3> QED
      BY <1>1, <3>1, StatusKept
  <2>5. json[i].status \in {"empty", "stopped"}
    <3>1. FileOK(c)
      BY DEF Inv, SInv
    <3> QED
      BY <1>4, <2>0, <2>1, <3>1, SavingFacts DEF Inv, FileOK, Blank, Stopped
  <2>6. CASE json[i].status = "stopped"
    <3>1. AbstractStatus(i)' = AbstractStatus(i)
      BY <1>1, <2>6, StatusOfRecord, StatusOfRecordNext
    <3> QED
      BY <1>1, <2>4, <3>1, EndLife
  <2>7. CASE json[i].status = "empty" /\ \E w \in Cmds \ {c} : Writes(w, i)
    <3>1. PICK w \in Cmds \ {c} : Writes(w, i)
      BY <2>7
    <3>2. cmd'[w] = cmd[w] /\ Writes(w, i)'
      BY <1>2, <2>3, <3>1
    <3>3. (Writes(w, i) /\ json[i].status = "empty")'
      BY <1>1, <2>7, <3>2
    <3>4. AbstractStatus(i)' = AbstractStatus(i)
      BY <2>7, <3>1, <3>2, <3>3, StatusOfWriter, StatusOfWriterNext
    <3> QED
      BY <1>1, <2>4, <3>4, EndLife
  <2>8. CASE json[i].status = "empty" /\ \A w \in Cmds \ {c} : ~Writes(w, i)
    <3>1. AbstractStatus(i)' = "lost"
      BY <1>1, <2>2, <2>3, <2>8, StatusOfRecordNext
    <3>2. AbstractStatus(i) # "none"
      BY <2>8, StatusInRange DEF ContainerExists
    <3>3. ASSUME NEW j \in Ids \ {i} PROVE AbstractProcess(j)' = AbstractProcess(j)
      BY <1>1, <2>1, EndProcess DEF Holds
    <3>4. ASSUME Holds(c, i) PROVE StepOf(i)
      <4>1. cmd[c].op = "start"
        BY <1>4, <3>4 DEF Holds, HasChild, At, Inv, IInv, Ownership, ChildPhase
      <4>2. cmd[c].snap = Running(cmd[c].child)
        BY <2>0, <4>1 DEF Inv, SInv, SnapOK
      <4>3. AbstractStatus(i) = "running"
        BY <2>2, <2>8, <4>2, StatusOfWriter DEF Running
      <4>4. AbstractProcess(i) # "none" /\ AbstractProcess(i)' = "none"
        BY <1>1, <3>4, EndProcess
      <4> QED
        BY <1>1, <3>1, <4>3, <4>4 DEF StepOf, Life
    <3>5. ASSUME ~Holds(c, i) PROVE StepOf(i)
      <4>1. AbstractProcess(i)' = AbstractProcess(i)
        BY <1>1, <3>5, EndProcess
      <4> QED
        BY <1>1, <3>1, <3>2, <4>1 DEF StepOf, Life
    <3> QED
      BY <2>4, <3>3, <3>4, <3>5, Simulated DEF Apart
  <2> QED
    BY <2>5, <2>6, <2>7, <2>8
<1> QED
  BY <1>3, <1>4

LEMMA KernelLife ==
    ASSUME Inv, NEW p \in Pids, Kernel(p)
    PROVE  [Oci!Next]_Oci!vars
<1>1. json' = json /\ cmd' = cmd /\ retired' = retired
  BY DEF Kernel, ExecUser, ProcExit, PidRecycled
<1>2. \A x \in Pids \ {p} : proc'[x] = proc[x]
  BY DEF Kernel, ExecUser, ProcExit, PidRecycled, Inv, IInv, TypeOK
<1>3. \A i \in Ids : AbstractStatus(i)' = AbstractStatus(i)
  BY <1>1, StatusKept DEF Writes
<1>4. CASE ProcExit(p)
  <2>1. ~Alive(p)'
    BY <1>4 DEF ProcExit, Alive, Live, Free, Inv, IInv, TypeOK, Procs
  <2> QED
    BY <1>1, <1>2, <1>3, <2>1, DiesLife
<1>5. CASE ~ProcExit(p)
  <2>1. ASSUME NEW i \in Ids PROVE AbstractProcess(i)' = AbstractProcess(i)
    <3>1. AliveIn(p, i)' <=> AliveIn(p, i)
      BY <1>5 DEF Kernel, ExecUser, PidRecycled, AliveIn, Live, Free, Inv, IInv, TypeOK, Procs
    <3>2. \A x \in Pids : AliveIn(x, i)' <=> AliveIn(x, i)
      BY <1>2, <3>1 DEF AliveIn, Live
    <3>3. \A d \in Cmds : Holds(d, i)' <=> Holds(d, i)
      BY <1>1 DEF Holds
    <3> QED
      BY <3>2, <3>3, ProcessKept
  <2> QED
    BY <1>1, <1>3, <2>1, Stuttered
<1> QED
  BY <1>4, <1>5

----------------------------------------------------------------------------
LEMMA InitLife == Init => Oci!Init
<1> SUFFICES ASSUME Init, NEW i \in Ids
             PROVE  AbstractStatus(i) = "none" /\ AbstractProcess(i) = "none"
  BY DEF Oci!Init, Init
<1>1. json[i].status = "nodir"
  BY DEF Init, NoState, Blank
<1>2. \A p \in Pids : ~AliveIn(p, i)
  BY DEF Init, AliveIn, Live, Free
<1>3. \A c \in Cmds : ~Holds(c, i)
  BY DEF Init, Holds, Idle
<1> QED
  BY <1>1, <1>2, <1>3, StatusOfRecord DEF AbstractProcess, AliveIn, Holds

LEMMA NextLife == Inv /\ Inv' /\ [Next]_vars => [Oci!Next]_Oci!vars
<1> SUFFICES ASSUME Inv, Inv', [Next]_vars PROVE [Oci!Next]_Oci!vars
  OBVIOUS
<1>1. CASE UNCHANGED vars
  <2>1. json' = json /\ proc' = proc /\ cmd' = cmd /\ retired' = retired
    BY <1>1 DEF vars
  <2>2. ASSUME NEW i \in Ids PROVE AbstractStatus(i)' = AbstractStatus(i)
    BY <2>1, StatusKept DEF Writes
  <2>3. ASSUME NEW i \in Ids PROVE AbstractProcess(i)' = AbstractProcess(i)
    BY <2>1, ProcessKept DEF AliveIn, Live, Holds
  <2> QED
    BY <2>1, <2>2, <2>3, Stuttered
<1>2. ASSUME NEW c \in Cmds, NEW op \in Ops \ {"wait"}, NEW i \in Ids,
             NEW opt \in BOOLEAN, Launch(c, op, i, opt)
      PROVE  [Oci!Next]_Oci!vars
  BY <1>2, LaunchLife
<1>3. ASSUME NEW c \in Cmds, Step(c) PROVE [Oci!Next]_Oci!vars
  <2>1. CASE Return(c)
    BY <1>3, <2>1, ReturnLife
  <2>2. CASE ~Return(c) /\ ~(LoadFails(c) \/ DeleteRmdir(c))
    BY <1>3, <2>2, MoveLife, ForkLife, SaveOpenLife, SaveWriteLife, WaitExitLife,
       SignalLife, UnlinkLife DEF Step
  <2>3. CASE LoadFails(c) \/ DeleteRmdir(c)
    BY <1>3, <2>3, ReturnLife DEF LoadFails, DeleteRmdir
  <2> QED
    BY <2>1, <2>2, <2>3
<1>4. ASSUME NEW c \in Cmds, Crash(c) PROVE [Oci!Next]_Oci!vars
  BY <1>4, CrashLife
<1>5. ASSUME NEW p \in Pids, Kernel(p) PROVE [Oci!Next]_Oci!vars
  BY <1>5, KernelLife
<1> QED
  BY <1>1, <1>2, <1>3, <1>4, <1>5 DEF Next

\* Whatever the system calls of the commands do, the records and processes
\* live the lives that the documentation draws.
THEOREM Refinement ==
    ASSUME OneAtATime
    PROVE  Spec => ImplementsOciLifecycle
<1>1. Spec => []Inv
  BY SerialInvariance DEF Inv
<1> QED
  BY <1>1, InitLife, NextLife, PTL DEF Spec, ImplementsOciLifecycle, Oci!Spec
=============================================================================
