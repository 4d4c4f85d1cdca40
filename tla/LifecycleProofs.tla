-------------------------- MODULE LifecycleProofs --------------------------
(***************************************************************************)
(* Theorems about Lifecycle, for every set of IDs, commands, PIDs and       *)
(* hazards: the types, who owns a container process (NoOrphan and           *)
(* ChildHandle), and, when no command dies, that a truncated state.json has *)
(* a writer (EmptyHasWriter).                                               *)
(***************************************************************************)
EXTENDS Lifecycle, TLAPS

----------------------------------------------------------------------------
(* The inductive invariant.  NoOrphan speaks of the commands that run; what *)
(* keeps it true is that parent and child always name each other, that a    *)
(* process without a parent is dead, dying or a stranger, and at which      *)
(* steps of start there is a child at all. *)

HasChild(c) ==
    \/ cmd[c].op = "start" /\ cmd[c].pc \in {"attach", "mkdir", "open", "write"}
    \/ At(c, "wait", "wait")

ChildPhase == \A c \in Cmds : cmd[c].child # NoPid <=> HasChild(c)

ParentHasChild ==
    \A p \in Pids : proc[p].parent # NoCmd => cmd[proc[p].parent].child = p

Supervised ==
    \A p \in Pids :
        (Live(p) /\ ~proc[p].killed) \/ proc[p].state = "zombie"
            => proc[p].parent # NoCmd

Unowned ==
    \A p \in Pids : proc[p].state \in {"free", "other"} => proc[p].parent = NoCmd

SaveReady == \A c \in Cmds : Saving(c) => cmd[c].snap \in States

HasId == \A c \in Cmds : cmd[c].op # "none" => cmd[c].id \in Ids

Ownership ==
    ChildHandle /\ ChildPhase /\ ParentHasChild /\ Supervised /\ Unowned

IInv == TypeOK /\ HasId /\ Ownership /\ SaveReady

----------------------------------------------------------------------------
(* Steps that many actions share. *)

\* A step that changes neither who runs which command nor who owns which
\* process.
LEMMA QuietStep ==
    ASSUME IInv,
           cmd' \in [Cmds -> Records],
           proc' \in [Pids -> Procs],
           \A d \in Cmds : /\ cmd'[d].op = cmd[d].op
                           /\ cmd'[d].id = cmd[d].id
                           /\ cmd'[d].child = cmd[d].child
                           /\ HasChild(d)' <=> HasChild(d)
                           /\ Saving(d)' => cmd'[d].snap \in States,
           \A p \in Pids : /\ proc'[p].id = proc[p].id
                           /\ proc'[p].parent = proc[p].parent
                           /\ proc[p].killed => proc'[p].killed
                           /\ \/ proc'[p].state = proc[p].state
                              \/ Live(p) /\ Live(p)'
    PROVE  HasId' /\ Ownership' /\ SaveReady'
<1> USE DEF IInv, TypeOK
<1>1. HasId' /\ SaveReady'
  BY DEF HasId, SaveReady
<1>2. ChildHandle'
  <2> SUFFICES ASSUME NEW d \in Cmds, cmd'[d].child # NoPid
               PROVE  /\ proc'[cmd'[d].child].parent = d
                      /\ proc'[cmd'[d].child].id = cmd'[d].id
                      /\ proc'[cmd'[d].child].state \in {"init", "user", "zombie"}
    BY DEF ChildHandle, Live
  <2>1. cmd[d].child \in Pids /\ cmd'[d].child = cmd[d].child
    BY DEF Records
  <2> QED
    BY <2>1 DEF Ownership, ChildHandle, Live
<1>3. ChildPhase'
  BY DEF Ownership, ChildPhase
<1>4. ParentHasChild'
  BY DEF Ownership, ParentHasChild, Procs
<1>5. Supervised' /\ Unowned'
  BY DEF Ownership, Supervised, Unowned, Live
<1> QED
  BY <1>1, <1>2, <1>3, <1>4, <1>5 DEF Ownership

\* The common case: one command moves to another of its steps.
LEMMA PhaseStep ==
    ASSUME IInv, NEW c \in Cmds, NEW r \in Records,
           cmd' = [cmd EXCEPT ![c] = r],
           r.op = cmd[c].op, r.id = cmd[c].id, r.child = cmd[c].child,
           HasChild(c)' <=> HasChild(c),
           r.pc \in {"mkdir", "open", "write"} => r.snap \in States,
           UNCHANGED proc
    PROVE  cmd' \in [Cmds -> Records] /\ HasId' /\ Ownership' /\ SaveReady'
<1> USE DEF IInv, TypeOK
<1>1. cmd' \in [Cmds -> Records]
  OBVIOUS
<1>2. cmd'[c] = r /\ \A d \in Cmds \ {c} : cmd'[d] = cmd[d]
  OBVIOUS
<1>3. \A d \in Cmds : HasChild(d)' <=> HasChild(d)
  BY <1>2 DEF HasChild, At
<1>4. \A d \in Cmds : Saving(d)' => cmd'[d].snap \in States
  BY <1>2 DEF Saving, SaveReady
<1> QED
  BY <1>1, <1>2, <1>3, <1>4, QuietStep

\* The end of a command: its children lose their parent and their lives.
LEMMA ReturnStep ==
    ASSUME IInv, NEW c \in Cmds, Return(c)
    PROVE  /\ cmd' \in [Cmds -> Records] /\ proc' \in [Pids -> Procs]
           /\ HasId' /\ Ownership' /\ SaveReady'
<1> USE NullAssumption DEF IInv, TypeOK
<1>1. Idle \in Records /\ Free \in Procs
  BY DEF Idle, Records, Free, Procs, NoState, Blank, Contents, Pcs
<1>2. cmd' \in [Cmds -> Records]
  BY <1>1 DEF Return
<1>3. cmd'[c] = Idle /\ \A d \in Cmds \ {c} : cmd'[d] = cmd[d]
  BY DEF Return
<1>4. proc' \in [Pids -> Procs]
  BY <1>1 DEF Return, Orphaned, Procs
<1>5. ASSUME NEW p \in Pids
      PROVE  \/ proc[p].parent # c /\ proc'[p] = proc[p]
             \/ proc[p].parent = c /\ proc'[p] = Free
             \/ /\ proc[p].parent = c /\ proc[p].state # "zombie"
                /\ proc'[p] = [proc[p] EXCEPT !.killed = TRUE, !.parent = NoCmd]
  BY DEF Return, Orphaned
<1>6. HasId' /\ SaveReady'
  BY <1>3 DEF HasId, SaveReady, Saving, Idle
<1>7. ChildHandle'
  <2> SUFFICES ASSUME NEW d \in Cmds, cmd'[d].child # NoPid
               PROVE  /\ proc'[cmd'[d].child].parent = d
                      /\ proc'[cmd'[d].child].id = cmd'[d].id
                      /\ proc'[cmd'[d].child].state \in {"init", "user", "zombie"}
    BY DEF ChildHandle, Live
  <2>1. d # c /\ cmd'[d] = cmd[d]
    BY <1>3 DEF Idle
  <2>2. cmd[d].child \in Pids /\ proc[cmd[d].child].parent = d
    BY <2>1 DEF Ownership, ChildHandle, Records
  <2>3. proc'[cmd[d].child] = proc[cmd[d].child]
    BY <2>1, <2>2, <1>5
  <2> QED
    BY <2>1, <2>3 DEF Ownership, ChildHandle, Live
<1>8. ChildPhase'
  BY <1>3 DEF Ownership, ChildPhase, HasChild, At, Idle
<1>9. ParentHasChild' /\ Supervised' /\ Unowned'
  <2> SUFFICES ASSUME NEW p \in Pids
               PROVE  /\ proc'[p].parent # NoCmd => cmd'[proc'[p].parent].child = p
                      /\ \/ Live(p)' /\ ~proc'[p].killed
                         \/ proc'[p].state = "zombie"
                         => proc'[p].parent # NoCmd
                      /\ proc'[p].state \in {"free", "other"} => proc'[p].parent = NoCmd
    BY DEF ParentHasChild, Supervised, Unowned
  <2>1. CASE proc[p].parent # c /\ proc'[p] = proc[p]
    BY <2>1, <1>3 DEF Ownership, ParentHasChild, Supervised, Unowned, Live, Procs
  <2>2. CASE proc'[p] = Free
    BY <2>2 DEF Free, Live
  <2>3. CASE /\ proc[p].state # "zombie"
             /\ proc'[p] = [proc[p] EXCEPT !.killed = TRUE, !.parent = NoCmd]
    BY <2>3 DEF Live, Procs
  <2> QED
    BY <1>5, <2>1, <2>2, <2>3
<1> QED
  BY <1>2, <1>4, <1>6, <1>7, <1>8, <1>9 DEF Ownership

----------------------------------------------------------------------------
(* The invariant is inductive: one lemma per group of actions. *)

LEMMA InitIInv == Init => IInv
<1> SUFFICES ASSUME Init PROVE IInv
  OBVIOUS
<1> USE NullAssumption DEF Init
<1>1. Idle \in Records /\ Free \in Procs /\ NoState \in Contents
  BY DEF Idle, Records, Free, Procs, NoState, Blank, Contents, Pcs
<1>2. TypeOK
  BY <1>1 DEF TypeOK
<1>3. HasId /\ SaveReady
  BY DEF HasId, SaveReady, Saving, Idle
<1>4. Ownership
  BY DEF Ownership, ChildHandle, ChildPhase, HasChild, At, ParentHasChild,
         Supervised, Unowned, Live, Idle, Free
<1> QED
  BY <1>2, <1>3, <1>4 DEF IInv

LEMMA LaunchIInv ==
    ASSUME IInv, NEW c \in Cmds, NEW op \in Ops \ {"wait"}, NEW i \in Ids,
           NEW opt \in BOOLEAN, Launch(c, op, i, opt)
    PROVE  IInv'
<1> USE NullAssumption DEF IInv, TypeOK
<1> DEFINE r == [Idle EXCEPT !.op = op, !.id = i, !.opt = opt,
                             !.pc = IF op = "create" THEN "check" ELSE "load"]
<1>1. r \in Records
  BY DEF Idle, Records, NoState, Blank, Contents, Pcs
<1>2. cmd' = [cmd EXCEPT ![c] = r]
  BY DEF Launch
<1>3. TypeOK'
  BY <1>1, <1>2 DEF Launch
<1>4. /\ r.op = op /\ r.id = i /\ r.child = NoPid
      /\ r.pc \in {"check", "load"}
  BY DEF Idle
<1> HIDE DEF r
<1>5. /\ cmd'[c] = r /\ cmd[c] = Idle
      /\ \A d \in Cmds \ {c} : cmd'[d] = cmd[d]
      /\ proc' = proc
  BY <1>2 DEF Launch
<1>6. HasId' /\ SaveReady'
  BY <1>4, <1>5 DEF HasId, SaveReady, Saving
<1>7. \A d \in Cmds : cmd'[d].child = cmd[d].child
  BY <1>4, <1>5 DEF Idle
<1>8. \A d \in Cmds : cmd[d].child # NoPid => cmd'[d].id = cmd[d].id
  BY <1>5 DEF Idle
<1>9. ChildHandle'
  BY <1>5, <1>7, <1>8 DEF Ownership, ChildHandle, Live
<1>10. ChildPhase'
  BY <1>4, <1>5 DEF Ownership, ChildPhase, HasChild, At
<1>11. ParentHasChild' /\ Supervised' /\ Unowned'
  BY <1>5, <1>7 DEF Ownership, ParentHasChild, Supervised, Unowned, Live, Procs
<1> QED
  BY <1>3, <1>6, <1>9, <1>10, <1>11 DEF Ownership

\* The steps that end the command, or move it on without touching a process.
LEMMA CreateIInv ==
    ASSUME IInv, NEW c \in Cmds,
           CreateCheck(c) \/ SetupCgroup(c) \/ ApplyLimits(c)
    PROVE  IInv'
<1> USE DEF IInv, TypeOK
<1>1. CASE Return(c)
  <2>1. cgroups' \subseteq Ids /\ json' = json /\ retired' = retired
    BY <1>1 DEF CreateCheck, SetupCgroup, ApplyLimits, HasId, At
  <2> QED
    BY <1>1, <2>1, ReturnStep
<1>2. CASE ~Return(c)
  <2> DEFINE r == IF cmd[c].pc = "limits"
                  THEN [cmd[c] EXCEPT !.pc = "mkdir", !.snap = Blank("created")]
                  ELSE [cmd[c] EXCEPT !.pc = IF @ = "check" THEN "cgroup" ELSE "limits"]
  <2>1. /\ cmd' = [cmd EXCEPT ![c] = r] /\ proc' = proc
        /\ cmd[c].op = "create" /\ cmd[c].pc \in {"check", "cgroup", "limits"}
        /\ cgroups' \subseteq Ids /\ json' = json /\ retired' = retired
    BY <1>2 DEF CreateCheck, SetupCgroup, ApplyLimits, Goto, GotoWith, HasId, At, Records
  <2>2. Blank("created") \in States /\ States \subseteq Contents
    BY DEF States, Contents
  <2>3. r \in Records
    BY <2>1, <2>2, ZenonT(40) DEF Records, Pcs
  <2>4. /\ r.op = cmd[c].op /\ r.id = cmd[c].id /\ r.child = cmd[c].child
        /\ r.pc \in {"mkdir", "open", "write"} => r.snap \in States
    BY <2>1, <2>2 DEF Records
  <2>5. HasChild(c)' <=> HasChild(c)
    BY <2>1, <2>4 DEF HasChild, At, Records
  <2> HIDE DEF r
  <2> QED
    BY <2>1, <2>3, <2>4, <2>5, PhaseStep
<1> QED
  BY <1>1, <1>2

LEMMA SaveIInv ==
    ASSUME IInv, NEW c \in Cmds, SaveMkdir(c) \/ SaveOpen(c) \/ SaveWrite(c)
    PROVE  IInv'
<1> USE DEF IInv, TypeOK
<1>1. States \subseteq Contents /\ \A s \in {"nodir", "nofile", "empty", "corrupt"} :
                                     Blank(s) \in Contents
  BY DEF Contents
<1>2. json' \in [Ids -> Contents] /\ cgroups' = cgroups /\ retired' = retired
  <2>1. CASE SaveMkdir(c)
    BY <2>1, <1>1 DEF SaveMkdir
  <2>2. CASE SaveOpen(c)
    BY <2>2, <1>1 DEF SaveOpen
  <2>3. CASE SaveWrite(c)
    <3>1. cmd[c].snap \in States
      BY <2>3 DEF SaveWrite, SaveReady, Saving
    <3>2. Overwritten(json[cmd[c].id], cmd[c].snap) \subseteq Contents
      BY <3>1, <1>1 DEF Overwritten
    <3> QED
      BY <2>3, <3>2 DEF SaveWrite
  <2> QED
    BY <2>1, <2>2, <2>3
<1>3. CASE Return(c)
  BY <1>2, <1>3, ReturnStep
<1>4. CASE ~Return(c) /\ (SaveMkdir(c) \/ SaveOpen(c))
  <2> DEFINE r == IF cmd[c].pc = "mkdir" THEN [cmd[c] EXCEPT !.pc = "open"]
                  ELSE [cmd[c] EXCEPT !.pc = "write", !.linked = TRUE]
  <2>1. /\ cmd' = [cmd EXCEPT ![c] = r] /\ proc' = proc
        /\ cmd[c].pc \in {"mkdir", "open"}
    BY <1>4 DEF SaveMkdir, SaveOpen, Goto
  <2>2. r \in Records
    BY <2>1, ZenonT(40) DEF Records, Pcs
  <2>3. /\ r.op = cmd[c].op /\ r.id = cmd[c].id /\ r.child = cmd[c].child
        /\ r.snap \in States /\ r.pc \in {"open", "write"}
    BY <2>1 DEF Records, SaveReady, Saving
  <2>4. HasChild(c)' <=> HasChild(c)
    BY <2>1, <2>3 DEF HasChild, At, Records
  <2> HIDE DEF r
  <2> QED
    BY <1>2, <2>1, <2>2, <2>3, <2>4, PhaseStep
<1>5. CASE ~Return(c) /\ SaveWrite(c)
  <2> DEFINE r == [cmd[c] EXCEPT !.op = "wait", !.pc = "wait",
                                 !.linked = FALSE, !.snap = NoState]
  <2>1. /\ cmd' = [cmd EXCEPT ![c] = r] /\ proc' = proc
        /\ At(c, "start", "write")
    BY <1>5 DEF SaveWrite, At
  <2>2. r \in Records
    BY <2>1, <1>1, ZenonT(40) DEF Records, Pcs, Ops, NoState
  <2>3. /\ r.op = "wait" /\ r.pc = "wait" /\ r.id = cmd[c].id
        /\ r.child = cmd[c].child
    BY <2>1 DEF Records
  <2> HIDE DEF r
  <2>4. cmd' \in [Cmds -> Records]
    BY <2>1, <2>2
  <2>5. cmd'[c] = r /\ \A d \in Cmds \ {c} : cmd'[d] = cmd[d]
    BY <2>1
  <2>6. HasId' /\ SaveReady'
    BY <2>1, <2>3, <2>5 DEF HasId, SaveReady, Saving, At
  <2>7. \A d \in Cmds : cmd'[d].child = cmd[d].child /\ cmd'[d].id = cmd[d].id
    BY <2>3, <2>5
  <2>8. ChildHandle'
    BY <2>1, <2>7 DEF Ownership, ChildHandle, Live
  <2>9. \A d \in Cmds : HasChild(d)' <=> HasChild(d)
    BY <2>1, <2>3, <2>5 DEF HasChild, At
  <2>10. ChildPhase'
    BY <2>7, <2>9 DEF Ownership, ChildPhase
  <2>11. ParentHasChild' /\ Supervised' /\ Unowned'
    BY <2>1, <2>7 DEF Ownership, ParentHasChild, Supervised, Unowned, Live, Procs
  <2> QED
    BY <1>2, <2>1, <2>4, <2>6, <2>8, <2>10, <2>11 DEF Ownership
<1> QED
  BY <1>3, <1>4, <1>5

LEMMA LoadIInv ==
    ASSUME IInv, NEW c \in Cmds,
           \/ LoadFails(c) \/ StartLoad(c) \/ KillLoad(c) \/ StateLoad(c)
           \/ DeleteLoad(c) \/ WaitLoad(c)
    PROVE  IInv'
<1> USE DEF IInv, TypeOK
<1>1. json' = json /\ cgroups' = cgroups /\ retired' = retired /\ cmd[c].pc = "load"
  BY DEF LoadFails, StartLoad, KillLoad, StateLoad, DeleteLoad, WaitLoad,
         LoadState, At
<1>2. CASE Return(c)
  BY <1>1, <1>2, ReturnStep
<1>3. CASE ~Return(c)
  <2>1. PICK pc \in {"fork", "signal", "probe", "rmcgroup", "mkdir"}, s \in States :
          /\ cmd' = [cmd EXCEPT ![c].pc = pc, ![c].snap = s]
          /\ proc' = proc
    BY <1>3 DEF LoadFails, StartLoad, KillLoad, StateLoad, DeleteLoad, WaitLoad,
                LoadState, Readable, GotoWith, States, Stopped
  <2>2. pc = "mkdir" => cmd[c].op = "wait"
    BY <1>1, <1>3, <2>1 DEF LoadFails, StartLoad, KillLoad, StateLoad, DeleteLoad,
       WaitLoad, LoadState, At, GotoWith, Records
  <2> DEFINE r == [cmd[c] EXCEPT !.pc = pc, !.snap = s]
  <2>3. cmd' = [cmd EXCEPT ![c] = r]
    BY <2>1
  <2>4. r \in Records
    BY <2>1, ZenonT(40) DEF Records, Pcs, Contents
  <2>5. /\ r.op = cmd[c].op /\ r.id = cmd[c].id /\ r.child = cmd[c].child
        /\ r.snap \in States /\ r.pc = pc
    BY <2>1 DEF Records
  <2> HIDE DEF r
  <2>6. HasChild(c)' <=> HasChild(c)
    BY <1>1, <2>1, <2>2, <2>3, <2>5 DEF HasChild, At, Records
  <2> QED
    BY <1>1, <2>1, <2>3, <2>4, <2>5, <2>6, PhaseStep
<1> QED
  BY <1>2, <1>3

\* The fork: parent and child come to name each other in one step.
LEMMA StartContainerIInv ==
    ASSUME IInv, NEW c \in Cmds, StartContainer(c)
    PROVE  IInv'
<1> USE NullAssumption DEF IInv, TypeOK
<1>1. json' = json /\ cgroups' = cgroups /\ retired' = retired /\ At(c, "start", "fork")
  BY DEF StartContainer
<1>2. CASE Return(c)
  BY <1>1, <1>2, ReturnStep
<1>3. CASE ~Return(c)
  <2>1. PICK p \in Pids :
          /\ proc[p] = Free
          /\ proc' = [proc EXCEPT ![p] =
                        [Free EXCEPT !.state = "init", !.id = cmd[c].id, !.parent = c]]
          /\ cmd' = [cmd EXCEPT ![c].pc = "attach", ![c].child = p]
    BY <1>3 DEF StartContainer
  <2> DEFINE q == [Free EXCEPT !.state = "init", !.id = cmd[c].id, !.parent = c]
             r == [cmd[c] EXCEPT !.pc = "attach", !.child = p]
  <2>2. q \in Procs /\ r \in Records
    BY ZenonT(40) DEF Free, Procs, Records, Pcs
  <2>3. /\ q.state = "init" /\ q.id = cmd[c].id /\ q.parent = c
        /\ r.op = "start" /\ r.pc = "attach" /\ r.id = cmd[c].id /\ r.child = p
    BY <1>1 DEF Free, Records, At
  <2>4. proc' = [proc EXCEPT ![p] = q] /\ cmd' = [cmd EXCEPT ![c] = r]
    BY <2>1
  <2> HIDE DEF q, r
  <2>5. proc' \in [Pids -> Procs] /\ cmd' \in [Cmds -> Records]
    BY <2>2, <2>4
  <2>6. /\ proc'[p] = q /\ \A x \in Pids \ {p} : proc'[x] = proc[x]
        /\ cmd'[c] = r /\ \A d \in Cmds \ {c} : cmd'[d] = cmd[d]
    BY <2>4
  <2>7. HasId' /\ SaveReady'
    BY <1>1, <2>3, <2>6 DEF HasId, SaveReady, Saving, At
  <2>8. proc[p].parent = NoCmd /\ proc[p].state = "free"
    BY <2>1 DEF Free
  <2>9. \A d \in Cmds : cmd[d].child # p
    BY <2>8 DEF Ownership, ChildHandle, Live
  <2>10. ChildHandle'
    <3> SUFFICES ASSUME NEW d \in Cmds, cmd'[d].child # NoPid
                 PROVE  /\ proc'[cmd'[d].child].parent = d
                        /\ proc'[cmd'[d].child].id = cmd'[d].id
                        /\ proc'[cmd'[d].child].state \in {"init", "user", "zombie"}
      BY DEF ChildHandle, Live
    <3>1. CASE d = c
      BY <3>1, <2>3, <2>6
    <3>2. CASE d # c
      <4>1. cmd[d].child \in Pids \ {p}
        BY <3>2, <2>6, <2>9 DEF Records
      <4> QED
        BY <3>2, <4>1, <2>6 DEF Ownership, ChildHandle, Live
    <3> QED
      BY <3>1, <3>2
  <2>11. ChildPhase'
    BY <1>1, <2>3, <2>6 DEF Ownership, ChildPhase, HasChild, At
  <2>12. cmd[c].child = NoPid
    BY <1>1 DEF Ownership, ChildPhase, HasChild, At
  <2>13. ParentHasChild'
    <3> SUFFICES ASSUME NEW x \in Pids, proc'[x].parent # NoCmd
                 PROVE  cmd'[proc'[x].parent].child = x
      BY DEF ParentHasChild
    <3>1. CASE x = p
      BY <3>1, <2>3, <2>6
    <3>2. CASE x # p
      <4>1. proc[x].parent \in Cmds /\ cmd[proc[x].parent].child = x
        BY <3>2, <2>6 DEF Ownership, ParentHasChild, Procs
      <4> QED
        BY <3>2, <4>1, <2>6, <2>12
    <3> QED
      BY <3>1, <3>2
  <2>14. Supervised' /\ Unowned'
    BY <2>3, <2>6 DEF Ownership, Supervised, Unowned, Live
  <2> QED
    BY <1>1, <2>5, <2>7, <2>10, <2>11, <2>13, <2>14 DEF Ownership
<1> QED
  BY <1>2, <1>3

\* proc.Wait: they cease to name each other in one step.
LEMMA WaitExitIInv ==
    ASSUME IInv, NEW c \in Cmds, WaitExit(c)
    PROVE  IInv'
<1> USE NullAssumption DEF IInv, TypeOK
<1> DEFINE p == cmd[c].child
           r == [cmd[c] EXCEPT !.pc = "load", !.child = NoPid]
<1>1. /\ json' = json /\ cgroups' = cgroups /\ retired' = retired
      /\ At(c, "wait", "wait")
      /\ proc' = [proc EXCEPT ![p] = Free] /\ cmd' = [cmd EXCEPT ![c] = r]
  BY DEF WaitExit
<1>2. Free \in Procs /\ Free.parent = NoCmd /\ Free.state = "free"
  BY DEF Free, Procs
<1>3. p \in Pids /\ proc[p].parent = c
  BY <1>1 DEF Ownership, ChildPhase, HasChild, ChildHandle, Records
<1>4. /\ r \in Records
      /\ r.op = "wait" /\ r.pc = "load" /\ r.id = cmd[c].id /\ r.child = NoPid
  BY <1>1, ZenonT(40) DEF Records, Pcs, At
<1> HIDE DEF r, p
<1>5. proc' \in [Pids -> Procs] /\ cmd' \in [Cmds -> Records]
  BY <1>1, <1>2, <1>4
<1>6. /\ proc'[p] = Free /\ \A x \in Pids \ {p} : proc'[x] = proc[x]
      /\ cmd'[c] = r /\ \A d \in Cmds \ {c} : cmd'[d] = cmd[d]
  BY <1>1, <1>3
<1>7. HasId' /\ SaveReady'
  BY <1>1, <1>4, <1>6 DEF HasId, SaveReady, Saving, At
<1>8. ChildHandle'
  <2> SUFFICES ASSUME NEW d \in Cmds, cmd'[d].child # NoPid
               PROVE  /\ proc'[cmd'[d].child].parent = d
                      /\ proc'[cmd'[d].child].id = cmd'[d].id
                      /\ proc'[cmd'[d].child].state \in {"init", "user", "zombie"}
    BY DEF ChildHandle, Live
  <2>1. d # c /\ cmd'[d] = cmd[d]
    BY <1>4, <1>6
  <2>2. cmd[d].child \in Pids \ {p}
    BY <2>1, <1>3 DEF Ownership, ChildHandle, Records
  <2> QED
    BY <2>1, <2>2, <1>6 DEF Ownership, ChildHandle, Live
<1>9. ChildPhase'
  BY <1>1, <1>4, <1>6 DEF Ownership, ChildPhase, HasChild, At
<1>10. ParentHasChild'
  <2> SUFFICES ASSUME NEW x \in Pids, proc'[x].parent # NoCmd
               PROVE  cmd'[proc'[x].parent].child = x
    BY DEF ParentHasChild
  <2>1. x # p /\ proc'[x] = proc[x]
    BY <1>2, <1>6
  <2>2. proc[x].parent \in Cmds /\ cmd[proc[x].parent].child = x
    BY <2>1 DEF Ownership, ParentHasChild, Procs
  <2>3. proc[x].parent # c
    BY <2>1, <2>2 DEF p
  <2> QED
    BY <2>1, <2>2, <2>3, <1>6
<1>11. Supervised' /\ Unowned'
  BY <1>2, <1>6 DEF Ownership, Supervised, Unowned, Live
<1> QED
  BY <1>1, <1>5, <1>7, <1>8, <1>9, <1>10, <1>11 DEF Ownership

\* Confining, signalling and probing leave every owner in place.
LEMMA TouchIInv ==
    ASSUME IInv, NEW c \in Cmds,
           \/ AddProcessToCgroup(c) \/ KillSignal(c) \/ DeleteSignal(c)
           \/ StateProbe(c)
    PROVE  IInv'
<1> USE DEF IInv, TypeOK
<1>1. json' = json /\ cgroups' = cgroups /\ retired' = retired
  BY DEF AddProcessToCgroup, KillSignal, DeleteSignal, StateProbe
<1>2. CASE Return(c)
  BY <1>1, <1>2, ReturnStep
<1>3. CASE ~Return(c)
  <2>1. PICK pc \in {"mkdir", "rmcgroup"}, s \in Contents :
          /\ cmd' = [cmd EXCEPT ![c].pc = pc, ![c].snap = s]
          /\ pc = "mkdir" => s \in States
          /\ \/ pc = "mkdir" /\ At(c, "start", "attach")
             \/ cmd[c].op \in {"kill", "state", "delete"}
    <3>1. CASE AddProcessToCgroup(c)
      <4>1. HasChild(c)
        BY <3>1 DEF AddProcessToCgroup, HasChild, At
      <4>2. cmd[c].child \in Pids
        BY <4>1 DEF Ownership, ChildPhase, Records
      <4>3. Running(cmd[c].child) \in States /\ States \subseteq Contents
        BY <4>2 DEF States, Contents
      <4> QED
        BY <3>1, <4>3 DEF AddProcessToCgroup, GotoWith
    <3>2. CASE KillSignal(c) \/ StateProbe(c)
      <4>1. Stopped \in States /\ States \subseteq Contents
        BY DEF States, Contents
      <4> QED
        BY <1>3, <3>2, <4>1 DEF KillSignal, StateProbe, GotoWith, At
    <3>3. CASE DeleteSignal(c)
      <4>1. cmd' = [cmd EXCEPT ![c].pc = "rmcgroup", ![c].snap = cmd[c].snap]
        BY <3>3 DEF DeleteSignal, Goto, Records
      <4> QED
        BY <3>3, <4>1 DEF DeleteSignal, At, Records
    <3> QED
      BY <3>1, <3>2, <3>3
  <2> DEFINE r == [cmd[c] EXCEPT !.pc = pc, !.snap = s]
  <2>2. cmd' = [cmd EXCEPT ![c] = r]
    BY <2>1
  <2>3. r \in Records
    BY <2>1 DEF Records, Pcs
  <2>4. /\ r.op = cmd[c].op /\ r.id = cmd[c].id /\ r.child = cmd[c].child
        /\ r.pc = pc /\ r.snap = s
    BY DEF Records
  <2> HIDE DEF r
  <2>5. /\ cmd' \in [Cmds -> Records]
        /\ cmd'[c] = r /\ \A d \in Cmds \ {c} : cmd'[d] = cmd[d]
    BY <2>2, <2>3
  <2>6. ASSUME NEW p \in Pids
        PROVE  /\ proc'[p] \in Procs
               /\ proc'[p].id = proc[p].id
               /\ proc'[p].parent = proc[p].parent
               /\ proc[p].killed => proc'[p].killed
               /\ proc'[p].state = proc[p].state
    <3>1. CASE proc'[p] = proc[p]
      BY <3>1
    <3>2. CASE proc'[p] = [proc[p] EXCEPT !.confined = TRUE]
      <4>1. proc[p] \in Procs
        OBVIOUS
      <4>2. /\ proc'[p].id = proc[p].id /\ proc'[p].parent = proc[p].parent
            /\ proc'[p].state = proc[p].state /\ proc'[p].killed = proc[p].killed
        BY <3>2, <4>1 DEF Procs
      <4>3. proc'[p] \in Procs
        BY <3>2, <4>1 DEF Procs
      <4> QED
        BY <4>2, <4>3
    <3>3. CASE proc'[p] = Killed(proc[p])
      BY <3>3 DEF Killed, Procs
    <3>4. \/ proc'[p] = proc[p]
          \/ proc'[p] = [proc[p] EXCEPT !.confined = TRUE]
          \/ proc'[p] = Killed(proc[p])
      <4>1. CASE AddProcessToCgroup(c)
        BY <4>1 DEF AddProcessToCgroup
      <4>2. CASE KillSignal(c)
        BY <1>3, <4>2 DEF KillSignal
      <4>3. CASE DeleteSignal(c)
        BY <4>3 DEF DeleteSignal
      <4>4. CASE StateProbe(c)
        BY <1>3, <4>4 DEF StateProbe
      <4> QED
        BY <4>1, <4>2, <4>3, <4>4
    <3> QED
      BY <3>1, <3>2, <3>3, <3>4
  <2>7. proc' \in [Pids -> Procs]
    <3>1. proc' = [p \in Pids |-> proc'[p]]
      BY <1>3 DEF AddProcessToCgroup, KillSignal, DeleteSignal, StateProbe
    <3> QED
      BY <2>6, <3>1
  <2>8. \A d \in Cmds : HasChild(d)' <=> HasChild(d)
    BY <2>1, <2>4, <2>5 DEF HasChild, At
  <2>9. \A d \in Cmds : Saving(d)' => cmd'[d].snap \in States
    BY <2>1, <2>4, <2>5 DEF Saving, SaveReady
  <2> QED
    BY <1>1, <2>4, <2>5, <2>6, <2>7, <2>8, <2>9, QuietStep
<1> QED
  BY <1>2, <1>3

LEMMA DeleteIInv ==
    ASSUME IInv, NEW c \in Cmds,
           RemoveCgroup(c) \/ DeleteUnlink(c) \/ DeleteRmdir(c)
    PROVE  IInv'
<1> USE DEF IInv, TypeOK
<1>1. NoState \in Contents /\ Blank("nofile") \in Contents
  BY DEF NoState, Contents
<1>2. CASE DeleteRmdir(c)
  BY <1>1, <1>2, ReturnStep DEF DeleteRmdir
<1>3. CASE RemoveCgroup(c)
  <2> DEFINE r == [cmd[c] EXCEPT !.pc = "unlink"]
  <2>1. cmd' = [cmd EXCEPT ![c] = r] /\ At(c, "delete", "rmcgroup")
    BY <1>3 DEF RemoveCgroup, Goto
  <2>2. /\ r \in Records /\ r.pc = "unlink"
        /\ r.op = cmd[c].op /\ r.id = cmd[c].id /\ r.child = cmd[c].child
    BY DEF Records, Pcs
  <2> HIDE DEF r
  <2>3. HasChild(c)' <=> HasChild(c)
    BY <2>1, <2>2 DEF HasChild, At
  <2>4. /\ json' = json /\ proc' = proc /\ retired' = retired
        /\ cgroups' \subseteq Ids
    BY <1>3 DEF RemoveCgroup
  <2> QED
    BY <2>1, <2>2, <2>3, <2>4, PhaseStep
<1>4. CASE DeleteUnlink(c)
  <2>1. ASSUME NEW d \in Cmds
        PROVE  /\ cmd'[d] \in Records
               /\ cmd'[d].op = cmd[d].op
               /\ cmd'[d].id = cmd[d].id
               /\ cmd'[d].child = cmd[d].child
               /\ HasChild(d)' <=> HasChild(d)
               /\ Saving(d)' => cmd'[d].snap \in States
    <3>1. cmd[d] \in Records
      OBVIOUS
    <3>2. CASE d = c
      <4>1. cmd'[d] = [cmd[d] EXCEPT !.pc = "rmdir"] /\ At(d, "delete", "unlink")
        BY <1>4, <3>2 DEF DeleteUnlink
      <4>2. /\ cmd'[d] \in Records /\ cmd'[d].op = "delete" /\ cmd'[d].pc = "rmdir"
            /\ cmd'[d].id = cmd[d].id /\ cmd'[d].child = cmd[d].child
        BY <3>1, <4>1 DEF Records, Pcs, At
      <4> QED
        BY <4>1, <4>2 DEF HasChild, Saving, At
    <3>3. CASE d # c
      <4>1. cmd'[d] = cmd[d] \/ cmd'[d] = [cmd[d] EXCEPT !.linked = FALSE]
        BY <1>4, <3>3 DEF DeleteUnlink
      <4>2. /\ cmd'[d] \in Records /\ cmd'[d].op = cmd[d].op /\ cmd'[d].pc = cmd[d].pc
            /\ cmd'[d].id = cmd[d].id /\ cmd'[d].child = cmd[d].child
            /\ cmd'[d].snap = cmd[d].snap
        BY <3>1, <4>1 DEF Records
      <4> QED
        BY <4>2 DEF HasChild, Saving, SaveReady, At
    <3> QED
      BY <3>2, <3>3
  <2>2. cmd' \in [Cmds -> Records]
    <3>1. cmd' = [d \in Cmds |-> cmd'[d]]
      BY <1>4 DEF DeleteUnlink
    <3> QED
      BY <2>1, <3>1
  <2>3. cmd[c].id \in Ids
    BY <1>4 DEF DeleteUnlink, At, HasId
  <2>4. /\ json' \in [Ids -> Contents] /\ cgroups' = cgroups /\ proc' = proc
        /\ retired' \subseteq Ids
    BY <1>1, <1>4, <2>3 DEF DeleteUnlink
  <2> QED
    BY <2>1, <2>2, <2>4, QuietStep
<1> QED
  BY <1>2, <1>3, <1>4

LEMMA KernelIInv ==
    ASSUME IInv, NEW p \in Pids, Kernel(p)
    PROVE  IInv'
<1> USE NullAssumption DEF IInv, TypeOK
<1>1. /\ json' = json /\ cgroups' = cgroups /\ cmd' = cmd /\ retired' = retired
  BY DEF Kernel, ExecUser, ProcExit, PidRecycled
<1>2. \A d \in Cmds : (HasChild(d)' <=> HasChild(d)) /\ (Saving(d)' <=> Saving(d))
  BY <1>1 DEF HasChild, Saving, At
<1>3. PICK q \in Procs :
        /\ proc' = [proc EXCEPT ![p] = q]
        /\ \/ ExecUser(p) /\ q = [proc[p] EXCEPT !.state = "user"]
           \/ ProcExit(p) /\ proc[p].parent = NoCmd /\ q = Free
           \/ /\ ProcExit(p) /\ proc[p].parent # NoCmd
              /\ q = [proc[p] EXCEPT !.state = "zombie", !.confined = FALSE]
           \/ PidRecycled(p) /\ q = [Free EXCEPT !.state = "other"]
  <2>1. proc[p] \in Procs /\ Free \in Procs
    BY DEF Procs, Free
  <2>2. /\ [proc[p] EXCEPT !.state = "user"] \in Procs
        /\ [proc[p] EXCEPT !.state = "zombie", !.confined = FALSE] \in Procs
        /\ [Free EXCEPT !.state = "other"] \in Procs
    BY <2>1 DEF Procs
  <2>3. CASE ExecUser(p)
    BY <2>2, <2>3 DEF ExecUser
  <2>4. CASE ProcExit(p)
    BY <2>1, <2>2, <2>4 DEF ProcExit
  <2>5. CASE PidRecycled(p)
    BY <2>2, <2>5 DEF PidRecycled
  <2> QED
    BY <2>3, <2>4, <2>5 DEF Kernel
<1>4. proc' \in [Pids -> Procs]
  BY <1>3
<1>5. proc'[p] = q /\ \A x \in Pids \ {p} : proc'[x] = proc[x]
  BY <1>3
<1>6. CASE ExecUser(p)
  <2>1. proc[p] \in Procs /\ proc[p].state = "init"
    BY <1>6 DEF ExecUser
  <2>2. proc' = [proc EXCEPT ![p] = [proc[p] EXCEPT !.state = "user"]]
    BY <1>6 DEF ExecUser
  <2>3. /\ proc'[p].state = "user" /\ proc'[p].id = proc[p].id
        /\ proc'[p].parent = proc[p].parent /\ proc'[p].killed = proc[p].killed
    BY <2>1, <2>2 DEF Procs
  <2>4. ASSUME NEW x \in Pids
        PROVE  /\ proc'[x].id = proc[x].id /\ proc'[x].parent = proc[x].parent
               /\ proc[x].killed => proc'[x].killed
               /\ proc'[x].state = proc[x].state \/ (Live(x) /\ Live(x)')
    BY <1>5, <2>1, <2>3 DEF Live
  <2>5. /\ cmd' \in [Cmds -> Records]
        /\ \A d \in Cmds : Saving(d)' => cmd'[d].snap \in States
    BY <1>1, <1>2 DEF SaveReady
  <2> QED
    BY <1>1, <1>2, <1>4, <2>4, <2>5, QuietStep
<1>7. CASE ProcExit(p) /\ proc[p].parent # NoCmd
  <2>1. proc' = [proc EXCEPT ![p] =
                   [proc[p] EXCEPT !.state = "zombie", !.confined = FALSE]]
    BY <1>7 DEF ProcExit
  <2>2. /\ proc'[p].state = "zombie" /\ proc'[p].id = proc[p].id
        /\ proc'[p].parent = proc[p].parent
    BY <2>1 DEF Procs
  <2>3. HasId' /\ SaveReady' /\ ChildPhase'
    BY <1>1, <1>2 DEF HasId, SaveReady, Ownership, ChildPhase
  <2>4. ChildHandle'
    <3> SUFFICES ASSUME NEW d \in Cmds, cmd[d].child # NoPid
                 PROVE  /\ proc'[cmd[d].child].parent = d
                        /\ proc'[cmd[d].child].id = cmd[d].id
                        /\ proc'[cmd[d].child].state \in {"init", "user", "zombie"}
      BY <1>1 DEF ChildHandle, Live
    <3>1. cmd[d].child \in Pids
      BY DEF Records
    <3> QED
      BY <3>1, <1>5, <2>2 DEF Ownership, ChildHandle, Live
  <2>5. ParentHasChild' /\ Supervised' /\ Unowned'
    BY <1>1, <1>5, <1>7, <2>2 DEF Ownership, ParentHasChild, Supervised, Unowned, Live
  <2> QED
    BY <1>1, <1>4, <2>3, <2>4, <2>5 DEF Ownership
<1>8. CASE (ProcExit(p) /\ proc[p].parent = NoCmd) \/ PidRecycled(p)
  <2>1. proc[p].parent = NoCmd
    BY <1>8 DEF PidRecycled, Free
  <2>2. proc'[p].state \in {"free", "other"} /\ proc'[p].parent = NoCmd
    <3>1. CASE ProcExit(p) /\ proc[p].parent = NoCmd
      BY <3>1 DEF ProcExit, Free
    <3>2. CASE PidRecycled(p)
      BY <3>2 DEF PidRecycled, Free
    <3> QED
      BY <1>8, <3>1, <3>2
  <2>3. HasId' /\ SaveReady' /\ ChildPhase'
    BY <1>1, <1>2 DEF HasId, SaveReady, Ownership, ChildPhase
  <2>4. ChildHandle'
    <3> SUFFICES ASSUME NEW d \in Cmds, cmd[d].child # NoPid
                 PROVE  /\ proc'[cmd[d].child].parent = d
                        /\ proc'[cmd[d].child].id = cmd[d].id
                        /\ proc'[cmd[d].child].state \in {"init", "user", "zombie"}
      BY <1>1 DEF ChildHandle, Live
    <3>1. cmd[d].child \in Pids \ {p}
      BY <2>1 DEF Records, Ownership, ChildHandle
    <3> QED
      BY <3>1, <1>5 DEF Ownership, ChildHandle, Live
  <2>5. ParentHasChild' /\ Supervised' /\ Unowned'
    BY <1>1, <1>5, <2>2 DEF Ownership, ParentHasChild, Supervised, Unowned, Live
  <2> QED
    BY <1>1, <1>4, <2>3, <2>4, <2>5 DEF Ownership
<1> QED
  BY <1>6, <1>7, <1>8 DEF Kernel

----------------------------------------------------------------------------
\* Every step of Lifecycle preserves the invariant.
LEMMA NextIInv == IInv /\ [Next]_vars => IInv'
<1> SUFFICES ASSUME IInv, [Next]_vars PROVE IInv'
  OBVIOUS
<1>1. CASE UNCHANGED vars
  BY <1>1 DEF vars, IInv, TypeOK, HasId, Ownership, ChildHandle, ChildPhase,
     HasChild, At, ParentHasChild, Supervised, Unowned, SaveReady, Saving, Live
<1>2. ASSUME NEW c \in Cmds, NEW op \in Ops \ {"wait"}, NEW i \in Ids,
             NEW opt \in BOOLEAN, Launch(c, op, i, opt)
      PROVE  IInv'
  BY <1>2, LaunchIInv
<1>3. ASSUME NEW c \in Cmds, Step(c) PROVE IInv'
  BY <1>3, CreateIInv, SaveIInv, LoadIInv, StartContainerIInv, WaitExitIInv,
     TouchIInv, DeleteIInv DEF Step
<1>4. ASSUME NEW c \in Cmds, Crash(c) PROVE IInv'
  BY <1>4, ReturnStep DEF Crash, IInv, TypeOK
<1>5. ASSUME NEW p \in Pids, Kernel(p) PROVE IInv'
  BY <1>5, KernelIInv
<1> QED
  BY <1>1, <1>2, <1>3, <1>4, <1>5 DEF Next

LEMMA Invariance == Spec => []IInv
<1> QED
  BY InitIInv, NextIInv, PTL DEF Spec

\* The variables keep their types, whatever the environment does.
THEOREM TypeCorrect == Spec => []TypeOK
<1>1. IInv => TypeOK
  BY DEF IInv
<1> QED
  BY <1>1, Invariance, PTL

\* No container process outlives the start that forked it (exec.go:103-104),
\* for any overlap, crash, ID reuse or PID recycling.
THEOREM NoOrphans == Spec => []NoOrphan
<1>1. IInv => NoOrphan
  <2> SUFFICES ASSUME IInv, NEW p \in Pids, Live(p), ~proc[p].killed
               PROVE  \E c \in Cmds : cmd[c].child = p /\ cmd[c].id = proc[p].id
    BY DEF NoOrphan
  <2> DEFINE c == proc[p].parent
  <2>1. c \in Cmds /\ cmd[c].child = p
    BY DEF IInv, TypeOK, Ownership, Supervised, ParentHasChild, Procs
  <2>2. cmd[c].id = proc[p].id
    BY <2>1, NullAssumption DEF IInv, Ownership, ChildHandle
  <2> QED
    BY <2>1, <2>2
<1> QED
  BY <1>1, Invariance, PTL

\* The PID a start holds names its own child until proc.Wait has reaped it.
THEOREM ChildHandles == Spec => []ChildHandle
<1>1. IInv => ChildHandle
  BY DEF IInv, Ownership
<1> QED
  BY <1>1, Invariance, PTL

----------------------------------------------------------------------------
(* A truncated state.json, when no command dies between open and write. *)

\* Only the write itself takes the writer away.
LEMMA NextEmptyHasWriter ==
    ASSUME IInv, EmptyHasWriter, [Next]_vars, "crash" \notin Hazards
    PROVE  EmptyHasWriter'
<1> USE DEF IInv, TypeOK
<1> SUFFICES ASSUME NEW i \in Ids, json'[i].status = "empty"
             PROVE  \E c \in Cmds : /\ cmd'[c].id = i /\ cmd'[c].pc = "write"
                                    /\ cmd'[c].linked
  BY DEF EmptyHasWriter
<1> DEFINE Writes(r) == r.id = i /\ r.pc = "write" /\ r.linked
<1> HIDE DEF Writes
<1>1. json[i].status = "empty" => \E d \in Cmds : Writes(cmd[d])
  BY DEF EmptyHasWriter, Writes
<1> SUFFICES \E c \in Cmds : Writes(cmd'[c])
  BY DEF Writes
<1>2. ASSUME NEW c \in Cmds, ~Writes(cmd[c]), json[i].status = "empty",
             \A d \in Cmds \ {c} : cmd'[d] = cmd[d]
      PROVE  \E d \in Cmds : Writes(cmd'[d])
  <2>1. PICK d \in Cmds : Writes(cmd[d])
    BY <1>1, <1>2
  <2>2. d # c
    BY <1>2, <2>1
  <2> QED
    BY <1>2, <2>1, <2>2
<1>3. CASE UNCHANGED <<json, cmd>>
  BY <1>1, <1>3
<1>4. ASSUME NEW c \in Cmds, SaveOpen(c)
      PROVE  \E d \in Cmds : Writes(cmd'[d])
  <2>1. CASE json[cmd[c].id] # NoState /\ cmd[c].id = i
    <3>1. cmd' = [cmd EXCEPT ![c].pc = "write", ![c].linked = TRUE]
      BY <1>4, <2>1 DEF SaveOpen
    <3>2. cmd[c] \in Records /\ cmd'[c] = [cmd[c] EXCEPT !.pc = "write", !.linked = TRUE]
      BY <3>1
    <3>3. cmd'[c].id = i /\ cmd'[c].pc = "write" /\ cmd'[c].linked = TRUE
      BY <2>1, <3>2 DEF Records
    <3> QED
      BY <3>3 DEF Writes
  <2>2. CASE json[cmd[c].id] = NoState \/ cmd[c].id # i
    <3>1. json'[i] = json[i] /\ \A d \in Cmds \ {c} : cmd'[d] = cmd[d]
      BY <1>4, <2>2 DEF SaveOpen, Return
    <3>2. ~Writes(cmd[c])
      BY <1>4 DEF SaveOpen, Writes
    <3> QED
      BY <1>2, <3>1, <3>2
  <2> QED
    BY <2>1, <2>2
<1>5. ASSUME NEW c \in Cmds, SaveWrite(c)
      PROVE  \E d \in Cmds : Writes(cmd'[d])
  <2>1. \A d \in Cmds \ {c} : cmd'[d] = cmd[d]
    BY <1>5 DEF SaveWrite, Return
  <2>2. ~(cmd[c].linked /\ cmd[c].id = i)
    <3> SUFFICES ASSUME cmd[c].linked, cmd[c].id = i PROVE FALSE
      OBVIOUS
    <3>1. json'[i] \in Overwritten(json[i], cmd[c].snap)
      BY <1>5 DEF SaveWrite
    <3>2. cmd[c].snap \in States
      BY <1>5 DEF SaveWrite, SaveReady, Saving
    <3>3. cmd[c].snap.status # "empty" /\ Blank("corrupt").status # "empty"
      BY <3>2 DEF States, Blank, Stopped, Running
    <3> QED
      BY <3>1, <3>3 DEF Overwritten
  <2>3. json'[i] = json[i]
    BY <1>5, <2>2 DEF SaveWrite
  <2>4. ~Writes(cmd[c])
    BY <2>2 DEF Writes
  <2> QED
    BY <1>2, <2>1, <2>3, <2>4
<1>6. ASSUME NEW c \in Cmds, DeleteUnlink(c)
      PROVE  \E d \in Cmds : Writes(cmd'[d])
  <2>1. cmd[c].id # i
    BY <1>6 DEF DeleteUnlink, ContainerExists, Blank
  <2>2. json'[i] = json[i]
    BY <1>6, <2>1 DEF DeleteUnlink
  <2>3. PICK d \in Cmds : Writes(cmd[d])
    BY <1>1, <2>2
  <2>4. cmd'[d] = cmd[d]
    BY <1>6, <2>1, <2>3 DEF DeleteUnlink, Writes, At
  <2> QED
    BY <2>3, <2>4
<1>7. ASSUME NEW c \in Cmds,
             Step(c), ~SaveOpen(c), ~SaveWrite(c), ~DeleteUnlink(c)
      PROVE  \E d \in Cmds : Writes(cmd'[d])
  <2>1. cmd[c].pc # "write" /\ \A d \in Cmds \ {c} : cmd'[d] = cmd[d]
    BY <1>7 DEF Step, Goto, GotoWith, Return, At, LoadState,
       CreateCheck, SetupCgroup, ApplyLimits, SaveMkdir, LoadFails, StartLoad,
       KillLoad, StateLoad, DeleteLoad, WaitLoad, StartContainer,
       AddProcessToCgroup, WaitExit, KillSignal, DeleteSignal, StateProbe,
       RemoveCgroup, DeleteRmdir
  <2>2. \/ json' = json
        \/ SaveMkdir(c)
        \/ DeleteRmdir(c)
    BY <1>7 DEF Step, CreateCheck, SetupCgroup, ApplyLimits, LoadFails,
       StartLoad, KillLoad, StateLoad, DeleteLoad, WaitLoad, StartContainer,
       AddProcessToCgroup, WaitExit, KillSignal, DeleteSignal, StateProbe,
       RemoveCgroup
  <2>3. json[i].status = "empty"
    BY <2>2 DEF SaveMkdir, DeleteRmdir, NoState, Blank
  <2>4. ~Writes(cmd[c])
    BY <2>1 DEF Writes
  <2> QED
    BY <1>2, <2>1, <2>3, <2>4
<1>8. ASSUME NEW c \in Cmds, NEW op \in Ops \ {"wait"}, NEW j \in Ids,
             NEW opt \in BOOLEAN, Launch(c, op, j, opt)
      PROVE  \E d \in Cmds : Writes(cmd'[d])
  <2>1. /\ json' = json /\ \A d \in Cmds \ {c} : cmd'[d] = cmd[d]
        /\ cmd[c].pc # "write"
    BY <1>8 DEF Launch, Idle
  <2>2. ~Writes(cmd[c])
    BY <2>1 DEF Writes
  <2> QED
    BY <1>2, <2>1, <2>2
<1>9. ASSUME NEW p \in Pids, Kernel(p) PROVE UNCHANGED <<json, cmd>>
  BY <1>9 DEF Kernel, ExecUser, ProcExit, PidRecycled
<1> QED
  BY <1>3, <1>4, <1>5, <1>6, <1>7, <1>8, <1>9 DEF Next, Crash, vars

\* When no command dies halfway, an empty state.json has a writer, however
\* many commands overlap: it will not stay empty.
THEOREM EmptyHasAWriter ==
    ASSUME "crash" \notin Hazards
    PROVE  Spec => []EmptyHasWriter
<1>1. Init => EmptyHasWriter
  BY DEF Init, EmptyHasWriter, NoState, Blank
<1>2. IInv /\ EmptyHasWriter /\ [Next]_vars => EmptyHasWriter'
  BY NextEmptyHasWriter
<1> QED
  BY <1>1, <1>2, Invariance, PTL DEF Spec
=============================================================================
