------------------------- MODULE UndisturbedProofs -------------------------
(***************************************************************************)
(* Theorems about Lifecycle when no command dies halfway: the containers    *)
(* that are waited for are in their cgroups (Confined, StartFindsCgroup,    *)
(* for commands issued one at a time), and who attends to a record that     *)
(* says "running" (RunningIsAttended, however many commands overlap).       *)
(***************************************************************************)
EXTENDS OneAtATimeProofs

----------------------------------------------------------------------------
(* What any step of a command leaves alone. *)

LEMMA OthersStay ==
    ASSUME IInv, NEW c \in Cmds, Step(c) \/ Return(c), NEW d \in Cmds \ {c}
    PROVE  /\ cmd'[d].op = cmd[d].op /\ cmd'[d].pc = cmd[d].pc
           /\ cmd'[d].id = cmd[d].id /\ cmd'[d].opt = cmd[d].opt
           /\ cmd'[d].snap = cmd[d].snap /\ cmd'[d].child = cmd[d].child
<1>1. CASE DeleteUnlink(c)
  BY <1>1 DEF DeleteUnlink, IInv, TypeOK, Records
<1>2. CASE ~DeleteUnlink(c)
  <2>1. cmd'[d] = cmd[d]
    <3>1. CASE CreateCheck(c) \/ SetupCgroup(c) \/ ApplyLimits(c) \/ SaveMkdir(c)
               \/ SaveOpen(c) \/ SaveWrite(c)
      BY <1>2, <3>1 DEF CreateCheck, SetupCgroup, ApplyLimits, SaveMkdir, SaveOpen,
         SaveWrite, Goto, GotoWith, Return, IInv, TypeOK
    <3>2. CASE LoadFails(c) \/ StartLoad(c) \/ KillLoad(c) \/ StateLoad(c)
               \/ DeleteLoad(c) \/ WaitLoad(c)
      BY <1>2, <3>2 DEF LoadFails, StartLoad, KillLoad, StateLoad, DeleteLoad,
         WaitLoad, Goto, GotoWith, Return, IInv, TypeOK
    <3>3. CASE StartContainer(c) \/ AddProcessToCgroup(c) \/ WaitExit(c)
               \/ RemoveCgroup(c)
      BY <1>2, <3>3 DEF StartContainer, AddProcessToCgroup, WaitExit, RemoveCgroup,
         Goto, GotoWith, Return, IInv, TypeOK
    <3>5. CASE KillSignal(c) \/ DeleteSignal(c) \/ StateProbe(c)
               \/ DeleteUnlink(c) \/ DeleteRmdir(c)
      BY <1>2, <3>5 DEF KillSignal, DeleteSignal, StateProbe, DeleteRmdir, Goto,
         GotoWith, Return, IInv, TypeOK
    <3>4. CASE Return(c)
      BY <1>2, <3>4 DEF Goto, GotoWith, Return, IInv, TypeOK
    <3> QED
      BY <3>1, <3>2, <3>3, <3>4, <3>5 DEF Step
  <2> QED
    BY <2>1
<1> QED
  BY <1>1, <1>2

\* Only a save puts a status into a record.
LEMMA RecordFrom ==
    ASSUME IInv, NEW c \in Cmds, Step(c), NEW i \in Ids,
           json'[i].status \in {"created", "running", "stopped"}
    PROVE  \/ json'[i] = json[i] /\ ~(DeleteUnlink(c) /\ cmd[c].id = i)
                                 /\ ~(SaveOpen(c) /\ cmd[c].id = i)
           \/ SaveWrite(c) /\ cmd[c].id = i /\ json'[i] = cmd[c].snap
<1>1. CASE SaveMkdir(c)
  BY <1>1 DEF SaveMkdir, SaveOpen, DeleteUnlink, At, Blank, IInv, TypeOK
<1>2. CASE SaveOpen(c)
  <2>1. cmd[c].id = i => json[i] = NoState \/ json'[i] = Blank("empty")
    BY <1>2 DEF SaveOpen, IInv, TypeOK
  <2>2. cmd[c].id = i /\ json[i] = NoState => json'[i] = NoState
    BY <1>2 DEF SaveOpen
  <2>3. cmd[c].id # i
    BY <2>1, <2>2 DEF NoState, Blank
  <2>4. json'[i] = json[i]
    BY <1>2, <2>3 DEF SaveOpen, IInv, TypeOK
  <2> QED
    BY <2>3, <2>4
<1>3. CASE SaveWrite(c)
  <2>1. \A old, new : Overwritten(old, new) \subseteq {new, Blank("corrupt")}
    BY DEF Overwritten
  <2>2. json'[i] = json[i] \/ (cmd[c].id = i /\ json'[i] \in {cmd[c].snap, Blank("corrupt")})
    BY <1>3, <2>1 DEF SaveWrite, IInv, TypeOK
  <2>3. json'[i] # Blank("corrupt")
    BY DEF Blank
  <2>4. ~DeleteUnlink(c) /\ ~SaveOpen(c)
    BY <1>3 DEF SaveWrite, DeleteUnlink, SaveOpen, At
  <2> QED
    BY <1>3, <2>2, <2>3, <2>4
<1>4. CASE DeleteUnlink(c)
  <2>1. cmd[c].id = i => json'[i].status \in {"nodir", "nofile"}
    BY <1>4 DEF DeleteUnlink, ContainerExists, Blank, IInv, TypeOK
  <2>2. cmd[c].id # i
    BY <2>1
  <2>3. json'[i] = json[i]
    BY <1>4, <2>2 DEF DeleteUnlink
  <2> QED
    BY <1>4, <2>2, <2>3 DEF DeleteUnlink, SaveOpen, At
<1>5. CASE DeleteRmdir(c)
  <2>1. json'[i] = json[i] \/ json'[i] = NoState
    BY <1>5 DEF DeleteRmdir, IInv, TypeOK
  <2> QED
    BY <1>5, <2>1 DEF DeleteRmdir, DeleteUnlink, SaveOpen, At, NoState, Blank
<1>6. CASE ~(SaveMkdir(c) \/ SaveOpen(c) \/ SaveWrite(c) \/ DeleteUnlink(c) \/ DeleteRmdir(c))
  <2>1. json' = json
    BY <1>6 DEF Step, CreateCheck, SetupCgroup, ApplyLimits, LoadFails, StartLoad,
       KillLoad, StateLoad, DeleteLoad, WaitLoad, StartContainer, AddProcessToCgroup,
       WaitExit, KillSignal, DeleteSignal, StateProbe, RemoveCgroup
  <2> QED
    BY <1>6, <2>1
<1> QED
  BY <1>1, <1>2, <1>3, <1>4, <1>5, <1>6

----------------------------------------------------------------------------
(* Who attends to a record that says "running". *)

\* Only a start writes "running", with its own child's PID, and then waits.
SavesOK ==
    \A c \in Cmds :
        /\ cmd[c].op = "start" => ~cmd[c].opt
        /\ Saving(c) => IF cmd[c].op = "start" THEN cmd[c].snap = Running(cmd[c].child)
                        ELSE cmd[c].snap.status # "running"

LEMMA StepSavesOK ==
    ASSUME IInv, SavesOK, NEW c \in Cmds, Step(c)
    PROVE  SavesOK'
<1>1. ASSUME NEW d \in Cmds \ {c}
      PROVE  /\ cmd'[d].op = "start" => ~cmd'[d].opt
             /\ Saving(d)' => IF cmd'[d].op = "start" THEN cmd'[d].snap = Running(cmd'[d].child)
                              ELSE cmd'[d].snap.status # "running"
  BY OthersStay DEF SavesOK, Saving
<1>2. Return(c) => cmd'[c] = Idle
  BY DEF Return, IInv, TypeOK
<1>3. cmd[c] \in Records
  BY DEF IInv, TypeOK
<1>4. cmd'[c].op = "start" => ~cmd'[c].opt
  <2>1. cmd'[c] = Idle \/ (cmd'[c].op \in {cmd[c].op, "wait"} /\ cmd'[c].opt = cmd[c].opt)
    <3>1. CASE CreateCheck(c) \/ SetupCgroup(c) \/ ApplyLimits(c) \/ SaveMkdir(c)
               \/ SaveOpen(c) \/ SaveWrite(c)
      BY <1>2, <1>3, <3>1 DEF CreateCheck, SetupCgroup, ApplyLimits, SaveMkdir,
         SaveOpen, SaveWrite, Goto, GotoWith, IInv, TypeOK, Records
    <3>2. CASE LoadFails(c) \/ StartLoad(c) \/ KillLoad(c) \/ StateLoad(c)
               \/ DeleteLoad(c) \/ WaitLoad(c)
      BY <1>2, <1>3, <3>2 DEF LoadFails, StartLoad, KillLoad, StateLoad, DeleteLoad,
         WaitLoad, Goto, GotoWith, IInv, TypeOK, Records
    <3>3. CASE StartContainer(c) \/ AddProcessToCgroup(c) \/ WaitExit(c)
               \/ RemoveCgroup(c)
      BY <1>2, <1>3, <3>3 DEF StartContainer, AddProcessToCgroup, WaitExit,
         RemoveCgroup, Goto, GotoWith, IInv, TypeOK, Records
    <3>5. CASE KillSignal(c) \/ DeleteSignal(c) \/ StateProbe(c)
               \/ DeleteUnlink(c) \/ DeleteRmdir(c)
      BY <1>2, <1>3, <3>5 DEF KillSignal, DeleteSignal, StateProbe, DeleteUnlink,
         DeleteRmdir, Goto, GotoWith, IInv, TypeOK, Records
    <3> QED
      BY <1>2, <1>3, <3>1, <3>2, <3>3, <3>5 DEF Step
  <2> QED
    BY <2>1 DEF SavesOK, Idle
<1>5. ASSUME Saving(c)'
      PROVE  IF cmd'[c].op = "start" THEN cmd'[c].snap = Running(cmd'[c].child)
             ELSE cmd'[c].snap.status # "running"
  <2>0. ~Return(c)
    BY <1>2, <1>5 DEF Idle, Saving
  <2>1. CASE SaveMkdir(c) \/ SaveOpen(c) \/ SaveWrite(c)
    <3>1. /\ cmd'[c].op = cmd[c].op /\ cmd'[c].snap = cmd[c].snap
          /\ cmd'[c].child = cmd[c].child /\ Saving(c)
      BY <1>3, <1>5, <2>0, <2>1 DEF SaveMkdir, SaveOpen, SaveWrite, Goto, Saving, IInv, TypeOK,
         Records
    <3> QED
      BY <3>1 DEF SavesOK
  <2>2. CASE ~(SaveMkdir(c) \/ SaveOpen(c) \/ SaveWrite(c))
    <3>1. \/ ApplyLimits(c) \/ WaitLoad(c) \/ KillSignal(c) \/ StateProbe(c)
          \/ AddProcessToCgroup(c)
      <4>1. CASE CreateCheck(c) \/ SetupCgroup(c) \/ ApplyLimits(c)
                 \/ SaveMkdir(c) \/ SaveOpen(c) \/ SaveWrite(c)
        BY <1>3, <1>5, <2>0, <2>2, <4>1 DEF CreateCheck, SetupCgroup, Goto, GotoWith,
           IInv, TypeOK, Records, Saving
      <4>2. CASE LoadFails(c) \/ StartLoad(c) \/ KillLoad(c) \/ StateLoad(c)
                 \/ DeleteLoad(c) \/ WaitLoad(c)
        BY <1>3, <1>5, <2>0, <2>2, <4>2 DEF LoadFails, StartLoad, KillLoad, StateLoad,
           DeleteLoad, Goto, GotoWith, IInv, TypeOK, Records, Saving
      <4>3. CASE StartContainer(c) \/ AddProcessToCgroup(c) \/ WaitExit(c)
                 \/ KillSignal(c) \/ DeleteSignal(c) \/ StateProbe(c)
                 \/ RemoveCgroup(c) \/ DeleteUnlink(c) \/ DeleteRmdir(c)
        BY <1>3, <1>5, <2>0, <2>2, <4>3 DEF StartContainer, WaitExit, DeleteSignal,
           RemoveCgroup, DeleteUnlink, DeleteRmdir, Goto, GotoWith, IInv, TypeOK,
           Records, Saving
      <4> QED
        BY <1>3, <1>5, <2>0, <2>2, <4>1, <4>2, <4>3 DEF Step
    <3>2. CASE AddProcessToCgroup(c)
      BY <1>3, <3>2 DEF AddProcessToCgroup, GotoWith, At, IInv, TypeOK, Records
    <3>3. CASE ~AddProcessToCgroup(c)
      <4>1. /\ cmd'[c].op \in {"create", "wait", "kill", "state"}
            /\ cmd'[c].snap \in {Blank("created"), Stopped}
        BY <1>3, <2>0, <3>1, <3>3 DEF ApplyLimits, WaitLoad, KillSignal, StateProbe,
           LoadState, GotoWith, At, IInv, TypeOK, Records
      <4> QED
        BY <4>1 DEF Blank, Stopped
    <3> QED
      BY <3>2, <3>3
  <2> QED
    BY <2>1, <2>2
<1> QED
  BY <1>1, <1>4, <1>5 DEF SavesOK

Attends(c, i, p) ==
    /\ cmd[c].op = "wait" /\ cmd[c].id = i
    /\ \/ cmd[c].child = p
       \/ cmd[c].child = NoPid /\ cmd[c].pc \in {"load", "mkdir", "open"}

\* The start that attends to a record does so until it takes "running" away.
LEMMA StepAttended ==
    ASSUME IInv, SavesOK, RunningIsAttended, NEW c \in Cmds, Step(c)
    PROVE  RunningIsAttended'
<1> SUFFICES ASSUME NEW i \in Ids, NEW p \in Pids, json'[i] = Running(p)
             PROVE  \E d \in Cmds : Attends(d, i, p)'
  BY DEF RunningIsAttended, Attends
<1>1. json'[i].status = "running"
  BY DEF Running
<1>2. cmd[c] \in Records
  BY DEF IInv, TypeOK
<1>3. CASE SaveWrite(c) /\ cmd[c].id = i /\ json'[i] = cmd[c].snap
  <2>1. Saving(c) /\ cmd[c].pc = "write"
    BY <1>3 DEF SaveWrite, Saving
  <2>2. cmd[c].op = "start" /\ ~cmd[c].opt /\ cmd[c].snap = Running(cmd[c].child)
    BY <1>1, <1>3, <2>1 DEF SavesOK
  <2>3. cmd[c].child = p
    BY <1>3, <2>2 DEF Running
  <2>4. cmd'[c].op = "wait" /\ cmd'[c].id = i /\ cmd'[c].child = p
    BY <1>2, <1>3, <2>2, <2>3 DEF SaveWrite, IInv, TypeOK, Records
  <2> QED
    BY <2>4 DEF Attends
<1>4. CASE /\ json'[i] = json[i]
           /\ ~(DeleteUnlink(c) /\ cmd[c].id = i) /\ ~(SaveOpen(c) /\ cmd[c].id = i)
  <2>0. json[i] = Running(p)
    BY <1>4
  <2>1. PICK d \in Cmds : Attends(d, i, p)
    BY <2>0 DEF RunningIsAttended, Attends
  <2>2. CASE d # c
    <3>1. Attends(d, i, p)'
      BY <2>1, <2>2, OthersStay DEF Attends
    <3> QED
      BY <3>1
  <2>3. CASE d = c
    <3>1. (At(c, "wait", "wait") /\ cmd[c].child = p) \/ cmd[c].child = NoPid
      BY <2>1, <2>3, NullAssumption DEF Attends, IInv, Ownership, ChildPhase, HasChild, At
    <3>2. json[i] \in States
      BY <1>4 DEF States
    <3>3. CASE At(c, "wait", "wait")
      <4>1. WaitExit(c)
        BY <3>3 DEF At, Step, CreateCheck, SetupCgroup, ApplyLimits,
           SaveMkdir, SaveOpen, SaveWrite, LoadFails, StartLoad, KillLoad, StateLoad,
           DeleteLoad, WaitLoad, LoadState, StartContainer, AddProcessToCgroup, WaitExit,
           KillSignal, DeleteSignal, StateProbe, RemoveCgroup, DeleteUnlink, DeleteRmdir
      <4>2. Attends(c, i, p)'
        BY <1>2, <2>1, <2>3, <4>1 DEF Attends, WaitExit, At, IInv, TypeOK, Records
      <4> QED
        BY <4>2
    <3>4. CASE ~At(c, "wait", "wait")
      <4>1. cmd[c].op = "wait" /\ cmd[c].pc \in {"load", "mkdir", "open"} /\ cmd[c].id = i
            /\ cmd[c].child = NoPid
        BY <2>1, <2>3, <3>1, <3>4, NullAssumption DEF Attends
      <4>2. WaitLoad(c) \/ SaveMkdir(c)
        BY <1>4, <3>2, <4>1 DEF At, Step, CreateCheck, SetupCgroup, ApplyLimits,
           SaveMkdir, SaveOpen, SaveWrite, LoadFails, StartLoad, KillLoad, StateLoad,
           DeleteLoad, WaitLoad, LoadState, StartContainer, AddProcessToCgroup, WaitExit,
           KillSignal, DeleteSignal, StateProbe, RemoveCgroup, DeleteUnlink, DeleteRmdir,
           Readable
      <4>3. Attends(c, i, p)'
        BY <1>2, <4>1, <4>2 DEF Attends, WaitLoad, SaveMkdir, Goto, GotoWith, IInv, TypeOK,
           Records
      <4> QED
        BY <4>3
    <3> QED
      BY <3>3, <3>4
  <2> QED
    BY <2>2, <2>3
<1> QED
  BY <1>1, <1>3, <1>4, RecordFrom

LEMMA NextAttended ==
    ASSUME "crash" \notin Hazards, "detach" \notin Hazards,
           IInv, SavesOK, RunningIsAttended, [Next]_vars
    PROVE  SavesOK' /\ RunningIsAttended'
<1>1. CASE UNCHANGED <<json, cmd>>
  <2>1. json' = json /\ cmd' = cmd
    BY <1>1
  <2>2. SavesOK'
    BY <2>1 DEF SavesOK, Saving
  <2>3. RunningIsAttended'
    BY <2>1 DEF RunningIsAttended
  <2> QED
    BY <2>2, <2>3
<1>2. ASSUME NEW c \in Cmds, NEW op \in Ops \ {"wait"}, NEW i \in Ids,
             NEW opt \in BOOLEAN, Launch(c, op, i, opt)
      PROVE  SavesOK' /\ RunningIsAttended'
  <2>1. /\ cmd'[c].op = op /\ cmd'[c].opt = opt /\ ~Saving(c)'
        /\ \A d \in Cmds \ {c} : cmd'[d] = cmd[d]
        /\ json' = json /\ cmd[c].op = "none"
        /\ op = "start" => ~opt
    BY <1>2 DEF Launch, Idle, Saving, IInv, TypeOK
  <2>2. SavesOK'
    BY <2>1 DEF SavesOK, Saving
  <2>3. RunningIsAttended'
    <3> SUFFICES ASSUME NEW j \in Ids, NEW p \in Pids, json[j] = Running(p)
                 PROVE  \E d \in Cmds : Attends(d, j, p)'
      BY <2>1 DEF RunningIsAttended, Attends
    <3>1. PICK d \in Cmds : Attends(d, j, p)
      BY DEF RunningIsAttended, Attends
    <3>2. cmd'[d] = cmd[d]
      BY <2>1, <3>1 DEF Attends
    <3>3. Attends(d, j, p)'
      BY <3>1, <3>2 DEF Attends
    <3> QED
      BY <3>3
  <2> QED
    BY <2>2, <2>3
<1>3. ASSUME NEW c \in Cmds, Step(c) PROVE SavesOK' /\ RunningIsAttended'
  BY <1>3, StepSavesOK, StepAttended
<1>4. ASSUME NEW p \in Pids, Kernel(p) PROVE UNCHANGED <<json, cmd>>
  BY <1>4 DEF Kernel, ExecUser, ProcExit, PidRecycled
<1> QED
  BY <1>1, <1>2, <1>3, <1>4 DEF Next, Crash, vars

\* When starts wait for their containers and no command dies, a record that
\* says "running" has its start beside it, however many commands overlap. This
\* is about what the file says: a command that has read it may hold the PID
\* for longer.
THEOREM RunningAttended ==
    ASSUME "crash" \notin Hazards, "detach" \notin Hazards
    PROVE  Spec => []RunningIsAttended
<1>1. Init => SavesOK /\ RunningIsAttended
  BY DEF Init, SavesOK, Saving, Idle, RunningIsAttended, NoState, Blank, Running
<1>2. IInv /\ SavesOK /\ RunningIsAttended /\ [Next]_vars => SavesOK' /\ RunningIsAttended'
  BY NextAttended
<1> QED
  BY <1>1, <1>2, Invariance, PTL DEF Spec

----------------------------------------------------------------------------
(* Cgroups: a create makes one before it saves, a record that says          *)
(* "created" has one unless its delete is under way, and whoever runs is in *)
(* his, which a delete cannot remove then. *)

Creates(c) == cmd[c].op = "create" /\ cmd[c].pc \in {"limits", "mkdir", "open", "write"}

CreateHas == \A c \in Cmds : Creates(c) => cmd[c].id \in cgroups

RecordHas ==
    \A i \in Ids : json[i] = Blank("created") /\ i \notin cgroups =>
        \E d \in Cmds : At(d, "delete", "unlink") /\ cmd[d].id = i

ChildHas ==
    \A c \in Cmds : HasChild(c) /\ cmd[c].pc # "attach" /\ Live(cmd[c].child) =>
        proc[cmd[c].child].confined /\ cmd[c].id \in cgroups

CInv == CreateHas /\ RecordHas /\ ChildHas

\* A start finds the cgroup of a create that nobody has deleted since.
LEMMA StartHas ==
    ASSUME IInv, SInv, RecordHas, NEW c \in Cmds,
           cmd[c].op = "start", cmd[c].pc \in {"fork", "attach"}
    PROVE  cmd[c].id \in cgroups
<1>1. PICK i \in Ids : cmd[c].id = i
  BY DEF IInv, HasId
<1>2. json[i] = Blank("created")
  BY <1>1 DEF SInv, FileOK
<1>3. \A d \in Cmds : ~At(d, "delete", "unlink")
  BY DEF SInv, PairOK, Busy, At
<1> QED
  BY <1>1, <1>2, <1>3 DEF RecordHas

\* Which directories a step takes away.
LEMMA CgroupsKept ==
    ASSUME IInv, NEW c \in Cmds, Step(c)
    PROVE  /\ ~RemoveCgroup(c) => cgroups \subseteq cgroups'
           /\ RemoveCgroup(c) => cgroups \ {cmd[c].id} \subseteq cgroups'
<1>1. CASE RemoveCgroup(c)
  <2>1. cgroups \ {cmd[c].id} \subseteq cgroups'
    BY <1>1 DEF RemoveCgroup
  <2> QED
    BY <1>1, <2>1
<1>2. CASE ~RemoveCgroup(c)
  <2>1. cgroups \subseteq cgroups'
    BY <1>2 DEF Step, CreateCheck, SetupCgroup, ApplyLimits,
       SaveMkdir, SaveOpen, SaveWrite, LoadFails, StartLoad, KillLoad, StateLoad,
       DeleteLoad, WaitLoad, StartContainer, AddProcessToCgroup, WaitExit, KillSignal,
       DeleteSignal, StateProbe, DeleteUnlink, DeleteRmdir
  <2> QED
    BY <1>2, <2>1
<1> QED
  BY <1>1, <1>2

LEMMA StepCreateHas ==
    ASSUME IInv, SInv, CreateHas, NEW c \in Cmds, Step(c)
    PROVE  CreateHas'
<1>1. ASSUME NEW d \in Cmds \ {c}, Creates(d)' PROVE cmd'[d].id \in cgroups'
  <2>1. Creates(d) /\ cmd'[d].id = cmd[d].id /\ cmd[d].id \in cgroups
    BY <1>1, OthersStay DEF Creates, CreateHas
  <2>2. ~RemoveCgroup(c)
    BY <2>1 DEF RemoveCgroup, At, SInv, PairOK, Busy, Creates
  <2> QED
    BY <2>1, <2>2, CgroupsKept
<1>2. ASSUME Creates(c)' PROVE cmd'[c].id \in cgroups'
  <2>1. cmd[c] \in Records
    BY DEF IInv, TypeOK
  <2>2. ~Return(c)
    BY <1>2 DEF Return, Idle, Creates, IInv, TypeOK
  <2>3. SetupCgroup(c) \/ ApplyLimits(c) \/ SaveMkdir(c) \/ SaveOpen(c) \/ SaveWrite(c)
    <3>1. CASE CreateCheck(c) \/ SetupCgroup(c) \/ ApplyLimits(c) \/ SaveMkdir(c)
               \/ SaveOpen(c) \/ SaveWrite(c)
      BY <1>2, <2>1, <2>2, <3>1 DEF CreateCheck, Creates, Goto, GotoWith, At,
         LoadState, IInv, TypeOK, Records
    <3>2. CASE LoadFails(c) \/ StartLoad(c) \/ KillLoad(c) \/ StateLoad(c)
               \/ DeleteLoad(c) \/ WaitLoad(c)
      BY <1>2, <2>1, <2>2, <3>2 DEF LoadFails, StartLoad, KillLoad, StateLoad,
         DeleteLoad, WaitLoad, Creates, Goto, GotoWith, At, LoadState, IInv, TypeOK,
         Records
    <3>3. CASE StartContainer(c) \/ AddProcessToCgroup(c) \/ WaitExit(c)
               \/ RemoveCgroup(c)
      BY <1>2, <2>1, <2>2, <3>3 DEF StartContainer, AddProcessToCgroup, WaitExit,
         RemoveCgroup, Creates, Goto, GotoWith, At, LoadState, IInv, TypeOK, Records
    <3>5. CASE KillSignal(c) \/ DeleteSignal(c) \/ StateProbe(c)
               \/ DeleteUnlink(c) \/ DeleteRmdir(c)
      BY <1>2, <2>1, <2>2, <3>5 DEF KillSignal, DeleteSignal, StateProbe,
         DeleteUnlink, DeleteRmdir, Creates, Goto, GotoWith, At, LoadState, IInv,
         TypeOK, Records
    <3> QED
      BY <1>2, <2>1, <2>2, <3>1, <3>2, <3>3, <3>5 DEF Step
  <2>4. CASE SetupCgroup(c)
    BY <2>1, <2>2, <2>4 DEF SetupCgroup, Goto, IInv, TypeOK, Records
  <2>5. CASE ~SetupCgroup(c)
    <3>1. Creates(c) /\ cmd'[c].id = cmd[c].id /\ cgroups' = cgroups
      BY <1>2, <2>1, <2>2, <2>3, <2>5 DEF Creates, ApplyLimits, SaveMkdir, SaveOpen,
         SaveWrite, At, Goto, GotoWith, IInv, TypeOK, Records
    <3> QED
      BY <3>1 DEF CreateHas
  <2> QED
    BY <2>4, <2>5
<1> QED
  BY <1>1, <1>2 DEF CreateHas

LEMMA StepRecordHas ==
    ASSUME IInv, SInv, CreateHas, RecordHas, NEW c \in Cmds, Step(c)
    PROVE  RecordHas'
<1> SUFFICES ASSUME NEW i \in Ids, json'[i] = Blank("created"), i \notin cgroups'
             PROVE  \E d \in Cmds : At(d, "delete", "unlink")' /\ cmd'[d].id = i
  BY DEF RecordHas
<1>0. cmd[c] \in Records /\ json'[i].status = "created"
  BY DEF IInv, TypeOK, Blank
<1>1. CASE SaveWrite(c) /\ cmd[c].id = i /\ json'[i] = cmd[c].snap
  <2>1. Saving(c) /\ cmd[c].pc = "write" /\ cgroups' = cgroups
    BY <1>1 DEF SaveWrite, Saving
  <2>2. cmd[c].op = "create"
    <3>1. SnapOK(c) /\ cmd[c].snap.status = "created"
      BY <1>0, <1>1 DEF SInv
    <3>2. cmd[c].op \in {"create", "start", "wait", "kill", "state"}
      BY <2>1, SavingFacts
    <3> QED
      BY <2>1, <3>1, <3>2 DEF SnapOK, Blank, Stopped, Running
  <2>3. i \in cgroups
    BY <1>1, <2>1, <2>2 DEF CreateHas, Creates
  <2> QED
    BY <2>1, <2>3
<1>2. CASE json'[i] = json[i] /\ ~(DeleteUnlink(c) /\ cmd[c].id = i)
  <2>0. json[i] = Blank("created")
    BY <1>2
  <2>1. CASE i \in cgroups
    <3>1. RemoveCgroup(c) /\ cmd[c].id = i
      BY <2>1, CgroupsKept
    <3>2. At(c, "delete", "unlink")' /\ cmd'[c].id = i
      BY <1>0, <3>1 DEF RemoveCgroup, Goto, At, IInv, TypeOK, Records
    <3> QED
      BY <3>2
  <2>2. CASE i \notin cgroups
    <3>1. PICK d \in Cmds : At(d, "delete", "unlink") /\ cmd[d].id = i
      BY <2>0, <2>2 DEF RecordHas
    <3>2. d # c
      <4> SUFFICES ASSUME At(c, "delete", "unlink"), cmd[c].id = i PROVE FALSE
        BY <3>1
      <4>1. DeleteUnlink(c)
        BY DEF At, Step, CreateCheck, SetupCgroup, ApplyLimits,
           SaveMkdir, SaveOpen, SaveWrite, LoadFails, StartLoad, KillLoad, StateLoad,
           DeleteLoad, WaitLoad, LoadState, StartContainer, AddProcessToCgroup, WaitExit,
           KillSignal, DeleteSignal, StateProbe, RemoveCgroup, DeleteRmdir
      <4> QED
        BY <1>2, <4>1
    <3>3. At(d, "delete", "unlink")' /\ cmd'[d].id = i
      BY <3>1, <3>2, OthersStay DEF At
    <3> QED
      BY <3>3
  <2> QED
    BY <2>1, <2>2
<1> QED
  BY <1>0, <1>1, <1>2, RecordFrom

LEMMA StepChildHas ==
    ASSUME IInv, SInv, RecordHas, ChildHas, NEW c \in Cmds, Step(c)
    PROVE  ChildHas'
<1>0. cmd[c] \in Records
  BY DEF IInv, TypeOK
<1>1. ASSUME NEW d \in Cmds \ {c},
             HasChild(d)', cmd'[d].pc # "attach", Live(cmd[d].child)'
      PROVE  proc'[cmd'[d].child].confined /\ cmd'[d].id \in cgroups'
  <2>1. PICK p \in Pids : cmd[d].child = p /\ cmd'[d].child = p
    <3>1. cmd'[d].child = cmd[d].child /\ HasChild(d)
      BY <1>1, OthersStay DEF HasChild, At
    <3> QED
      BY <3>1 DEF IInv, TypeOK, Records, Ownership, ChildPhase
  <2>2. HasChild(d) /\ cmd[d].pc # "attach" /\ cmd'[d].id = cmd[d].id
    BY <1>1, OthersStay DEF HasChild, At
  <2>3. proc[p].parent = d /\ proc[p].id = cmd[d].id /\ proc[p] # Free /\ proc[p] \in Procs
    BY <2>1, <2>2, NullAssumption DEF IInv, TypeOK, Ownership, ChildPhase, ChildHandle, Free
  <2>4. Live(p) /\ (proc[p].confined => proc'[p].confined)
    <3>1. CASE Return(c)
      <4>1. proc'[p] = proc[p]
        BY <2>3, <3>1 DEF Return, Orphaned
      <4> QED
        BY <1>1, <2>1, <4>1 DEF Live
    <3>2. CASE ~Return(c) /\ proc' # proc
      <4>1. StartContainer(c) \/ AddProcessToCgroup(c) \/ WaitExit(c) \/ KillSignal(c)
            \/ DeleteSignal(c)
        BY <3>2 DEF Step, CreateCheck, SetupCgroup, ApplyLimits, SaveMkdir, SaveOpen,
           SaveWrite, LoadFails, StartLoad, KillLoad, StateLoad, DeleteLoad, WaitLoad,
           StateProbe, RemoveCgroup, DeleteUnlink, DeleteRmdir
      <4>2. CASE StartContainer(c)
        <5>1. proc'[p] = proc[p]
          BY <2>3, <3>2, <4>2 DEF StartContainer, IInv, TypeOK
        <5> QED
          BY <1>1, <2>1, <5>1 DEF Live
      <4>3. CASE AddProcessToCgroup(c)
        <5>1. proc'[p] = proc[p] \/ proc'[p] = [proc[p] EXCEPT !.confined = TRUE]
          BY <4>3 DEF AddProcessToCgroup, IInv, TypeOK
        <5> QED
          BY <1>1, <2>1, <2>3, <5>1 DEF Live, Procs
      <4>4. CASE WaitExit(c)
        <5>1. proc'[p] = proc[p] \/ proc'[p] = Free
          BY <4>4 DEF WaitExit, IInv, TypeOK
        <5> QED
          BY <1>1, <2>1, <5>1 DEF Live, Free
      <4>5. CASE KillSignal(c) \/ DeleteSignal(c)
        <5>1. proc'[p] = proc[p] \/ proc'[p] = Killed(proc[p])
          BY <3>2, <4>5 DEF KillSignal, DeleteSignal, IInv, TypeOK
        <5>2. proc'[p].state = proc[p].state /\ proc'[p].confined = proc[p].confined
          BY <2>3, <5>1 DEF Killed, Procs
        <5> QED
          BY <1>1, <2>1, <5>2 DEF Live
      <4> QED
        BY <4>1, <4>2, <4>3, <4>4, <4>5
    <3>3. CASE proc' = proc
      BY <1>1, <2>1, <3>3 DEF Live
    <3> QED
      BY <3>1, <3>2, <3>3
  <2>5. proc[p].confined /\ cmd[d].id \in cgroups
    BY <2>1, <2>2, <2>4 DEF ChildHas
  <2>6. cmd[d].id \in cgroups'
    <3>1. CASE RemoveCgroup(c)
      <4>1. cmd[d].id = cmd[c].id => cgroups' = cgroups
        BY <2>3, <2>5, <3>1 DEF RemoveCgroup
      <4>2. cmd[d].id # cmd[c].id => cmd[d].id \in cgroups'
        BY <2>5, <3>1, CgroupsKept
      <4> QED
        BY <2>5, <4>1, <4>2
    <3>2. CASE ~RemoveCgroup(c)
      <4>1. cgroups \subseteq cgroups'
        BY <3>2, CgroupsKept
      <4> QED
        BY <2>5, <4>1
    <3> QED
      BY <3>1, <3>2
  <2> QED
    BY <2>1, <2>2, <2>4, <2>5, <2>6
<1>2. ASSUME HasChild(c)', cmd'[c].pc # "attach", Live(cmd[c].child)'
      PROVE  proc'[cmd'[c].child].confined /\ cmd'[c].id \in cgroups'
  <2>1. ~Return(c)
    BY <1>2 DEF Return, Idle, HasChild, At, IInv, TypeOK
  <2>2. AddProcessToCgroup(c) \/ SaveMkdir(c) \/ SaveOpen(c) \/ SaveWrite(c)
    <3>1. CASE CreateCheck(c) \/ SetupCgroup(c) \/ ApplyLimits(c) \/ SaveMkdir(c)
               \/ SaveOpen(c) \/ SaveWrite(c)
      BY <1>0, <1>2, <2>1, <3>1 DEF CreateCheck, SetupCgroup, ApplyLimits, HasChild,
         Goto, GotoWith, At, LoadState, IInv, TypeOK, Records
    <3>2. CASE LoadFails(c) \/ StartLoad(c) \/ KillLoad(c) \/ StateLoad(c)
               \/ DeleteLoad(c) \/ WaitLoad(c)
      BY <1>0, <1>2, <2>1, <3>2 DEF LoadFails, StartLoad, KillLoad, StateLoad,
         DeleteLoad, WaitLoad, HasChild, Goto, GotoWith, At, LoadState, IInv, TypeOK,
         Records
    <3>3. CASE StartContainer(c) \/ AddProcessToCgroup(c) \/ WaitExit(c)
               \/ RemoveCgroup(c)
      BY <1>0, <1>2, <2>1, <3>3 DEF StartContainer, WaitExit, RemoveCgroup, HasChild,
         Goto, GotoWith, At, LoadState, IInv, TypeOK, Records
    <3>5. CASE KillSignal(c) \/ DeleteSignal(c) \/ StateProbe(c)
               \/ DeleteUnlink(c) \/ DeleteRmdir(c)
      BY <1>0, <1>2, <2>1, <3>5 DEF KillSignal, DeleteSignal, StateProbe,
         DeleteUnlink, DeleteRmdir, HasChild, Goto, GotoWith, At, LoadState, IInv,
         TypeOK, Records
    <3> QED
      BY <1>0, <1>2, <2>1, <3>1, <3>2, <3>3, <3>5 DEF Step
  <2>3. CASE AddProcessToCgroup(c)
    <3>1. cmd[c].op = "start" /\ cmd[c].pc = "attach" /\ cgroups' = cgroups
      BY <2>3 DEF AddProcessToCgroup, At
    <3>2. cmd'[c].child = cmd[c].child /\ cmd'[c].id = cmd[c].id
      BY <1>0, <2>3 DEF AddProcessToCgroup, GotoWith, IInv, TypeOK, Records
    <3>3. PICK p \in Pids : cmd[c].child = p
      BY <1>0, <3>1 DEF IInv, Ownership, ChildPhase, HasChild, Records
    <3>4. cmd[c].id \in cgroups
      BY <3>1, StartHas
    <3>5. Live(p)
      BY <1>2, <2>3, <3>2, <3>3 DEF AddProcessToCgroup, Live
    <3>6. proc' = [proc EXCEPT ![p].confined = TRUE]
      BY <2>3, <3>3, <3>4, <3>5 DEF AddProcessToCgroup
    <3>7. proc'[p].confined
      BY <3>6 DEF IInv, TypeOK, Procs
    <3> QED
      BY <3>1, <3>2, <3>3, <3>4, <3>7
  <2>4. CASE SaveMkdir(c) \/ SaveOpen(c) \/ SaveWrite(c)
    <3>1. /\ cmd'[c].child = cmd[c].child /\ cmd'[c].id = cmd[c].id
          /\ proc' = proc /\ cgroups' = cgroups
          /\ HasChild(c) /\ cmd[c].pc # "attach"
      BY <1>0, <1>2, <2>1, <2>4 DEF SaveMkdir, SaveOpen, SaveWrite, Goto, HasChild, At,
         IInv, TypeOK, Records
    <3> QED
      BY <1>2, <3>1 DEF ChildHas, Live
  <2> QED
    BY <2>2, <2>3, <2>4
<1> QED
  BY <1>1, <1>2 DEF ChildHas

LEMMA NextCInv ==
    ASSUME "crash" \notin Hazards, IInv, SInv, CInv, [Next]_vars
    PROVE  CInv'
<1>1. CASE UNCHANGED vars
  <2>1. json' = json /\ proc' = proc /\ cmd' = cmd /\ cgroups' = cgroups
    BY <1>1 DEF vars
  <2> QED
    BY <2>1 DEF CInv, CreateHas, Creates, RecordHas, ChildHas, HasChild, At, Live
<1>2. ASSUME NEW c \in Cmds, NEW op \in Ops \ {"wait"}, NEW i \in Ids,
             NEW opt \in BOOLEAN, Launch(c, op, i, opt)
      PROVE  CInv'
  <2>1. /\ json' = json /\ proc' = proc /\ cgroups' = cgroups /\ cmd[c] = Idle
        /\ cmd'[c].pc \in {"check", "load"} /\ cmd'[c].op # "wait"
        /\ \A d \in Cmds \ {c} : cmd'[d] = cmd[d]
    BY <1>2 DEF Launch, Idle, IInv, TypeOK
  <2>2. CreateHas'
    BY <2>1 DEF CInv, CreateHas, Creates
  <2>3. RecordHas'
    BY <2>1 DEF CInv, RecordHas, At, Idle
  <2>4. ChildHas'
    BY <2>1 DEF CInv, ChildHas, HasChild, At, Live
  <2> QED
    BY <2>2, <2>3, <2>4 DEF CInv
<1>3. ASSUME NEW c \in Cmds, Step(c) PROVE CInv'
  BY <1>3, StepCreateHas, StepRecordHas, StepChildHas DEF CInv
<1>4. ASSUME NEW p \in Pids, Kernel(p) PROVE CInv'
  <2>1. json' = json /\ cmd' = cmd /\ cgroups' = cgroups
    BY <1>4 DEF Kernel, ExecUser, ProcExit, PidRecycled
  <2>2. CreateHas' /\ RecordHas'
    BY <2>1 DEF CInv, CreateHas, Creates, RecordHas, At
  <2>3. ASSUME NEW x \in Pids, proc[x] # Free
        PROVE  Live(x)' => Live(x) /\ (proc[x].confined => proc'[x].confined)
    <3>1. CASE x # p
      BY <1>4, <3>1 DEF Kernel, ExecUser, ProcExit, PidRecycled, Live, IInv, TypeOK
    <3>2. CASE x = p /\ ExecUser(p)
      BY <3>2 DEF ExecUser, Live, IInv, TypeOK, Procs
    <3>3. CASE x = p /\ ProcExit(p)
      BY <3>3 DEF ProcExit, Live, Free, IInv, TypeOK, Procs
    <3> QED
      BY <1>4, <2>3, <3>1, <3>2, <3>3 DEF Kernel, PidRecycled
  <2>4. \A c \in Cmds : HasChild(c) => cmd[c].child \in Pids /\ proc[cmd[c].child] # Free
    BY NullAssumption DEF IInv, TypeOK, Records, Ownership, ChildPhase, ChildHandle, Free
  <2>5. ChildHas'
    BY <2>1, <2>3, <2>4 DEF CInv, ChildHas, HasChild, At, Live
  <2> QED
    BY <2>2, <2>5 DEF CInv
<1> QED
  BY <1>1, <1>2, <1>3, <1>4 DEF Next, Crash

LEMMA CgroupInvariance ==
    ASSUME OneAtATime, "crash" \notin Hazards
    PROVE  Spec => [](IInv /\ SInv /\ CInv)
<1>1. Init => CInv
  BY DEF Init, CInv, CreateHas, Creates, RecordHas, ChildHas, HasChild, At, Idle, NoState, Blank
<1>2. IInv /\ SInv /\ CInv /\ [Next]_vars => CInv'
  BY NextCInv
<1> QED
  BY <1>1, <1>2, SerialInvariance, PTL DEF Spec

\* The cgroup of a container that start is about to launch exists: whoever
\* deleted it took the record away as well.
THEOREM StartsFindCgroups ==
    ASSUME OneAtATime, "crash" \notin Hazards
    PROVE  Spec => []StartFindsCgroup
<1>1. IInv /\ SInv /\ CInv => StartFindsCgroup
  BY StartHas DEF CInv, StartFindsCgroup
<1> QED
  BY <1>1, CgroupInvariance, PTL

\* The live process of a waiting start is a member of its cgroup, which no
\* delete has removed.
THEOREM WaitersAreConfined ==
    ASSUME OneAtATime, "crash" \notin Hazards
    PROVE  Spec => []Confined
<1>1. IInv /\ SInv /\ CInv => Confined
  BY DEF CInv, ChildHas, Confined, HasChild, At
<1> QED
  BY <1>1, CgroupInvariance, PTL
=============================================================================
