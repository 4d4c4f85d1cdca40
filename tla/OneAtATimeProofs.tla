-------------------------- MODULE OneAtATimeProofs --------------------------
(***************************************************************************)
(* Theorems about Lifecycle for an operator who issues one command at a     *)
(* time and does not reuse IDs, whatever crashes, recycled PIDs and         *)
(* detached starts there are: the records agree with the processes.  The    *)
(* starts that wait for their containers run, and write records, beside the *)
(* command of the moment.                                                   *)
(***************************************************************************)
EXTENDS LifecycleProofs

OneAtATime == "overlap" \notin Hazards /\ "reuse" \notin Hazards

----------------------------------------------------------------------------
(* The inductive invariant: what a command relies on at each of its steps   *)
(* (PhaseOK, SnapOK, FileOK), and what two commands cannot do together      *)
(* (PairOK). *)

Alive(p) == Live(p) /\ ~proc[p].killed

\* d waits for a container nobody has killed.
Awaited(d) == At(d, "wait", "wait") /\ Alive(cmd[d].child)

Busy(c) == cmd[c].op \notin {"none", "wait"}

\* A create or start past its check: nobody else is to write the record.
Claims(c) ==
    \/ cmd[c].op = "create" /\ cmd[c].pc # "check"
    \/ cmd[c].op = "start" /\ cmd[c].pc # "load"

\* Past the point where the container has been found or made dead.
Settles(c) ==
    \/ cmd[c].op \in {"kill", "state"} /\ Saving(c)
    \/ cmd[c].op = "delete" /\ cmd[c].pc \in {"rmcgroup", "unlink", "rmdir"}

\* Holds a PID that it has read.
Snapped(c) ==
    \/ cmd[c].op \in {"kill", "delete"} /\ cmd[c].pc = "signal"
    \/ cmd[c].op = "state" /\ cmd[c].pc = "probe"

PhaseOK(c) ==
    /\ cmd[c].op = "create" =>
         cmd[c].pc \in {"check", "cgroup", "limits", "mkdir", "open", "write"}
    /\ cmd[c].op = "start" =>
         cmd[c].pc \in {"load", "fork", "attach", "mkdir", "open", "write"}
    /\ cmd[c].op = "wait" => cmd[c].pc \in {"wait", "load", "mkdir", "open", "write"}
    /\ cmd[c].op = "kill" => cmd[c].pc \in {"load", "signal", "mkdir", "open", "write"}
    /\ cmd[c].op = "state" => cmd[c].pc \in {"load", "probe", "mkdir", "open", "write"}
    /\ cmd[c].op = "delete" =>
         cmd[c].pc \in {"load", "signal", "rmcgroup", "unlink", "rmdir"}
    /\ cmd[c].op = "none" => cmd[c].pc = "idle"

SnapOK(c) ==
    /\ Saving(c) =>
         /\ cmd[c].op = "create" => cmd[c].snap = Blank("created")
         /\ cmd[c].op = "start" => cmd[c].snap = Running(cmd[c].child)
         /\ cmd[c].op \in {"wait", "kill", "state"} => cmd[c].snap = Stopped
    /\ Snapped(c) => \E p \in Pids : cmd[c].snap = Running(p)

FileOK(c) ==
    /\ cmd[c].op = "create" =>
         /\ cmd[c].id \notin retired
         /\ cmd[c].pc \in {"cgroup", "limits", "mkdir", "open"}
              => ~ContainerExists(cmd[c].id)
         /\ cmd[c].pc = "write" => json[cmd[c].id] = Blank("empty") /\ cmd[c].linked
    /\ cmd[c].op = "start" =>
         /\ cmd[c].pc \in {"fork", "attach", "mkdir", "open"}
              => json[cmd[c].id] = Blank("created")
         /\ cmd[c].pc = "write" => json[cmd[c].id] = Blank("empty") /\ cmd[c].linked
    /\ cmd[c].op \in {"wait", "kill", "state"} /\ cmd[c].pc = "write" /\ cmd[c].linked
         => json[cmd[c].id] \in {Blank("empty"), Stopped}
    /\ cmd[c].op = "wait" =>
         /\ json[cmd[c].id] # Blank("created")
         /\ ~ContainerExists(cmd[c].id) => cmd[c].id \in retired
    /\ Awaited(c) => json[cmd[c].id] = Running(cmd[c].child)
    /\ cmd[c].op \in {"kill", "state"} /\ cmd[c].pc \in {"signal", "probe", "mkdir", "open"}
         => ContainerExists(cmd[c].id) /\ json[cmd[c].id] # Blank("created")
    /\ cmd[c].op = "delete" /\ cmd[c].pc \in {"signal", "rmcgroup", "unlink"}
         => ContainerExists(cmd[c].id)

PairOK(c, d) ==
    /\ ~(Busy(c) /\ Busy(d))
    /\ cmd[d].op = "wait" /\ cmd[c].id = cmd[d].id =>
         /\ cmd[c].op # "wait" /\ ~Claims(c)
         /\ Settles(c) => ~Awaited(d)
         /\ Snapped(c) /\ Awaited(d) => cmd[c].snap = Running(cmd[d].child)

SInv ==
    /\ \A c \in Cmds : PhaseOK(c) /\ SnapOK(c) /\ FileOK(c)
    /\ \A c, d \in Cmds : c # d => PairOK(c, d)
    /\ NeverCorrupt

----------------------------------------------------------------------------
(* Steps that many actions share. *)

\* The part of another command that these invariants look at.
Same(d) ==
    /\ cmd'[d].op = cmd[d].op /\ cmd'[d].pc = cmd[d].pc /\ cmd'[d].id = cmd[d].id
    /\ cmd'[d].snap = cmd[d].snap /\ cmd'[d].child = cmd[d].child
    /\ cmd'[d].linked => cmd[d].linked

\* No other command notices a step of c, apart from what is in the file.
Unnoticed(c) ==
    \A d \in Cmds \ {c} : /\ Same(d)
                          /\ Awaited(d)' => Awaited(d)
                          /\ PairOK(c, d)' /\ PairOK(d, c)'

LEMMA SamePhase ==
    ASSUME NEW d \in Cmds, Same(d)
    PROVE  /\ Busy(d)' <=> Busy(d)
           /\ Claims(d)' <=> Claims(d)
           /\ Settles(d)' <=> Settles(d)
           /\ Snapped(d)' <=> Snapped(d)
           /\ PhaseOK(d)' <=> PhaseOK(d)
           /\ SnapOK(d)' <=> SnapOK(d)
<1>1. (Busy(d)' <=> Busy(d)) /\ (Claims(d)' <=> Claims(d))
  BY DEF Same, Busy, Claims
<1>2. (Settles(d)' <=> Settles(d)) /\ (Snapped(d)' <=> Snapped(d))
  BY DEF Same, Settles, Snapped, Saving
<1>3. PhaseOK(d)' <=> PhaseOK(d)
  BY DEF Same, PhaseOK
<1>4. SnapOK(d)' <=> SnapOK(d)
  BY <1>2 DEF Same, SnapOK, Saving
<1> QED
  BY <1>1, <1>2, <1>3, <1>4

\* One command takes a step.
LEMMA OneStep ==
    ASSUME SInv, NEW c \in Cmds, Unnoticed(c),
           PhaseOK(c)', SnapOK(c)', NeverCorrupt',
           \A d \in Cmds : FileOK(d)'
    PROVE  SInv'
<1>1. ASSUME NEW d \in Cmds \ {c} PROVE PhaseOK(d)' /\ SnapOK(d)'
  BY SamePhase DEF SInv, Unnoticed
<1>2. ASSUME NEW d \in Cmds \ {c}, NEW e \in Cmds \ {c}, d # e PROVE PairOK(d, e)'
  <2>1. PairOK(d, e) /\ Same(d) /\ Same(e) /\ (Awaited(e)' => Awaited(e))
    BY <1>2 DEF SInv, Unnoticed
  <2>2. /\ Busy(d)' <=> Busy(d)
        /\ Busy(e)' <=> Busy(e)
        /\ Claims(d)' <=> Claims(d)
        /\ Settles(d)' <=> Settles(d)
        /\ Snapped(d)' <=> Snapped(d)
    BY <2>1, SamePhase
  <2> QED
    BY <2>1, <2>2 DEF PairOK, Same
<1>3. ASSUME NEW d \in Cmds, NEW e \in Cmds, d # e PROVE PairOK(d, e)'
  BY <1>2, <1>3 DEF Unnoticed
<1> QED
  BY <1>1, <1>3 DEF SInv

\* A record that does not change.
LEMMA FileKept ==
    ASSUME NEW d \in Cmds, FileOK(d), cmd'[d] = cmd[d], Awaited(d)' => Awaited(d),
           cmd[d].op # "none" => json'[cmd[d].id] = json[cmd[d].id],
           retired' = retired
    PROVE  FileOK(d)'
<1>1. Awaited(d) => cmd[d].op = "wait"
  BY DEF Awaited, At
<1>2. CASE cmd[d].op \in {"create", "start"}
  BY <1>1, <1>2 DEF FileOK, ContainerExists
<1>3. CASE cmd[d].op \in {"wait", "kill", "state"}
  BY <1>1, <1>3 DEF FileOK, ContainerExists
<1>4. CASE cmd[d].op \notin {"create", "start", "wait", "kill", "state"}
  BY <1>1, <1>4 DEF FileOK, ContainerExists
<1> QED
  BY <1>2, <1>3, <1>4

\* c moves to another of its steps.
LEMMA Move ==
    ASSUME IInv, SInv, NEW c \in Cmds, NEW r \in Records,
           cmd' = [cmd EXCEPT ![c] = r],
           r.op = cmd[c].op, r.id = cmd[c].id, r.pc # "wait",
           \A d \in Cmds \ {c} :
               /\ Awaited(d)' => Awaited(d)
               /\ cmd[d].op = "wait" /\ cmd[d].id = cmd[c].id =>
                    /\ Claims(c)' => Claims(c)
                    /\ Settles(c)' => ~Awaited(d)'
                    /\ Snapped(c)' /\ Awaited(d) => r.snap = Running(cmd[d].child)
    PROVE  Unnoticed(c)
<1>1. cmd'[c] = r /\ \A d \in Cmds \ {c} : cmd'[d] = cmd[d]
  BY DEF IInv, TypeOK
<1>2. (Busy(c)' <=> Busy(c)) /\ ~Awaited(c)'
  BY <1>1 DEF Busy, Awaited, At
<1> SUFFICES ASSUME NEW d \in Cmds \ {c}
             PROVE  Same(d) /\ PairOK(c, d)' /\ PairOK(d, c)'
  BY DEF Unnoticed
<1>3. Same(d)
  BY <1>1 DEF Same
<1>4. /\ Busy(d)' <=> Busy(d)
      /\ Claims(d)' <=> Claims(d)
      /\ Settles(d)' <=> Settles(d)
      /\ Snapped(d)' <=> Snapped(d)
  BY <1>3, SamePhase
<1>5. PairOK(c, d) /\ PairOK(d, c)
  BY DEF SInv
<1>6. PairOK(c, d)'
  BY <1>1, <1>2, <1>4, <1>5 DEF PairOK
<1>7. PairOK(d, c)'
  BY <1>1, <1>2, <1>4, <1>5 DEF PairOK
<1> QED
  BY <1>3, <1>6, <1>7

\* A container that is waited for stays what it was.
LEMMA AwaitedKept ==
    ASSUME NEW d \in Cmds, cmd'[d] = cmd[d], IInv,
           \A p \in Pids : proc[p] # Free /\ Alive(p)' => Alive(p)
    PROVE  Awaited(d)' => Awaited(d)
<1> SUFFICES ASSUME At(d, "wait", "wait"), Alive(cmd[d].child)'
             PROVE  Alive(cmd[d].child)
  BY DEF Awaited, At, Alive, Live
<1>1. cmd[d].child # NoPid
  BY DEF IInv, Ownership, ChildPhase, HasChild
<1>2. cmd[d].child \in Pids /\ proc[cmd[d].child] # Free
  BY <1>1 DEF IInv, TypeOK, Records, Ownership, ChildHandle, Live, Free
<1> QED
  BY <1>2 DEF Alive, Live

\* c ends.
LEMMA EndStep ==
    ASSUME IInv, SInv, NEW c \in Cmds, Return(c)
    PROVE  Unnoticed(c) /\ PhaseOK(c)' /\ SnapOK(c)' /\ FileOK(c)'
<1>1. cmd'[c] = Idle /\ \A d \in Cmds \ {c} : cmd'[d] = cmd[d]
  BY DEF Return, IInv, TypeOK
<1>2. cmd'[c].op = "none" /\ cmd'[c].pc = "idle"
  BY <1>1 DEF Idle
<1>3. PhaseOK(c)' /\ SnapOK(c)'
  BY <1>2 DEF PhaseOK, SnapOK, Saving, Snapped
<1>4. /\ ~Busy(c)' /\ ~Claims(c)' /\ ~Settles(c)' /\ ~Snapped(c)' /\ ~Awaited(c)'
  BY <1>2 DEF Busy, Claims, Settles, Snapped, Awaited, At
<1>5. FileOK(c)'
  BY <1>2, <1>4 DEF FileOK
<1>6. \A p \in Pids : Alive(p)' => Alive(p)
  BY DEF Return, Orphaned, Alive, Live, Free, IInv, TypeOK, Procs
<1>7. ASSUME NEW d \in Cmds \ {c}
      PROVE  /\ Same(d) /\ (Awaited(d)' => Awaited(d))
             /\ PairOK(c, d)' /\ PairOK(d, c)'
  <2>1. Same(d) /\ (Awaited(d)' => Awaited(d))
    BY <1>1, <1>6, AwaitedKept DEF Same
  <2> QED
    BY <2>1, <1>2, <1>4 DEF PairOK
<1> QED
  BY <1>3, <1>5, <1>7 DEF Unnoticed

\* A step of c that leaves the records alone.
LEMMA QuietMove ==
    ASSUME SInv, NEW c \in Cmds, Unnoticed(c),
           PhaseOK(c)', SnapOK(c)', FileOK(c)',
           json' = json, retired' = retired,
           \A d \in Cmds \ {c} : cmd'[d] = cmd[d]
    PROVE  SInv'
<1>1. NeverCorrupt'
  BY DEF SInv, NeverCorrupt
<1>2. ASSUME NEW d \in Cmds \ {c} PROVE FileOK(d)'
  BY FileKept DEF SInv, Unnoticed
<1> QED
  BY <1>1, <1>2, OneStep

LEMMA EndSInv ==
    ASSUME IInv, SInv, NEW c \in Cmds, Return(c), json' = json, retired' = retired
    PROVE  SInv'
<1>1. \A d \in Cmds \ {c} : cmd'[d] = cmd[d]
  BY DEF Return, IInv, TypeOK
<1> QED
  BY <1>1, EndStep, QuietMove

----------------------------------------------------------------------------
(* Each action preserves the invariant. *)

LEMMA LaunchSInv ==
    ASSUME IInv, SInv, OneAtATime,
           NEW c \in Cmds, NEW op \in Ops \ {"wait"}, NEW i \in Ids,
           NEW opt \in BOOLEAN, Launch(c, op, i, opt)
    PROVE  SInv'
<1> DEFINE r == [Idle EXCEPT !.op = op, !.id = i, !.opt = opt,
                             !.pc = IF op = "create" THEN "check" ELSE "load"]
<1>1. cmd'[c] = r /\ \A d \in Cmds \ {c} : cmd'[d] = cmd[d]
  BY DEF Launch, IInv, TypeOK
<1>2. r.op = op /\ r.id = i /\ r.pc = IF op = "create" THEN "check" ELSE "load"
  BY DEF Idle
<1> HIDE DEF r
<1>3. /\ json' = json /\ retired' = retired /\ proc' = proc
      /\ \A d \in Cmds : ~Busy(d)
      /\ op = "create" => i \notin retired
  BY DEF Launch, OneAtATime, Busy
<1>4. ~Claims(c)' /\ ~Settles(c)' /\ ~Snapped(c)' /\ ~Awaited(c)' /\ cmd'[c].op # "wait"
  BY <1>1, <1>2 DEF Claims, Settles, Snapped, Saving, Awaited, At
<1>5. PhaseOK(c)' /\ SnapOK(c)'
  BY <1>1, <1>2, <1>4 DEF PhaseOK, SnapOK, Saving, Ops
<1>6. FileOK(c)'
  BY <1>1, <1>2, <1>3, <1>4 DEF FileOK
<1>7. ASSUME NEW d \in Cmds \ {c}
      PROVE  /\ Same(d) /\ (Awaited(d)' => Awaited(d))
             /\ PairOK(c, d)' /\ PairOK(d, c)'
  <2>1. Same(d) /\ (Awaited(d)' => Awaited(d))
    BY <1>1, <1>3 DEF Same, Awaited, At, Alive, Live
  <2>2. ~Busy(d)'
    BY <1>3, <2>1, SamePhase
  <2> QED
    BY <2>1, <2>2, <1>4 DEF PairOK
<1> QED
  BY <1>1, <1>3, <1>5, <1>6, <1>7, QuietMove DEF Unnoticed

LEMMA CreateSInv ==
    ASSUME IInv, SInv, NEW c \in Cmds,
           CreateCheck(c) \/ SetupCgroup(c) \/ ApplyLimits(c)
    PROVE  SInv'
<1>1. json' = json /\ retired' = retired
  BY DEF CreateCheck, SetupCgroup, ApplyLimits
<1>2. CASE Return(c)
  BY <1>1, <1>2, EndSInv
<1>3. CASE ~Return(c)
  <2> DEFINE r == IF cmd[c].pc = "limits"
                  THEN [cmd[c] EXCEPT !.pc = "mkdir", !.snap = Blank("created")]
                  ELSE [cmd[c] EXCEPT !.pc = IF @ = "check" THEN "cgroup" ELSE "limits"]
  <2>1. /\ cmd' = [cmd EXCEPT ![c] = r] /\ proc' = proc
        /\ cmd[c].op = "create" /\ cmd[c].pc \in {"check", "cgroup", "limits"}
        /\ cmd[c].pc = "check" => ~ContainerExists(cmd[c].id)
    BY <1>3 DEF CreateCheck, SetupCgroup, ApplyLimits, Goto, GotoWith, At, IInv, TypeOK
  <2>2. cmd[c] \in Records /\ Blank("created") \in Contents
    BY DEF IInv, TypeOK, States, Contents
  <2>3. /\ r \in Records /\ r.op = "create" /\ r.id = cmd[c].id
        /\ r.pc \in {"cgroup", "limits", "mkdir"}
        /\ r.pc = "mkdir" => r.snap = Blank("created")
    BY <2>1, <2>2 DEF Records, Pcs
  <2> HIDE DEF r
  <2>4. cmd'[c] = r /\ \A d \in Cmds \ {c} : cmd'[d] = cmd[d]
    BY <2>1 DEF IInv, TypeOK
  <2>5. ~Settles(c)' /\ ~Snapped(c)' /\ ~Awaited(c)'
    BY <2>3, <2>4 DEF Settles, Snapped, Awaited, At
  <2>6. cmd[c].id \notin retired /\ ~ContainerExists(cmd[c].id)
    BY <2>1 DEF SInv, FileOK
  <2>7. \A d \in Cmds : ~(cmd[d].op = "wait" /\ cmd[d].id = cmd[c].id)
    BY <2>6 DEF SInv, FileOK
  <2>8. \A d \in Cmds \ {c} : Awaited(d)' => Awaited(d)
    BY <2>1, <2>4 DEF Awaited, At, Alive, Live
  <2>9. Unnoticed(c)
    BY <2>1, <2>3, <2>7, <2>8, Move
  <2>10. PhaseOK(c)' /\ SnapOK(c)'
    BY <2>3, <2>4, <2>5 DEF PhaseOK, SnapOK, Saving
  <2>11. FileOK(c)'
    BY <1>1, <2>3, <2>4, <2>5, <2>6 DEF FileOK, ContainerExists
  <2> QED
    BY <1>1, <2>4, <2>9, <2>10, <2>11, QuietMove
<1> QED
  BY <1>2, <1>3

LEMMA StartLoadSInv ==
    ASSUME IInv, SInv, NEW c \in Cmds, StartLoad(c), ~Return(c)
    PROVE  SInv'
<1> DEFINE r == [cmd[c] EXCEPT !.pc = "fork", !.snap = json[cmd[c].id]]
<1>1. /\ json' = json /\ retired' = retired /\ proc' = proc
      /\ cmd' = [cmd EXCEPT ![c] = r]
      /\ cmd[c].op = "start" /\ cmd[c].pc = "load"
      /\ json[cmd[c].id] \in States /\ json[cmd[c].id].status = "created"
  BY DEF StartLoad, LoadState, Readable, GotoWith, At, IInv, TypeOK
<1>2. json[cmd[c].id] = Blank("created")
  <2>1. \A s \in States : s.status = "created" => s = Blank("created")
    BY DEF States, Blank, Running, Stopped
  <2> QED
    BY <1>1, <2>1
<1>3. /\ r \in Records /\ r.op = "start" /\ r.id = cmd[c].id /\ r.pc = "fork"
  BY <1>1 DEF IInv, TypeOK, Records, Pcs, Contents
<1> HIDE DEF r
<1>4. cmd'[c] = r /\ \A d \in Cmds \ {c} : cmd'[d] = cmd[d]
  BY <1>1 DEF IInv, TypeOK
<1>5. ~Settles(c)' /\ ~Snapped(c)' /\ ~Awaited(c)'
  BY <1>3, <1>4 DEF Settles, Snapped, Awaited, At
<1>6. \A d \in Cmds : ~(cmd[d].op = "wait" /\ cmd[d].id = cmd[c].id)
  BY <1>2 DEF SInv, FileOK
<1>7. \A d \in Cmds \ {c} : Awaited(d)' => Awaited(d)
  BY <1>1, <1>4 DEF Awaited, At, Alive, Live
<1>8. Unnoticed(c)
  BY <1>1, <1>3, <1>6, <1>7, Move
<1>9. PhaseOK(c)' /\ SnapOK(c)'
  BY <1>3, <1>4, <1>5 DEF PhaseOK, SnapOK, Saving
<1>10. FileOK(c)'
  BY <1>1, <1>2, <1>3, <1>4, <1>5 DEF FileOK
<1> QED
  BY <1>1, <1>4, <1>8, <1>9, <1>10, QuietMove

\* kill, state and delete --force go on with a PID that the record has.
LEMMA SnapLoadSInv ==
    ASSUME IInv, SInv, NEW c \in Cmds, ~Return(c),
           KillLoad(c) \/ StateLoad(c) \/ DeleteLoad(c)
    PROVE  SInv'
<1>1. PICK pc \in {"signal", "probe", "rmcgroup"} :
        /\ cmd' = [cmd EXCEPT ![c] = [cmd[c] EXCEPT !.pc = pc, !.snap = json[cmd[c].id]]]
        /\ json' = json /\ retired' = retired /\ proc' = proc
        /\ cmd[c].op \in {"kill", "state", "delete"} /\ cmd[c].pc = "load"
        /\ json[cmd[c].id] \in States
        /\ cmd[c].op = "kill" => pc = "signal" /\ json[cmd[c].id].pid # NoPid
        /\ cmd[c].op = "state" => pc = "probe" /\ json[cmd[c].id].status = "running"
        /\ cmd[c].op = "delete" =>
             \/ pc = "signal" /\ json[cmd[c].id].status = "running"
             \/ pc = "rmcgroup" /\ json[cmd[c].id].status # "running"
  <2>1. CASE KillLoad(c)
    BY <2>1 DEF KillLoad, LoadState, Readable, GotoWith, At, IInv, TypeOK
  <2>2. CASE StateLoad(c)
    BY <2>2 DEF StateLoad, LoadState, Readable, GotoWith, At, IInv, TypeOK
  <2>3. CASE DeleteLoad(c)
    BY <2>3 DEF DeleteLoad, LoadState, Readable, GotoWith, At, IInv, TypeOK
  <2> QED
    BY <2>1, <2>2, <2>3
<1> DEFINE r == [cmd[c] EXCEPT !.pc = pc, !.snap = json[cmd[c].id]]
<1>2. /\ r \in Records /\ r.op = cmd[c].op /\ r.id = cmd[c].id /\ r.pc = pc
      /\ r.snap = json[cmd[c].id]
  BY <1>1 DEF IInv, TypeOK, Records, Pcs, Contents
<1>3. cmd' = [cmd EXCEPT ![c] = r]
  BY <1>1
<1> HIDE DEF r
<1>4. cmd'[c] = r /\ \A d \in Cmds \ {c} : cmd'[d] = cmd[d]
  BY <1>3 DEF IInv, TypeOK
<1>5. pc # "rmcgroup" => \E p \in Pids : r.snap = Running(p)
  BY <1>1, <1>2 DEF States, Blank, Running, Stopped
<1>6. ~Claims(c)' /\ ~Awaited(c)' /\ (Settles(c)' => pc = "rmcgroup")
  BY <1>1, <1>2, <1>4 DEF Claims, Settles, Saving, Awaited, At
<1>7. \A d \in Cmds \ {c} : Awaited(d)' => Awaited(d)
  BY <1>1, <1>4 DEF Awaited, At, Alive, Live
<1>8. ASSUME NEW d \in Cmds, cmd[d].id = cmd[c].id, Awaited(d)
      PROVE  r.snap = Running(cmd[d].child) /\ pc # "rmcgroup"
  BY <1>1, <1>2, <1>8 DEF SInv, FileOK, Running
<1>9. Unnoticed(c)
  <2>1. ASSUME NEW d \in Cmds \ {c}, cmd[d].op = "wait", cmd[d].id = cmd[c].id
        PROVE  /\ Claims(c)' => Claims(c)
               /\ Settles(c)' => ~Awaited(d)'
               /\ Snapped(c)' /\ Awaited(d) => r.snap = Running(cmd[d].child)
    BY <1>6, <1>7, <1>8, <2>1
  <2> QED
    BY <1>2, <1>3, <1>7, <2>1, Move
<1>10. PhaseOK(c)'
  BY <1>1, <1>2, <1>4 DEF PhaseOK
<1>11. SnapOK(c)'
  BY <1>1, <1>2, <1>4, <1>5 DEF SnapOK, Saving, Snapped
<1>12. FileOK(c)'
  <2>1. /\ json[cmd[c].id].status \notin {"nodir", "nofile"}
        /\ cmd[c].op # "delete" => json[cmd[c].id] # Blank("created")
    <3>1. \A s \in States : /\ s.status \notin {"nodir", "nofile"}
                            /\ s.pid # NoPid \/ s.status = "running" => s # Blank("created")
      BY DEF States, Blank, Running, Stopped
    <3> QED
      BY <1>1, <3>1
  <2> QED
    BY <1>1, <1>2, <1>4, <1>6, <2>1 DEF FileOK, ContainerExists
<1> QED
  BY <1>1, <1>4, <1>9, <1>10, <1>11, <1>12, QuietMove

LEMMA WaitLoadSInv ==
    ASSUME IInv, SInv, NEW c \in Cmds, WaitLoad(c)
    PROVE  SInv'
<1> DEFINE r == [cmd[c] EXCEPT !.pc = "mkdir", !.snap = Stopped]
<1>1. /\ json' = json /\ retired' = retired /\ proc' = proc
      /\ cmd' = [cmd EXCEPT ![c] = r]
      /\ cmd[c].op = "wait" /\ cmd[c].pc = "load"
  BY DEF WaitLoad, LoadState, GotoWith, At, IInv, TypeOK
<1>2. /\ r \in Records /\ r.op = "wait" /\ r.id = cmd[c].id /\ r.pc = "mkdir"
      /\ r.snap = Stopped
  BY <1>1 DEF IInv, TypeOK, Records, Pcs, Contents, States
<1> HIDE DEF r
<1>3. cmd'[c] = r /\ \A d \in Cmds \ {c} : cmd'[d] = cmd[d]
  BY <1>1 DEF IInv, TypeOK
<1>4. ~Claims(c)' /\ ~Settles(c)' /\ ~Snapped(c)' /\ ~Awaited(c)'
  BY <1>2, <1>3 DEF Claims, Settles, Snapped, Awaited, At
<1>5. \A d \in Cmds \ {c} : Awaited(d)' => Awaited(d)
  BY <1>1, <1>3 DEF Awaited, At, Alive, Live
<1>6. Unnoticed(c)
  BY <1>1, <1>2, <1>4, <1>5, Move
<1>7. PhaseOK(c)' /\ SnapOK(c)'
  BY <1>2, <1>3, <1>4 DEF PhaseOK, SnapOK, Saving
<1>8. FileOK(c)'
  BY <1>1, <1>2, <1>3, <1>4 DEF FileOK, SInv, ContainerExists
<1> QED
  BY <1>1, <1>3, <1>6, <1>7, <1>8, QuietMove

LEMMA LoadSInv ==
    ASSUME IInv, SInv, NEW c \in Cmds,
           \/ LoadFails(c) \/ StartLoad(c) \/ KillLoad(c) \/ StateLoad(c)
           \/ DeleteLoad(c) \/ WaitLoad(c)
    PROVE  SInv'
<1>1. json' = json /\ retired' = retired
  BY DEF LoadFails, StartLoad, KillLoad, StateLoad, DeleteLoad, WaitLoad
<1>2. CASE Return(c)
  BY <1>1, <1>2, EndSInv
<1>3. CASE ~Return(c)
  BY <1>3, StartLoadSInv, SnapLoadSInv, WaitLoadSInv DEF LoadFails
<1> QED
  BY <1>2, <1>3

LEMMA ForkSInv ==
    ASSUME IInv, SInv, NEW c \in Cmds, StartContainer(c)
    PROVE  SInv'
<1>1. json' = json /\ retired' = retired /\ cmd[c].op = "start" /\ cmd[c].pc = "fork"
  BY DEF StartContainer, At
<1>2. CASE Return(c)
  BY <1>1, <1>2, EndSInv
<1>3. CASE ~Return(c)
  <2>1. PICK p \in Pids :
          /\ proc[p] = Free
          /\ proc' = [proc EXCEPT ![p] =
                        [Free EXCEPT !.state = "init", !.id = cmd[c].id, !.parent = c]]
          /\ cmd' = [cmd EXCEPT ![c].pc = "attach", ![c].child = p]
    BY <1>3 DEF StartContainer
  <2> DEFINE r == [cmd[c] EXCEPT !.pc = "attach", !.child = p]
  <2>2. cmd' = [cmd EXCEPT ![c] = r]
    BY <2>1
  <2>3. /\ r \in Records /\ r.op = "start" /\ r.id = cmd[c].id /\ r.pc = "attach"
    BY <1>1 DEF IInv, TypeOK, Records, Pcs
  <2> HIDE DEF r
  <2>4. cmd'[c] = r /\ \A d \in Cmds \ {c} : cmd'[d] = cmd[d]
    BY <2>2 DEF IInv, TypeOK
  <2>5. ~Settles(c)' /\ ~Snapped(c)' /\ ~Awaited(c)'
    BY <2>3, <2>4 DEF Settles, Snapped, Awaited, At
  <2>6. \A x \in Pids : proc[x] # Free /\ Alive(x)' => Alive(x)
    BY <2>1 DEF Alive, Live, IInv, TypeOK
  <2>7. \A d \in Cmds \ {c} : Awaited(d)' => Awaited(d)
    BY <2>4, <2>6, AwaitedKept
  <2>8. Claims(c)
    BY <1>1 DEF Claims
  <2>9. Unnoticed(c)
    BY <1>1, <2>2, <2>3, <2>5, <2>7, <2>8, Move
  <2>10. PhaseOK(c)' /\ SnapOK(c)'
    BY <2>3, <2>4, <2>5 DEF PhaseOK, SnapOK, Saving
  <2>11. FileOK(c)'
    BY <1>1, <2>3, <2>4, <2>5 DEF FileOK, SInv
  <2> QED
    BY <1>1, <2>4, <2>9, <2>10, <2>11, QuietMove
<1> QED
  BY <1>2, <1>3

LEMMA AttachSInv ==
    ASSUME IInv, SInv, NEW c \in Cmds, AddProcessToCgroup(c)
    PROVE  SInv'
<1> DEFINE r == [cmd[c] EXCEPT !.pc = "mkdir", !.snap = Running(cmd[c].child)]
<1>1. /\ json' = json /\ retired' = retired
      /\ cmd[c].op = "start" /\ cmd[c].pc = "attach"
      /\ cmd' = [cmd EXCEPT ![c] = r]
  BY DEF AddProcessToCgroup, GotoWith, At, IInv, TypeOK
<1>2. cmd[c] \in Records /\ cmd[c].child \in Pids
  BY <1>1 DEF IInv, TypeOK, Records, Ownership, ChildPhase, HasChild
<1>3. /\ r \in Records /\ r.op = "start" /\ r.id = cmd[c].id /\ r.pc = "mkdir"
      /\ r.snap = Running(cmd[c].child) /\ r.child = cmd[c].child
  BY <1>1, <1>2 DEF Records, Pcs, Contents, States
<1> HIDE DEF r
<1>4. cmd'[c] = r /\ \A d \in Cmds \ {c} : cmd'[d] = cmd[d]
  BY <1>1 DEF IInv, TypeOK
<1>5. ~Settles(c)' /\ ~Snapped(c)' /\ ~Awaited(c)'
  BY <1>3, <1>4 DEF Settles, Snapped, Awaited, At
<1>6. \A x \in Pids : Alive(x)' => Alive(x)
  BY <1>2 DEF AddProcessToCgroup, Alive, Live, IInv, TypeOK, Procs
<1>7. \A d \in Cmds \ {c} : Awaited(d)' => Awaited(d)
  BY <1>4, <1>6, AwaitedKept
<1>8. Claims(c)
  BY <1>1 DEF Claims
<1>9. Unnoticed(c)
  BY <1>1, <1>3, <1>5, <1>7, <1>8, Move
<1>10. PhaseOK(c)' /\ SnapOK(c)'
  BY <1>3, <1>4, <1>5 DEF PhaseOK, SnapOK, Saving
<1>11. FileOK(c)'
  BY <1>1, <1>3, <1>4, <1>5 DEF FileOK, SInv
<1> QED
  BY <1>1, <1>4, <1>9, <1>10, <1>11, QuietMove

LEMMA WaitExitSInv ==
    ASSUME IInv, SInv, NEW c \in Cmds, WaitExit(c)
    PROVE  SInv'
<1> DEFINE r == [cmd[c] EXCEPT !.pc = "load", !.child = NoPid]
<1>1. /\ json' = json /\ retired' = retired
      /\ cmd[c].op = "wait" /\ cmd[c].pc = "wait"
      /\ proc' = [proc EXCEPT ![cmd[c].child] = Free]
      /\ cmd' = [cmd EXCEPT ![c] = r]
  BY DEF WaitExit, At
<1>2. /\ r \in Records /\ r.op = "wait" /\ r.id = cmd[c].id /\ r.pc = "load"
  BY <1>1 DEF IInv, TypeOK, Records, Pcs
<1> HIDE DEF r
<1>3. cmd'[c] = r /\ \A d \in Cmds \ {c} : cmd'[d] = cmd[d]
  BY <1>1 DEF IInv, TypeOK
<1>4. ~Claims(c)' /\ ~Settles(c)' /\ ~Snapped(c)' /\ ~Awaited(c)'
  BY <1>2, <1>3 DEF Claims, Settles, Snapped, Awaited, At
<1>5. \A x \in Pids : Alive(x)' => Alive(x)
  BY <1>1 DEF Alive, Live, Free, IInv, TypeOK
<1>6. \A d \in Cmds \ {c} : Awaited(d)' => Awaited(d)
  BY <1>3, <1>5, AwaitedKept
<1>7. Unnoticed(c)
  BY <1>1, <1>2, <1>4, <1>6, Move
<1>8. PhaseOK(c)' /\ SnapOK(c)'
  BY <1>2, <1>3, <1>4 DEF PhaseOK, SnapOK, Saving
<1>9. FileOK(c)'
  BY <1>1, <1>2, <1>3, <1>4 DEF FileOK, SInv, ContainerExists
<1> QED
  BY <1>1, <1>3, <1>7, <1>8, <1>9, QuietMove

\* kill with SIGKILL and delete --force make the container dead, state finds
\* it so; all three go on to change the record.
LEMMA SettleSInv ==
    ASSUME IInv, SInv, NEW c \in Cmds, ~Return(c),
           KillSignal(c) \/ DeleteSignal(c) \/ StateProbe(c)
    PROVE  SInv'
<1>1. /\ json' = json /\ retired' = retired
      /\ cmd[c].op \in {"kill", "delete", "state"} /\ Snapped(c)
  BY DEF KillSignal, DeleteSignal, StateProbe, At, Snapped
<1>2. PICK p \in Pids : cmd[c].snap = Running(p)
  BY <1>1 DEF SInv, SnapOK
<1>3. cmd[c].snap.pid = p
  BY <1>2 DEF Running
<1> DEFINE r == IF cmd[c].op = "delete" THEN [cmd[c] EXCEPT !.pc = "rmcgroup"]
                ELSE [cmd[c] EXCEPT !.pc = "mkdir", !.snap = Stopped]
<1>4. cmd' = [cmd EXCEPT ![c] = r]
  BY DEF KillSignal, DeleteSignal, StateProbe, At, Goto, GotoWith
<1>5. /\ r \in Records /\ r.op = cmd[c].op /\ r.id = cmd[c].id
      /\ r.pc = IF cmd[c].op = "delete" THEN "rmcgroup" ELSE "mkdir"
      /\ cmd[c].op # "delete" => r.snap = Stopped
  BY <1>1 DEF IInv, TypeOK, Records, Pcs, Contents, States
<1> HIDE DEF r
<1>6. cmd'[c] = r /\ \A d \in Cmds \ {c} : cmd'[d] = cmd[d]
  BY <1>4 DEF IInv, TypeOK
<1>7. ~Claims(c)' /\ ~Snapped(c)' /\ ~Awaited(c)'
  BY <1>1, <1>5, <1>6 DEF Claims, Snapped, Awaited, At
<1>8. ~Alive(p)' /\ \A x \in Pids : Alive(x)' => Alive(x)
  <2>1. CASE proc' = [proc EXCEPT ![p] = Killed(proc[p])]
    BY <2>1 DEF Killed, Alive, Live, IInv, TypeOK, Procs
  <2>2. CASE proc' = proc /\ proc[p] = Free
    BY <2>2 DEF Alive, Live, Free
  <2> QED
    BY <1>3, <2>1, <2>2 DEF KillSignal, DeleteSignal, StateProbe
<1>9. \A d \in Cmds \ {c} : Awaited(d)' => Awaited(d)
  BY <1>6, <1>8, AwaitedKept
<1>10. ASSUME NEW d \in Cmds \ {c}, cmd[d].op = "wait", cmd[d].id = cmd[c].id
       PROVE  ~Awaited(d)'
  <2>1. Awaited(d) => Running(p) = Running(cmd[d].child)
    BY <1>1, <1>2, <1>10 DEF SInv, PairOK
  <2>2. Awaited(d) => p = cmd[d].child
    BY <2>1 DEF Running
  <2> QED
    BY <1>6, <1>8, <1>9, <2>2 DEF Awaited, Alive, Live
<1>11. Unnoticed(c)
  BY <1>4, <1>5, <1>7, <1>9, <1>10, Move
<1>12. PhaseOK(c)' /\ SnapOK(c)'
  BY <1>1, <1>5, <1>6, <1>7 DEF PhaseOK, SnapOK, Saving
<1>13. FileOK(c)'
  <2>1. /\ ContainerExists(cmd[c].id)
        /\ cmd[c].op # "delete" => json[cmd[c].id] # Blank("created")
    BY <1>1 DEF SInv, FileOK, Snapped
  <2> QED
    BY <1>1, <1>5, <1>6, <1>7, <2>1 DEF FileOK, ContainerExists
<1> QED
  BY <1>1, <1>6, <1>11, <1>12, <1>13, QuietMove

LEMMA RemoveCgroupSInv ==
    ASSUME IInv, SInv, NEW c \in Cmds, RemoveCgroup(c)
    PROVE  SInv'
<1> DEFINE r == [cmd[c] EXCEPT !.pc = "unlink"]
<1>1. /\ json' = json /\ retired' = retired /\ proc' = proc
      /\ cmd[c].op = "delete" /\ cmd[c].pc = "rmcgroup"
      /\ cmd' = [cmd EXCEPT ![c] = r]
  BY DEF RemoveCgroup, Goto, At
<1>2. /\ r \in Records /\ r.op = "delete" /\ r.id = cmd[c].id /\ r.pc = "unlink"
  BY <1>1 DEF IInv, TypeOK, Records, Pcs
<1> HIDE DEF r
<1>3. cmd'[c] = r /\ \A d \in Cmds \ {c} : cmd'[d] = cmd[d]
  BY <1>1 DEF IInv, TypeOK
<1>4. ~Claims(c)' /\ ~Snapped(c)' /\ ~Awaited(c)' /\ Settles(c)
  BY <1>1, <1>2, <1>3 DEF Claims, Settles, Snapped, Awaited, At
<1>5. \A d \in Cmds \ {c} : Awaited(d)' => Awaited(d)
  BY <1>1, <1>3 DEF Awaited, At, Alive, Live
<1>6. \A d \in Cmds \ {c} : cmd[d].op = "wait" /\ cmd[d].id = cmd[c].id => ~Awaited(d)'
  BY <1>4, <1>5 DEF SInv, PairOK
<1>7. Unnoticed(c)
  BY <1>1, <1>2, <1>4, <1>5, <1>6, Move
<1>8. PhaseOK(c)' /\ SnapOK(c)'
  BY <1>2, <1>3, <1>4 DEF PhaseOK, SnapOK, Saving
<1>9. FileOK(c)'
  <2>1. ContainerExists(cmd[c].id)
    BY <1>1 DEF SInv, FileOK
  <2> QED
    BY <1>1, <1>2, <1>3, <1>4, <2>1 DEF FileOK, ContainerExists
<1> QED
  BY <1>1, <1>3, <1>7, <1>8, <1>9, QuietMove

LEMMA KernelSInv ==
    ASSUME IInv, SInv, NEW p \in Pids, Kernel(p)
    PROVE  SInv'
<1>1. json' = json /\ retired' = retired /\ cmd' = cmd
  BY DEF Kernel, ExecUser, ProcExit, PidRecycled
<1>2. \A x \in Pids : proc[x] # Free /\ Alive(x)' => Alive(x)
  <2>1. proc \in [Pids -> Procs]
    BY DEF IInv, TypeOK
  <2>2. CASE ExecUser(p)
    BY <2>1, <2>2 DEF ExecUser, Alive, Live, Procs
  <2>3. CASE ProcExit(p)
    BY <2>1, <2>3 DEF ProcExit, Alive, Live, Free, Procs
  <2>4. CASE PidRecycled(p)
    BY <2>1, <2>4 DEF PidRecycled, Alive, Live
  <2> QED
    BY <2>2, <2>3, <2>4 DEF Kernel
<1>3. \A d \in Cmds : Awaited(d)' => Awaited(d)
  BY <1>1, <1>2, AwaitedKept
<1>4. \A d \in Cmds : Same(d) /\ cmd'[d] = cmd[d]
  BY <1>1 DEF Same
<1>5. ASSUME NEW d \in Cmds PROVE PhaseOK(d)' /\ SnapOK(d)' /\ FileOK(d)'
  BY <1>1, <1>3, <1>4, SamePhase, FileKept DEF SInv
<1>6. ASSUME NEW d \in Cmds, NEW e \in Cmds, d # e PROVE PairOK(d, e)'
  <2>1. PairOK(d, e)
    BY <1>6 DEF SInv
  <2>2. /\ Busy(d)' <=> Busy(d)
        /\ Busy(e)' <=> Busy(e)
        /\ Claims(d)' <=> Claims(d)
        /\ Settles(d)' <=> Settles(d)
        /\ Snapped(d)' <=> Snapped(d)
    BY <1>4, SamePhase
  <2> QED
    BY <1>1, <1>3, <2>1, <2>2 DEF PairOK
<1>7. NeverCorrupt'
  BY <1>1 DEF SInv, NeverCorrupt
<1> QED
  BY <1>5, <1>6, <1>7 DEF SInv

----------------------------------------------------------------------------
(* SaveState. *)

\* What a command that saves may rely on.
LEMMA SavingFacts ==
    ASSUME IInv, SInv, NEW c \in Cmds, Saving(c)
    PROVE  /\ cmd[c].op \in {"create", "start", "wait", "kill", "state"}
           /\ cmd[c].id \in Ids
           /\ cmd[c].op \in {"create", "start"} => Claims(c)
           /\ cmd[c].op \in {"kill", "state"} => Settles(c)
           /\ cmd[c].op \in {"wait", "kill", "state"} => cmd[c].snap = Stopped
           /\ ~Snapped(c)
<1>1. PhaseOK(c) /\ SnapOK(c) /\ cmd[c] \in Records
  BY DEF SInv, IInv, TypeOK
<1>2. cmd[c].op \in {"create", "start", "wait", "kill", "state"}
  BY <1>1 DEF PhaseOK, Saving, Records, Ops
<1>3. cmd[c].id \in Ids
  BY <1>2 DEF IInv, HasId
<1> QED
  BY <1>1, <1>2, <1>3 DEF Claims, Settles, SnapOK, Saving, Snapped

\* No other command has a claim on the record that c saves; one that waits
\* for the same container waits for nobody alive.
LEMMA SavingAlone ==
    ASSUME IInv, SInv, NEW c \in Cmds, Saving(c),
           NEW d \in Cmds \ {c}, cmd[d].id = cmd[c].id
    PROVE  /\ ~Claims(d) /\ ~Awaited(d)
           /\ cmd[d].op = "wait" => cmd[c].op \in {"kill", "state"}
           /\ cmd[d].op \notin {"none", "wait"} => cmd[c].op = "wait"
<1>1. PairOK(c, d) /\ PairOK(d, c)
  BY DEF SInv
<1>2. CASE cmd[c].op = "wait"
  BY <1>1, <1>2 DEF PairOK, Awaited, At
<1>3. CASE cmd[c].op # "wait"
  <2>1. Busy(c) /\ ~Busy(d)
    BY <1>1, <1>3, SavingFacts DEF PairOK, Busy
  <2> QED
    BY <1>1, <1>3, <2>1, SavingFacts DEF PairOK, Busy, Claims, Awaited, At
<1> QED
  BY <1>2, <1>3

\* The file of another command, when the record that c saves has become s.
LEMMA SavedFile ==
    ASSUME IInv, SInv, NEW c \in Cmds, Saving(c), NEW s,
           NEW d \in Cmds \ {c}, cmd'[d] = cmd[d], Awaited(d)' => Awaited(d),
           json' = [json EXCEPT ![cmd[c].id] = s], retired' = retired,
           cmd[d].id = cmd[c].id =>
             /\ s \in {json[cmd[c].id], Blank("nofile"), Blank("empty"), Stopped,
                       Blank("corrupt")}
             /\ s.status # "corrupt"
             /\ ContainerExists(cmd[c].id) => s.status # "nofile"
    PROVE  FileOK(d)'
<1>1. FileOK(d) /\ json \in [Ids -> Contents] /\ cmd[c].id \in Ids
  BY SavingFacts DEF SInv, IInv, TypeOK
<1>2. CASE cmd[d].id # cmd[c].id
  <2>1. cmd[d].op # "none" => json'[cmd[d].id] = json[cmd[d].id]
    BY <1>1, <1>2 DEF IInv, HasId
  <2> QED
    BY <1>1, <2>1, FileKept
<1>3. CASE cmd[d].id = cmd[c].id
  <2>1. json'[cmd[d].id] = s
    BY <1>1, <1>3
  <2>2. ~Claims(d) /\ ~Awaited(d)'
    BY <1>3, SavingAlone
  <2>3. CASE cmd[d].op = "create"
    BY <1>1, <2>2, <2>3 DEF FileOK, Claims
  <2>4. CASE cmd[d].op = "start"
    BY <1>1, <2>2, <2>4 DEF FileOK, Claims
  <2>5. CASE cmd[d].op \in {"wait", "kill", "state"}
    <3>1. s # json[cmd[d].id] => s \in {Blank("nofile"), Blank("empty"), Stopped}
      BY <1>3, <2>5 DEF Blank
    <3>2. /\ cmd[d].pc = "write" /\ cmd[d].linked => s \in {Blank("empty"), Stopped}
          /\ cmd[d].op = "wait" => s # Blank("created")
      BY <1>1, <1>3, <2>5, <3>1 DEF FileOK, ContainerExists, Blank, Stopped
    <3>3. s.status \in {"nodir", "nofile"} => ~ContainerExists(cmd[d].id)
      BY <1>3, <3>1 DEF ContainerExists, Blank, Stopped
    <3>4. json[cmd[d].id] # Blank("created") => s # Blank("created")
      BY <3>1 DEF Blank, Stopped
    <3>5. ContainerExists(cmd[d].id) => s.status \notin {"nodir", "nofile"}
      BY <1>3, <3>1, <3>3
    <3> QED
      BY <1>1, <2>1, <2>2, <2>5, <3>2, <3>3, <3>4, <3>5 DEF FileOK, ContainerExists
  <2>6. CASE cmd[d].op \notin {"create", "start", "wait", "kill", "state"}
    <3>1. ContainerExists(cmd[d].id) => s.status \notin {"nodir", "nofile"}
      BY <1>3 DEF ContainerExists, Blank, Stopped
    <3> QED
      BY <1>1, <2>1, <2>2, <2>6, <3>1 DEF FileOK, ContainerExists
  <2> QED
    BY <2>3, <2>4, <2>5, <2>6
<1> QED
  BY <1>2, <1>3

LEMMA SaveMkdirSInv ==
    ASSUME IInv, SInv, NEW c \in Cmds, SaveMkdir(c)
    PROVE  SInv'
<1> DEFINE i == cmd[c].id
           s == IF json[i] = NoState THEN Blank("nofile") ELSE json[i]
           r == [cmd[c] EXCEPT !.pc = "open"]
<1>1. /\ cmd[c].pc = "mkdir" /\ Saving(c) /\ i \in Ids
      /\ json' = [json EXCEPT ![i] = s] /\ json'[i] = s
      /\ retired' = retired /\ proc' = proc
      /\ cmd' = [cmd EXCEPT ![c] = r]
  <2>1. Saving(c)
    BY DEF SaveMkdir, Saving
  <2> QED
    BY <2>1, SavingFacts DEF SaveMkdir, Goto, IInv, TypeOK
<1>2. /\ r \in Records /\ r.op = cmd[c].op /\ r.id = i /\ r.pc = "open"
      /\ r.snap = cmd[c].snap /\ r.child = cmd[c].child
  BY <1>1 DEF IInv, TypeOK, Records, Pcs
<1> HIDE DEF r
<1>3. cmd'[c] = r /\ \A d \in Cmds \ {c} : cmd'[d] = cmd[d]
  BY <1>1 DEF IInv, TypeOK
<1>4. \A d \in Cmds \ {c} : Awaited(d)' => Awaited(d)
  BY <1>1, <1>3 DEF Awaited, At, Alive, Live
<1>5. ~Snapped(c)' /\ ~Awaited(c)' /\ (Claims(c)' => Claims(c))
  BY <1>1, <1>2, <1>3 DEF Snapped, Awaited, At, Claims
<1>6. Unnoticed(c)
  <2>1. \A d \in Cmds \ {c} : cmd[d].id = cmd[c].id => ~Awaited(d)
    BY <1>1, SavingAlone
  <2> QED
    BY <1>1, <1>2, <1>4, <1>5, <2>1, Move
<1>7. PhaseOK(c)'
  BY <1>2, <1>3, <1>1, SavingFacts DEF PhaseOK
<1>8. SnapOK(c)'
  BY <1>1, <1>2, <1>3, <1>5 DEF SInv, SnapOK, Saving
<1>9. ContainerExists(i)' <=> ContainerExists(i)
  BY <1>1, <1>2, <1>3 DEF ContainerExists, NoState, Blank
<1>10. /\ s \in {json[i], Blank("nofile")} /\ s.status # "corrupt"
       /\ ContainerExists(i) => s = json[i]
  BY <1>1 DEF SInv, NeverCorrupt, ContainerExists, NoState, Blank
<1> HIDE DEF s
<1>11. FileOK(c)'
  <2>1. FileOK(c)
    BY DEF SInv
  <2>2. CASE cmd[c].op = "create"
    BY <1>1, <1>2, <1>3, <1>5, <1>9, <2>1, <2>2 DEF FileOK
  <2>3. CASE cmd[c].op = "start"
    <3>1. json[i] = Blank("created")
      BY <1>1, <2>1, <2>3 DEF FileOK
    <3>2. s = Blank("created")
      BY <3>1, <1>10 DEF ContainerExists, Blank
    <3> QED
      BY <1>1, <1>2, <1>3, <1>5, <2>3, <3>2 DEF FileOK
  <2>4. CASE cmd[c].op \in {"wait", "kill", "state"}
    <3>1. s # Blank("created")
      BY <1>1, <1>10, <2>1, <2>4 DEF FileOK, Blank
    <3> QED
      BY <1>1, <1>2, <1>3, <1>5, <1>9, <2>1, <2>4, <3>1 DEF FileOK
  <2> QED
    BY <1>1, <2>2, <2>3, <2>4, SavingFacts
<1>12. ASSUME NEW d \in Cmds \ {c} PROVE FileOK(d)'
  <2>1. ContainerExists(i) => s.status # "nofile"
    BY <1>10 DEF ContainerExists
  <2> QED
    BY <1>1, <1>3, <1>4, <1>10, <2>1, SavedFile
<1>13. NeverCorrupt'
  BY <1>1, <1>10 DEF SInv, NeverCorrupt, IInv, TypeOK
<1> QED
  BY <1>6, <1>7, <1>8, <1>11, <1>12, <1>13, OneStep

LEMMA SaveOpenSInv ==
    ASSUME IInv, SInv, NEW c \in Cmds, SaveOpen(c)
    PROVE  SInv'
<1>1. CASE Return(c) /\ json' = json
  BY <1>1, EndSInv DEF SaveOpen
<1>2. CASE ~(Return(c) /\ json' = json)
  <2> DEFINE i == cmd[c].id
             r == [cmd[c] EXCEPT !.pc = "write", !.linked = TRUE]
  <2>1. cmd[c].pc = "open" /\ Saving(c) /\ json[i] # NoState
    BY <1>2 DEF SaveOpen, Saving
  <2>2. /\ i \in Ids
        /\ json' = [json EXCEPT ![i] = Blank("empty")] /\ json'[i] = Blank("empty")
        /\ retired' = retired /\ proc' = proc
        /\ cmd' = [cmd EXCEPT ![c] = r]
    BY <2>1, SavingFacts DEF SaveOpen, IInv, TypeOK
  <2>3. /\ r \in Records /\ r.op = cmd[c].op /\ r.id = i /\ r.pc = "write"
        /\ r.snap = cmd[c].snap /\ r.child = cmd[c].child /\ r.linked
    BY <2>1 DEF IInv, TypeOK, Records, Pcs
  <2> HIDE DEF r
  <2>4. cmd'[c] = r /\ \A d \in Cmds \ {c} : cmd'[d] = cmd[d]
    BY <2>2 DEF IInv, TypeOK
  <2>5. \A d \in Cmds \ {c} : Awaited(d)' => Awaited(d)
    BY <2>2, <2>4 DEF Awaited, At, Alive, Live
  <2>6. ~Snapped(c)' /\ ~Awaited(c)' /\ (Claims(c)' => Claims(c))
    BY <2>1, <2>3, <2>4 DEF Snapped, Awaited, At, Claims
  <2>7. Unnoticed(c)
    <3>1. \A d \in Cmds \ {c} : cmd[d].id = cmd[c].id => ~Awaited(d)
      BY <2>1, SavingAlone
    <3> QED
      BY <2>2, <2>3, <2>5, <2>6, <3>1, Move
  <2>8. PhaseOK(c)'
    BY <2>1, <2>3, <2>4, SavingFacts DEF PhaseOK
  <2>9. SnapOK(c)'
    BY <2>1, <2>3, <2>4, <2>6 DEF SInv, SnapOK, Saving
  <2>10. FileOK(c)'
    BY <2>2, <2>3, <2>4, <2>6 DEF SInv, FileOK, ContainerExists, Blank
  <2>11. ASSUME NEW d \in Cmds \ {c} PROVE FileOK(d)'
    BY <2>1, <2>2, <2>4, <2>5, SavedFile DEF Blank
  <2>12. NeverCorrupt'
    BY <2>2 DEF SInv, NeverCorrupt, IInv, TypeOK, Blank
  <2> QED
    BY <2>7, <2>8, <2>9, <2>10, <2>11, <2>12, OneStep
<1> QED
  BY <1>1, <1>2

\* A write either fills an empty file or repeats what is in it.
LEMMA WriteFills ==
    ASSUME IInv, SInv, NEW c \in Cmds, SaveWrite(c)
    PROVE  /\ json' = IF cmd[c].linked
                      THEN [json EXCEPT ![cmd[c].id] = cmd[c].snap] ELSE json
           /\ cmd[c].op \in {"create", "start"} => cmd[c].linked
           /\ cmd[c].snap \in States
<1>1. cmd[c].pc = "write" /\ Saving(c)
  BY DEF SaveWrite, Saving
<1>2. cmd[c].op \in {"create", "start"} =>
        cmd[c].linked /\ json[cmd[c].id] = Blank("empty")
  BY <1>1 DEF SInv, FileOK
<1>3. cmd[c].op \in {"wait", "kill", "state"} /\ cmd[c].linked =>
        json[cmd[c].id] \in {Blank("empty"), cmd[c].snap} /\ cmd[c].snap = Stopped
  BY <1>1, SavingFacts DEF SInv, FileOK
<1>4. cmd[c].linked => Overwritten(json[cmd[c].id], cmd[c].snap) = {cmd[c].snap}
  BY <1>1, <1>2, <1>3, SavingFacts DEF Overwritten, Blank, Stopped
<1>5. cmd[c].snap \in States
  BY <1>1 DEF IInv, SaveReady
<1> QED
  BY <1>2, <1>4, <1>5 DEF SaveWrite

LEMMA SaveWriteSInv ==
    ASSUME IInv, SInv, NEW c \in Cmds, SaveWrite(c)
    PROVE  SInv'
<1> DEFINE i == cmd[c].id
<1>1. /\ cmd[c].pc = "write" /\ Saving(c) /\ i \in Ids /\ retired' = retired
      /\ json \in [Ids -> Contents] /\ cmd[c] \in Records
  <2>1. Saving(c)
    BY DEF SaveWrite, Saving
  <2> QED
    BY <2>1, SavingFacts DEF SaveWrite, IInv, TypeOK
<1>2. NeverCorrupt'
  <2>1. cmd[c].snap.status # "corrupt"
    BY WriteFills DEF States, Blank, Stopped, Running
  <2> QED
    BY <1>1, <2>1, WriteFills DEF SInv, NeverCorrupt
\* The files of the others, once it is known that c leaves them unnoticed.
<1>3. ASSUME Unnoticed(c), NEW d \in Cmds \ {c}, cmd'[d] = cmd[d] PROVE FileOK(d)'
  <2>1. Awaited(d)' => Awaited(d)
    BY <1>3 DEF Unnoticed
  <2>2. CASE ~cmd[c].linked
    BY <1>1, <1>3, <2>1, <2>2, WriteFills, FileKept DEF SInv
  <2>3. CASE cmd[c].linked
    <3>1. json' = [json EXCEPT ![i] = cmd[c].snap]
      BY <2>3, WriteFills
    <3>2. cmd[c].snap.status \notin {"corrupt", "nofile"}
      BY WriteFills DEF States, Blank, Stopped, Running
    <3>3. CASE cmd[d].id = i
      <4>1. FileOK(d) /\ PairOK(c, d) /\ PairOK(d, c)
        BY DEF SInv
      <4>2. CASE cmd[c].op \in {"wait", "kill", "state"}
        BY <1>1, <1>3, <2>1, <3>1, <3>2, <4>2, SavingFacts, SavedFile
      <4>3. CASE cmd[c].op \in {"create", "start"}
        <5>1. cmd[d].op = "none"
          BY <1>1, <3>3, <4>3, SavingAlone
        <5>2. FileOK(d)'
          BY <1>3, <5>1 DEF FileOK, Awaited, At
        <5> QED
          BY <5>2
      <4> QED
        BY <1>1, <4>2, <4>3, SavingFacts
    <3>4. CASE cmd[d].id # i
      BY <1>1, <1>3, <2>1, <3>1, <3>4, SavedFile
    <3> QED
      BY <3>3, <3>4
  <2> QED
    BY <2>2, <2>3
<1>4. CASE Return(c)
  <2>1. \A d \in Cmds \ {c} : cmd'[d] = cmd[d]
    BY <1>4 DEF Return, IInv, TypeOK
  <2>2. \A d \in Cmds : FileOK(d)'
    BY <1>3, <1>4, <2>1, EndStep
  <2> QED
    BY <1>2, <1>4, <2>2, EndStep, OneStep
\* A foreground start begins to wait.
<1>5. CASE ~Return(c)
  <2> DEFINE r == [cmd[c] EXCEPT !.op = "wait", !.pc = "wait",
                                 !.linked = FALSE, !.snap = NoState]
  <2>1. cmd' = [cmd EXCEPT ![c] = r] /\ proc' = proc /\ cmd[c].op = "start"
    BY <1>5 DEF SaveWrite
  <2>2. r.op = "wait" /\ r.pc = "wait" /\ r.id = i /\ r.child = cmd[c].child
    BY <1>1 DEF Records
  <2> HIDE DEF r
  <2>3. cmd'[c] = r /\ \A d \in Cmds \ {c} : cmd'[d] = cmd[d]
    BY <2>1 DEF IInv, TypeOK
  <2>4. Claims(c) /\ Busy(c) /\ cmd[c].snap = Running(cmd[c].child) /\ cmd[c].linked
    BY <1>1, <2>1, WriteFills DEF Claims, Busy, SInv, SnapOK
  <2>5. json'[i] = Running(cmd[c].child)
    BY <1>1, <2>4, WriteFills
  <2>6. ~Busy(c)' /\ ~Claims(c)' /\ ~Settles(c)' /\ ~Snapped(c)'
    BY <2>2, <2>3 DEF Busy, Claims, Settles, Snapped, Saving
  <2>7. PhaseOK(c)' /\ SnapOK(c)'
    BY <2>2, <2>3, <2>6 DEF PhaseOK, SnapOK, Saving
  <2>8. FileOK(c)'
    BY <2>2, <2>3, <2>5 DEF FileOK, ContainerExists, Blank, Running
  <2>9. ASSUME NEW d \in Cmds \ {c}
        PROVE  /\ Same(d) /\ (Awaited(d)' => Awaited(d))
               /\ PairOK(c, d)' /\ PairOK(d, c)'
    <3>1. Same(d) /\ (Awaited(d)' => Awaited(d))
      BY <2>1, <2>3 DEF Same, Awaited, At, Alive, Live
    <3>2. PairOK(c, d) /\ PairOK(d, c) /\ ~Busy(d)
      BY <2>4 DEF SInv, PairOK
    <3>3. /\ ~Busy(d)'
          /\ Claims(d)' <=> Claims(d)
          /\ Settles(d)' <=> Settles(d)
          /\ Snapped(d)' <=> Snapped(d)
      BY <3>1, <3>2, SamePhase
    <3>4. ~(cmd[d].op = "wait" /\ cmd[d].id = i)
      BY <2>4, <3>2 DEF PairOK
    <3>5. ~Claims(d) /\ ~Settles(d) /\ ~Snapped(d)
      BY <3>2 DEF Busy, Claims, Settles, Snapped, Saving
    <3> QED
      BY <2>2, <2>3, <2>6, <3>1, <3>3, <3>4, <3>5 DEF PairOK, Same
  <2>10. Unnoticed(c)
    BY <2>9 DEF Unnoticed
  <2>11. \A d \in Cmds : FileOK(d)'
    BY <1>3, <2>3, <2>8, <2>10
  <2> QED
    BY <1>2, <2>7, <2>10, <2>11, OneStep
<1> QED
  BY <1>4, <1>5

----------------------------------------------------------------------------
(* delete *)

LEMMA UnlinkSInv ==
    ASSUME IInv, SInv, NEW c \in Cmds, DeleteUnlink(c)
    PROVE  SInv'
<1> DEFINE i == cmd[c].id
<1>1. /\ cmd[c].op = "delete" /\ cmd[c].pc = "unlink" /\ i \in Ids
      /\ json \in [Ids -> Contents] /\ cmd \in [Cmds -> Records]
      /\ retired' = retired \cup {i} /\ proc' = proc
      /\ json' = IF ContainerExists(i) THEN [json EXCEPT ![i] = Blank("nofile")] ELSE json
  BY DEF DeleteUnlink, At, IInv, TypeOK, HasId
<1>2. /\ cmd'[c].op = "delete" /\ cmd'[c].pc = "rmdir" /\ cmd'[c].id = i
      /\ cmd'[c].snap = cmd[c].snap
  BY <1>1 DEF DeleteUnlink, Records
<1>3. Busy(c) /\ Settles(c) /\ Busy(c)' /\ ~Claims(c)' /\ ~Snapped(c)' /\ ~Awaited(c)'
  BY <1>1, <1>2 DEF Busy, Settles, Claims, Snapped, Awaited, At
<1>4. PhaseOK(c)' /\ SnapOK(c)' /\ FileOK(c)'
  BY <1>2, <1>3 DEF PhaseOK, SnapOK, Saving, FileOK
<1>5. ASSUME NEW d \in Cmds \ {c}
      PROVE  /\ Same(d) /\ (Awaited(d)' => Awaited(d))
             /\ cmd[d].id = i => ~cmd'[d].linked
             /\ cmd[d].id # i => cmd'[d] = cmd[d]
  <2>1. cmd'[d] = IF cmd[d].id = i THEN [cmd[d] EXCEPT !.linked = FALSE] ELSE cmd[d]
    BY DEF DeleteUnlink
  <2>2. Same(d) /\ (cmd[d].id = i => ~cmd'[d].linked) /\ (cmd[d].id # i => cmd'[d] = cmd[d])
    BY <1>1, <2>1 DEF Same, Records
  <2> QED
    BY <1>1, <2>2 DEF Same, Awaited, At, Alive, Live
<1>6. ASSUME NEW d \in Cmds \ {c} PROVE PairOK(c, d)' /\ PairOK(d, c)'
  <2>1. PairOK(c, d) /\ PairOK(d, c)
    BY DEF SInv
  <2>2. Busy(d)' <=> Busy(d)
    BY <1>5, SamePhase
  <2> QED
    BY <1>1, <1>2, <1>3, <1>5, <2>1, <2>2 DEF PairOK, Same
<1>7. Unnoticed(c)
  BY <1>5, <1>6 DEF Unnoticed
<1>8. ~ContainerExists(i)' /\ json'[i] # Blank("created") /\ \A j \in Ids \ {i} : json'[j] = json[j]
  BY <1>1, <1>2 DEF ContainerExists, Blank
<1>9. ASSUME NEW d \in Cmds \ {c} PROVE FileOK(d)'
  <2>1. FileOK(d) /\ PairOK(c, d)
    BY DEF SInv
  <2>2. CASE cmd[d].id = i /\ cmd[d].op = "wait"
    <3>1. ~Awaited(d)'
      BY <1>3, <1>5, <2>1, <2>2 DEF PairOK
    <3> QED
      BY <1>1, <1>5, <1>8, <2>2, <3>1 DEF FileOK, Same
  <2>3. CASE cmd[d].id = i /\ cmd[d].op # "wait"
    <3>1. cmd'[d].op = "none" \/ cmd'[d].op \notin Ops
      BY <1>3, <1>5, <2>1, <2>3 DEF PairOK, Busy, Same
    <3> QED
      BY <3>1 DEF FileOK, Awaited, At, Ops
  <2>4. CASE cmd[d].id # i
    <3>1. cmd'[d] = cmd[d] /\ (Awaited(d)' => Awaited(d))
      BY <1>5, <2>4
    <3>2. cmd[d].op # "none" => json'[cmd[d].id] = json[cmd[d].id]
      BY <1>8, <2>4 DEF IInv, HasId
    <3>3. cmd[d].id \in retired' <=> cmd[d].id \in retired
      BY <1>1, <2>4
    <3> QED
      BY <2>1, <3>1, <3>2, <3>3 DEF FileOK, ContainerExists, Awaited, At
  <2> QED
    BY <2>2, <2>3, <2>4
<1>10. NeverCorrupt'
  BY <1>1 DEF SInv, NeverCorrupt, Blank
<1> QED
  BY <1>4, <1>7, <1>9, <1>10, OneStep

LEMMA RmdirSInv ==
    ASSUME IInv, SInv, NEW c \in Cmds, DeleteRmdir(c)
    PROVE  SInv'
<1> DEFINE i == cmd[c].id
<1>1. /\ cmd[c].op = "delete" /\ cmd[c].pc = "rmdir" /\ i \in Ids
      /\ json \in [Ids -> Contents] /\ retired' = retired /\ Return(c)
      /\ json' = IF ContainerExists(i) THEN json ELSE [json EXCEPT ![i] = NoState]
  BY DEF DeleteRmdir, At, IInv, TypeOK, HasId
<1>2. CASE ContainerExists(i)
  BY <1>1, <1>2, EndSInv
<1>3. CASE ~ContainerExists(i)
  <2>1. Busy(c) /\ Settles(c)
    BY <1>1 DEF Busy, Settles
  <2>2. \A d \in Cmds \ {c} : cmd'[d] = cmd[d] /\ (Awaited(d)' => Awaited(d))
    BY <1>1, EndStep DEF Return, IInv, TypeOK, Unnoticed
  <2>3. json'[i] = NoState /\ \A j \in Ids \ {i} : json'[j] = json[j]
    BY <1>1, <1>3
  <2>4. ASSUME NEW d \in Cmds \ {c} PROVE FileOK(d)'
    <3>1. FileOK(d) /\ PairOK(c, d)
      BY DEF SInv
    <3>2. CASE cmd[d].id = i /\ cmd[d].op = "wait"
      <4>1. ~Awaited(d)'
        BY <2>1, <2>2, <3>1, <3>2 DEF PairOK
      <4>2. cmd[d].id \in retired /\ ~(cmd[d].pc = "write" /\ cmd[d].linked)
        BY <1>3, <3>1, <3>2 DEF FileOK, ContainerExists, Blank, Stopped
      <4> QED
        BY <1>1, <2>2, <2>3, <3>2, <4>1, <4>2 DEF FileOK, NoState, Blank
    <3>3. CASE cmd[d].id = i /\ cmd[d].op # "wait"
      <4>1. cmd'[d].op \notin Ops
        BY <2>1, <2>2, <3>1, <3>3 DEF PairOK, Busy, Ops
      <4> QED
        BY <4>1 DEF FileOK, Awaited, At, Ops
    <3>4. CASE cmd[d].id # i
      <4>1. cmd[d].op # "none" => json'[cmd[d].id] = json[cmd[d].id]
        BY <2>3, <3>4 DEF IInv, HasId
      <4> QED
        BY <1>1, <2>2, <3>1, <4>1, FileKept
    <3> QED
      BY <3>2, <3>3, <3>4
  <2>5. NeverCorrupt'
    BY <2>3 DEF SInv, NeverCorrupt, NoState, Blank
  <2> QED
    BY <1>1, <2>4, <2>5, EndStep, OneStep
<1> QED
  BY <1>2, <1>3

----------------------------------------------------------------------------
LEMMA InitSInv == Init => SInv
<1> SUFFICES ASSUME Init PROVE SInv
  OBVIOUS
<1>1. \A c \in Cmds : cmd[c] = Idle
  BY DEF Init
<1>2. \A c \in Cmds : cmd[c].op = "none" /\ cmd[c].pc = "idle"
  BY <1>1 DEF Idle
<1>3. \A c \in Cmds : ~Busy(c) /\ ~Snapped(c) /\ ~Saving(c) /\ ~Awaited(c)
  BY <1>2 DEF Busy, Snapped, Saving, Awaited, At
<1>4. ASSUME NEW c \in Cmds PROVE PhaseOK(c) /\ SnapOK(c) /\ FileOK(c)
  BY <1>2, <1>3 DEF PhaseOK, SnapOK, FileOK
<1>5. ASSUME NEW c \in Cmds, NEW d \in Cmds PROVE PairOK(c, d)
  BY <1>2, <1>3 DEF PairOK
<1>6. NeverCorrupt
  BY DEF Init, NeverCorrupt, NoState, Blank
<1> QED
  BY <1>4, <1>5, <1>6 DEF SInv

LEMMA NextSInv ==
    ASSUME OneAtATime, IInv, SInv, [Next]_vars
    PROVE  SInv'
<1>1. CASE UNCHANGED vars
  <2>1. json' = json /\ proc' = proc /\ cmd' = cmd /\ retired' = retired
    BY <1>1 DEF vars
  <2>2. ASSUME NEW d \in Cmds PROVE PhaseOK(d)' /\ SnapOK(d)' /\ FileOK(d)'
    BY <2>1, SamePhase, FileKept DEF SInv, Same, Awaited, At, Alive, Live
  <2>3. ASSUME NEW d \in Cmds, NEW e \in Cmds, d # e PROVE PairOK(d, e)'
    BY <2>1, <2>3 DEF SInv, PairOK, Busy, Claims, Settles, Snapped, Saving, Awaited,
       At, Alive, Live
  <2> QED
    BY <2>1, <2>2, <2>3 DEF SInv, NeverCorrupt
<1>2. ASSUME NEW c \in Cmds, NEW op \in Ops \ {"wait"}, NEW i \in Ids,
             NEW opt \in BOOLEAN, Launch(c, op, i, opt)
      PROVE  SInv'
  BY <1>2, LaunchSInv
<1>3. ASSUME NEW c \in Cmds, Step(c) PROVE SInv'
  <2>1. CASE KillSignal(c) \/ DeleteSignal(c) \/ StateProbe(c)
    <3>1. CASE Return(c)
      BY <2>1, <3>1, EndSInv DEF KillSignal, DeleteSignal, StateProbe
    <3> QED
      BY <2>1, <3>1, SettleSInv
  <2> QED
    BY <1>3, <2>1, CreateSInv, SaveMkdirSInv, SaveOpenSInv, SaveWriteSInv, LoadSInv,
       ForkSInv, AttachSInv, WaitExitSInv, RemoveCgroupSInv, UnlinkSInv, RmdirSInv DEF Step
<1>4. ASSUME NEW c \in Cmds, Crash(c) PROVE SInv'
  BY <1>4, EndSInv DEF Crash
<1>5. ASSUME NEW p \in Pids, Kernel(p) PROVE SInv'
  BY <1>5, KernelSInv
<1> QED
  BY <1>1, <1>2, <1>3, <1>4, <1>5 DEF Next

LEMMA SerialInvariance == OneAtATime => (Spec => [](IInv /\ SInv))
<1> SUFFICES ASSUME OneAtATime PROVE Spec => [](IInv /\ SInv)
  OBVIOUS
<1>1. IInv /\ SInv /\ [Next]_vars => SInv'
  BY NextSInv
<1> QED
  BY <1>1, InitSInv, Invariance, PTL DEF Spec

\* While a start waits for a container nobody has killed, the record says
\* "running" with its PID, whatever dies and whatever PIDs are recycled.
THEOREM WaitersAreTracked ==
    ASSUME OneAtATime
    PROVE  Spec => []Tracked
<1>1. IInv /\ SInv => Tracked
  BY DEF SInv, FileOK, Tracked, Awaited, Alive, Live, At
<1> QED
  BY <1>1, SerialInvariance, PTL

\* What start has read of the record is on disk until its open truncates it.
THEOREM StartsFromCreated ==
    ASSUME OneAtATime
    PROVE  Spec => []StartFromCreated
<1>1. IInv /\ SInv => StartFromCreated
  BY DEF SInv, FileOK, StartFromCreated
<1> QED
  BY <1>1, SerialInvariance, PTL

\* No two writes of SaveState leave text that does not parse.
THEOREM RecordsParse ==
    ASSUME OneAtATime
    PROVE  Spec => []NeverCorrupt
<1>1. IInv /\ SInv => NeverCorrupt
  BY DEF SInv
<1> QED
  BY <1>1, SerialInvariance, PTL

\* The start that holds a live process is in one of three places: the record
\* says "created" before it opens the file, is empty until it has written,
\* and says "running" while it waits.
LEMMA HolderOfLive ==
    ASSUME IInv, SInv, NEW p \in Pids, Alive(p)
    PROVE  \E c \in Cmds :
             /\ cmd[c].child = p /\ cmd[c].id = proc[p].id
             /\ \/ cmd[c].op = "start" /\ json[proc[p].id] = Blank("created")
                \/ cmd[c].op = "start" /\ json[proc[p].id] = Blank("empty")
                \/ Awaited(c) /\ json[proc[p].id] = Running(p)
<1> DEFINE c == proc[p].parent
<1>1. c \in Cmds /\ cmd[c].child = p
  BY DEF IInv, TypeOK, Ownership, Supervised, ParentHasChild, Procs, Alive
<1>2. cmd[c].id = proc[p].id /\ cmd[c].child # NoPid
  BY <1>1, NullAssumption DEF IInv, Ownership, ChildHandle
<1>3. HasChild(c)
  BY <1>1, <1>2 DEF IInv, Ownership, ChildPhase
<1> HIDE DEF c
<1>4. CASE cmd[c].op = "start"
  BY <1>1, <1>2, <1>3, <1>4 DEF HasChild, At, SInv, FileOK
<1>5. CASE At(c, "wait", "wait")
  BY <1>1, <1>2, <1>5 DEF Awaited, SInv, FileOK
<1> QED
  BY <1>3, <1>4, <1>5 DEF HasChild

\* A record that says "stopped" is never wrong about a live process.
THEOREM StoppedIsDead ==
    ASSUME OneAtATime
    PROVE  Spec => []StoppedMeansDead
<1>1. IInv /\ SInv => StoppedMeansDead
  <2> SUFFICES ASSUME IInv, SInv, NEW p \in Pids, Alive(p)
               PROVE  json[proc[p].id] # Stopped
    BY DEF StoppedMeansDead, Alive
  <2>1. json[proc[p].id] \in {Blank("created"), Blank("empty"), Running(p)}
    BY HolderOfLive
  <2>2. Stopped \notin {Blank("created"), Blank("empty"), Running(p)}
    BY DEF Stopped, Blank, Running
  <2> QED
    BY <2>1, <2>2
<1> QED
  BY <1>1, SerialInvariance, PTL

\* What two overlapping starts can break, a start and a wait cannot: a
\* container has one process (start.go:51).
THEOREM OneProcess ==
    ASSUME OneAtATime
    PROVE  Spec => []OneProcessPerContainer
<1>1. IInv /\ SInv => OneProcessPerContainer
  <2> SUFFICES ASSUME IInv, SInv, NEW p \in Pids, NEW q \in Pids, Alive(p), Alive(q),
                      proc[p].id = proc[q].id
               PROVE  p = q
    BY DEF OneProcessPerContainer, Alive
  <2>1. PICK c \in Cmds : /\ cmd[c].child = p /\ cmd[c].id = proc[p].id
                          /\ cmd[c].op = "start" \/ cmd[c].op = "wait"
    BY HolderOfLive DEF Awaited, At
  <2>2. PICK d \in Cmds : /\ cmd[d].child = q /\ cmd[d].id = proc[q].id
                          /\ cmd[d].op = "start" \/ cmd[d].op = "wait"
    BY HolderOfLive DEF Awaited, At
  <2>3. (cmd[c].op = "start" => Claims(c)) /\ (cmd[d].op = "start" => Claims(d))
    <3>1. /\ cmd[c].child # NoPid
          /\ cmd[d].child # NoPid
      BY <2>1, <2>2, NullAssumption
    <3>2. HasChild(c) /\ HasChild(d)
      BY <3>1 DEF IInv, Ownership, ChildPhase
    <3> QED
      BY <3>2 DEF HasChild, At, Claims
  <2>4. ASSUME c # d PROVE FALSE
    <3>1. PairOK(c, d) /\ PairOK(d, c)
      BY <2>4 DEF SInv
    <3>2. Busy(c) \/ cmd[c].op = "wait"
      BY <2>1 DEF Busy
    <3> QED
      BY <2>1, <2>2, <2>3, <3>1, <3>2 DEF PairOK, Busy
  <2> QED
    BY <2>1, <2>2, <2>4
<1> QED
  BY <1>1, SerialInvariance, PTL
=============================================================================
