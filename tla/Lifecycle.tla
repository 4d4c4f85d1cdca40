----------------------------- MODULE Lifecycle -----------------------------
(***************************************************************************)
(* The container lifecycle of myruntime: the commands create, start, state, *)
(* kill and delete (src/cmd), the files they share                          *)
(* (src/runtime/state.go), the cgroups (src/runtime/cgroup.go) and the      *)
(* container processes (src/runtime/exec.go).                               *)
(*                                                                         *)
(* Every command is a process of its own.  Nothing serialises two of them:  *)
(* state.json is read, modified and written back without a lock, so each    *)
(* system call that another command can observe is an action.  A system     *)
(* call that moves a whole small file (read(2), write(2)) is atomic here.   *)
(*                                                                         *)
(* Hazards names the behaviours of the environment that an instance allows: *)
(*   "overlap"  commands run at any time; without it a command is issued    *)
(*              only while every other one waits for its container          *)
(*   "reuse"    a deleted container ID may be created again                 *)
(*   "crash"    a command dies (or one of its system calls fails for a      *)
(*              reason outside the model) between two of its steps          *)
(*   "recycle"  the kernel gives a freed PID to an unrelated process        *)
(*   "detach"   start may be given --detach, and then waits for nobody      *)
(***************************************************************************)

CONSTANTS
    Ids,        \* container IDs
    Cmds,       \* command processes that may be alive together; slots are reused
    Pids,       \* host PIDs available to container processes
    NoId, NoCmd, NoPid,
    Hazards

ASSUME NullAssumption ==
    /\ NoId \notin Ids
    /\ NoCmd \notin Cmds
    /\ NoPid \notin Pids

ASSUME HazardAssumption ==
    Hazards \subseteq {"overlap", "reuse", "crash", "recycle", "detach"}

VARIABLES
    json,       \* json[i]: /run/myruntime/<i>/state.json
    cgroups,    \* IDs whose directory under /sys/fs/cgroup/myruntime exists
    proc,       \* proc[p]: the process that holds PID p
    cmd,        \* cmd[c]: the command process in slot c
    retired     \* IDs that a delete has removed at least once

vars == <<json, cgroups, proc, cmd, retired>>

----------------------------------------------------------------------------
(* state.json: absent with or without its directory, truncated, unparsable, *)
(* or a State record, of which Status and PID matter.                       *)

Blank(s)   == [status |-> s, pid |-> NoPid]
Running(p) == [status |-> "running", pid |-> p]
NoState    == Blank("nodir")
Stopped    == Blank("stopped")

States   == {Blank("created"), Stopped} \cup {Running(p) : p \in Pids}
Contents == States \cup {Blank(s) : s \in {"nodir", "nofile", "empty", "corrupt"}}

\* LoadState succeeds: the file exists and parses.
Readable(i) == json[i] \in States

ContainerExists(i) == json[i].status \notin {"nodir", "nofile"}

\* write(2) at offset 0 into a file that holds old.  A shorter text leaves
\* the tail of a longer one, which does not parse.  Two creates write
\* records of different lengths (time stamp, bundle), any other two equal
\* states are the same bytes.
Overwritten(old, new) ==
    IF old.status = "empty" \/ (old = new /\ new.status # "created")
    THEN {new}
    ELSE {new, Blank("corrupt")}

----------------------------------------------------------------------------
(* Processes. *)

Free == [state |-> "free", id |-> NoId, parent |-> NoCmd,
         killed |-> FALSE, confined |-> FALSE]

Procs == [state : {"free", "init", "user", "zombie", "other"},
          id : Ids \cup {NoId}, parent : Cmds \cup {NoCmd},
          killed : BOOLEAN, confined : BOOLEAN]

\* p runs code of a container: the re-executed runtime, or the user's program.
Live(p) == proc[p].state \in {"init", "user"}

Killed(r) == IF r.state \in {"init", "user", "other"}
             THEN [r EXCEPT !.killed = TRUE] ELSE r

\* Variant without Pdeathsig: a live child is merely left without a parent.
OrphanedUnharmed(c) ==
    [p \in Pids |->
        IF proc[p].parent # c THEN proc[p]
        ELSE IF proc[p].state = "zombie" THEN Free
        ELSE [proc[p] EXCEPT !.parent = NoCmd]]

\* What becomes of the children of c when it ends: Pdeathsig kills a live
\* one, the host's init process reaps a zombie.
Orphaned(c) ==
    [p \in Pids |->
        IF proc[p].parent # c THEN proc[p]
        ELSE IF proc[p].state = "zombie" THEN Free
        ELSE [proc[p] EXCEPT !.killed = TRUE, !.parent = NoCmd]]

----------------------------------------------------------------------------
(* Commands.  op is the subcommand, and "wait" for a foreground start that  *)
(* has reached WaitForProcess; opt is start's --detach, kill's "the signal  *)
(* is SIGKILL", delete's --force; snap is the State the command holds;      *)
(* child is start's *os.Process; linked says that the file it has open is   *)
(* still the one at state.json's path.                                      *)

Idle == [op |-> "none", pc |-> "idle", id |-> NoId, opt |-> FALSE,
         snap |-> NoState, child |-> NoPid, linked |-> FALSE]

Ops  == {"create", "start", "wait", "kill", "state", "delete"}
Pcs  == {"idle", "check", "cgroup", "limits", "load", "fork", "attach",
         "signal", "probe", "mkdir", "open", "write", "wait", "rmcgroup",
         "unlink", "rmdir"}

Records == [op : Ops \cup {"none"}, pc : Pcs, id : Ids \cup {NoId},
            opt : BOOLEAN, snap : Contents, child : Pids \cup {NoPid},
            linked : BOOLEAN]

At(c, op, pc) == cmd[c].op = op /\ cmd[c].pc = pc

Goto(c, pc) == cmd' = [cmd EXCEPT ![c].pc = pc]

GotoWith(c, pc, s) == cmd' = [cmd EXCEPT ![c].pc = pc, ![c].snap = s]

\* The command's process ends, after success or an error.
Return(c) == /\ cmd' = [cmd EXCEPT ![c] = Idle]
             /\ proc' = Orphaned(c)

\* The next system call of c is one of SaveState(snap).
Saving(c) == cmd[c].pc \in {"mkdir", "open", "write"}

----------------------------------------------------------------------------
Init ==
    /\ json = [i \in Ids |-> NoState]
    /\ cgroups = {}
    /\ proc = [p \in Pids |-> Free]
    /\ cmd = [c \in Cmds |-> Idle]
    /\ retired = {}

\* A subcommand is issued and has parsed its arguments.
Launch(c, op, i, opt) ==
    /\ cmd[c] = Idle
    /\ \/ "overlap" \in Hazards
       \/ \A d \in Cmds : cmd[d].op \in {"none", "wait"}
    /\ opt => op \in {"start", "kill", "delete"}
    /\ (op = "create" /\ i \in retired) => "reuse" \in Hazards
    /\ (op = "start" /\ opt) => "detach" \in Hazards
    /\ cmd' = [cmd EXCEPT ![c] =
                 [Idle EXCEPT !.op = op, !.id = i, !.opt = opt,
                              !.pc = IF op = "create" THEN "check" ELSE "load"]]
    /\ UNCHANGED <<json, cgroups, proc, retired>>

----------------------------------------------------------------------------
(* create *)

\* Variant without the duplicate check.
CreateCheckNone(c) ==
    /\ At(c, "create", "check")
    /\ (Goto(c, "cgroup") /\ UNCHANGED proc) \/ Return(c)
    /\ UNCHANGED <<json, cgroups, retired>>

\* The duplicate check; the spec, the overlay directories or the rootfs may
\* also be refused before anything of the container exists.
CreateCheck(c) ==
    /\ At(c, "create", "check")
    /\ \/ ~ContainerExists(cmd[c].id) /\ Goto(c, "cgroup") /\ UNCHANGED proc
       \/ Return(c)
    /\ UNCHANGED <<json, cgroups, retired>>

\* Variant: a failing MkdirAll is reported and create goes on.
SetupCgroupOptional(c) ==
    /\ At(c, "create", "cgroup")
    /\ cgroups' \in {cgroups, cgroups \cup {cmd[c].id}}
    /\ Goto(c, "limits")
    /\ UNCHANGED <<json, proc, retired>>

\* SetupCgroup's MkdirAll, which an existing directory satisfies.
SetupCgroup(c) ==
    /\ At(c, "create", "cgroup")
    /\ \/ /\ cgroups' = cgroups \cup {cmd[c].id}
          /\ Goto(c, "limits")
          /\ UNCHANGED proc
       \/ Return(c) /\ UNCHANGED cgroups
    /\ UNCHANGED <<json, retired>>

\* The cpu.max, memory.max and pids.max writes: none without resources, and
\* any of them may be refused.  create gives up without removing the cgroup.
ApplyLimits(c) ==
    /\ At(c, "create", "limits")
    /\ \/ GotoWith(c, "mkdir", Blank("created")) /\ UNCHANGED proc
       \/ Return(c)
    /\ UNCHANGED <<json, cgroups, retired>>

----------------------------------------------------------------------------
(* SaveState: MkdirAll, then os.WriteFile's open with O_CREAT and O_TRUNC   *)
(* and its write. *)

SaveMkdir(c) ==
    /\ cmd[c].pc = "mkdir"
    /\ json' = IF json[cmd[c].id] = NoState
               THEN [json EXCEPT ![cmd[c].id] = Blank("nofile")] ELSE json
    /\ Goto(c, "open")
    /\ UNCHANGED <<cgroups, proc, retired>>

\* Variant without O_TRUNC.
SaveOpenKeeps(c) ==
    /\ cmd[c].pc = "open"
    /\ IF json[cmd[c].id] = NoState
       THEN Return(c) /\ UNCHANGED json
       ELSE /\ json' = IF json[cmd[c].id].status = "nofile"
                       THEN [json EXCEPT ![cmd[c].id] = Blank("empty")] ELSE json
            /\ cmd' = [cmd EXCEPT ![c].pc = "write", ![c].linked = TRUE]
            /\ UNCHANGED proc
    /\ UNCHANGED <<cgroups, retired>>

\* Variant that marshals the record only after the open, and may fail there.
SaveOpenFirst(c) ==
    /\ cmd[c].pc = "open"
    /\ json' = IF json[cmd[c].id] = NoState THEN json
               ELSE [json EXCEPT ![cmd[c].id] = Blank("empty")]
    /\ \/ /\ json[cmd[c].id] # NoState
          /\ cmd' = [cmd EXCEPT ![c].pc = "write", ![c].linked = TRUE]
          /\ UNCHANGED proc
       \/ Return(c)
    /\ UNCHANGED <<cgroups, retired>>

SaveOpen(c) ==
    /\ cmd[c].pc = "open"
    /\ IF json[cmd[c].id] = NoState
       THEN Return(c) /\ UNCHANGED json      \* ENOENT: a delete came between
       ELSE /\ json' = [json EXCEPT ![cmd[c].id] = Blank("empty")]
            /\ cmd' = [cmd EXCEPT ![c].pc = "write", ![c].linked = TRUE]
            /\ UNCHANGED proc
    /\ UNCHANGED <<cgroups, retired>>

\* Variant: a start whose container has ended by now does not wait for it.
SaveWriteImpatient(c) ==
    /\ cmd[c].pc = "write"
    /\ json' = IF cmd[c].linked
               THEN [json EXCEPT ![cmd[c].id] = cmd[c].snap] ELSE json
    /\ IF cmd[c].op = "start" /\ ~cmd[c].opt /\ Live(cmd[c].child)
       THEN /\ cmd' = [cmd EXCEPT ![c].op = "wait", ![c].pc = "wait",
                                  ![c].linked = FALSE, ![c].snap = NoState]
            /\ UNCHANGED proc
       ELSE Return(c)
    /\ UNCHANGED <<cgroups, retired>>

\* A write to an unlinked file reaches nobody.  A foreground start goes on
\* to wait for its container; every other command is done.
SaveWrite(c) ==
    /\ cmd[c].pc = "write"
    /\ IF cmd[c].linked
       THEN \E s \in Overwritten(json[cmd[c].id], cmd[c].snap) :
                json' = [json EXCEPT ![cmd[c].id] = s]
       ELSE UNCHANGED json
    /\ IF cmd[c].op = "start" /\ ~cmd[c].opt
       THEN /\ cmd' = [cmd EXCEPT ![c].op = "wait", ![c].pc = "wait",
                                  ![c].linked = FALSE, ![c].snap = NoState]
            /\ UNCHANGED proc
       ELSE Return(c)
    /\ UNCHANGED <<cgroups, retired>>

----------------------------------------------------------------------------
(* LoadState; a missing, truncated or corrupt file ends the command. *)

LoadFails(c) ==
    /\ cmd[c].pc = "load"
    /\ ~Readable(cmd[c].id)
    /\ Return(c)
    /\ UNCHANGED <<json, cgroups, retired>>

LoadState(c, op) == At(c, op, "load") /\ Readable(cmd[c].id)

\* Variant without the check of the status.
StartLoadAny(c) ==
    /\ LoadState(c, "start")
    /\ \/ GotoWith(c, "fork", json[cmd[c].id]) /\ UNCHANGED proc
       \/ Return(c)
    /\ UNCHANGED <<json, cgroups, retired>>

\* start goes on only from "created"; the bundle's spec may have become bad.
StartLoad(c) ==
    /\ LoadState(c, "start")
    /\ \/ /\ json[cmd[c].id].status = "created"
          /\ GotoWith(c, "fork", json[cmd[c].id])
          /\ UNCHANGED proc
       \/ Return(c)
    /\ UNCHANGED <<json, cgroups, retired>>

KillLoad(c) ==
    /\ LoadState(c, "kill")
    /\ IF json[cmd[c].id].status # "stopped" /\ json[cmd[c].id].pid # NoPid
       THEN GotoWith(c, "signal", json[cmd[c].id]) /\ UNCHANGED proc
       ELSE Return(c)
    /\ UNCHANGED <<json, cgroups, retired>>

StateLoad(c) ==
    /\ LoadState(c, "state")
    /\ IF json[cmd[c].id].status = "running"
       THEN GotoWith(c, "probe", json[cmd[c].id]) /\ UNCHANGED proc
       ELSE Return(c)
    /\ UNCHANGED <<json, cgroups, retired>>

DeleteLoad(c) ==
    /\ LoadState(c, "delete")
    /\ CASE json[cmd[c].id].status # "running" ->
              GotoWith(c, "rmcgroup", json[cmd[c].id]) /\ UNCHANGED proc
         [] json[cmd[c].id].status = "running" /\ cmd[c].opt ->
              GotoWith(c, "signal", json[cmd[c].id]) /\ UNCHANGED proc
         [] OTHER -> Return(c)
    /\ UNCHANGED <<json, cgroups, retired>>

\* Variant that leaves the PID in the record.
WaitLoadKeepsPid(c) ==
    /\ LoadState(c, "wait")
    /\ GotoWith(c, "mkdir", [json[cmd[c].id] EXCEPT !.status = "stopped"])
    /\ UNCHANGED <<json, cgroups, proc, retired>>

\* WaitForProcess marks whatever record it finds as stopped.
WaitLoad(c) ==
    /\ LoadState(c, "wait")
    /\ GotoWith(c, "mkdir", Stopped)
    /\ UNCHANGED <<json, cgroups, proc, retired>>

----------------------------------------------------------------------------
(* start, after its load *)

\* The child is cloned with Pdeathsig = SIGKILL and re-executes the runtime.
StartContainer(c) ==
    /\ At(c, "start", "fork")
    /\ \/ Return(c)
       \/ \E p \in Pids :
            /\ proc[p] = Free
            /\ proc' = [proc EXCEPT ![p] =
                          [Free EXCEPT !.state = "init", !.id = cmd[c].id,
                                       !.parent = c]]
            /\ cmd' = [cmd EXCEPT ![c].pc = "attach", ![c].child = p]
    /\ UNCHANGED <<json, cgroups, retired>>

\* Variant that forgets the write to cgroup.procs.
AddProcessNowhere(c) ==
    /\ At(c, "start", "attach")
    /\ GotoWith(c, "mkdir", Running(cmd[c].child))
    /\ UNCHANGED <<json, cgroups, proc, retired>>

\* Fails when the cgroup is gone, which start only reports; a zombie is
\* accepted and moves nothing.
AddProcessToCgroup(c) ==
    /\ At(c, "start", "attach")
    /\ proc' = IF cmd[c].id \in cgroups /\ Live(cmd[c].child)
               THEN [proc EXCEPT ![cmd[c].child].confined = TRUE] ELSE proc
    /\ GotoWith(c, "mkdir", Running(cmd[c].child))
    /\ UNCHANGED <<json, cgroups, retired>>

\* Variant that goes on using the *os.Process after Wait.
WaitExitKeepsChild(c) ==
    /\ At(c, "wait", "wait")
    /\ proc[cmd[c].child].state = "zombie"
    /\ proc' = [proc EXCEPT ![cmd[c].child] = Free]
    /\ Goto(c, "load")
    /\ UNCHANGED <<json, cgroups, retired>>

\* Variant that returns the exit status and updates no record.
WaitExitOnly(c) ==
    /\ At(c, "wait", "wait")
    /\ proc[cmd[c].child].state = "zombie"
    /\ Return(c)
    /\ UNCHANGED <<json, cgroups, retired>>

\* proc.Wait reaps the child.
WaitExit(c) ==
    /\ At(c, "wait", "wait")
    /\ proc[cmd[c].child].state = "zombie"
    /\ proc' = [proc EXCEPT ![cmd[c].child] = Free]
    /\ cmd' = [cmd EXCEPT ![c].pc = "load", ![c].child = NoPid]
    /\ UNCHANGED <<json, cgroups, retired>>

----------------------------------------------------------------------------
(* kill, delete --force and state act on the PID they have read. *)

\* Variant that marks the container as stopped after any signal.
KillSignalAlways(c) ==
    /\ At(c, "kill", "signal")
    /\ proc' = IF cmd[c].opt
               THEN [proc EXCEPT ![cmd[c].snap.pid] = Killed(@)] ELSE proc
    /\ GotoWith(c, "mkdir", Stopped)
    /\ UNCHANGED <<json, cgroups, retired>>

\* Only SIGKILL is sure to end the process: other signals leave the model's
\* state alone, and so does an error that says the process is gone.
KillSignal(c) ==
    /\ At(c, "kill", "signal")
    /\ IF cmd[c].opt
       THEN /\ proc' = [proc EXCEPT ![cmd[c].snap.pid] = Killed(@)]
            /\ GotoWith(c, "mkdir", Stopped)
       ELSE Return(c)
    /\ UNCHANGED <<json, cgroups, retired>>

\* The container is no child of delete: proc.Wait returns ECHILD at once.
DeleteSignal(c) ==
    /\ At(c, "delete", "signal")
    /\ proc' = [proc EXCEPT ![cmd[c].snap.pid] = Killed(@)]
    /\ Goto(c, "rmcgroup")
    /\ UNCHANGED <<json, cgroups, retired>>

\* Variant that corrects the record without looking.
StateProbeBlind(c) ==
    /\ At(c, "state", "probe")
    /\ GotoWith(c, "mkdir", Stopped)
    /\ UNCHANGED <<json, cgroups, proc, retired>>

\* Variant that saves the record it has read whatever the probe says.
StateProbeSaves(c) ==
    /\ At(c, "state", "probe")
    /\ GotoWith(c, "mkdir", IF proc[cmd[c].snap.pid] = Free
                            THEN Stopped ELSE cmd[c].snap)
    /\ UNCHANGED <<json, cgroups, proc, retired>>

\* processAlive looks for /proc/<pid>, which a zombie and a stranger have.
StateProbe(c) ==
    /\ At(c, "state", "probe")
    /\ IF proc[cmd[c].snap.pid] = Free
       THEN GotoWith(c, "mkdir", Stopped) /\ UNCHANGED proc
       ELSE Return(c)
    /\ UNCHANGED <<json, cgroups, retired>>

----------------------------------------------------------------------------
(* delete, after its load *)

\* rmdir of a cgroup with a live member is EBUSY, which delete only reports.
RemoveCgroup(c) ==
    /\ At(c, "delete", "rmcgroup")
    /\ cgroups' = IF \E p \in Pids : proc[p].confined /\ proc[p].id = cmd[c].id
                  THEN cgroups ELSE cgroups \ {cmd[c].id}
    /\ Goto(c, "unlink")
    /\ UNCHANGED <<json, proc, retired>>

\* DeleteState's RemoveAll: first the file, then the directory.
DeleteUnlink(c) ==
    /\ At(c, "delete", "unlink")
    /\ json' = IF ContainerExists(cmd[c].id)
               THEN [json EXCEPT ![cmd[c].id] = Blank("nofile")] ELSE json
    /\ cmd' = [d \in Cmds |->
                 IF d = c THEN [cmd[d] EXCEPT !.pc = "rmdir"]
                 ELSE IF cmd[d].id = cmd[c].id
                      THEN [cmd[d] EXCEPT !.linked = FALSE]
                 ELSE cmd[d]]
    /\ retired' = retired \cup {cmd[c].id}
    /\ UNCHANGED <<cgroups, proc>>

\* A directory that holds a file again is ENOTEMPTY, and stays.
DeleteRmdir(c) ==
    /\ At(c, "delete", "rmdir")
    /\ json' = IF ContainerExists(cmd[c].id) THEN json
               ELSE [json EXCEPT ![cmd[c].id] = NoState]
    /\ Return(c)
    /\ UNCHANGED <<cgroups, retired>>

----------------------------------------------------------------------------
(* The environment. *)

\* A command dies between two of its steps, or stops at a failing one.
Crash(c) ==
    /\ "crash" \in Hazards
    /\ cmd[c] # Idle
    /\ Return(c)
    /\ UNCHANGED <<json, cgroups, retired>>

\* RunInitProcess reaches exec(2).
ExecUser(p) ==
    /\ proc[p].state = "init" /\ ~proc[p].killed
    /\ proc' = [proc EXCEPT ![p].state = "user"]
    /\ UNCHANGED <<json, cgroups, cmd, retired>>

\* A process ends: RunInitProcess fails, the program is done, a signal takes
\* effect.  It stays a zombie for the start that would wait for it.
ProcExit(p) ==
    /\ Live(p) \/ proc[p].state = "other"
    /\ proc' = [proc EXCEPT ![p] =
                  IF @.parent = NoCmd THEN Free
                  ELSE [@ EXCEPT !.state = "zombie", !.confined = FALSE]]
    /\ UNCHANGED <<json, cgroups, cmd, retired>>

PidRecycled(p) ==
    /\ "recycle" \in Hazards
    /\ proc[p] = Free
    /\ proc' = [proc EXCEPT ![p].state = "other"]
    /\ UNCHANGED <<json, cgroups, cmd, retired>>

----------------------------------------------------------------------------
Step(c) ==
    \/ CreateCheck(c) \/ SetupCgroup(c) \/ ApplyLimits(c)
    \/ SaveMkdir(c) \/ SaveOpen(c) \/ SaveWrite(c)
    \/ LoadFails(c) \/ StartLoad(c) \/ KillLoad(c) \/ StateLoad(c)
    \/ DeleteLoad(c) \/ WaitLoad(c)
    \/ StartContainer(c) \/ AddProcessToCgroup(c) \/ WaitExit(c)
    \/ KillSignal(c) \/ DeleteSignal(c) \/ StateProbe(c)
    \/ RemoveCgroup(c) \/ DeleteUnlink(c) \/ DeleteRmdir(c)

Kernel(p) == ExecUser(p) \/ ProcExit(p) \/ PidRecycled(p)

Next ==
    \/ \E c \in Cmds :
         \/ \E op \in Ops \ {"wait"}, i \in Ids, opt \in BOOLEAN :
              Launch(c, op, i, opt)
         \/ Step(c)
         \/ Crash(c)
    \/ \E p \in Pids : Kernel(p)

Spec == Init /\ [][Next]_vars

\* The scheduler runs every command that can take a step, and a killed
\* process ends.  Nobody has to issue commands, and programs may run forever.
Fairness ==
    /\ \A c \in Cmds : WF_vars(Step(c))
    /\ \A p \in Pids : WF_vars(proc[p].killed /\ ProcExit(p))

FairSpec == Spec /\ Fairness
----------------------------------------------------------------------------
(* Properties. *)

\* The values the variables take.
TypeOK ==
    /\ json \in [Ids -> Contents]
    /\ cgroups \subseteq Ids
    /\ proc \in [Pids -> Procs]
    /\ cmd \in [Cmds -> Records]
    /\ retired \subseteq Ids

\* No container process outlives the start that forked it, whatever happens
\* to that start (exec.go:103-104): one that has not been sent SIGKILL is the
\* child of a command that still runs, for the same container.
NoOrphan ==
    \A p \in Pids : Live(p) /\ ~proc[p].killed =>
        \E c \in Cmds : cmd[c].child = p /\ cmd[c].id = proc[p].id

\* The PID a start holds is its own child's from the fork to proc.Wait, even
\* when PIDs are recycled: the write to cgroup.procs moves no stranger, and
\* the PID written as "running" is one the container had.
ChildHandle ==
    \A c \in Cmds : cmd[c].child # NoPid =>
        /\ proc[cmd[c].child].parent = c
        /\ proc[cmd[c].child].id = cmd[c].id
        /\ Live(cmd[c].child) \/ proc[cmd[c].child].state = "zombie"

\* While a foreground start waits for a container nobody has killed, the
\* record says "running" with its PID: state, kill and delete can find it.
Tracked ==
    \A c \in Cmds :
        At(c, "wait", "wait") /\ Live(cmd[c].child) /\ ~proc[cmd[c].child].killed
            => json[cmd[c].id] = Running(cmd[c].child)

\* A record that says "stopped" is never wrong about a process that has not
\* been sent SIGKILL (state.go:33, kill.go:88-89).
StoppedMeansDead ==
    \A p \in Pids : Live(p) /\ ~proc[p].killed => json[proc[p].id] # Stopped

\* What start read is still what is on disk when it writes it back changed:
\* from its check of "created" to its open, nobody else writes the record.
StartFromCreated ==
    \A c \in Cmds :
        cmd[c].op = "start" /\ cmd[c].pc \in {"fork", "attach", "mkdir", "open"}
            => json[cmd[c].id] = Blank("created")

\* No interleaving of truncations and writes leaves text that does not parse.
NeverCorrupt == \A i \in Ids : json[i].status # "corrupt"

\* A truncated state.json is on its way to a complete one: some command has
\* it open and is about to write.
EmptyHasWriter ==
    \A i \in Ids : json[i].status = "empty" =>
        \E c \in Cmds : cmd[c].id = i /\ cmd[c].pc = "write" /\ cmd[c].linked

\* The cgroup of a container that start is about to launch exists.
StartFindsCgroup ==
    \A c \in Cmds :
        cmd[c].op = "start" /\ cmd[c].pc \in {"fork", "attach"}
            => cmd[c].id \in cgroups

\* Resource limits hold for every container a start waits for: its live
\* process is a member of the container's cgroup, and the cgroup is there.
Confined ==
    \A c \in Cmds :
        At(c, "wait", "wait") /\ Live(cmd[c].child)
            => proc[cmd[c].child].confined /\ cmd[c].id \in cgroups

\* A record that says "running" has its start beside it, which holds the PID
\* as its child, or has reaped it and is about to correct the record: what
\* kill, state and delete read there is out of date in that window only.  It
\* says nothing of what they have read: when kill signals the PID that it has
\* loaded (kill.go:76), the record may have changed since, and the PID may be
\* another process's.
RunningIsAttended ==
    \A i \in Ids, p \in Pids : json[i] = Running(p) =>
        \E c \in Cmds :
            /\ cmd[c].op = "wait" /\ cmd[c].id = i
            /\ \/ cmd[c].child = p
               \/ cmd[c].child = NoPid /\ cmd[c].pc \in {"load", "mkdir", "open"}

\* When the container of a waiting start dies, the record stops saying that
\* it runs with that PID (WaitForProcess), or a delete has taken it away.
WaiterRecordsExit ==
    \A i \in Ids, p \in Pids :
        (\E c \in Cmds : At(c, "wait", "wait") /\ cmd[c].id = i
                           /\ cmd[c].child = p /\ proc[p].state = "zombie")
            ~> [](json[i] # Running(p))

----------------------------------------------------------------------------
(* What the comments of the source say and the code does not do. *)

\* start.go:109: in detached mode "the child runs independently".
DetachedSurvives ==
    [][\A c \in Cmds, p \in Pids :
         At(c, "start", "write") /\ cmd'[c] = Idle
           /\ cmd[c].child = p /\ Live(p) /\ ~proc[p].killed
         => ~proc'[p].killed]_vars

\* start.go:51: only a container in state "created" is started, so a
\* container has one process.
OneProcessPerContainer ==
    \A p, q \in Pids :
        /\ Live(p) /\ ~proc[p].killed
        /\ Live(q) /\ ~proc[q].killed
        /\ proc[p].id = proc[q].id
        => p = q

\* delete.go:9: delete "deletes the state directory", so an ID without a
\* state directory has one again only by create.
DeletedStaysDeleted ==
    [][\A i \in Ids :
         json[i] = NoState /\ json'[i] # NoState
         => \E c \in Cmds : cmd[c].op = "create" /\ cmd[c].id = i]_vars

\* delete.go:5,8: delete removes the container's cgroup along with its state.
DeleteRemovesCgroup ==
    \A i \in Ids : json[i] = NoState /\ i \in retired => i \notin cgroups
=============================================================================
