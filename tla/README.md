# A verification project for myruntime

myruntime is a small OCI-style container runtime in Go. These modules model how
its commands, the files they share and the container processes interact; TLC
checks them on small instances, and TLAPS proves the central results for every
instance. File names and line numbers refer to `src/`.

## The system

### Components, their state and their operations

| component | state | operations | correct when |
|---|---|---|---|
| state store (`runtime/state.go`) | `/run/myruntime/<id>/state.json`: a status and a PID, among others | `SaveState` (mkdir, truncate, write), `LoadState`, `DeleteState` (unlink, rmdir), `ContainerExists` | a record parses, agrees with the process it names, and is gone after a delete |
| `create` (`cmd/create.go`) | none of its own | duplicate check, refusals, cgroup, record "created" | an ID is created once; what it leaves behind is usable |
| `start` (`cmd/start.go`) | the record it read, its `*os.Process` | load, check "created", fork, cgroup membership, save "running", return or wait | one process per container, confined, recorded, never orphaned |
| `state` (`cmd/state.go`) | the record it read | load, probe `/proc/<pid>`, correct the record | only dead containers are corrected |
| `kill` (`cmd/kill.go`) | the record it read | load, signal, after SIGKILL save "stopped" | "stopped" means dead |
| `delete` (`cmd/delete.go`) | the record it read | load, refuse or SIGKILL, remove cgroup, delete record | record and cgroup are gone, and stay gone |
| cgroups (`runtime/cgroup.go`) | the directories under `/sys/fs/cgroup/myruntime` and their members | make, limit, add a process, remove (EBUSY while populated) | a container runs in its own |
| process launch (`runtime/exec.go`) | host PIDs, parent and child | clone with `Pdeathsig`, wait | no process survives its `start` |
| container init (`cmd/init.go`, `RunInitProcess`) | mount table and root of one process, `.pivot_old` in the shared root directory | private `/`, overlay, `/proc`, `pivot_root` or `chroot`, spec mounts, exec; signal handlers | the program sees its own root with its mounts, and nothing of the host |
| overlay (`runtime/overlay.go`) | `<bundle>/overlay/*` | prepare, mount, unmount | the layers create has checked are those init mounts |
| configuration (`config/config.go`) | `<bundle>/config.json`, read by `create` and again by `start` | parse, validate, resolve the root path | what is used later has been validated |
| command line (`main.go`, `cmd/root.go`, the heads of the commands) | the arguments still to be read | global flags, subcommand, its flags, operands, signal names | a line means what its grammar says |
| namespaces (`runtime/namespace.go`) | none | clone flags | the requested kinds, and no other |
| logging, JSON helpers | none | formatting | not modelled |

### How they interact

Each command is a process; no lock, socket or daemon joins them. They meet in
`state.json`, in the cgroup directories and in the kernel's process table. A
`start` forks the init process, and unless `--detach` is given stays its parent
until it exits; it then loads the record a second time and saves it as stopped.
So even an operator who issues one command at a time has two processes that
write one record: a waiting `start`, and the command of the moment.

The bundle's directory is a third meeting place. `create` reads `config.json`,
checks the root it names and writes limits into the cgroup; `start` reads
`config.json` again, which its owner may have edited, and the annotations that
`create` left in the record; the init process gets both in its environment.

### What is hard

- every change of a record is a load, a computation and a save, with other
  commands in between;
- a save is itself three steps (directory, truncating open, write), a deletion
  two (unlink, rmdir), and any process may die between two of them;
- PIDs are read from a file and used later, when they may be someone else's;
- `delete --force` signals a process it cannot wait for;
- the limits of a container are written one file at a time, into a directory
  that an earlier failed `create` may have left;
- flags are parsed twice, by a package that stops at the first operand;
- containers of one bundle share a directory that each of them creates and
  removes while it changes its root;
- every system call of the init process can fail, on either side of the point
  where the root has changed.

`PROJECT.json` lists these hazards one by one, at the line where they bite,
with the properties that cover them.

## The modules

| module | what it is |
|---|---|
| `Lifecycle` | the five commands, the state store, cgroups, and container processes as the host sees them |
| `OciLifecycle` | what they promise: the abstract life of a container |
| `LifecycleRefinement` | the mapping under which `Lifecycle` implements `OciLifecycle` |
| `MCLifecycle` | instances of the three |
| `LifecycleProofs` | theorems about `Lifecycle`, under any overlap of commands |
| `OneAtATimeProofs` | theorems about it for commands issued one at a time |
| `UndisturbedProofs` | theorems about it when no command dies halfway |
| `RefinementProofs` | `Lifecycle` implements `OciLifecycle` |
| `ContainerInit` | the init processes of containers started from one bundle |
| `ContainerInitProofs` | theorems about it |
| `ReadonlyProofs` | what the fold over mount options computes, and the theorem that depends on it |
| `MCContainerInit` | instances of it |
| `CommandLine` | from arguments to a request |
| `Bundle` | what `create` and `start` make of a bundle, its configuration and its limits |
| `Invocation` | the two composed: an operator types lines at a bundle |
| `InvocationProofs` | theorems about the bundle's side of it |
| `GrammarProofs` | the theorem about the command line |
| `MCInvocation` | an instance of it |

### Lifecycle

A command process is a record `cmd[c]` in a slot of `Cmds`; `op` and `pc` say
which system call is next, `snap` is the `State` value in its memory, `child`
its `*os.Process`, `linked` whether the file it has open is still the one at
the path. A slot is free again when the command returns, so a run issues any
number of commands. `json[i]` is the file: absent with or without its
directory, truncated, unparsable, or a status with a PID. `proc[p]` is the
process with host PID `p`: container init, user's program, zombie, or a
stranger. `retired` remembers which IDs were deleted; it is used to switch the
reuse of IDs on and off, and by two properties.

Every system call that another process can see is an action:

| action | code |
|---|---|
| `Launch` | `Execute`, flags and arguments parsed |
| `CreateCheck`, `SetupCgroup`, `ApplyLimits` | `runCreate` up to its save |
| `SaveMkdir`, `SaveOpen`, `SaveWrite` | `SaveState`, whoever calls it; `SaveWrite` includes what the command does after a save: return, or wait |
| `LoadFails`, `StartLoad`, `KillLoad`, `StateLoad`, `DeleteLoad`, `WaitLoad` | `LoadState` with the checks that follow it |
| `StartContainer`, `AddProcessToCgroup`, `WaitExit` | fork, membership, `proc.Wait` |
| `KillSignal`, `DeleteSignal`, `StateProbe` | what is done to the PID that was read |
| `RemoveCgroup`, `DeleteUnlink`, `DeleteRmdir` | `RemoveCgroup`, `DeleteState` |
| `Crash` | a command process dies, or a system call fails for an outside reason |
| `ExecUser`, `ProcExit`, `PidRecycled` | the kernel and the program |

`Return` ends a command and does to its child what the kernel does:
`Pdeathsig` kills a live one, the host's init reaps a zombie. When two writers
have the same file open, the second write starts at offset 0 and may leave the
tail of a longer text: `Overwritten` allows the new record or one that does not
parse, unless both texts are the same.

The constant `Hazards` selects what the environment may do: overlapping
commands, reuse of IDs, crashes, recycled PIDs, starts with `--detach`.
Properties that need a disciplined operator are checked without the hazards that
break them, and the violated runs show which hazard breaks what.

Abstractions: read(2) and write(2) of a small file are single steps; fork,
`prctl(PR_SET_PDEATHSIG)` and exec in the child are one step; a signal other
than SIGKILL changes nothing (what the container does with it belongs to
`ContainerInit`); membership in a cgroup fails only when the cgroup is gone;
the program's own children are not distinguished from it; the overlay unmount
of `delete` has nothing to unmount in the host's mount table.

### OciLifecycle and its refinement

`OciLifecycle` has neither files nor PIDs nor commands: an ID is absent,
created, running or stopped, and has a process that is alive or has ended. A
change of status is one step; created once, started from "created" only,
stopped and deleted only when the process is not alive. What the code can do
beyond the diagram of the README is an action of its own, and a run in which
one of them is left out fails: `Lose` (a command dies between the truncation
and the write, and the record no longer parses), `LoseBoth` (it is a start, and
takes its process along), `Reappear` (the waiting start of a container deleted
by force saves its record back).

`LifecycleRefinement` maps the detailed state: the truncating open of a save is
where the new status takes effect, as nobody can read the old one from then on;
a truncated or torn record without a writer is lost; a process that has been
sent SIGKILL counts as ended as long as its start holds it. `delete --force` and
`kill` then refine `End` followed by `Delete` or `Stop`, and all the other
system calls are stutters. The mapping asks for commands issued one at a time
and for no reuse of IDs; crashes, recycled PIDs and detached starts are allowed.
`RunningIsAttended`, about the same operator whose starts wait and do not die,
says that a record names a PID that is no longer the container's only while its
start is on the way from `wait` to the save. It is about the record: a `kill` that
has read the PID before may signal it after it has been recycled, which no
property excludes.

### ContainerInit

`init[n]` is an init process: its next system call, its root, whether the host's
root is still mounted on `.pivot_old`, and the mounts that are visible below its
new root, read-only or not. `mounts` is the list of the bundle's spec. `conf[n]`
says whether its spec has a mount and a PID namespace and whether it uses an
overlay; `lower` is the state of `overlay/lower`; `pivotDir` is the shared
`.pivot_old`; `host` collects what the containers change outside. With `Faults`
every system call may fail, else only when something it needs is missing. An
rmdir of `.pivot_old` in one mount namespace detaches what another has mounted
there, as Linux does since 3.18. Overlay containers of one bundle would share
their upper layer, which the kernel leaves undefined, so at most one has an
overlay. Hostname and working directory are outcomes of `Exec`.

The root is the host's, the container's after `pivot_root` ("new"), the
container's after chroot ("jail"), or a directory inside the container's
("inner"): `RunInitProcess` falls back to `chroot(cfg.RootFS)` also when
`pivot_root` has succeeded and a later call has not, and the image may contain
that path. The process then sees none of the mounts made before, may find no
program, and the host's root may still be mounted on `.pivot_old`, outside of
the jail. `Inside` and `MountsVisible` state this exception.

A container without a mount namespace takes the same steps on the host's mount
table, where `pivot_root` moves the root of every process of the host. It is
followed up to its first change, which makes the host's `/` private. After it
(`RunOnHost`) it may still create and remove `.pivot_old`, at any time, which is
what the containers with a mount namespace notice of it.

A mount of the spec is a destination and its option strings. The flags are or-ed
together as `parseMountOptions` does, in capitals or not (`Lower`), unknown
options being data that is left out; `Kind` is what mount(2) then makes of them,
in its own order. A bind mount ignores "ro" and looks for its source below the
new root, where it may be missing; a remount and a change of the propagation
need a mount at their destination, and fail without one; an entry for `/proc` is
skipped. A mount hides what was mounted at its destination or below it; a
remount hides nothing.

### CommandLine, Bundle and Invocation

`CommandLine` keeps the arguments of one invocation and reads them as Go's flag
package does: one at a time, first with the global flag set and, after the
dispatch, with the subcommand's, until the first argument that is no flag. An
argument is a string; what an argument with a dash spells (a flag's name and
its value) is the constant `Dashed`, and what one spells to `parseSignal` is
`Spelled`. A boolean flag takes the values of `strconv.ParseBool`, `1` and `F`
among them. `FollowsGrammar` compares the outcome with a reading of the line as a
whole: there must be places of flags, each of its set and with a good value, a
value for each string flag and operands that start where the flags end.

`Bundle` has `config.json` (any of `Specs`, absent or unparsable), the paths that
exist, the cgroup's control files, the record, the running command and the
`InitConfig` of the forked child. Each control file is a step that the kernel
may refuse, in which case the ones before it stay, as does the directory;
preparing the overlay may fail after any of its three directories.
`config.json` may be edited, and a root or an image made, between any two
commands. The history variable `verified` keeps what `create` has seen and been
asked for. There are no two commands at a time, no delete and no running
container in it: that is the part of `Lifecycle`.

`Invocation` joins them: the lines of a session are typed one after the other,
their requests go to the bundle.

## What is checked

| run | instance | shows |
|---|---|---|
| `overlap` | 2 commands, 2 PIDs, 1 ID, all hazards (0.5M states) | `TypeOK`; `NoOrphan`: a process not sent SIGKILL is the child of a living start; `ChildHandle`: a start's PID stays its own |
| `one_at_a_time` | 2 IDs, 2 commands, 2 PIDs, crashes, recycling and detached starts (1M states) | `Tracked`, `StoppedMeansDead`, `StartFromCreated`, `NeverCorrupt`: records agree with processes although waiters write too; `ImplementsOciLifecycle`: the refinement |
| `undisturbed` | 1 ID, 2 commands, 2 PIDs, recycling (6k states) | `Confined`, `StartFindsCgroup`, `RunningIsAttended`; `WaiterRecordsExit`: an exit is recorded for good, and `EveryEndIsRecorded`: so is every end, also one before the wait has begun (liveness) |
| `open_files` | 1 ID, 3 commands, overlap and reuse (1.2M states) | `EmptyHasWriter`: a truncated record has a writer |
| `init_races` | 2 containers of one bundle, 6 lists of mounts, every call failing (0.6M states) | `TypeOK`; for containers with a mount namespace, `Inside`: no program runs with the host's root in reach of a pivoted one, but for the exception above; `MountsVisible`: what no later mount covers is there; `ReadonlyHonoured`: "ro" among the options counts, wherever it stands; `PivotDirRemoved`; `HostMountsUntouched` |
| `invocation` | 3 lines at one bundle, the first any of 6000 with and without root, 9 specs (0.5M states) | `TypeOK`; `FollowsGrammar`; `LimitsInForce`: the limits asked for are those in the cgroup, also over leftovers, and never zero or less; `RootAsVerified`: a child's root is the one create has checked |

Six runs end in a violation, each of a sentence of the documentation:

| run | sentence | what happens |
|---|---|---|
| `detached` | start.go:109 "the child runs independently" | `Pdeathsig` kills it when `start --detach` returns |
| `double_start` | start.go:51-53, only "created" is started | two overlapping starts pass the check |
| `resurrection` | delete.go:9 "Deletes the state directory" | the waiting start of a force-deleted container saves it back |
| `leaked_cgroup` | delete.go:5,8 "Removes the cgroup" | the killed process still occupies it, and the record is deleted anyway |
| `sigterm` | init.go:28-29 "can be stopped cleanly" | handlers do nothing before exec and do not survive it |
| `usage` | root.go:68,79, create.go:44, README.md:555,564-565: flags after the ID | they are operands: the create is refused, start and delete do without |

Four more sentences are contradicted without a run of their own. create.go:79 and
README.md:310 use the rootfs as the lower layer of an overlay when there is no
`overlay/lower`: only `PrepareOverlayDirs` hears of it, and init mounts the
missing directory (`MountOverlay`). start.go:115 offers Ctrl-C "to detach", which
ends the container like `detached`. mount.go:125 speaks of a host directory as
the source of a bind mount, which is looked up when the host is no longer in
reach. init.go:87 speaks of the process group where `kill(-1)` reaches every
process of the PID namespace, or of the host if the spec has none.

Of these runs, `detached`, `resurrection` and `leaked_cgroup` need no overlapping
commands: `Hazards` is empty in their instances.

### Bounds

Two command slots are enough for every race of two commands, and since slots and
PIDs are reused, histories are unbounded: the runs explore the complete state
space, without a bound on depth. Three slots in `open_files` allow two writers
and a delete. One ID is enough where commands of different IDs meet only through
PIDs; `one_at_a_time` has two, so that a PID freed by one container is given to
the other. Two PIDs allow a stranger beside a container, and an old process
dying beside a new one. Two init processes allow each to remove what the other
needs. The six lists have a mount after another at the same place and above it,
"ro" first, last and taken back, a bind, a remount with and without a target, a
propagation with and without one, options in capitals, and unknown ones. Safety
runs of interchangeable slots use symmetry; the liveness runs do not.

In `invocation` the arguments after `create` are any sequence of up to four over
eight words, after `start` and `kill` of up to three, after the others of up to
two, so that a flag can stand before, after and in place of an operand or a
value. A session has three lines: enough for a create that fails halfway, one
that takes over what is left, and a start. The specs have limits that are
missing, negative, zero and positive, roots inside and outside of the bundle, and
each thing that `validateSpec` refuses. The session is bounded (`Script`); what
three lines do is not. `usage` has the three lines of the documentation.

### Deadlock

`Lifecycle` never stops, as commands can always be issued. In
`ContainerInit` all containers may have ended, and in `Invocation` all lines may
have been typed, so their runs do not check for it.

### Fairness

`FairSpec` of `Lifecycle` assumes that a command that can take a step takes
one in the end, and that a process sent SIGKILL dies: both are the kernel
scheduler's. It assumes neither that commands are issued, nor that programs
exit, nor anything about `Crash`. `FairSpec` of `ContainerInit` assumes that the
init process, which blocks nowhere, keeps running.

## What is proved

`LifecycleProofs` proves, for all sets of IDs, commands and PIDs and every
choice of hazards, from `NullAssumption` (the null values are no IDs, commands
or PIDs) alone:

- `TypeCorrect`: `Spec => []TypeOK`;
- `NoOrphans`: `Spec => []NoOrphan`;
- `ChildHandles`: `Spec => []ChildHandle`;
- `EmptyHasAWriter`: `Spec => []EmptyHasWriter` if `"crash"` is no hazard.

`NoOrphan` is not inductive: it mentions only the child that a command names.
The invariant `IInv` adds that parent and child name each other (`ChildHandle`,
`ParentHasChild`), that a start has a child exactly between its fork and its
wait (`ChildPhase`), and that only dying processes, strangers and free PIDs are
without a parent (`Supervised`, `Unowned`). `SaveReady` says that what is about
to be written is a complete record, which the types of `json` and the argument
for `EmptyHasWriter` need. Two lemmas carry most steps: `ReturnStep` for the end
of a command, where `Orphaned` cuts all its ties at once, and `QuietStep` for
steps that change neither who runs what nor who owns whom. Fork and wait, which
make and cut one tie, have a lemma each. For `EmptyHasWriter` the writer is
followed through every action; only its own write takes it away, and that
write leaves the file non-empty.

`ContainerInitProofs` proves, for any number of containers and any lists of
mounts, with and without `Faults`, from `MountAssumption` (an entry is a path
and option strings):

- `TypeCorrect`: `Spec => []TypeOK`;
- `AlwaysInside`: `Spec => []Inside`;
- `HostIsUntouched`: `Spec => []HostMountsUntouched`;
- `PivotDirIsRemoved`: `Spec => []PivotDirRemoved`;
- `MountsAreVisible`: `Spec => []MountsVisible`, if no entry is mounted over `/`
  itself (`NothingOnRoot`), where it would hide `/proc`.

`Inside` needs what each step of `PivotRoot` has established (`PhaseOK`): that the
old root is gone at the rmdir, that a process which mounts or runs has a root
of its own, and that the old root is then still mounted only if the fallback has
left the process in a directory inside. `PivotDirRemoved` needs someone to blame
for a directory (`Held`): a process between its mkdir and its rmdir, one that has
fallen back to chroot, one without a mount namespace, or a dead one. All steps
but `RemoveOld` and `RunOnHost` change one process and go through `LocalStep`;
these two also take the old root from others. `MountsVisible` is followed entry
by entry (`ShowOK`): an entry is in the table unless one that came after it, and
before the next, covers it.

`ReadonlyProofs` proves, from the same assumption:

- `ReadonlyIsHonoured`: `Spec => []ReadonlyHonoured`.

It has two halves. `ParseGathers` says that `ParseMountOptions`, a fold, returns
the flags of all the options, for every list of them: the recursive function
behind `FoldLeft` is written out (`FoldsOf`), a function that satisfies its
equation is exhibited (`FoldEquation`), and a least number of options for which
it computed anything else is led to a contradiction, which takes the place of
an induction over the list. The invariant `ReadonlyShown` then follows the
entries as `ShowOK` does; it needs nothing about mounts over `/`.

### One command at a time

`OneAtATimeProofs` is about the operator who neither overlaps commands nor
reuses IDs (`OneAtATime`: `Hazards` has neither `"overlap"` nor `"reuse"`).
Commands may crash, starts may detach, PIDs may be recycled, and any number of
waiting starts run, and write records, beside the command of the moment:

- `WaitersAreTracked`: `Spec => []Tracked`;
- `StartsFromCreated`: `Spec => []StartFromCreated`;
- `RecordsParse`: `Spec => []NeverCorrupt`;
- `StoppedIsDead`: `Spec => []StoppedMeansDead`;
- `OneProcess`: `Spec => []OneProcessPerContainer`, the property that two
  overlapping starts violate in the run `double_start`.

None of them is inductive. `SInv` says what a command relies on at each of its
steps: which steps its operation has (`PhaseOK`), what it holds in memory
(`SnapOK`), what is in the file meanwhile (`FileOK`: a create's file does not
exist until its open, a start's says "created"), and what two commands cannot be
doing together (`PairOK`: of two commands of one ID, a waiting start excludes a
second one, a create and a start past its check; whoever is about to write
"stopped" or to remove the record has found or made the container dead; and
whoever holds a PID that it has read holds that of the container, as long as its
start still waits). `OneStep` reduces an action to what it does to one command,
to its file and to those who wait, and `AwaitedKept` says that a container which
a step finds killed is not live again after it. `HolderOfLive` joins `SInv` with
the ownership of `LifecycleProofs`: a live process is held by a start whose
record says "created", is empty, or says "running" with that very PID.

`RefinementProofs` proves `Refinement`: `Spec => ImplementsOciLifecycle`, under
`OneAtATime`. Every action is shown to be one of the ten steps of one container
(`StepOf`) that leaves the others apart (`Simulated`), or a stutter. The cases
that take an argument are those where the abstract status depends on other
commands: a truncated file counts as what its writer is about to write, so two
writers must agree (`WritersAgree`), and the crash of a writer loses the record
only if nobody else has the file open.

### Nobody dies halfway

`UndisturbedProofs` adds hypotheses about crashes:

- `RunningAttended`: `Spec => []RunningIsAttended` if there are no crashes and no
  detached starts, whatever overlaps and is reused: more than the run
  `undisturbed` checks. The invariant is the property itself with `SavesOK`:
  nobody but a start writes "running", and it writes its own child's PID;
- `StartsFindCgroups`: `Spec => []StartFindsCgroup`, and `WaitersAreConfined`:
  `Spec => []Confined`, under `OneAtATime` without crashes. `CInv` says that a
  create past its cgroup has one, that a record "created" has one unless its
  delete is between the two removals, and that a live child past its move is a
  member: RemoveCgroup then meets EBUSY.

A crash of a delete between the removals falsifies the last two, overlapping
commands too: the hypotheses are needed.

### Invocation

`InvocationProofs` proves, for all lines and sessions, all specs with any numbers
in them and any edits, from four assumptions: `SpecAssumption` (Go's types of
the fields), `NilAssumption` (nil is no number, text or record),
`DashedAssumption` ("--" and "init" are no flags) and `ScriptAssumption` (a line is a
sequence of strings, and at least one is typed):

- `TypeCorrect`: `Spec => []TypeOK`;
- `LimitsAreInForce`: `Spec => []LimitsInForce`;
- `RootIsAsVerified`: `Spec => []RootAsVerified`.

The invariant has a part for the line (`LineOK`: what is left of it is a suffix,
and the flags are those of the subcommand) and one for the bundle. `LimitsOK`
follows `create` from file to file: the files it has passed hold what its spec
asks for, every file holds "max" or a positive number also when the directory
was there before, and a record exists only when all are done. `VerifiedOK` takes
the verified root from `cmd` to the record and from the record to the child, and
`RecordOK` has the reason why nothing overtakes it: there is no record while a
create works, and no child without a record.

`GrammarProofs` proves `GrammarIsFollowed`: `Spec => []FollowsGrammar`. The reader
goes from left to right, the grammar quantifies over places of flags; the
invariant that connects them is `Begins`: in every reading of the line, the flags
among the first `k` arguments are those that the reader has found. A step of the
reader extends it by a flag (`OneMoreFlag`) or a flag and its value
(`OneMoreValue`), or finds that no reading goes on from there (`NoReading`); where
the flags end there is exactly one (`OneReading`). So a line has at most one
reading, which is what Go's parser returns. The induction is over the steps of
the reader.

### What stays with TLC

- `WaiterRecordsExit` and `EveryEndIsRecorded`: liveness under fairness is out of
  the prover's reach.
- The violated runs, which show what a hypothesis is for or where the
  documentation is wrong.
- That the variants break what they should: a theorem does not say that its
  property could fail.

Every invariant of the passing runs, and the refinement, is a theorem under the
hypotheses given above.

## Variants

Definitions introduced as a "Variant" are not part of any specification. They
state how an action would read with a plausible mistake in the code; with the
variant in its place the property named in `PROJECT.json` fails.

## Plan

1. Weaker hypotheses where the code allows them: which of the results for one
   command at a time hold for overlapping commands of different IDs, and which
   parts of `SInv` survive the reuse of IDs once no waiting start is left over.
2. The action properties that the violated runs state (`DetachedSurvives`,
   `DeletedStaysDeleted`, `DeleteRemovesCgroup`) as theorems under the hypotheses
   that make them true.

## Not modelled

- What a container without a mount namespace does to the host's mount table and
  to the root of the host's processes after it has made `/` private.
- Logging and JSON helpers: formatting of output, no state. `--debug` sets an
  environment variable that no code reads.
- The JSON decoder: `config.json` parses into a spec of `Specs`, or does not.
- Fields of the spec that no code uses: the user, capabilities, `root.readonly`,
  masked and read-only paths, the path of a namespace.
- The data string of a mount, which only the filesystem interprets.
- `IsOverlaySupported` with `splitLines` is an outcome of `CreateOverlay`, and
  `IsCgroupV2` only prints a warning.
- The example bundle's script, run by hand before `create`.
- Functions that no command calls: `ListContainers`, `ReadCgroupFile`,
  `WriteUserMappings`, `MountSysfs`, `MountTmpfs`, `MountDevPts`,
  `SetupDevSymlinks`, `CreateContainerBundle`, `ElapsedSince`.
- `reapChildren` has nothing to reap: before exec the init process has no
  children, and after it the handler is gone.
- The kernel's view of a control file: that `cgroup.subtree_control` is never
  written, so that controllers may be missing, is one of the reasons for which a
  write of `Bundle` is refused.
