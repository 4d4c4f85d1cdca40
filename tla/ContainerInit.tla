--------------------------- MODULE ContainerInit ---------------------------
(***************************************************************************)
(* What the re-executed runtime does between the fork of `start` and the    *)
(* exec of the user's program: ContainerInit (src/cmd/init.go) and          *)
(* RunInitProcess (src/runtime/exec.go) with the mounts they make           *)
(* (src/runtime/mount.go, overlay.go).                                      *)
(*                                                                         *)
(* Several containers may be started from one bundle at the same time.      *)
(* Those with a mount namespace have mount tables of their own, but the     *)
(* root directory is shared, and with it the directory .pivot_old that each *)
(* of them creates and removes.  A container without a mount namespace does *)
(* it all on the host's mount table: it is followed up to its first change  *)
(* of that table, and after it for what it may do to .pivot_old.            *)
(* A system call fails when what it needs is missing and, with Faults, at   *)
(* any time.                                                                *)
(***************************************************************************)

EXTENDS Integers, FiniteSets, Sequences, SequencesExt

CONSTANTS
    Inits,      \* init processes started from the same bundle
    MountLists, \* what spec.Mounts may be: destinations, as paths, and options
    Lower,      \* Lower[o]: option o in lower case, of those that are not
    Faults      \* system calls may fail for reasons outside the model

ASSUME FaultAssumption == Faults \in BOOLEAN

ASSUME MountAssumption ==
    MountLists \subseteq Seq([dest : Seq(STRING), options : Seq(STRING)])

VARIABLES
    mounts,     \* spec.Mounts of the bundle
    conf,       \* conf[n]: what n's spec and its create command ask for
    lower,      \* <bundle>/overlay/lower: "absent", "empty" or "image"
    pivotDir,   \* pivotDir[r]: the directory .pivot_old exists in root r
    host,       \* what of the host the containers have changed
    init        \* init[n]: the process

vars == <<mounts, conf, lower, pivotDir, host, init>>

Confs == [overlay : BOOLEAN, mountNs : BOOLEAN, pidNs : BOOLEAN]
Roots == {"rootfs", "merged"}

\* Where something may be mounted, seen from the container's root.
Places == {<<>>, <<"proc">>} \cup {m.dest : m \in Range(mounts)}

\* root is where "/" of the process is: on the host, at the container's root
\* after pivot_root ("new"), there after chroot only ("jail"), or after both at
\* a directory inside the container's root ("inner").  old says that the host's
\* root is mounted on .pivot_old, tree has the visible mounts at and below the
\* new root, next is the entry of spec.Mounts that is to be mounted.
Procs == [pc : {"private", "overlay", "proc", "pivotdir", "selfbind", "pivot",
                "chdir", "unmount", "rmdir", "chroot", "mounts", "exec",
                "user", "shared", "dead"},
          root : {"host", "new", "jail", "inner"},
          old : BOOLEAN, private : BOOLEAN,
          tree : SUBSET [at : Places, ro : BOOLEAN],
          next : 1..(Len(mounts) + 1), termed : BOOLEAN]

\* A mount at path d hides what was mounted there or below.
Mounted(tree, d, ro) ==
    {t \in tree : ~IsPrefix(d, t.at)} \cup {[at |-> d, ro |-> ro]}

\* A remount changes the mount at d, and hides none.
Remounted(tree, d, ro) ==
    {t \in tree : t.at # d} \cup {[at |-> d, ro |-> ro]}

RootFS(n) == IF conf[n].overlay THEN "merged" ELSE "rootfs"

At(n, pc) == init[n].pc = pc

Goto(n, pc) == init' = [init EXCEPT ![n].pc = pc]

\* The process ends, and its mount namespace with it.
Exit(n) == init' = [init EXCEPT ![n].pc = "dead", ![n].old = FALSE,
                                ![n].tree = {}]

\* What a mount in n's own namespace changes on the host: nothing, once / is
\* private in it.
HostAfterMount(n) ==
    IF init[n].private THEN host ELSE host \cup {"mounts"}

----------------------------------------------------------------------------
\* Overlay containers of one bundle would share the upper and work layers,
\* which the kernel leaves undefined: at most one of the containers has one.
Init ==
    /\ mounts \in MountLists
    /\ conf \in [Inits -> Confs]
    /\ \A m, n \in Inits : conf[m].overlay /\ conf[n].overlay => m = n
    /\ lower \in {"absent", "empty", "image"}
    /\ pivotDir = [r \in Roots |-> FALSE]
    /\ host = {}
    /\ init = [n \in Inits |->
                 [pc |-> "private", root |-> "host", old |-> FALSE,
                  private |-> FALSE, tree |-> {}, next |-> 1, termed |-> FALSE]]

AfterPrivate(n) ==
    IF ~conf[n].mountNs THEN "shared"
    ELSE IF conf[n].overlay THEN "overlay"
    ELSE "proc"

\* Variant: an error of mount(2) is reported and the start goes on.
MakeRootPrivateLax(n) ==
    /\ At(n, "private")
    /\ \E ok \in BOOLEAN :
         init' = [init EXCEPT ![n].private = ok, ![n].pc = AfterPrivate(n)]
    /\ host' = IF conf[n].mountNs THEN host ELSE host \cup {"mounts"}
    /\ UNCHANGED <<mounts, conf, lower, pivotDir>>

\* Without a mount namespace it is the host's / that becomes private.
MakeRootPrivate(n) ==
    /\ At(n, "private")
    /\ \/ /\ init' = [init EXCEPT ![n].private = TRUE, ![n].pc = AfterPrivate(n)]
          /\ host' = IF conf[n].mountNs THEN host ELSE host \cup {"mounts"}
       \/ Faults /\ Exit(n) /\ UNCHANGED host
    /\ UNCHANGED <<mounts, conf, lower, pivotDir>>

\* The lower layer is always <bundle>/overlay/lower, also when create found
\* it missing and checked the rootfs instead.
MountOverlay(n) ==
    /\ At(n, "overlay")
    /\ \/ /\ lower # "absent"
          /\ init' = [init EXCEPT ![n].pc = "proc",
                                  ![n].tree = Mounted(@, <<>>, FALSE)]
          /\ host' = HostAfterMount(n)
       \/ (Faults \/ lower = "absent") /\ Exit(n) /\ UNCHANGED host
    /\ UNCHANGED <<mounts, conf, lower, pivotDir>>

MountProc(n) ==
    /\ At(n, "proc")
    /\ \/ /\ init' = [init EXCEPT ![n].pc = "pivotdir",
                                  ![n].tree = Mounted(@, <<"proc">>, FALSE)]
          /\ host' = HostAfterMount(n)
       \/ Faults /\ Exit(n) /\ UNCHANGED host
    /\ UNCHANGED <<mounts, conf, lower, pivotDir>>

----------------------------------------------------------------------------
(* PivotRoot, one system call at a time; whichever fails, RunInitProcess    *)
(* falls back to chroot. *)

PivotMkdir(n) ==
    /\ At(n, "pivotdir")
    /\ \/ /\ pivotDir' = [pivotDir EXCEPT ![RootFS(n)] = TRUE]
          /\ Goto(n, "selfbind")
       \/ Faults /\ Goto(n, "chroot") /\ UNCHANGED pivotDir
    /\ UNCHANGED <<mounts, conf, lower, host>>

\* Variant without MS_REC: the mounts below the new root stay behind.
SelfBindFlat(n) ==
    /\ At(n, "selfbind")
    /\ \/ /\ init' = [init EXCEPT ![n].pc = "pivot",
                                  ![n].tree = {t \in @ : t.at = <<>>}]
          /\ host' = HostAfterMount(n)
       \/ Goto(n, "chroot") /\ UNCHANGED host
    /\ UNCHANGED <<mounts, conf, lower, pivotDir>>

\* MS_BIND | MS_REC takes the mounts below the new root along.
SelfBind(n) ==
    /\ At(n, "selfbind")
    /\ \/ Goto(n, "pivot") /\ host' = HostAfterMount(n)
       \/ Faults /\ Goto(n, "chroot") /\ UNCHANGED host
    /\ UNCHANGED <<mounts, conf, lower, pivotDir>>

\* put_old must still be there: another container may have removed it.
Pivot(n) ==
    /\ At(n, "pivot")
    /\ \/ /\ pivotDir[RootFS(n)]
          /\ init' = [init EXCEPT ![n].pc = "chdir", ![n].root = "new",
                                  ![n].old = TRUE]
          /\ host' = HostAfterMount(n)
       \/ /\ Faults \/ ~pivotDir[RootFS(n)]
          /\ Goto(n, "chroot")
          /\ UNCHANGED host
    /\ UNCHANGED <<mounts, conf, lower, pivotDir>>

\* Variant that leaves the old root where it is.
ChdirDone(n) ==
    /\ At(n, "chdir")
    /\ Goto(n, "mounts") \/ Goto(n, "chroot")
    /\ UNCHANGED <<mounts, conf, lower, pivotDir, host>>

Chdir(n) ==
    /\ At(n, "chdir")
    /\ Goto(n, "unmount") \/ (Faults /\ Goto(n, "chroot"))
    /\ UNCHANGED <<mounts, conf, lower, pivotDir, host>>

\* ENOENT without the directory, EINVAL without a mount on it.
UnmountOld(n) ==
    /\ At(n, "unmount")
    /\ \/ /\ pivotDir[RootFS(n)] /\ init[n].old
          /\ init' = [init EXCEPT ![n].pc = "rmdir", ![n].old = FALSE]
       \/ /\ Faults \/ ~pivotDir[RootFS(n)] \/ ~init[n].old
          /\ Goto(n, "chroot")
    /\ UNCHANGED <<mounts, conf, lower, pivotDir, host>>

\* Variant that takes a failing rmdir for success.
RemoveOldLax(n) ==
    /\ At(n, "rmdir")
    /\ Goto(n, "mounts")
    /\ UNCHANGED <<mounts, conf, lower, pivotDir, host>>

\* An rmdir of .pivot_old in root r also detaches what other mount namespaces
\* have mounted there.
Detached(r) ==
    [m \in Inits |-> IF RootFS(m) = r THEN [init[m] EXCEPT !.old = FALSE]
                     ELSE init[m]]

\* EBUSY if n itself has something mounted there, ENOENT without the directory.
RemoveOld(n) ==
    /\ At(n, "rmdir")
    /\ \/ /\ pivotDir[RootFS(n)] /\ ~init[n].old
          /\ pivotDir' = [pivotDir EXCEPT ![RootFS(n)] = FALSE]
          /\ init' = [Detached(RootFS(n)) EXCEPT ![n].pc = "mounts"]
       \/ /\ Faults \/ ~pivotDir[RootFS(n)] \/ init[n].old
          /\ Goto(n, "chroot")
          /\ UNCHANGED pivotDir
    /\ UNCHANGED <<mounts, conf, lower, host>>

\* cfg.RootFS is a path of the host, and is looked up below the current root.
\* After pivot_root that is the container's, where the image may have a
\* directory at the same path: none of the mounts so far is visible from it.
FallbackChroot(n) ==
    /\ At(n, "chroot")
    /\ \/ /\ init[n].root = "host"
          /\ init' = [init EXCEPT ![n].pc = "mounts", ![n].root = "jail"]
       \/ /\ init[n].root = "new"
          /\ init' = [init EXCEPT ![n].pc = "mounts", ![n].root = "inner",
                                  ![n].tree = {}]
       \/ (Faults \/ init[n].root # "host") /\ Exit(n)
    /\ UNCHANGED <<mounts, conf, lower, pivotDir, host>>

----------------------------------------------------------------------------
\* The rest of RunInitProcess, and the program, of a container without a mount
\* namespace.  Its mounts, its pivot_root and its unmount change the mount
\* table and the root of the host's processes, which are not modelled (nothing
\* checks the precondition of mount.go:183).  The containers with a mount
\* namespace notice only that .pivot_old comes and goes.
RunOnHost(n) ==
    /\ At(n, "shared")
    /\ \/ /\ pivotDir' = [pivotDir EXCEPT ![RootFS(n)] = TRUE]
          /\ UNCHANGED init
       \/ /\ pivotDir' = [pivotDir EXCEPT ![RootFS(n)] = FALSE]
          /\ init' = Detached(RootFS(n))
    /\ UNCHANGED <<mounts, conf, lower, host>>

----------------------------------------------------------------------------
(* MountSpecMounts, one entry at a time. *)

\* The option strings that stand for mount(2) flags; any other one is data for
\* the filesystem.
KnownFlags ==
    [ro |-> {"rdonly"}, rw |-> {}, bind |-> {"bind"}, rbind |-> {"bind", "rec"},
     nosuid |-> {"nosuid"}, nodev |-> {"nodev"}, noexec |-> {"noexec"},
     sync |-> {"synchronous"}, dirsync |-> {"dirsync"},
     remount |-> {"remount"}, mand |-> {"mandlock"},
     noatime |-> {"noatime"}, nodiratime |-> {"nodiratime"},
     relatime |-> {"relatime"}, strictatime |-> {"strictatime"},
     shared |-> {"shared"}, slave |-> {"slave"}, private |-> {"private"},
     unbindable |-> {"unbindable"}]

\* What is in lower case stays as it is.
ASSUME LowerAssumption == DOMAIN Lower \cap (DOMAIN KnownFlags \cup Range(Lower)) = {}

ToLower(o) == IF o \in DOMAIN Lower THEN Lower[o] ELSE o

\* Variant: an option takes the place of the flags before it.
WithOnlyOption(flags, o) ==
    IF ToLower(o) \in DOMAIN KnownFlags THEN KnownFlags[ToLower(o)] ELSE flags

WithOption(flags, o) ==
    IF ToLower(o) \in DOMAIN KnownFlags THEN flags \cup KnownFlags[ToLower(o)]
    ELSE flags

ParseMountOptions(options) == FoldLeft(WithOption, {}, options)

Propagation == {"shared", "slave", "private", "unbindable"}

\* What mount(2) makes of flags, in the order in which it looks at them.
Kind(flags) ==
    IF "remount" \in flags THEN "remount"
    ELSE IF "bind" \in flags THEN "bind"
    ELSE IF flags \cap Propagation # {} THEN "propagation"
    ELSE "new"

Entry(n)     == mounts[init[n].next]
EntryKind(n) == Kind(ParseMountOptions(Entry(n).options))
EntryIsRO(n) == "rdonly" \in ParseMountOptions(Entry(n).options)

\* RunInitProcess has mounted /proc by itself, and skips its entry.
Mounting(n, kind) ==
    /\ At(n, "mounts") /\ init[n].next <= Len(mounts)
    /\ Entry(n).dest # <<"proc">> /\ EntryKind(n) = kind

\* There is a mount at the destination.  The self-bind has put one at the root,
\* which a directory further inside does not have.
HasTarget(n) ==
    \/ \E t \in init[n].tree : t.at = Entry(n).dest
    \/ Entry(n).dest = <<>> /\ init[n].root # "inner"

\* applyMount succeeds, and leaves these mounts below the root.
Applies(n, tree) ==
    /\ init' = [init EXCEPT ![n].tree = tree, ![n].next = @ + 1]
    /\ host' = HostAfterMount(n)
    /\ UNCHANGED <<mounts, conf, lower, pivotDir>>

Refused(n) == Exit(n) /\ UNCHANGED <<mounts, conf, lower, pivotDir, host>>

MountNew(n) ==
    /\ Mounting(n, "new")
    /\ \/ Applies(n, Mounted(init[n].tree, Entry(n).dest, EntryIsRO(n)))
       \/ Faults /\ Refused(n)

\* The source is looked up below the new root, where it may be missing, and
\* the kernel ignores ro in a bind mount.
MountBind(n) ==
    /\ Mounting(n, "bind")
    /\ \/ Applies(n, Mounted(init[n].tree, Entry(n).dest, FALSE))
       \/ Refused(n)

\* A remount needs a mount at its destination.
MountAgain(n) ==
    /\ Mounting(n, "remount")
    /\ \/ /\ HasTarget(n)
          /\ Applies(n, Remounted(init[n].tree, Entry(n).dest, EntryIsRO(n)))
       \/ (Faults \/ ~HasTarget(n)) /\ Refused(n)

\* So does a change of the propagation, to one kind; some kernels refuse any
\* other flag beside it.  The mount stays as it is.
MountPropagation(n) ==
    /\ Mounting(n, "propagation")
    /\ LET flags == ParseMountOptions(Entry(n).options)
           valid == HasTarget(n) /\ Cardinality(flags \cap Propagation) = 1
       IN  \/ /\ valid
              /\ init' = [init EXCEPT ![n].next = @ + 1]
              /\ UNCHANGED <<mounts, conf, lower, pivotDir, host>>
           \/ /\ Faults \/ ~valid \/ Cardinality(flags) > 1
              /\ Refused(n)

\* Variant that takes the entry of /proc out of the list it is walking over:
\* the next one is passed over, or the list overrun.
MountNothingPassing(n) ==
    /\ At(n, "mounts")
    /\ IF init[n].next > Len(mounts) THEN Goto(n, "exec")
       ELSE /\ Entry(n).dest = <<"proc">>
            /\ init' = [init EXCEPT ![n].next = @ + 2]
    /\ UNCHANGED <<mounts, conf, lower, pivotDir, host>>

\* The entry of /proc, or the end of the list.
MountNothing(n) ==
    /\ At(n, "mounts")
    /\ IF init[n].next > Len(mounts) THEN Goto(n, "exec")
       ELSE /\ Entry(n).dest = <<"proc">>
            /\ init' = [init EXCEPT ![n].next = @ + 1]
    /\ UNCHANGED <<mounts, conf, lower, pivotDir, host>>

MountSpec(n) ==
    \/ MountNew(n) \/ MountBind(n) \/ MountAgain(n) \/ MountPropagation(n)
    \/ MountNothing(n)

\* An overlay over an empty lower layer has no program to run.
HasProgram(n) == conf[n].overlay => lower = "image"

\* Nor need a directory inside the image have one.
MayLackProgram(n) == ~HasProgram(n) \/ init[n].root = "inner"

\* Hostname, working directory, lookup and exec(2).
Exec(n) ==
    /\ At(n, "exec")
    /\ \/ HasProgram(n) /\ Goto(n, "user")
       \/ (Faults \/ MayLackProgram(n)) /\ Exit(n)
    /\ UNCHANGED <<mounts, conf, lower, pivotDir, host>>

----------------------------------------------------------------------------
\* SIGTERM, SIGINT or SIGHUP arrives.  Until exec(2) a handler runs, and
\* kill(-1) reaches nobody from PID 1 of a PID namespace, but every process
\* of the host without one - the waiting start too, whose end is the
\* container's (Pdeathsig).  exec(2) resets the handlers to the default
\* action, which the kernel does not apply to PID 1.  A container on the host's
\* mount table may be on either side of its exec(2).
Terminate(n) ==
    /\ ~At(n, "dead") /\ ~init[n].termed
    /\ IF conf[n].pidNs
       THEN init' = [init EXCEPT ![n].termed = TRUE] /\ UNCHANGED host
       ELSE /\ init' = [init EXCEPT ![n].termed = TRUE, ![n].pc = "dead",
                                    ![n].old = FALSE, ![n].tree = {}]
            /\ \/ init[n].pc \in {"user", "shared"} /\ UNCHANGED host
               \/ ~At(n, "user") /\ host' = host \cup {"signal"}
    /\ UNCHANGED <<mounts, conf, lower, pivotDir>>

RunInitProcess(n) ==
    \/ MakeRootPrivate(n) \/ MountOverlay(n) \/ MountProc(n)
    \/ PivotMkdir(n) \/ SelfBind(n) \/ Pivot(n) \/ Chdir(n)
    \/ UnmountOld(n) \/ RemoveOld(n) \/ FallbackChroot(n)
    \/ MountSpec(n) \/ Exec(n) \/ RunOnHost(n)

\* The user's program ends, or something before it on the host's mount table.
UserExit(n) ==
    /\ init[n].pc \in {"user", "shared"}
    /\ Exit(n)
    /\ UNCHANGED <<mounts, conf, lower, pivotDir, host>>

Next == \E n \in Inits : RunInitProcess(n) \/ Terminate(n) \/ UserExit(n)

Spec == Init /\ [][Next]_vars

\* The init process never blocks; the user's program need not end.
FairSpec == Spec /\ \A n \in Inits : WF_vars(RunInitProcess(n))

----------------------------------------------------------------------------
(* Properties. *)

\* Types, and what old means: only a process that has pivoted can have the
\* old root mounted, on a directory that exists.
TypeOK ==
    /\ conf \in [Inits -> Confs]
    /\ lower \in {"absent", "empty", "image"}
    /\ pivotDir \in [Roots -> BOOLEAN]
    /\ host \subseteq {"mounts", "signal"}
    /\ init \in [Inits -> Procs]
    /\ \A n \in Inits :
         init[n].old => init[n].root \in {"new", "inner"} /\ pivotDir[RootFS(n)]

\* The program of a container with a mount namespace never runs on the host's
\* root, and where pivot_root has made its root, the host's is no longer
\* mounted in it (mount.go:179-181), whatever failed on the way and whatever
\* other containers did to .pivot_old.  There is one exception: the fallback
\* may have found its path inside the pivoted root, and then the host's root
\* may still be mounted, outside of that jail.
Inside ==
    \A n \in Inits : At(n, "user") =>
        init[n].root # "host" /\ (init[n].old => init[n].root = "inner")

\* No entry after the k-th is mounted over it.
OnTop(k) == \A j \in (k + 1)..Len(mounts) : ~IsPrefix(mounts[j].dest, mounts[k].dest)

\* The program of a container with a mount namespace sees the /proc that was
\* mounted before the root was changed, the overlay below it, and every mount
\* of its spec that no later one covers.  In a directory inside the pivoted
\* root it sees the mounts of its spec only, and no /proc among them.
MountsVisible ==
    \A n \in Inits : At(n, "user") =>
        LET seen  == {t.at : t \in init[n].tree}
            inner == init[n].root = "inner"
        IN  /\ ~inner => <<"proc">> \in seen
            /\ ~inner /\ conf[n].overlay => <<>> \in seen
            /\ \A k \in DOMAIN mounts :
                 OnTop(k) /\ (inner => mounts[k].dest # <<"proc">>)
                   => mounts[k].dest \in seen

\* A filesystem that the spec mounts with "ro" among its options, in any
\* place and in capitals or not, is read-only for the user's program, and so is
\* one that is remounted with it.  It is not so for bind mounts.
ReadonlyHonoured ==
    \A n \in Inits, k \in DOMAIN mounts :
        LET options == {ToLower(o) : o \in Range(mounts[k].options)} IN
        /\ At(n, "user") /\ OnTop(k) /\ mounts[k].dest # <<"proc">>
        /\ "ro" \in options
        /\ options \cap ({"bind", "rbind"} \cup Propagation) = {}
        => [at |-> mounts[k].dest, ro |-> TRUE] \in init[n].tree

\* When all the containers of a root run in it by pivot_root, none of them
\* has left a .pivot_old behind in the bundle.
PivotDirRemoved ==
    \A r \in Roots :
        (\A n \in Inits : RootFS(n) = r => At(n, "user") /\ init[n].root = "new")
        /\ (\E n \in Inits : RootFS(n) = r)
            => ~pivotDir[r]

\* The host's mount table is left alone by containers that have a mount
\* namespace (mount.go:34-36): a failure to make / private stops the start.
HostMountsUntouched ==
    "mounts" \in host => \E n \in Inits : ~conf[n].mountNs

----------------------------------------------------------------------------
(* What the comments of the source say and the code does not do. *)

\* init.go:28-29: the handlers are there "so the container can be stopped
\* cleanly": a container that has been sent SIGTERM ends.
TermStops ==
    \A n \in Inits : init[n].termed /\ conf[n].mountNs ~> At(n, "dead")
=============================================================================
