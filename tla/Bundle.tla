------------------------------- MODULE Bundle -------------------------------
(***************************************************************************)
(* What create and start make of a bundle: config.json and its validation   *)
(* (src/config/config.go), the root filesystem or the overlay directories   *)
(* (src/cmd/create.go, src/runtime/overlay.go), the resource limits         *)
(* (src/runtime/cgroup.go), and the configuration that the child gets       *)
(* (src/cmd/start.go, src/runtime/exec.go, src/runtime/namespace.go).       *)
(*                                                                         *)
(* config.json is read twice, by create and by start, and its owner may     *)
(* edit it between the two.  One container and one bundle, one command at a *)
(* time: Lifecycle has the rest.                                            *)
(***************************************************************************)
EXTENDS Integers, Sequences, SequencesExt

CONSTANTS
    Id, Dir,    \* the container, and the path of its bundle
    Specs,      \* what config.json may hold, when it can be parsed
    Nil,        \* a nil pointer, a missing file
    NoMax       \* the text "max" of a control file

\* The fields of a spec that the code reads.  A pointer may be nil, a period
\* cannot be negative, and a missing pids limit is zero.
IsInt(x) == x = Nil \/ x \in Int
IsNat(x) == x = Nil \/ x \in Nat

IsResources(r) ==
    r # Nil =>
        /\ r.cpu # Nil => IsInt(r.cpu.quota) /\ IsNat(r.cpu.period)
        /\ r.memory # Nil => IsInt(r.memory.limit)
        /\ r.pids # Nil => r.pids.limit \in Int

IsLinux(l) == l # Nil => l.namespaces \in Seq(STRING) /\ IsResources(l.resources)

IsSpec(s) ==
    /\ s.ociVersion \in STRING
    /\ s.process # Nil => s.process.args \in Seq(STRING)
    /\ s.root # Nil => s.root \in [abs : BOOLEAN, path : STRING]
    /\ IsLinux(s.linux)

ASSUME SpecAssumption == \A s \in Specs : IsSpec(s)

VARIABLES
    config,     \* config.json
    dirs,       \* the paths that exist
    limits,     \* limits[f]: the text of control file f, Nil without a cgroup
    record,     \* state.json: status, bundle and annotations, or Nil
    cmd,        \* the command that runs
    child,      \* the InitConfig of the process that start has forked, and its
                \* clone flags
    verified    \* history: what create has checked, and the limits asked of it

bundleVars == <<config, dirs, limits, record, cmd, child, verified>>

Files  == <<"cpu.max", "memory.max", "pids.max">>
Layers == {"lower", "upper", "work", "merged"}

Layer(d) == <<Dir, "overlay", d>>

\* A root path is absolute, or relative to the bundle.
RootFSPath(s, dir) == IF s.root.abs THEN <<s.root.path>> ELSE <<dir, s.root.path>>

\* What state.json can keep of the bundle.
Roots == {RootFSPath(s, Dir) : s \in {t \in Specs : t.root # Nil}} \cup {Layer("merged")}

Records == [status : {"created", "running"}, bundle : {Dir}, rootfs : Roots,
            useOverlay : BOOLEAN]

\* Nil is none of the values that are compared with it.
ASSUME NilAssumption ==
    /\ Nil \notin Int \cup {NoMax}
    /\ Nil \notin (Int \cup {NoMax}) \X (Int \cup {NoMax})
    /\ Nil \notin Records

Idle == [pc |-> "idle", overlay |-> FALSE, spec |-> Nil, root |-> <<>>]

\* Variant that does not look into process and root.
LoadSpecLax(dir) ==
    IF dir = Dir /\ config # Nil
    THEN {s \in {config} : s.ociVersion # "" /\ s.process # Nil /\ s.root # Nil}
    ELSE {}

\* LoadSpec with validateSpec: the spec, as a set that is empty on an error.
LoadSpec(dir) ==
    IF dir = Dir /\ config # Nil
    THEN {s \in {config} :
            /\ s.ociVersion # ""
            /\ s.process # Nil /\ s.process.args # <<>>
            /\ s.root # Nil /\ s.root.path # ""}
    ELSE {}

Resources(s) == IF s.linux = Nil THEN Nil ELSE s.linux.resources

----------------------------------------------------------------------------
BundleInit ==
    /\ config = Nil
    /\ dirs = {}
    /\ limits = Nil
    /\ record = Nil
    /\ cmd = Idle
    /\ child = Nil
    /\ verified = Nil

\* The owner of the bundle edits config.json, or makes a root filesystem or
\* an image.  A command reads config.json in one step: between its other
\* steps an edit would change nothing that it sees.
Edit == /\ config' \in Specs \cup {Nil}
        /\ UNCHANGED <<dirs, limits, record, cmd, child, verified>>

Populate == /\ \E s \in LoadSpec(Dir) :
                 dirs' \in {dirs \cup {RootFSPath(s, Dir)}, dirs \cup {Layer("lower")}}
            /\ UNCHANGED <<config, limits, record, cmd, child, verified>>

----------------------------------------------------------------------------
End == cmd' = Idle

CreateBegin(r) ==
    /\ IF record # Nil THEN End
       ELSE IF LoadSpec(r.flags.bundle) = {} THEN End
       ELSE \E s \in LoadSpec(r.flags.bundle) :
              cmd' = [pc |-> "root", overlay |-> r.flags.overlay, spec |-> s,
                      root |-> <<>>]
    /\ UNCHANGED <<config, dirs, limits, record, child, verified>>

\* The root that create hands on, once it has seen that it is there.
Verified(path) ==
    /\ cmd' = [cmd EXCEPT !.pc = "cgroup", !.root = path]
    /\ verified' = [root |-> path, overlay |-> cmd.overlay,
                    resources |-> Resources(cmd.spec)]

\* os.Stat of the root filesystem.
CreateRootFS ==
    /\ cmd.pc = "root" /\ ~cmd.overlay
    /\ IF RootFSPath(cmd.spec, Dir) \in dirs
       THEN Verified(RootFSPath(cmd.spec, Dir))
       ELSE End /\ UNCHANGED verified
    /\ UNCHANGED <<config, dirs, limits, record, child>>

\* PrepareOverlayDirs makes three directories, unless one of them fails.
Prepared(n) == {Layer(<<"upper", "work", "merged">>[k]) : k \in 1..n}

\* What create checks as the lower layer.
Lower == IF Layer("lower") \in dirs THEN Layer("lower")
         ELSE RootFSPath(cmd.spec, Dir)

\* Without IsOverlaySupported nothing is made; what has been made stays when
\* the lower layer is missing in the end.
CreateOverlay ==
    /\ cmd.pc = "root" /\ cmd.overlay
    /\ \E n \in 0..3 :
         /\ dirs' = dirs \cup Prepared(n)
         /\ IF n = 3 /\ Lower \in dirs
            THEN Verified(Layer("merged"))
            ELSE End /\ UNCHANGED verified
    /\ UNCHANGED <<config, limits, record, child>>

----------------------------------------------------------------------------
(* SetupCgroup *)

\* A limit that is missing, zero or negative is no limit.
Positive(p, default) == IF p # Nil /\ p > 0 THEN p ELSE default

\* What is written into control file f, Nil if nothing is.
Text(r, f) ==
    CASE r = Nil -> Nil
      [] r # Nil /\ f = "cpu.max" ->
             IF r.cpu = Nil THEN Nil
             ELSE <<Positive(r.cpu.quota, NoMax), Positive(r.cpu.period, 100000)>>
      [] r # Nil /\ f = "memory.max" ->
             IF r.memory = Nil THEN Nil
             ELSE IF r.memory.limit = Nil THEN Nil
             ELSE Positive(r.memory.limit, NoMax)
      [] r # Nil /\ f = "pids.max" ->
             IF r.pids = Nil THEN Nil ELSE Positive(r.pids.limit, NoMax)

\* The directory of an earlier create that failed will do, with its limits.
CreateCgroup ==
    /\ cmd.pc = "cgroup"
    /\ \/ /\ limits' = IF limits # Nil THEN limits
                       ELSE [f \in ToSet(Files) |->
                               IF f = "cpu.max" THEN <<NoMax, 100000>> ELSE NoMax]
          /\ cmd' = [cmd EXCEPT !.pc = Files[1]]
       \/ End /\ UNCHANGED limits
    /\ UNCHANGED <<config, dirs, record, child, verified>>

After(f) == CASE f = "cpu.max" -> "memory.max"
              [] f = "memory.max" -> "pids.max"
              [] f = "pids.max" -> "save"

\* Variant that reports a refused write and goes on.
WriteLimitLax ==
    /\ cmd.pc \in ToSet(Files)
    /\ LET text == Text(Resources(cmd.spec), cmd.pc)
       IN  limits' \in {limits, IF text = Nil THEN limits
                                ELSE [limits EXCEPT ![cmd.pc] = text]}
    /\ cmd' = [cmd EXCEPT !.pc = After(@)]
    /\ UNCHANGED <<config, dirs, record, child, verified>>

\* writeCgroupFile: the kernel may refuse a text, and create gives up.
WriteLimit ==
    /\ cmd.pc \in ToSet(Files)
    /\ LET text == Text(Resources(cmd.spec), cmd.pc)
       IN  \/ /\ limits' = IF text = Nil THEN limits
                           ELSE [limits EXCEPT ![cmd.pc] = text]
              /\ cmd' = [cmd EXCEPT !.pc = After(@)]
           \/ text # Nil /\ End /\ UNCHANGED limits
    /\ UNCHANGED <<config, dirs, record, child, verified>>

CreateSave ==
    /\ cmd.pc = "save"
    /\ record' \in {record, [status |-> "created", bundle |-> Dir,
                             rootfs |-> cmd.root, useOverlay |-> cmd.overlay]}
    /\ End
    /\ UNCHANGED <<config, dirs, limits, child, verified>>

----------------------------------------------------------------------------
\* The second load of config.json.
StartBegin(r) ==
    /\ IF record = Nil THEN End
       ELSE IF record.status # "created" \/ LoadSpec(record.bundle) = {} THEN End
       ELSE \E s \in LoadSpec(record.bundle) :
              cmd' = [Idle EXCEPT !.pc = "fork", !.spec = s]
    /\ UNCHANGED <<config, dirs, limits, record, child, verified>>

Namespaces == {"pid", "mount", "uts", "ipc", "network", "user"}

\* The clone flags; a type that is unknown, or misspelled, is ignored.
NamespaceFlags(namespaces) == ToSet(namespaces) \cap Namespaces

\* Variant that takes the root from the spec.
EffectiveRootOfSpec == RootFSPath(cmd.spec, record.bundle)

\* The annotation of create comes before what the spec says now.
EffectiveRoot ==
    IF record.rootfs # <<>> THEN record.rootfs
    ELSE RootFSPath(cmd.spec, record.bundle)

\* StartContainer with the InitConfig, and the record that says "running":
\* the fork may fail, or the save after it.
StartFork ==
    /\ cmd.pc = "fork"
    /\ \/ /\ child' = [root |-> EffectiveRoot, overlay |-> record.useOverlay,
                       spec |-> cmd.spec,
                       clone |-> IF cmd.spec.linux = Nil THEN {}
                                 ELSE NamespaceFlags(cmd.spec.linux.namespaces)]
          /\ record' \in {record, [record EXCEPT !.status = "running"]}
       \/ UNCHANGED <<child, record>>
    /\ End
    /\ UNCHANGED <<config, dirs, limits, verified>>

Step == CreateRootFS \/ CreateOverlay \/ CreateCgroup \/ WriteLimit
        \/ CreateSave \/ StartFork

----------------------------------------------------------------------------
(* Properties. *)

\* A limit of n > 0 that the spec asked for when the container was created
\* is the one in force for as long as its record exists, also when earlier
\* creates of it failed halfway and left their limits, and whatever
\* config.json says by now; and no control file is ever given zero or less
\* (cgroup.go:70-111).
LimitsInForce ==
    /\ record # Nil /\ verified.resources # Nil =>
         LET r == verified.resources IN
         /\ r.cpu # Nil =>
              /\ r.cpu.quota \in Nat \ {0} => limits["cpu.max"][1] = r.cpu.quota
              /\ r.cpu.period \in Nat \ {0} => limits["cpu.max"][2] = r.cpu.period
         /\ r.memory # Nil /\ r.memory.limit \in Nat \ {0}
              => limits["memory.max"] = r.memory.limit
         /\ r.pids # Nil /\ r.pids.limit \in Nat \ {0}
              => limits["pids.max"] = r.pids.limit
    /\ limits # Nil =>
         {limits["cpu.max"][1], limits["cpu.max"][2], limits["memory.max"],
          limits["pids.max"]} \subseteq {NoMax} \cup (Nat \ {0})

\* The root of the container's process is the one that create has verified,
\* merged overlay or root filesystem, although start reads config.json again
\* and finds another root there (start.go:61-72).
RootAsVerified ==
    child # Nil =>
        /\ child.root = verified.root
        /\ child.overlay = verified.overlay
        /\ child.overlay <=> child.root = Layer("merged")
=============================================================================
