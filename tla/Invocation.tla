----------------------------- MODULE Invocation -----------------------------
(***************************************************************************)
(* An operator types command lines at a bundle: CommandLine turns a line    *)
(* into a request, Bundle carries out those of create and start.            *)
(***************************************************************************)
EXTENDS CommandLine, Bundle

CONSTANT Script     \* Script[k]: the lines that may be typed as the k-th

ASSUME ScriptAssumption == Script \in Seq(SUBSET Seq(STRING)) /\ Script # <<>>

VARIABLE typed      \* how many lines have been typed

vars == <<lineVars, bundleVars, typed>>

----------------------------------------------------------------------------
Init ==
    /\ \E l \in Script[1], r \in BOOLEAN :
         /\ line = l
         /\ asRoot = r
         /\ phase = IF l # <<>> /\ Head(l) = "init" THEN "init" ELSE "flags"
         /\ rest = l
    /\ sub = "global"
    /\ flags = Defaults.global
    /\ request = NoRequest
    /\ BundleInit
    /\ typed = 1

\* The next line, once the command before it has ended.
TypeNext ==
    /\ phase = "idle" /\ cmd = Idle
    /\ typed < Len(Script)
    /\ \E l \in Script[typed + 1] : Type(l, TRUE)
    /\ typed' = typed + 1
    /\ UNCHANGED bundleVars

Forget ==
    /\ phase' = "idle" /\ line' = <<>> /\ rest' = <<>>
    /\ sub' = "global" /\ flags' = <<>> /\ request' = NoRequest
    /\ UNCHANGED asRoot

\* The request goes to its command.  state, kill and delete, and requests
\* for another container, leave this bundle alone.
Run ==
    /\ phase = "run"
    /\ \/ request.op = "create" /\ request.id = Id /\ CreateBegin(request)
       \/ request.op = "start" /\ request.id = Id /\ StartBegin(request)
       \/ /\ request.op \notin {"create", "start"} \/ request.id # Id
          /\ UNCHANGED bundleVars
    /\ Forget
    /\ UNCHANGED typed

Exit == /\ phase \in {"usage", "error"}
        /\ Forget
        /\ UNCHANGED <<bundleVars, typed>>

Next ==
    \/ TypeNext
    \/ Parse /\ UNCHANGED <<bundleVars, typed>>
    \/ Run
    \/ Exit
    \/ Step /\ UNCHANGED <<lineVars, typed>>
    \/ /\ phase \in {"run", "idle"} /\ cmd = Idle
       /\ Edit \/ Populate
       /\ UNCHANGED <<lineVars, typed>>

Spec == Init /\ [][Next]_vars

----------------------------------------------------------------------------
\* Types.  A spec in use, by a command or by a child, has what the code will
\* dereference without looking: a process with arguments, and a root.
TypeOK ==
    LET complete == {s \in Specs : /\ s.process # Nil /\ s.root # Nil
                                   /\ s.process.args # <<>> /\ s.root.path # ""}
    IN  /\ phase \in {"idle", "init", "flags", "operands", "run", "usage", "error"}
        /\ sub \in DOMAIN Defaults
        /\ request.op \in Subcommands \cup {"none"}
        /\ IsSuffix(rest, line)
        /\ config \in Specs \cup {Nil}
        /\ limits # Nil => DOMAIN limits = ToSet(Files)
        /\ cmd.pc \in {"idle", "root", "cgroup", "save", "fork"} \cup ToSet(Files)
        /\ cmd # Idle => cmd.spec \in complete
        /\ child # Nil => child.spec \in complete
=============================================================================
