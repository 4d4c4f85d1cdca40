------------------------ MODULE LifecycleRefinement ------------------------
(***************************************************************************)
(* Lifecycle implements OciLifecycle when commands are issued one at a time *)
(* and IDs are not reused; a waiting start still runs beside them, commands *)
(* may die and PIDs be recycled.                                            *)
(***************************************************************************)
EXTENDS Lifecycle

\* c has state.json of i open, and its write will be what a load finds.
Writes(c, i) == cmd[c].id = i /\ cmd[c].pc = "write" /\ cmd[c].linked

\* What the record of i says, or is about to say: the truncating open of a
\* save is where the new status takes effect, and a truncated record that no
\* command will write is lost.
AbstractStatus(i) ==
    LET s == json[i].status
        writers == {c \in Cmds : Writes(c, i)}
    IN  CASE s \in {"created", "running", "stopped"} -> s
          [] s \in {"nodir", "nofile"} -> "none"
          [] s = "empty" /\ writers # {} ->
                 cmd[CHOOSE c \in writers : TRUE].snap.status
          [] OTHER -> "lost"

\* A process that has been sent SIGKILL counts as ended, as long as a start
\* holds it.
AbstractProcess(i) ==
    IF \E p \in Pids : proc[p].id = i /\ Live(p) /\ ~proc[p].killed THEN "alive"
    ELSE IF \E c \in Cmds : cmd[c].id = i /\ cmd[c].child # NoPid THEN "ended"
    ELSE "none"

Oci == INSTANCE OciLifecycle
         WITH status  <- [i \in Ids |-> AbstractStatus(i)],
              process <- [i \in Ids |-> AbstractProcess(i)],
              deleted <- retired

\* Whatever the system calls of the commands do, seen through the records and
\* the processes it is a life of the kind the documentation draws.
ImplementsOciLifecycle == Oci!Spec

\* With foreground starts that do not die, the end of every container, also
\* of one that ends before its start has begun to wait, reaches its record.
EveryEndIsRecorded == Oci!EndIsRecorded
=============================================================================
