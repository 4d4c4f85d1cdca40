---------------------------- MODULE OciLifecycle ----------------------------
(***************************************************************************)
(* The life of a container as the commands of myruntime promise it (the     *)
(* status diagram of src/README.md, the package comment of src/cmd/root.go  *)
(* and the statuses of src/runtime/state.go): created once, started from    *)
(* "created" only, stopped only when its process is gone, deleted only      *)
(* then, and for good.                                                      *)
(*                                                                         *)
(* There are no files here, no PIDs and no commands: a change of status is  *)
(* one step.  Two departures from the diagram are part of what the program  *)
(* can do, and are actions of their own: a record is lost when the command  *)
(* that rewrites it dies, and a container that was deleted by force         *)
(* reappears as stopped when the start that waited for it saves last.       *)
(***************************************************************************)

CONSTANT Ids

VARIABLES
    status,     \* status[i]: what a command that loads the record finds
    process,    \* process[i]: "none", "alive", or "ended" and not yet let go
    deleted     \* IDs that have been deleted

vars == <<status, process, deleted>>

Statuses  == {"none", "created", "running", "stopped", "lost"}
Processes == {"none", "alive", "ended"}

Becomes(i, s) == /\ status' = [status EXCEPT ![i] = s]
                 /\ UNCHANGED <<process, deleted>>

Init ==
    /\ status = [i \in Ids |-> "none"]
    /\ process = [i \in Ids |-> "none"]
    /\ deleted = {}

\* An ID has one life.
Create(i) == /\ status[i] = "none" /\ process[i] = "none" /\ i \notin deleted
             /\ Becomes(i, "created")

\* The process comes before the status, and may end before it.
Fork(i) == /\ status[i] = "created" /\ process[i] = "none"
           /\ process' = [process EXCEPT ![i] = "alive"]
           /\ UNCHANGED <<status, deleted>>

Start(i) == /\ status[i] = "created" /\ process[i] # "none"
            /\ Becomes(i, "running")

\* The process exits, or is doomed by a SIGKILL.
End(i) == /\ process[i] = "alive"
          /\ process' = [process EXCEPT ![i] = "ended"]
          /\ UNCHANGED <<status, deleted>>

\* The start that owned the process has reaped it, or has ended and taken
\* the process with it.
Release(i) == /\ process[i] # "none"
              /\ process' = [process EXCEPT ![i] = "none"]
              /\ UNCHANGED <<status, deleted>>

Stop(i) == /\ status[i] \in {"running", "lost"} /\ process[i] # "alive"
           /\ Becomes(i, "stopped")

Delete(i) == /\ status[i] # "none" /\ process[i] # "alive"
             /\ status' = [status EXCEPT ![i] = "none"]
             /\ deleted' = deleted \cup {i}
             /\ UNCHANGED process

Lose(i) == /\ status[i] # "none"
           /\ Becomes(i, "lost")

\* A command that dies in a save may take its container with it.
LoseBoth(i) == /\ status[i] = "running" /\ process[i] # "none"
               /\ status' = [status EXCEPT ![i] = "lost"]
               /\ process' = [process EXCEPT ![i] = "none"]
               /\ UNCHANGED deleted

Reappear(i) == /\ status[i] = "none" /\ i \in deleted /\ process[i] = "none"
               /\ Becomes(i, "stopped")

Next ==
    /\ vars' # vars
    /\ \E i \in Ids :
        \/ Create(i) \/ Fork(i) \/ Start(i) \/ End(i) \/ Release(i)
        \/ Stop(i) \/ Delete(i) \/ Lose(i) \/ LoseBoth(i) \/ Reappear(i)

Spec == Init /\ [][Next]_vars
----------------------------------------------------------------------------
\* A container whose process has ended does not stay "running".
EndIsRecorded ==
    \A i \in Ids :
        (status[i] = "running" /\ process[i] # "alive") ~> (status[i] # "running")
=============================================================================
