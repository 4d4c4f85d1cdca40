-------------------------- MODULE MCContainerInit --------------------------
(* ContainerInit on small instances. *)
EXTENDS ContainerInit, TLC

\* No action tells two init processes of a bundle apart.
Symmetry == Permutations(Inits)

M(d, o) == [dest |-> d, options |-> o]

\* Options that are written in capitals.
Capitals == "RO" :> "ro" @@ "rBind" :> "rbind" @@ "Mode=755" :> "mode=755"

\* A list like the example bundle's; bind mounts, and changes of mounts that
\* are there or are not; one mount hidden by a later one.
ExampleLists ==
    {<<M(<<"sys">>, <<"nosuid", "RO", "noexec">>), M(<<"proc">>, <<"ro">>)>>,
     <<M(<<"data">>, <<"rBind", "ro">>), M(<<"data">>, <<"private">>)>>,
     <<M(<<"tmp">>, <<"ro", "Mode=755">>), M(<<"tmp">>, <<"remount", "rw">>)>>,
     <<M(<<"dev", "pts">>, <<"ro">>), M(<<"dev">>, <<"nodev">>)>>,
     <<M(<<"tmp">>, <<"nosuid", "slave">>)>>,
     <<M(<<"tmp">>, <<"remount", "ro">>)>>}

OneMount == {<<M(<<"dev">>, <<"nosuid">>)>>}
=============================================================================
