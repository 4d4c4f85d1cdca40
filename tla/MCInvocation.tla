---------------------------- MODULE MCInvocation ----------------------------
(* Invocation on a small vocabulary and a few configurations. *)
EXTENDS Invocation, TLC

F(n, v) == [name |-> n, value |-> v]

MCDashed ==
    "--debug" :> F("debug", <<>>) @@ "-h" :> F("h", <<>>) @@
    "--bundle" :> F("bundle", <<>>) @@ "--bundle=" :> F("bundle", <<"">>) @@
    "-bundle=dir" :> F("bundle", <<"dir">>) @@ "--overlay" :> F("overlay", <<>>) @@
    "--overlay=F" :> F("overlay", <<"F">>) @@ "--detach" :> F("detach", <<>>) @@
    "--detach=1" :> F("detach", <<"1">>) @@ "--detach=maybe" :> F("detach", <<"maybe">>) @@
    "--force" :> F("force", <<>>) @@ "--force=false" :> F("force", <<"false">>) @@
    "-9" :> F("9", <<>>) @@ "---" :> F("", <<>>)

S(n, v) == [name |-> n, number |-> v]

MCSpelled ==
    "sigkill" :> S("KILL", <<>>) @@ "TERM" :> S("TERM", <<>>) @@
    "9" :> S("9", <<9>>) @@ "-9" :> S("-9", <<-9>>) @@ "9lives" :> S("9LIVES", <<9>>)

\* The arguments of the subcommands: any sequence up to a length.
Upto(n, words) == UNION {[1..k -> words] : k \in 0..n}

After1(word, lines) == {<<word>> \o l : l \in lines}

FirstLines ==
    LET create == After1("create", Upto(4, {"--bundle", "-bundle=dir", "--bundle=",
                                "--overlay", "--overlay=F", "--", "dir", "box"}))
        start  == After1("start", Upto(3, {"--detach", "--detach=1", "--detach=maybe",
                                           "--debug", "-h", "--", "box"}))
        kill   == After1("kill", Upto(3, {"-9", "9", "9lives", "sigkill", "TERM",
                                          "--", "box"}))
        others == After1("delete", Upto(2, {"--force", "--force=false", "--", "---", "box"}))
                    \cup After1("state", Upto(2, {"-h", "--", "box"}))
                    \cup Upto(2, {"init", "help", "-h", "--", "--debug", "frob"})
    IN  create \cup start \cup kill \cup others
          \cup After1("--debug", start \cup others)

\* Later lines: create with and without an overlay, start.
LaterLines ==
    {<<"create", "--bundle", "dir", "box">>, <<"create", "-bundle=dir", "--overlay", "box">>,
     <<"start", "box">>}

MCScript == <<FirstLines, LaterLines, LaterLines>>

\* The lines of the usage text and the README that have a flag.
UsageScript ==
    <<{<<"create", "box", "--bundle", "dir">>, <<"start", "box", "--detach">>,
       <<"delete", "box", "--force">>}>>

\* Limits that are missing, negative, zero and positive; roots inside and
\* outside of the bundle; and what validateSpec refuses.
Root(a, p) == [abs |-> a, path |-> p]

Plain == [ociVersion |-> "1.0.2", process |-> [args |-> <<"sh">>],
          root |-> Root(FALSE, "rootfs"), linux |-> Nil]

Limited(c, m, p) ==
    [Plain EXCEPT !.linux = [namespaces |-> <<"mount", "pid", "mount", "time">>,
                             resources |-> [cpu |-> c, memory |-> m, pids |-> p]]]

MCSpecs ==
    {Plain,
     [Plain EXCEPT !.root = Root(TRUE, "image"),
                   !.linux = [namespaces |-> <<>>, resources |-> Nil]],
     Limited([quota |-> 500, period |-> Nil], [limit |-> 64], [limit |-> 8]),
     Limited([quota |-> -1, period |-> 0], [limit |-> -1], [limit |-> 0]),
     Limited([quota |-> Nil, period |-> 900], [limit |-> Nil], Nil),
     [Plain EXCEPT !.process = Nil],
     [Plain EXCEPT !.process = [args |-> <<>>]],
     [Plain EXCEPT !.root = Nil],
     [Plain EXCEPT !.root = Root(FALSE, "")]}
=============================================================================
