---------------------------- MODULE MCConfig ----------------------------
(* Instances of ConfigLoad and Project for model checking.                 *)
EXTENDS Project, TLC

Here(f) == [kind |-> "file", path |-> f]
GitOf(repo, host, nested, reviewed, path) ==
    [kind |-> "git", repo |-> repo, host |-> host, nested |-> nested,
     reviewed |-> reviewed, path |-> path]
Git(repo, host, nested) == GitOf(repo, host, nested, None, None)

Plain(place, includes, defines) ==
    [at |-> place, real |-> place, exists |-> TRUE, parses |-> TRUE,
     toml |-> TRUE, version |-> None, claims |-> {}, includes |-> includes,
     tasks |-> defines]

\* What a layout about its includes says of everything else.
NoProject ==
    [containers |-> << >>, jobs |-> << >>, unset |-> FALSE, then |-> "complete"]
Layout(fields, rest) == fields @@ rest

Bundle == [A |-> <<"a">>, B |-> <<"b">>, C |-> <<"c">>]

Trusts == {FALSE, TRUE} \X {"unset", "yes"}
RootEntries ==
    {Git(r, t[1], t[2]) : r \in {"A", "B"}, t \in Trusts} \cup {Here("own")}

\* A root that includes two bundles, or a bundle and a file of its own, in any
\* order and with any grants; the bundles include each other and themselves.
TrustLayouts ==
    {Layout([format |-> fmt, checked |-> FALSE, root |-> "root", unreachable |-> {},
      bundle |-> Bundle,
      files |->
        [root |-> [Plain("project", root, {"t"}) EXCEPT !.claims = {"project_name"}],
         own |-> Plain("project", own, {}),
         a |-> Plain("A", ap[1], {"ta"}),
         part |-> Plain("A", ap[2], {}),
         b |-> Plain("B", b, {"tb"}),
         c |-> Plain("C", <<>>, {"tc"})]], NoProject) :
        fmt \in {"native"},
        root \in {<<e>> : e \in RootEntries} \cup (RootEntries \X RootEntries),
        own \in {<<>>, <<Git("B", FALSE, "unset")>>, <<Git("B", TRUE, "yes")>>},
        ap \in ({<<>>, <<Git("B", TRUE, "yes")>>, <<Here("own")>>} \X {<<>>})
               \cup ({<<Here("part")>>, <<Here("part"), Git("B", FALSE, "unset")>>}
                     \X {<<>>, <<Here("a")>>, <<Git("B", FALSE, "yes")>>}),
        b \in {<<>>, <<Git("C", FALSE, "unset")>>, <<Git("A", TRUE, "yes")>>}}

\* A bundle whose entry file is TOML or YAML and reaches another by a local
\* include, named by one Git include or two, with every age of either's version.
Ages == {None, 1, 2, 3}
ReviewLayouts ==
    {Layout([format |-> "native", checked |-> TRUE, root |-> "root", unreachable |-> {},
      bundle |-> [A |-> <<"a">>],
      files |->
        [root |-> [Plain("project", <<GitOf("A", FALSE, "unset", seenBy[1], None)>> \o second,
                         {"t"})
                     EXCEPT !.claims = {"project_name"}, !.version = rootAge],
         a |-> [Plain("A", <<Here("part")>>, {}) EXCEPT !.toml = aToml, !.version = age],
         part |-> [Plain("A", <<Here("a"), Here("tail")>>, {})
                     EXCEPT !.toml = FALSE],
         tail |-> [Plain("A", <<Here("part")>>, {}) EXCEPT !.toml = tailToml]]], NoProject) :
        seenBy \in {<<v>> : v \in Ages},
        second \in {<<>>} \cup {<<GitOf("A", FALSE, "unset", v, "part")>> : v \in {None, 2}}
                   \cup {<<GitOf("A", FALSE, "unset", 2, "tail")>>},
        rootAge \in {None, 2, 3}, age \in Ages, aToml \in BOOLEAN, tailToml \in BOOLEAN}

\* Files that are missing, malformed, links out of their bundle, or say what only
\* a root may, in either format, under a remote that may not answer.
OddFile ==
    [exists : BOOLEAN, parses : BOOLEAN, real : {"A", "project"},
     claims : {{}, {"project_name"}, {"forbid_telemetry"}}, toml : BOOLEAN]
OddLayouts ==
    {Layout([format |-> fmt, checked |-> FALSE, root |-> "root", unreachable |-> lost,
      bundle |-> [A |-> <<"a", "part">>],
      files |->
        [root |-> [Plain("project", <<GitOf("A", FALSE, "unset", rev, None)>>, {"t"})
                     EXCEPT !.claims = named, !.toml = rootToml, !.version = rootAge],
         a |-> [Plain("A", <<Here("part")>>, {"ta"})
                     EXCEPT !.exists = odd.exists, !.parses = odd.parses,
                            !.real = odd.real, !.claims = odd.claims, !.toml = odd.toml],
         part |-> [Plain("A", <<>>, own) EXCEPT !.toml = FALSE]]], NoProject) :
        fmt \in {"native", "compat"}, lost \in {{}, {"A"}}, odd \in OddFile,
        named \in {{}, {"project_name"}}, rootToml \in BOOLEAN,
        rootAge \in {None, 2}, rev \in {None, 2}, own \in {{"tp"}, {"t"}}}

----------------------------------------------------------------------------
(* Projects: a root, a file of its own in either format, and a bundle.     *)

Companions == [x |-> "x check", y |-> "y check", z |-> "z check"]

\* Fields that may be absent: a set of choices, each a function to add.
Or(field, values) == {<< >>} \cup {field :> v : v \in values}
Deps1(sets) == Or("dependencies", sets)

Owner == [Plain("project", <<Here("own"), GitOf("A", FALSE, "unset", None, None)>>, {"t"})
             EXCEPT !.claims = {"project_name"}]

ProjectOf(fmt, ownToml, host, containersOf, job, lacking) ==
    [format |-> fmt, checked |-> FALSE, root |-> "root", unreachable |-> {},
     bundle |-> [A |-> <<"a">>],
     files |->
        [root |-> [Owner EXCEPT !.includes[2].host = host, !.toml = fmt = "native"],
         own |-> [Plain("project/own", <<>>, {}) EXCEPT !.toml = ownToml],
         a |-> [Plain("A", <<>>, {}) EXCEPT !.toml = fmt = "native"]],
     containers |-> containersOf, jobs |-> [t |-> job],
     unset |-> lacking, then |-> "run"]

In(file, fields) == [file |-> file, fields |-> fields]
Run(c, deps, customise, ports) ==
    [run |-> c, dependencies |-> deps, customise |-> customise, ports |-> ports,
     prerequisites |-> FALSE]

\* Who shares whose network, round in a circle too, with what.
NetworkProjects ==
    {ProjectOf("native", TRUE, FALSE,
        [x |-> In("root", x1 @@ x2 @@ x3 @@ ("image" :> "fixed")),
         y |-> In("root", y1 @@ y2 @@ ("image" :> "fixed")),
         z |-> In("root", z1 @@ ("image" :> "fixed"))],
        job, FALSE) :
        x1 \in Or("network_mode", {"host", "y", "z", "nobody"}),
        x2 \in Deps1({{"y"}, {"z"}, {"y", "z"}}),
        x3 \in Or("dns", {"set"}) \cup Or("ports", {"set"}),
        y1 \in Or("network_mode", {"none", "x", "z"}),
        y2 \in Deps1({{"x"}, {"z"}}),
        z1 \in Or("run_to_completion", {TRUE}),
        job \in {Run("x", {}, {}, FALSE), Run("x", {"y"}, {"y"}, TRUE),
                 Run("y", {}, {"x"}, FALSE)}}

\* Setup commands, run to completion and external checks, written or inherited.
CheckProjects ==
    {ProjectOf("native", TRUE, FALSE,
        [x |-> In("root", x1 @@ x2 @@ x3),
         y |-> In("root", y1 @@ y2 @@ ("image" :> "fixed")),
         z |-> In("root", z1 @@ ("image" :> "fixed"))],
        job, FALSE) :
        x1 \in Or("extends", {"z"}) \cup {"image" :> "fixed"},
        x2 \in Deps1({{"y"}, {"y", "z"}, {"y check"}, {"x", "y"}}),
        x3 \in Or("setup_commands", {{"x"}, {"y"}, {"z"}}) \cup Or("run_to_completion", {TRUE}),
        y1 \in Or("external_health_check", {"valid", "invalid"}) \cup
               {("run_to_completion" :> TRUE) @@ ("external_health_check" :> "valid")},
        y2 \in Or("health_check", {"set"}) \cup Deps1({{"z"}}),
        z1 \in Deps1({{"y"}}) \cup {"external_health_check" :> "valid"},
        job \in {Run("x", {}, {}, FALSE), Run("x", {"y"}, {}, FALSE),
                 Run("z", {"x"}, {"y"}, FALSE), Run("y check", {}, {}, FALSE),
                 [Run(None, {}, {}, FALSE) EXCEPT !.prerequisites = TRUE]}}

\* A host path handed down two generations, across files and the bundle.
Volume(by) ==
    {<< >>} \cup
    {"volume" :> [kind |-> w[1], expression |-> w[2], by |-> by] :
        w \in {<<"relative", FALSE>>, <<"host", FALSE>>, <<"host", TRUE>>}}
VolumeProjects ==
    {ProjectOf("native", TRUE, host,
        [x |-> In("root", xv @@ ("extends" :> xp)),
         y |-> In(yf, yv @@ yp),
         z |-> In("a", zv @@ zp @@ ("image" :> "fixed"))],
        Run("x", {}, {}, FALSE), lacking) :
        host \in BOOLEAN, lacking \in BOOLEAN, xp \in {"y", "z", "nobody"},
        yf \in {"own", "a"}, yp \in Or("extends", {"z", "y"}),
        zp \in Or("extends", {"y"}),
        xv \in Volume("x"), yv \in Volume("y"), zv \in Volume("z")}

\* Who a container runs as, and its caches, in each format.
IdentityProjects ==
    {ProjectOf(fmt, ownToml, FALSE,
        [x |-> In("root", x1 @@ x2 @@ x3 @@ x4),
         y |-> In("own", y1 @@ y2 @@ ("image" :> "fixed"))],
        Run("x", {}, {}, FALSE), FALSE) :
        fmt \in {"native", "compat"}, ownToml \in BOOLEAN,
        x1 \in {"extends" :> "y", "image" :> "fixed", "image" :> "expression",
                ("image" :> "fixed") @@ ("build_directory" :> "set")},
        x2 \in Or("user", {"set"}) \cup Or("identity", {"set"}),
        x3 \in Or("group", {"set"}) \cup Or("run_as_current_user", {"enabled", "off"}),
        x4 \in Or("cache", [shared : BOOLEAN, absolute : {FALSE}]),
        y1 \in Or("run_as_current_user", {"enabled", "off"}) \cup Or("user", {"set"}),
        y2 \in Or("cache", [shared : BOOLEAN, absolute : {TRUE}])}

AllLayouts ==
    <<TrustLayouts, ReviewLayouts, OddLayouts,
      NetworkProjects, CheckProjects, VolumeProjects, IdentityProjects>>
==========================================================================
