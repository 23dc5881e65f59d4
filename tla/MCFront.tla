------------------------------ MODULE MCFront ------------------------------
(***************************************************************************)
(* Instances of the parts around a task run: the displays, a container's   *)
(* output cut into lines, caches and leftovers, the connection to the      *)
(* daemon, and an invocation.  They share no state: a behaviour is one of  *)
(* one part, the others at rest.                                           *)
(***************************************************************************)
EXTENDS Display, Upkeep, Connection, Invocation

VARIABLE part

frontVars == <<part, displayVars, upkeepVars, connectionVars, invocationVars>>

----------------------------------------------------------------------------
(* The displays.                                                           *)

MCSessions ==
    {[graph |-> [t |-> <<"d", "e">>, d |-> <<"e">>, e |-> <<>>], resizes |-> 0, tasks |-> 1],
     [graph |-> [t |-> <<"e">>, e |-> <<>>], resizes |-> 2, tasks |-> 2]}

MCStreamChunks ==
    LET chunks == UNION {[1..n -> {"x", "CR", "LF"}] : n \in 0..3}
    IN {<<a, b>> : a \in chunks, b \in chunks}

DisplayRests ==
    /\ style = [name |-> "simple", stderr |-> FALSE] /\ view = CreateEventSink("simple", 1)
    /\ graph = [t |-> <<>>] /\ phase = "between" /\ at = [t |-> "none"]
    /\ pulled = "no" /\ resizes = 0 /\ tasks = 0

----------------------------------------------------------------------------
(* Caches and leftovers.                                                   *)

MCLeftover(r) ==
    CASE r = "c1" -> [network |-> FALSE, on |-> {"n1"}, project |-> "p", age |-> 2]
      [] r = "n1" -> [network |-> TRUE, on |-> {}, project |-> "p", age |-> 2]
      [] r = "c2" -> [network |-> FALSE, on |-> {"n2"}, project |-> "p", age |-> 0]
      [] r = "n2" -> [network |-> TRUE, on |-> {}, project |-> "p", age |-> 0]
      [] r = "c3" -> [network |-> FALSE, on |-> {"n1"}, project |-> "q", age |-> 2]
      [] r = "c4" -> [network |-> FALSE, on |-> {}, project |-> None, age |-> 2]

MCKeyOf(p) == IF p = "p1" THEN "k1" ELSE "k2"

RunAsk(store, scope, name) ==
    [verb |-> "run", store |-> store, scope |-> scope, names |-> {}, clean |-> FALSE,
     name |-> name, creates |-> {"c2", "n2"}, project |-> None, older |-> 0]
CachesAsk(store, scope, names, clean) ==
    [verb |-> "caches", store |-> store, scope |-> scope, names |-> names, clean |-> clean,
     name |-> None, creates |-> {}, project |-> None, older |-> 0]
ResourcesAsk(project, older, clean) ==
    [verb |-> "resources", store |-> "volume", scope |-> "any", names |-> {}, clean |-> clean,
     name |-> None, creates |-> {}, project |-> project, older |-> older]

RunAsks ==
    {RunAsk(store, scope, name) : store \in {"volume", "directory"},
        scope \in {"project", "shared"}, name \in {"a", "b"}}
CachesAsks ==
    {CachesAsk(store, scope, names, clean) : store \in {"volume", "directory"},
        scope \in {"any", "project", "shared"}, names \in {{}, {"a"}, {"a", "b"}},
        clean \in BOOLEAN}
ResourcesAsks ==
    {ResourcesAsk(project, older, clean) : project \in {None, "p"}, older \in {0, 1},
        clean \in BOOLEAN}

Caches ==
    {[store |-> s, owner |-> o, name |-> n] : s \in {"volume"}, o \in {"k", "other", "shared"},
        n \in {"a"}}
    \cup {[store |-> "directory", owner |-> o, name |-> n] : o \in {"here", "shared"},
            n \in {"a", "b"}}

LinkedCache == [store |-> "directory", owner |-> "here", name |-> "b"]

Situation(key, cached, held, first, second) ==
    [keyFile |-> key, stored |-> cached, resources |-> {"c1", "n1", "c3", "c4"},
     stuck |-> [resources |-> held, caches |-> {LinkedCache}],
     asks |-> [p1 |-> first, p2 |-> second]]

MCSituations ==
    {Situation(key, cached, {}, first, second) :
        key \in {"k", "missing", "link", "many"}, cached \in {{}, Caches},
        first \in CachesAsks, second \in RunAsks}
    \cup {Situation("k", Caches, {}, first, second) :
            first \in CachesAsks, second \in CachesAsks}
    \cup {Situation("k", {}, held, first, second) :
            held \in {{}, {"c1"}}, first \in ResourcesAsks,
            second \in ResourcesAsks \cup {RunAsk("volume", "project", "a")}}

UpkeepRests ==
    /\ keyFile = "k" /\ stored = {} /\ inUse = {} /\ resources = {}
    /\ stuck = [resources |-> {}, caches |-> {}]
    /\ proc = [p \in Procs |->
          [ask |-> RunAsk("volume", "project", "a"), at |-> "over", key |-> None, found |-> {},
           todo |-> {}, chosen |-> {}, done |-> {}, failed |-> {}, how |-> None]]

----------------------------------------------------------------------------
(* The connection.                                                         *)

NoAsk == [host |-> None, context |-> None, config |-> None, tls |-> FALSE, certPath |-> None,
          ca |-> None, cert |-> None, key |-> None, envHost |-> None, envContext |-> None,
          envConfig |-> None, envCert |-> None, envVerify |-> None]

\* Which daemon: every mixture of options, variables and an active context.
WhichDaemon ==
    {[NoAsk EXCEPT !.host = h, !.context = c, !.tls = t, !.config = g, !.envHost = eh,
                   !.envContext = ec, !.envVerify = v] :
        h \in {None, "unix", "https"}, c \in {None, "default", "c"}, t \in BOOLEAN,
        g \in {None, "flag"}, eh \in {None, "", "tcp"}, ec \in {None, "", "c"},
        v \in {None, "", "yes", "junk"}}

\* Which certificates: a daemon reached over TLS.
WhichCertificates ==
    {[NoAsk EXCEPT !.envHost = "tcp", !.tls = TRUE, !.config = g, !.certPath = p, !.ca = a,
                   !.cert = r, !.key = k, !.envConfig = eg, !.envCert = ep] :
        g \in {None, "flag"}, p \in {None, "flag certs"}, a \in {None, <<"named", "ca">>},
        r \in {None, <<"named", "cert">>}, k \in {None, <<"named", "key">>},
        eg \in {None, "", "env"}, ep \in {None, "", "env certs"}}

Directories == {"home", "flag", "env", "cwd", "flag certs", "env certs", "named"}

Disk(dirs, files, bad, stores) ==
    [dirs |-> dirs, files |-> files, bad |-> bad, stores |-> stores, vanished |-> 0]

NoStore == [current |-> None, meta |-> None]
Stores(current, host, skip) ==
    [d \in Directories |->
        IF d \in {"home", "flag"} THEN [current |-> current, meta |-> [host |-> host, skip |-> skip]]
        ELSE NoStore]

Named == {<<"named", n>> : n \in {"ca", "cert", "key"}}
Contexts(names) == {<<d, n>> : d \in {"home", "flag"}, n \in names}

ContextDisks ==
    {Disk(Directories, Contexts(names), {}, Stores("c", host, skip)) :
        names \in {{}, {"context ca"}, {"context cert"}}, host \in {"unix", "tcp", "https", "ssh"},
        skip \in BOOLEAN}
    \cup {Disk(Directories, Named, {}, Stores("unreadable", "unreadable", FALSE))}

CertificateDisks ==
    {Disk(Directories, Named \cup {<<d, n>> : d \in Directories \ {"named"}, n \in names}, {},
          Stores(None, "tcp", FALSE)) :
        names \in SUBSET {"ca", "cert", "key"}}
    \cup {Disk(Directories, Named, {<<"named", "key">>}, Stores(None, "tcp", FALSE)),
          Disk({"named"}, Named, {}, Stores(None, "tcp", FALSE))}

MCMachines ==
    {[askings |-> WhichDaemon, disks |-> ContextDisks],
     [askings |-> WhichCertificates, disks |-> CertificateDisks]}

ConnectionRests ==
    /\ dial = [ask |-> NoAsk, at |-> "over", config |-> None, host |-> None, context |-> None,
               tls |-> None, warned |-> FALSE, note |-> None, how |-> None, said |-> None]
    /\ disk = Disk({}, {}, {}, Stores(None, "tcp", FALSE)) /\ gone = {}

----------------------------------------------------------------------------
(* Invocations: every line of up to three words.                           *)

Long(name, value) == [kind |-> "long", name |-> name, value |-> value]
Short(shorts) == [kind |-> "short", shorts |-> shorts]

MCWords ==
    {Long("clean", None), Long("upgrade", None), Long("clean-cache", None),
     Long("clean-cache", "x"), Long("clean-cache", ""), Short(<<"T">>), Short(<<"f">>),
     Short(<<"f", "=">>), Short(<<"f", "T">>), Short(<<"T", "f">>),
     [kind |-> "dashes"], [kind |-> "plain"]}

MCLines == UNION {[1..n -> MCWords] : n \in 0..3}
MCVerbs == {"run", "tasks", "caches", "includes", "resources", "doctor", "validate", "convert",
            "completions"}
MCTakesValue(option) == option \in {"f", "clean-cache"}
MCTargets == <<"ratect.toml", "inc.toml">>

InvocationRests ==
    /\ inv = [compat |-> FALSE, line |-> <<>>, verb |-> "tasks", at |-> "exited", isRun |-> FALSE,
              stages |-> <<>>, begun |-> {}, error |-> None, truth |-> [as |-> "ok"], said |-> 0,
              exit |-> 0, todo |-> <<>>, written |-> {}, force |-> FALSE]
    /\ file = [t \in Range(Targets) |-> None]

----------------------------------------------------------------------------

Init ==
    \/ /\ part = "display" /\ DisplayInit
       /\ UpkeepRests /\ ConnectionRests /\ InvocationRests
    \/ /\ part = "stream" /\ BufferInit /\ DisplayRests
       /\ UpkeepRests /\ ConnectionRests /\ InvocationRests
    \/ /\ part = "upkeep" /\ UpkeepInit
       /\ DisplayRests /\ buffer = None /\ ConnectionRests /\ InvocationRests
    \/ /\ part = "connection" /\ ConnectionInit
       /\ DisplayRests /\ buffer = None /\ UpkeepRests /\ InvocationRests
    \/ /\ part = "invocation" /\ InvocationInit
       /\ DisplayRests /\ buffer = None /\ UpkeepRests /\ ConnectionRests

DisplayNext == DisplayStep /\ UNCHANGED <<part, upkeepVars, connectionVars, invocationVars>>

StreamNext ==
    /\ part = "stream"
    /\ ReceiveChunk \/ StreamOver
    /\ UNCHANGED <<part, style, view, graph, phase, at, pulled, resizes, tasks, upkeepVars,
                   connectionVars, invocationVars>>

UpkeepNext ==
    /\ \E p \in Procs : UpkeepStep(p)
    /\ UNCHANGED <<part, displayVars, connectionVars, invocationVars>>

ConnectionNext ==
    ConnectionStep /\ UNCHANGED <<part, displayVars, upkeepVars, invocationVars>>

InvocationNext ==
    InvocationStep /\ UNCHANGED <<part, displayVars, upkeepVars, connectionVars>>

Next ==
    CASE part = "display" -> DisplayNext
      [] part = "stream" -> StreamNext
      [] part = "upkeep" -> UpkeepNext
      [] part = "connection" -> ConnectionNext
      [] part = "invocation" -> InvocationNext

Spec == Init /\ [][Next]_frontVars
============================================================================
