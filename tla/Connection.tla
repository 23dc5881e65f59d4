---------------------------- MODULE Connection ----------------------------
(***************************************************************************)
(* How a daemon is chosen and connected to (docker/connection.rs), while   *)
(* what it is read from may be removed between any two looks at it.  A     *)
(* file is <<directory, name>>, a context's among those of the directory   *)
(* it is stored in; the files options name are in "named".                 *)
(***************************************************************************)
EXTENDS Absent, Naturals, FiniteSets

CONSTANTS
    Machines,   \* options and environment variables there may be (askings), and
                \* what may be there (disks): directories, files, those of them
                \* whose content is no use, and context stores
    MaxVanish   \* how much is removed meanwhile

\* The disks are disks, and None is no file and none of the words it stands beside.
ASSUME MachinesAssumption ==
    /\ None \notin {"refused", "failed", "plain", "tls", "system trust", "yes", "no", "",
                    "default", "home", "cwd", "negotiated"}
    /\ \A machine \in Machines : \A d \in machine.disks :
          {"dirs", "files", "vanished"} \subseteq DOMAIN d /\ None \notin d.files

VARIABLES
    dial,       \* what was asked, where connecting is, and what it has found
    disk,
    gone        \* directories removed before the one for certificates was looked for

connectionVars == <<dial, disk, gone>>

Given(v) == IF v = "" THEN None ELSE v
First(a, b) == IF a # None THEN a ELSE b

ConnectionInit ==
    /\ \E machine \in Machines : \E asked \in machine.askings :
          /\ dial = [ask |-> asked, at |-> "check", config |-> None, host |-> None, context |-> None,
                     tls |-> None, warned |-> FALSE, note |-> None, how |-> None, said |-> None]
          /\ disk \in machine.disks
    /\ gone = {}

DialEnds(how) == dial' = [dial EXCEPT !.at = "over", !.how = how]

----------------------------------------------------------------------------
(* Which daemon.                                                           *)

\* chosen_config_directory, where an empty DOCKER_CONFIG is the one it is in.
ChosenConfigDirectory(ask) ==
    First(ask.config, IF ask.envConfig = "" THEN "cwd" ELSE ask.envConfig)

ConflictingWithContext(ask) ==
    {ask.host, ask.certPath, ask.ca, ask.cert, ask.key} # {None} \/ ask.tls

\* check_chosen_directories.
ChosenDirectories(ask) ==
    {First(ask.config, Given(ask.envConfig)), First(ask.certPath, Given(ask.envCert))} \ {None}

\* check_directories, check_tls_files, check_context_conflict.
CheckOptions ==
    /\ dial.at = "check"
    /\ LET ask == dial.ask
           files == {ask.ca, ask.cert, ask.key} \ {None}
       IN IF /\ ChosenDirectories(ask) \subseteq disk.dirs
             /\ files \subseteq disk.files
             /\ ask.context # None => ~ConflictingWithContext(ask)
            THEN dial' = [dial EXCEPT !.at = "context"]
            ELSE DialEnds("refused")
    /\ UNCHANGED <<disk, gone>>

\* active_docker_context: a config.json that cannot be read is worth a warning.
ActiveContext(dir) == IF dir \in disk.dirs THEN disk.stores[dir].current ELSE None

\* resolve_context_name.
ContextName(ask, host, active) ==
    LET name == IF ask.context # None THEN ask.context
                ELSE IF host # None THEN None
                ELSE First(Given(ask.envContext), active)
    IN IF name = "default" THEN None ELSE name

ChooseContext ==
    /\ dial.at = "context"
    /\ LET ask == dial.ask
           config == First(ChosenConfigDirectory(ask), "home")
           host == First(ask.host, Given(ask.envHost))
           consulted == ask.context = None /\ host = None /\ Given(ask.envContext) = None
           active == ActiveContext(config)
           name == ContextName(ask, host, IF active = "unreadable" THEN None ELSE active)
       IN dial' = [dial EXCEPT !.config = config, !.host = host, !.context = name,
                               !.warned = consulted /\ active = "unreadable",
                               !.at = IF name = None THEN "enable" ELSE "meta"]
    /\ UNCHANGED <<disk, gone>>

----------------------------------------------------------------------------
(* A context's endpoint.                                                   *)

NoFiles == [ca |-> None, cert |-> None, key |-> None]
ContextFile == [ca |-> "context ca", cert |-> "context cert", key |-> "context key"]

\* docker_cert_directory.
CertDirectory(ask) ==
    First(First(ask.certPath, Given(ask.envCert)), First(ChosenConfigDirectory(ask), "home"))

\* The file that is looked for where no option names one.
OwnFile(what) ==
    IF dial.context # None THEN <<dial.config, ContextFile[what]>>
    ELSE <<CertDirectory(dial.ask), what>>

\* docker_context_endpoint's meta.json.
ReadContext ==
    /\ dial.at = "meta"
    /\ LET meta == IF dial.config \in disk.dirs THEN disk.stores[dial.config].meta ELSE None
       IN IF meta = None \/ meta.host = "unreadable" THEN DialEnds("failed")
          ELSE dial' = [dial EXCEPT !.host = meta.host, !.tls = NoFiles, !.at = "ca",
                          !.note = IF meta.skip THEN "context asked to skip" ELSE None]
    /\ UNCHANGED <<disk, gone>>

\* connect_plain, which has no other scheme.
ConnectPlain ==
    IF dial.host \in {None, "tcp", "unix"} THEN DialEnds("plain") ELSE DialEnds("failed")

\* tls_address: the addresses TLS is spoken to, a bare one counted with tcp.
TlsAddress(host) == host \in {"tcp", "https"}

\* Of a certificate and its key both or neither.
HalfPair == (dial.tls.cert = None) # (dial.tls.key = None)

\* Its certificates, if any: TLS with them, if it asked not to verify, or for
\* https, where the address is one for it (tls_address).
ContextTls ==
    /\ dial.at = "looked" /\ dial.context # None
    /\ IF HalfPair THEN DialEnds("failed")
       ELSE IF \/ dial.tls.ca # None \/ dial.tls.cert # None \/ dial.note # None
               \/ dial.host = "https"
         THEN IF TlsAddress(dial.host) THEN dial' = [dial EXCEPT !.at = "read"]
              ELSE DialEnds("failed")
         ELSE ConnectPlain
    /\ UNCHANGED <<disk, gone>>

----------------------------------------------------------------------------
(* No context.                                                             *)

\* Mutant: what is neither true nor false is not true.
TlsEnabled_Lenient(ask) == IF ask.tls \/ ask.envVerify = "yes" THEN "on" ELSE "off"

\* tls_enabled, boolean_variable::parse.
TlsEnabled(ask) ==
    IF ask.tls THEN "on"
    ELSE CASE Given(ask.envVerify) = None -> "off"
           [] ask.envVerify = "yes" -> "on"
           [] ask.envVerify = "no" -> "off"
           [] OTHER -> "invalid"

\* With no host at all the default is connected to by its own name.
EnableTls ==
    /\ dial.at = "enable"
    /\ LET enabled == TlsEnabled(dial.ask)
       IN IF enabled = "invalid" THEN DialEnds("refused")
          ELSE IF enabled = "off" /\ dial.host # "https" THEN ConnectPlain
          ELSE IF ~TlsAddress(dial.host) THEN DialEnds("failed")
          ELSE dial' = [dial EXCEPT !.at = "certificates"]
    /\ UNCHANGED <<disk, gone>>

\* flag_tls_settings begins: the directory must be there, unless every file is
\* named and it is not consulted.
LookForDirectory ==
    /\ dial.at = "certificates"
    /\ LET ask == dial.ask
       IN IF None \in {ask.ca, ask.cert, ask.key} /\ CertDirectory(ask) \notin disk.dirs
            THEN DialEnds("failed")
            ELSE dial' = [dial EXCEPT !.tls = NoFiles, !.at = "ca"]
    /\ UNCHANGED <<disk, gone>>

\* What came of it.
FlagTls ==
    /\ dial.at = "looked" /\ dial.context = None
    /\ IF HalfPair THEN DialEnds("failed")
       ELSE dial' = [dial EXCEPT !.at = "read",
                       !.note = IF dial.tls.ca = None THEN "system trust" ELSE None]
    /\ UNCHANGED <<disk, gone>>

----------------------------------------------------------------------------
(* The certificates, looked for one after another and only then read.      *)

\* file_in; for an option's file, named, which must be there.
Look(what, next) ==
    /\ dial.at = what
    /\ LET named == IF dial.context = None THEN dial.ask[what] ELSE None
           own == OwnFile(what)
       IN IF named # None /\ named \notin disk.files THEN DialEnds("failed")
          ELSE dial' = [dial EXCEPT !.at = next,
                 !.tls[what] = IF named # None THEN named
                               ELSE IF own \in disk.files THEN own ELSE None]
    /\ UNCHANGED <<disk, gone>>

LookForCa == Look("ca", "cert")
LookForCert == Look("cert", "key")
LookForKey == Look("key", "looked")

\* tls_client_config: every file of the settings is read, and must be of use.
ReadCertificates ==
    /\ dial.at = "read"
    /\ LET files == {dial.tls.ca, dial.tls.cert, dial.tls.key} \ {None}
       IN IF files \subseteq disk.files \ disk.bad THEN DialEnds("tls") ELSE DialEnds("failed")
    /\ UNCHANGED <<disk, gone>>

----------------------------------------------------------------------------
(* The first request, and what else happens.                               *)

\* explain_failure, is_unreachable, holds_certificate_error.
Explain(error) ==
    IF error = "no connection" THEN "unreachable"
    ELSE IF error = "bad certificate" /\ dial.note # None THEN dial.note
    ELSE "failed"

RequestErrors ==
    {"no connection", "no permission", "other"}
        \cup (IF dial.how = "tls" THEN {"bad certificate", "bad handshake"} ELSE {})

\* DockerClient::new: the version of the API, then the daemon's system.
Negotiate ==
    /\ dial.at = "over" /\ dial.how \in {"plain", "tls"} /\ dial.said = None
    /\ \/ \E error \in RequestErrors : dial' = [dial EXCEPT !.said = Explain(error)]
       \/ dial' = [dial EXCEPT !.said = "API too old"]
       \/ dial' = [dial EXCEPT !.said = "negotiated"]
    /\ UNCHANGED <<disk, gone>>

CheckDaemonOs ==
    /\ dial.said = "negotiated"
    /\ \/ \E error \in RequestErrors : dial' = [dial EXCEPT !.said = Explain(error)]
       \/ dial' = [dial EXCEPT !.said = "Windows containers"]
       \/ dial' = [dial EXCEPT !.said = "connected"]
    /\ UNCHANGED <<disk, gone>>

\* From the look for the directory on.
Looking == {"ca", "cert", "key", "looked", "read"}

Vanish ==
    /\ dial.at # "over" /\ disk.vanished < MaxVanish
    /\ \/ \E d \in disk.dirs :
             /\ disk' = [disk EXCEPT !.dirs = @ \ {d}, !.files = {f \in @ : f[1] # d},
                                     !.vanished = @ + 1]
             /\ gone' = IF dial.at \in Looking THEN gone ELSE gone \cup {d}
       \/ \E f \in disk.files :
             /\ disk' = [disk EXCEPT !.files = @ \ {f}, !.vanished = @ + 1]
             /\ gone' = gone
    /\ UNCHANGED dial

ConnectionStep ==
    \/ CheckOptions \/ ChooseContext \/ ReadContext \/ ContextTls \/ EnableTls
    \/ LookForDirectory \/ LookForCa \/ LookForCert \/ LookForKey \/ FlagTls
    \/ ReadCertificates \/ Negotiate \/ CheckDaemonOs \/ Vanish

ConnectionSpec == ConnectionInit /\ [][ConnectionStep]_connectionVars

----------------------------------------------------------------------------
(* Properties.                                                             *)

\* Where a file is looked for that no option names: with the context chosen, or in
\* the directory chosen for certificates, never in that of other contexts.
Place(what) ==
    IF dial.context # None THEN <<dial.config, ContextFile[what]>>
    ELSE <<First(First(dial.ask.certPath, Given(dial.ask.envCert)), dial.config), what>>

\* The file used is the one named; or its place's, or none if there is none there.
AsNamed(what) ==
    IF dial.context = None /\ dial.ask[what] # None THEN dial.tls[what] = dial.ask[what]
    ELSE \/ dial.tls[what] = Place(what)
         \/ dial.tls[what] = None /\ Place(what) \notin disk.files

CertificatesAsNamed ==
    /\ \A what \in {"ca", "cert", "key"} : AsNamed(what)
    /\ (dial.tls.cert = None) = (dial.tls.key = None)
    /\ dial.context = None /\ None \in {dial.ask.ca, dial.ask.cert, dial.ask.key} =>
          First(First(dial.ask.certPath, Given(dial.ask.envCert)), dial.config) \notin gone
    /\ dial.said = "system trust" => dial.tls.ca = None

\* A connection is to the daemon that was asked for, and over TLS if TLS was: an
\* option goes before a variable, a variable before the active context; TLS asked
\* for by a flag, a variable or the address, or by a certificate a context holds,
\* never ends in a plain connection, and a variable nobody can read never in any.
\* (An option that names a certificate does not ask for TLS.)  TLS is used with the
\* certificates named, never half a pair, and passes over none that is there; the
\* directory they come from was there when it was first looked for, though it may
\* go between one look and the next and leave TLS without a client certificate
\* (resolve_host, resolve_context_name, tls_enabled, docker_context_endpoint,
\* flag_tls_settings, connect).
ConnectionAsAsked ==
    dial.how \in {"plain", "tls"} =>
        LET ask == dial.ask
            host == First(ask.host, Given(ask.envHost))
        IN /\ ask.context \notin {None, "default"} => dial.context = ask.context
           /\ ask.context = "default" \/ (ask.context = None /\ host # None) =>
                 dial.context = None /\ dial.host = host
           /\ ask.context = None /\ host = None /\ ask.envContext \notin {None, "", "default"} =>
                 dial.context = ask.envContext
           /\ dial.context = None =>
                 /\ dial.how = "tls" <=> ask.tls \/ ask.envVerify = "yes" \/ dial.host = "https"
                 /\ ask.tls \/ ask.envVerify \in {None, "", "yes", "no"}
           /\ dial.how = "tls" => CertificatesAsNamed
           /\ dial.context # None /\ dial.how = "plain" =>
                 /\ dial.host # "https" /\ dial.note = None
                 /\ \A what \in {"ca", "cert", "key"} : Place(what) \notin disk.files
===========================================================================
